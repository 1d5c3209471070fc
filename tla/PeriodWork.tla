------------------------------ MODULE PeriodWork ------------------------------
(***************************************************************************)
(* The work of a campaign period (shared_campaign_work). Every row of a    *)
(* period is written together with a numbered work row, its lookup and the *)
(* period's counters; sweeps pass over the work and erase what is due,     *)
(* drain a period that is over and seal it once nothing is left. Its key   *)
(* is then retired, and the prefix of retired periods moves on.            *)
(* What the rows are, and who writes and erases them, is module Campaign.  *)
(***************************************************************************)
EXTENDS Naturals, FiniteSets, FiniteSetsExt

CONSTANTS
  Last,      \* the last period
  Targets,   \* rows of a period
  Groups,    \* those that are erased together (a locator and what it locates)
  Sweeps,    \* invocations of the scheduler at work at once
  Limit, Attempts, \* work rows of a query, and of one pass of a sweep
  Span, Recovery,  \* PERIOD_SECONDS and RECOVERY_SECONDS
  MaxOrdinal, MaxPass, MaxTime, \* bounds: work rows of a period, passes over it, the clock
  None

VARIABLES
  now,
  registry, \* PERIOD# rows: how far admission and the key's retirement are
  control,  \* PERIOD_WORK_CONTROL rows
  target,   \* the rows: their deadline
  work,     \* PERIOD_WORK rows, by ordinal
  lookup,   \* WORK_LOOKUP rows: the ordinal of a target's work
  key,      \* the periods' KMS keys
  prefix,   \* the last period of the retired prefix
  sweep,    \* PERIOD_SWEEP: the period to select next
  job,
  tried,    \* ghost: the ordinals the current pass has come to
  waiting   \* ghost: selections since a period was selected

vars == <<now, registry, control, target, work, lookup, key, prefix, sweep, job, tried, waiting>>

Periods == 1..Last
End(p) == p * Span
RetireAfter(p) == End(p) + Recovery
Ordinals == 1..MaxOrdinal
Order == <<"OPEN", "CLOSING", "DRAINING", "SEALED", "INTENT", "DISABLED", "SCHEDULED">>
Stage(p) == CHOOSE i \in DOMAIN Order : Order[i] = registry[p].state
Sealed(p) == Stage(p) >= 4

Idle == [phase |-> "idle"]

TypeOK ==
  /\ now \in 0..MaxTime /\ prefix \in 0..Last
  /\ \A p \in Periods :
       /\ registry[p].state \in Range(Order) /\ key[p] \in {"Enabled", "Disabled", "PendingDeletion", "Gone"}
       /\ control[p].cursor <= control[p].high /\ control[p].high < control[p].next

NewControl == [revision |-> 1, next |-> 1, pending |-> 0, pass |-> 0, cursor |-> 0, high |-> 0]

Init ==
  /\ now = 0 /\ prefix = 0 /\ sweep = None
  /\ registry = [p \in Periods |-> [state |-> "OPEN", sealNext |-> None]]
  /\ control = [p \in Periods |-> NewControl]
  /\ target = [p \in Periods |-> [t \in Targets |-> None]]
  /\ work = [p \in Periods |-> [o \in Ordinals |-> None]]
  /\ lookup = [p \in Periods |-> [t \in Targets |-> None]]
  /\ key = [p \in Periods |-> "Enabled"]
  /\ job = [s \in Sweeps |-> Idle]
  /\ tried = [p \in Periods |-> {}] /\ waiting = [p \in Periods |-> 0]

Go(s, next) == job' = [job EXCEPT ![s] = next]
Rows == <<target, work, lookup>>
Ghosts == <<tried, waiting>>

-----------------------------------------------------------------------------
(* Tracked writes: a row, its work, its lookup and the counters, in one      *)
(* transaction conditioned on the registry and on all of them as they were   *)
(* read, so that each is one step.                                           *)

\* P.validate: a row is put while its period admits, and ends with its recovery.
Admits(p) == Stage(p) <= 2

Put(p, t, deadline) ==
  /\ Admits(p) /\ now < deadline /\ deadline <= RetireAfter(p)
  /\ p * Span <= now + Span
  /\ target' = [target EXCEPT ![p][t] = deadline]
  /\ \/ /\ lookup[p][t] = None /\ control[p].next <= MaxOrdinal
        /\ LET o == control[p].next IN
             /\ work' = [work EXCEPT ![p][o] = [target |-> t, deadline |-> deadline]]
             /\ lookup' = [lookup EXCEPT ![p][t] = o]
             /\ control' = [control EXCEPT ![p].revision = @ + 1, ![p].next = @ + 1, ![p].pending = @ + 1]
     \/ /\ lookup[p][t] # None /\ deadline < target[p][t]
        /\ work' = [work EXCEPT ![p][lookup[p][t]].deadline = deadline]
        /\ control' = [control EXCEPT ![p].revision = @ + 1] /\ UNCHANGED lookup
  /\ UNCHANGED <<now, registry, key, prefix, sweep, job, tried, waiting>>

\* A delete of rows takes their work and lookups along, and counts each.
DeleteRows(p, ts) ==
  LET there == {t \in ts : target[p][t] # None} IN
    /\ target' = [target EXCEPT ![p] = [t \in Targets |-> IF t \in there THEN None ELSE @[t]]]
    /\ work' = [work EXCEPT ![p] = [o \in Ordinals |->
                  IF @[o] # None /\ \E t \in there : lookup[p][t] = o THEN None ELSE @[o]]]
    /\ lookup' = [lookup EXCEPT ![p] = [t \in Targets |-> IF t \in there THEN None ELSE @[t]]]
    /\ control' = [control EXCEPT ![p].revision = @ + 1, ![p].pending = @ - Cardinality(there)]

\* An account's withdrawal or deletion erases a group (paired_delete).
EraseGroup(p, g) ==
  /\ ~Sealed(p) /\ \E t \in g : target[p][t] # None
  /\ DeleteRows(p, g)
  /\ UNCHANGED <<now, registry, key, prefix, sweep, job, tried, waiting>>

-----------------------------------------------------------------------------
(* A tick of the scheduler *)

Current == Min({Last, now \div Span + 1})
Minimum == prefix + 1

\* The period after the last one selected, among those not retired yet; the cursor moves
\* on before anything is attempted.
Select(s) ==
  /\ job[s] = Idle /\ Minimum <= Current
  /\ LET p == IF sweep = None \/ sweep \notin Minimum..Current THEN Minimum ELSE sweep IN
       /\ sweep' = IF p = Current THEN Minimum ELSE p + 1
       /\ waiting' = [q \in Periods |-> IF q = p \/ q \notin Minimum..Current THEN 0 ELSE Min({waiting[q] + 1, Last + 1})]
       /\ Go(s, [phase |-> "selected", period |-> p])
  /\ UNCHANGED <<now, registry, control, target, work, lookup, key, prefix, tried>>

\* period_pass: the registry and the control are read; a period whose time is over is
\* closed, or drained after its recovery.
Due(p) == IF now >= RetireAfter(p) THEN "DRAINING"
          ELSE IF now >= End(p) /\ registry[p].state = "OPEN" THEN "CLOSING" ELSE registry[p].state

Enter(s) ==
  LET p == job[s].period IN
    /\ job[s].phase = "selected" /\ ~Sealed(p)
    /\ registry' = [registry EXCEPT ![p].state = Due(p)]
    /\ Go(s, [phase |-> "entered", period |-> p, record |-> Due(p), control |-> control[p]])
    /\ UNCHANGED <<now, control, target, work, lookup, key, prefix, sweep, tried, waiting>>

Holds(s) == registry[job[s].period].state = job[s].record

\* A pass that came to its end is followed by a new one, over the work there is now; and
\* the query of what is next.
Begin(s) ==
  LET p == job[s].period
      ended == job[s].control.cursor = job[s].control.high
      at == IF ended THEN [job[s].control EXCEPT !.revision = @ + 1, !.pass = @ + 1, !.cursor = 0,
                                                 !.high = job[s].control.next - 1]
                     ELSE job[s].control
      left == {o \in at.cursor + 1..at.high : work[p][o] # None}
      items == {o \in left : Cardinality({i \in left : i <= o}) <= Limit} IN
    /\ job[s].phase = "entered"
    /\ ended => Holds(s) /\ control[p] = job[s].control /\ at.pass <= MaxPass
    /\ control' = IF ended THEN [control EXCEPT ![p] = at] ELSE control
    /\ tried' = IF ended THEN [tried EXCEPT ![p] = {}] ELSE tried
    /\ Go(s, [phase |-> "items", period |-> p, record |-> job[s].record,
              pass |-> at.pass, cursor |-> at.cursor, due |-> None,
              items |-> {[ordinal |-> o, row |-> work[p][o]] : o \in items}, left |-> Attempts,
              whole |-> Cardinality(items) <= Attempts /\ items = left])
    /\ UNCHANGED <<now, registry, target, work, lookup, key, prefix, sweep, waiting>>

Item(s) == CHOOSE i \in job[s].items : \A k \in job[s].items : i.ordinal <= k.ordinal

\* One item: the cursor moves to it first. If its work is still there and due, or the
\* period drains, its group is next.
Advance(s) ==
  LET p == job[s].period
      i == Item(s) IN
    /\ job[s].phase = "items" /\ job[s].due = None /\ job[s].items # {} /\ job[s].left > 0
    /\ Holds(s) /\ control[p].pass = job[s].pass /\ control[p].cursor = job[s].cursor
    /\ work[p][i.ordinal] \in {None, i.row}
    /\ control' = [control EXCEPT ![p].revision = @ + 1, ![p].cursor = i.ordinal]
    /\ tried' = [tried EXCEPT ![p] = @ \cup {i.ordinal}]
    /\ Go(s, [job[s] EXCEPT !.items = @ \ {i}, !.cursor = i.ordinal, !.left = @ - 1,
                            !.due = IF work[p][i.ordinal] # None
                                       /\ (job[s].record = "DRAINING" \/ i.row.deadline <= now)
                                    THEN i.row ELSE None])
    /\ UNCHANGED <<now, registry, target, work, lookup, key, prefix, sweep, waiting>>

\* _group: the target with all that is erased together with it; before the drain, only
\* if all of that is due. It is there as the work row says, or not at all.
GroupOf(t) == CHOOSE g \in Groups : t \in g

Group(s) ==
  LET p == job[s].period
      g == GroupOf(job[s].due.target) IN
    /\ job[s].phase = "items" /\ job[s].due # None
    /\ Holds(s) /\ target[p][job[s].due.target] = job[s].due.deadline
    /\ job[s].record # "DRAINING" => \A t \in g : target[p][t] # None => target[p][t] <= now
    /\ DeleteRows(p, g)
    /\ Go(s, [job[s] EXCEPT !.due = None])
    /\ UNCHANGED <<now, registry, key, prefix, sweep, tried, waiting>>

\* What could not be erased is passed over, and left to a later pass.
PassOver(s) ==
  /\ job[s].phase = "items" /\ job[s].due # None
  /\ Go(s, [job[s] EXCEPT !.due = None])
  /\ UNCHANGED <<now, registry, control, target, work, lookup, key, prefix, sweep, tried, waiting>>

\* Did the pass come to its end with these items?
WholePass(s) == job[s].whole

Finish(s) ==
  LET p == job[s].period IN
    /\ job[s].phase = "items" /\ job[s].due = None /\ (job[s].items = {} \/ job[s].left = 0)
    /\ IF WholePass(s)
       THEN /\ Holds(s) /\ control[p].pass = job[s].pass
            /\ control' = [control EXCEPT ![p].revision = @ + 1, ![p].cursor = control[p].high]
       ELSE UNCHANGED control
    /\ IF job[s].record = "DRAINING" /\ control'[p].pending = 0
       THEN Go(s, [phase |-> "drained", period |-> p, record |-> job[s].record, control |-> control'[p]])
       ELSE Go(s, Idle)
    /\ UNCHANGED <<now, registry, target, work, lookup, key, prefix, sweep, tried, waiting>>

Empty(p) == \A o \in Ordinals : work[p][o] = None

\* seal: no work row is left, and neither counters nor registry have moved.
Seal(s) ==
  LET p == job[s].period IN
    /\ job[s].phase = "drained" /\ Empty(p) /\ Holds(s) /\ control[p] = job[s].control
    /\ registry' = [registry EXCEPT ![p] = [state |-> "SEALED", sealNext |-> control[p].next]]
    /\ Go(s, Idle)
    /\ UNCHANGED <<now, control, target, work, lookup, key, prefix, sweep, tried, waiting>>

-----------------------------------------------------------------------------
(* Retirement of a sealed period's key *)

\* evidence: the seal, and still nothing under it.
Evidence(p) ==
  Sealed(p) /\ control[p].pending = 0 /\ control[p].next = registry[p].sealNext /\ Empty(p)

\* retire: an intent is recorded before the key is touched.
Intend(s) ==
  LET p == job[s].period IN
    /\ job[s].phase = "selected" /\ Evidence(p)
    /\ \/ /\ registry[p].state = "SEALED" /\ key[p] \in {"Enabled", "Disabled"}
          /\ registry' = [registry EXCEPT ![p].state = "INTENT"]
          /\ Go(s, [phase |-> "intended", period |-> p])
       \/ /\ registry[p].state \in {"INTENT", "DISABLED"} /\ UNCHANGED registry
          /\ Go(s, [phase |-> "intended", period |-> p])
       \/ /\ registry[p].state = "SCHEDULED" /\ key[p] \in {"PendingDeletion", "Gone"} /\ UNCHANGED registry
          /\ Go(s, [phase |-> "retired", period |-> p])
    /\ UNCHANGED <<now, control, target, work, lookup, key, prefix, sweep, tried, waiting>>

\* What the key and the registry say decides the next call; the key itself is moved
\* outside of any transaction.
Observe(s) ==
  LET p == job[s].period IN
    /\ job[s].phase = "intended" /\ Evidence(p)
    /\ \/ key[p] = "Enabled" /\ registry[p].state = "INTENT"
          /\ Go(s, [phase |-> "disable", period |-> p, record |-> registry[p].state])
       \/ key[p] = "Disabled"
          /\ Go(s, [phase |-> "disabled", period |-> p, record |-> registry[p].state])
       \/ key[p] = "PendingDeletion" /\ registry[p].state = "DISABLED"
          /\ Go(s, [phase |-> "scheduled", period |-> p, record |-> registry[p].state])
    /\ UNCHANGED <<now, registry, control, target, work, lookup, key, prefix, sweep, tried, waiting>>

DisableKey(s) ==
  LET p == job[s].period IN
    /\ job[s].phase = "disable"
    /\ key' = [key EXCEPT ![p] = IF @ = "Enabled" THEN "Disabled" ELSE @]
    /\ Go(s, [job[s] EXCEPT !.phase = "disabled"])
    /\ UNCHANGED <<now, registry, control, target, work, lookup, prefix, sweep, tried, waiting>>

MarkDisabled(s) ==
  LET p == job[s].period IN
    /\ job[s].phase = "disabled" /\ key[p] = "Disabled" /\ Evidence(p) /\ Holds(s)
    /\ registry' = [registry EXCEPT ![p].state = "DISABLED"]
    /\ Go(s, [job[s] EXCEPT !.phase = "schedule", !.record = "DISABLED"])
    /\ UNCHANGED <<now, control, target, work, lookup, key, prefix, sweep, tried, waiting>>

ScheduleKey(s) ==
  LET p == job[s].period IN
    /\ job[s].phase = "schedule"
    /\ key' = [key EXCEPT ![p] = IF @ = "Disabled" THEN "PendingDeletion" ELSE @]
    /\ Go(s, [job[s] EXCEPT !.phase = "scheduled"])
    /\ UNCHANGED <<now, registry, control, target, work, lookup, prefix, sweep, tried, waiting>>

MarkScheduled(s) ==
  LET p == job[s].period IN
    /\ job[s].phase = "scheduled" /\ key[p] = "PendingDeletion" /\ Evidence(p)
    /\ registry[p].state = "DISABLED"
    /\ registry' = [registry EXCEPT ![p].state = "SCHEDULED"]
    /\ Go(s, [phase |-> "retired", period |-> p])
    /\ UNCHANGED <<now, control, target, work, lookup, key, prefix, sweep, tried, waiting>>

\* advance_prefix: the next period only, sealed and scheduled.
AdvancePrefix(s) ==
  LET p == job[s].period IN
    /\ job[s].phase = "retired" /\ p = Minimum /\ Evidence(p) /\ registry[p].state = "SCHEDULED"
    /\ prefix' = p /\ Go(s, Idle)
    /\ UNCHANGED <<now, registry, control, target, work, lookup, key, sweep, tried, waiting>>

\* A check or a transaction that fails, the budget, a crash, or simply nothing more to do.
Stop(s) ==
  /\ job[s] # Idle /\ Go(s, Idle)
  /\ UNCHANGED <<now, registry, control, target, work, lookup, key, prefix, sweep, tried, waiting>>

DestroyKey(p) ==
  /\ key[p] = "PendingDeletion" /\ key' = [key EXCEPT ![p] = "Gone"]
  /\ UNCHANGED <<now, registry, control, target, work, lookup, prefix, sweep, job, tried, waiting>>

Tick ==
  /\ now < MaxTime /\ now' = now + 1
  /\ UNCHANGED <<registry, control, target, work, lookup, key, prefix, sweep, job, tried, waiting>>

Next ==
  \/ \E p \in Periods :
       \/ \E t \in Targets : \E d \in 1..MaxTime : Put(p, t, d)
       \/ \E g \in Groups : EraseGroup(p, g)
       \/ DestroyKey(p)
  \/ \E s \in Sweeps :
       \/ Select(s) \/ Enter(s) \/ Begin(s) \/ Advance(s) \/ Group(s) \/ PassOver(s) \/ Finish(s)
       \/ Seal(s) \/ Intend(s) \/ Observe(s) \/ DisableKey(s) \/ MarkDisabled(s) \/ ScheduleKey(s)
       \/ MarkScheduled(s) \/ AdvancePrefix(s) \/ Stop(s)
  \/ Tick

Spec == Init /\ [][Next]_vars

-----------------------------------------------------------------------------
(* Properties *)

\* Rows, work, lookups and counters agree, whoever wrote or erased last.
IndexExact ==
  \A p \in Periods :
    /\ control[p].pending = Cardinality({o \in Ordinals : work[p][o] # None})
    /\ \A t \in Targets :
         /\ (target[p][t] = None) = (lookup[p][t] = None)
         /\ target[p][t] # None => work[p][lookup[p][t]] = [target |-> t, deadline |-> target[p][t]]
    /\ \A o \in Ordinals : work[p][o] # None => o < control[p].next /\ lookup[p][work[p][o].target] = o

\* A pass that is over came to every work row that was there when it began and still is.
PassCovers ==
  \A p \in Periods : control[p].cursor = control[p].high =>
    \A o \in 1..control[p].high : work[p][o] # None => o \in tried[p]

\* The key is disabled only behind a seal, and under a seal there is nothing; its
\* retirement is recorded when it is scheduled, and the prefix has no gap.
RetiredSoundly ==
  /\ \A p \in Periods :
       /\ Sealed(p) => /\ \A t \in Targets : target[p][t] = None
                       /\ registry[p].sealNext = control[p].next
       /\ key[p] # "Enabled" => Stage(p) >= 5
       /\ key[p] \in {"PendingDeletion", "Gone"} => Stage(p) >= 6
       /\ registry[p].state = "SCHEDULED" => key[p] \in {"PendingDeletion", "Gone"}
  /\ \A p \in 1..prefix : registry[p].state = "SCHEDULED"

\* Every period there is to look after has its turn before another has two.
PeriodsFair == \A p \in Periods : waiting[p] <= Last

\* A period only goes on, and is not written to once it drains.
OneWay ==
  \A p \in Periods :
    /\ Stage(p) <= Stage(p)'
    /\ Stage(p) >= 3 => \A t \in Targets : target'[p][t] # None => target'[p][t] = target[p][t]
-----------------------------------------------------------------------------
(* The invariant the properties are proved from (CampaignProofs) *)

\* What the rows are made of.
WorkRows == [target : Targets, deadline : Nat]
Controls == [revision : Nat, next : 1..MaxOrdinal + 1, pending : Nat, pass : Nat, cursor : Nat, high : 0..MaxOrdinal]

\* The settings, as any deployment has them: a span, and every row in a group of its own or with others.
WorkAssumption ==
  /\ {Last, Limit, Attempts, Recovery, MaxOrdinal, MaxPass, MaxTime} \subseteq Nat /\ Span \in Nat \ {0}
  /\ Groups \subseteq SUBSET Targets /\ \A t \in Targets : \E g \in Groups : t \in g
  /\ None \notin Nat /\ None \notin WorkRows

\* What has work behind the cursor was come to.
RowsInv ==
  /\ registry \in [Periods -> [state : Range(Order), sealNext : Nat \cup {None}]]
  /\ control \in [Periods -> Controls]
  /\ target \in [Periods -> [Targets -> Nat \cup {None}]]
  /\ work \in [Periods -> [Ordinals -> WorkRows \cup {None}]]
  /\ lookup \in [Periods -> [Targets -> Ordinals \cup {None}]]
  /\ key \in [Periods -> {"Enabled", "Disabled", "PendingDeletion", "Gone"}]
  /\ tried \in [Periods -> SUBSET Nat]
  /\ \A p \in Periods, o \in Ordinals : o <= control[p].cursor /\ work[p][o] # None => o \in tried[p]

\* A run in its pass, and one on its way with a key.
Passing == [phase : {"items"}, period : Periods, record : {"OPEN", "CLOSING", "DRAINING"}, pass : Nat, cursor : Nat,
            due : WorkRows \cup {None}, items : SUBSET [ordinal : Ordinals, row : WorkRows], left : Nat, whole : BOOLEAN]
Keying == [phase : {"disable", "disabled", "schedule", "scheduled"}, period : Periods, record : Range(Order)]

\* Work there was when a pass began was come to, is at hand, or comes after what is.
ItemsInv(j) ==
  LET c == control[j.period]
      at == {i.ordinal : i \in j.items} IN
    /\ j \in Passing /\ j.pass <= c.pass /\ \A o \in at : j.cursor < o
    /\ \A i, k \in j.items : i.ordinal = k.ordinal => i = k
    /\ j.whole => Cardinality(at) <= j.left
    /\ j.pass = c.pass =>
         /\ \A o \in at : o <= c.high
         /\ \A o \in Ordinals : o <= c.high /\ work[j.period][o] # None =>
              o \in tried[j.period] \cup at \/ (~j.whole /\ \A q \in at : q < o)

\* A run knows a control there was, and how far the period's admission or retirement had come.
JobInv(j) ==
  /\ j.phase \in {"selected", "entered", "items", "drained", "intended", "retired", "disable", "disabled", "schedule",
                  "scheduled"}
  /\ j.period \in Periods
  /\ j.phase = "entered" => j.record \in {"OPEN", "CLOSING", "DRAINING"}
  /\ j.phase = "drained" => j.record = "DRAINING"
  /\ j.phase = "entered" =>
       LET c == control[j.period] IN
         /\ j.control \in Controls /\ j.control.cursor <= j.control.high /\ j.control.high < j.control.next
         /\ j.control.pass <= c.pass
         /\ j.control.pass = c.pass => j.control.high = c.high /\ j.control.cursor <= c.cursor
  /\ j.phase = "items" => ItemsInv(j)
  /\ j.phase \in {"intended", "disable", "disabled", "schedule"} => Stage(j.period) >= 5
  /\ j.phase \in {"disable", "disabled", "schedule", "scheduled"} => j \in Keying
  /\ j.phase = "disable" => j.record = "INTENT"
  /\ j.phase = "disabled" => j.record \in {"INTENT", "DISABLED"}
  /\ j.phase = "schedule" => Stage(j.period) >= 6

\* Whose turn it is, and how many turns a period may have missed since its own.
Turn == IF sweep = None \/ sweep \notin Minimum..Current THEN Minimum ELSE sweep
Missed(p) == IF Turn > p THEN Turn - p - 1 ELSE Last - p + Turn - 1

TurnsInv ==
  /\ sweep \in Periods \cup {None} /\ (sweep # None => sweep <= Current)
  /\ waiting \in [Periods -> 0..Last]
  /\ \A p \in Periods : p > Current => waiting[p] = 0
  /\ \A p \in Minimum..Current : waiting[p] <= Missed(p)

IInv ==
  /\ TypeOK /\ RowsInv /\ IndexExact /\ RetiredSoundly
  /\ DOMAIN job = Sweeps /\ \A s \in Sweeps : job[s] # Idle => JobInv(job[s])
  /\ TurnsInv
=============================================================================
