--------------------------- MODULE RetainedPeriods ---------------------------
(***************************************************************************)
(* The erasure of a deleted account from the campaign periods that are     *)
(* kept (campaign_deletion_bridge.retained_periods), and the read-only     *)
(* report whether anything is left (coverage_assessment).                  *)
(*                                                                         *)
(* Each attempt takes up one period.  Which one is next is written on the  *)
(* account's TOMBSTONE in the period of the request, the anchor, and is    *)
(* moved on before the attempt, so that a period whose key or rows are bad *)
(* does not keep the others waiting.  Attempts of the stream and of the    *)
(* recovery worker may overlap, and the periods end meanwhile: they are    *)
(* drained, sealed and at last left out of the range.                      *)
(*                                                                         *)
(* Left out: what a locator stands for and how its candidate is recounted  *)
(* (Campaign), and the limit of eight periods, past which an attempt ends  *)
(* with an error.  Two copies of a row that differ in their revision alone *)
(* are told apart by a mark, `same`, on whoever holds the older one.       *)
(***************************************************************************)
EXTENDS Integers, FiniteSetsExt

CONSTANTS
  Workers,      \* invocations of the bridge
  Last,         \* the period of the request; the first kept one is 1
  PerPeriod,    \* locators of the account in a period: 1 .. PerPeriod
  Old,          \* periods whose fences would have run out at the request
  Broken,       \* periods whose key cannot be used
  Steps,        \* max_steps
  MaxRevision,  \* bound on claims of the recovery worker
  None

VARIABLES
  period,    \* admissionState of a period
  minimum,   \* the first period that is not retired
  command,   \* the account's deletion
  revision,  \* revision of its recovery job
  rows,      \* locators left in a period
  tomb,      \* TOMBSTONE of the account in a period, or None
  job,       \* what an invocation knows, or None
  view,      \* what the report has read, or None
  reported,  \* a report has found every period empty
  skipped    \* attempts since a period had its turn

vars == <<period, minimum, command, revision, rows, tomb, job, view, reported, skipped>>

Periods == 1 .. Last

Init ==
  /\ period = [p \in Periods |-> "OPEN"]
  /\ minimum = 1
  /\ command = "PENDING"
  /\ revision = 1
  /\ rows = [p \in Periods |-> 1 .. PerPeriod]
  /\ tomb = [p \in Periods |-> None]
  /\ job = [w \in Workers |-> None]
  /\ view = None
  /\ reported = FALSE
  /\ skipped = [p \in Periods |-> 0]

Kept == {p \in minimum .. Last : period[p] # "SEALED"}
Usable(p) == period[p] = "OPEN" /\ p \notin Broken
At(w, step) == job[w] # None /\ job[w].at = step
Fresh == [phase |-> "new", row |-> None, cursor |-> FALSE, next |-> None]

\* Every write depends on the command, on the recovery job as read, on the
\* retired prefix as read, and on the key of its period.
Guarded(w, p) ==
  /\ command = "PENDING"
  /\ job[w].revision = revision
  /\ job[w].minimum = minimum
  /\ period[p] = "OPEN"

\* Of the copies others hold of the TOMBSTONE of p, none is the same any more.
Outdate(p, jobs) ==
  /\ job' = [v \in Workers |-> IF jobs[v] # None /\ jobs[v].at = "advance" /\ jobs[v].last = p
                                THEN [jobs[v] EXCEPT !.same = FALSE] ELSE jobs[v]]
  /\ view' = IF view = None THEN view ELSE [view EXCEPT !.same = @ \ {p}]

-----------------------------------------------------------------------------
(* An attempt *)

\* The sealed periods at the end of the range are stripped off, and the last
\* that is left is the anchor.
Start(w) ==
  /\ job[w] = None
  /\ command = "PENDING"
  /\ Kept # {}
  /\ Usable(Max(Kept))
  /\ job' = [job EXCEPT ![w] = [at |-> "anchor", revision |-> revision, minimum |-> minimum, last |-> Max(Kept),
                                selected |-> None, steps |-> 0, same |-> TRUE]]
  /\ UNCHANGED <<period, minimum, command, revision, rows, tomb, view, reported, skipped>>

\* ensure: the TOMBSTONE is there, or is written unless it would have run out.
Fence(w, p, jobs) ==
  \/ /\ tomb[p] # None
     /\ job' = jobs
     /\ UNCHANGED <<tomb, view>>
  \/ /\ tomb[p] = None
     /\ p \notin Old
     /\ Guarded(w, p)
     /\ tomb' = [tomb EXCEPT ![p] = Fresh]
     /\ Outdate(p, jobs)

Cursor(p) == IF tomb[p] = None THEN None ELSE tomb[p].next

Anchor(w) ==
  LET j == job[w]
      next == Cursor(j.last)
      turn == IF next = None THEN j.minimum ELSE Max({j.minimum, next})
  IN  /\ At(w, "anchor")
      /\ Fence(w, j.last, [job EXCEPT ![w].at = "advance", ![w].selected = turn, ![w].same = tomb[j.last] # None])
      /\ UNCHANGED <<period, minimum, command, revision, rows, reported, skipped>>

\* A TOMBSTONE written by this very attempt is at hand as it was written.
Mine(w) == job[w].same \/ tomb[job[w].last] = Fresh

NextPeriod(j) == IF j.selected = j.last THEN j.minimum ELSE j.selected + 1

\* The turn is taken before the attempt, whatever comes of it.
Advance(w) ==
  LET j == job[w]
  IN  /\ At(w, "advance")
      /\ Mine(w)
      /\ Guarded(w, j.last)
      /\ tomb' = [tomb EXCEPT ![j.last].next = NextPeriod(j)]
      /\ Outdate(j.last, [job EXCEPT ![w].at = "attempt"])
      /\ skipped' = [p \in Periods |-> IF p = j.selected \/ p \notin Kept THEN 0 ELSE skipped[p] + 1]
      /\ UNCHANGED <<period, minimum, command, revision, rows, reported>>

Attempt(w) ==
  /\ At(w, "attempt")
  /\ Usable(job[w].selected)
  /\ Fence(w, job[w].selected, [job EXCEPT ![w].at = "sweep"])
  /\ UNCHANGED <<period, minimum, command, revision, rows, reported, skipped>>

\* locator_progress.sweep, one step of it: a locator is noted, deleted with
\* its row, and its candidate recounted.
Sweep(w) ==
  LET p == job[w].selected
      t == tomb[p]
      on == [job EXCEPT ![w].steps = @ + 1]
      over == [job EXCEPT ![w] = None]
  IN  /\ At(w, "sweep")
      /\ t # None
      /\ job[w].steps < Steps
      /\ Guarded(w, p)
      /\ \/ /\ t.phase = "new"
            /\ tomb' = [tomb EXCEPT ![p].phase = "SEEK"]
            /\ Outdate(p, on)
            /\ UNCHANGED rows
         \/ /\ t.phase = "SEEK"
            /\ rows[p] = {}
            /\ tomb' = [tomb EXCEPT ![p].cursor = FALSE]
            /\ Outdate(p, over)
            /\ UNCHANGED rows
         \/ /\ t.phase = "SEEK"
            /\ \E r \in rows[p], more \in BOOLEAN :
                 tomb' = [tomb EXCEPT ![p].phase = "DELETE", ![p].row = r, ![p].cursor = more]
            /\ Outdate(p, on)
            /\ UNCHANGED rows
         \/ /\ t.phase = "DELETE"
            /\ rows' = [rows EXCEPT ![p] = @ \ {t.row}]
            /\ \/ tomb' = [tomb EXCEPT ![p].phase = "RECOMPUTE", ![p].row = None]
               \/ tomb' = [tomb EXCEPT ![p].phase = "SEEK", ![p].row = None]
            /\ Outdate(p, on)
         \/ /\ t.phase = "RECOMPUTE"
            /\ tomb' = [tomb EXCEPT ![p].phase = "SEEK"]
            /\ Outdate(p, on)
            /\ UNCHANGED rows
      /\ UNCHANGED <<period, minimum, command, revision, reported, skipped>>

\* An error, the time budget or the end of the steps; the turn is spent.
Leave(w) ==
  /\ job[w] # None
  /\ job' = [job EXCEPT ![w] = None]
  /\ UNCHANGED <<period, minimum, command, revision, rows, tomb, view, reported, skipped>>

\* The recovery worker reschedules the job before it calls for an attempt.
Reschedule ==
  /\ command = "PENDING"
  /\ revision < MaxRevision
  /\ revision' = revision + 1
  /\ UNCHANGED <<period, minimum, command, rows, tomb, job, view, reported, skipped>>

Idle(p) == tomb[p] # None /\ tomb[p].phase = "SEEK" /\ ~tomb[p].cursor
Clean(p) == period[p] = "SEALED" \/ (rows[p] = {} /\ tomb[p] # None /\ tomb[p].phase = "SEEK")

\* The proof of the whole range, and the receipt with it.
Complete ==
  /\ command = "PENDING"
  /\ \A p \in Kept : Usable(p) /\ Idle(p) /\ rows[p] = {}
  /\ command' = "COMPLETE"
  /\ UNCHANGED <<period, minimum, revision, rows, tomb, job, view, reported, skipped>>

-----------------------------------------------------------------------------
(* The periods *)

\* The scheduler drains a period that is over, whatever is left in it.
BeginDrain(p) ==
  /\ period[p] = "OPEN"
  /\ period' = [period EXCEPT ![p] = "DRAINING"]
  /\ UNCHANGED <<minimum, command, revision, rows, tomb, job, view, reported, skipped>>

Seal(p) ==
  /\ period[p] = "DRAINING"
  /\ period' = [period EXCEPT ![p] = "SEALED"]
  /\ rows' = [rows EXCEPT ![p] = {}]
  /\ tomb' = [tomb EXCEPT ![p] = None]
  /\ Outdate(p, job)
  /\ UNCHANGED <<minimum, command, revision, reported, skipped>>

Retire ==
  /\ minimum <= Last
  /\ period[minimum] = "SEALED"
  /\ minimum' = minimum + 1
  /\ UNCHANGED <<period, command, revision, rows, tomb, job, view, reported, skipped>>

-----------------------------------------------------------------------------
(* The report: one pass over the periods, and one over what was read *)

Look ==
  /\ view = None
  /\ command = "PENDING"
  /\ minimum <= Last
  /\ view' = [at |-> "fence", minimum |-> minimum, p |-> minimum, read |-> {}, same |-> {}]
  /\ UNCHANGED <<period, minimum, command, revision, rows, tomb, job, reported, skipped>>

Viewing(step) == view # None /\ view.at = step

On == IF view.p = Last
        THEN [view EXCEPT !.at = "again", !.p = view.minimum]
        ELSE [view EXCEPT !.at = "fence", !.p = @ + 1]

\* A sealed period is empty; of any other the fence is read first. What it
\* has of the rest, a report of empty periods only needs to know it is idle.
SeeFence ==
  /\ Viewing("fence")
  /\ \/ period[view.p] = "SEALED" /\ view' = On
     \/ /\ Usable(view.p)
        /\ Idle(view.p)
        /\ view' = [view EXCEPT !.at = "rows", !.read = @ \cup {view.p}, !.same = @ \cup {view.p}]
  /\ UNCHANGED <<period, minimum, command, revision, rows, tomb, job, reported, skipped>>

SeeRows ==
  /\ Viewing("rows")
  /\ rows[view.p] = {}
  /\ view' = On
  /\ UNCHANGED <<period, minimum, command, revision, rows, tomb, job, reported, skipped>>

\* Everything read is read again, and must not have changed.
SeeAgain ==
  /\ Viewing("again")
  /\ command = "PENDING"
  /\ minimum = view.minimum
  /\ view.p \in view.read => view.p \in view.same /\ period[view.p] = "OPEN"
  /\ IF view.p = Last
       THEN view' = None /\ reported' = TRUE
       ELSE view' = [view EXCEPT !.p = @ + 1] /\ UNCHANGED reported
  /\ UNCHANGED <<period, minimum, command, revision, rows, tomb, job, skipped>>

\* Rows, a repair or evidence that is missing: no report of emptiness.
Unverified ==
  /\ view # None
  /\ view' = None
  /\ UNCHANGED <<period, minimum, command, revision, rows, tomb, job, reported, skipped>>

-----------------------------------------------------------------------------

Next ==
  \/ \E w \in Workers : Start(w) \/ Anchor(w) \/ Advance(w) \/ Attempt(w) \/ Sweep(w) \/ Leave(w)
  \/ Reschedule \/ Complete \/ Retire
  \/ \E p \in Periods : BeginDrain(p) \/ Seal(p)
  \/ Look \/ SeeFence \/ SeeRows \/ SeeAgain \/ Unverified

Spec == Init /\ [][Next]_vars

-----------------------------------------------------------------------------
(* Properties *)

\* The rows have their fields.
TypeOK ==
  /\ period \in [Periods -> {"OPEN", "DRAINING", "SEALED"}]
  /\ minimum \in 1 .. Last + 1
  /\ command \in {"PENDING", "COMPLETE"}
  /\ rows \in [Periods -> SUBSET (1 .. PerPeriod)]
  /\ \A p \in Periods : tomb[p] # None => tomb[p].next \in Periods \cup {None}
  /\ \A w \in Workers : job[w] # None => job[w].selected \in Periods \cup {None}
  /\ skipped \in [Periods -> Nat]

\* Attempts that overlap, fail or die and bad periods keep no period waiting for
\* longer than all the others of the range have had a turn; an anchor that moves
\* because its period was sealed begins a round again, and there are as many as
\* it has come past.
TurnsAreFair ==
  \A p \in Kept : skipped[p] < Max(Kept) + (Last - Max(Kept)) * Last

\* Once there is a receipt, or a report has found every period empty, each is:
\* no row of the account is left and no recount is under way, and no attempt
\* that was under way then brings a fence into a sealed period.
EmptyForGood ==
  /\ command = "COMPLETE" \/ reported => \A p \in Periods : Clean(p)
  /\ \A p \in Periods : period[p] = "SEALED" => tomb[p] = None
-----------------------------------------------------------------------------
(* The invariant the properties are proved from (CampaignProofs) *)

Tombs == [phase : {"new", "SEEK", "DELETE", "RECOMPUTE"}, row : 1 .. PerPeriod \cup {None}, cursor : BOOLEAN,
          next : Periods \cup {None}]

RetainedAssumption ==
  /\ Last \in Nat \ {0} /\ {PerPeriod, Steps, MaxRevision} \subseteq Nat
  /\ None \notin Nat /\ None \notin Tombs

\* Whose turn it is, of the range from min to a.
Turn(min, a) == IF Cursor(a) = None \/ Cursor(a) < min THEN min ELSE Cursor(a)

\* An attempt knows a range that was there, and its turn is in it. As long as its
\* anchor is as it read it, it has the turn.
JobInv(j) ==
  /\ j \in [at : {"anchor", "advance", "attempt", "sweep"}, revision : Nat, minimum : Periods, last : Periods,
            selected : Periods \cup {None}, steps : Nat, same : BOOLEAN]
  /\ j.minimum <= j.last
  /\ j.selected # None => j.selected <= j.last
  /\ j.at # "anchor" => j.selected # None
  /\ \A p \in j.last + 1 .. Last : period[p] = "SEALED"
  /\ j.at = "advance" /\ j.same => tomb[j.last] # None
  /\ j.at = "advance" /\ period[j.last] = "OPEN" /\ (j.same \/ Cursor(j.last) = None) =>
       j.selected = Turn(j.minimum, j.last)

\* A period was sealed, or its rows were gone.
Seen(p) == IF p \in view.read THEN rows[p] = {} ELSE period[p] = "SEALED"

\* What the report has read was so when it was read, and still is while the TOMBSTONE is
\* the same; what it has read again is clean.
ViewInv ==
  /\ view \in [at : {"fence", "rows", "again"}, minimum : Periods, p : Periods, read : SUBSET Periods,
               same : SUBSET Periods]
  /\ view.minimum <= view.p
  /\ \A p \in view.same : tomb[p] # None /\ tomb[p].phase = "SEEK"
  /\ view.at # "again" => \A p \in view.minimum .. view.p - 1 : Seen(p)
  /\ view.at = "rows" => view.p \in view.read /\ \A p \in view.read : p <= view.p
  /\ view.at = "fence" => \A p \in view.read : p < view.p
  /\ view.at = "again" => /\ \A p \in view.minimum .. Last : Seen(p)
                          /\ \A p \in view.minimum .. view.p - 1 : Clean(p)

\* How many turns p may have missed: those between its own and the one that is next,
\* after a whole round for each anchor that is sealed.
Missed(a, p) ==
  LET turn == Turn(minimum, a) IN
    (Last - a) * Last + (IF turn > p THEN turn - p - 1 ELSE turn - 1 + a - p)

Fair ==
  \A a \in Kept : (\A p \in a + 1 .. Last : period[p] = "SEALED") => \A p \in Kept : skipped[p] <= Missed(a, p)

IInv ==
  /\ TypeOK /\ EmptyForGood
  /\ tomb \in [Periods -> Tombs \cup {None}] /\ revision \in Nat /\ reported \in BOOLEAN
  /\ \A p \in Periods : tomb[p] # None /\ tomb[p].next # None => tomb[p].next <= p
  /\ \A p \in 1 .. minimum - 1 : period[p] = "SEALED"
  /\ DOMAIN job = Workers /\ \A w \in Workers : job[w] # None => JobInv(job[w])
  /\ view # None => ViewInv
  /\ Fair

=============================================================================
