-------------------------- MODULE OperationsReport --------------------------
(***************************************************************************)
(* The daily operations report of one local day (operations_reporting).    *)
(* A run reduces the facts it was given to counts (reducer.py), plans the  *)
(* next revision against the stored one (revisions.py) and appends it with *)
(* the head in one transaction (store.py).  Facts come late, go with their *)
(* linkage or their account, and may be missing from a scan; two runs may  *)
(* overlap.  A revision that is stored stays as it is.                     *)
(***************************************************************************)
EXTENDS Integers, FiniteSets, Sequences

CONSTANTS
  ClassOf,   \* access class of each check that may be accepted
  Runs,      \* runs of the report
  Day,       \* length of a local day
  Window,    \* CORRECTION_SECONDS
  MaxTime,   \* bound: the clock stops here
  None

VARIABLES
  now,
  fact,      \* the captured facts of each check
  revisions, \* REVISION# rows, in order
  head,      \* HEAD: the revision and the digest it names, or None
  run        \* local state of each run

vars == <<now, fact, revisions, head, run>>

Checks == DOMAIN ClassOf

\* day_bounds of the reported day: the one before it is the first.
Start == Day
End == 2 * Day
Closed == Start + Window
LocalDay(t) == t \div Day

Classes == {"trial", "complimentary"}
Outcomes == {"complete", "failed"}
Phases == {"accepted", "terminal", "started", "finished"}

\* The facts of a check: what happened, and which of it can still be read.
Unknown == [accepted |-> None, terminal |-> None, started |-> None, finished |-> None, linked |-> TRUE]

Idle == [phase |-> "idle"]

Init ==
  /\ now = 0
  /\ fact = [c \in Checks |-> Unknown]
  /\ revisions = <<>>
  /\ head = None
  /\ run = [r \in Runs |-> Idle]

-----------------------------------------------------------------------------
(* aggregate_day *)

\* A scan: which facts of which checks it returned, of those whose linkage lives.
Scans ==
  {[c \in Checks |-> {p \in Phases : fact[c].linked /\ fact[c][p] # None} \ (IF c = d THEN miss ELSE {})] :
     d \in Checks, miss \in {{}, {"accepted"}, Phases}}

InDay(t) == Start <= t /\ t < End

\* Checks whose acceptance was read, and is of the day.
Accepted(s) == {c \in Checks : "accepted" \in s[c] /\ InDay(fact[c].accepted)}
Settled(s) == {c \in Accepted(s) : "terminal" \in s[c]}
Of(set, class) == {c \in set : ClassOf[c] = class}
With(set, outcome) == {c \in set : fact[c].terminal = outcome}
Charged(set) == {c \in With(set, "complete") : ClassOf[c] # "complimentary"}

\* Attempts with a start and an acceptance, of the day they began in.
Attempts(s) == {c \in Checks : {"accepted", "started"} \subseteq s[c] /\ InDay(fact[c].started)}
Finished(s) == {c \in Attempts(s) : "finished" \in s[c]}

Access(s, class) ==
  [accepted |-> Cardinality(Of(Accepted(s), class)),
   complete |-> Cardinality(Of(With(Settled(s), "complete"), class)),
   deducted |-> Cardinality(Of(Charged(Settled(s)), class)),
   noDeduction |-> Cardinality(Of(Settled(s) \ Charged(Settled(s)), class)),
   unknown |-> Cardinality(Of(Accepted(s) \ Settled(s), class))]

Report(s, asOf) ==
  [asOf |-> asOf,
   accepted |-> Cardinality(Accepted(s)),
   pending |-> Cardinality(Accepted(s) \ Settled(s)),
   settled |-> [o \in Outcomes |-> Cardinality(With(Settled(s), o))],
   access |-> [k \in Classes |-> Access(s, k)],
   internal |-> [started |-> Cardinality(Attempts(s)),
                 awaiting |-> Cardinality(Attempts(s) \ Finished(s)),
                 succeeded |-> Cardinality({c \in Finished(s) : fact[c].finished = "succeeded"}),
                 failed |-> Cardinality({c \in Finished(s) : fact[c].finished = "failed"})],
   gaps |-> Cardinality({c \in Checks : "accepted" \notin s[c] /\ s[c] # {}})]

\* A fact past its own linkage must not be in the snapshot: the whole day is refused.
LinkageAlive(s) == \A c \in Checks : "accepted" \in s[c] => now < fact[c].accepted + Window

\* A run that has its facts; it refuses a day that is closed, and validate_summary
\* one that is not over.
Aggregate(r, s) ==
  /\ run[r].phase = "idle"
  /\ End <= now /\ now < Closed
  /\ LinkageAlive(s)
  /\ run' = [run EXCEPT ![r] = [phase |-> "aggregated", report |-> Report(s, now)]]
  /\ UNCHANGED <<now, fact, revisions, head>>

-----------------------------------------------------------------------------
(* validate_summary and plan_revision *)

Sum(f) == f["trial"] + f["complimentary"]

\* The denominators agree; the day is over.
Valid(p) ==
  /\ p.asOf >= End
  /\ p.accepted = p.pending + p.settled["complete"] + p.settled["failed"]
  /\ Sum([k \in Classes |-> p.access[k].accepted]) = p.accepted
  /\ Sum([k \in Classes |-> p.access[k].complete]) = p.settled["complete"]
  /\ Sum([k \in Classes |-> p.access[k].unknown]) = p.pending
  /\ \A k \in Classes : LET a == p.access[k] IN
       /\ a.accepted = a.deducted + a.noDeduction + a.unknown
       /\ a.deducted = IF k = "complimentary" THEN 0 ELSE a.complete
       /\ a.complete <= a.accepted - a.unknown
  /\ p.internal.started = p.internal.awaiting + p.internal.succeeded + p.internal.failed

\* _PATHS: the counts of a report, with those that reconciliation may lower apart.
Facts(p) ==
  <<p.accepted, p.settled["complete"], p.settled["failed"],
    p.internal.started, p.internal.succeeded, p.internal.failed,
    p.access["trial"].accepted, p.access["trial"].complete, p.access["trial"].deducted,
    p.access["trial"].noDeduction,
    p.access["complimentary"].accepted, p.access["complimentary"].complete,
    p.access["complimentary"].deducted, p.access["complimentary"].noDeduction>>
Reconciled(p) ==
  <<p.pending, p.internal.awaiting, p.gaps, p.access["trial"].unknown, p.access["complimentary"].unknown>>
Counts(p) == Facts(p) \o Reconciled(p)

Zero == [i \in 1 .. 19 |-> 0]
Minus(v, w) == [i \in DOMAIN v |-> v[i] - w[i]]
Plus(v, w) == [i \in DOMAIN v |-> v[i] + w[i]]

Content(p) == [p EXCEPT !.asOf = 0]

\* recordSha256: of all that a revision holds.
Digest(v) == <<v.revision, v.report, v.generated>>

\* AGGREGATE_REGRESSION: facts have gone with their linkage, their account or a scan.
Regresses(old, p) == \E i \in DOMAIN Facts(p) : Facts(p)[i] < Facts(old.report)[i]

Stale(old, p, t) == p.asOf < old.report.asOf \/ t < old.generated

\* Nothing new, or one correction per local day.
NoChange(old, p) == Content(old.report) = Content(p)
Deferred(old, t) == LocalDay(old.generated) = LocalDay(t)

\* A revision is planned of the record read: CREATE_REVISION.
Creates(old, p, t) ==
  old # None => ~Stale(old, p, t) /\ ~Regresses(old, p) /\ ~NoChange(old, p) /\ ~Deferred(old, t)

Revision(old, p, t) ==
  [revision |-> IF old = None THEN 1 ELSE old.revision + 1,
   report |-> p, generated |-> t,
   previous |-> IF old = None THEN None ELSE Digest(old),
   delta |-> Minus(Counts(p), IF old = None THEN Zero ELSE Counts(old.report))]

\* _read: the revision that HEAD names.
Stored == IF head = None THEN None ELSE revisions[head.revision]

\* AggregateStore.commit up to its transaction.
Plan(r) ==
  LET p == run[r].report IN
  /\ run[r].phase = "aggregated"
  /\ Valid(p) /\ p.asOf <= now /\ now < Closed
  /\ Creates(Stored, p, now)
  /\ run' = [run EXCEPT ![r] = [phase |-> "planned", old |-> Stored, record |-> Revision(Stored, p, now)]]
  /\ UNCHANGED <<now, fact, revisions, head>>

\* A refusal, NO_CHANGE, DEFER_TO_NEXT_DAILY, a lost race, a death.
Stop(r) ==
  /\ run[r].phase # "idle"
  /\ run' = [run EXCEPT ![r] = Idle]
  /\ UNCHANGED <<now, fact, revisions, head>>

\* Its transaction: the row is new, and HEAD is what the plan was made of.
Commit(r) ==
  LET v == run[r].record  old == run[r].old IN
  /\ run[r].phase = "planned"
  /\ now < Closed
  /\ v.revision = Len(revisions) + 1
  /\ head = IF old = None THEN None ELSE [revision |-> old.revision, digest |-> Digest(old)]
  /\ revisions' = Append(revisions, v)
  /\ head' = [revision |-> v.revision, digest |-> Digest(v)]
  /\ run' = [run EXCEPT ![r] = Idle]
  /\ UNCHANGED <<now, fact>>

-----------------------------------------------------------------------------
(* Facts, as receipts' captures record them (OperationsReceipt) *)

Accept(c) ==
  /\ fact[c].accepted = None /\ now < End
  /\ fact' = [fact EXCEPT ![c].accepted = now]
  /\ UNCHANGED <<now, revisions, head, run>>

Try(c) ==
  /\ fact[c].accepted # None /\ fact[c].started = None /\ fact[c].terminal = None
  /\ fact' = [fact EXCEPT ![c].started = now]
  /\ UNCHANGED <<now, revisions, head, run>>

Finish(c, how) ==
  /\ fact[c].started # None /\ fact[c].finished = None
  /\ fact' = [fact EXCEPT ![c].finished = how]
  /\ UNCHANGED <<now, revisions, head, run>>

Settle(c, outcome) ==
  /\ fact[c].accepted # None /\ fact[c].terminal = None
  /\ fact' = [fact EXCEPT ![c].terminal = outcome]
  /\ UNCHANGED <<now, revisions, head, run>>

\* The linkage ends, or its account is erased; it matters from the first report on.
Vanish(c) ==
  /\ fact[c].accepted # None /\ fact[c].linked /\ End <= now
  /\ fact' = [fact EXCEPT ![c].linked = FALSE]
  /\ UNCHANGED <<now, revisions, head, run>>

Tick ==
  /\ now < MaxTime
  /\ now' = now + 1
  /\ UNCHANGED <<fact, revisions, head, run>>

Next ==
  \/ \E r \in Runs : Plan(r) \/ Stop(r) \/ Commit(r) \/ \E s \in Scans : Aggregate(r, s)
  \/ \E c \in Checks :
       \/ Accept(c) \/ Try(c) \/ Vanish(c)
       \/ \E how \in {"succeeded", "failed"} : Finish(c, how)
       \/ \E o \in Outcomes : Settle(c, o)
  \/ Tick

Spec == Init /\ [][Next]_vars

-----------------------------------------------------------------------------
(* Properties *)

\* What happened on the day, whoever can still read of it.
Everything == [c \in Checks |-> {p \in Phases : fact[c][p] # None}]

\* A day that is over is always reported in a form that may be stored.
AggregatesValid ==
  \A r \in Runs : run[r].phase = "aggregated" /\ run[r].report.asOf >= End => Valid(run[r].report)

\* Revisions form one chain from the first to the one that HEAD names, whoever wrote
\* them, and their differences add up to the report in force.
OneChain ==
  /\ (head = None) = (revisions = <<>>)
  /\ revisions # <<>> =>
       head = [revision |-> Len(revisions), digest |-> Digest(revisions[Len(revisions)])]
  /\ \A i \in DOMAIN revisions :
       /\ revisions[i].revision = i
       /\ revisions[i].previous = IF i = 1 THEN None ELSE Digest(revisions[i - 1])
       /\ Plus(revisions[i].delta, IF i = 1 THEN Zero ELSE Counts(revisions[i - 1].report))
            = Counts(revisions[i].report)

\* What a revision counted, later ones count too, at most one a local day; and it
\* happened, as often as it is counted.
NothingLost ==
  \A i \in DOMAIN revisions :
    LET p == revisions[i].report  all == Facts(Report(Everything, now)) IN
    /\ \A n \in DOMAIN all : Facts(p)[n] <= all[n]
    /\ i > 1 =>
         /\ \A n \in DOMAIN all : Facts(p)[n] >= Facts(revisions[i - 1].report)[n]
         /\ LocalDay(revisions[i - 1].generated) < LocalDay(revisions[i].generated)
         /\ revisions[i - 1].report.asOf <= p.asOf

\* What is stored stays, and nothing is stored once the correction window is closed.
Immutable ==
  /\ SubSeq(revisions', 1, Len(revisions)) = revisions
  /\ revisions' # revisions => now < Closed

-----------------------------------------------------------------------------
(* The invariant the properties are proved from (ServicesProofs) *)

AccessCounts == [accepted : Nat, complete : Nat, deducted : Nat, noDeduction : Nat, unknown : Nat]
Summaries ==
  [asOf : Nat, accepted : Nat, pending : Nat, settled : [Outcomes -> Nat], access : [Classes -> AccessCounts],
   internal : [started : Nat, awaiting : Nat, succeeded : Nat, failed : Nat], gaps : Nat]
Digests == Nat \X Summaries \X Nat
Heads == [revision : Nat, digest : Digests]
Records ==
  [revision : Nat, report : Summaries, generated : Nat, previous : Digests \cup {None},
   delta : [1 .. 19 -> Int]]

ReportAssumption ==
  /\ IsFiniteSet(Checks) /\ ClassOf \in [Checks -> Classes]
  /\ Day \in Nat \ {0} /\ Window \in Nat /\ MaxTime \in Nat
  /\ None \notin Records /\ None \notin Heads

FactForms ==
  [accepted : Nat \cup {None}, terminal : Outcomes \cup {None}, started : Nat \cup {None},
   finished : {"succeeded", "failed", None}, linked : BOOLEAN]

\* What a report counts happened, as often as it is counted.
Happened(p) == \A n \in 1 .. 14 : Facts(p)[n] <= Facts(Report(Everything, now))[n]

\* A run holds a report that may be stored, or the revision it planned of what it read.
RunInv(r) ==
  LET j == run[r] IN
  \/ j = Idle
  \/ j.phase = "aggregated" /\ j.report \in Summaries /\ Valid(j.report) /\ Happened(j.report)
  \/ LET p == j.record.report  t == j.record.generated IN
     /\ j.phase = "planned" /\ j.old \in Records \cup {None} /\ p \in Summaries /\ t \in Nat
     /\ j.record = Revision(j.old, p, t) /\ Creates(j.old, p, t) /\ Happened(p)

IInv ==
  /\ now \in Nat /\ fact \in [Checks -> FactForms] /\ revisions \in Seq(Records)
  /\ OneChain /\ NothingLost
  /\ DOMAIN run = Runs /\ \A r \in Runs : RunInv(r)
=============================================================================
