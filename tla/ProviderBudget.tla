--------------------------- MODULE ProviderBudget ---------------------------
(***************************************************************************)
(* The budget of calls to a provider that all accounts share: one row with *)
(* the window it counts for, its attempts and its failures, changed by     *)
(* compare-and-set (message_consumer/budget.py, recovery_consumer/budget.py).*)
(***************************************************************************)
EXTENDS Naturals, FiniteSets

CONSTANTS
  Workers,      \* consumer invocations under way at once
  MaxAttempts,  \* calls of one window
  MaxFailures,  \* failures after which a window admits no further call
  Windows,      \* bound of the clock, in windows
  MaxRevision,  \* bound of the row's revision
  None

\* ProviderBudget.__init__: positive limits.
BudgetAssumption ==
  /\ MaxAttempts \in Nat \ {0} /\ MaxFailures \in Nat \ {0}
  /\ Windows \in Nat /\ MaxRevision \in Nat
  /\ None \notin 0..Windows

VARIABLES
  window,   \* the window the clock is in
  budget,   \* the row
  job,      \* invocations: what they read, then the window they reserved
  reserved, \* calls reserved, by window
  since     \* calls reserved since the row began to count for its window

vars == <<window, budget, job, reserved, since>>

Idle == [phase |-> "idle"]
NoBudget == [revision |-> 0, window |-> None, attempts |-> 0, failures |-> 0]

Rows == [revision : 0..MaxRevision, window : 0..Windows \cup {None}, attempts : Nat, failures : Nat]

TypeOK ==
  /\ window \in 0..Windows
  /\ budget \in Rows
  /\ reserved \in [0..Windows -> Nat] /\ since \in Nat

Init ==
  /\ window = 0 /\ budget = NoBudget
  /\ job = [w \in Workers |-> Idle]
  /\ reserved = [n \in 0..Windows |-> 0] /\ since = 0

\* reserve: the clock is read first, the row after it.
ReadClock(w) ==
  /\ job[w] = Idle
  /\ job' = [job EXCEPT ![w] = [phase |-> "read", window |-> window]]
  /\ UNCHANGED <<window, budget, reserved, since>>

Spent(row, n) == row.window = n /\ (row.attempts >= MaxAttempts \/ row.failures >= MaxFailures)

ReadBudget(w) ==
  /\ job[w].phase = "read"
  /\ job' = [job EXCEPT ![w] = IF Spent(budget, @.window) THEN Idle
       ELSE [phase |-> "write", window |-> @.window, seen |-> budget]]
  /\ UNCHANGED <<window, budget, reserved, since>>

\* Mutant: any row is overwritten.
AnyRow(seen) == TRUE

\* The condition of the transaction.
Unchanged(seen) == budget.revision = seen.revision

Reserve(w) ==
  LET j == job[w]
      same == j.seen.window = j.window
  IN
  /\ j.phase = "write" /\ Unchanged(j.seen) /\ budget.revision < MaxRevision
  /\ budget' = [revision |-> j.seen.revision + 1, window |-> j.window,
                attempts |-> IF same THEN j.seen.attempts + 1 ELSE 1,
                failures |-> IF same THEN j.seen.failures ELSE 0]
  /\ reserved' = [reserved EXCEPT ![j.window] = @ + 1]
  /\ since' = IF budget.window = j.window THEN since + 1 ELSE 1
  /\ job' = [job EXCEPT ![w] = [phase |-> "call", window |-> j.window]]
  /\ UNCHANGED window

\* Another invocation was faster: no window, no call.
Refused(w) ==
  /\ job[w].phase = "write" /\ ~Unchanged(job[w].seen)
  /\ job' = [job EXCEPT ![w] = Idle]
  /\ UNCHANGED <<window, budget, reserved, since>>

\* failed: counted in the window of the call only, by the row alone.
CallFails(w) ==
  /\ job[w].phase = "call" /\ budget.revision < MaxRevision
  /\ budget' = IF budget.window = job[w].window
               THEN [budget EXCEPT !.failures = @ + 1, !.revision = @ + 1] ELSE budget
  /\ job' = [job EXCEPT ![w] = Idle]
  /\ UNCHANGED <<window, reserved, since>>

\* The call succeeds, or nobody is left to count its failure.
Ends(w) ==
  /\ job[w] # Idle
  /\ job' = [job EXCEPT ![w] = Idle]
  /\ UNCHANGED <<window, budget, reserved, since>>

Tick ==
  /\ window < Windows
  /\ window' = window + 1
  /\ UNCHANGED <<budget, job, reserved, since>>

Next ==
  \/ \E w \in Workers :
       ReadClock(w) \/ ReadBudget(w) \/ Reserve(w) \/ Refused(w) \/ CallFails(w) \/ Ends(w)
  \/ Tick

Spec == Init /\ [][Next]_vars

-----------------------------------------------------------------------------
(* The invariant the properties are proved from (ServicesProofs) *)

\* What was read is still the row, or its revision has passed; there was room in it.
JobInv(w) ==
  LET j == job[w] IN
  \/ j = Idle
  \/ j.phase \in {"read", "call"} /\ j.window \in 0..Windows
  \/ /\ j.phase = "write" /\ j.window \in 0..Windows /\ j.seen \in Rows
     /\ j.seen.revision <= budget.revision
     /\ Unchanged(j.seen) => j.seen = budget
     /\ ~Spent(j.seen, j.window)

\* The row counts what was reserved since it began to count.
IInv ==
  /\ TypeOK /\ DOMAIN job = Workers
  /\ since = budget.attempts /\ budget.attempts <= MaxAttempts
  /\ \A w \in Workers : JobInv(w)

-----------------------------------------------------------------------------
(* Properties *)

\* From the moment the row counts for a window, however many invocations read it at
\* once, no more calls are reserved than the window may have.
WithinBudget == since <= MaxAttempts

\* Nor is one reserved on a row that counts as many failures as the window may have,
\* and no failure is counted in another window than its call's.
FailuresStopCalls ==
  /\ since' # since /\ budget'.window = budget.window => budget.failures < MaxFailures
  /\ budget'.failures > budget.failures =>
       \E w \in Workers : job[w].phase = "call" /\ job[w].window = budget.window

\* "the same hard provider window cap" (docs/message-consumer-handoff.md:57): no window
\* admits more calls than it may have.
HardWindowCap == \A n \in 0..Windows : reserved[n] <= MaxAttempts
=============================================================================
