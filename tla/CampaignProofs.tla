---------------------------- MODULE CampaignProofs ----------------------------
(***************************************************************************)
(* Proofs about Campaign for any number of contributors, events,           *)
(* candidates and aggregators.  An erasure is sound because the two        *)
(* transactions that create rows of a contributor ask for its enrolment    *)
(* and for no deletion, which its completed commands have ended.  A        *)
(* publication is, because the version of a SUMMARY never comes back: as   *)
(* long as it is the one read, the contributions are those read.  For the  *)
(* same reason an aggregator writes a SUMMARY as if it had read it just    *)
(* now, and a recount, of what it has seen and the rest, counts all there  *)
(* is.  Submissions are counted as units, so that one more is an element.  *)
(***************************************************************************)
EXTENDS Campaign, FiniteSetTheorems, WellFoundedInduction, TLAPS

\* A SUMMARY row, whatever it counts.
IsSummary(s) ==
  /\ DOMAIN s = {"row", "version", "contributors", "submissions", "phase"}
  /\ s.row \in {"none", "live", "deleted"}
  /\ s.version \in Nat
  /\ s.phase \in {"none", "FROZEN", "REPAIRING", "PUBLISHED", "SUPPRESSED"}

Typed ==
  /\ DOMAIN summary = Candidates /\ \A c \in Candidates : IsSummary(summary[c])
  /\ summary = [c \in Candidates |-> summary[c]]
  /\ DOMAIN aggregate = Candidates /\ aggregate = [c \in Candidates |-> aggregate[c]]
  /\ observation = [e \in Events |-> observation[e]]

\* What an aggregator has read of a candidate was never that of a deleted one.
ReadInv ==
  /\ aggregator = [w \in Aggregators |-> aggregator[w]]
  /\ \A w \in Aggregators : aggregator[w] # None =>
       /\ aggregator[w].event \in Events
       /\ aggregator[w].candidate \in Candidates
       /\ aggregator[w].count \in Nat
       /\ IsSummary(aggregator[w].summary)
       /\ aggregator[w].summary.row # "deleted"

\* What a publication has read is there as long as the SUMMARY has its version.
InputInv ==
  finalizer # None =>
    LET c == finalizer.candidate IN
      /\ c \in Candidates
      /\ finalizer.version \in Nat
      /\ summary[c].row \in {"live", "deleted"}
      /\ Exists(c) => finalizer.version <= summary[c].version
      /\ Exists(c) /\ summary[c].version = finalizer.version /\ summary[c].phase = "FROZEN" =>
           finalizer.rows = Rows(c)

\* A withdrawal is pending in the row as long as its command is.
WithdrawalInv ==
  \A a \in Accounts : consent[a].state = "withdrawal_pending" <=> command[a]["WITHDRAWAL"] = "PENDING"

\* A sealed period has no rows.
SealedEmpty ==
  period = "SEALED" => recorded = {} /\ \A c \in Candidates, a \in Accounts : contribution[c][a] = 0

IInv ==
  /\ TypeOK
  /\ Typed
  /\ ReadInv
  /\ InputInv
  /\ WithdrawalInv
  /\ JobsCounted
  /\ ErasedForGood
  /\ SealedEmpty

-----------------------------------------------------------------------------
(* The jobs of an account *)

\* A set of kinds has as many members as it has of the two.
LEMMA JobCount ==
  ASSUME NEW S \in SUBSET Kinds
  PROVE  /\ Cardinality(S) = (IF "WITHDRAWAL" \in S THEN 1 ELSE 0) + (IF "DELETION" \in S THEN 1 ELSE 0)
         /\ Cardinality(S) \in 0 .. 2
<1>1. CASE S = {}
  BY <1>1, FS_EmptySet
<1>2. CASE S = {"WITHDRAWAL"}
  <2>1. Cardinality(S) = 1
    BY <1>2, FS_Singleton
  <2> QED BY <1>2, <2>1
<1>3. CASE S = {"DELETION"}
  <2>1. Cardinality(S) = 1
    BY <1>3, FS_Singleton
  <2> QED BY <1>3, <2>1
<1>4. CASE S = {"WITHDRAWAL"} \cup {"DELETION"}
  <2>1. IsFiniteSet({"WITHDRAWAL"}) /\ Cardinality({"WITHDRAWAL"}) = 1
    BY FS_Singleton
  <2>2. Cardinality(S) = 2
    BY <1>4, <2>1, FS_AddElement
  <2> QED BY <1>4, <2>2
<1> QED BY <1>1, <1>2, <1>3, <1>4 DEF Kinds

\* An account's open jobs.
OpenJobs(a) == {k \in Kinds : command[a][k] = "PENDING"}

\* JobsCounted without cardinalities.
CountedJobs ==
  \A a \in Accounts :
    /\ pending[a] = (IF command[a]["WITHDRAWAL"] = "PENDING" THEN 1 ELSE 0)
                      + (IF command[a]["DELETION"] = "PENDING" THEN 1 ELSE 0)
    /\ command[a]["DELETION"] = "COMPLETE" => consent[a].state # "withdrawal_pending"

\* The counter of jobs, written without cardinalities.
LEMMA JobsAgree == JobsCounted <=> CountedJobs
<1>1. ASSUME NEW a \in Accounts
      PROVE  Cardinality(OpenJobs(a)) = (IF command[a]["WITHDRAWAL"] = "PENDING" THEN 1 ELSE 0)
                                          + (IF command[a]["DELETION"] = "PENDING" THEN 1 ELSE 0)
  <2>1. OpenJobs(a) \in SUBSET Kinds
    BY DEF OpenJobs
  <2>2. /\ "WITHDRAWAL" \in OpenJobs(a) <=> command[a]["WITHDRAWAL"] = "PENDING"
        /\ "DELETION" \in OpenJobs(a) <=> command[a]["DELETION"] = "PENDING"
    BY DEF OpenJobs, Kinds
  <2> QED BY <2>1, <2>2, JobCount
<1> QED BY <1>1 DEF JobsCounted, CountedJobs, OpenJobs

\* In the next state as well.
LEMMA JobsAgreeNext == JobsCounted' <=> CountedJobs'
BY JobsAgree, PTL

-----------------------------------------------------------------------------
(* The rows have their types *)

\* The steps of a sweep that write no row of the account or of its events.
Sweep(a, k) ==
  \/ Ensure(a, k) \/ Adopt(a, k) \/ Seek(a, k)
  \/ \E c \in Candidates :
       StartRecount(a, k, c) \/ RecountPage(a, k, c) \/ FinishRecount(a, k, c) \/ RecountProved(a, k, c)

\* One contribution is written.
LEMMA SetCount ==
  ASSUME NEW f \in [Candidates -> [Accounts -> 0 .. MaxSubmissions]], NEW c, NEW a, NEW v \in 0 .. MaxSubmissions
  PROVE  LET g == [f EXCEPT ![c][a] = v] IN
           /\ g \in [Candidates -> [Accounts -> 0 .. MaxSubmissions]]
           /\ \A x \in Candidates, y \in Accounts : g[x][y] = IF x = c /\ y = a THEN v ELSE f[x][y]
<1> DEFINE h == [f[c] EXCEPT ![a] = v]
           g == [f EXCEPT ![c] = h]
<1>1. CASE c \in Candidates
  <2>1. f[c] \in [Accounts -> 0 .. MaxSubmissions]
    BY <1>1
  <2>2. h \in [Accounts -> 0 .. MaxSubmissions] /\ \A y \in Accounts : h[y] = IF y = a THEN v ELSE f[c][y]
    BY <2>1
  <2> HIDE DEF h
  <2>3. g \in [Candidates -> [Accounts -> 0 .. MaxSubmissions]]
    BY <1>1, <2>2
  <2>4. \A x \in Candidates : g[x] = IF x = c THEN h ELSE f[x]
    BY <1>1
  <2> HIDE DEF g
  <2>5. \A x \in Candidates, y \in Accounts : g[x][y] = IF x = c /\ y = a THEN v ELSE f[x][y]
    BY <2>2, <2>4
  <2> QED BY <2>3, <2>5 DEF g, h
<1>2. CASE c \notin Candidates
  <2>1. g = f
    BY <1>2
  <2> QED BY <1>2, <2>1
<1> QED BY <1>1, <1>2

\* One contribution is deleted.
LEMMA ClearCount ==
  ASSUME TypeOK, NEW c, NEW a, contribution' = [contribution EXCEPT ![c][a] = 0]
  PROVE  /\ contribution' \in [Candidates -> [Accounts -> 0 .. MaxSubmissions]]
         /\ \A x \in Candidates, y \in Accounts :
              contribution'[x][y] = IF x = c /\ y = a THEN 0 ELSE contribution[x][y]
<1>1. 0 \in 0 .. MaxSubmissions
  BY CampaignAssumption
<1>2. contribution \in [Candidates -> [Accounts -> 0 .. MaxSubmissions]]
  BY DEF TypeOK
<1> QED BY <1>1, <1>2, SetCount

\* So it is when a decided candidate is tidied up, if any is.
LEMMA TidyCounts ==
  ASSUME TypeOK, NEW c, Tidy(c)
  PROVE  /\ contribution' \in [Candidates -> [Accounts -> 0 .. MaxSubmissions]]
         /\ \A x \in Candidates, y \in Accounts : contribution'[x][y] \in {0, contribution[x][y]}
<1>1. CASE UNCHANGED contribution
  BY <1>1 DEF TypeOK
<1>2. ASSUME NEW a, contribution' = [contribution EXCEPT ![c][a] = 0]
      PROVE  /\ contribution' \in [Candidates -> [Accounts -> 0 .. MaxSubmissions]]
             /\ \A x \in Candidates, y \in Accounts : contribution'[x][y] \in {0, contribution[x][y]}
  <2>1. /\ contribution' \in [Candidates -> [Accounts -> 0 .. MaxSubmissions]]
        /\ \A x \in Candidates, y \in Accounts :
             contribution'[x][y] = IF x = c /\ y = a THEN 0 ELSE contribution[x][y]
    BY <1>2, ClearCount
  <2>2. ASSUME NEW x \in Candidates, NEW y \in Accounts
        PROVE  contribution'[x][y] \in {0, contribution[x][y]}
    BY <2>1
  <2> QED BY <2>1, <2>2
<1> QED BY <1>1, <1>2 DEF Tidy

\* It holds at the start.
LEMMA InitIInv == Init => IInv
<1> SUFFICES ASSUME Init PROVE IInv
  OBVIOUS
<1>1. TypeOK
  BY CampaignAssumption DEF Init, TypeOK, Kinds
<1>2. Typed
  BY DEF Init, Typed, IsSummary, NoSummary
<1>3. ReadInv /\ InputInv /\ WithdrawalInv /\ ErasedForGood /\ SealedEmpty
  BY DEF Init, ReadInv, InputInv, WithdrawalInv, ErasedForGood, SealedEmpty, Left, Kinds
<1>4. CountedJobs
  BY DEF Init, CountedJobs, Kinds
<1> QED BY <1>1, <1>2, <1>3, <1>4, JobsAgree DEF IInv

\* The account's rows and commands: the joins, the commands and their ends.
LEMMA PeopleStep ==
  ASSUME IInv, [Next]_vars
  PROVE  /\ consent' \in [Accounts -> [state : {"not_enrolled", "enrolled", "withdrawal_pending", "withdrawn"}, epoch : 0 .. MaxEpoch]]
         /\ command' \in [Accounts -> [Kinds -> {"none", "PENDING", "COMPLETE"}]]
         /\ pending' \in [Accounts -> 0 .. 2]
         /\ WithdrawalInv'
         /\ CountedJobs'
<1> DEFINE Goal ==
      /\ consent' \in [Accounts -> [state : {"not_enrolled", "enrolled", "withdrawal_pending", "withdrawn"}, epoch : 0 .. MaxEpoch]]
      /\ command' \in [Accounts -> [Kinds -> {"none", "PENDING", "COMPLETE"}]]
      /\ pending' \in [Accounts -> 0 .. 2]
      /\ WithdrawalInv'
      /\ CountedJobs'
<1>0. TypeOK /\ WithdrawalInv /\ CountedJobs
  BY JobsAgree DEF IInv
<1>1. ASSUME NEW a \in Accounts, Join(a) PROVE Goal
  BY <1>0, <1>1, CampaignAssumption DEF TypeOK, WithdrawalInv, CountedJobs, Join, Kinds
<1>2. ASSUME NEW a \in Accounts, Withdraw(a) PROVE Goal
  <2>1. /\ consent' = [consent EXCEPT ![a].state = "withdrawal_pending"]
        /\ command' = [command EXCEPT ![a]["WITHDRAWAL"] = "PENDING"]
        /\ pending' = [pending EXCEPT ![a] = @ + 1]
        /\ consent[a].state = "enrolled" /\ command[a]["DELETION"] = "none"
    BY <1>2 DEF Withdraw, Enqueue
  <2>2. \A b \in Accounts \ {a} : consent'[b] = consent[b] /\ command'[b] = command[b] /\ pending'[b] = pending[b]
    BY <1>0, <2>1 DEF TypeOK
  <2>3. /\ consent'[a] = [consent[a] EXCEPT !.state = "withdrawal_pending"]
        /\ command'[a] = [command[a] EXCEPT !["WITHDRAWAL"] = "PENDING"]
        /\ pending[a] = 0 /\ pending'[a] = 1
    BY <1>0, <2>1 DEF TypeOK, WithdrawalInv, CountedJobs
  <2>4. /\ consent' \in [Accounts -> [state : {"not_enrolled", "enrolled", "withdrawal_pending", "withdrawn"}, epoch : 0 .. MaxEpoch]]
        /\ command' \in [Accounts -> [Kinds -> {"none", "PENDING", "COMPLETE"}]]
    BY <1>0, <2>1 DEF TypeOK, Kinds
  <2>5. pending' \in [Accounts -> 0 .. 2]
    BY <1>0, <2>1, <2>3 DEF TypeOK
  <2>6. consent'[a].state = "withdrawal_pending" /\ command'[a]["WITHDRAWAL"] = "PENDING"
        /\ command'[a]["DELETION"] = "none"
    BY <1>0, <2>1, <2>3 DEF TypeOK, Kinds
  <2>7. WithdrawalInv'
    BY <1>0, <2>2, <2>6 DEF WithdrawalInv
  <2>8. ASSUME NEW b \in Accounts
        PROVE  /\ pending'[b] = (IF command'[b]["WITHDRAWAL"] = "PENDING" THEN 1 ELSE 0)
                                  + (IF command'[b]["DELETION"] = "PENDING" THEN 1 ELSE 0)
               /\ command'[b]["DELETION"] = "COMPLETE" => consent'[b].state # "withdrawal_pending"
    <3>1. CASE b = a
      BY <3>1, <2>3, <2>6
    <3>2. CASE b # a
      BY <3>2, <1>0, <2>2 DEF CountedJobs
    <3> QED BY <3>1, <3>2
  <2> QED BY <2>4, <2>5, <2>7, <2>8 DEF CountedJobs
<1>3. ASSUME NEW a \in Accounts, RequestDeletion(a) PROVE Goal
  BY <1>0, <1>3, CampaignAssumption DEF TypeOK, WithdrawalInv, CountedJobs, RequestDeletion, Enqueue, Kinds
<1>4. ASSUME NEW a \in Accounts, NEW k \in Kinds, Complete(a, k) PROVE Goal
  <2>1. CASE k = "DELETION"
    BY <1>0, <1>4, <2>1 DEF TypeOK, WithdrawalInv, CountedJobs, Complete, LastJob, Kinds
  <2>2. CASE k = "WITHDRAWAL"
    BY <1>0, <1>4, <2>2 DEF TypeOK, WithdrawalInv, CountedJobs, Complete, LastJob, Kinds
  <2> QED BY <2>1, <2>2 DEF Kinds
<1>5. CASE UNCHANGED people
  BY <1>0, <1>5 DEF TypeOK, WithdrawalInv, CountedJobs, people
<1>6. ASSUME NEW e \in Events, Observe(e) \/ Expire(e) \/ Record(e) PROVE UNCHANGED people
  BY <1>6 DEF Observe, Expire, Record, people
<1>7. ASSUME NEW w \in Aggregators, Commit(w) \/ \E e \in Events, c \in Candidates : Read(w, e, c)
      PROVE UNCHANGED people
  BY <1>7 DEF Commit, Read, people
<1>8. ASSUME NEW a \in Accounts, NEW k \in Kinds, Ensure(a, k) \/ Adopt(a, k) \/ Work(a, k)
      PROVE UNCHANGED people
  BY <1>8 DEF Ensure, Adopt, Work, Seek, EraseEvent, EraseContribution, StartRecount, RecountPage,
              FinishRecount, RecountTidied, Tidy, RecountProved, people
<1>9. ASSUME NEW c \in Candidates, Freeze(c) \/ ReadInput(c) \/ CleanUp(c) PROVE UNCHANGED people
  BY <1>9 DEF Freeze, ReadInput, CleanUp, Tidy, people
<1>10. ASSUME Publish \/ Close \/ BeginDrain \/ Drain \/ Seal PROVE UNCHANGED people
  BY <1>10 DEF Publish, Close, BeginDrain, Drain, Seal, people
<1>11. CASE UNCHANGED vars
  BY <1>5, <1>11 DEF vars
<1> QED BY <1>1, <1>2, <1>3, <1>4, <1>5, <1>6, <1>7, <1>8, <1>9, <1>10, <1>11 DEF Next

\* The rows of events and the contributions.
LEMMA RowsStep ==
  ASSUME IInv, [Next]_vars
  PROVE  /\ recorded' \subseteq Events
         /\ clustered' \in [Events -> {None, "COUNTED", "CONTRIBUTOR_CAPPED"}]
         /\ contribution' \in [Candidates -> [Accounts -> 0 .. MaxSubmissions]]
         /\ period' \in {"OPEN", "CLOSING", "DRAINING", "SEALED"}
<1> DEFINE Goal ==
      /\ recorded' \subseteq Events
      /\ clustered' \in [Events -> {None, "COUNTED", "CONTRIBUTOR_CAPPED"}]
      /\ contribution' \in [Candidates -> [Accounts -> 0 .. MaxSubmissions]]
      /\ period' \in {"OPEN", "CLOSING", "DRAINING", "SEALED"}
<1>0. TypeOK /\ ReadInv
  BY DEF IInv
<1>1. ASSUME NEW a \in Accounts, Join(a) \/ Withdraw(a) \/ RequestDeletion(a) PROVE Goal
  BY <1>0, <1>1 DEF TypeOK, Join, Withdraw, RequestDeletion, Enqueue, events, candidates
<1>2. ASSUME NEW e \in Events, Observe(e) \/ Expire(e) \/ Record(e) PROVE Goal
  BY <1>0, <1>2 DEF TypeOK, Observe, Expire, Record, candidates
<1>3. ASSUME NEW w \in Aggregators, Commit(w) PROVE Goal
  <2> DEFINE s == aggregator[w]
             a == OwnerOf(s.event)
             n == contribution[s.candidate][a]
  <2>1. s # None /\ s.event \in Events /\ s.candidate \in Candidates /\ a \in Accounts
    BY <1>0, <1>3, CampaignAssumption DEF ReadInv, Commit
  <2>2. CASE contribution' = contribution
    BY <1>0, <1>3, <2>1, <2>2 DEF TypeOK, Commit
  <2>3. CASE contribution' # contribution
    <3>1. n < MaxSubmissions /\ contribution' = [contribution EXCEPT ![s.candidate][a] = n + 1]
      BY <1>3, <2>3 DEF Commit
    <3>2. n + 1 \in 0 .. MaxSubmissions
      BY <1>0, <2>1, <3>1, CampaignAssumption DEF TypeOK
    <3>3. contribution' \in [Candidates -> [Accounts -> 0 .. MaxSubmissions]]
      BY <1>0, <3>1, <3>2, SetCount DEF TypeOK
    <3> QED BY <1>0, <1>3, <2>1, <3>3 DEF TypeOK, Commit
  <2> QED BY <2>2, <2>3
<1>4. ASSUME NEW w \in Aggregators, NEW e \in Events, NEW c \in Candidates, Read(w, e, c) PROVE Goal
  BY <1>0, <1>4 DEF TypeOK, Read, events, candidates
<1>5. ASSUME NEW a \in Accounts, NEW k \in Kinds, Sweep(a, k) PROVE Goal
  BY <1>0, <1>5 DEF TypeOK, Sweep, Ensure, Adopt, Seek, StartRecount, RecountPage, FinishRecount, RecountProved,
                    events, candidates
<1>6. ASSUME NEW a \in Accounts, NEW k \in Kinds, EraseEvent(a, k) PROVE Goal
  BY <1>0, <1>6 DEF TypeOK, EraseEvent, candidates
<1>7. ASSUME NEW a \in Accounts, NEW k \in Kinds, EraseContribution(a, k) PROVE Goal
  <2>1. contribution' \in [Candidates -> [Accounts -> 0 .. MaxSubmissions]]
    BY <1>0, <1>7, ClearCount DEF EraseContribution
  <2> QED BY <1>0, <1>7, <2>1 DEF TypeOK, EraseContribution, events
<1>8. ASSUME NEW c \in Candidates, Tidy(c), UNCHANGED period PROVE Goal
  BY <1>0, <1>8, TidyCounts DEF TypeOK, Tidy, events
<1>9. ASSUME NEW a \in Accounts, NEW k \in Kinds, Complete(a, k) PROVE Goal
  BY <1>0, <1>9 DEF TypeOK, Complete, events, candidates
<1>10. ASSUME NEW c \in Candidates, Freeze(c) \/ ReadInput(c) PROVE Goal
  BY <1>0, <1>10 DEF TypeOK, Freeze, ReadInput, events, candidates
<1>11. CASE Publish \/ Close \/ BeginDrain \/ Seal
  BY <1>0, <1>11 DEF TypeOK, Publish, Close, BeginDrain, Seal, events, candidates
<1>12. CASE Drain
  BY <1>0, <1>12, CampaignAssumption DEF TypeOK, Drain
<1>13. CASE UNCHANGED vars
  BY <1>0, <1>13 DEF TypeOK, vars, events, candidates
<1>14. ASSUME NEW a \in Accounts, NEW k \in Kinds, NEW c \in Candidates, RecountTidied(a, k, c) PROVE Goal
  BY <1>8, <1>14 DEF RecountTidied, Tidy
<1>15. ASSUME NEW c \in Candidates, CleanUp(c) PROVE Goal
  BY <1>8, <1>15 DEF CleanUp, Tidy
<1> QED BY <1>1, <1>2, <1>3, <1>4, <1>5, <1>6, <1>7, <1>9, <1>10, <1>11, <1>12, <1>13, <1>14, <1>15
        DEF Next, Work, Sweep

\* Tombstones stay what they are: whatever a sweep moves on to.
LEMMA TombStep ==
  ASSUME IInv, [Next]_vars
  PROVE  tomb' \in [Accounts -> Tombs \cup {None}]
<1> DEFINE Goal == tomb' \in [Accounts -> Tombs \cup {None}]
<1>0. TypeOK /\ tomb \in [Accounts -> Tombs \cup {None}]
  BY DEF IInv, TypeOK
<1>1. CASE UNCHANGED tomb
  BY <1>0, <1>1
<1>2. ASSUME NEW a \in Accounts, NEW t \in Tombs, tomb' = [tomb EXCEPT ![a] = t] PROVE Goal
  BY <1>0, <1>2
<1>3. ASSUME NEW a \in Accounts, NEW k \in Kinds PROVE Operation(a, k) \in 0 .. MaxEpoch
  BY <1>0, <1>3, CampaignAssumption DEF TypeOK, Operation
<1>4. ASSUME NEW op \in (0 .. MaxEpoch) \cup {None}, NEW next \in BOOLEAN PROVE Idle(op, next) \in Tombs
  BY <1>4 DEF Idle, Tombs
<1>5. ASSUME NEW a \in Accounts, NEW k \in Kinds, Ensure(a, k) PROVE Goal
  BY <1>2, <1>4, <1>5 DEF Ensure
<1>6. ASSUME NEW a \in Accounts, NEW k \in Kinds, Adopt(a, k) PROVE Goal
  <2>1. tomb[a] \in Tombs /\ Operation(a, k) \in 0 .. MaxEpoch
    BY <1>0, <1>3, <1>6 DEF Adopt
  <2>2. [tomb[a] EXCEPT !.op = Operation(a, k)] \in Tombs
    BY <2>1 DEF Tombs
  <2>3. tomb' = [tomb EXCEPT ![a] = [tomb[a] EXCEPT !.op = Operation(a, k)]]
    BY <1>0, <1>6 DEF Adopt
  <2> QED BY <1>2, <2>2, <2>3
<1>7. ASSUME NEW a \in Accounts, NEW k \in Kinds, Seek(a, k) PROVE Goal
  <2>1. tomb[a] \in Tombs
    BY <1>0, <1>7 DEF Seek, At
  <2>2. CASE tomb' = [tomb EXCEPT ![a].cursor = FALSE]
    <3>1. [tomb[a] EXCEPT !.cursor = FALSE] \in Tombs
      BY <2>1 DEF Tombs
    <3> QED BY <1>0, <1>2, <2>2, <3>1
  <2>3. ASSUME NEW t \in Locators(a), NEW next \in BOOLEAN,
               tomb' = [tomb EXCEPT ![a].phase = "DELETE", ![a].target = t, ![a].next = next]
        PROVE Goal
    <3>1. t \in Targets
      BY DEF Locators, Targets, Own
    <3>2. [tomb[a] EXCEPT !.phase = "DELETE", !.target = t, !.next = next] \in Tombs
      BY <2>1, <3>1 DEF Tombs
    <3>3. tomb' = [tomb EXCEPT ![a] = [tomb[a] EXCEPT !.phase = "DELETE", !.target = t, !.next = next]]
      BY <1>0, <2>3
    <3> QED BY <1>2, <3>2, <3>3
  <2> QED BY <1>7, <2>2, <2>3 DEF Seek
<1>8. ASSUME NEW a \in Accounts, tomb[a] # None PROVE Idle(tomb[a].op, tomb[a].next) \in Tombs
  <2>1. tomb[a] \in Tombs
    BY <1>0, <1>8
  <2>2. tomb[a].op \in (0 .. MaxEpoch) \cup {None} /\ tomb[a].next \in BOOLEAN
    BY <2>1 DEF Tombs
  <2> QED BY <1>4, <2>2
<1>9. ASSUME NEW a \in Accounts, tomb[a] # None, tomb' = [tomb EXCEPT ![a] = Idle(@.op, @.next)] PROVE Goal
  <2>1. tomb' = [tomb EXCEPT ![a] = Idle(tomb[a].op, tomb[a].next)]
    BY <1>0, <1>9
  <2> QED BY <1>2, <1>8, <1>9, <2>1
<1>10. ASSUME NEW a \in Accounts, NEW k \in Kinds, EraseEvent(a, k) PROVE Goal
  BY <1>9, <1>10 DEF EraseEvent, At
<1>11. ASSUME NEW a \in Accounts, NEW k \in Kinds, EraseContribution(a, k) PROVE Goal
  <2>1. tomb[a] \in Tombs
    BY <1>0, <1>11 DEF EraseContribution, At
  <2>2. [tomb[a] EXCEPT !.phase = "RECOMPUTE"] \in Tombs
    BY <2>1 DEF Tombs
  <2>3. tomb' = [tomb EXCEPT ![a] = [tomb[a] EXCEPT !.phase = "RECOMPUTE"]]
    BY <1>0, <1>11 DEF EraseContribution
  <2> QED BY <1>2, <2>2, <2>3
<1>12. ASSUME NEW a \in Accounts, NEW k \in Kinds, NEW c \in Candidates, FinishRecount(a, k, c) \/ RecountProved(a, k, c)
       PROVE Goal
  <2>1. tomb[a] # None /\ MoveOn(a)
    BY <1>12 DEF FinishRecount, RecountProved, Recounting, At
  <2> QED BY <1>1, <1>9, <2>1 DEF MoveOn
<1>13. ASSUME NEW a \in Accounts, NEW k \in Kinds, NEW c \in Candidates,
              StartRecount(a, k, c) \/ RecountPage(a, k, c) \/ RecountTidied(a, k, c)
       PROVE UNCHANGED tomb
  BY <1>13 DEF StartRecount, RecountPage, RecountTidied, Tidy
<1>14. ASSUME NEW a \in Accounts, NEW k \in Kinds, Complete(a, k) PROVE UNCHANGED tomb
  BY <1>14 DEF Complete
<1>15. ASSUME NEW a \in Accounts, Join(a) \/ Withdraw(a) \/ RequestDeletion(a) PROVE UNCHANGED tomb
  BY <1>15 DEF Join, Withdraw, RequestDeletion
<1>16. ASSUME NEW e \in Events, Observe(e) \/ Expire(e) \/ Record(e) PROVE UNCHANGED tomb
  BY <1>16 DEF Observe, Expire, Record
<1>17. ASSUME NEW w \in Aggregators, Commit(w) \/ \E e \in Events, c \in Candidates : Read(w, e, c)
       PROVE UNCHANGED tomb
  BY <1>17 DEF Commit, Read
<1>18. ASSUME NEW c \in Candidates, Freeze(c) \/ ReadInput(c) \/ CleanUp(c) PROVE UNCHANGED tomb
  BY <1>18 DEF Freeze, ReadInput, CleanUp, Tidy
<1>19. ASSUME Publish \/ Close \/ BeginDrain \/ Seal \/ UNCHANGED vars PROVE UNCHANGED tomb
  BY <1>19 DEF Publish, Close, BeginDrain, Seal, vars
<1>20. CASE Drain
  BY <1>20 DEF Drain
<1> QED BY <1>1, <1>5, <1>6, <1>7, <1>10, <1>11, <1>12, <1>13, <1>14, <1>15, <1>16, <1>17, <1>18, <1>19, <1>20
        DEF Next, Work

-----------------------------------------------------------------------------
(* What is erased stays erased *)

\* No step adds a row of an account that has left, nor any of a period that is over.
LEMMA NothingAdded ==
  ASSUME IInv, [Next]_vars, NEW a \in Accounts, Left(a) \/ period # "OPEN"
  PROVE  /\ Own(a) \cap recorded' \subseteq recorded
         /\ \A c \in Candidates : contribution[c][a] = 0 => contribution'[c][a] = 0
<1> DEFINE Goal ==
      /\ Own(a) \cap recorded' \subseteq recorded
      /\ \A c \in Candidates : contribution[c][a] = 0 => contribution'[c][a] = 0
<1>0. TypeOK /\ ReadInv
  BY DEF IInv
<1>1. ASSUME NEW b \in Accounts, Join(b) \/ Withdraw(b) \/ RequestDeletion(b) PROVE Goal
  BY <1>1 DEF Join, Withdraw, RequestDeletion, events, candidates
<1>2. ASSUME NEW e \in Events, Observe(e) \/ Expire(e) PROVE Goal
  BY <1>2 DEF Observe, Expire, candidates
<1>3. ASSUME NEW e \in Events, Record(e) PROVE Goal
  <2>1. OwnerOf(e) # a
    BY <1>3 DEF Record, Authorized, Left
  <2> QED BY <1>3, <2>1 DEF Record, Own, candidates
<1>4. ASSUME NEW w \in Aggregators, Commit(w) PROVE Goal
  <2>1. OwnerOf(aggregator[w].event) # a
    BY <1>4 DEF Commit, Admissible, Authorized, Left
  <2> DEFINE s == aggregator[w]
             b == OwnerOf(s.event)
             n == contribution[s.candidate][b]
  <2>2. CASE contribution' = contribution
    BY <1>4, <2>2 DEF Commit
  <2>3. CASE contribution' # contribution
    <3>1. n < MaxSubmissions /\ contribution' = [contribution EXCEPT ![s.candidate][b] = n + 1]
      BY <1>4, <2>3 DEF Commit
    <3>2. s.event \in Events /\ s.candidate \in Candidates /\ b \in Accounts
      BY <1>0, <1>4, CampaignAssumption DEF ReadInv, Commit
    <3>3. n + 1 \in 0 .. MaxSubmissions
      BY <1>0, <3>1, <3>2, CampaignAssumption DEF TypeOK
    <3>4. \A c \in Candidates : contribution'[c][a] = contribution[c][a]
      BY <1>0, <2>1, <3>1, <3>3, SetCount DEF TypeOK
    <3> QED BY <1>4, <3>4 DEF Commit
  <2> QED BY <2>2, <2>3
<1>5. ASSUME NEW w \in Aggregators, NEW e \in Events, NEW c \in Candidates, Read(w, e, c) PROVE Goal
  BY <1>5 DEF Read, events, candidates
<1>6. ASSUME NEW b \in Accounts, NEW k \in Kinds, Sweep(b, k) PROVE Goal
  BY <1>6 DEF Sweep, Ensure, Adopt, Seek, StartRecount, RecountPage, FinishRecount, RecountProved,
              events, candidates
<1>7. ASSUME NEW b \in Accounts, NEW k \in Kinds, EraseEvent(b, k) PROVE Goal
  BY <1>7 DEF EraseEvent, candidates
<1>8. ASSUME NEW b \in Accounts, NEW k \in Kinds, EraseContribution(b, k) PROVE Goal
  BY <1>0, <1>8, ClearCount DEF EraseContribution, events
<1>9. ASSUME NEW c \in Candidates, Tidy(c) PROVE Goal
  BY <1>0, <1>9, TidyCounts DEF Tidy, events
<1>10. ASSUME NEW b \in Accounts, NEW k \in Kinds, Complete(b, k) PROVE Goal
  BY <1>10 DEF Complete, events, candidates
<1>11. ASSUME NEW c \in Candidates, Freeze(c) \/ ReadInput(c) PROVE Goal
  BY <1>11 DEF Freeze, ReadInput, events, candidates
<1>12. CASE Publish \/ Close \/ BeginDrain \/ Seal
  BY <1>12 DEF Publish, Close, BeginDrain, Seal, events, candidates
<1>13. CASE Drain
  BY <1>13 DEF Drain
<1>14. CASE UNCHANGED vars
  BY <1>14 DEF vars, events, candidates
<1> QED BY <1>1, <1>2, <1>3, <1>4, <1>5, <1>6, <1>7, <1>8, <1>9, <1>10, <1>11, <1>12, <1>13, <1>14
        DEF Next, Work, Sweep, RecountTidied, CleanUp

\* Only the completion of a command makes an account one that has left.
LEMMA LeavesByCompletion ==
  ASSUME IInv, [Next]_vars, NEW a \in Accounts, ~Left(a), Left(a)'
  PROVE  \E k \in Kinds : Complete(a, k)
<1>0. TypeOK
  BY DEF IInv
<1>1. ASSUME NEW b \in Accounts, Join(b) PROVE FALSE
  BY <1>0, <1>1 DEF TypeOK, Join, Left, Kinds
<1>2. ASSUME NEW b \in Accounts, Withdraw(b) PROVE FALSE
  BY <1>0, <1>2 DEF TypeOK, Withdraw, Enqueue, Left, Kinds
<1>3. ASSUME NEW b \in Accounts, RequestDeletion(b) PROVE FALSE
  BY <1>0, <1>3 DEF TypeOK, RequestDeletion, Enqueue, Left, Kinds
<1>4. ASSUME NEW b \in Accounts, NEW k \in Kinds, Complete(b, k) PROVE a = b
  BY <1>0, <1>4 DEF TypeOK, Complete, Left, Kinds
<1>5. CASE UNCHANGED people
  BY <1>5 DEF people, Left
<1>6. ASSUME NEW e \in Events, Observe(e) \/ Expire(e) \/ Record(e) PROVE UNCHANGED people
  BY <1>6 DEF Observe, Expire, Record, people
<1>7. ASSUME NEW w \in Aggregators, Commit(w) \/ \E e \in Events, c \in Candidates : Read(w, e, c)
      PROVE UNCHANGED people
  BY <1>7 DEF Commit, Read, people
<1>8. ASSUME NEW b \in Accounts, NEW k \in Kinds, Ensure(b, k) \/ Adopt(b, k) \/ Work(b, k)
      PROVE UNCHANGED people
  BY <1>8 DEF Ensure, Adopt, Work, Seek, EraseEvent, EraseContribution, StartRecount, RecountPage,
              FinishRecount, RecountTidied, Tidy, RecountProved, people
<1>9. ASSUME NEW c \in Candidates, Freeze(c) \/ ReadInput(c) \/ CleanUp(c) PROVE UNCHANGED people
  BY <1>9 DEF Freeze, ReadInput, CleanUp, Tidy, people
<1>10. ASSUME Publish \/ Close \/ BeginDrain \/ Drain \/ Seal PROVE UNCHANGED people
  BY <1>10 DEF Publish, Close, BeginDrain, Drain, Seal, people
<1>11. CASE UNCHANGED vars
  BY <1>5, <1>11 DEF vars
<1> QED BY <1>1, <1>2, <1>3, <1>4, <1>5, <1>6, <1>7, <1>8, <1>9, <1>10, <1>11 DEF Next

\* Erasures hold: what a command completes on is empty, and nothing is added to it.
LEMMA ErasedStep ==
  ASSUME IInv, [Next]_vars
  PROVE  ErasedForGood' /\ SealedEmpty'
<1>0. TypeOK /\ ErasedForGood /\ SealedEmpty /\ TypeOK'
  BY RowsStep, PeopleStep, TombStep DEF IInv, TypeOK
<1>1. ASSUME NEW a \in Accounts, Left(a)'
      PROVE  Own(a) \cap recorded' = {} /\ \A c \in Candidates : contribution'[c][a] = 0
  <2>1. CASE Left(a)
    BY <1>0, <2>1, NothingAdded DEF ErasedForGood
  <2>2. CASE ~Left(a)
    <3>1. PICK k \in Kinds : Complete(a, k)
      BY <1>1, <2>2, LeavesByCompletion
    <3>2. Own(a) \cap recorded = {} /\ \A c \in Candidates : contribution[c][a] = 0
      <4>1. CASE period = "SEALED"
        BY <1>0, <4>1 DEF SealedEmpty
      <4>2. CASE Locators(a) = {}
        <5>1. Own(a) \cap recorded = {}
          BY <4>2 DEF Locators
        <5>2. ASSUME NEW c \in Candidates PROVE ~(contribution[c][a] > 0)
          BY <4>2 DEF Locators
        <5> QED BY <1>0, <5>1, <5>2, CampaignAssumption DEF TypeOK
      <4> QED BY <3>1, <4>1, <4>2 DEF Complete, Proved
    <3> QED BY <3>1, <3>2 DEF Complete, events, candidates
  <2> QED BY <2>1, <2>2
<1>2. ErasedForGood'
  BY <1>1 DEF ErasedForGood, Own
<1>3. ASSUME period' = "SEALED"
      PROVE  recorded' = {} /\ \A c \in Candidates, a \in Accounts : contribution'[c][a] = 0
  <2>1. CASE period = "SEALED"
    <3>1. ASSUME NEW a \in Accounts
          PROVE  Own(a) \cap recorded' = {} /\ \A c \in Candidates : contribution'[c][a] = 0
      BY <1>0, <2>1, NothingAdded DEF SealedEmpty
    <3> QED BY <1>0, <3>1, CampaignAssumption DEF TypeOK, Own
  <2>2. CASE period # "SEALED"
    <3>1. Seal
      <4>1. ASSUME NEW a \in Accounts, Join(a) \/ Withdraw(a) \/ RequestDeletion(a) PROVE UNCHANGED period
        BY <4>1 DEF Join, Withdraw, RequestDeletion
      <4>2. ASSUME NEW e \in Events, Observe(e) \/ Expire(e) \/ Record(e) PROVE UNCHANGED period
        BY <4>2 DEF Observe, Expire, Record
      <4>3. ASSUME NEW w \in Aggregators, Commit(w) \/ \E e \in Events, c \in Candidates : Read(w, e, c)
            PROVE UNCHANGED period
        BY <4>3 DEF Commit, Read
      <4>4. ASSUME NEW a \in Accounts, NEW k \in Kinds, Ensure(a, k) \/ Adopt(a, k) \/ Work(a, k) \/ Complete(a, k)
            PROVE UNCHANGED period
        BY <4>4 DEF Ensure, Adopt, Work, Seek, EraseEvent, EraseContribution, StartRecount, RecountPage,
                    FinishRecount, RecountTidied, Tidy, RecountProved, Complete
      <4>5. ASSUME NEW c \in Candidates, Freeze(c) \/ ReadInput(c) \/ CleanUp(c) PROVE UNCHANGED period
        BY <4>5 DEF Freeze, ReadInput, CleanUp, Tidy
      <4>6. ASSUME Publish \/ Close \/ BeginDrain \/ Drain \/ UNCHANGED vars PROVE period' # "SEALED"
        BY <1>3, <2>2, <4>6 DEF Publish, Close, BeginDrain, Drain, vars
      <4> QED BY <1>3, <2>2, <4>1, <4>2, <4>3, <4>4, <4>5, <4>6 DEF Next
    <3>2. recorded = {} /\ \A c \in Candidates : Rows(c) = {}
      BY <3>1 DEF Seal, Drained
    <3>3. ASSUME NEW c \in Candidates, NEW a \in Accounts PROVE contribution[c][a] = 0
      BY <1>0, <3>2, CampaignAssumption DEF TypeOK, Rows
    <3> QED BY <3>1, <3>2, <3>3 DEF Seal, events, candidates
  <2> QED BY <2>1, <2>2
<1> QED BY <1>2, <1>3 DEF SealedEmpty

-----------------------------------------------------------------------------
(* The rows of candidates *)

\* SUMMARY and AGGREGATE rows keep their form, and what is read of them has it.
LEMMA FormStep ==
  ASSUME IInv, [Next]_vars
  PROVE  Typed' /\ ReadInv'
<1> DEFINE Goal == Typed' /\ ReadInv'
<1>0. TypeOK /\ Typed /\ ReadInv
  BY DEF IInv
<1>1. CASE UNCHANGED <<summary, aggregate, aggregator>> /\ observation' = [e \in Events |-> observation'[e]]
  BY <1>0, <1>1 DEF Typed, ReadInv
<1>2. ASSUME NEW e \in Events, Observe(e) \/ Expire(e) \/ Record(e) PROVE Goal
  <2>1. observation' = [x \in Events |-> observation'[x]]
    BY <1>0, <1>2 DEF Typed, Observe, Expire, Record
  <2> QED BY <1>1, <1>2, <2>1 DEF Observe, Expire, Record, candidates
<1>3. CASE UNCHANGED <<summary, aggregate, aggregator, observation>>
  BY <1>0, <1>1, <1>3 DEF Typed
<1>4. ASSUME NEW a \in Accounts, Join(a) \/ Withdraw(a) \/ RequestDeletion(a) PROVE Goal
  BY <1>3, <1>4 DEF Join, Withdraw, RequestDeletion, events, candidates
<1>5. ASSUME NEW w \in Aggregators, Commit(w) PROVE Goal
  <2> DEFINE s == aggregator[w]
             c == s.candidate
  <2>1. c \in Candidates /\ IsSummary(s.summary) /\ IsSummary(summary[c])
    BY <1>0, <1>5 DEF Typed, ReadInv, Commit
  <2>2. IsSummary(Counted(s))
    BY <2>1 DEF Counted, IsSummary
  <2>3. CASE summary' = summary
    BY <1>0, <1>5, <2>3 DEF Typed, ReadInv, Commit
  <2>4. CASE summary' = [summary EXCEPT ![c] = Counted(s)]
    BY <1>0, <1>5, <2>1, <2>2, <2>4 DEF Typed, ReadInv, Commit
  <2> QED BY <1>5, <2>3, <2>4 DEF Commit
<1>6. ASSUME NEW w \in Aggregators, NEW e \in Events, NEW c \in Candidates, Read(w, e, c) PROVE Goal
  <2>1. summary[c].row # "deleted" /\ IsSummary(summary[c])
    BY <1>0, <1>6 DEF Typed, Read, Exists, Fresh
  <2>2. contribution[c][OwnerOf(e)] \in Nat
    BY <1>0, CampaignAssumption DEF TypeOK
  <2>3. Typed'
    BY <1>0, <1>6 DEF Typed, Read, events, candidates
  <2> QED BY <1>0, <1>6, <2>1, <2>2, <2>3 DEF ReadInv, Read
<1>7. ASSUME NEW a \in Accounts, NEW k \in Kinds,
             \/ Ensure(a, k) \/ Adopt(a, k) \/ Seek(a, k) \/ EraseEvent(a, k) \/ Complete(a, k)
             \/ \E c \in Candidates : StartRecount(a, k, c) \/ RecountPage(a, k, c) \/ RecountProved(a, k, c)
      PROVE Goal
  BY <1>3, <1>7 DEF Ensure, Adopt, Seek, EraseEvent, Complete, StartRecount, RecountPage, RecountProved,
                    events, candidates
<1>8. ASSUME NEW c, NEW s, summary' = [summary EXCEPT ![c] = s],
             c \in Candidates => IsSummary(s), UNCHANGED <<aggregate, aggregator, observation>>
      PROVE Goal
  BY <1>0, <1>8 DEF Typed, ReadInv
<1>9. ASSUME NEW a \in Accounts, NEW k \in Kinds, EraseContribution(a, k) PROVE Goal
  <2> DEFINE c == tomb[a].target.id
  <2>1. c \in Candidates => IsSummary(Loses(c))
    BY <1>0 DEF Typed, IsSummary, Loses
  <2> QED BY <1>8, <1>9, <2>1 DEF EraseContribution, events
<1>10. IsSummary([NoSummary EXCEPT !.row = "deleted"])
  BY DEF IsSummary, NoSummary
<1>11. ASSUME NEW a \in Accounts, NEW k \in Kinds, NEW c \in Candidates, FinishRecount(a, k, c) PROVE Goal
  <2> DEFINE rest == Rows(c) \ repair[c].seen
             all == Rows(c) \cup repair[c].seen
             counted == [summary[c] EXCEPT !.version = @ + 1, !.contributors = Cardinality(all),
                           !.submissions = repair[c].submissions + Submissions(c, rest),
                           !.phase = IF @ = "none" THEN @ ELSE "FROZEN"]
  <2>1. IsSummary(counted)
    BY <1>0 DEF Typed, IsSummary
  <2>2. summary' = [summary EXCEPT ![c] = IF all = {} THEN [NoSummary EXCEPT !.row = "deleted"] ELSE counted]
    BY <1>11 DEF FinishRecount
  <2> HIDE DEF counted, all
  <2> QED BY <1>8, <1>10, <1>11, <2>1, <2>2 DEF FinishRecount, events
<1>12. ASSUME NEW c \in Candidates, Tidy(c) PROVE Goal
  BY <1>3, <1>8, <1>10, <1>12 DEF Tidy, events
<1>13. ASSUME NEW c \in Candidates, Freeze(c) PROVE Goal
  <2>1. IsSummary([summary[c] EXCEPT !.version = @ + 1, !.phase = "FROZEN"])
    BY <1>0 DEF Typed, IsSummary
  <2>2. summary' = [summary EXCEPT ![c] = [summary[c] EXCEPT !.version = @ + 1, !.phase = "FROZEN"]]
    BY <1>0, <1>13 DEF Typed, Freeze
  <2> QED BY <1>8, <1>13, <2>1, <2>2 DEF Freeze, events
<1>14. ASSUME NEW c \in Candidates, ReadInput(c) PROVE Goal
  BY <1>3, <1>14 DEF ReadInput, events, candidates
<1>15. CASE Publish
  <2> DEFINE c == finalizer.candidate
  <2>1. ASSUME NEW p \in {"PUBLISHED", "SUPPRESSED"}, summary' = [summary EXCEPT ![c].phase = p]
        PROVE Typed'
    <3>1. c \in Candidates => IsSummary([summary[c] EXCEPT !.phase = p])
      BY <1>0 DEF Typed, IsSummary
    <3>2. summary' = [x \in Candidates |-> IF x = c THEN [summary[c] EXCEPT !.phase = p] ELSE summary[x]]
      BY <1>0, <2>1 DEF Typed
    <3>3. aggregate' = [x \in Candidates |-> aggregate'[x]] /\ DOMAIN aggregate' = Candidates
      BY <1>0, <1>15 DEF Typed, Publish
    <3> QED BY <1>0, <1>15, <3>1, <3>2, <3>3 DEF Typed, Publish, events
  <2>2. UNCHANGED aggregator
    BY <1>15 DEF Publish
  <2> QED BY <1>0, <1>15, <2>1, <2>2 DEF ReadInv, Publish
<1>16. CASE Close \/ BeginDrain \/ Seal
  BY <1>3, <1>16 DEF Close, BeginDrain, Seal, events, candidates
<1>17. CASE Drain
  <2>1. observation' = [e \in Events |-> observation'[e]]
    BY <1>17 DEF Drain
  <2>2. DOMAIN summary' = Candidates /\ \A c \in Candidates : IsSummary(summary'[c])
    BY <1>0, <1>10, <1>17 DEF Drain, Typed
  <2>3. summary' = [c \in Candidates |-> summary'[c]]
    BY <1>17 DEF Drain
  <2>4. UNCHANGED <<aggregate, aggregator>>
    BY <1>17 DEF Drain
  <2> QED BY <1>0, <2>1, <2>2, <2>3, <2>4 DEF Typed, ReadInv
<1>18. CASE UNCHANGED vars
  BY <1>3, <1>18 DEF vars, events, candidates
<1> QED BY <1>2, <1>4, <1>5, <1>6, <1>7, <1>9, <1>11, <1>12, <1>13, <1>14, <1>15, <1>16, <1>17, <1>18
        DEF Next, Work, RecountTidied, CleanUp

\* The publication of a candidate is decided, and its rows are only cleaned up.
Decided == {"PUBLISHED", "SUPPRESSED"}

\* A SUMMARY is as it was, with its contributions if they are not just cleaned up,
\* or is new, or goes, or gets a new version, or is decided.
Moves(c) ==
  \/ /\ summary'[c] = summary[c]
     /\ Exists(c) /\ summary[c].phase \notin Decided => contribution'[c] = contribution[c]
  \/ summary[c].row = "none" /\ (Rows(c) = {} => summary'[c].row = "live")
  \/ summary'[c].row = "deleted"
  \/ Exists(c) /\ summary'[c].row = "live" /\ summary'[c].version = summary[c].version + 1
  \/ /\ Exists(c) /\ summary'[c].row = "live" /\ summary'[c].version = summary[c].version
     /\ summary'[c].phase \in Decided

\* An aggregator counts nothing in a frozen candidate, nor in one that is deleted.
LEMMA CommitMoves ==
  ASSUME IInv, NEW w \in Aggregators, Commit(w)
  PROVE  \A c \in Candidates : Moves(c)
<1>0. TypeOK /\ Typed /\ ReadInv
  BY DEF IInv
<1>s. PICK s : s = aggregator[w]
  OBVIOUS
<1>c. PICK c \in Candidates : c = s.candidate
  BY <1>0, <1>s DEF ReadInv, Commit
<1>1. /\ c \in Candidates /\ IsSummary(s.summary) /\ IsSummary(summary[c]) /\ s.summary.row # "deleted"
      /\ s.event \in Events /\ OwnerOf(s.event) \in Accounts
  BY <1>0, <1>s, <1>c, CampaignAssumption DEF Typed, ReadInv, Commit
<1>2. Unchanged(s) /\ s.candidate = c
  BY <1>s, <1>c DEF Commit
<1>3. CASE summary' = summary /\ contribution' = contribution
  BY <1>3 DEF Moves
<1>4. CASE /\ (s.count = 0) <=> (contribution[c][OwnerOf(s.event)] = 0)
           /\ summary' = [summary EXCEPT ![c] = Counted(s)]
           /\ contribution' = [contribution EXCEPT ![c][OwnerOf(s.event)] = @ + 1]
  <2>1. summary'[c] = Counted(s) /\ \A x \in Candidates : x # c => summary'[x] = summary[x]
    BY <1>0, <1>1, <1>4 DEF Typed
  <2>2. /\ Counted(s).version = summary[c].version + 1
        /\ summary[c].row # "none" \/ Rows(c) = {} => Counted(s).row = "live"
    <3>1. CASE s.count = 0
      BY <1>1, <1>2, <3>1 DEF Counted, IsSummary, Unchanged
    <3>2. CASE s.count # 0
      <4>1. contribution[c][OwnerOf(s.event)] # 0
        BY <1>4, <3>2
      <4>2. Rows(c) # {}
        BY <1>0, <1>1, <4>1 DEF TypeOK, Rows
      <4> QED BY <1>1, <1>2, <3>2, <4>2 DEF Counted, IsSummary, Unchanged
    <3> QED BY <3>1, <3>2
  <2>3. Moves(c)
    BY <1>1, <1>2, <2>1, <2>2 DEF Moves, Exists, IsSummary, Unchanged
  <2>4. ASSUME NEW x \in Candidates, x # c PROVE Moves(x)
    <3>1. contribution'[x] = contribution[x]
      BY <1>0, <1>4, <2>4 DEF TypeOK
    <3> QED BY <2>1, <2>4, <3>1 DEF Moves
  <2> QED BY <2>3, <2>4
<1> QED BY <1>s, <1>c, <1>3, <1>4 DEF Commit

\* A sweep that deletes a contribution moves its SUMMARY on, if it is frozen.
LEMMA EraseMoves ==
  ASSUME IInv, NEW a \in Accounts, NEW k \in Kinds, EraseContribution(a, k)
  PROVE  \A c \in Candidates : Moves(c)
<1>c. PICK c : c = tomb[a].target.id
  OBVIOUS
<1>0. TypeOK /\ Typed
  BY DEF IInv
<1>1. /\ summary' = [summary EXCEPT ![c] = Loses(c)]
      /\ contribution' = [contribution EXCEPT ![c][a] = 0]
  BY <1>c DEF EraseContribution
<1>2. ASSUME NEW x \in Candidates, x # c PROVE Moves(x)
  <2>1. contribution'[x] = contribution[x] /\ summary'[x] = summary[x]
    BY <1>0, <1>1, <1>2 DEF TypeOK, Typed
  <2> QED BY <2>1 DEF Moves
<1>3. ASSUME c \in Candidates PROVE Moves(c)
  <2>1. summary'[c] = Loses(c) /\ IsSummary(summary[c])
    BY <1>0, <1>1, <1>3 DEF Typed
  <2>2. CASE ~Exists(c)
    BY <2>1, <2>2 DEF Loses, Moves, Decided
  <2>3. CASE Exists(c) /\ summary[c].phase \notin {"PUBLISHED", "SUPPRESSED"}
    <3>1. Loses(c) = [summary[c] EXCEPT !.version = @ + 1, !.phase = IF @ = "none" THEN @ ELSE "REPAIRING"]
      BY <2>3 DEF Loses
    <3>2. Loses(c).row = summary[c].row /\ Loses(c).version = summary[c].version + 1
      BY <2>1, <3>1 DEF IsSummary
    <3> QED BY <2>1, <2>3, <3>2 DEF Moves, Exists
  <2>4. CASE Exists(c) /\ summary[c].phase \in {"PUBLISHED", "SUPPRESSED"}
    BY <2>1, <2>4 DEF Loses, Moves, Decided
  <2> QED BY <2>1, <2>2, <2>3, <2>4 DEF IsSummary
<1> QED BY <1>2, <1>3

\* A recount gives the SUMMARY a new version, or deletes it.
LEMMA RecountMoves ==
  ASSUME IInv, NEW a \in Accounts, NEW k \in Kinds, NEW d \in Candidates, FinishRecount(a, k, d)
  PROVE  \A c \in Candidates : Moves(c)
<1> DEFINE all == Rows(d) \cup repair[d].seen
           counted == [summary[d] EXCEPT !.version = @ + 1, !.contributors = Cardinality(all),
                         !.submissions = repair[d].submissions + Submissions(d, Rows(d) \ repair[d].seen),
                         !.phase = IF @ = "none" THEN @ ELSE "FROZEN"]
<1>0. TypeOK /\ Typed
  BY DEF IInv
<1>1. /\ summary' = [summary EXCEPT ![d] = IF all = {} THEN [NoSummary EXCEPT !.row = "deleted"] ELSE counted]
      /\ contribution' = contribution /\ Exists(d)
  BY DEF FinishRecount, Current
<1>2. counted.row = summary[d].row /\ counted.version = summary[d].version + 1
  BY <1>0 DEF Typed, IsSummary
<1>3. [NoSummary EXCEPT !.row = "deleted"].row = "deleted"
  BY DEF NoSummary
<1> HIDE DEF counted, all
<1>4. summary'[d] = IF all = {} THEN [NoSummary EXCEPT !.row = "deleted"] ELSE counted
  BY <1>0, <1>1 DEF Typed
<1>5. Moves(d)
  BY <1>1, <1>2, <1>3, <1>4 DEF Moves, Exists
<1>6. ASSUME NEW x \in Candidates, x # d PROVE Moves(x)
  BY <1>0, <1>1, <1>6 DEF Moves, Typed
<1> QED BY <1>5, <1>6

\* The publication and the end of the period.
LEMMA PeriodMoves ==
  ASSUME IInv, NEW d \in Candidates, Tidy(d) \/ Freeze(d) \/ Drain
  PROVE  \A c \in Candidates : Moves(c)
<1>0. TypeOK /\ Typed
  BY DEF IInv
<1>1. [NoSummary EXCEPT !.row = "deleted"].row = "deleted"
  BY DEF NoSummary
<1>2. CASE Tidy(d)
  <2>1. CASE UNCHANGED contribution
    BY <1>0, <1>1, <1>2, <2>1 DEF Tidy, Moves, Decided, Typed
  <2>2. ASSUME NEW a, contribution' = [contribution EXCEPT ![d][a] = 0], UNCHANGED summary
        PROVE \A c \in Candidates : Moves(c)
    <3>1. ASSUME NEW x \in Candidates, x # d PROVE contribution'[x] = contribution[x]
      BY <1>0, <2>2, <3>1 DEF TypeOK
    <3> QED BY <1>2, <2>2, <3>1 DEF Tidy, Moves, Decided
  <2> QED BY <1>2, <2>1, <2>2 DEF Tidy
<1>3. CASE Freeze(d)
  <2>1. /\ summary' = [summary EXCEPT ![d] = [summary[d] EXCEPT !.version = @ + 1, !.phase = "FROZEN"]]
        /\ contribution' = contribution /\ Exists(d)
    BY <1>0, <1>3 DEF Typed, Freeze
  <2>2. /\ [summary[d] EXCEPT !.version = @ + 1, !.phase = "FROZEN"].row = summary[d].row
        /\ [summary[d] EXCEPT !.version = @ + 1, !.phase = "FROZEN"].version = summary[d].version + 1
    BY <1>0 DEF Typed, IsSummary
  <2> QED BY <1>0, <2>1, <2>2 DEF Moves, Exists, Typed
<1>4. CASE Drain
  BY <1>1, <1>4 DEF Drain, Moves, Exists
<1> QED BY <1>2, <1>3, <1>4

\* A publication decides on a candidate and leaves its version.
LEMMA PublishMoves ==
  ASSUME IInv, Publish
  PROVE  \A c \in Candidates : Moves(c)
<1>0. TypeOK /\ Typed /\ InputInv
  BY DEF IInv
<1>f. PICK d \in Candidates : d = finalizer.candidate
  BY <1>0 DEF Publish, InputInv
<1>1. ASSUME NEW p \in Decided, summary' = [summary EXCEPT ![d].phase = p] PROVE \A c \in Candidates : Moves(c)
  <2>1. summary'[d] = [summary[d] EXCEPT !.phase = p] /\ \A x \in Candidates : x # d => summary'[x] = summary[x]
    BY <1>0, <1>1 DEF Typed
  <2>2. /\ [summary[d] EXCEPT !.phase = p].row = summary[d].row
        /\ [summary[d] EXCEPT !.phase = p].version = summary[d].version
        /\ [summary[d] EXCEPT !.phase = p].phase = p
    BY <1>0 DEF Typed, IsSummary
  <2>3. contribution' = contribution /\ Exists(d)
    BY <1>f DEF Publish, Matches
  <2>4. Moves(d)
    BY <1>1, <2>1, <2>2, <2>3 DEF Moves, Exists
  <2>5. ASSUME NEW x \in Candidates, x # d PROVE Moves(x)
    BY <2>1, <2>3, <2>5 DEF Moves
  <2> QED BY <2>4, <2>5
<1> QED BY <1>f, <1>1 DEF Publish, Decided

\* So every step moves a SUMMARY on that it changes.
LEMMA AllMove ==
  ASSUME IInv, [Next]_vars
  PROVE  \A c \in Candidates : Moves(c)
<1> DEFINE Goal == \A c \in Candidates : Moves(c)
<1>1. CASE UNCHANGED <<summary, contribution>>
  BY <1>1 DEF Moves
<1>2. ASSUME NEW a \in Accounts, Join(a) \/ Withdraw(a) \/ RequestDeletion(a) PROVE Goal
  BY <1>1, <1>2 DEF Join, Withdraw, RequestDeletion, candidates
<1>3. ASSUME NEW e \in Events, Observe(e) \/ Expire(e) \/ Record(e) PROVE Goal
  BY <1>1, <1>3 DEF Observe, Expire, Record, candidates
<1>4. ASSUME NEW w \in Aggregators, NEW e \in Events, NEW c \in Candidates, Read(w, e, c) PROVE Goal
  BY <1>1, <1>4 DEF Read, candidates
<1>5. ASSUME NEW a \in Accounts, NEW k \in Kinds,
             \/ Ensure(a, k) \/ Adopt(a, k) \/ Seek(a, k) \/ EraseEvent(a, k) \/ Complete(a, k)
             \/ \E c \in Candidates : StartRecount(a, k, c) \/ RecountPage(a, k, c) \/ RecountProved(a, k, c)
      PROVE Goal
  BY <1>1, <1>5 DEF Ensure, Adopt, Seek, EraseEvent, Complete, StartRecount, RecountPage, RecountProved,
                    candidates
<1>6. ASSUME NEW c \in Candidates, ReadInput(c) PROVE Goal
  BY <1>1, <1>6 DEF ReadInput, candidates
<1>7. CASE Close \/ BeginDrain \/ Seal \/ UNCHANGED vars
  BY <1>1, <1>7 DEF Close, BeginDrain, Seal, candidates, vars
<1> QED BY <1>2, <1>3, <1>4, <1>5, <1>6, <1>7, CommitMoves, EraseMoves, RecountMoves, PeriodMoves, PublishMoves
        DEF Next, Work, RecountTidied, CleanUp

\* What a publication has read stays good.
LEMMA InputStep ==
  ASSUME IInv, [Next]_vars
  PROVE  InputInv'
<1>0. TypeOK /\ Typed /\ InputInv
  BY DEF IInv
<1>m. \A c \in Candidates : Moves(c)
  BY AllMove
<1>1. CASE UNCHANGED finalizer
  <2> SUFFICES ASSUME finalizer # None PROVE InputInv'
    BY <1>1 DEF InputInv
  <2>c. PICK c \in Candidates : c = finalizer.candidate
    BY <1>0 DEF InputInv
  <2>1. c \in Candidates /\ Moves(c) /\ finalizer.version \in Nat /\ IsSummary(summary[c])
    BY <1>0, <1>m, <2>c DEF InputInv, Typed
  <2>2. /\ summary[c].row \in {"live", "deleted"}
        /\ Exists(c) => finalizer.version <= summary[c].version
        /\ Exists(c) /\ summary[c].version = finalizer.version /\ summary[c].phase = "FROZEN" =>
             finalizer.rows = Rows(c)
    BY <1>0, <2>c DEF InputInv
  <2>3. /\ summary'[c].row \in {"live", "deleted"}
        /\ Exists(c)' => finalizer.version <= summary'[c].version
        /\ Exists(c)' /\ summary'[c].version = finalizer.version /\ summary'[c].phase = "FROZEN" =>
             finalizer.rows = Rows(c)'
    <3>1. CASE /\ summary'[c] = summary[c]
               /\ Exists(c) /\ summary[c].phase \notin Decided => contribution'[c] = contribution[c]
      BY <2>2, <3>1 DEF Exists, Rows, Decided
    <3>2. CASE summary'[c].row = "deleted"
      BY <3>2 DEF Exists
    <3>3. CASE Exists(c) /\ summary'[c].row = "live" /\ summary'[c].version = summary[c].version + 1
      BY <2>1, <2>2, <3>3 DEF Exists, IsSummary
    <3>4. CASE Exists(c) /\ summary'[c].version = summary[c].version /\ summary'[c].phase \in Decided
               /\ summary'[c].row = "live"
      BY <2>2, <3>4 DEF Exists, Decided
    <3> QED BY <2>1, <2>2, <3>1, <3>2, <3>3, <3>4 DEF Moves
  <2> QED BY <1>1, <2>c, <2>1, <2>3 DEF InputInv, Exists, Rows
<1>2. ASSUME NEW c \in Candidates, ReadInput(c) PROVE InputInv'
  <2>1. IsSummary(summary[c])
    BY <1>0 DEF Typed
  <2>2. /\ finalizer' = [candidate |-> c, version |-> summary[c].version, rows |-> Rows(c)]
        /\ Exists(c) /\ summary' = summary /\ contribution' = contribution
    BY <1>2 DEF ReadInput, candidates
  <2> QED BY <2>1, <2>2 DEF InputInv, IsSummary, Exists, Rows
<1>3. CASE Publish
  BY <1>3 DEF Publish, InputInv
<1>4. ASSUME NEW a \in Accounts, Join(a) \/ Withdraw(a) \/ RequestDeletion(a) PROVE UNCHANGED finalizer
  BY <1>4 DEF Join, Withdraw, RequestDeletion
<1>5. ASSUME NEW e \in Events, Observe(e) \/ Expire(e) \/ Record(e) PROVE UNCHANGED finalizer
  BY <1>5 DEF Observe, Expire, Record
<1>6. ASSUME NEW w \in Aggregators, Commit(w) \/ \E e \in Events, c \in Candidates : Read(w, e, c)
      PROVE UNCHANGED finalizer
  BY <1>6 DEF Commit, Read
<1>7. ASSUME NEW a \in Accounts, NEW k \in Kinds, Ensure(a, k) \/ Adopt(a, k) \/ Work(a, k) \/ Complete(a, k)
      PROVE UNCHANGED finalizer
  BY <1>7 DEF Ensure, Adopt, Work, Seek, EraseEvent, EraseContribution, StartRecount, RecountPage,
              FinishRecount, RecountTidied, Tidy, RecountProved, Complete
<1>8. ASSUME NEW c \in Candidates, Freeze(c) \/ CleanUp(c) PROVE UNCHANGED finalizer
  BY <1>8 DEF Freeze, CleanUp, Tidy
<1>9. CASE Close \/ BeginDrain \/ Drain \/ Seal \/ UNCHANGED vars
  BY <1>1, <1>9 DEF Close, BeginDrain, Drain, Seal, vars
<1> QED BY <1>1, <1>2, <1>3, <1>4, <1>5, <1>6, <1>7, <1>8, <1>9 DEF Next

-----------------------------------------------------------------------------
(* The invariant *)

\* Every step keeps the invariant.
LEMMA NextIInv == IInv /\ [Next]_vars => IInv'
<1> SUFFICES ASSUME IInv, [Next]_vars PROVE IInv'
  OBVIOUS
<1>1. TypeOK'
  BY PeopleStep, RowsStep, TombStep DEF TypeOK
<1>2. WithdrawalInv' /\ JobsCounted'
  BY PeopleStep, JobsAgreeNext
<1>3. Typed' /\ ReadInv' /\ InputInv' /\ ErasedForGood' /\ SealedEmpty'
  BY FormStep, InputStep, ErasedStep
<1> QED BY <1>1, <1>2, <1>3 DEF IInv

\* So it always holds.
LEMMA Invariance == Spec => []IInv
<1> QED BY InitIInv, NextIInv, PTL DEF Spec

\* A publication counts the contributions that are there, and none of an account that is
\* being erased.
LEMMA PublishStep ==
  ASSUME IInv, [Next]_vars
  PROVE  \A c \in Candidates : Soundly(c)
<1>0. TypeOK /\ Typed /\ InputInv /\ ErasedForGood
  BY DEF IInv
<1>1. CASE UNCHANGED aggregate
  BY <1>1 DEF Soundly
<1>2. CASE Publish
  <2>f. PICK f : f = finalizer
    OBVIOUS
  <2>1. /\ Exists(f.candidate) /\ summary[f.candidate].version = f.version
        /\ summary[f.candidate].phase = "FROZEN" /\ f.candidate \in Candidates
    BY <1>0, <1>2, <2>f DEF Publish, Matches, InputInv
  <2>2. f.rows = Rows(f.candidate)
    BY <1>0, <1>2, <2>f, <2>1 DEF Publish, InputInv
  <2>3. CASE UNCHANGED aggregate
    BY <1>1, <2>3
  <2>4. CASE /\ Cardinality(f.rows) >= Threshold /\ Included(f)
             /\ aggregate' = [aggregate EXCEPT ![f.candidate] = [contributors |-> Cardinality(f.rows)]]
    <3>1. aggregate'[f.candidate].contributors = Cardinality(Rows(f.candidate))
      BY <1>0, <2>1, <2>2, <2>4 DEF Typed
    <3>2. ASSUME NEW a \in Rows(f.candidate) PROVE tomb[a] = None /\ ~Left(a)
      <4>1. tomb[a] = None
        BY <2>2, <2>4 DEF Included
      <4>2. a \in Accounts /\ contribution[f.candidate][a] > 0
        BY DEF Rows
      <4>3. contribution[f.candidate][a] # 0
        BY <4>2
      <4> QED BY <1>0, <2>1, <4>1, <4>2, <4>3 DEF ErasedForGood
    <3>3. Soundly(f.candidate)
      BY <2>2, <2>4, <3>1, <3>2 DEF Soundly
    <3>4. ASSUME NEW x \in Candidates, x # f.candidate PROVE Soundly(x)
      BY <1>0, <2>4, <3>4 DEF Soundly, Typed
    <3> QED BY <3>3, <3>4
  <2> QED BY <1>2, <2>f, <2>3, <2>4 DEF Publish
<1>3. ASSUME NEW a \in Accounts, Join(a) \/ Withdraw(a) \/ RequestDeletion(a) PROVE UNCHANGED aggregate
  BY <1>3 DEF Join, Withdraw, RequestDeletion, candidates
<1>4. ASSUME NEW e \in Events, Observe(e) \/ Expire(e) \/ Record(e) PROVE UNCHANGED aggregate
  BY <1>4 DEF Observe, Expire, Record, candidates
<1>5. ASSUME NEW w \in Aggregators, Commit(w) \/ \E e \in Events, c \in Candidates : Read(w, e, c)
      PROVE UNCHANGED aggregate
  BY <1>5 DEF Commit, Read, candidates
<1>6. ASSUME NEW a \in Accounts, NEW k \in Kinds, Ensure(a, k) \/ Adopt(a, k) \/ Work(a, k) \/ Complete(a, k)
      PROVE UNCHANGED aggregate
  BY <1>6 DEF Ensure, Adopt, Work, Seek, EraseEvent, EraseContribution, StartRecount, RecountPage,
              FinishRecount, RecountTidied, Tidy, RecountProved, Complete, candidates
<1>7. ASSUME NEW c \in Candidates, Freeze(c) \/ ReadInput(c) \/ CleanUp(c) PROVE UNCHANGED aggregate
  BY <1>7 DEF Freeze, ReadInput, CleanUp, Tidy, candidates
<1>8. ASSUME Close \/ BeginDrain \/ Drain \/ Seal PROVE UNCHANGED aggregate
  BY <1>8 DEF Close, BeginDrain, Drain, Seal, candidates
<1>9. CASE UNCHANGED vars
  BY <1>1, <1>9 DEF vars, candidates
<1> QED BY <1>1, <1>2, <1>3, <1>4, <1>5, <1>6, <1>7, <1>8, <1>9 DEF Next

-----------------------------------------------------------------------------
(* Submissions, one by one *)

\* The units of what f counts for the members of xs.
Units(f, xs) == {u \in xs \X (1 .. MaxSubmissions) : u[2] <= f[u[1]]}

\* There are finitely many of finitely many.
LEMMA UnitsFinite ==
  ASSUME NEW xs, IsFiniteSet(xs), NEW f
  PROVE  IsFiniteSet(Units(f, xs)) /\ Cardinality(Units(f, xs)) \in Nat
<1>1. IsFiniteSet(1 .. MaxSubmissions)
  BY CampaignAssumption, FS_Interval
<1>2. IsFiniteSet(xs \X (1 .. MaxSubmissions))
  BY <1>1, FS_Product
<1>3. IsFiniteSet(Units(f, xs))
  BY <1>2, FS_Subset DEF Units
<1> QED BY <1>3, FS_CardinalityType

\* Nobody has any.
LEMMA UnitsNone == ASSUME NEW f PROVE Cardinality(Units(f, {})) = 0
<1>1. Units(f, {}) = {}
  BY DEF Units
<1> QED BY <1>1, FS_EmptySet

\* One member has as many as it counts.
LEMMA UnitsOne ==
  ASSUME NEW f, NEW x, f[x] \in 0 .. MaxSubmissions
  PROVE  Cardinality(Units(f, {x})) = f[x]
<1> DEFINE n == f[x]
           m == [i \in 1 .. n |-> <<x, i>>]
<1>0. MaxSubmissions \in Nat /\ n \in Nat /\ n <= MaxSubmissions
  BY CampaignAssumption
<1>1. \A i \in 1 .. n : i \in 1 .. MaxSubmissions
  BY <1>0
<1>2. m \in [1 .. n -> Units(f, {x})]
  BY <1>0, <1>1 DEF Units
<1>3. \A i, j \in 1 .. n : m[i] = m[j] => i = j
  OBVIOUS
<1>4. \A u \in Units(f, {x}) : \E i \in 1 .. n : m[i] = u
  <2> SUFFICES ASSUME NEW u \in Units(f, {x}) PROVE \E i \in 1 .. n : m[i] = u
    OBVIOUS
  <2>1. u = <<x, u[2]>> /\ u[2] \in 1 .. MaxSubmissions /\ u[2] <= n
    BY DEF Units
  <2>2. u[2] \in 1 .. n
    BY <1>0, <2>1
  <2> QED BY <2>1, <2>2
<1>5. ExistsBijection(1 .. n, Units(f, {x}))
  <2> HIDE DEF m
  <2>1. m \in Bijection(1 .. n, Units(f, {x}))
    BY <1>2, <1>3, <1>4 DEF Bijection, Injection, Surjection, IsInjective
  <2> QED BY <2>1 DEF ExistsBijection
<1>6. IsFiniteSet(1 .. n) /\ Cardinality(1 .. n) = n
  <2> HIDE DEF n
  <2>1. 1 \in Int /\ n \in Int
    BY <1>0
  <2>2. IsFiniteSet(1 .. n) /\ Cardinality(1 .. n) = IF 1 > n THEN 0 ELSE n - 1 + 1
    BY <2>1, FS_Interval
  <2> QED BY <1>0, <2>2
<1> QED BY <1>5, <1>6, FS_Bijection

\* Two sets have together what each has.
LEMMA UnitsJoin ==
  ASSUME NEW xs, IsFiniteSet(xs), NEW ys, IsFiniteSet(ys), xs \cap ys = {}, NEW f
  PROVE  Cardinality(Units(f, xs \cup ys)) = Cardinality(Units(f, xs)) + Cardinality(Units(f, ys))
<1>1. Units(f, xs \cup ys) = Units(f, xs) \cup Units(f, ys)
  BY DEF Units
<1>2. Units(f, xs) \cap Units(f, ys) = {}
  <2> SUFFICES ASSUME NEW u \in Units(f, xs), u \in Units(f, ys) PROVE FALSE
    OBVIOUS
  <2> QED BY DEF Units
<1>3. Cardinality(Units(f, xs) \cap Units(f, ys)) = 0
  BY <1>2, FS_EmptySet
<1>4. /\ IsFiniteSet(Units(f, xs)) /\ Cardinality(Units(f, xs)) \in Nat
      /\ IsFiniteSet(Units(f, ys)) /\ Cardinality(Units(f, ys)) \in Nat
  BY UnitsFinite
<1>5. Cardinality(Units(f, xs) \cup Units(f, ys))
        = Cardinality(Units(f, xs)) + Cardinality(Units(f, ys)) - Cardinality(Units(f, xs) \cap Units(f, ys))
  BY <1>4, FS_Union
<1>6. Cardinality(Units(f, xs \cup ys)) = Cardinality(Units(f, xs) \cup Units(f, ys))
  BY <1>1
<1>7. \A p, q, r, t \in Int : t = 0 /\ p = q + r - t => p = q + r
  OBVIOUS
<1> QED BY <1>3, <1>4, <1>5, <1>6, <1>7

\* The count of those that have not changed is the same.
LEMMA UnitsSame ==
  ASSUME NEW xs, NEW f, NEW g, \A x \in xs : g[x] = f[x]
  PROVE  Units(g, xs) = Units(f, xs)
BY DEF Units

\* One more for one member is one more.
LEMMA UnitsMore ==
  ASSUME NEW xs, IsFiniteSet(xs), NEW f, NEW g, NEW x \in xs, f[x] \in 0 .. MaxSubmissions,
         g[x] \in 0 .. MaxSubmissions, g[x] = f[x] + 1, \A y \in xs \ {x} : g[y] = f[y]
  PROVE  Cardinality(Units(g, xs)) = Cardinality(Units(f, xs)) + 1
<1>1. IsFiniteSet(xs \ {x}) /\ IsFiniteSet({x}) /\ (xs \ {x}) \cap {x} = {} /\ (xs \ {x}) \cup {x} = xs
  BY FS_RemoveElement, FS_Singleton
<1>2. /\ Cardinality(Units(g, xs)) = Cardinality(Units(g, xs \ {x})) + g[x]
      /\ Cardinality(Units(f, xs)) = Cardinality(Units(f, xs \ {x})) + f[x]
  <2>1. /\ Cardinality(Units(g, (xs \ {x}) \cup {x})) = Cardinality(Units(g, xs \ {x})) + Cardinality(Units(g, {x}))
        /\ Cardinality(Units(f, (xs \ {x}) \cup {x})) = Cardinality(Units(f, xs \ {x})) + Cardinality(Units(f, {x}))
    BY <1>1, UnitsJoin
  <2> QED BY <1>1, <2>1, UnitsOne
<1>3. Units(g, xs \ {x}) = Units(f, xs \ {x})
  BY UnitsSame
<1>4. Cardinality(Units(f, xs \ {x})) \in Nat
  BY <1>1, UnitsFinite
<1> QED BY <1>2, <1>3, <1>4
-----------------------------------------------------------------------------
(* What a period that is not over yet counts *)

\* A sweep is at a row of its contributor.
TargetInv ==
  \A a \in Accounts : tomb[a] # None /\ tomb[a].phase # "SEEK" =>
    /\ tomb[a].target \in Targets
    /\ tomb[a].target.kind = "FEATURE" => tomb[a].target.id \in Own(a)

\* An open period has frozen no candidate.
PhaseInv == period = "OPEN" => \A c \in Candidates : summary[c].phase = "none"

\* A candidate never written has nothing.
AbsentInv == \A c \in Candidates : summary[c].row = "none" => summary[c] = NoSummary /\ repair[c] = None

\* What an aggregator has read is there as long as the SUMMARY has its version.
ReadExact ==
  \A w \in Aggregators : aggregator[w] # None =>
    LET c == aggregator[w].candidate
        s == aggregator[w].summary
    IN  /\ s.row = "none" => s = NoSummary
        /\ s.row = "live" =>
             /\ summary[c].row \in {"live", "deleted"}
             /\ Exists(c) => s.version <= summary[c].version
             /\ Exists(c) /\ s.version = summary[c].version /\ summary[c].phase = "none" => summary[c] = s

\* What a recount has seen is there as long as the SUMMARY has the version it began at.
RepairExact ==
  /\ repair = [c \in Candidates |-> repair[c]]
  /\ \A c \in Candidates : repair[c] # None =>
    LET r == repair[c]
    IN  /\ r = [version |-> r.version, seen |-> r.seen, submissions |-> r.submissions]
        /\ r.version \in Nat
        /\ Exists(c) => r.version <= summary[c].version
        /\ Exists(c) /\ r.version = summary[c].version /\ summary[c].phase \notin Decided =>
             r.seen \subseteq Rows(c) /\ r.submissions = Submissions(c, r.seen)

\* The period is not over.
On == period \in {"OPEN", "CLOSING"}

\* A period that is over does not come back, nor one that is closed.
LEMMA PeriodOn ==
  ASSUME [Next]_vars, On'
  PROVE  On /\ ~Drain /\ ~Seal /\ ~BeginDrain /\ (period' = "OPEN" => period = "OPEN")
<1> DEFINE Goal == On /\ ~Drain /\ ~Seal /\ ~BeginDrain /\ (period' = "OPEN" => period = "OPEN")
<1>0. period' # "DRAINING" /\ period' # "SEALED"
  BY DEF On
<1>1. ~Drain /\ ~Seal /\ ~BeginDrain
  BY <1>0 DEF Drain, Seal, BeginDrain
<1>2. CASE UNCHANGED period
  BY <1>1, <1>2 DEF On
<1>3. CASE Close
  BY <1>1, <1>3 DEF On, Close
<1>4. ASSUME NEW a \in Accounts, Join(a) \/ Withdraw(a) \/ RequestDeletion(a) PROVE UNCHANGED period
  BY <1>4 DEF Join, Withdraw, RequestDeletion
<1>5. ASSUME NEW e \in Events, Observe(e) \/ Expire(e) \/ Record(e) PROVE UNCHANGED period
  BY <1>5 DEF Observe, Expire, Record
<1>6. ASSUME NEW w \in Aggregators, Commit(w) \/ \E e \in Events, c \in Candidates : Read(w, e, c)
      PROVE UNCHANGED period
  BY <1>6 DEF Commit, Read
<1>7. ASSUME NEW a \in Accounts, NEW k \in Kinds, Ensure(a, k) \/ Adopt(a, k) \/ Work(a, k) \/ Complete(a, k)
      PROVE UNCHANGED period
  BY <1>7 DEF Ensure, Adopt, Work, Seek, EraseEvent, EraseContribution, StartRecount, RecountPage,
              FinishRecount, RecountTidied, Tidy, RecountProved, Complete
<1>8. ASSUME NEW c \in Candidates, Freeze(c) \/ ReadInput(c) \/ CleanUp(c) PROVE UNCHANGED period
  BY <1>8 DEF Freeze, ReadInput, CleanUp, Tidy
<1>9. ASSUME Publish \/ UNCHANGED vars PROVE UNCHANGED period
  BY <1>9 DEF Publish, vars
<1> QED BY <1>1, <1>2, <1>3, <1>4, <1>5, <1>6, <1>7, <1>8, <1>9 DEF Next

-----------------------------------------------------------------------------
(* Sweeps *)

\* The recount of a candidate is done, or none is due.
Done(c) == \E a \in Accounts, k \in Kinds : FinishRecount(a, k, c) \/ RecountProved(a, k, c)

\* A tombstone stays, and goes from one locator to the next; it leaves a
\* recount when that is done.
Turns(a) ==
  \/ tomb'[a] = tomb[a]
  \/ /\ tomb'[a] # None
     /\ tomb'[a].phase = "SEEK"
     /\ tomb[a] # None /\ tomb[a].phase = "RECOMPUTE" => Done(tomb[a].target.id)
  \/ /\ tomb[a] # None /\ tomb'[a] # None
     /\ tomb'[a].phase = tomb[a].phase /\ tomb'[a].target = tomb[a].target
  \/ /\ tomb[a] # None /\ tomb'[a] # None
     /\ tomb[a].phase = "SEEK" /\ tomb'[a].phase = "DELETE" /\ tomb'[a].target \in Locators(a)
  \/ /\ tomb[a] # None /\ tomb'[a] # None
     /\ tomb[a].phase = "DELETE" /\ tomb'[a].phase = "RECOMPUTE" /\ tomb'[a].target = tomb[a].target

\* One tombstone is written.
LEMMA OneTurns ==
  ASSUME TypeOK, NEW a \in Accounts, NEW t, tomb' = [tomb EXCEPT ![a] = t], tomb'[a] = t => Turns(a)
  PROVE  \A b \in Accounts : Turns(b)
<1>1. tomb'[a] = t /\ \A b \in Accounts : b # a => tomb'[b] = tomb[b]
  BY DEF TypeOK
<1> QED BY <1>1 DEF Turns

\* So it is for every tombstone of a period that is not over.
LEMMA TombTurns ==
  ASSUME IInv, [Next]_vars, On'
  PROVE  \A a \in Accounts : Turns(a)
<1> DEFINE Goal == \A a \in Accounts : Turns(a)
<1>0. TypeOK /\ (tomb \in [Accounts -> Tombs \cup {None}]) /\ None \notin Tombs
  BY CampaignAssumption DEF IInv, TypeOK
<1>1. CASE UNCHANGED tomb
  BY <1>1 DEF Turns
<1>2. ASSUME NEW a \in Accounts, tomb[a] # None PROVE Idle(tomb[a].op, tomb[a].next) # None
  <2>1. tomb[a] \in Tombs
    BY <1>0, <1>2
  <2>2. Idle(tomb[a].op, tomb[a].next) \in Tombs
    BY <2>1 DEF Tombs, Idle
  <2> QED BY <1>0, <2>2
<1>3. ASSUME NEW a \in Accounts, tomb[a] # None, tomb' = [tomb EXCEPT ![a] = Idle(@.op, @.next)],
             tomb[a].phase = "RECOMPUTE" => Done(tomb[a].target.id)
      PROVE Goal
  <2>1. tomb' = [tomb EXCEPT ![a] = Idle(tomb[a].op, tomb[a].next)]
    BY <1>0, <1>3
  <2>2. Idle(tomb[a].op, tomb[a].next).phase = "SEEK"
    BY DEF Idle
  <2>3. tomb'[a] = Idle(tomb[a].op, tomb[a].next)
    BY <1>0, <2>1
  <2>4. Turns(a)
    BY <1>2, <1>3, <2>2, <2>3 DEF Turns
  <2> QED BY <1>0, <2>1, <2>4, OneTurns
<1>5. ASSUME NEW a \in Accounts, NEW k \in Kinds, Ensure(a, k) PROVE Goal
  <2>1. Idle(None, FALSE) \in Tombs /\ Idle(None, FALSE).phase = "SEEK"
    BY DEF Idle, Tombs
  <2>2. Idle(None, FALSE) # None
    BY <1>0, <2>1
  <2>3. tomb' = [tomb EXCEPT ![a] = Idle(None, FALSE)] /\ tomb[a] = None
    BY <1>5 DEF Ensure
  <2>4. tomb'[a] = Idle(None, FALSE)
    BY <1>0, <2>3
  <2>5. Turns(a)
    BY <2>1, <2>2, <2>3, <2>4 DEF Turns
  <2> QED BY <1>0, <2>3, <2>5, OneTurns
<1>6. ASSUME NEW a \in Accounts, tomb[a] # None, NEW t \in Tombs, tomb' = [tomb EXCEPT ![a] = t],
             t.phase = tomb[a].phase, t.target = tomb[a].target
      PROVE Goal
  <2>1. tomb'[a] = t /\ t # None
    BY <1>0, <1>6
  <2>2. Turns(a)
    BY <1>6, <2>1 DEF Turns
  <2> QED BY <1>0, <1>6, <2>2, OneTurns
<1>7. ASSUME NEW a \in Accounts, NEW k \in Kinds, Adopt(a, k) PROVE Goal
  <2>1. tomb[a] \in Tombs /\ tomb[a] # None
    BY <1>0, <1>7 DEF Adopt
  <2>2. Operation(a, k) \in 0 .. MaxEpoch
    BY <1>0, <1>7, CampaignAssumption DEF TypeOK, Operation
  <2>3. PICK t : t = [tomb[a] EXCEPT !.op = Operation(a, k)]
    OBVIOUS
  <2>4. t \in Tombs /\ t.phase = tomb[a].phase /\ t.target = tomb[a].target
    BY <2>1, <2>2, <2>3 DEF Tombs
  <2>5. tomb' = [tomb EXCEPT ![a] = t]
    BY <1>0, <1>7, <2>3 DEF Adopt
  <2> QED BY <1>6, <2>1, <2>4, <2>5
<1>8. ASSUME NEW a \in Accounts, NEW k \in Kinds, Seek(a, k) PROVE Goal
  <2>1. tomb[a] \in Tombs /\ tomb[a] # None /\ tomb[a].phase = "SEEK"
    BY <1>0, <1>8 DEF Seek, At
  <2>2. CASE tomb' = [tomb EXCEPT ![a].cursor = FALSE]
    <3>1. PICK t : t = [tomb[a] EXCEPT !.cursor = FALSE]
      OBVIOUS
    <3>2. t \in Tombs /\ t.phase = tomb[a].phase /\ t.target = tomb[a].target
      BY <2>1, <3>1 DEF Tombs
    <3>3. tomb' = [tomb EXCEPT ![a] = t]
      BY <1>0, <2>2, <3>1
    <3> QED BY <1>6, <2>1, <3>2, <3>3
  <2>3. ASSUME NEW l \in Locators(a), NEW next \in BOOLEAN,
               tomb' = [tomb EXCEPT ![a].phase = "DELETE", ![a].target = l, ![a].next = next]
        PROVE Goal
    <3>1. PICK t : t = [tomb[a] EXCEPT !.phase = "DELETE", !.target = l, !.next = next]
      OBVIOUS
    <3>2. l \in Targets
      BY DEF Locators, Targets, Own
    <3>3. t \in Tombs /\ t.phase = "DELETE" /\ t.target = l
      BY <2>1, <3>1, <3>2 DEF Tombs
    <3>4. tomb' = [tomb EXCEPT ![a] = t]
      BY <1>0, <2>3, <3>1
    <3>5. tomb'[a] = t /\ t # None
      BY <1>0, <3>3, <3>4
    <3>6. Turns(a)
      BY <2>1, <3>3, <3>5 DEF Turns
    <3> QED BY <1>0, <3>4, <3>6, OneTurns
  <2> QED BY <1>8, <2>2, <2>3 DEF Seek
<1>9. ASSUME NEW a \in Accounts, NEW k \in Kinds, EraseEvent(a, k) PROVE Goal
  BY <1>3, <1>9 DEF EraseEvent, At
<1>10. ASSUME NEW a \in Accounts, NEW k \in Kinds, EraseContribution(a, k) PROVE Goal
  <2>1. tomb[a] \in Tombs /\ tomb[a] # None /\ tomb[a].phase = "DELETE"
    BY <1>0, <1>10 DEF EraseContribution, At
  <2>2. PICK t : t = [tomb[a] EXCEPT !.phase = "RECOMPUTE"]
    OBVIOUS
  <2>3. t \in Tombs /\ t.phase = "RECOMPUTE" /\ t.target = tomb[a].target
    BY <2>1, <2>2 DEF Tombs
  <2>4. tomb' = [tomb EXCEPT ![a] = t]
    BY <1>0, <1>10, <2>2 DEF EraseContribution
  <2>5. tomb'[a] = t /\ t # None
    BY <1>0, <2>3, <2>4
  <2>6. Turns(a)
    BY <2>1, <2>3, <2>5 DEF Turns
  <2> QED BY <1>0, <2>4, <2>6, OneTurns
<1>11. ASSUME NEW a \in Accounts, NEW k \in Kinds, NEW c \in Candidates, FinishRecount(a, k, c) \/ RecountProved(a, k, c)
       PROVE Goal
  <2>1. tomb[a] # None /\ MoveOn(a) /\ tomb[a].target.id = c
    BY <1>11 DEF FinishRecount, RecountProved, Recounting, At
  <2>2. Done(c)
    BY <1>11 DEF Done
  <2> QED BY <1>1, <1>3, <2>1, <2>2 DEF MoveOn
<1>12. ASSUME NEW a \in Accounts, NEW k \in Kinds, NEW c \in Candidates,
              StartRecount(a, k, c) \/ RecountPage(a, k, c) \/ RecountTidied(a, k, c)
       PROVE UNCHANGED tomb
  BY <1>12 DEF StartRecount, RecountPage, RecountTidied, Tidy
<1>13. ASSUME NEW a \in Accounts, NEW k \in Kinds, Complete(a, k) PROVE UNCHANGED tomb
  BY <1>13 DEF Complete
<1>14. ASSUME NEW a \in Accounts, Join(a) \/ Withdraw(a) \/ RequestDeletion(a) PROVE UNCHANGED tomb
  BY <1>14 DEF Join, Withdraw, RequestDeletion
<1>15. ASSUME NEW e \in Events, Observe(e) \/ Expire(e) \/ Record(e) PROVE UNCHANGED tomb
  BY <1>15 DEF Observe, Expire, Record
<1>16. ASSUME NEW w \in Aggregators, Commit(w) \/ \E e \in Events, c \in Candidates : Read(w, e, c)
       PROVE UNCHANGED tomb
  BY <1>16 DEF Commit, Read
<1>17. ASSUME NEW c \in Candidates, Freeze(c) \/ ReadInput(c) \/ CleanUp(c) PROVE UNCHANGED tomb
  BY <1>17 DEF Freeze, ReadInput, CleanUp, Tidy
<1>18. ASSUME Publish \/ Close \/ BeginDrain \/ Seal \/ UNCHANGED vars PROVE UNCHANGED tomb
  BY <1>18 DEF Publish, Close, BeginDrain, Seal, vars
<1> QED BY <1>1, <1>5, <1>7, <1>8, <1>9, <1>10, <1>11, <1>12, <1>13, <1>14, <1>15, <1>16, <1>17, <1>18, PeriodOn
        DEF Next, Work

\* What a sweep is at stays a row of its contributor.
LEMMA TargetStep ==
  ASSUME IInv, TargetInv, [Next]_vars, On'
  PROVE  TargetInv'
<1> SUFFICES ASSUME NEW a \in Accounts, tomb'[a] # None, tomb'[a].phase # "SEEK"
             PROVE  /\ tomb'[a].target \in Targets
                    /\ tomb'[a].target.kind = "FEATURE" => tomb'[a].target.id \in Own(a)
  BY DEF TargetInv, Own
<1>1. Turns(a)
  BY TombTurns
<1>2. ASSUME NEW t \in Locators(a) PROVE t \in Targets /\ (t.kind = "FEATURE" => t.id \in Own(a))
  BY DEF Locators, Targets, Own
<1> QED BY <1>1, <1>2 DEF Turns, TargetInv

\* A candidate that waits for a recount goes on to, until that is done.
LEMMA RepairedBack ==
  ASSUME IInv, [Next]_vars, On', NEW c \in Candidates, Repaired(c)', ~Done(c)
  PROVE  Repaired(c)
<1> SUFFICES ASSUME NEW a \in Accounts, tomb[a] # None, tomb[a].phase = "RECOMPUTE", tomb[a].target.id = c
             PROVE  FALSE
  BY DEF Repaired
<1>1. Turns(a)
  BY TombTurns
<1>2. ~(tomb'[a] # None /\ tomb'[a].phase = "RECOMPUTE" /\ tomb'[a].target.id = c)
  BY DEF Repaired
<1> QED BY <1>1, <1>2 DEF Turns

-----------------------------------------------------------------------------
(* A message that is counted *)

\* One event of a is one more unit of its contribution to c, and of the SUMMARY of c.
Counts(c, a, e) ==
  /\ clustered' = [clustered EXCEPT ![e] = "COUNTED"]
  /\ contribution[c][a] \in 0 .. MaxSubmissions /\ contribution'[c][a] \in 0 .. MaxSubmissions
  /\ contribution'[c][a] = contribution[c][a] + 1
  /\ \A b \in Accounts : b # a => contribution'[c][b] = contribution[c][b]
  /\ \A x \in Candidates : x # c => contribution'[x] = contribution[x] /\ summary'[x] = summary[x]
  /\ summary[c].row \in {"none", "live"} /\ summary[c].phase = "none"
  /\ summary'[c].row = "live" /\ summary'[c].phase = "none"
  /\ summary'[c].submissions = summary[c].submissions + 1
  /\ summary'[c].contributors = IF contribution[c][a] = 0 THEN summary[c].contributors + 1
                                                          ELSE summary[c].contributors

\* Though it was read before, the SUMMARY is written as if it were read only now.
LEMMA CommitCounts ==
  ASSUME IInv, AbsentInv, ReadExact, SummariesMatch, On, NEW w \in Aggregators, Commit(w)
  PROVE  \E c \in Candidates, a \in Accounts, e \in Events :
           /\ a = OwnerOf(e) /\ tomb[a] = None /\ clustered[e] = None
           /\ \/ UNCHANGED <<summary, contribution>> /\ clustered' = [clustered EXCEPT ![e] = "CONTRIBUTOR_CAPPED"]
              \/ Counts(c, a, e)
<1>0. TypeOK /\ Typed /\ ReadInv
  BY DEF IInv
<1>s. PICK s : s = aggregator[w]
  OBVIOUS
<1>1. /\ s # None /\ s.event \in Events /\ s.candidate \in Candidates /\ OwnerOf(s.event) \in Accounts
      /\ IsSummary(s.summary) /\ s.summary.row # "deleted"
  BY <1>0, <1>s, CampaignAssumption DEF ReadInv, Commit
<1>c. PICK c \in Candidates : c = s.candidate
  BY <1>1
<1>e. PICK e \in Events : e = s.event
  BY <1>1
<1>a. PICK a \in Accounts : a = OwnerOf(e)
  BY <1>1, <1>e
<1>2. Unchanged(s) /\ Admissible(e)
  BY <1>s, <1>e DEF Commit
<1>3. tomb[a] = None /\ clustered[e] = None
  BY <1>2, <1>a DEF Admissible
<1>4. CASE UNCHANGED <<summary, contribution>> /\ clustered' = [clustered EXCEPT ![e] = "CONTRIBUTOR_CAPPED"]
  BY <1>a, <1>3, <1>4
<1>5. CASE /\ (s.count = 0) <=> (contribution[c][a] = 0)
           /\ contribution[c][a] < MaxSubmissions
           /\ clustered' = [clustered EXCEPT ![e] = "COUNTED"]
           /\ summary' = [summary EXCEPT ![c] = Counted(s)]
           /\ contribution' = [contribution EXCEPT ![c][a] = @ + 1]
  <2>0. PICK n : n = contribution[c][a] + 1
    OBVIOUS
  <2>1. n \in 0 .. MaxSubmissions /\ contribution' = [contribution EXCEPT ![c][a] = n]
    BY <1>0, <1>5, <2>0, CampaignAssumption DEF TypeOK
  <2>2. /\ contribution' \in [Candidates -> [Accounts -> 0 .. MaxSubmissions]]
        /\ \A x \in Candidates, y \in Accounts : contribution'[x][y] = IF x = c /\ y = a THEN n ELSE contribution[x][y]
    BY <1>0, <2>1, SetCount DEF TypeOK
  <2>3. \A x \in Candidates : x # c => contribution'[x] = contribution[x] /\ summary'[x] = summary[x]
    BY <1>0, <1>5 DEF TypeOK, Typed
  <2>4. summary'[c] = Counted(s)
    BY <1>0, <1>5 DEF Typed
  <2>5. /\ summary[c].row = s.summary.row /\ summary[c].version = s.summary.version /\ summary[c].phase = "none"
        /\ summary[c].row \in {"none", "live"} /\ IsSummary(summary[c])
    BY <1>0, <1>1, <1>2, <1>c DEF Unchanged, Typed, IsSummary
  <2>6. s.summary = summary[c]
    <3>1. CASE s.summary.row = "none"
      BY <1>1, <1>s, <1>c, <2>5, <3>1 DEF ReadExact, AbsentInv
    <3>2. CASE s.summary.row = "live"
      BY <1>1, <1>s, <1>c, <2>5, <3>2 DEF ReadExact, Exists
    <3> QED BY <2>5, <3>1, <3>2
  <2>7. /\ summary'[c].row = "live" /\ summary'[c].phase = "none"
        /\ summary'[c].submissions = summary[c].submissions + 1
        /\ summary'[c].contributors = IF contribution[c][a] = 0 THEN summary[c].contributors + 1
                                                                ELSE summary[c].contributors
    <3>1. CASE s.count = 0
      <4>1. Counted(s) = [summary[c] EXCEPT !.row = "live", !.version = @ + 1, !.contributors = @ + 1,
                                            !.submissions = @ + 1]
        BY <2>6, <3>1 DEF Counted
      <4>2. /\ Counted(s).row = "live" /\ Counted(s).phase = summary[c].phase
            /\ Counted(s).submissions = summary[c].submissions + 1
            /\ Counted(s).contributors = summary[c].contributors + 1
        BY <2>5, <4>1 DEF IsSummary
      <4>3. contribution[c][a] = 0
        BY <1>5, <3>1
      <4> QED BY <2>4, <2>5, <4>2, <4>3
    <3>2. CASE s.count # 0
      <4>1. Counted(s) = [summary[c] EXCEPT !.version = @ + 1, !.submissions = @ + 1]
        BY <1>c, <3>2 DEF Counted
      <4>2. a \in Rows(c)
        BY <1>0, <1>5, <3>2 DEF TypeOK, Rows
      <4>3. Exists(c)
        BY <4>2 DEF SummariesMatch, On
      <4> QED BY <1>5, <2>4, <2>5, <3>2, <4>1, <4>3 DEF IsSummary, Exists
    <3> QED BY <3>1, <3>2
  <2>8. contribution[c][a] \in 0 .. MaxSubmissions
    BY <1>0 DEF TypeOK
  <2>9. Counts(c, a, e)
    BY <1>5, <2>0, <2>1, <2>2, <2>3, <2>5, <2>7, <2>8 DEF Counts
  <2> QED BY <1>a, <1>3, <2>9
<1> QED BY <1>s, <1>c, <1>e, <1>a, <1>4, <1>5 DEF Commit

-----------------------------------------------------------------------------
(* What is read of a candidate *)

\* An open period freezes no candidate.
LEMMA PhaseStep ==
  ASSUME IInv, PhaseInv, AbsentInv, ReadExact, SummariesMatch, [Next]_vars, On'
  PROVE  PhaseInv'
<1>0. TypeOK /\ Typed
  BY DEF IInv
<1>o. On
  BY PeriodOn
<1> SUFFICES ASSUME period' = "OPEN" PROVE \A c \in Candidates : summary'[c].phase = "none"
  BY DEF PhaseInv
<1> DEFINE Goal == \A c \in Candidates : summary'[c].phase = "none"
<1>1. period = "OPEN" /\ \A c \in Candidates : summary[c].phase = "none"
  BY PeriodOn DEF PhaseInv
<1>2. CASE UNCHANGED summary
  BY <1>1, <1>2
<1>3. ASSUME NEW w \in Aggregators, Commit(w) PROVE Goal
  BY <1>o, <1>1, <1>3, CommitCounts DEF Counts
<1>4. ASSUME NEW c, NEW t, summary' = [summary EXCEPT ![c] = t], c \in Candidates => t.phase = "none" PROVE Goal
  BY <1>0, <1>1, <1>4 DEF Typed
<1>5. ASSUME NEW a \in Accounts, NEW k \in Kinds, EraseContribution(a, k) PROVE Goal
  <2>c. PICK c : c = tomb[a].target.id
    OBVIOUS
  <2>1. ASSUME c \in Candidates PROVE Loses(c).phase = "none"
    <3>1. IsSummary(summary[c]) /\ summary[c].phase = "none"
      BY <1>0, <1>1, <2>1 DEF Typed
    <3>2. [summary[c] EXCEPT !.version = @ + 1, !.phase = IF @ = "none" THEN @ ELSE "REPAIRING"].phase = "none"
      BY <3>1 DEF IsSummary
    <3> QED BY <3>1, <3>2 DEF Loses
  <2>2. summary' = [summary EXCEPT ![c] = Loses(c)]
    BY <1>5, <2>c DEF EraseContribution
  <2> QED BY <1>4, <2>1, <2>2
<1>6. ASSUME NEW a \in Accounts, NEW k \in Kinds, NEW c \in Candidates, FinishRecount(a, k, c) PROVE Goal
  <2> DEFINE all == Rows(c) \cup repair[c].seen
             counted == [summary[c] EXCEPT !.version = @ + 1, !.contributors = Cardinality(all),
                           !.submissions = repair[c].submissions + Submissions(c, Rows(c) \ repair[c].seen),
                           !.phase = IF @ = "none" THEN @ ELSE "FROZEN"]
  <2>1. IsSummary(summary[c]) /\ summary[c].phase = "none"
    BY <1>0, <1>1 DEF Typed
  <2>2. counted.phase = "none" /\ [NoSummary EXCEPT !.row = "deleted"].phase = "none"
    BY <2>1 DEF IsSummary, NoSummary
  <2>3. summary' = [summary EXCEPT ![c] = IF all = {} THEN [NoSummary EXCEPT !.row = "deleted"] ELSE counted]
    BY <1>6 DEF FinishRecount
  <2> HIDE DEF counted, all
  <2> QED BY <1>4, <2>2, <2>3
<1>7. ASSUME NEW c \in Candidates, Tidy(c) \/ Freeze(c) PROVE FALSE
  BY <1>1, <1>7 DEF Tidy, Freeze
<1>8. ~Publish
  BY <1>1 DEF Publish, Matches
<1>9. ASSUME NEW a \in Accounts, Join(a) \/ Withdraw(a) \/ RequestDeletion(a) PROVE UNCHANGED summary
  BY <1>9 DEF Join, Withdraw, RequestDeletion, candidates
<1>10. ASSUME NEW e \in Events, Observe(e) \/ Expire(e) \/ Record(e) PROVE UNCHANGED summary
  BY <1>10 DEF Observe, Expire, Record, candidates
<1>11. ASSUME NEW w \in Aggregators, NEW e \in Events, NEW c \in Candidates, Read(w, e, c) PROVE UNCHANGED summary
  BY <1>11 DEF Read, candidates
<1>12. ASSUME NEW a \in Accounts, NEW k \in Kinds,
              \/ Ensure(a, k) \/ Adopt(a, k) \/ Seek(a, k) \/ EraseEvent(a, k) \/ Complete(a, k)
              \/ \E c \in Candidates : StartRecount(a, k, c) \/ RecountPage(a, k, c) \/ RecountProved(a, k, c)
       PROVE UNCHANGED summary
  BY <1>12 DEF Ensure, Adopt, Seek, EraseEvent, Complete, StartRecount, RecountPage, RecountProved, candidates
<1>13. ASSUME NEW c \in Candidates, ReadInput(c) PROVE UNCHANGED summary
  BY <1>13 DEF ReadInput, candidates
<1>14. CASE Close \/ UNCHANGED vars
  BY <1>2, <1>14 DEF Close, vars, candidates
<1> QED BY <1>2, <1>3, <1>5, <1>6, <1>7, <1>8, <1>9, <1>10, <1>11, <1>12, <1>13, <1>14, PeriodOn
        DEF Next, Work, RecountTidied, CleanUp

\* A recount begins, or counts one more row.
Starts(c) ==
  /\ Exists(c) /\ UNCHANGED <<summary, contribution>>
  /\ repair'[c] = [version |-> summary[c].version, seen |-> {}, submissions |-> 0]

Pages(c) ==
  /\ Current(c) /\ UNCHANGED <<summary, contribution>>
  /\ \E b \in Rows(c) \ repair[c].seen :
       repair'[c] = [version |-> repair[c].version, seen |-> repair[c].seen \cup {b},
                     submissions |-> repair[c].submissions + contribution[c][b]]

\* Nothing else is done to a recount but to end it.
LEMMA RepairTurns ==
  ASSUME RepairExact, [Next]_vars
  PROVE  /\ repair' = [c \in Candidates |-> repair'[c]]
         /\ \A c \in Candidates : repair'[c] = repair[c] \/ repair'[c] = None \/ Starts(c) \/ Pages(c)
<1> DEFINE Goal ==
      /\ repair' = [c \in Candidates |-> repair'[c]]
      /\ \A c \in Candidates : repair'[c] = repair[c] \/ repair'[c] = None \/ Starts(c) \/ Pages(c)
<1>0. repair = [c \in Candidates |-> repair[c]]
  BY DEF RepairExact
<1>1. CASE UNCHANGED repair
  BY <1>0, <1>1
<1>2. ASSUME NEW c \in Candidates, NEW r, repair' = [repair EXCEPT ![c] = r],
             repair'[c] = r => r = None \/ Starts(c) \/ Pages(c)
      PROVE Goal
  BY <1>0, <1>2
<1>3. ASSUME NEW a \in Accounts, NEW k \in Kinds, NEW c \in Candidates, StartRecount(a, k, c) PROVE Goal
  <2>1. repair' = [repair EXCEPT ![c] = [version |-> summary[c].version, seen |-> {}, submissions |-> 0]]
    BY <1>3 DEF StartRecount
  <2>2. repair'[c] = [version |-> summary[c].version, seen |-> {}, submissions |-> 0] => Starts(c)
    BY <1>3 DEF StartRecount, Starts
  <2> QED BY <1>2, <2>1, <2>2
<1>4. ASSUME NEW a \in Accounts, NEW k \in Kinds, NEW c \in Candidates, RecountPage(a, k, c) PROVE Goal
  <2>1. PICK b \in Rows(c) \ repair[c].seen :
          repair' = [repair EXCEPT ![c].seen = @ \cup {b}, ![c].submissions = @ + contribution[c][b]]
    BY <1>4 DEF RecountPage
  <2>2. PICK r : r = [repair[c] EXCEPT !.seen = @ \cup {b}, !.submissions = @ + contribution[c][b]]
    OBVIOUS
  <2>3. repair' = [repair EXCEPT ![c] = r]
    BY <1>0, <2>1, <2>2
  <2>4. repair[c] = [version |-> repair[c].version, seen |-> repair[c].seen, submissions |-> repair[c].submissions]
    BY <1>4 DEF RecountPage, Current, RepairExact
  <2>5. r = [version |-> repair[c].version, seen |-> repair[c].seen \cup {b},
             submissions |-> repair[c].submissions + contribution[c][b]]
    BY <2>2, <2>4
  <2>6. repair'[c] = r => Pages(c)
    BY <1>4, <2>5 DEF RecountPage, Pages
  <2> QED BY <1>2, <2>3, <2>6
<1>5. ASSUME NEW a \in Accounts, NEW k \in Kinds, NEW c \in Candidates, FinishRecount(a, k, c) \/ RecountProved(a, k, c)
      PROVE Goal
  <2>1. repair' = [repair EXCEPT ![c] = None]
    BY <1>5 DEF FinishRecount, RecountProved
  <2> QED BY <1>2, <2>1
<1>6. CASE Drain
  BY <1>6 DEF Drain
<1>7. ASSUME NEW a \in Accounts, Join(a) \/ Withdraw(a) \/ RequestDeletion(a) PROVE UNCHANGED repair
  BY <1>7 DEF Join, Withdraw, RequestDeletion, candidates
<1>8. ASSUME NEW e \in Events, Observe(e) \/ Expire(e) \/ Record(e) PROVE UNCHANGED repair
  BY <1>8 DEF Observe, Expire, Record, candidates
<1>9. ASSUME NEW w \in Aggregators, Commit(w) \/ \E e \in Events, c \in Candidates : Read(w, e, c)
      PROVE UNCHANGED repair
  BY <1>9 DEF Commit, Read, candidates
<1>10. ASSUME NEW a \in Accounts, NEW k \in Kinds,
              \/ Ensure(a, k) \/ Adopt(a, k) \/ Seek(a, k) \/ EraseEvent(a, k) \/ EraseContribution(a, k)
              \/ Complete(a, k) \/ \E c \in Candidates : RecountTidied(a, k, c)
       PROVE UNCHANGED repair
  BY <1>10 DEF Ensure, Adopt, Seek, EraseEvent, EraseContribution, Complete, RecountTidied, Tidy, candidates
<1>11. ASSUME NEW c \in Candidates, Freeze(c) \/ ReadInput(c) \/ CleanUp(c) PROVE UNCHANGED repair
  BY <1>11 DEF Freeze, ReadInput, CleanUp, Tidy, candidates
<1>12. CASE Publish \/ Close \/ BeginDrain \/ Seal \/ UNCHANGED vars
  BY <1>1, <1>12 DEF Publish, Close, BeginDrain, Seal, vars, candidates
<1> QED BY <1>1, <1>3, <1>4, <1>5, <1>6, <1>7, <1>8, <1>9, <1>10, <1>11, <1>12 DEF Next, Work

\* A candidate that was never written has no SUMMARY and no recount.
LEMMA AbsentStep ==
  ASSUME IInv, AbsentInv, RepairExact, SummariesMatch, [Next]_vars, On'
  PROVE  AbsentInv'
<1> SUFFICES ASSUME NEW c \in Candidates, summary'[c].row = "none"
             PROVE  summary'[c] = NoSummary /\ repair'[c] = None
  BY DEF AbsentInv, NoSummary
<1>1. Moves(c)
  BY AllMove
<1>2. ~Exists(c) => Rows(c) = {}
  BY PeriodOn DEF SummariesMatch, On
<1>3. summary'[c] = summary[c]
  BY <1>1, <1>2 DEF Moves, Exists
<1>4. ~Exists(c) /\ summary[c] = NoSummary /\ repair[c] = None
  BY <1>3 DEF AbsentInv, Exists
<1>5. ~Starts(c) /\ ~Pages(c)
  BY <1>4 DEF Starts, Pages, Current
<1> QED BY <1>3, <1>4, <1>5, RepairTurns

\* A recount that goes on has seen rows that are still there.
LEMMA RepairStep ==
  ASSUME IInv, AbsentInv, RepairExact, [Next]_vars
  PROVE  RepairExact'
<1>0. TypeOK /\ Typed
  BY DEF IInv
<1>1. repair' = [c \in Candidates |-> repair'[c]]
  BY RepairTurns
<1>2. ASSUME NEW c \in Candidates, repair'[c] # None
      PROVE  /\ repair'[c] = [version |-> repair'[c].version, seen |-> repair'[c].seen,
                               submissions |-> repair'[c].submissions]
             /\ repair'[c].version \in Nat
             /\ Exists(c)' => repair'[c].version <= summary'[c].version
             /\ Exists(c)' /\ repair'[c].version = summary'[c].version /\ summary'[c].phase \notin Decided =>
                  /\ repair'[c].seen \subseteq {a \in Accounts : contribution'[c][a] > 0}
                  /\ repair'[c].submissions = Cardinality(Units(contribution'[c], repair'[c].seen))
  <2>0. IsSummary(summary[c])
    BY <1>0 DEF Typed
  <2>1. repair[c] # None =>
          /\ repair[c] = [version |-> repair[c].version, seen |-> repair[c].seen,
                          submissions |-> repair[c].submissions]
          /\ repair[c].version \in Nat
          /\ summary[c].row # "none"
          /\ Exists(c) => repair[c].version <= summary[c].version
          /\ Exists(c) /\ repair[c].version = summary[c].version /\ summary[c].phase \notin Decided =>
               /\ repair[c].seen \subseteq Rows(c)
               /\ repair[c].submissions = Cardinality(Units(contribution[c], repair[c].seen))
    BY DEF RepairExact, AbsentInv, Submissions, Units
  <2>2. CASE repair'[c] = repair[c]
    <3>1. Moves(c)
      BY AllMove
    <3>2. CASE /\ summary'[c] = summary[c]
               /\ Exists(c) /\ summary[c].phase \notin Decided => contribution'[c] = contribution[c]
      BY <1>2, <2>1, <2>2, <3>2 DEF Exists, Rows
    <3>3. CASE summary'[c].row = "deleted"
      BY <1>2, <2>1, <2>2, <3>3 DEF Exists
    <3>4. CASE Exists(c) /\ summary'[c].row = "live" /\ summary'[c].version = summary[c].version + 1
      BY <1>2, <2>0, <2>1, <2>2, <3>4 DEF Exists, IsSummary
    <3>5. CASE /\ Exists(c) /\ summary'[c].row = "live" /\ summary'[c].version = summary[c].version
               /\ summary'[c].phase \in Decided
      BY <1>2, <2>1, <2>2, <3>5 DEF Exists
    <3> QED BY <1>2, <2>1, <2>2, <3>1, <3>2, <3>3, <3>4, <3>5 DEF Moves
  <2>3. CASE Starts(c)
    <3>1. repair'[c] = [version |-> summary[c].version, seen |-> {}, submissions |-> 0] /\ summary'[c] = summary[c]
      BY <2>3 DEF Starts
    <3> QED BY <2>0, <3>1, UnitsNone DEF IsSummary
  <2>4. CASE Pages(c)
    <3>1. PICK b \in Rows(c) \ repair[c].seen :
            repair'[c] = [version |-> repair[c].version, seen |-> repair[c].seen \cup {b},
                          submissions |-> repair[c].submissions + contribution[c][b]]
      BY <2>4 DEF Pages
    <3>2. /\ repair[c] # None /\ Exists(c) /\ repair[c].version = summary[c].version
          /\ summary[c].phase \notin Decided /\ UNCHANGED <<summary, contribution>>
      BY <2>4 DEF Pages, Current, Decided
    <3>3. /\ repair[c].seen \subseteq Rows(c)
          /\ repair[c].submissions = Cardinality(Units(contribution[c], repair[c].seen))
          /\ repair[c].version \in Nat
      BY <2>1, <3>2
    <3>4. IsFiniteSet(repair[c].seen) /\ IsFiniteSet({b}) /\ repair[c].seen \cap {b} = {}
      BY <3>3, CampaignAssumption, FS_Subset, FS_Singleton DEF Rows
    <3>5. Cardinality(Units(contribution[c], repair[c].seen \cup {b}))
            = Cardinality(Units(contribution[c], repair[c].seen)) + contribution[c][b]
      <4>1. contribution[c][b] \in 0 .. MaxSubmissions
        BY <1>0 DEF TypeOK, Rows
      <4> QED BY <3>4, <4>1, UnitsJoin, UnitsOne
    <3> QED BY <3>1, <3>2, <3>3, <3>5 DEF Rows
  <2> QED BY <1>2, <2>2, <2>3, <2>4, RepairTurns
<1> QED BY <1>1, <1>2 DEF RepairExact, Submissions, Units, Rows

\* What an aggregator has read is there, or has moved on.
LEMMA ReadStep ==
  ASSUME IInv, AbsentInv, ReadExact, [Next]_vars
  PROVE  ReadExact'
<1> DEFINE Exact(w) ==
      aggregator[w] # None =>
        /\ aggregator[w].summary.row = "none" => aggregator[w].summary = NoSummary
        /\ aggregator[w].summary.row = "live" =>
             /\ summary[aggregator[w].candidate].row \in {"live", "deleted"}
             /\ Exists(aggregator[w].candidate) =>
                  aggregator[w].summary.version <= summary[aggregator[w].candidate].version
             /\ /\ Exists(aggregator[w].candidate)
                /\ aggregator[w].summary.version = summary[aggregator[w].candidate].version
                /\ summary[aggregator[w].candidate].phase = "none"
                => summary[aggregator[w].candidate] = aggregator[w].summary
<1>0. TypeOK /\ Typed /\ ReadInv
  BY DEF IInv
<1>1. ASSUME NEW w \in Aggregators, aggregator'[w] = aggregator[w] PROVE Exact(w)'
  <2> SUFFICES ASSUME aggregator[w] # None, aggregator[w].summary.row = "live" PROVE Exact(w)'
    BY <1>1 DEF ReadExact
  <2>r. PICK r : r = aggregator[w]
    OBVIOUS
  <2>1. r.candidate \in Candidates /\ IsSummary(r.summary) /\ r.summary.row = "live"
    BY <1>0, <2>r DEF ReadInv
  <2>c. PICK c \in Candidates : c = r.candidate
    BY <2>1
  <2>2. /\ summary[c].row \in {"live", "deleted"}
        /\ Exists(c) => r.summary.version <= summary[c].version
        /\ Exists(c) /\ r.summary.version = summary[c].version /\ summary[c].phase = "none" => summary[c] = r.summary
    BY <2>r, <2>c DEF ReadExact
  <2>3. Moves(c) /\ IsSummary(summary[c])
    BY <1>0, AllMove DEF Typed
  <2>4. /\ summary'[c].row \in {"live", "deleted"}
        /\ Exists(c)' => r.summary.version <= summary'[c].version
        /\ Exists(c)' /\ r.summary.version = summary'[c].version /\ summary'[c].phase = "none" =>
             summary'[c] = r.summary
    <3>1. CASE summary'[c] = summary[c]
      BY <2>2, <3>1 DEF Exists
    <3>2. CASE summary'[c].row = "deleted"
      BY <3>2 DEF Exists
    <3>3. CASE Exists(c) /\ summary'[c].row = "live" /\ summary'[c].version = summary[c].version + 1
      BY <2>1, <2>2, <2>3, <3>3 DEF Exists, IsSummary
    <3>4. CASE /\ Exists(c) /\ summary'[c].row = "live" /\ summary'[c].version = summary[c].version
               /\ summary'[c].phase \in Decided
      BY <2>2, <3>4 DEF Exists, Decided
    <3> QED BY <2>2, <2>3, <3>1, <3>2, <3>3, <3>4 DEF Moves
  <2> QED BY <1>1, <2>r, <2>c, <2>1, <2>4 DEF Exists
<1>2. ASSUME NEW w \in Aggregators, NEW e \in Events, NEW c \in Candidates, Read(w, e, c) PROVE Exact(w)'
  <2>1. aggregator'[w] = [event |-> e, candidate |-> c, summary |-> summary[c],
                          count |-> contribution[c][OwnerOf(e)]]
    BY <1>0, <1>2 DEF Read, ReadInv
  <2>2. summary' = summary /\ IsSummary(summary[c])
    BY <1>0, <1>2 DEF Read, Typed, candidates
  <2> QED BY <2>1, <2>2 DEF AbsentInv, IsSummary, Exists
<1>3. ASSUME NEW w \in Aggregators, Commit(w) PROVE aggregator'[w] = None
  BY <1>0, <1>3 DEF Commit, ReadInv
<1>4. ASSUME NEW v \in Aggregators, Commit(v) \/ \E e \in Events, c \in Candidates : Read(v, e, c),
             NEW w \in Aggregators, w # v
      PROVE aggregator'[w] = aggregator[w]
  BY <1>0, <1>4 DEF Commit, Read, ReadInv
<1>5. ASSUME NEW v \in Aggregators, Commit(v) \/ \E e \in Events, c \in Candidates : Read(v, e, c),
             NEW w \in Aggregators
      PROVE Exact(w)'
  BY <1>1, <1>2, <1>3, <1>4, <1>5
<1>6. CASE UNCHANGED aggregator
  BY <1>1, <1>6 DEF ReadExact, Exists
<1>7. ASSUME NEW a \in Accounts, Join(a) \/ Withdraw(a) \/ RequestDeletion(a) PROVE UNCHANGED aggregator
  BY <1>7 DEF Join, Withdraw, RequestDeletion
<1>8. ASSUME NEW e \in Events, Observe(e) \/ Expire(e) \/ Record(e) PROVE UNCHANGED aggregator
  BY <1>8 DEF Observe, Expire, Record
<1>9. ASSUME NEW a \in Accounts, NEW k \in Kinds, Ensure(a, k) \/ Adopt(a, k) \/ Work(a, k) \/ Complete(a, k)
      PROVE UNCHANGED aggregator
  BY <1>9 DEF Ensure, Adopt, Work, Seek, EraseEvent, EraseContribution, StartRecount, RecountPage,
              FinishRecount, RecountTidied, Tidy, RecountProved, Complete
<1>10. ASSUME NEW c \in Candidates, Freeze(c) \/ ReadInput(c) \/ CleanUp(c) PROVE UNCHANGED aggregator
  BY <1>10 DEF Freeze, ReadInput, CleanUp, Tidy
<1>11. CASE Publish \/ Close \/ BeginDrain \/ Drain \/ Seal \/ UNCHANGED vars
  BY <1>6, <1>11 DEF Publish, Close, BeginDrain, Drain, Seal, vars
<1>12. ASSUME \A w \in Aggregators : Exact(w)' PROVE ReadExact'
  BY <1>12 DEF ReadExact, Exists
<1> QED BY <1>5, <1>6, <1>7, <1>8, <1>9, <1>10, <1>11, <1>12 DEF Next

-----------------------------------------------------------------------------
(* Summaries are those of their contributions *)

\* Who has no row has no unit.
LEMMA RowsUnits ==
  ASSUME NEW f \in [Accounts -> 0 .. MaxSubmissions]
  PROVE  Units(f, {a \in Accounts : f[a] > 0}) = Units(f, Accounts)
<1>1. ASSUME NEW u \in Units(f, Accounts) PROVE f[u[1]] > 0
  <2>1. /\ u[1] \in Accounts /\ u[2] \in 1 .. MaxSubmissions /\ u[2] <= f[u[1]]
        /\ MaxSubmissions \in Nat /\ f[u[1]] \in 0 .. MaxSubmissions
    BY CampaignAssumption DEF Units
  <2> QED BY <2>1
<1> QED BY <1>1 DEF Units

\* What SummariesMatch says of one candidate.
Good(c) ==
  /\ Exists(c) /\ summary[c].phase = "none" /\ Repaired(c) => Matched(c)
  /\ ~Exists(c) => Rows(c) = {}

\* A SUMMARY that counts all units of its candidate, and its rows.
Tallied(c) ==
  /\ summary[c].contributors = Cardinality(Rows(c))
  /\ summary[c].submissions = Cardinality(Units(contribution[c], Accounts))

\* To tally the units of all is to count those of the rows.
LEMMA TallyMatches ==
  ASSUME TypeOK, NEW c \in Candidates
  PROVE  Matched(c) <=> Tallied(c)
<1>1. contribution[c] \in [Accounts -> 0 .. MaxSubmissions]
  BY DEF TypeOK
<1>2. Units(contribution[c], Rows(c)) = Units(contribution[c], Accounts)
  BY <1>1, RowsUnits DEF Rows
<1>3. Submissions(c, Rows(c)) = Cardinality(Units(contribution[c], Rows(c)))
  BY DEF Submissions, Units
<1> QED BY <1>2, <1>3 DEF Matched, Tallied

\* In the next state as well.
LEMMA TallyMatchesNext ==
  ASSUME TypeOK', NEW c \in Candidates
  PROVE  Matched(c)' <=> Tallied(c)'
<1>1. contribution'[c] \in [Accounts -> 0 .. MaxSubmissions]
  BY DEF TypeOK
<1>2. Units(contribution'[c], {a \in Accounts : contribution'[c][a] > 0}) = Units(contribution'[c], Accounts)
  BY <1>1, RowsUnits
<1> QED BY <1>2 DEF Matched, Tallied, Submissions, Units, Rows

\* A recount that is done has written the SUMMARY.
LEMMA FinishWrites ==
  ASSUME IInv, NEW a \in Accounts, NEW k \in Kinds, NEW d \in Candidates, FinishRecount(a, k, d)
  PROVE  summary'[d] # summary[d]
<1> DEFINE all == Rows(d) \cup repair[d].seen
           counted == [summary[d] EXCEPT !.version = @ + 1, !.contributors = Cardinality(all),
                         !.submissions = repair[d].submissions + Submissions(d, Rows(d) \ repair[d].seen),
                         !.phase = IF @ = "none" THEN @ ELSE "FROZEN"]
<1>0. Typed /\ IsSummary(summary[d])
  BY DEF IInv, Typed
<1>1. summary' = [summary EXCEPT ![d] = IF all = {} THEN [NoSummary EXCEPT !.row = "deleted"] ELSE counted] /\ Exists(d)
  BY DEF FinishRecount, Current
<1>2. counted.version = summary[d].version + 1
  BY <1>0 DEF IsSummary
<1>3. [NoSummary EXCEPT !.row = "deleted"].row = "deleted"
  BY DEF NoSummary
<1> HIDE DEF counted, all
<1>4. summary'[d] = IF all = {} THEN [NoSummary EXCEPT !.row = "deleted"] ELSE counted
  BY <1>0, <1>1 DEF Typed
<1>5. counted # summary[d]
  BY <1>0, <1>2 DEF IsSummary
<1>6. [NoSummary EXCEPT !.row = "deleted"] # summary[d]
  BY <1>1, <1>3 DEF Exists
<1> QED BY <1>4, <1>5, <1>6

\* A candidate that a step leaves as it is counts what it did.
LEMMA KeptGood ==
  ASSUME IInv, [Next]_vars, On', NEW c \in Candidates, Good(c),
         summary'[c] = summary[c], contribution'[c] = contribution[c]
  PROVE  Good(c)'
<1>1. Done(c) => ~Exists(c) \/ summary[c].phase = "FROZEN"
  <2> SUFFICES ASSUME NEW a \in Accounts, NEW k \in Kinds, FinishRecount(a, k, c) \/ RecountProved(a, k, c)
               PROVE  ~Exists(c) \/ summary[c].phase = "FROZEN"
    BY DEF Done
  <2> QED BY FinishWrites DEF RecountProved
<1>2. Repaired(c)' => Repaired(c) \/ Done(c)
  BY RepairedBack
<1> QED BY <1>1, <1>2 DEF Good, Exists, Matched, Submissions, Rows

\* A counted message is counted by the SUMMARY.
LEMMA CommitGood ==
  ASSUME IInv, TypeOK', AbsentInv, ReadExact, SummariesMatch, [Next]_vars, On, On', NEW w \in Aggregators, Commit(w),
         NEW x \in Candidates
  PROVE  Good(x)'
<1>0. TypeOK /\ Typed /\ Good(x)
  BY DEF IInv, SummariesMatch, Good, On
<1>1. PICK c \in Candidates, a \in Accounts, e \in Events :
        \/ UNCHANGED <<summary, contribution>> /\ clustered' = [clustered EXCEPT ![e] = "CONTRIBUTOR_CAPPED"]
        \/ Counts(c, a, e)
  BY CommitCounts
<1>2. CASE UNCHANGED <<summary, contribution>>
  BY <1>0, <1>2, KeptGood
<1>3. CASE Counts(c, a, e) /\ x # c
  BY <1>0, <1>3, KeptGood DEF Counts
<1>4. ASSUME Counts(c, a, e), x = c PROVE Good(c)'
  <2>1. tomb' = tomb
    BY DEF Commit
  <2>r. Repaired(c)' <=> Repaired(c)
    BY <2>1 DEF Repaired
  <2>m. Matched(c)' <=> Tallied(c)'
    BY TallyMatchesNext
  <2>2. Exists(c)'
    BY <1>4 DEF Counts, Exists
  <2>s. (Repaired(c) => Matched(c)') /\ Exists(c)' => Good(c)'
    BY <2>r DEF Good
  <2> SUFFICES ASSUME Repaired(c) PROVE Matched(c)' /\ Exists(c)'
    BY <2>s, <2>2
  <2>3. Tallied(c)
    <3>1. CASE summary[c].row = "live"
      BY <1>0, <1>4, <3>1, TallyMatches DEF Good, Exists, Counts
    <3>2. CASE summary[c].row = "none"
      <4>1. summary[c] = NoSummary /\ Rows(c) = {}
        BY <1>0, <1>4, <3>2 DEF AbsentInv, Good, Exists
      <4>2. Cardinality(Rows(c)) = 0 /\ Cardinality(Units(contribution[c], Rows(c))) = 0
        BY <4>1, UnitsNone, FS_EmptySet
      <4>3. Matched(c)
        BY <4>1, <4>2 DEF Matched, NoSummary, Submissions, Units
      <4> QED BY <1>0, <4>3, TallyMatches
    <3> QED BY <1>4, <3>1, <3>2 DEF Counts
  <2>4. /\ contribution[c][a] \in 0 .. MaxSubmissions /\ contribution'[c][a] \in 0 .. MaxSubmissions
        /\ contribution'[c][a] = contribution[c][a] + 1
        /\ \A b \in Accounts : b # a => contribution'[c][b] = contribution[c][b]
        /\ summary'[c].submissions = summary[c].submissions + 1
        /\ summary'[c].contributors = IF contribution[c][a] = 0 THEN summary[c].contributors + 1
                                                                ELSE summary[c].contributors
    BY <1>4 DEF Counts
  <2>5. Cardinality(Units(contribution'[c], Accounts)) = Cardinality(Units(contribution[c], Accounts)) + 1
    BY <2>4, CampaignAssumption, UnitsMore
  <2>6. PICK rows \in SUBSET Accounts : rows = Rows(c)
    BY DEF Rows
  <2>7. IsFiniteSet(rows)
    BY CampaignAssumption, FS_Subset
  <2>8. {b \in Accounts : contribution'[c][b] > 0} = rows \cup {a}
    BY <2>4, <2>6, CampaignAssumption DEF Rows
  <2>9. a \in rows <=> contribution[c][a] # 0
    BY <2>4, <2>6, CampaignAssumption DEF Rows
  <2>10. Cardinality(rows \cup {a}) = IF contribution[c][a] = 0 THEN Cardinality(rows) + 1 ELSE Cardinality(rows)
    BY <2>7, <2>9, FS_AddElement
  <2>11. summary'[c].contributors = Cardinality({b \in Accounts : contribution'[c][b] > 0})
    BY <2>3, <2>4, <2>6, <2>8, <2>10 DEF Tallied
  <2>12. summary'[c].submissions = Cardinality(Units(contribution'[c], Accounts))
    BY <2>3, <2>4, <2>5 DEF Tallied
  <2>13. Tallied(c)'
    BY <2>11, <2>12 DEF Tallied, Rows, Units
  <2> QED BY <2>2, <2>m, <2>13
<1> QED BY <1>1, <1>2, <1>3, <1>4 DEF Good, Exists, Repaired, Matched, Submissions, Rows

\* A candidate one of whose contributions is erased waits for a recount.
LEMMA EraseGood ==
  ASSUME IInv, TargetInv, SummariesMatch, [Next]_vars, On, On', NEW a \in Accounts, NEW k \in Kinds,
         EraseContribution(a, k), NEW x \in Candidates
  PROVE  Good(x)'
<1>0. TypeOK /\ Typed /\ Good(x)
  BY DEF IInv, SummariesMatch, Good, On
<1>c. PICK c : c = tomb[a].target.id
  OBVIOUS
<1>1. /\ summary' = [summary EXCEPT ![c] = Loses(c)]
      /\ contribution' = [contribution EXCEPT ![c][a] = 0]
  BY <1>c DEF EraseContribution
<1>2. CASE x # c
  <2>1. summary'[x] = summary[x] /\ contribution'[x] = contribution[x]
    BY <1>0, <1>1, <1>2 DEF TypeOK, Typed
  <2> QED BY <1>0, <2>1, KeptGood
<1>3. CASE x = c
  <2>1. tomb[a] \in Tombs
    BY <1>0 DEF TypeOK, EraseContribution, At
  <2>2. PICK t : t = [tomb[a] EXCEPT !.phase = "RECOMPUTE"]
    OBVIOUS
  <2>3. t \in Tombs /\ t.phase = "RECOMPUTE" /\ t.target = tomb[a].target
    BY <2>1, <2>2 DEF Tombs
  <2>4. tomb' = [tomb EXCEPT ![a] = t]
    BY <1>0, <2>2 DEF TypeOK, EraseContribution
  <2>5. tomb'[a] = t /\ t # None
    BY <1>0, <2>3, <2>4, CampaignAssumption DEF TypeOK
  <2>6. ~Repaired(c)'
    BY <1>c, <2>3, <2>5 DEF Repaired
  <2>7. summary'[c].row = summary[c].row
    <3>1. IsSummary(summary[c]) /\ summary'[c] = Loses(c)
      BY <1>0, <1>1, <1>3 DEF Typed
    <3>2. [summary[c] EXCEPT !.version = @ + 1, !.phase = IF @ = "none" THEN @ ELSE "REPAIRING"].row = summary[c].row
      BY <3>1 DEF IsSummary
    <3> QED BY <3>1, <3>2 DEF Loses
  <2>8. ASSUME Rows(c) = {} PROVE Rows(c)' = {}
    <3>1. \A b \in Accounts : contribution'[c][b] = IF b = a THEN 0 ELSE contribution[c][b]
      BY <1>0, <1>1, <1>3, ClearCount
    <3> QED BY <2>8, <3>1 DEF Rows
  <2> QED BY <1>0, <1>3, <2>6, <2>7, <2>8 DEF Good, Exists
<1> QED BY <1>2, <1>3

\* A recount publishes the rows there are: it has seen rows that are still there,
\* and counts the rest at once.
LEMMA FinishGood ==
  ASSUME IInv, TypeOK', RepairExact, SummariesMatch, [Next]_vars, On, On', NEW a \in Accounts, NEW k \in Kinds,
         NEW c \in Candidates, FinishRecount(a, k, c), NEW x \in Candidates
  PROVE  Good(x)'
<1> DEFINE rest == Rows(c) \ repair[c].seen
           all == Rows(c) \cup repair[c].seen
           counted == [summary[c] EXCEPT !.version = @ + 1, !.contributors = Cardinality(all),
                         !.submissions = repair[c].submissions + Submissions(c, rest),
                         !.phase = IF @ = "none" THEN @ ELSE "FROZEN"]
<1>0. TypeOK /\ Typed /\ Good(x)
  BY DEF IInv, SummariesMatch, Good, On
<1>1. /\ summary' = [summary EXCEPT ![c] = IF all = {} THEN [NoSummary EXCEPT !.row = "deleted"] ELSE counted]
      /\ UNCHANGED contribution /\ Current(c)
  BY DEF FinishRecount
<1>2. CASE x # c
  <2>1. summary'[x] = summary[x]
    BY <1>0, <1>1, <1>2 DEF Typed
  <2> QED BY <1>0, <1>1, <2>1, KeptGood
<1>3. CASE x = c
  <2>1. repair[c].seen \subseteq Rows(c) /\ repair[c].submissions = Submissions(c, repair[c].seen)
    BY <1>1 DEF Current, RepairExact, Decided
  <2>2. all = Rows(c) /\ rest \cup repair[c].seen = Rows(c) /\ rest \cap repair[c].seen = {}
    BY <2>1
  <2>3. IsFiniteSet(rest) /\ IsFiniteSet(repair[c].seen)
    BY <2>1, CampaignAssumption, FS_Subset DEF Rows
  <2>4. Submissions(c, Rows(c)) = Submissions(c, rest) + Submissions(c, repair[c].seen)
    <3>1. Cardinality(Units(contribution[c], rest \cup repair[c].seen))
            = Cardinality(Units(contribution[c], rest)) + Cardinality(Units(contribution[c], repair[c].seen))
      BY <2>2, <2>3, UnitsJoin
    <3> QED BY <2>2, <3>1 DEF Submissions, Units
  <2>5. Submissions(c, rest) \in Nat /\ Submissions(c, repair[c].seen) \in Nat
    BY <2>3, UnitsFinite DEF Submissions, Units
  <2>6. IsSummary(summary[c]) /\ Exists(c)
    BY <1>0, <1>1 DEF Typed, Current
  <2>7. /\ counted.row = "live" /\ counted.contributors = Cardinality(Rows(c))
        /\ counted.submissions = repair[c].submissions + Submissions(c, rest)
    BY <2>2, <2>6 DEF IsSummary, Exists
  <2>8. counted.submissions = Submissions(c, Rows(c))
    BY <2>1, <2>4, <2>5, <2>7
  <2>9. [NoSummary EXCEPT !.row = "deleted"].row = "deleted"
    BY DEF NoSummary
  <2> HIDE DEF counted, all, rest
  <2>10. summary'[c] = IF Rows(c) = {} THEN [NoSummary EXCEPT !.row = "deleted"] ELSE counted
    BY <1>0, <1>1, <2>2 DEF Typed
  <2> QED BY <1>1, <1>3, <2>7, <2>8, <2>9, <2>10 DEF Good, Exists, Matched, Submissions, Rows
<1> QED BY <1>2, <1>3

\* Nothing that is decided is counted any more.
LEMMA TidyGood ==
  ASSUME IInv, SummariesMatch, [Next]_vars, On, On', NEW c \in Candidates, Tidy(c), NEW x \in Candidates
  PROVE  Good(x)'
<1>0. TypeOK /\ Typed /\ Good(x)
  BY DEF IInv, SummariesMatch, Good, On
<1>1. CASE x # c
  <2>1. summary'[x] = summary[x] /\ contribution'[x] = contribution[x]
    BY <1>0, <1>1 DEF TypeOK, Typed, Tidy
  <2> QED BY <1>0, <2>1, KeptGood
<1>2. CASE x = c
  <2>1. CASE UNCHANGED summary
    BY <1>2, <2>1 DEF Tidy, Good, Exists
  <2>2. CASE /\ Rows(c) = {} /\ UNCHANGED contribution
             /\ summary' = [summary EXCEPT ![c] = [NoSummary EXCEPT !.row = "deleted"]]
    <3>1. summary'[c].row = "deleted"
      BY <1>0, <2>2 DEF Typed, NoSummary
    <3> QED BY <1>2, <2>2, <3>1 DEF Good, Exists, Rows
  <2> QED BY <2>1, <2>2 DEF Tidy
<1> QED BY <1>1, <1>2

\* So a candidate that is frozen.
LEMMA FreezeGood ==
  ASSUME IInv, SummariesMatch, [Next]_vars, On, On', NEW c \in Candidates, Freeze(c), NEW x \in Candidates
  PROVE  Good(x)'
<1>0. TypeOK /\ Typed /\ Good(x) /\ IsSummary(summary[c])
  BY DEF IInv, SummariesMatch, Good, On, Typed
<1>1. summary' = [summary EXCEPT ![c] = [summary[c] EXCEPT !.version = @ + 1, !.phase = "FROZEN"]]
  BY <1>0 DEF Typed, Freeze
<1>2. contribution' = contribution /\ Exists(c)
  BY DEF Freeze
<1>3. /\ [summary[c] EXCEPT !.version = @ + 1, !.phase = "FROZEN"].row = summary[c].row
      /\ [summary[c] EXCEPT !.version = @ + 1, !.phase = "FROZEN"].phase = "FROZEN"
  BY <1>0 DEF IsSummary
<1>4. CASE x # c
  <2>1. summary'[x] = summary[x]
    BY <1>0, <1>1, <1>4 DEF Typed
  <2> QED BY <1>0, <1>2, <2>1, KeptGood
<1>5. CASE x = c
  <2>1. summary'[c].row = "live" /\ summary'[c].phase = "FROZEN"
    BY <1>0, <1>1, <1>2, <1>3 DEF Typed, Exists
  <2> QED BY <1>5, <2>1 DEF Good, Exists
<1> QED BY <1>4, <1>5

\* So a candidate that is decided on.
LEMMA PublishGood ==
  ASSUME IInv, SummariesMatch, [Next]_vars, On, On', Publish, NEW x \in Candidates
  PROVE  Good(x)'
<1>0. TypeOK /\ Typed /\ InputInv /\ Good(x)
  BY DEF IInv, SummariesMatch, Good, On
<1>c. PICK c \in Candidates : c = finalizer.candidate
  BY <1>0 DEF Publish, InputInv
<1>1. contribution' = contribution /\ Exists(c) /\ IsSummary(summary[c])
  BY <1>0, <1>c DEF Publish, Matches, Typed
<1>2. ASSUME NEW p \in Decided, summary' = [summary EXCEPT ![c].phase = p] PROVE Good(x)'
  <2>1. summary'[c] = [summary[c] EXCEPT !.phase = p] /\ \A y \in Candidates : y # c => summary'[y] = summary[y]
    BY <1>0, <1>2 DEF Typed
  <2>2. summary'[c].row = "live" /\ summary'[c].phase = p
    BY <1>1, <2>1 DEF IsSummary, Exists
  <2>3. CASE x # c
    BY <1>0, <1>1, <2>1, <2>3, KeptGood
  <2>4. CASE x = c
    BY <1>2, <2>2, <2>4 DEF Good, Exists, Decided
  <2> QED BY <2>3, <2>4
<1> QED BY <1>c, <1>2 DEF Publish, Decided

\* Every step leaves summaries that match.
LEMMA MatchStep ==
  ASSUME IInv, TypeOK', TargetInv, AbsentInv, ReadExact, RepairExact, SummariesMatch, [Next]_vars, On'
  PROVE  SummariesMatch'
<1> SUFFICES ASSUME NEW x \in Candidates PROVE Good(x)'
  BY DEF SummariesMatch, Good
<1>0. On /\ Good(x)
  BY PeriodOn DEF SummariesMatch, Good, On
<1>1. CASE UNCHANGED <<summary, contribution>>
  BY <1>0, <1>1, KeptGood
<1>2. ASSUME NEW a \in Accounts, Join(a) \/ Withdraw(a) \/ RequestDeletion(a) PROVE Good(x)'
  BY <1>1, <1>2 DEF Join, Withdraw, RequestDeletion, candidates
<1>3. ASSUME NEW e \in Events, Observe(e) \/ Expire(e) \/ Record(e) PROVE Good(x)'
  BY <1>1, <1>3 DEF Observe, Expire, Record, candidates
<1>4. ASSUME NEW w \in Aggregators, NEW e \in Events, NEW c \in Candidates, Read(w, e, c) PROVE Good(x)'
  BY <1>1, <1>4 DEF Read, candidates
<1>5. ASSUME NEW a \in Accounts, NEW k \in Kinds,
             \/ Ensure(a, k) \/ Adopt(a, k) \/ Seek(a, k) \/ EraseEvent(a, k) \/ Complete(a, k)
             \/ \E c \in Candidates : StartRecount(a, k, c) \/ RecountPage(a, k, c) \/ RecountProved(a, k, c)
      PROVE Good(x)'
  BY <1>1, <1>5 DEF Ensure, Adopt, Seek, EraseEvent, Complete, StartRecount, RecountPage, RecountProved,
                    candidates
<1>6. ASSUME NEW c \in Candidates, ReadInput(c) PROVE Good(x)'
  BY <1>1, <1>6 DEF ReadInput, candidates
<1>7. CASE Close \/ UNCHANGED vars
  BY <1>1, <1>7 DEF Close, candidates, vars
<1>8. ASSUME NEW w \in Aggregators, Commit(w) PROVE Good(x)'
  BY <1>0, <1>8, CommitGood
<1>9. ASSUME NEW a \in Accounts, NEW k \in Kinds, EraseContribution(a, k) PROVE Good(x)'
  BY <1>0, <1>9, EraseGood
<1>10. ASSUME NEW a \in Accounts, NEW k \in Kinds, NEW c \in Candidates, FinishRecount(a, k, c) PROVE Good(x)'
  BY <1>0, <1>10, FinishGood
<1>11. ASSUME NEW c \in Candidates, Tidy(c) PROVE Good(x)'
  BY <1>0, <1>11, TidyGood
<1>12. ASSUME NEW c \in Candidates, Freeze(c) PROVE Good(x)'
  BY <1>0, <1>12, FreezeGood
<1>13. CASE Publish
  BY <1>0, <1>13, PublishGood
<1> QED BY <1>2, <1>3, <1>4, <1>5, <1>6, <1>7, <1>8, <1>9, <1>10, <1>11, <1>12, <1>13, PeriodOn
        DEF Next, Work, RecountTidied, CleanUp

-----------------------------------------------------------------------------
(* Each event counts once *)

\* What a has contributed to each candidate, and its events that count.
Gives(a) == [c \in Candidates |-> contribution[c][a]]
Marked(a) == {e \in Own(a) : clustered[e] = "COUNTED"}

\* What CountedOnce says of one account.
Once(a) == tomb[a] = None => Cardinality(Units(Gives(a), Candidates)) = Cardinality(Marked(a))

\* CountedOnce says it of every account.
LEMMA OnceForAll == CountedOnce <=> (period = "OPEN" => \A a \in Accounts : Once(a))
<1>1. ASSUME NEW a \in Accounts
      PROVE  Units(Gives(a), Candidates) = {u \in Candidates \X (1 .. MaxSubmissions) : u[2] <= contribution[u[1]][a]}
  BY DEF Units, Gives
<1> QED BY <1>1 DEF CountedOnce, Once, Marked

\* In the next state as well.
LEMMA OnceForAllNext == CountedOnce' <=> (period = "OPEN" => \A a \in Accounts : Once(a))'
BY OnceForAll, PTL

\* A step keeps what an account has contributed and which of its events count.
Keeps(a) == Gives(a)' = Gives(a) /\ Marked(a)' = Marked(a)

\* A message that is counted is one event and one unit; one beyond the cap is neither.
LEMMA CommitOnce ==
  ASSUME IInv, AbsentInv, ReadExact, SummariesMatch, On, NEW w \in Aggregators, Commit(w), NEW a \in Accounts, Once(a)
  PROVE  Once(a)'
<1>0. TypeOK /\ tomb' = tomb
  BY DEF IInv, Commit
<1> SUFFICES ASSUME tomb[a] = None
             PROVE  Cardinality(Units(Gives(a), Candidates))' = Cardinality(Marked(a))'
  BY <1>0 DEF Once
<1>1. Cardinality(Units(Gives(a), Candidates)) = Cardinality(Marked(a))
  BY DEF Once
<1>2. PICK c \in Candidates, b \in Accounts, e \in Events :
        /\ b = OwnerOf(e) /\ tomb[b] = None /\ clustered[e] = None
        /\ \/ UNCHANGED <<summary, contribution>> /\ clustered' = [clustered EXCEPT ![e] = "CONTRIBUTOR_CAPPED"]
           \/ Counts(c, b, e)
  BY CommitCounts
<1>3. clustered[e] # "COUNTED"
  BY <1>2, CampaignAssumption
<1>k. ASSUME Keeps(a) PROVE Cardinality(Units(Gives(a), Candidates))' = Cardinality(Marked(a))'
  BY <1>1, <1>k DEF Keeps, Units
<1>4. CASE UNCHANGED <<summary, contribution>> /\ clustered' = [clustered EXCEPT ![e] = "CONTRIBUTOR_CAPPED"]
  <2>1. \A x \in Events : clustered'[x] = "COUNTED" <=> clustered[x] = "COUNTED"
    BY <1>0, <1>3, <1>4 DEF TypeOK
  <2> QED BY <1>k, <1>4, <2>1 DEF Keeps, Gives, Marked, Own
<1>5. CASE Counts(c, b, e) /\ b # a
  <2>1. \A x \in Candidates : contribution'[x][a] = contribution[x][a]
    BY <1>5 DEF Counts
  <2>2. clustered' = [clustered EXCEPT ![e] = "COUNTED"] /\ e \notin Own(a)
    BY <1>2, <1>5 DEF Counts, Own
  <2>3. \A x \in Own(a) : clustered'[x] = clustered[x]
    BY <1>0, <2>2 DEF TypeOK, Own
  <2>4. Gives(a)' = Gives(a)
    BY <2>1 DEF Gives
  <2>5. Marked(a)' = Marked(a)
    BY <2>3 DEF Marked, Own
  <2> QED BY <1>k, <2>4, <2>5 DEF Keeps
<1>6. CASE Counts(c, b, e) /\ b = a
  <2>1. /\ contribution[c][a] \in 0 .. MaxSubmissions /\ contribution'[c][a] \in 0 .. MaxSubmissions
        /\ contribution'[c][a] = contribution[c][a] + 1
        /\ \A x \in Candidates : x # c => contribution'[x] = contribution[x]
        /\ clustered' = [clustered EXCEPT ![e] = "COUNTED"]
    BY <1>6 DEF Counts
  <2>2. PICK f : f = [x \in Candidates |-> contribution[x][a]]
    OBVIOUS
  <2>3. PICK g : g = [x \in Candidates |-> contribution'[x][a]]
    OBVIOUS
  <2>4. /\ f[c] \in 0 .. MaxSubmissions /\ g[c] \in 0 .. MaxSubmissions /\ g[c] = f[c] + 1
        /\ \A y \in Candidates \ {c} : g[y] = f[y]
    BY <2>1, <2>2, <2>3
  <2>5. Cardinality(Units(g, Candidates)) = Cardinality(Units(f, Candidates)) + 1
    BY <2>4, CampaignAssumption, UnitsMore
  <2>6. PICK m \in SUBSET Events : m = Marked(a)
    BY DEF Marked, Own
  <2>7. IsFiniteSet(m) /\ e \notin m
    BY <1>3, <2>6, CampaignAssumption, FS_Subset DEF Marked
  <2>8. {x \in Own(a) : clustered'[x] = "COUNTED"} = m \cup {e}
    BY <1>0, <1>2, <1>6, <2>1, <2>6 DEF TypeOK, Marked, Own
  <2>9. Cardinality(m \cup {e}) = Cardinality(m) + 1
    BY <2>7, FS_AddElement
  <2>10. Cardinality(Units(f, Candidates)) = Cardinality(m)
    BY <1>1, <2>2, <2>6 DEF Gives
  <2>11. Cardinality(Units(g, Candidates)) = Cardinality({x \in Own(a) : clustered'[x] = "COUNTED"})
    BY <2>5, <2>8, <2>9, <2>10
  <2> QED BY <2>3, <2>11 DEF Gives, Marked, Own, Units
<1> QED BY <1>2, <1>4, <1>5, <1>6

\* Each event that is marked as counted is one unit of its owner, until its erasure begins.
LEMMA OnceStep ==
  ASSUME IInv, TargetInv, PhaseInv, AbsentInv, ReadExact, SummariesMatch, CountedOnce, [Next]_vars, On'
  PROVE  CountedOnce'
<1> SUFFICES ASSUME period' = "OPEN", NEW a \in Accounts PROVE Once(a)'
  BY OnceForAllNext
<1>0. TypeOK /\ On /\ period = "OPEN" /\ Once(a)
  BY PeriodOn, OnceForAll DEF IInv
<1> SUFFICES ASSUME tomb'[a] = None PROVE Once(a)'
  BY DEF Once
<1>1. tomb[a] = None
  <2>1. Turns(a)
    BY TombTurns
  <2> QED BY <2>1 DEF Turns
<1>k. ASSUME Keeps(a) PROVE Once(a)'
  BY <1>0, <1>1, <1>k DEF Keeps, Once, Units
<1>2. CASE UNCHANGED <<contribution, clustered>>
  BY <1>k, <1>2 DEF Keeps, Gives, Marked, Own
<1>3. ASSUME NEW w \in Aggregators, Commit(w) PROVE Once(a)'
  BY <1>0, <1>3, CommitOnce
<1>4. ASSUME NEW b \in Accounts, NEW k \in Kinds, EraseEvent(b, k) PROVE Once(a)'
  <2>1. b # a /\ tomb[b] # None /\ tomb[b].phase # "SEEK" /\ tomb[b].target.kind = "FEATURE"
    BY <1>1, <1>4 DEF EraseEvent, At
  <2>2. OwnerOf(tomb[b].target.id) = b
    BY <2>1 DEF TargetInv, Own
  <2>3. \A x \in Own(a) : clustered'[x] = clustered[x]
    BY <1>0, <1>4, <2>1, <2>2 DEF EraseEvent, TypeOK, Own
  <2>4. Marked(a)' = Marked(a)
    BY <2>3 DEF Marked, Own
  <2>5. Gives(a)' = Gives(a)
    BY <1>4 DEF EraseEvent, Gives, candidates
  <2> QED BY <1>k, <2>4, <2>5 DEF Keeps
<1>5. ASSUME NEW b \in Accounts, NEW k \in Kinds, EraseContribution(b, k) PROVE Once(a)'
  <2>1. b # a
    BY <1>1, <1>5 DEF EraseContribution, At
  <2>2. \A x \in Candidates : contribution'[x][a] = contribution[x][a]
    BY <1>0, <1>5, <2>1, ClearCount DEF EraseContribution
  <2>3. Gives(a)' = Gives(a)
    BY <2>2 DEF Gives
  <2>4. Marked(a)' = Marked(a)
    BY <1>5 DEF EraseContribution, Marked, Own, events
  <2> QED BY <1>k, <2>3, <2>4 DEF Keeps
<1>6. ASSUME NEW c \in Candidates, Tidy(c) \/ Freeze(c) PROVE FALSE
  BY <1>0, <1>6 DEF Tidy, Freeze, PhaseInv
<1>7. ASSUME NEW b \in Accounts, Join(b) \/ Withdraw(b) \/ RequestDeletion(b) PROVE Once(a)'
  BY <1>2, <1>7 DEF Join, Withdraw, RequestDeletion, events, candidates
<1>8. ASSUME NEW e \in Events, Observe(e) \/ Expire(e) \/ Record(e) PROVE Once(a)'
  BY <1>2, <1>8 DEF Observe, Expire, Record, candidates
<1>9. ASSUME NEW w \in Aggregators, NEW e \in Events, NEW c \in Candidates, Read(w, e, c) PROVE Once(a)'
  BY <1>2, <1>9 DEF Read, events, candidates
<1>10. ASSUME NEW b \in Accounts, NEW k \in Kinds, Sweep(b, k) \/ Complete(b, k) PROVE Once(a)'
  BY <1>2, <1>10 DEF Sweep, Ensure, Adopt, Seek, Complete, StartRecount, RecountPage, FinishRecount, RecountProved,
                     events, candidates
<1>11. ASSUME NEW c \in Candidates, ReadInput(c) PROVE Once(a)'
  BY <1>2, <1>11 DEF ReadInput, events, candidates
<1>12. CASE Publish \/ Close \/ UNCHANGED vars
  BY <1>2, <1>12 DEF Publish, Close, events, candidates, vars
<1> QED BY <1>3, <1>4, <1>5, <1>6, <1>7, <1>8, <1>9, <1>10, <1>11, <1>12, PeriodOn
        DEF Next, Work, Sweep, RecountTidied, CleanUp

-----------------------------------------------------------------------------
(* Counts *)

\* The invariant of a period that is not over.
CountInv ==
  On =>
    TargetInv /\ PhaseInv /\ AbsentInv /\ ReadExact /\ RepairExact /\ SummariesMatch /\ CountedOnce

\* It holds at the start.
LEMMA InitCount == Init => CountInv
<1> SUFFICES ASSUME Init PROVE CountInv
  OBVIOUS
<1>1. TargetInv /\ PhaseInv /\ AbsentInv /\ ReadExact /\ RepairExact
  BY DEF Init, TargetInv, PhaseInv, AbsentInv, ReadExact, RepairExact, NoSummary
<1>2. SummariesMatch
  BY DEF Init, SummariesMatch, Rows, Exists, NoSummary
<1>3. ASSUME NEW a \in Accounts PROVE Once(a)
  <2>1. Units(Gives(a), Candidates) = {}
    <3> SUFFICES ASSUME NEW u \in Candidates \X (1 .. MaxSubmissions), u[2] <= Gives(a)[u[1]] PROVE FALSE
      BY DEF Units
    <3>1. Gives(a)[u[1]] = 0 /\ u[2] \in 1 .. MaxSubmissions
      BY DEF Init, Gives
    <3> QED BY <3>1, CampaignAssumption
  <2>2. Marked(a) = {}
    BY CampaignAssumption DEF Init, Marked, Own
  <2> QED BY <2>1, <2>2, FS_EmptySet DEF Once
<1>4. CountedOnce
  BY <1>3, OnceForAll
<1> QED BY <1>1, <1>2, <1>4 DEF CountInv

\* Every step keeps it.
LEMMA NextCount == IInv /\ CountInv /\ [Next]_vars => CountInv'
<1> SUFFICES ASSUME IInv, CountInv, [Next]_vars, On'
             PROVE  (TargetInv /\ PhaseInv /\ AbsentInv /\ ReadExact /\ RepairExact /\ SummariesMatch /\ CountedOnce)'
  BY DEF CountInv
<1>0. TypeOK'
  BY NextIInv DEF IInv
<1>1. On
  BY PeriodOn
<1>2. TargetInv /\ PhaseInv /\ AbsentInv /\ ReadExact /\ RepairExact /\ SummariesMatch /\ CountedOnce
  BY <1>1 DEF CountInv
<1>3. TargetInv' /\ PhaseInv' /\ AbsentInv' /\ ReadExact' /\ RepairExact'
  BY <1>2, TargetStep, PhaseStep, AbsentStep, ReadStep, RepairStep
<1>4. SummariesMatch'
  BY <1>0, <1>2, MatchStep
<1>5. CountedOnce'
  BY <1>2, OnceStep
<1> QED BY <1>3, <1>4, <1>5

\* So it always holds.
LEMMA Counting == Spec => [](IInv /\ CountInv)
<1>1. Init => IInv /\ CountInv
  BY InitIInv, InitCount
<1>2. (IInv /\ CountInv) /\ [Next]_vars => (IInv /\ CountInv)'
  BY NextIInv, NextCount
<1> QED BY <1>1, <1>2, PTL DEF Spec

\* It says what the period promises of its counts.
LEMMA CountsHold == IInv /\ CountInv => SummariesHold /\ CountedOnce
BY DEF IInv, CountInv, On, SummariesHold, SummariesMatch, CountedOnce

-----------------------------------------------------------------------------
(* The theorems *)

\* The rows of campaign_participation and of a period have their fields, and no
\* contributor counts more than its submissions in a candidate.
THEOREM TypeCorrect == Spec => []TypeOK
BY Invariance, PTL DEF IInv

\* Whatever publishers, aggregators and sweeps do meanwhile, a withdrawal told complete
\* and a deletion with its receipt leave no row of the account and none comes back; and
\* the counter of jobs agrees with the commands.
THEOREM Erased == Spec => []ErasureSound
BY Invariance, PTL DEF IInv, ErasureSound

\* However long ago its input was read, a publication counts the contributions that are
\* there, at least the threshold of them, and none of an account that is being erased.
THEOREM Published == Spec => PublishedSound
<1>1. IInv /\ [Next]_vars => [\A c \in Candidates : Soundly(c)]_vars
  BY PublishStep
<1> QED BY <1>1, Invariance, PTL DEF PublishedSound, Spec

\* Whatever aggregators and sweeps do at once, the SUMMARY of a candidate that is neither
\* frozen nor waiting for a recount counts the contributions it has, though it is written
\* whole from what was read before and recounted over several pages.
THEOREM Summaries == Spec => []SummariesHold
BY Counting, CountsHold, PTL

\* Each event that is marked as counted is one unit of its owner's contributions, however
\* often its message is delivered and to however many aggregators.
THEOREM OncePerEvent == Spec => []CountedOnce
BY Counting, CountsHold, PTL
-----------------------------------------------------------------------------
(***************************************************************************)
(* RetainedPeriods, beside it: for any number of periods, rows and         *)
(* attempts that overlap.                                                  *)
(*                                                                         *)
(* A period without rows whose TOMBSTONE is past its first sweep stays so, *)
(* and so does what the report has read while the TOMBSTONE is the same.   *)
(* An attempt that takes a turn takes the one that is next, so that the    *)
(* turns a period has missed are those between its own and that one.       *)
(***************************************************************************)

CONSTANTS Drivers, Last, PerPeriod, Old, Broken, Steps, MaxRevision

VARIABLES periods, first, deletions, revision, locators, fences, attempts, view, reported, skipped

Retained == INSTANCE RetainedPeriods WITH
  Workers <- Drivers, period <- periods, minimum <- first, command <- deletions, rows <- locators,
  tomb <- fences, job <- attempts

\* A set of periods has a last one.
LEMMA LastOf ==
  ASSUME Retained!RetainedAssumption, NEW S, S \subseteq 1 .. Last, S # {}
  PROVE  Retained!Max(S) \in S /\ \A p \in S : p <= Retained!Max(S)
<1>0. Last \in Nat
  BY DEF Retained!RetainedAssumption
<1> DEFINE T == {Last - p : p \in S}
           R == {x \in Nat \X Nat : x[1] < x[2]}
<1>1. T \subseteq Nat /\ T # {}
  <2>1. \A p \in S : Last - p \in Nat
    BY <1>0
  <2> QED BY <2>1
<1>2. IsWellFoundedOn(R, Nat)
  <2>1. R = OpToRel(<, Nat)
    BY Zenon DEF OpToRel
  <2> QED BY <2>1, NatLessThanWellFounded
<1>3. \A m, n \in Nat : m < n => <<m, n>> \in R
  OBVIOUS
<1>4. PICK q \in S : \A y \in T : ~(<<y, Last - q>> \in R)
  <2> HIDE DEF T, R
  <2>1. PICK m \in T : \A y \in T : ~(<<y, m>> \in R)
    BY <1>1, <1>2, WFMin, Zenon
  <2> USE DEF T
  <2> QED BY <2>1
<1>5. \A p \in S : q >= p
  <2> SUFFICES ASSUME NEW p \in S, ~(q >= p) PROVE FALSE
    OBVIOUS
  <2>1. Last - p \in T /\ Last - p \in Nat /\ Last - q \in Nat /\ Last - p < Last - q
    BY <1>0
  <2> HIDE DEF T, R
  <2> QED BY <2>1, <1>3, <1>4
<1> DEFINE m == CHOOSE x \in S : \A y \in S : x >= y
<1>6. m \in S /\ \A y \in S : m >= y
  BY <1>5
<1> HIDE DEF m
<1>7. Retained!Max(S) = m
  BY DEF Retained!Max, m
<1> QED BY <1>0, <1>6, <1>7

\* The parts of the invariant: the periods and their rows, ...
RetainedRows ==
  /\ periods \in [1 .. Last -> {"OPEN", "DRAINING", "SEALED"}]
  /\ first \in 1 .. Last + 1
  /\ deletions \in {"PENDING", "COMPLETE"}
  /\ locators \in [1 .. Last -> SUBSET (1 .. PerPeriod)]
  /\ fences \in [1 .. Last -> Retained!Tombs \cup {None}] /\ revision \in Nat /\ reported \in BOOLEAN
  /\ \A p \in 1 .. Last : fences[p] # None /\ fences[p].next # None => fences[p].next <= p
  /\ \A p \in 1 .. first - 1 : periods[p] = "SEALED"
  /\ Retained!EmptyForGood

\* ... what the attempts know, ...
RetainedJobs == DOMAIN attempts = Drivers /\ \A w \in Drivers : attempts[w] # None => Retained!JobInv(attempts[w])

\* ... what the report knows, and the turns.
RetainedTurns == skipped \in [1 .. Last -> Nat] /\ Retained!Fair

\* Together they are the invariant.
LEMMA RetainedParts ==
  ASSUME Retained!RetainedAssumption
  PROVE  Retained!IInv <=> RetainedRows /\ RetainedJobs /\ (view # None => Retained!ViewInv) /\ RetainedTurns
<1>1. Last \in Nat /\ None \notin Nat /\ None \notin Retained!Tombs
  BY DEF Retained!RetainedAssumption
<1>2. ASSUME RetainedJobs, NEW w \in Drivers, attempts[w] # None
      PROVE  attempts[w].selected \in Retained!Periods \cup {None}
  BY <1>2 DEF RetainedJobs, Retained!JobInv
<1>3. ASSUME fences \in [1 .. Last -> Retained!Tombs \cup {None}], NEW p \in 1 .. Last, fences[p] # None
      PROVE  fences[p].next \in Retained!Periods \cup {None}
  BY <1>3 DEF Retained!Tombs
<1>4. Retained!IInv => RetainedRows /\ RetainedJobs /\ (view # None => Retained!ViewInv) /\ RetainedTurns
  BY DEF Retained!IInv, Retained!TypeOK, RetainedRows, RetainedJobs, RetainedTurns, Retained!Periods
<1>5. ASSUME RetainedRows, RetainedJobs, view # None => Retained!ViewInv, RetainedTurns
      PROVE  Retained!IInv
  <2>1. \A w \in Drivers : attempts[w] # None => attempts[w].selected \in Retained!Periods \cup {None}
    BY <1>2, <1>5
  <2>2. \A p \in 1 .. Last : fences[p] # None => fences[p].next \in Retained!Periods \cup {None}
    BY <1>3, <1>5 DEF RetainedRows
  <2> QED BY <1>5, <2>1, <2>2
          DEF Retained!IInv, Retained!TypeOK, RetainedRows, RetainedJobs, RetainedTurns, Retained!Periods
<1> QED BY <1>4, <1>5

\* The cursor of a period's TOMBSTONE, and whose turn it names.
LEMMA RetainedCursor ==
  ASSUME Retained!RetainedAssumption, RetainedRows, NEW a \in 1 .. Last
  PROVE  /\ Retained!Cursor(a) # None => Retained!Cursor(a) \in 1 .. a
         /\ \A m \in 1 .. a : Retained!Turn(m, a) \in m .. a
<1>1. Last \in Nat /\ None \notin Nat
  BY DEF Retained!RetainedAssumption
<1>2. ASSUME Retained!Cursor(a) # None PROVE Retained!Cursor(a) \in 1 .. a
  <2>1. fences[a] # None /\ fences[a] \in Retained!Tombs /\ Retained!Cursor(a) = fences[a].next
    BY <1>2 DEF Retained!Cursor, RetainedRows
  <2>2. fences[a].next \in 1 .. Last /\ fences[a].next <= a
    BY <1>2, <2>1 DEF Retained!Tombs, Retained!Periods, RetainedRows
  <2> QED BY <1>1, <2>1, <2>2
<1>3. ASSUME NEW m \in 1 .. a PROVE Retained!Turn(m, a) \in m .. a
  BY <1>1, <1>2 DEF Retained!Turn
<1> QED BY <1>2, <1>3

\* What every step does: what has gone stays so.
Onward ==
  /\ periods' \in [1 .. Last -> {"OPEN", "DRAINING", "SEALED"}]
  /\ locators' \in [1 .. Last -> SUBSET (1 .. PerPeriod)]
  /\ \A p \in 1 .. Last :
       /\ periods[p] = "SEALED" => periods'[p] = "SEALED"
       /\ periods'[p] = "OPEN" => periods[p] = "OPEN"
       /\ locators'[p] \subseteq locators[p]
       /\ Retained!Clean(p) => Retained!Clean(p)'
       /\ periods'[p] = "OPEN" /\ Retained!Cursor(p)' = None => Retained!Cursor(p) = None

\* What is known of an attempt that only learns that its copy is old.
LEMMA RetainedKnown ==
  ASSUME Retained!RetainedAssumption, Onward, NEW j, NEW k, Retained!JobInv(j), k = j \/ k = [j EXCEPT !.same = FALSE],
         k.at = "advance" /\ k.same => fences'[k.last] = fences[k.last]
  PROVE  Retained!JobInv(k)'
<1>1. Last \in Nat
  BY DEF Retained!RetainedAssumption
<1>2. /\ j \in [at : {"anchor", "advance", "attempt", "sweep"}, revision : Nat, minimum : 1 .. Last,
                last : 1 .. Last, selected : 1 .. Last \cup {None}, steps : Nat, same : BOOLEAN]
      /\ j.minimum <= j.last
      /\ j.selected # None => j.selected <= j.last
      /\ j.at # "anchor" => j.selected # None
      /\ \A p \in j.last + 1 .. Last : periods[p] = "SEALED"
      /\ j.at = "advance" /\ j.same => fences[j.last] # None
      /\ j.at = "advance" /\ periods[j.last] = "OPEN" /\ (j.same \/ Retained!Cursor(j.last) = None) =>
           j.selected = Retained!Turn(j.minimum, j.last)
  BY DEF Retained!JobInv, Retained!Periods
<1>3. /\ k \in [at : {"anchor", "advance", "attempt", "sweep"}, revision : Nat, minimum : 1 .. Last,
                last : 1 .. Last, selected : 1 .. Last \cup {None}, steps : Nat, same : BOOLEAN]
      /\ k.at = j.at /\ k.minimum = j.minimum /\ k.last = j.last /\ k.selected = j.selected
      /\ k.same => j.same
  BY <1>2
<1>4. j.last \in 1 .. Last
  BY <1>2
<1>5. \A p \in j.last + 1 .. Last : periods'[p] = "SEALED"
  BY <1>1, <1>2, <1>4 DEF Onward
<1>6. ASSUME k.at = "advance", periods'[j.last] = "OPEN", k.same \/ Retained!Cursor(j.last)' = None
      PROVE  k.selected = Retained!Turn(j.minimum, j.last)'
  <2>1. periods[j.last] = "OPEN"
    BY <1>4, <1>6 DEF Onward
  <2>2. CASE k.same
    <3>1. fences'[j.last] = fences[j.last] /\ j.selected = Retained!Turn(j.minimum, j.last)
      BY <1>2, <1>3, <1>6, <2>1, <2>2
    <3> QED BY <1>3, <3>1 DEF Retained!Turn, Retained!Cursor
  <2>3. CASE Retained!Cursor(j.last)' = None
    <3>1. Retained!Cursor(j.last) = None
      BY <1>4, <1>6, <2>3 DEF Onward
    <3>2. j.selected = Retained!Turn(j.minimum, j.last)
      BY <1>2, <1>3, <1>6, <2>1, <3>1
    <3> QED BY <1>3, <2>3, <3>1, <3>2 DEF Retained!Turn
  <2> QED BY <1>6, <2>2, <2>3
<1> QED
  BY <1>2, <1>3, <1>5, <1>6 DEF Retained!JobInv, Retained!Periods

\* An attempt that does not move still knows what it knew, if it is told of a change.
LEMMA RetainedOthers ==
  ASSUME Retained!RetainedAssumption, NEW w \in Drivers, Retained!JobInv(attempts[w]), Onward,
         \/ attempts'[w] = attempts[w]
         \/ attempts'[w] = [attempts[w] EXCEPT !.same = FALSE],
         attempts'[w].at = "advance" /\ attempts'[w].same =>
           fences'[attempts'[w].last] = fences[attempts'[w].last]
  PROVE  Retained!JobInv(attempts[w])'
<1>1. \A j, k : Retained!JobInv(j) /\ (k = j \/ k = [j EXCEPT !.same = FALSE])
                /\ (k.at = "advance" /\ k.same => fences'[k.last] = fences[k.last]) => Retained!JobInv(k)'
  BY RetainedKnown
<1> QED BY <1>1

\* What is known of an attempt that has its turn or is past it.
LEMMA RetainedMoved ==
  ASSUME Retained!RetainedAssumption, Onward, NEW j, NEW k, Retained!JobInv(j), j.at # "anchor",
         k \in [at : {"attempt", "sweep"}, revision : Nat, minimum : 1 .. Last, last : 1 .. Last,
                selected : 1 .. Last \cup {None}, steps : Nat, same : BOOLEAN],
         k.last = j.last, k.minimum = j.minimum, k.selected = j.selected
  PROVE  Retained!JobInv(k)'
<1>1. Last \in Nat
  BY DEF Retained!RetainedAssumption
<1>2. j.last \in 1 .. Last /\ \A p \in j.last + 1 .. Last : periods[p] = "SEALED"
  BY DEF Retained!JobInv, Retained!Periods
<1>3. \A p \in k.last + 1 .. Last : periods'[p] = "SEALED"
  BY <1>1, <1>2 DEF Onward
<1>4. k.at # "advance" /\ k.at \in {"anchor", "advance", "attempt", "sweep"}
  OBVIOUS
<1>5. k.minimum <= k.last /\ (k.selected # None => k.selected <= k.last) /\ k.selected # None
  BY DEF Retained!JobInv
<1> QED
  BY <1>3, <1>4, <1>5 DEF Retained!JobInv, Retained!Periods

\* What the report has read is still so, as long as it is told of a change.
LEMMA RetainedView ==
  ASSUME Retained!RetainedAssumption, Onward, view # None, Retained!ViewInv,
         view' = view \/ \E p : view' = [view EXCEPT !.same = @ \ {p}],
         \A q \in view'.same : fences'[q] = fences[q]
  PROVE  Retained!ViewInv'
<1>1. Last \in Nat
  BY DEF Retained!RetainedAssumption
<1>2. /\ view \in [at : {"fence", "rows", "again"}, minimum : 1 .. Last, p : 1 .. Last, read : SUBSET (1 .. Last),
                   same : SUBSET (1 .. Last)]
      /\ view.minimum <= view.p
      /\ \A p \in view.same : fences[p] # None /\ fences[p].phase = "SEEK"
      /\ view.at # "again" => \A p \in view.minimum .. view.p - 1 : Retained!Seen(p)
      /\ view.at = "rows" => view.p \in view.read /\ \A p \in view.read : p <= view.p
      /\ view.at = "fence" => \A p \in view.read : p < view.p
      /\ view.at = "again" => /\ \A p \in view.minimum .. Last : Retained!Seen(p)
                              /\ \A p \in view.minimum .. view.p - 1 : Retained!Clean(p)
  BY DEF Retained!ViewInv, Retained!Periods
<1>3. /\ view' \in [at : {"fence", "rows", "again"}, minimum : 1 .. Last, p : 1 .. Last, read : SUBSET (1 .. Last),
                    same : SUBSET (1 .. Last)]
      /\ view'.at = view.at /\ view'.minimum = view.minimum /\ view'.p = view.p /\ view'.read = view.read
      /\ view'.same \subseteq view.same
  BY <1>2
<1>4. ASSUME NEW p \in 1 .. Last, Retained!Seen(p) PROVE Retained!Seen(p)'
  BY <1>3, <1>4 DEF Retained!Seen, Onward
<1>5. \A p \in view'.same : fences'[p] # None /\ fences'[p].phase = "SEEK"
  BY <1>2, <1>3
<1>6. view.at # "again" => \A p \in view.minimum .. view.p - 1 : Retained!Seen(p)'
  BY <1>1, <1>2, <1>4
<1>7. view.at = "again" => /\ \A p \in view.minimum .. Last : Retained!Seen(p)'
                           /\ \A p \in view.minimum .. view.p - 1 : Retained!Clean(p)'
  BY <1>1, <1>2, <1>4 DEF Onward
<1> QED
  BY <1>2, <1>3, <1>5, <1>6, <1>7 DEF Retained!ViewInv, Retained!Periods

\* Every attempt knows what it knew or has learnt that its copy is old, and so does the report.
Heard(jobs) ==
  /\ DOMAIN attempts' = Drivers
  /\ \A v \in Drivers : attempts'[v] # None =>
       /\ jobs[v] # None
       /\ attempts'[v] = jobs[v] \/ attempts'[v] = [jobs[v] EXCEPT !.same = FALSE]
       /\ jobs[v] = attempts[v] /\ Retained!JobInv(jobs[v]) => Retained!JobInv(attempts[v])'
  /\ (view # None => Retained!ViewInv) => (view' # None => Retained!ViewInv')

\* Whoever held a copy of a TOMBSTONE that changes is told of it.
LEMMA RetainedTold ==
  ASSUME Retained!RetainedAssumption, Onward, NEW p \in 1 .. Last, NEW jobs, DOMAIN jobs = Drivers,
         Retained!Outdate(p, jobs), \A q \in 1 .. Last : q # p => fences'[q] = fences[q]
  PROVE  Heard(jobs)
<1>1. attempts' = [v \in Drivers |-> IF jobs[v] # None /\ jobs[v].at = "advance" /\ jobs[v].last = p
                                       THEN [jobs[v] EXCEPT !.same = FALSE] ELSE jobs[v]]
  BY DEF Retained!Outdate
<1>2. ASSUME NEW v \in Drivers, attempts'[v] # None
      PROVE  /\ jobs[v] # None
             /\ attempts'[v] = jobs[v] \/ attempts'[v] = [jobs[v] EXCEPT !.same = FALSE]
             /\ jobs[v] = attempts[v] /\ Retained!JobInv(jobs[v]) => Retained!JobInv(attempts[v])'
  <2>1. jobs[v] # None
    BY <1>1, <1>2
  <2>2. attempts'[v] = jobs[v] \/ attempts'[v] = [jobs[v] EXCEPT !.same = FALSE]
    BY <1>1
  <2>3. ASSUME jobs[v] = attempts[v], Retained!JobInv(jobs[v]) PROVE Retained!JobInv(attempts[v])'
    <3>1. /\ jobs[v] \in [at : {"anchor", "advance", "attempt", "sweep"}, revision : Nat, minimum : 1 .. Last,
                         last : 1 .. Last, selected : 1 .. Last \cup {None}, steps : Nat, same : BOOLEAN]
      BY <2>3 DEF Retained!JobInv, Retained!Periods
    <3>2. attempts'[v].at = "advance" /\ attempts'[v].same =>
            fences'[attempts'[v].last] = fences[attempts'[v].last]
      BY <1>1, <2>1, <3>1
    <3>3. Retained!JobInv(attempts[v])
      BY <2>3
    <3>4. attempts'[v] = attempts[v] \/ attempts'[v] = [attempts[v] EXCEPT !.same = FALSE]
      BY <2>2, <2>3
    <3> QED BY <3>2, <3>3, <3>4, RetainedOthers
  <2> QED BY <2>1, <2>2, <2>3
<1>3. ASSUME view # None, Retained!ViewInv PROVE Retained!ViewInv'
  <2>1. view \in [at : {"fence", "rows", "again"}, minimum : 1 .. Last, p : 1 .. Last, read : SUBSET (1 .. Last),
                   same : SUBSET (1 .. Last)]
    BY <1>3 DEF Retained!ViewInv, Retained!Periods
  <2>2. view' = [view EXCEPT !.same = @ \ {p}]
    BY <1>3 DEF Retained!Outdate
  <2>3. \A q \in view'.same : fences'[q] = fences[q]
    BY <2>1, <2>2
  <2> QED BY <1>3, <2>2, <2>3, RetainedView
<1>4. view = None => view' = None
  BY DEF Retained!Outdate
<1> QED BY <1>1, <1>2, <1>3, <1>4 DEF Heard

\* Turns that nobody takes, in a range that stays.
LEMMA RetainedTurnsStay ==
  ASSUME Retained!RetainedAssumption, RetainedRows, RetainedTurns, first' = first, skipped' = skipped,
         \A p \in 1 .. Last : periods'[p] = "SEALED" <=> periods[p] = "SEALED",
         \A p \in 1 .. Last : Retained!Cursor(p)' = Retained!Cursor(p)
  PROVE  RetainedTurns'
<1>1. Last \in Nat /\ first \in 1 .. Last + 1
  BY DEF Retained!RetainedAssumption, RetainedRows
<1>2. Retained!Kept' = Retained!Kept /\ Retained!Kept \subseteq 1 .. Last
  BY <1>1 DEF Retained!Kept
<1>3. ASSUME NEW a \in Retained!Kept', \A p \in a + 1 .. Last : periods'[p] = "SEALED", NEW p \in Retained!Kept'
      PROVE  skipped'[p] <= Retained!Missed(a, p)'
  <2>1. a \in Retained!Kept /\ p \in Retained!Kept /\ a \in 1 .. Last
    BY <1>2
  <2>2. \A q \in a + 1 .. Last : periods[q] = "SEALED"
    BY <1>1, <1>3, <2>1
  <2>3. skipped[p] <= Retained!Missed(a, p)
    BY <2>1, <2>2 DEF RetainedTurns, Retained!Fair
  <2>4. Retained!Cursor(a)' = Retained!Cursor(a)
    BY <2>1
  <2> QED BY <2>3, <2>4 DEF Retained!Missed, Retained!Turn
<1>4. Retained!Fair'
  BY <1>3 DEF Retained!Fair
<1> QED BY <1>4 DEF RetainedTurns

\* The parts after a step.
LEMMA RetainedPartsNext ==
  ASSUME Retained!RetainedAssumption, RetainedRows', RetainedJobs', view' # None => Retained!ViewInv', RetainedTurns'
  PROVE  Retained!IInv'
<1>1. \A w \in Drivers : attempts'[w] # None => attempts'[w].selected \in Retained!Periods \cup {None}
  BY DEF RetainedJobs, Retained!JobInv
<1>2. \A p \in 1 .. Last : fences'[p] # None => fences'[p].next \in Retained!Periods \cup {None}
  <2>1. fences' \in [1 .. Last -> Retained!Tombs \cup {None}]
    BY DEF RetainedRows
  <2> QED BY <2>1 DEF Retained!Tombs
<1> QED BY <1>1, <1>2
        DEF Retained!IInv, Retained!TypeOK, RetainedRows, RetainedJobs, RetainedTurns, Retained!Periods

\* Nothing is told where no TOMBSTONE changes.
LEMMA RetainedUntold ==
  ASSUME Retained!RetainedAssumption, Onward, NEW jobs, DOMAIN jobs = Drivers, attempts' = jobs, fences' = fences,
         view' = view
  PROVE  Heard(jobs)
<1>1. ASSUME NEW v \in Drivers, attempts'[v] # None, jobs[v] = attempts[v], Retained!JobInv(jobs[v])
      PROVE  Retained!JobInv(attempts[v])'
  <2>1. Retained!JobInv(attempts[v])
    BY <1>1
  <2> QED BY <1>1, <2>1, RetainedOthers
<1>2. ASSUME view # None, Retained!ViewInv PROVE Retained!ViewInv'
  BY <1>2, RetainedView
<1> QED BY <1>1, <1>2 DEF Heard

\* A step of one attempt.
LEMMA RetainedStep ==
  ASSUME Retained!RetainedAssumption, Retained!IInv, NEW w \in Drivers, NEW jobs, RetainedRows', RetainedTurns',
         Heard(jobs), \A v \in Drivers : v # w => jobs[v] = attempts[v],
         attempts'[w] # None => Retained!JobInv(attempts[w])'
  PROVE  Retained!IInv'
<1>1. RetainedJobs /\ (view # None => Retained!ViewInv)
  BY RetainedParts
<1>2. ASSUME NEW v \in Drivers, attempts'[v] # None PROVE Retained!JobInv(attempts[v])'
  <2>1. CASE v = w
    BY <1>2, <2>1
  <2>2. CASE v # w
    <3>1. jobs[v] = attempts[v] /\ jobs[v] # None
      BY <1>2, <2>2 DEF Heard
    <3>2. Retained!JobInv(attempts[v])
      BY <1>1, <3>1 DEF RetainedJobs
    <3>3. Retained!JobInv(jobs[v])
      BY <3>1, <3>2
    <3> QED BY <1>2, <3>1, <3>3 DEF Heard
  <2> QED BY <2>1, <2>2
<1>3. RetainedJobs'
  BY <1>2 DEF RetainedJobs, Heard
<1> QED BY <1>1, <1>3, RetainedPartsNext DEF Heard

\* A step of nobody's attempt, and a step that nobody is told of.
LEMMA RetainedAround ==
  ASSUME Retained!RetainedAssumption, Retained!IInv, RetainedRows', RetainedTurns', Heard(attempts)
  PROVE  Retained!IInv'
<1>1. RetainedJobs /\ (view # None => Retained!ViewInv)
  BY RetainedParts
<1>2. ASSUME NEW v \in Drivers, attempts'[v] # None PROVE Retained!JobInv(attempts[v])'
  <2>1. attempts[v] # None
    BY <1>2 DEF Heard
  <2>2. Retained!JobInv(attempts[v])
    BY <1>1, <2>1 DEF RetainedJobs
  <2> QED BY <1>2, <2>2 DEF Heard
<1>3. RetainedJobs'
  BY <1>2 DEF RetainedJobs, Heard
<1> QED BY <1>1, <1>3, RetainedPartsNext DEF Heard

\* The rows are as they were.
LEMMA RetainedStays ==
  ASSUME Retained!RetainedAssumption, RetainedRows, UNCHANGED <<periods, first, deletions, locators, fences, reported>>,
         revision' \in Nat
  PROVE  RetainedRows' /\ Onward
<1>1. \A p : (Retained!Clean(p)' <=> Retained!Clean(p)) /\ Retained!Cursor(p)' = Retained!Cursor(p)
  BY DEF Retained!Clean, Retained!Cursor
<1>2. Retained!EmptyForGood'
  BY <1>1 DEF RetainedRows, Retained!EmptyForGood
<1> QED BY <1>1, <1>2 DEF RetainedRows, Onward

\* A TOMBSTONE of an open period that changes, with a row or without.
LEMMA RetainedFences ==
  ASSUME Retained!RetainedAssumption, RetainedRows, UNCHANGED <<periods, first, deletions, revision, reported>>,
         NEW p \in 1 .. Last, periods[p] = "OPEN", NEW t \in Retained!Tombs, fences' = [fences EXCEPT ![p] = t],
         t.next # None => t.next <= p, t.next = None => Retained!Cursor(p) = None,
         Retained!Clean(p) => t.phase = "SEEK",
         locators' = locators \/ \E r : locators' = [locators EXCEPT ![p] = @ \ {r}]
  PROVE  RetainedRows' /\ Onward
<1>1. Last \in Nat /\ None \notin Retained!Tombs
  BY DEF Retained!RetainedAssumption
<1>2. /\ periods \in [1 .. Last -> {"OPEN", "DRAINING", "SEALED"}]
      /\ first \in 1 .. Last + 1
      /\ deletions \in {"PENDING", "COMPLETE"}
      /\ locators \in [1 .. Last -> SUBSET (1 .. PerPeriod)]
      /\ fences \in [1 .. Last -> Retained!Tombs \cup {None}] /\ revision \in Nat /\ reported \in BOOLEAN
      /\ \A q \in 1 .. Last : fences[q] # None /\ fences[q].next # None => fences[q].next <= q
      /\ \A q \in 1 .. first - 1 : periods[q] = "SEALED"
      /\ deletions = "COMPLETE" \/ reported => \A q \in 1 .. Last : Retained!Clean(q)
      /\ \A q \in 1 .. Last : periods[q] = "SEALED" => fences[q] = None
  BY DEF RetainedRows, Retained!EmptyForGood, Retained!Periods
<1>3. /\ locators' \in [1 .. Last -> SUBSET (1 .. PerPeriod)]
      /\ \A q \in 1 .. Last : locators'[q] \subseteq locators[q]
  BY <1>2
<1>4. fences' \in [1 .. Last -> Retained!Tombs \cup {None}] /\ fences'[p] = t /\ t # None
      /\ \A q \in 1 .. Last : q # p => fences'[q] = fences[q]
  BY <1>1, <1>2
<1>5. ASSUME NEW q \in 1 .. Last, Retained!Clean(q) PROVE Retained!Clean(q)'
  <2>1. locators[q] = {} => locators'[q] = {}
    BY <1>3
  <2>2. CASE q = p
    BY <1>4, <1>5, <2>1, <2>2 DEF Retained!Clean
  <2>3. CASE q # p
    BY <1>4, <1>5, <2>1, <2>3 DEF Retained!Clean
  <2> QED BY <2>2, <2>3
<1>6. ASSUME NEW q \in 1 .. Last, Retained!Cursor(q)' = None PROVE Retained!Cursor(q) = None
  <2>1. CASE q = p
    BY <1>4, <1>6, <2>1 DEF Retained!Cursor
  <2>2. CASE q # p
    BY <1>4, <1>6, <2>2 DEF Retained!Cursor
  <2> QED BY <2>1, <2>2
<1>7. Retained!EmptyForGood'
  <2>1. ASSUME deletions' = "COMPLETE" \/ reported', NEW q \in 1 .. Last PROVE Retained!Clean(q)'
    BY <1>2, <1>5, <2>1
  <2>2. ASSUME NEW q \in 1 .. Last, periods'[q] = "SEALED" PROVE fences'[q] = None
    BY <1>2, <1>4, <2>2
  <2> QED BY <2>1, <2>2 DEF Retained!EmptyForGood, Retained!Periods
<1>8. \A q \in 1 .. Last : fences'[q] # None /\ fences'[q].next # None => fences'[q].next <= q
  BY <1>2, <1>4
<1>9. RetainedRows'
  BY <1>2, <1>3, <1>4, <1>7, <1>8 DEF RetainedRows
<1> QED BY <1>2, <1>3, <1>5, <1>6, <1>9 DEF Onward

\* A TOMBSTONE that is there, or is written.
LEMMA RetainedFence ==
  ASSUME Retained!RetainedAssumption, RetainedRows, NEW w, NEW p \in 1 .. Last, NEW jobs, DOMAIN jobs = Drivers,
         Retained!Fence(w, p, jobs), UNCHANGED <<periods, first, deletions, revision, locators, reported>>
  PROVE  /\ RetainedRows' /\ Onward /\ Heard(jobs)
         /\ \A q \in 1 .. Last : Retained!Cursor(q)' = Retained!Cursor(q)
         /\ fences[p] # None => attempts' = jobs /\ fences' = fences
<1>1. fences \in [1 .. Last -> Retained!Tombs \cup {None}] /\ revision \in Nat
  BY DEF RetainedRows
<1>2. CASE fences[p] # None /\ attempts' = jobs /\ fences' = fences /\ view' = view
  <2>1. RetainedRows' /\ Onward
    BY <1>1, <1>2, RetainedStays
  <2> QED BY <1>2, <2>1, RetainedUntold DEF Retained!Cursor
<1>3. CASE fences[p] = None /\ Retained!Guarded(w, p) /\ fences' = [fences EXCEPT ![p] = Retained!Fresh]
           /\ Retained!Outdate(p, jobs)
  <2>1. Retained!Fresh \in Retained!Tombs /\ Retained!Fresh.next = None
    BY DEF Retained!Fresh, Retained!Tombs
  <2>2. periods[p] = "OPEN"
    BY <1>3 DEF Retained!Guarded
  <2>3. ~Retained!Clean(p) /\ Retained!Cursor(p) = None
    BY <1>3, <2>2 DEF Retained!Clean, Retained!Cursor
  <2>4. RetainedRows' /\ Onward
    <3> DEFINE t == Retained!Fresh
    <3> HIDE DEF t
    <3>1. t \in Retained!Tombs /\ t.next = None /\ fences' = [fences EXCEPT ![p] = t]
      BY <1>3, <2>1 DEF t
    <3> QED BY <2>2, <2>3, <3>1, RetainedFences
  <2>5. \A q \in 1 .. Last : q # p => fences'[q] = fences[q]
    BY <1>1, <1>3
  <2>6. ASSUME NEW q \in 1 .. Last PROVE Retained!Cursor(q)' = Retained!Cursor(q)
    <3>1. CASE q = p
      BY <1>1, <1>3, <2>1, <2>3, <3>1 DEF Retained!Cursor
    <3>2. CASE q # p
      BY <2>5, <3>2 DEF Retained!Cursor
    <3> QED BY <3>1, <3>2
  <2> QED BY <1>3, <2>4, <2>5, <2>6, RetainedTold
<1> QED BY <1>2, <1>3 DEF Retained!Fence

\* An attempt begins.
LEMMA RetainedStarts ==
  ASSUME Retained!RetainedAssumption, Retained!IInv, NEW w \in Drivers, Retained!Start(w)
  PROVE  Retained!IInv'
<1>1. RetainedRows /\ RetainedJobs /\ RetainedTurns /\ Last \in Nat
  BY RetainedParts DEF Retained!RetainedAssumption
<1> DEFINE m == Retained!Max(Retained!Kept)
           j == [at |-> "anchor", revision |-> revision, minimum |-> first, last |-> m, selected |-> None,
                 steps |-> 0, same |-> TRUE]
<1>2. /\ attempts' = [attempts EXCEPT ![w] = j] /\ Retained!Kept # {}
      /\ UNCHANGED <<periods, first, deletions, revision, locators, fences, view, reported, skipped>>
  BY DEF Retained!Start
<1>3. Retained!Kept \subseteq 1 .. Last /\ first \in 1 .. Last + 1 /\ revision \in Nat
  BY <1>1 DEF RetainedRows, Retained!Kept
<1>4. m \in Retained!Kept /\ \A p \in Retained!Kept : p <= m
  BY <1>2, <1>3, LastOf
<1> HIDE DEF m
<1>5. m \in first .. Last /\ first \in 1 .. Last /\ \A p \in m + 1 .. Last : periods[p] = "SEALED"
  BY <1>1, <1>3, <1>4 DEF Retained!Kept
<1>6. RetainedRows' /\ Onward /\ RetainedTurns'
  <2>1. RetainedRows' /\ Onward
    BY <1>1, <1>2, <1>3, RetainedStays
  <2>2. RetainedTurns'
    BY <1>1, <1>2, RetainedTurnsStay DEF Retained!Cursor
  <2> QED BY <2>1, <2>2
<1>7. DOMAIN attempts' = Drivers /\ \A v \in Drivers : attempts'[v] = IF v = w THEN j ELSE attempts[v]
  BY <1>1, <1>2 DEF RetainedJobs
<1>8. Heard(attempts')
  <2> DEFINE jobs == attempts'
  <2>1. DOMAIN jobs = Drivers /\ attempts' = jobs /\ fences' = fences /\ view' = view
    BY <1>2, <1>7
  <2> HIDE DEF jobs
  <2>2. Heard(jobs)
    BY <1>6, <2>1, RetainedUntold
  <2> QED BY <2>2 DEF jobs
<1>9. Retained!JobInv(attempts[w])'
  <2>1. attempts'[w] = j
    BY <1>7
  <2>2. /\ j \in [at : {"anchor", "advance", "attempt", "sweep"}, revision : Nat, minimum : 1 .. Last,
                  last : 1 .. Last, selected : 1 .. Last \cup {None}, steps : Nat, same : BOOLEAN]
        /\ j.minimum <= j.last /\ j.selected = None /\ j.at = "anchor" /\ j.last = m
    BY <1>3, <1>5
  <2>3. \A p \in m + 1 .. Last : periods'[p] = "SEALED"
    BY <1>2, <1>5
  <2> HIDE DEF j
  <2> QED BY <2>1, <2>2, <2>3 DEF Retained!JobInv, Retained!Periods
<1> QED BY <1>6, <1>7, <1>8, <1>9, RetainedStep

\* An attempt ends.
LEMMA RetainedLeaves ==
  ASSUME Retained!RetainedAssumption, Retained!IInv, NEW w \in Drivers, Retained!Leave(w)
  PROVE  Retained!IInv'
<1>1. RetainedRows /\ RetainedJobs /\ RetainedTurns /\ revision \in Nat
  BY RetainedParts DEF RetainedRows
<1>2. /\ attempts' = [attempts EXCEPT ![w] = None]
      /\ UNCHANGED <<periods, first, deletions, revision, locators, fences, view, reported, skipped>>
  BY DEF Retained!Leave
<1>3. RetainedRows' /\ Onward
  BY <1>1, <1>2, RetainedStays
<1>4. RetainedTurns'
  BY <1>1, <1>2, RetainedTurnsStay DEF Retained!Cursor
<1>5. DOMAIN attempts' = Drivers /\ attempts'[w] = None /\ \A v \in Drivers : v # w => attempts'[v] = attempts[v]
  BY <1>1, <1>2 DEF RetainedJobs
<1>6. Heard(attempts')
  <2> DEFINE jobs == attempts'
  <2>1. DOMAIN jobs = Drivers /\ attempts' = jobs /\ fences' = fences /\ view' = view
    BY <1>2, <1>5
  <2> HIDE DEF jobs
  <2>2. Heard(jobs)
    BY <1>3, <2>1, RetainedUntold
  <2> QED BY <2>2 DEF jobs
<1> QED BY <1>3, <1>4, <1>5, <1>6, RetainedStep

\* An attempt, as the invariant knows it.
LEMMA RetainedJob ==
  ASSUME Retained!RetainedAssumption, Retained!IInv, NEW w \in Drivers, attempts[w] # None
  PROVE  /\ RetainedRows /\ RetainedTurns /\ DOMAIN attempts = Drivers /\ Last \in Nat /\ None \notin Nat
         /\ Retained!JobInv(attempts[w])
         /\ attempts[w] \in [at : {"anchor", "advance", "attempt", "sweep"}, revision : Nat, minimum : 1 .. Last,
                             last : 1 .. Last, selected : 1 .. Last \cup {None}, steps : Nat, same : BOOLEAN]
         /\ attempts[w].minimum \in 1 .. attempts[w].last
BY RetainedParts DEF Retained!RetainedAssumption, RetainedJobs, Retained!JobInv, Retained!Periods

\* It reads whose turn it is.
LEMMA RetainedAnchors ==
  ASSUME Retained!RetainedAssumption, Retained!IInv, NEW w \in Drivers, Retained!Anchor(w)
  PROVE  Retained!IInv'
<1> DEFINE j == attempts[w]
           next == Retained!Cursor(j.last)
           turn == IF next = None THEN j.minimum ELSE Retained!Max({j.minimum, next})
           there == fences[j.last] # None
           jobs == [attempts EXCEPT ![w].at = "advance", ![w].selected = turn, ![w].same = there]
<1>1. /\ j # None /\ j.at = "anchor" /\ Retained!Fence(w, j.last, jobs)
      /\ UNCHANGED <<periods, first, deletions, revision, locators, reported, skipped>>
  BY DEF Retained!Anchor, Retained!At
<1>2. /\ RetainedRows /\ RetainedTurns /\ DOMAIN attempts = Drivers /\ Last \in Nat /\ None \notin Nat
      /\ Retained!JobInv(j)
      /\ j \in [at : {"anchor", "advance", "attempt", "sweep"}, revision : Nat, minimum : 1 .. Last,
                last : 1 .. Last, selected : 1 .. Last \cup {None}, steps : Nat, same : BOOLEAN]
      /\ j.minimum \in 1 .. j.last
  BY <1>1, RetainedJob
<1>3. (next # None => next \in 1 .. j.last) /\ Retained!Turn(j.minimum, j.last) \in j.minimum .. j.last
  BY <1>2, RetainedCursor
<1>4. turn = Retained!Turn(j.minimum, j.last)
  <2>1. CASE next = None
    BY <2>1 DEF Retained!Turn
  <2>2. CASE next # None
    <3> DEFINE S == {j.minimum, next}
    <3>1. S \subseteq 1 .. Last /\ S # {}
      BY <1>2, <1>3, <2>2
    <3>2. Retained!Max(S) \in S /\ \A p \in S : p <= Retained!Max(S)
      <4> HIDE DEF S
      <4> QED BY <3>1, LastOf
    <3> DEFINE m == Retained!Max(S)
    <3>3. m \in {j.minimum, next} /\ j.minimum <= m /\ next <= m
      BY <3>2
    <3>4. turn = m
      BY <2>2
    <3> HIDE DEF m, S, turn
    <3>5. m = IF next < j.minimum THEN j.minimum ELSE next
      BY <1>2, <1>3, <2>2, <3>3
    <3> QED BY <2>2, <3>4, <3>5 DEF Retained!Turn
  <2> QED BY <2>1, <2>2
<1> DEFINE k == [j EXCEPT !.at = "advance", !.selected = turn, !.same = there]
<1>5. DOMAIN jobs = Drivers /\ jobs[w] = k /\ \A v \in Drivers : v # w => jobs[v] = attempts[v]
  BY <1>2
<1>6. /\ k \in [at : {"anchor", "advance", "attempt", "sweep"}, revision : Nat, minimum : 1 .. Last,
                last : 1 .. Last, selected : 1 .. Last \cup {None}, steps : Nat, same : BOOLEAN]
      /\ k.at = "advance" /\ k.last = j.last /\ k.minimum = j.minimum /\ k.selected = turn /\ k.same = there
  <2>1. turn \in 1 .. Last /\ there \in BOOLEAN
    BY <1>2, <1>3, <1>4
  <2> HIDE DEF turn, there
  <2> QED BY <1>2, <2>1
<1> HIDE DEF jobs, k, turn
<1>7. /\ RetainedRows' /\ Onward /\ Heard(jobs)
      /\ \A q \in 1 .. Last : Retained!Cursor(q)' = Retained!Cursor(q)
      /\ there => attempts' = jobs /\ fences' = fences
  <2>1. j.last \in 1 .. Last
    BY <1>2
  <2> HIDE DEF j
  <2> QED BY <1>1, <1>2, <1>5, <2>1, RetainedFence
<1>8. RetainedTurns'
  BY <1>1, <1>2, <1>7, RetainedTurnsStay
<1>9. ASSUME attempts'[w] # None PROVE Retained!JobInv(attempts[w])'
  <2>1. \E i : i = attempts'[w]
    OBVIOUS
  <2>2. PICK i : i = attempts'[w]
    BY <2>1
  <2>3. /\ i \in [at : {"anchor", "advance", "attempt", "sweep"}, revision : Nat, minimum : 1 .. Last,
                  last : 1 .. Last, selected : 1 .. Last \cup {None}, steps : Nat, same : BOOLEAN]
        /\ i.at = "advance" /\ i.last = j.last /\ i.minimum = j.minimum /\ i.selected = turn /\ (i.same => there)
    <3>1. i = k \/ i = [k EXCEPT !.same = FALSE]
      BY <1>5, <1>7, <1>9, <2>2 DEF Heard
    <3> HIDE DEF there
    <3> QED BY <1>6, <3>1
  <2>4. \E l, m : l = j.last /\ m = j.minimum
    OBVIOUS
  <2>5. PICK l, m : l = j.last /\ m = j.minimum
    BY <2>4
  <2>6. /\ l \in 1 .. Last /\ m \in 1 .. l /\ turn \in m .. l
        /\ \A p \in l + 1 .. Last : periods'[p] = "SEALED"
    BY <1>1, <1>2, <1>3, <1>4, <2>5 DEF Retained!JobInv
  <2>7. i.same => fences'[l] # None
    BY <1>7, <2>3, <2>5
  <2>8. turn = Retained!Turn(m, l)'
    BY <1>4, <1>7, <2>5, <2>6 DEF Retained!Turn
  <2>9. Retained!JobInv(i)'
    <3>1. turn # None
      BY <1>2, <2>6
    <3> QED BY <2>3, <2>5, <2>6, <2>7, <2>8, <3>1 DEF Retained!JobInv, Retained!Periods
  <2> QED BY <2>2, <2>9 DEF Retained!JobInv, Retained!Periods, Retained!Turn, Retained!Cursor
<1> QED BY <1>5, <1>7, <1>8, <1>9, RetainedStep

\* What is known of an attempt that goes on behind its turn.
LEMMA RetainedGoesOn ==
  ASSUME Retained!RetainedAssumption, Onward, NEW w \in Drivers, Retained!JobInv(attempts[w]),
         attempts[w].at # "anchor", NEW k,
         k \in [at : {"attempt", "sweep"}, revision : Nat, minimum : 1 .. Last, last : 1 .. Last,
                selected : 1 .. Last \cup {None}, steps : Nat, same : BOOLEAN],
         k.last = attempts[w].last, k.minimum = attempts[w].minimum, k.selected = attempts[w].selected,
         attempts'[w] = k \/ attempts'[w] = [k EXCEPT !.same = FALSE]
  PROVE  Retained!JobInv(attempts[w])'
<1>1. PICK i : i = attempts'[w]
  OBVIOUS
<1>2. /\ i \in [at : {"attempt", "sweep"}, revision : Nat, minimum : 1 .. Last,
                last : 1 .. Last, selected : 1 .. Last \cup {None}, steps : Nat, same : BOOLEAN]
      /\ i.last = attempts[w].last /\ i.minimum = attempts[w].minimum /\ i.selected = attempts[w].selected
  BY <1>1
<1>3. \A a, b : Retained!JobInv(a) /\ a.at # "anchor"
        /\ b \in [at : {"attempt", "sweep"}, revision : Nat, minimum : 1 .. Last, last : 1 .. Last,
                  selected : 1 .. Last \cup {None}, steps : Nat, same : BOOLEAN]
        /\ b.last = a.last /\ b.minimum = a.minimum /\ b.selected = a.selected => Retained!JobInv(b)'
  BY RetainedMoved
<1>4. Retained!JobInv(i)'
  BY <1>2, <1>3
<1> QED BY <1>1, <1>4 DEF Retained!JobInv, Retained!Periods, Retained!Turn, Retained!Cursor

\* It goes for the period whose turn it is.
LEMMA RetainedAttempts ==
  ASSUME Retained!RetainedAssumption, Retained!IInv, NEW w \in Drivers, Retained!Attempt(w)
  PROVE  Retained!IInv'
<1> DEFINE j == attempts[w]
           jobs == [attempts EXCEPT ![w].at = "sweep"]
           k == [j EXCEPT !.at = "sweep"]
<1>1. /\ j # None /\ j.at = "attempt" /\ Retained!Fence(w, j.selected, jobs)
      /\ UNCHANGED <<periods, first, deletions, revision, locators, reported, skipped>>
  BY DEF Retained!Attempt, Retained!At
<1>2. /\ RetainedRows /\ RetainedTurns /\ DOMAIN attempts = Drivers /\ Last \in Nat /\ None \notin Nat
      /\ Retained!JobInv(j)
      /\ j \in [at : {"anchor", "advance", "attempt", "sweep"}, revision : Nat, minimum : 1 .. Last,
                last : 1 .. Last, selected : 1 .. Last \cup {None}, steps : Nat, same : BOOLEAN]
  BY <1>1, RetainedJob
<1>3. j.selected \in 1 .. Last
  BY <1>1, <1>2 DEF Retained!JobInv
<1>4. DOMAIN jobs = Drivers /\ jobs[w] = k /\ \A v \in Drivers : v # w => jobs[v] = attempts[v]
  BY <1>2
<1>5. /\ k \in [at : {"attempt", "sweep"}, revision : Nat, minimum : 1 .. Last,
                last : 1 .. Last, selected : 1 .. Last \cup {None}, steps : Nat, same : BOOLEAN]
      /\ k.last = j.last /\ k.minimum = j.minimum /\ k.selected = j.selected
  BY <1>2
<1> HIDE DEF jobs, k
<1>6. RetainedRows' /\ Onward /\ Heard(jobs) /\ \A q \in 1 .. Last : Retained!Cursor(q)' = Retained!Cursor(q)
  <2> HIDE DEF j
  <2> QED BY <1>1, <1>2, <1>3, <1>4, RetainedFence
<1>7. RetainedTurns'
  BY <1>1, <1>2, <1>6, RetainedTurnsStay
<1>8. ASSUME attempts'[w] # None PROVE Retained!JobInv(attempts[w])'
  BY <1>1, <1>2, <1>4, <1>5, <1>6, <1>8, RetainedGoesOn DEF Heard
<1> QED BY <1>4, <1>6, <1>7, <1>8, RetainedStep

\* When a turn of the range from f to a is taken, each other period of it has missed one more.
LEMMA TurnsGoRound ==
  ASSUME NEW a \in Nat, NEW f \in 1 .. a, NEW s \in f .. a, NEW p \in f .. a, NEW n, n = IF s = a THEN f ELSE s + 1
  PROVE  /\ (IF n > p THEN n - p - 1 ELSE n - 1 + a - p) \in Nat
         /\ (IF s > p THEN s - p - 1 ELSE s - 1 + a - p) \in Nat
         /\ p # s => (IF s > p THEN s - p - 1 ELSE s - 1 + a - p) + 1 <= IF n > p THEN n - p - 1 ELSE n - 1 + a - p
OBVIOUS

\* A turn that is the next one of the range up to a is taken, and the one behind it is next.
LEMMA RetainedTurnTaken ==
  ASSUME Retained!RetainedAssumption, RetainedRows, RetainedTurns, NEW a \in 1 .. Last, first <= a,
         periods[a] # "SEALED", \A p \in a + 1 .. Last : periods[p] = "SEALED", periods' = periods, first' = first,
         NEW s, s = Retained!Turn(first, a), NEW n, n = IF s = a THEN first ELSE s + 1, Retained!Cursor(a)' = n,
         skipped' = [p \in 1 .. Last |-> IF p = s \/ p \notin Retained!Kept THEN 0 ELSE skipped[p] + 1]
  PROVE  RetainedTurns'
<1>1. Last \in Nat /\ first \in 1 .. a /\ s \in first .. a /\ None \notin Nat /\ skipped \in [1 .. Last -> Nat]
  <2>1. Last \in Nat /\ None \notin Nat /\ first \in 1 .. a /\ skipped \in [1 .. Last -> Nat]
    BY DEF Retained!RetainedAssumption, RetainedRows, RetainedTurns
  <2>2. \A m \in 1 .. a : Retained!Turn(m, a) \in m .. a
    BY RetainedCursor
  <2> QED BY <2>1, <2>2
<1>2. Retained!Kept' = Retained!Kept /\ Retained!Kept = {p \in first .. Last : periods[p] # "SEALED"}
  BY DEF Retained!Kept
<1>3. n \in first .. a
  BY <1>1
<1>4. Retained!Turn(first, a)' = n
  BY <1>1, <1>3 DEF Retained!Turn
<1>5. ASSUME NEW b \in Retained!Kept', \A p \in b + 1 .. Last : periods'[p] = "SEALED", NEW p \in Retained!Kept'
      PROVE  skipped'[p] <= Retained!Missed(b, p)'
  <2>1. b \in first .. Last /\ p \in first .. Last /\ periods[b] # "SEALED" /\ periods[p] # "SEALED" /\ p \in Retained!Kept
    BY <1>2
  <2>2. b <= a /\ p <= a
    BY <1>1, <2>1
  <2>3. /\ (IF n > p THEN n - p - 1 ELSE n - 1 + a - p) \in Nat
        /\ (IF s > p THEN s - p - 1 ELSE s - 1 + a - p) \in Nat
        /\ p # s => (IF s > p THEN s - p - 1 ELSE s - 1 + a - p) + 1 <= IF n > p THEN n - p - 1 ELSE n - 1 + a - p
    <3>1. p \in first .. a /\ a \in Nat
      BY <1>1, <2>1, <2>2
    <3> QED BY <1>1, <3>1, TurnsGoRound
  <2>4. CASE b = a
    <3> DEFINE d == (Last - a) * Last
               tail == IF s > p THEN s - p - 1 ELSE s - 1 + a - p
               tail2 == IF n > p THEN n - p - 1 ELSE n - 1 + a - p
    <3>1. d \in Nat
      BY <1>1
    <3>2. Retained!Missed(a, p)' = d + tail2
      BY <1>4, <2>4 DEF Retained!Missed
    <3>3. CASE p = s
      <4>1. skipped'[p] = 0
        BY <1>1, <2>1, <3>3
      <4>2. tail2 \in Nat
        BY <2>3
      <4> HIDE DEF d, tail2
      <4> QED BY <2>4, <3>1, <3>2, <4>1, <4>2
    <3>4. CASE p # s
      <4>1. skipped'[p] = skipped[p] + 1
        BY <1>1, <2>1, <3>4
      <4>2. skipped[p] <= Retained!Missed(a, p)
        <5>1. a \in Retained!Kept
          BY <1>1, <1>2, <2>4
        <5> QED BY <2>1, <5>1 DEF RetainedTurns, Retained!Fair
      <4>3. Retained!Missed(a, p) = d + tail
        BY DEF Retained!Missed
      <4>4. tail + 1 <= tail2 /\ tail \in Int /\ tail2 \in Int
        BY <2>3, <3>4
      <4>5. skipped[p] \in Nat
        BY <1>1, <2>1
      <4> HIDE DEF d, tail, tail2
      <4> QED BY <2>4, <3>1, <3>2, <4>1, <4>2, <4>3, <4>4, <4>5
    <3> QED BY <3>3, <3>4
  <2>5. CASE b # a
    <3>1. a \in b + 1 .. Last
      BY <1>1, <2>1, <2>2, <2>5
    <3>2. periods[a] = "SEALED"
      BY <1>5, <3>1
    <3> QED BY <3>2
  <2> QED BY <2>4, <2>5
<1>6. Retained!Fair'
  BY <1>5 DEF Retained!Fair
<1>7. skipped' \in [1 .. Last -> Nat]
  BY <1>1
<1> QED BY <1>6, <1>7 DEF RetainedTurns

\* It takes its turn.
LEMMA RetainedAdvances ==
  ASSUME Retained!RetainedAssumption, Retained!IInv, NEW w \in Drivers, Retained!Advance(w)
  PROVE  Retained!IInv'
<1> DEFINE j == attempts[w]
           jobs == [attempts EXCEPT ![w].at = "attempt"]
           k == [j EXCEPT !.at = "attempt"]
           n == Retained!NextPeriod(j)
           t == [fences[j.last] EXCEPT !.next = n]
<1>1. /\ j # None /\ j.at = "advance" /\ Retained!Mine(w) /\ Retained!Guarded(w, j.last)
      /\ fences' = [fences EXCEPT ![j.last].next = n] /\ Retained!Outdate(j.last, jobs)
      /\ skipped' = [p \in 1 .. Last |-> IF p = j.selected \/ p \notin Retained!Kept THEN 0 ELSE skipped[p] + 1]
      /\ UNCHANGED <<periods, first, deletions, revision, locators, reported>>
  BY DEF Retained!Advance, Retained!At, Retained!Periods
<1>2. /\ RetainedRows /\ RetainedTurns /\ DOMAIN attempts = Drivers /\ Last \in Nat /\ None \notin Nat
      /\ Retained!JobInv(j)
      /\ j \in [at : {"anchor", "advance", "attempt", "sweep"}, revision : Nat, minimum : 1 .. Last,
                last : 1 .. Last, selected : 1 .. Last \cup {None}, steps : Nat, same : BOOLEAN]
      /\ j.minimum \in 1 .. j.last
  BY <1>1, RetainedJob
<1>3. /\ j.minimum = first /\ periods[j.last] = "OPEN" /\ \A p \in j.last + 1 .. Last : periods[p] = "SEALED"
  BY <1>1, <1>2 DEF Retained!Guarded, Retained!JobInv
<1>4. fences[j.last] # None /\ fences[j.last] \in Retained!Tombs /\ (j.same \/ Retained!Cursor(j.last) = None)
  <2>1. fences[j.last] \in Retained!Tombs \cup {None}
    BY <1>2 DEF RetainedRows
  <2>2. CASE j.same
    BY <1>1, <1>2, <2>1, <2>2 DEF Retained!JobInv
  <2>3. CASE fences[j.last] = Retained!Fresh
    <3>1. Retained!Fresh \in Retained!Tombs /\ Retained!Fresh.next = None
      BY DEF Retained!Fresh, Retained!Tombs
    <3>2. Retained!Fresh # None
      BY <3>1 DEF Retained!RetainedAssumption
    <3> QED BY <2>3, <3>1, <3>2 DEF Retained!Cursor
  <2> QED BY <1>1, <2>2, <2>3 DEF Retained!Mine
<1>5. j.selected = Retained!Turn(first, j.last) /\ j.selected \in first .. j.last /\ first <= j.last
  BY <1>1, <1>2, <1>3, <1>4, RetainedCursor DEF Retained!JobInv
<1>6. n = (IF j.selected = j.last THEN first ELSE j.selected + 1) /\ n \in 1 .. j.last /\ n \in 1 .. Last
  BY <1>2, <1>3, <1>5 DEF Retained!NextPeriod
<1> HIDE DEF n
<1>7. t \in Retained!Tombs /\ t.next = n /\ t.phase = fences[j.last].phase /\ fences' = [fences EXCEPT ![j.last] = t]
  BY <1>1, <1>4, <1>6 DEF Retained!Tombs, Retained!Periods
<1> HIDE DEF t
<1>8. DOMAIN jobs = Drivers /\ jobs[w] = k /\ \A v \in Drivers : v # w => jobs[v] = attempts[v]
  BY <1>2
<1>9. /\ k \in [at : {"attempt", "sweep"}, revision : Nat, minimum : 1 .. Last,
                last : 1 .. Last, selected : 1 .. Last \cup {None}, steps : Nat, same : BOOLEAN]
      /\ k.last = j.last /\ k.minimum = j.minimum /\ k.selected = j.selected
  BY <1>2
<1> HIDE DEF jobs, k
<1>10. RetainedRows' /\ Onward
  <2>1. t.next # None => t.next <= j.last
    BY <1>2, <1>6, <1>7
  <2>2. t.next # None
    BY <1>2, <1>6, <1>7
  <2>3. Retained!Clean(j.last) => t.phase = "SEEK"
    BY <1>3, <1>7 DEF Retained!Clean
  <2>4. j.last \in 1 .. Last /\ periods[j.last] = "OPEN" /\ t \in Retained!Tombs
        /\ fences' = [fences EXCEPT ![j.last] = t] /\ locators' = locators
        /\ UNCHANGED <<periods, first, deletions, revision, reported>>
    BY <1>1, <1>2, <1>3, <1>7
  <2> HIDE DEF j
  <2> QED BY <1>2, <2>1, <2>2, <2>3, <2>4, RetainedFences
<1>11. Heard(jobs)
  <2>1. \A q \in 1 .. Last : q # j.last => fences'[q] = fences[q]
    BY <1>2, <1>7 DEF RetainedRows
  <2> QED BY <1>1, <1>2, <1>8, <1>10, <2>1, RetainedTold
<1>12. RetainedTurns'
  <2>1. PICK l : l = j.last
    OBVIOUS
  <2>2. fences'[l] = t /\ t # None
    BY <1>2, <1>7, <2>1 DEF RetainedRows, Retained!RetainedAssumption
  <2>3. Retained!Cursor(l)' = n
    BY <1>7, <2>2 DEF Retained!Cursor
  <2>4. /\ l \in 1 .. Last /\ first <= l /\ periods[l] # "SEALED" /\ \A p \in l + 1 .. Last : periods[p] = "SEALED"
        /\ j.selected = Retained!Turn(first, l) /\ n = IF j.selected = l THEN first ELSE j.selected + 1
    BY <1>2, <1>3, <1>5, <1>6, <2>1
  <2> HIDE DEF j
  <2> QED BY <1>1, <1>2, <2>3, <2>4, RetainedTurnTaken
<1>13. ASSUME attempts'[w] # None PROVE Retained!JobInv(attempts[w])'
  BY <1>1, <1>2, <1>8, <1>9, <1>10, <1>11, <1>13, RetainedGoesOn DEF Heard
<1> QED BY <1>8, <1>10, <1>11, <1>12, <1>13, RetainedStep

\* One step of a sweep.
LEMMA RetainedSweeps ==
  ASSUME Retained!RetainedAssumption, Retained!IInv, NEW w \in Drivers, Retained!Sweep(w)
  PROVE  Retained!IInv'
<1> DEFINE j == attempts[w]
           on == [attempts EXCEPT ![w].steps = @ + 1]
           over == [attempts EXCEPT ![w] = None]
           k == [j EXCEPT !.steps = @ + 1]
<1>0. j # None /\ j.at = "sweep"
  BY DEF Retained!Sweep, Retained!At
<1>1. /\ RetainedRows /\ RetainedTurns /\ DOMAIN attempts = Drivers /\ Last \in Nat /\ None \notin Nat
      /\ Retained!JobInv(j)
      /\ j \in [at : {"anchor", "advance", "attempt", "sweep"}, revision : Nat, minimum : 1 .. Last,
                last : 1 .. Last, selected : 1 .. Last \cup {None}, steps : Nat, same : BOOLEAN]
  BY <1>0, RetainedJob
<1>2. j.selected \in 1 .. Last
  BY <1>0, <1>1 DEF Retained!JobInv
<1>3. PICK p \in 1 .. Last : p = j.selected
  BY <1>2
<1> DEFINE t == fences[p]
<1>4. t # None /\ t \in Retained!Tombs /\ periods[p] = "OPEN"
  BY <1>1, <1>3 DEF Retained!Sweep, RetainedRows, Retained!Guarded
<1>5. /\ UNCHANGED <<periods, first, deletions, revision, reported, skipped>>
      /\ \E jobs \in {on, over}, u \in Retained!Tombs :
           /\ fences' = [fences EXCEPT ![p] = u] /\ u.next = t.next
           /\ Retained!Clean(p) => u.phase = "SEEK"
           /\ Retained!Outdate(p, jobs)
           /\ locators' = locators \/ \E r : locators' = [locators EXCEPT ![p] = @ \ {r}]
  <2>0. UNCHANGED <<periods, first, deletions, revision, reported, skipped>>
    BY DEF Retained!Sweep
  <2> HIDE DEF on, over
  <2>1. CASE t.phase = "new" /\ fences' = [fences EXCEPT ![p].phase = "SEEK"] /\ Retained!Outdate(p, on)
             /\ locators' = locators
    <3>1. PICK u : u = [t EXCEPT !.phase = "SEEK"]
      OBVIOUS
    <3>2. u \in Retained!Tombs /\ u.next = t.next /\ u.phase = "SEEK" /\ fences' = [fences EXCEPT ![p] = u]
      BY <1>4, <2>1, <3>1 DEF Retained!Tombs
    <3> QED BY <2>0, <2>1, <3>2
  <2>2. CASE fences' = [fences EXCEPT ![p].cursor = FALSE] /\ t.phase = "SEEK" /\ Retained!Outdate(p, over)
             /\ locators' = locators
    <3>1. PICK u : u = [t EXCEPT !.cursor = FALSE]
      OBVIOUS
    <3>2. u \in Retained!Tombs /\ u.next = t.next /\ u.phase = "SEEK" /\ fences' = [fences EXCEPT ![p] = u]
      BY <1>4, <2>2, <3>1 DEF Retained!Tombs
    <3> QED BY <2>0, <2>2, <3>2
  <2>3. CASE /\ t.phase = "SEEK" /\ Retained!Outdate(p, on) /\ locators' = locators
             /\ \E r \in locators[p], more \in BOOLEAN :
                  fences' = [fences EXCEPT ![p].phase = "DELETE", ![p].row = r, ![p].cursor = more]
    <3>1. PICK r \in locators[p], more \in BOOLEAN :
            fences' = [fences EXCEPT ![p].phase = "DELETE", ![p].row = r, ![p].cursor = more]
      BY <2>3
    <3>2. PICK u : u = [t EXCEPT !.phase = "DELETE", !.row = r, !.cursor = more]
      OBVIOUS
    <3>3. r \in 1 .. PerPeriod
      BY <1>1 DEF RetainedRows
    <3>4. u \in Retained!Tombs /\ u.next = t.next
      BY <1>4, <3>2, <3>3 DEF Retained!Tombs
    <3>5. fences' = [fences EXCEPT ![p] = u]
      BY <1>1, <3>1, <3>2 DEF RetainedRows
    <3>6. ~Retained!Clean(p)
      BY <1>4 DEF Retained!Clean
    <3> QED BY <2>0, <2>3, <3>4, <3>5, <3>6
  <2>4. CASE /\ t.phase = "DELETE" /\ Retained!Outdate(p, on) /\ locators' = [locators EXCEPT ![p] = @ \ {t.row}]
             /\ \E phase \in {"RECOMPUTE", "SEEK"} : fences' = [fences EXCEPT ![p].phase = phase, ![p].row = None]
    <3>1. PICK phase \in {"RECOMPUTE", "SEEK"} : fences' = [fences EXCEPT ![p].phase = phase, ![p].row = None]
      BY <2>4
    <3>2. PICK u : u = [t EXCEPT !.phase = phase, !.row = None]
      OBVIOUS
    <3>3. u \in Retained!Tombs /\ u.next = t.next
      BY <1>4, <3>2 DEF Retained!Tombs
    <3>4. fences' = [fences EXCEPT ![p] = u]
      BY <1>1, <3>1, <3>2 DEF RetainedRows
    <3>5. ~Retained!Clean(p)
      BY <1>4, <2>4 DEF Retained!Clean
    <3> QED BY <2>0, <2>4, <3>3, <3>4, <3>5
  <2>5. CASE t.phase = "RECOMPUTE" /\ fences' = [fences EXCEPT ![p].phase = "SEEK"] /\ Retained!Outdate(p, on)
             /\ locators' = locators
    <3>1. PICK u : u = [t EXCEPT !.phase = "SEEK"]
      OBVIOUS
    <3>2. u \in Retained!Tombs /\ u.next = t.next /\ u.phase = "SEEK" /\ fences' = [fences EXCEPT ![p] = u]
      BY <1>4, <2>5, <3>1 DEF Retained!Tombs
    <3> QED BY <2>0, <2>5, <3>2
  <2> QED
    <3>1. \/ t.phase = "new" /\ fences' = [fences EXCEPT ![p].phase = "SEEK"] /\ Retained!Outdate(p, on)
             /\ locators' = locators
          \/ fences' = [fences EXCEPT ![p].cursor = FALSE] /\ t.phase = "SEEK" /\ Retained!Outdate(p, over)
             /\ locators' = locators
          \/ /\ t.phase = "SEEK" /\ Retained!Outdate(p, on) /\ locators' = locators
             /\ \E r \in locators[p], more \in BOOLEAN :
                  fences' = [fences EXCEPT ![p].phase = "DELETE", ![p].row = r, ![p].cursor = more]
          \/ /\ t.phase = "DELETE" /\ Retained!Outdate(p, on) /\ locators' = [locators EXCEPT ![p] = @ \ {t.row}]
             /\ \E phase \in {"RECOMPUTE", "SEEK"} : fences' = [fences EXCEPT ![p].phase = phase, ![p].row = None]
          \/ t.phase = "RECOMPUTE" /\ fences' = [fences EXCEPT ![p].phase = "SEEK"] /\ Retained!Outdate(p, on)
             /\ locators' = locators
      BY <1>3, Zenon DEF Retained!Sweep, on, over
    <3> QED BY <2>1, <2>2, <2>3, <2>4, <2>5, <3>1
<1>6. PICK jobs \in {on, over}, u \in Retained!Tombs :
        /\ fences' = [fences EXCEPT ![p] = u] /\ u.next = t.next
        /\ Retained!Clean(p) => u.phase = "SEEK"
        /\ Retained!Outdate(p, jobs)
        /\ locators' = locators \/ \E r : locators' = [locators EXCEPT ![p] = @ \ {r}]
  BY <1>5
<1>7. DOMAIN jobs = Drivers /\ jobs[w] \in {k, None} /\ \A v \in Drivers : v # w => jobs[v] = attempts[v]
  BY <1>1
<1>8. /\ k \in [at : {"attempt", "sweep"}, revision : Nat, minimum : 1 .. Last,
                last : 1 .. Last, selected : 1 .. Last \cup {None}, steps : Nat, same : BOOLEAN]
      /\ k.last = j.last /\ k.minimum = j.minimum /\ k.selected = j.selected
  BY <1>0, <1>1
<1> HIDE DEF on, over, k
<1>9. RetainedRows' /\ Onward
  <2>1. u.next # None => u.next <= p
    BY <1>1, <1>4, <1>6 DEF RetainedRows
  <2>2. u.next = None => Retained!Cursor(p) = None
    BY <1>6 DEF Retained!Cursor
  <2> HIDE DEF t, j
  <2> QED BY <1>1, <1>4, <1>5, <1>6, <2>1, <2>2, RetainedFences
<1>10. \A q \in 1 .. Last : q # p => fences'[q] = fences[q]
  BY <1>1, <1>6 DEF RetainedRows
<1>11. Heard(jobs)
  BY <1>6, <1>7, <1>9, <1>10, RetainedTold
<1>12. ASSUME NEW q \in 1 .. Last PROVE Retained!Cursor(q)' = Retained!Cursor(q)
  <2>1. CASE q = p
    <3>1. fences'[q] = u /\ u # None
      BY <1>1, <1>6, <2>1 DEF RetainedRows, Retained!RetainedAssumption
    <3> QED BY <1>4, <1>6, <2>1, <3>1 DEF Retained!Cursor
  <2>2. CASE q # p
    BY <1>10, <2>2 DEF Retained!Cursor
  <2> QED BY <2>1, <2>2
<1>13. RetainedTurns'
  BY <1>1, <1>5, <1>12, RetainedTurnsStay
<1>14. ASSUME attempts'[w] # None PROVE Retained!JobInv(attempts[w])'
  <2>1. jobs[w] = k
    BY <1>7, <1>11, <1>14 DEF Heard
  <2>2. attempts'[w] = k \/ attempts'[w] = [k EXCEPT !.same = FALSE]
    BY <1>11, <1>14, <2>1 DEF Heard
  <2> QED BY <1>0, <1>1, <1>8, <1>9, <2>2, RetainedGoesOn
<1> QED BY <1>7, <1>9, <1>11, <1>13, <1>14, RetainedStep

\* The recovery worker reschedules.
LEMMA RetainedReschedules ==
  ASSUME Retained!RetainedAssumption, Retained!IInv, Retained!Reschedule
  PROVE  Retained!IInv'
<1>1. RetainedRows /\ RetainedTurns /\ DOMAIN attempts = Drivers /\ revision \in Nat
  BY RetainedParts DEF RetainedRows, RetainedJobs
<1>2. revision' = revision + 1
      /\ UNCHANGED <<periods, first, deletions, locators, fences, attempts, view, reported, skipped>>
  BY DEF Retained!Reschedule
<1>3. RetainedRows' /\ Onward
  BY <1>1, <1>2, RetainedStays
<1>4. RetainedTurns'
  BY <1>1, <1>2, RetainedTurnsStay DEF Retained!Cursor
<1>5. Heard(attempts)
  BY <1>1, <1>2, <1>3, RetainedUntold
<1> QED BY <1>3, <1>4, <1>5, RetainedAround

\* The receipt, over the proof of the whole range.
LEMMA RetainedCompletes ==
  ASSUME Retained!RetainedAssumption, Retained!IInv, Retained!Complete
  PROVE  Retained!IInv'
<1>1. RetainedRows /\ RetainedTurns /\ DOMAIN attempts = Drivers /\ Last \in Nat
  BY RetainedParts DEF RetainedJobs, Retained!RetainedAssumption
<1>2. /\ deletions' = "COMPLETE"
      /\ UNCHANGED <<periods, first, revision, locators, fences, attempts, view, reported, skipped>>
      /\ \A p \in Retained!Kept : Retained!Idle(p) /\ locators[p] = {}
  BY DEF Retained!Complete
<1>3. ASSUME NEW p \in 1 .. Last PROVE Retained!Clean(p)
  <2>1. CASE p \in Retained!Kept
    BY <1>2, <2>1 DEF Retained!Idle, Retained!Clean
  <2>2. CASE p \notin Retained!Kept
    <3>1. periods[p] = "SEALED"
      BY <1>1, <2>2 DEF Retained!Kept, RetainedRows
    <3> QED BY <3>1 DEF Retained!Clean
  <2> QED BY <2>1, <2>2
<1>4. \A p : (Retained!Clean(p)' <=> Retained!Clean(p)) /\ Retained!Cursor(p)' = Retained!Cursor(p)
  BY <1>2 DEF Retained!Clean, Retained!Cursor
<1>5. Retained!EmptyForGood'
  BY <1>1, <1>2, <1>3, <1>4 DEF RetainedRows, Retained!EmptyForGood, Retained!Periods
<1>6. RetainedRows' /\ Onward
  BY <1>1, <1>2, <1>4, <1>5 DEF RetainedRows, Onward
<1>7. RetainedTurns'
  BY <1>1, <1>2, <1>4, RetainedTurnsStay
<1>8. Heard(attempts)
  BY <1>1, <1>2, <1>6, RetainedUntold
<1> QED BY <1>6, <1>7, <1>8, RetainedAround

\* A period is drained.
LEMMA RetainedDrains ==
  ASSUME Retained!RetainedAssumption, Retained!IInv, NEW p \in 1 .. Last, Retained!BeginDrain(p)
  PROVE  Retained!IInv'
<1>1. RetainedRows /\ RetainedTurns /\ DOMAIN attempts = Drivers
  BY RetainedParts DEF RetainedJobs
<1>2. /\ periods[p] = "OPEN" /\ periods' = [periods EXCEPT ![p] = "DRAINING"]
      /\ UNCHANGED <<first, deletions, revision, locators, fences, attempts, view, reported, skipped>>
  BY DEF Retained!BeginDrain
<1>3. /\ periods' \in [1 .. Last -> {"OPEN", "DRAINING", "SEALED"}]
      /\ \A q \in 1 .. Last : periods'[q] = "SEALED" <=> periods[q] = "SEALED"
      /\ \A q \in 1 .. Last : periods'[q] = "OPEN" => periods[q] = "OPEN"
  BY <1>1, <1>2 DEF RetainedRows
<1>4. \A q \in 1 .. Last : (Retained!Clean(q)' <=> Retained!Clean(q)) /\ Retained!Cursor(q)' = Retained!Cursor(q)
  BY <1>2, <1>3 DEF Retained!Clean, Retained!Cursor
<1>5. Retained!EmptyForGood'
  BY <1>1, <1>2, <1>3, <1>4 DEF RetainedRows, Retained!EmptyForGood, Retained!Periods
<1>6. \A q \in 1 .. first - 1 : periods'[q] = "SEALED"
  <2>1. \A q \in 1 .. first - 1 : q \in 1 .. Last /\ periods[q] = "SEALED"
    BY <1>1 DEF RetainedRows, Retained!RetainedAssumption
  <2> QED BY <1>3, <2>1
<1>7. RetainedRows' /\ Onward
  BY <1>1, <1>2, <1>3, <1>4, <1>5, <1>6 DEF RetainedRows, Onward
<1>8. RetainedTurns'
  BY <1>1, <1>2, <1>3, <1>4, RetainedTurnsStay
<1>9. Heard(attempts)
  BY <1>1, <1>2, <1>7, RetainedUntold
<1> QED BY <1>7, <1>8, <1>9, RetainedAround

\* How much p may have missed, whatever the turn is: less than a round of its range.
LEMMA RetainedRound ==
  ASSUME Retained!RetainedAssumption, RetainedRows, NEW a \in first .. Last, NEW p \in first .. a
  PROVE  /\ Retained!Missed(a, p) - (Last - a) * Last \in 0 .. a - 1
         /\ Retained!Missed(a, p) \in Nat /\ (Last - a) * Last \in Nat
<1>1. Last \in Nat /\ first \in 1 .. a /\ a \in 1 .. Last /\ p \in 1 .. a
  BY DEF Retained!RetainedAssumption, RetainedRows
<1> DEFINE s == Retained!Turn(first, a)
           d == (Last - a) * Last
           tail == IF s > p THEN s - p - 1 ELSE s - 1 + a - p
<1>2. s \in first .. a
  BY <1>1, RetainedCursor
<1>3. Retained!Missed(a, p) = d + tail
  BY DEF Retained!Missed
<1>4. d \in Nat
  BY <1>1
<1> HIDE DEF s, d
<1>5. tail \in 0 .. a - 1
  BY <1>1, <1>2
<1> HIDE DEF tail
<1>6. Retained!Missed(a, p) - d \in 0 .. a - 1 /\ Retained!Missed(a, p) \in Nat
  BY <1>1, <1>3, <1>4, <1>5
<1> QED BY <1>4, <1>6 DEF d

\* The first period is retired, when it is sealed.
LEMMA RetainedRetires ==
  ASSUME Retained!RetainedAssumption, Retained!IInv, Retained!Retire
  PROVE  Retained!IInv'
<1>1. RetainedRows /\ RetainedTurns /\ DOMAIN attempts = Drivers /\ Last \in Nat /\ None \notin Nat
  BY RetainedParts DEF RetainedJobs, Retained!RetainedAssumption
<1>2. /\ first \in 1 .. Last /\ periods[first] = "SEALED" /\ first' = first + 1
      /\ UNCHANGED <<periods, deletions, revision, locators, fences, attempts, view, reported, skipped>>
  BY <1>1 DEF Retained!Retire, RetainedRows
<1>3. \A q : (Retained!Clean(q)' <=> Retained!Clean(q)) /\ Retained!Cursor(q)' = Retained!Cursor(q)
  BY <1>2 DEF Retained!Clean, Retained!Cursor
<1>4. Retained!EmptyForGood'
  BY <1>1, <1>2, <1>3 DEF RetainedRows, Retained!EmptyForGood
<1>5. \A q \in 1 .. first' - 1 : periods'[q] = "SEALED"
  BY <1>1, <1>2 DEF RetainedRows
<1>6. RetainedRows' /\ Onward
  BY <1>1, <1>2, <1>3, <1>4, <1>5 DEF RetainedRows, Onward
<1>7. Retained!Kept' = Retained!Kept /\ Retained!Kept \subseteq first + 1 .. Last
  BY <1>1, <1>2 DEF Retained!Kept
<1>8. ASSUME NEW a \in Retained!Kept', \A p \in a + 1 .. Last : periods'[p] = "SEALED", NEW p \in Retained!Kept'
      PROVE  skipped'[p] <= Retained!Missed(a, p)'
  <2>1. a \in first + 1 .. Last /\ p \in first + 1 .. Last /\ a \in Retained!Kept /\ p \in Retained!Kept
    BY <1>7
  <2>2. skipped[p] <= Retained!Missed(a, p)
    BY <1>1, <1>2, <1>8, <2>1 DEF RetainedTurns, Retained!Fair
  <2>3. p <= a
    BY <1>1, <1>2, <1>8, <2>1 DEF Retained!Kept
  <2> DEFINE s == Retained!Turn(first, a)
             n == Retained!Turn(first + 1, a)
             d == (Last - a) * Last
             tail == IF s > p THEN s - p - 1 ELSE s - 1 + a - p
             tail2 == IF n > p THEN n - p - 1 ELSE n - 1 + a - p
  <2>4. Retained!Turn(first, a)' = n
    BY <1>2, <1>3 DEF Retained!Turn
  <2>5. Retained!Missed(a, p)' = d + tail2
    BY <1>2, <2>4 DEF Retained!Missed
  <2>6. Retained!Missed(a, p) = d + tail /\ d \in Nat /\ skipped[p] \in Nat
    BY <1>1, <1>2, <2>1 DEF Retained!Missed, RetainedTurns
  <2>7. s \in first .. a /\ n \in first + 1 .. a
    BY <1>1, <1>2, <2>1, RetainedCursor
  <2>8. n = s \/ (s = first /\ n = first + 1)
    <3>1. Retained!Cursor(a) # None => Retained!Cursor(a) \in 1 .. a
      BY <1>1, <1>2, <2>1, RetainedCursor
    <3> QED BY <1>2, <2>1, <3>1 DEF Retained!Turn
  <2> HIDE DEF s, n, d
  <2>9. tail <= tail2 /\ tail \in Int /\ tail2 \in Int
    BY <1>2, <2>1, <2>3, <2>7, <2>8
  <2> HIDE DEF tail, tail2
  <2>10. skipped'[p] = skipped[p]
    BY <1>2
  <2> QED BY <2>2, <2>5, <2>6, <2>9, <2>10
<1>9. RetainedTurns'
  <2>1. Retained!Fair'
    BY <1>8 DEF Retained!Fair
  <2> QED BY <1>1, <1>2, <2>1 DEF RetainedTurns
<1>10. Heard(attempts)
  BY <1>1, <1>2, <1>6, RetainedUntold
<1> QED BY <1>6, <1>9, <1>10, RetainedAround

\* A period is sealed, and nothing is left of it.
LEMMA RetainedSeals ==
  ASSUME Retained!RetainedAssumption, Retained!IInv, NEW p \in 1 .. Last, Retained!Seal(p)
  PROVE  Retained!IInv'
<1>1. RetainedRows /\ RetainedTurns /\ DOMAIN attempts = Drivers /\ Last \in Nat /\ None \notin Nat
  BY RetainedParts DEF RetainedJobs, Retained!RetainedAssumption
<1>2. /\ periods[p] = "DRAINING" /\ periods' = [periods EXCEPT ![p] = "SEALED"]
      /\ locators' = [locators EXCEPT ![p] = {}] /\ fences' = [fences EXCEPT ![p] = None]
      /\ Retained!Outdate(p, attempts)
      /\ UNCHANGED <<first, deletions, revision, reported, skipped>>
  BY DEF Retained!Seal
<1>3. /\ periods' \in [1 .. Last -> {"OPEN", "DRAINING", "SEALED"}] /\ periods'[p] = "SEALED"
      /\ locators' \in [1 .. Last -> SUBSET (1 .. PerPeriod)] /\ locators'[p] = {}
      /\ fences' \in [1 .. Last -> Retained!Tombs \cup {None}] /\ fences'[p] = None
      /\ \A q \in 1 .. Last : q # p => periods'[q] = periods[q] /\ locators'[q] = locators[q] /\ fences'[q] = fences[q]
  BY <1>1, <1>2 DEF RetainedRows
<1>4. ASSUME NEW q \in 1 .. Last
      PROVE  /\ Retained!Clean(q) => Retained!Clean(q)'
             /\ q # p => Retained!Cursor(q)' = Retained!Cursor(q)
  <2>1. CASE q = p
    BY <1>3, <2>1 DEF Retained!Clean
  <2>2. CASE q # p
    BY <1>3, <2>2 DEF Retained!Clean, Retained!Cursor
  <2> QED BY <2>1, <2>2
<1>5. Retained!EmptyForGood'
  <2>1. ASSUME deletions' = "COMPLETE" \/ reported', NEW q \in 1 .. Last PROVE Retained!Clean(q)'
    BY <1>1, <1>2, <1>4, <2>1 DEF RetainedRows, Retained!EmptyForGood, Retained!Periods
  <2>2. ASSUME NEW q \in 1 .. Last, periods'[q] = "SEALED" PROVE fences'[q] = None
    BY <1>1, <1>3, <2>2 DEF RetainedRows, Retained!EmptyForGood, Retained!Periods
  <2> QED BY <2>1, <2>2 DEF Retained!EmptyForGood, Retained!Periods
<1>6. RetainedRows'
  <2>1. \A q \in 1 .. Last : fences'[q] # None /\ fences'[q].next # None => fences'[q].next <= q
    BY <1>1, <1>3 DEF RetainedRows
  <2>2. \A q \in 1 .. first - 1 : periods'[q] = "SEALED"
    <3>1. \A q \in 1 .. first - 1 : q \in 1 .. Last /\ periods[q] = "SEALED"
      BY <1>1 DEF RetainedRows
    <3> QED BY <1>3, <3>1
  <2> QED BY <1>1, <1>2, <1>3, <1>5, <2>1, <2>2 DEF RetainedRows
<1>7. Onward
  <2>1. ASSUME NEW q \in 1 .. Last
        PROVE  /\ periods[q] = "SEALED" => periods'[q] = "SEALED"
               /\ periods'[q] = "OPEN" => periods[q] = "OPEN"
               /\ locators'[q] \subseteq locators[q]
               /\ periods'[q] = "OPEN" /\ Retained!Cursor(q)' = None => Retained!Cursor(q) = None
    <3>1. CASE q = p
      BY <1>3, <3>1
    <3>2. CASE q # p
      BY <1>3, <1>4, <3>2
    <3> QED BY <3>1, <3>2
  <2> QED BY <1>3, <1>4, <2>1 DEF Onward
<1>8. first \in 1 .. p
  BY <1>1, <1>2 DEF RetainedRows
<1>9. Retained!Kept' = Retained!Kept \ {p} /\ Retained!Kept \subseteq first .. Last /\ p \in Retained!Kept
  <2>1. p \in first .. Last /\ first \in Nat
    BY <1>1, <1>8
  <2>2. \A q \in first .. Last : q \in 1 .. Last
    BY <1>1, <1>8
  <2> QED BY <1>2, <1>3, <2>1, <2>2 DEF Retained!Kept
<1>10. ASSUME NEW a \in Retained!Kept', \A q \in a + 1 .. Last : periods'[q] = "SEALED", NEW r \in Retained!Kept'
       PROVE  skipped'[r] <= Retained!Missed(a, r)'
  <2>1. a \in first .. Last /\ r \in first .. Last /\ a # p /\ r # p /\ a \in Retained!Kept /\ r \in Retained!Kept
    BY <1>9
  <2>2. r <= a
    BY <1>1, <1>3, <1>8, <1>10, <2>1 DEF Retained!Kept
  <2>3. skipped'[r] = skipped[r] /\ skipped[r] \in Nat
    BY <1>1, <1>2, <1>8, <2>1 DEF RetainedTurns
  <2>4. Retained!Missed(a, r)' = Retained!Missed(a, r)
    <3>1. Retained!Cursor(a)' = Retained!Cursor(a)
      BY <1>4, <1>8, <2>1
    <3> QED BY <1>2, <3>1 DEF Retained!Missed, Retained!Turn
  <2>5. CASE p < a
    <3>1. \A q \in a + 1 .. Last : periods[q] = "SEALED"
      BY <1>1, <1>3, <1>8, <1>10, <2>1, <2>5
    <3>2. skipped[r] <= Retained!Missed(a, r)
      BY <1>1, <2>1, <3>1 DEF RetainedTurns, Retained!Fair
    <3> QED BY <2>3, <2>4, <3>2
  <2>6. CASE a < p
    <3>1. \A q \in p + 1 .. Last : periods[q] = "SEALED"
      <4> SUFFICES ASSUME NEW q \in p + 1 .. Last PROVE periods[q] = "SEALED"
        OBVIOUS
      <4>1. q \in a + 1 .. Last /\ q \in 1 .. Last /\ q # p
        BY <1>1, <1>8, <2>1, <2>6
      <4> QED BY <1>3, <1>10, <4>1
    <3>2. skipped[r] <= Retained!Missed(p, r)
      BY <1>1, <1>9, <2>1, <3>1 DEF RetainedTurns, Retained!Fair
    <3> DEFINE d == (Last - a) * Last
               e == (Last - p) * Last
    <3>3. /\ Retained!Missed(a, r) - d \in 0 .. a - 1 /\ Retained!Missed(a, r) \in Nat /\ d \in Nat
      <4>1. a \in first .. Last /\ r \in first .. a
        BY <1>1, <1>8, <2>1, <2>2
      <4> QED BY <1>1, <4>1, RetainedRound
    <3>4. /\ Retained!Missed(p, r) - e \in 0 .. p - 1 /\ Retained!Missed(p, r) \in Nat /\ e \in Nat
      <4>1. p \in first .. Last /\ r \in first .. p
        BY <1>1, <1>8, <2>1, <2>2, <2>6
      <4> QED BY <1>1, <4>1, RetainedRound
    <3>5. e + Last <= d
      <4>1. (Last - p) * Last + Last = (Last - p + 1) * Last
        BY <1>1
      <4>2. Last - p + 1 \in Nat /\ Last - a \in Nat /\ Last - p + 1 <= Last - a
        BY <1>1, <1>8, <2>1, <2>6
      <4>3. (Last - p + 1) * Last <= (Last - a) * Last
        BY <1>1, <4>2
      <4> QED BY <4>1, <4>3
    <3> HIDE DEF d, e
    <3>6. Retained!Missed(p, r) <= Retained!Missed(a, r)
      BY <1>1, <3>3, <3>4, <3>5
    <3> QED BY <2>3, <2>4, <3>2, <3>3, <3>4, <3>6
  <2> QED BY <1>8, <2>1, <2>5, <2>6
<1>11. RetainedTurns'
  <2>1. Retained!Fair'
    BY <1>10 DEF Retained!Fair
  <2> QED BY <1>1, <1>2, <2>1 DEF RetainedTurns
<1>12. Heard(attempts)
  BY <1>1, <1>2, <1>3, <1>7, RetainedTold
<1> QED BY <1>6, <1>11, <1>12, RetainedAround

\* A step of the report alone.
LEMMA RetainedReport ==
  ASSUME Retained!RetainedAssumption, Retained!IInv, RetainedRows', view' # None => Retained!ViewInv',
         UNCHANGED <<periods, first, deletions, revision, locators, fences, attempts, skipped>>
  PROVE  Retained!IInv'
<1>1. RetainedRows /\ RetainedJobs /\ RetainedTurns
  BY RetainedParts
<1>2. \A p : (Retained!Clean(p)' <=> Retained!Clean(p)) /\ Retained!Cursor(p)' = Retained!Cursor(p)
  BY DEF Retained!Clean, Retained!Cursor
<1>3. Onward
  BY <1>1, <1>2 DEF RetainedRows, Onward
<1>4. RetainedTurns'
  BY <1>1, <1>2, RetainedTurnsStay
<1>5. RetainedJobs'
  BY <1>1, <1>3, RetainedOthers DEF RetainedJobs
<1> QED BY <1>4, <1>5, RetainedPartsNext

\* What was read goes on to be so, and the report comes to its next period or to its second pass.
LEMMA RetainedGoesOnToRead ==
  ASSUME Retained!RetainedAssumption, view \in [at : {"fence", "rows"}, minimum : 1 .. Last, p : 1 .. Last,
                                                read : SUBSET (1 .. Last), same : SUBSET (1 .. Last)],
         view.minimum <= view.p, \A p \in view.same : fences[p] # None /\ fences[p].phase = "SEEK",
         \A p \in view.minimum .. view.p : Retained!Seen(p), \A p \in view.read : p <= view.p,
         view' = Retained!On, UNCHANGED <<periods, first, deletions, locators, fences>>
  PROVE  Retained!ViewInv'
<1>1. Last \in Nat
  BY DEF Retained!RetainedAssumption
<1>2. CASE view.p = Last
  <2>1. /\ view' \in [at : {"fence", "rows", "again"}, minimum : 1 .. Last, p : 1 .. Last, read : SUBSET (1 .. Last),
                      same : SUBSET (1 .. Last)]
        /\ view'.at = "again" /\ view'.p = view.minimum /\ view'.minimum = view.minimum /\ view'.read = view.read
        /\ view'.same = view.same
    BY <1>2 DEF Retained!On
  <2>2. \A p \in view.minimum .. Last : Retained!Seen(p)'
    BY <1>2, <2>1 DEF Retained!Seen
  <2>3. \A p \in view'.minimum .. view'.p - 1 : FALSE
    BY <2>1
  <2>4. view'.minimum <= view'.p /\ \A p \in view'.same : fences'[p] # None /\ fences'[p].phase = "SEEK"
    BY <2>1
  <2> QED BY <2>1, <2>2, <2>3, <2>4 DEF Retained!ViewInv, Retained!Periods
<1>3. CASE view.p # Last
  <2>1. /\ view' \in [at : {"fence", "rows", "again"}, minimum : 1 .. Last, p : 1 .. Last, read : SUBSET (1 .. Last),
                      same : SUBSET (1 .. Last)]
        /\ view'.at = "fence" /\ view'.p = view.p + 1 /\ view'.minimum = view.minimum /\ view'.read = view.read
        /\ view'.same = view.same
    <3>1. PICK n : n = view.p + 1
      OBVIOUS
    <3>2. view' = [view EXCEPT !.at = "fence", !.p = n]
      BY <1>3, <3>1 DEF Retained!On
    <3>3. n \in 1 .. Last
      BY <1>1, <1>3, <3>1
    <3>4. view' \in [at : {"fence", "rows", "again"}, minimum : 1 .. Last, p : 1 .. Last, read : SUBSET (1 .. Last),
                     same : SUBSET (1 .. Last)]
      BY <3>2, <3>3
    <3> QED BY <3>1, <3>2, <3>4
  <2>2. \A p \in view'.minimum .. view'.p - 1 : Retained!Seen(p)'
    BY <2>1 DEF Retained!Seen
  <2>3. \A p \in view'.read : p < view'.p
    BY <2>1
  <2>4. view'.minimum <= view'.p /\ \A p \in view'.same : fences'[p] # None /\ fences'[p].phase = "SEEK"
    BY <2>1
  <2> QED BY <2>1, <2>2, <2>3, <2>4 DEF Retained!ViewInv, Retained!Periods
<1> QED BY <1>2, <1>3

\* What the report knows.
LEMMA RetainedViewed ==
  ASSUME Retained!RetainedAssumption, Retained!IInv, view # None
  PROVE  /\ RetainedRows /\ Last \in Nat /\ None \notin Nat
         /\ view \in [at : {"fence", "rows", "again"}, minimum : 1 .. Last, p : 1 .. Last, read : SUBSET (1 .. Last),
                      same : SUBSET (1 .. Last)]
         /\ view.minimum <= view.p
         /\ \A p \in view.same : fences[p] # None /\ fences[p].phase = "SEEK"
         /\ view.at # "again" => \A p \in view.minimum .. view.p - 1 : Retained!Seen(p)
         /\ view.at = "rows" => view.p \in view.read /\ \A p \in view.read : p <= view.p
         /\ view.at = "fence" => \A p \in view.read : p < view.p
         /\ view.at = "again" => /\ \A p \in view.minimum .. Last : Retained!Seen(p)
                                 /\ \A p \in view.minimum .. view.p - 1 : Retained!Clean(p)
BY RetainedParts DEF Retained!RetainedAssumption, Retained!ViewInv, Retained!Periods

\* It begins, or ends without a result.
LEMMA RetainedLooks ==
  ASSUME Retained!RetainedAssumption, Retained!IInv, Retained!Look \/ Retained!Unverified
  PROVE  Retained!IInv'
<1>1. RetainedRows /\ Last \in Nat /\ first \in 1 .. Last + 1 /\ revision \in Nat
  BY RetainedParts DEF RetainedRows, Retained!RetainedAssumption
<1>2. UNCHANGED <<periods, first, deletions, revision, locators, fences, attempts, reported, skipped>>
  BY DEF Retained!Look, Retained!Unverified
<1>3. RetainedRows'
  BY <1>1, <1>2, RetainedStays
<1>4. CASE Retained!Look
  <2>1. view' = [at |-> "fence", minimum |-> first, p |-> first, read |-> {}, same |-> {}] /\ first \in 1 .. Last
    BY <1>1, <1>4 DEF Retained!Look
  <2>2. \A p \in first .. first - 1 : FALSE
    BY <1>1
  <2>3. Retained!ViewInv'
    BY <1>1, <2>1, <2>2 DEF Retained!ViewInv, Retained!Periods
  <2> QED BY <1>2, <1>3, <2>3, RetainedReport
<1>5. CASE Retained!Unverified
  <2>1. view' = None
    BY <1>5 DEF Retained!Unverified
  <2> QED BY <1>2, <1>3, <2>1, RetainedReport
<1> QED BY <1>4, <1>5

\* It reads a fence.
LEMMA RetainedSeesFence ==
  ASSUME Retained!RetainedAssumption, Retained!IInv, Retained!SeeFence
  PROVE  Retained!IInv'
<1>1. /\ view # None /\ view.at = "fence"
      /\ UNCHANGED <<periods, first, deletions, revision, locators, fences, attempts, reported, skipped>>
  BY DEF Retained!SeeFence, Retained!Viewing
<1>2. /\ RetainedRows /\ Last \in Nat /\ None \notin Nat
      /\ view \in [at : {"fence", "rows", "again"}, minimum : 1 .. Last, p : 1 .. Last, read : SUBSET (1 .. Last),
                   same : SUBSET (1 .. Last)]
      /\ view.minimum <= view.p
      /\ \A p \in view.same : fences[p] # None /\ fences[p].phase = "SEEK"
      /\ \A p \in view.minimum .. view.p - 1 : Retained!Seen(p)
      /\ \A p \in view.read : p < view.p
  BY <1>1, RetainedViewed
<1>3. RetainedRows'
  BY <1>1, <1>2, RetainedStays DEF RetainedRows
<1>4. CASE periods[view.p] = "SEALED" /\ view' = Retained!On
  <2>1. Retained!Seen(view.p)
    BY <1>2, <1>4 DEF Retained!Seen
  <2>2. \A p \in view.minimum .. view.p : Retained!Seen(p)
    <3>1. \A p \in view.minimum .. view.p : p = view.p \/ p \in view.minimum .. view.p - 1
      BY <1>2
    <3> QED BY <1>2, <2>1, <3>1
  <2>3. \A p \in view.read : p <= view.p
    BY <1>2
  <2>4. view \in [at : {"fence", "rows"}, minimum : 1 .. Last, p : 1 .. Last,
                  read : SUBSET (1 .. Last), same : SUBSET (1 .. Last)]
    BY <1>1, <1>2
  <2>5. Retained!ViewInv'
    BY <1>1, <1>2, <1>4, <2>2, <2>3, <2>4, RetainedGoesOnToRead
  <2> QED BY <1>1, <1>3, <2>5, RetainedReport
<1>5. CASE Retained!Idle(view.p) /\ view' = [view EXCEPT !.at = "rows", !.read = @ \cup {view.p}, !.same = @ \cup {view.p}]
  <2>1. /\ view' \in [at : {"fence", "rows", "again"}, minimum : 1 .. Last, p : 1 .. Last, read : SUBSET (1 .. Last),
                      same : SUBSET (1 .. Last)]
        /\ view'.at = "rows" /\ view'.minimum = view.minimum /\ view'.p = view.p
        /\ view'.read = view.read \cup {view.p} /\ view'.same = view.same \cup {view.p}
    BY <1>2, <1>5
  <2>2. \A p \in view'.same : fences'[p] # None /\ fences'[p].phase = "SEEK"
    BY <1>1, <1>2, <1>5, <2>1 DEF Retained!Idle
  <2>3. \A p \in view'.minimum .. view'.p - 1 : Retained!Seen(p)'
    <3>1. ASSUME NEW p \in view.minimum .. view.p - 1 PROVE Retained!Seen(p)'
      <4>1. p # view.p
        BY <1>2
      <4>2. Retained!Seen(p)
        BY <1>2
      <4> QED BY <1>1, <2>1, <4>1, <4>2 DEF Retained!Seen
    <3> QED BY <2>1, <3>1
  <2>4. view'.p \in view'.read /\ \A p \in view'.read : p <= view'.p
    BY <1>2, <2>1
  <2>5. Retained!ViewInv'
    BY <1>2, <2>1, <2>2, <2>3, <2>4 DEF Retained!ViewInv, Retained!Periods
  <2> QED BY <1>1, <1>3, <2>5, RetainedReport
<1> QED BY <1>4, <1>5 DEF Retained!SeeFence

\* It reads the rows behind it.
LEMMA RetainedSeesRows ==
  ASSUME Retained!RetainedAssumption, Retained!IInv, Retained!SeeRows
  PROVE  Retained!IInv'
<1>1. /\ view # None /\ view.at = "rows" /\ locators[view.p] = {} /\ view' = Retained!On
      /\ UNCHANGED <<periods, first, deletions, revision, locators, fences, attempts, reported, skipped>>
  BY DEF Retained!SeeRows, Retained!Viewing
<1>2. /\ RetainedRows /\ Last \in Nat /\ None \notin Nat
      /\ view \in [at : {"fence", "rows", "again"}, minimum : 1 .. Last, p : 1 .. Last, read : SUBSET (1 .. Last),
                   same : SUBSET (1 .. Last)]
      /\ view.minimum <= view.p
      /\ \A p \in view.same : fences[p] # None /\ fences[p].phase = "SEEK"
      /\ \A p \in view.minimum .. view.p - 1 : Retained!Seen(p)
      /\ view.p \in view.read /\ \A p \in view.read : p <= view.p
  BY <1>1, RetainedViewed
<1>3. RetainedRows'
  BY <1>1, <1>2, RetainedStays DEF RetainedRows
<1>4. Retained!Seen(view.p)
  BY <1>1, <1>2 DEF Retained!Seen
<1>5. \A p \in view.minimum .. view.p : Retained!Seen(p)
  <2>1. \A p \in view.minimum .. view.p : p = view.p \/ p \in view.minimum .. view.p - 1
    BY <1>2
  <2> QED BY <1>2, <1>4, <2>1
<1>6. view \in [at : {"fence", "rows"}, minimum : 1 .. Last, p : 1 .. Last,
                read : SUBSET (1 .. Last), same : SUBSET (1 .. Last)]
  BY <1>1, <1>2
<1>7. Retained!ViewInv'
  BY <1>1, <1>2, <1>5, <1>6, RetainedGoesOnToRead
<1> QED BY <1>1, <1>3, <1>7, RetainedReport

\* It reads everything again, and reports.
LEMMA RetainedSeesAgain ==
  ASSUME Retained!RetainedAssumption, Retained!IInv, Retained!SeeAgain
  PROVE  Retained!IInv'
<1>1. /\ view # None /\ view.at = "again" /\ first = view.minimum
      /\ view.p \in view.read => view.p \in view.same
      /\ UNCHANGED <<periods, first, deletions, revision, locators, fences, attempts, skipped>>
  BY DEF Retained!SeeAgain, Retained!Viewing
<1>2. /\ RetainedRows /\ Last \in Nat /\ None \notin Nat
      /\ view \in [at : {"fence", "rows", "again"}, minimum : 1 .. Last, p : 1 .. Last, read : SUBSET (1 .. Last),
                   same : SUBSET (1 .. Last)]
      /\ view.minimum <= view.p
      /\ \A p \in view.same : fences[p] # None /\ fences[p].phase = "SEEK"
      /\ \A p \in view.minimum .. Last : Retained!Seen(p)
      /\ \A p \in view.minimum .. view.p - 1 : Retained!Clean(p)
  BY <1>1, RetainedViewed
<1>3. Retained!Clean(view.p)
  <2>1. Retained!Seen(view.p)
    BY <1>2
  <2> QED BY <1>1, <1>2, <2>1 DEF Retained!Seen, Retained!Clean
<1>4. \A p \in view.minimum .. view.p : Retained!Clean(p)
  <2>1. \A p \in view.minimum .. view.p : p = view.p \/ p \in view.minimum .. view.p - 1
    BY <1>2
  <2> QED BY <1>2, <1>3, <2>1
<1>5. \A p : (Retained!Clean(p)' <=> Retained!Clean(p)) /\ Retained!Cursor(p)' = Retained!Cursor(p)
  BY <1>1 DEF Retained!Clean, Retained!Cursor
<1>6. CASE view.p = Last /\ view' = None /\ reported' = TRUE
  <2>1. ASSUME NEW p \in 1 .. Last PROVE Retained!Clean(p)
    <3>1. CASE p < first
      <4>1. periods[p] = "SEALED"
        BY <1>2, <3>1 DEF RetainedRows
      <4> QED BY <4>1 DEF Retained!Clean
    <3>2. CASE first <= p
      BY <1>1, <1>2, <1>4, <1>6, <3>2
    <3> QED BY <1>1, <1>2, <3>1, <3>2
  <2>2. Retained!EmptyForGood'
    BY <1>1, <1>2, <1>5, <2>1 DEF RetainedRows, Retained!EmptyForGood, Retained!Periods
  <2>3. RetainedRows'
    BY <1>1, <1>2, <1>6, <2>2 DEF RetainedRows
  <2> QED BY <1>1, <1>6, <2>3, RetainedReport
<1>7. CASE view.p # Last /\ view' = [view EXCEPT !.p = @ + 1] /\ reported' = reported
  <2>1. PICK n : n = view.p + 1
    OBVIOUS
  <2>2. n \in 1 .. Last
    BY <1>2, <1>7, <2>1
  <2>3. /\ view' \in [at : {"fence", "rows", "again"}, minimum : 1 .. Last, p : 1 .. Last, read : SUBSET (1 .. Last),
                      same : SUBSET (1 .. Last)]
        /\ view'.at = "again" /\ view'.minimum = view.minimum /\ view'.p = n
        /\ view'.read = view.read /\ view'.same = view.same
    BY <1>1, <1>2, <1>7, <2>1, <2>2
  <2>4. \A p \in view'.minimum .. Last : Retained!Seen(p)'
    BY <1>1, <1>2, <2>3 DEF Retained!Seen
  <2>5. \A p \in view'.minimum .. view'.p - 1 : Retained!Clean(p)'
    BY <1>2, <1>4, <1>5, <2>1, <2>3
  <2>6. view'.minimum <= view'.p /\ \A p \in view'.same : fences'[p] # None /\ fences'[p].phase = "SEEK"
    BY <1>1, <1>2, <2>1, <2>3
  <2>7. Retained!ViewInv'
    BY <2>3, <2>4, <2>5, <2>6 DEF Retained!ViewInv, Retained!Periods
  <2>8. RetainedRows'
    BY <1>1, <1>2, <1>7, RetainedStays DEF RetainedRows
  <2> QED BY <1>1, <2>7, <2>8, RetainedReport
<1> QED BY <1>6, <1>7 DEF Retained!SeeAgain

\* All rows are there, at first, and it is the first period's turn.
LEMMA RetainedInits ==
  ASSUME Retained!RetainedAssumption, Retained!Init
  PROVE  Retained!IInv
<1>1. Last \in Nat \ {0} /\ None \notin Nat
  BY DEF Retained!RetainedAssumption
<1>2. /\ periods = [p \in 1 .. Last |-> "OPEN"] /\ first = 1 /\ deletions = "PENDING" /\ revision = 1
      /\ locators = [p \in 1 .. Last |-> 1 .. PerPeriod] /\ fences = [p \in 1 .. Last |-> None]
      /\ attempts = [w \in Drivers |-> None] /\ view = None /\ reported = FALSE /\ skipped = [p \in 1 .. Last |-> 0]
  BY DEF Retained!Init, Retained!Periods
<1>3. RetainedRows
  <2>1. periods \in [1 .. Last -> {"OPEN", "DRAINING", "SEALED"}] /\ first \in 1 .. Last + 1
        /\ locators \in [1 .. Last -> SUBSET (1 .. PerPeriod)] /\ fences \in [1 .. Last -> Retained!Tombs \cup {None}]
    BY <1>1, <1>2
  <2>2. \A p \in 1 .. Last : fences[p] = None /\ periods[p] # "SEALED"
    BY <1>2
  <2>3. Retained!EmptyForGood
    BY <1>2, <2>2 DEF Retained!EmptyForGood, Retained!Periods
  <2>4. \A p \in 1 .. first - 1 : FALSE
    BY <1>2
  <2>5. deletions \in {"PENDING", "COMPLETE"} /\ revision \in Nat /\ reported \in BOOLEAN
    BY <1>2
  <2> QED BY <2>1, <2>2, <2>3, <2>4, <2>5 DEF RetainedRows
<1>4. RetainedJobs
  BY <1>2 DEF RetainedJobs
<1>5. ASSUME NEW a \in Retained!Kept, \A p \in a + 1 .. Last : periods[p] = "SEALED", NEW p \in Retained!Kept
      PROVE  skipped[p] <= Retained!Missed(a, p)
  <2>1. a \in first .. Last /\ p \in first .. Last /\ skipped[p] = 0
    BY <1>1, <1>2 DEF Retained!Kept
  <2>2. p \in first .. a
    BY <1>1, <1>2, <1>5, <2>1
  <2>3. Retained!Missed(a, p) \in Nat
    BY <1>3, <2>1, <2>2, RetainedRound
  <2> QED BY <2>1, <2>3
<1>6. RetainedTurns
  BY <1>2, <1>5 DEF RetainedTurns, Retained!Fair
<1> QED BY <1>2, <1>3, <1>4, <1>6, RetainedParts

\* Every step keeps it.
LEMMA RetainedNext ==
  ASSUME Retained!RetainedAssumption, Retained!IInv, [Retained!Next]_(Retained!vars)
  PROVE  Retained!IInv'
<1>1. ASSUME NEW w \in Drivers,
             \/ Retained!Start(w) \/ Retained!Anchor(w) \/ Retained!Advance(w) \/ Retained!Attempt(w)
             \/ Retained!Sweep(w) \/ Retained!Leave(w)
      PROVE  Retained!IInv'
  BY <1>1, RetainedStarts, RetainedAnchors, RetainedAdvances, RetainedAttempts, RetainedSweeps, RetainedLeaves
<1>2. ASSUME NEW p \in Retained!Periods, Retained!BeginDrain(p) \/ Retained!Seal(p) PROVE Retained!IInv'
  BY <1>2, RetainedDrains, RetainedSeals DEF Retained!Periods
<1>3. CASE Retained!Reschedule \/ Retained!Complete \/ Retained!Retire
  BY <1>3, RetainedReschedules, RetainedCompletes, RetainedRetires
<1>4. CASE Retained!Look \/ Retained!SeeFence \/ Retained!SeeRows \/ Retained!SeeAgain \/ Retained!Unverified
  BY <1>4, RetainedLooks, RetainedSeesFence, RetainedSeesRows, RetainedSeesAgain
<1>5. CASE UNCHANGED Retained!vars
  <2>1. /\ RetainedRows /\ RetainedTurns /\ DOMAIN attempts = Drivers /\ revision \in Nat
        /\ UNCHANGED <<periods, first, deletions, revision, locators, fences, attempts, view, reported, skipped>>
    BY <1>5, RetainedParts DEF Retained!vars, RetainedRows, RetainedJobs
  <2>2. RetainedRows' /\ Onward
    BY <2>1, RetainedStays
  <2>3. RetainedTurns'
    BY <2>1, RetainedTurnsStay DEF Retained!Cursor
  <2>4. Heard(attempts)
    BY <2>1, <2>2, RetainedUntold
  <2> QED BY <2>2, <2>3, <2>4, RetainedAround
<1> QED BY <1>1, <1>2, <1>3, <1>4, <1>5 DEF Retained!Next

\* For any number of periods, rows, unusable keys and attempts that overlap, fail or die: once
\* there is a receipt or a report of emptiness every period stays empty, and no period waits
\* longer than the others of the range take to have a turn each, once more for every anchor
\* that was sealed meanwhile (retained_periods.execute, coverage_assessment.assess).
THEOREM RetainedSound ==
  ASSUME Retained!RetainedAssumption
  PROVE  Retained!Spec => [](Retained!TypeOK /\ Retained!EmptyForGood /\ Retained!TurnsAreFair)
<1>1. Retained!Init => Retained!IInv
  BY RetainedInits
<1>2. Retained!IInv /\ [Retained!Next]_(Retained!vars) => Retained!IInv'
  BY RetainedNext
<1>3. Retained!IInv => Retained!TurnsAreFair
  <2> SUFFICES ASSUME Retained!IInv, NEW p \in Retained!Kept
               PROVE  skipped[p] < Retained!Max(Retained!Kept) + (Last - Retained!Max(Retained!Kept)) * Last
    BY DEF Retained!TurnsAreFair
  <2> DEFINE a == Retained!Max(Retained!Kept)
             d == (Last - a) * Last
  <2>1. RetainedRows /\ RetainedTurns /\ Last \in Nat /\ Retained!Kept \subseteq 1 .. Last
    BY RetainedParts DEF Retained!RetainedAssumption, RetainedRows, Retained!Kept
  <2>2. a \in Retained!Kept /\ \A q \in Retained!Kept : q <= a
    BY <2>1, LastOf
  <2> HIDE DEF a
  <2>3. a \in first .. Last /\ p \in first .. a /\ first \in Nat
    BY <2>1, <2>2 DEF Retained!Kept, RetainedRows
  <2>4. \A q \in a + 1 .. Last : periods[q] = "SEALED"
    BY <2>1, <2>2, <2>3 DEF Retained!Kept
  <2>5. skipped[p] <= Retained!Missed(a, p) /\ skipped[p] \in Nat
    BY <2>1, <2>2, <2>4 DEF RetainedTurns, Retained!Fair
  <2>6. Retained!Missed(a, p) - d \in 0 .. a - 1 /\ Retained!Missed(a, p) \in Nat /\ d \in Nat
    BY <2>1, <2>3, RetainedRound
  <2> HIDE DEF d
  <2>7. skipped[p] < a + d
    BY <2>3, <2>5, <2>6
  <2> QED BY <2>7 DEF a, d
<1>4. Retained!IInv => Retained!TypeOK /\ Retained!EmptyForGood
  BY DEF Retained!IInv
<1> QED BY <1>1, <1>2, <1>3, <1>4, PTL DEF Retained!Spec

-----------------------------------------------------------------------------
(***************************************************************************)
(* PeriodWork, beside it: for any number of periods, rows and sweeps that  *)
(* overlap.                                                                *)
(*                                                                         *)
(* A pass is known by its number.  While a run's pass is the period's, all *)
(* the work there was when the pass began was come to by somebody, is at   *)
(* hand for this run, or comes after what is; and work that is added since *)
(* has a higher number than any the pass is about.                         *)
(***************************************************************************)

CONSTANTS PeriodRows, Groups, Sweeps, Limit, Attempts, Span, Recovery, MaxOrdinal, MaxPass, MaxTime

VARIABLES now, registry, control, target, work, lookup, key, prefix, sweep, job, tried, waiting

Periodic == INSTANCE PeriodWork WITH Targets <- PeriodRows

\* The module's counts are those of finite sets.
LEMMA PeriodicCount ==
  \A S : Periodic!Cardinality(S) = Cardinality(S) /\ (Periodic!IsFiniteSet(S) <=> IsFiniteSet(S))
BY DEF Periodic!Cardinality, Periodic!IsFiniteSet, Cardinality, IsFiniteSet

\* The settings.
LEMMA PeriodicSettings ==
  ASSUME Periodic!WorkAssumption
  PROVE  /\ Last \in Nat /\ Limit \in Nat /\ Attempts \in Nat /\ Recovery \in Nat /\ MaxOrdinal \in Nat
         /\ MaxPass \in Nat /\ MaxTime \in Nat /\ Span \in Nat /\ Span # 0
         /\ None \notin Nat /\ None \notin Periodic!WorkRows
BY DEF Periodic!WorkAssumption

\* How far a period has come, by the name of its state.
Rank(x) ==
  CASE x = "OPEN" -> 1 [] x = "CLOSING" -> 2 [] x = "DRAINING" -> 3 [] x = "SEALED" -> 4
    [] x = "INTENT" -> 5 [] x = "DISABLED" -> 6 [] x = "SCHEDULED" -> 7

\* The states of a period, in their order.
LEMMA PeriodicOrder ==
  /\ Periodic!Range(Periodic!Order) = {"OPEN", "CLOSING", "DRAINING", "SEALED", "INTENT", "DISABLED", "SCHEDULED"}
  /\ \A x \in Periodic!Range(Periodic!Order) : (CHOOSE i \in DOMAIN Periodic!Order : Periodic!Order[i] = x) = Rank(x)
<1> DEFINE Order == <<"OPEN", "CLOSING", "DRAINING", "SEALED", "INTENT", "DISABLED", "SCHEDULED">>
<1>1. Periodic!Order = Order
  BY DEF Periodic!Order
<1>2. DOMAIN Order = 1 .. 7
  OBVIOUS
<1>3. /\ Order[1] = "OPEN" /\ Order[2] = "CLOSING" /\ Order[3] = "DRAINING" /\ Order[4] = "SEALED"
      /\ Order[5] = "INTENT" /\ Order[6] = "DISABLED" /\ Order[7] = "SCHEDULED"
  OBVIOUS
<1> HIDE DEF Order
<1>4. Periodic!Range(Order) = {"OPEN", "CLOSING", "DRAINING", "SEALED", "INTENT", "DISABLED", "SCHEDULED"}
  <2>1. Periodic!Range(Order) = {Order[i] : i \in 1 .. 7}
    BY <1>2 DEF Periodic!Range
  <2>2. 1 .. 7 = {1, 2, 3, 4, 5, 6, 7}
    OBVIOUS
  <2> QED BY <1>3, <2>1, <2>2
<1>5. ASSUME NEW x \in {"OPEN", "CLOSING", "DRAINING", "SEALED", "INTENT", "DISABLED", "SCHEDULED"}
      PROVE  (CHOOSE i \in 1 .. 7 : Order[i] = x) = Rank(x)
  <2>1. Rank(x) \in 1 .. 7 /\ Order[Rank(x)] = x
    BY <1>3 DEF Rank
  <2>2. \A i \in 1 .. 7 : Order[i] = x => i = Rank(x)
    <3>1. 1 .. 7 = {1, 2, 3, 4, 5, 6, 7}
      OBVIOUS
    <3> QED BY <1>3, <3>1 DEF Rank
  <2> HIDE DEF Rank
  <2> QED BY <2>1, <2>2
<1> QED BY <1>1, <1>2, <1>4, <1>5

\* Where a state is in that order.
LEMMA RankOf ==
  /\ Rank("OPEN") = 1 /\ Rank("CLOSING") = 2 /\ Rank("DRAINING") = 3 /\ Rank("SEALED") = 4
  /\ Rank("INTENT") = 5 /\ Rank("DISABLED") = 6 /\ Rank("SCHEDULED") = 7
BY DEF Rank

\* The periods, their rows, work and keys.
PeriodicRows == Periodic!TypeOK /\ Periodic!RowsInv /\ Periodic!IndexExact /\ Periodic!RetiredSoundly

\* What the rows are made of.
PeriodicTyped ==
  /\ now \in 0 .. MaxTime /\ prefix \in 0 .. Last
  /\ registry \in [1 .. Last -> [state : {"OPEN", "CLOSING", "DRAINING", "SEALED", "INTENT", "DISABLED", "SCHEDULED"},
                                 sealNext : Nat \cup {None}]]
  /\ control \in [1 .. Last -> Periodic!Controls]
  /\ \A p \in 1 .. Last : control[p].cursor <= control[p].high /\ control[p].high < control[p].next
  /\ target \in [1 .. Last -> [PeriodRows -> Nat \cup {None}]]
  /\ work \in [1 .. Last -> [1 .. MaxOrdinal -> Periodic!WorkRows \cup {None}]]
  /\ lookup \in [1 .. Last -> [PeriodRows -> (1 .. MaxOrdinal) \cup {None}]]
  /\ key \in [1 .. Last -> {"Enabled", "Disabled", "PendingDeletion", "Gone"}]
  /\ tried \in [1 .. Last -> SUBSET Nat]

\* The work behind a period's cursor was come to.
CoveredOf(p) == \A o \in 1 .. MaxOrdinal : o <= control[p].cursor /\ work[p][o] # None => o \in tried[p]

\* Rows, work and lookups of a period agree.
IndexOf(p) ==
  /\ control[p].pending = Cardinality({o \in 1 .. MaxOrdinal : work[p][o] # None})
  /\ \A t \in PeriodRows :
       /\ target[p][t] = None <=> lookup[p][t] = None
       /\ target[p][t] # None => work[p][lookup[p][t]] = [target |-> t, deadline |-> target[p][t]]
  /\ \A o \in 1 .. MaxOrdinal : work[p][o] # None => o < control[p].next /\ lookup[p][work[p][o].target] = o

\* A period's key and its seal.
RetiredOf(p) ==
  /\ Rank(registry[p].state) >= 4 => (\A t \in PeriodRows : target[p][t] = None) /\ registry[p].sealNext = control[p].next
  /\ key[p] # "Enabled" => Rank(registry[p].state) >= 5
  /\ key[p] \in {"PendingDeletion", "Gone"} => Rank(registry[p].state) >= 6
  /\ registry[p].state = "SCHEDULED" => key[p] \in {"PendingDeletion", "Gone"}

\* The stage of a period.
LEMMA PeriodicStage ==
  ASSUME PeriodicTyped, NEW p \in 1 .. Last
  PROVE  Periodic!Stage(p) = Rank(registry[p].state)
BY PeriodicOrder DEF PeriodicTyped, Periodic!Stage

\* The parts of it, period by period.
LEMMA PeriodicParts ==
  PeriodicRows <=> /\ PeriodicTyped /\ \A p \in 1 .. Last : CoveredOf(p) /\ IndexOf(p) /\ RetiredOf(p)
                   /\ \A p \in 1 .. prefix : registry[p].state = "SCHEDULED"
<1>1. ASSUME PeriodicRows PROVE PeriodicTyped
  BY <1>1, PeriodicOrder
     DEF PeriodicRows, Periodic!TypeOK, Periodic!RowsInv, PeriodicTyped, Periodic!Periods, Periodic!Ordinals
<1>2. ASSUME PeriodicTyped PROVE Periodic!TypeOK
  BY <1>2, PeriodicOrder DEF Periodic!TypeOK, PeriodicTyped, Periodic!Periods
<1>3. ASSUME PeriodicTyped
      PROVE  Periodic!RowsInv <=> \A p \in 1 .. Last : CoveredOf(p)
  BY <1>3, PeriodicOrder DEF Periodic!RowsInv, PeriodicTyped, CoveredOf, Periodic!Periods, Periodic!Ordinals
<1>4. Periodic!IndexExact <=> \A p \in 1 .. Last : IndexOf(p)
  BY PeriodicCount DEF Periodic!IndexExact, IndexOf, Periodic!Periods, Periodic!Ordinals
<1>5. ASSUME PeriodicTyped
      PROVE  Periodic!RetiredSoundly <=> /\ \A p \in 1 .. Last : RetiredOf(p)
                                         /\ \A p \in 1 .. prefix : registry[p].state = "SCHEDULED"
  <2>1. \A p \in 1 .. Last : Periodic!Stage(p) = Rank(registry[p].state)
    BY <1>5, PeriodicStage
  <2> QED BY <2>1 DEF Periodic!RetiredSoundly, RetiredOf, Periodic!Periods, Periodic!Sealed
<1> QED BY <1>1, <1>2, <1>3, <1>4, <1>5 DEF PeriodicRows

\* The stage of a period after a step.
LEMMA PeriodicStageNext ==
  ASSUME PeriodicTyped', NEW p \in 1 .. Last
  PROVE  Periodic!Stage(p)' = Rank(registry'[p].state)
BY PeriodicOrder DEF PeriodicTyped, Periodic!Stage

\* Period by period.
PeriodicSplit ==
  /\ PeriodicTyped /\ \A p \in 1 .. Last : CoveredOf(p) /\ IndexOf(p) /\ RetiredOf(p)
  /\ \A p \in 1 .. prefix : registry[p].state = "SCHEDULED"

\* The parts of the rows, after a step.
LEMMA PeriodicPartsNext ==
  PeriodicRows' <=> /\ PeriodicTyped' /\ \A p \in 1 .. Last : CoveredOf(p)' /\ IndexOf(p)' /\ RetiredOf(p)'
                    /\ \A p \in 1 .. prefix' : registry'[p].state = "SCHEDULED"
<1>1. PeriodicRows <=> PeriodicSplit
  BY PeriodicParts DEF PeriodicSplit
<1>2. PeriodicRows' <=> PeriodicSplit'
  BY <1>1, PTL
<1> QED BY <1>2 DEF PeriodicSplit

\* A period goes on: a pass to another, or further in its pass; and it is not written to
\* once it drains.
OnwardOf(p) ==
  /\ Rank(registry[p].state) <= Rank(registry'[p].state)
  /\ Rank(registry[p].state) >= 3 => \A t \in PeriodRows : target'[p][t] # None => target'[p][t] = target[p][t]
  /\ \/ control[p].pass < control'[p].pass
     \/ /\ control'[p].pass = control[p].pass /\ control'[p].high = control[p].high
        /\ control[p].cursor <= control'[p].cursor /\ tried[p] \subseteq tried'[p]
        /\ \A o \in 1 .. MaxOrdinal : o <= control[p].high /\ work'[p][o] # None => work[p][o] # None

\* All of them do.
PeriodsOnward == \A p \in 1 .. Last : OnwardOf(p)

\* What is written of the periods, and what their passes have come to.
periodic == <<registry, control, target, work, lookup, key, tried>>

\* A period nothing is written of.
SamePeriod(p) ==
  /\ registry'[p] = registry[p] /\ control'[p] = control[p] /\ target'[p] = target[p] /\ work'[p] = work[p]
  /\ lookup'[p] = lookup[p] /\ key'[p] = key[p] /\ tried'[p] = tried[p]

\* It is as it was.
LEMMA SamePeriodStays ==
  ASSUME Periodic!WorkAssumption, PeriodicRows, NEW p \in 1 .. Last, SamePeriod(p)
  PROVE  CoveredOf(p)' /\ IndexOf(p)' /\ RetiredOf(p)' /\ OnwardOf(p)
<1>1. PeriodicTyped /\ CoveredOf(p) /\ IndexOf(p) /\ RetiredOf(p)
  BY PeriodicParts
<1>2. CoveredOf(p)'
  BY <1>1 DEF CoveredOf, SamePeriod
<1>3. IndexOf(p)'
  BY <1>1 DEF IndexOf, SamePeriod
<1>4. RetiredOf(p)'
  BY <1>1 DEF RetiredOf, SamePeriod
<1>5. OnwardOf(p)
  <2>1. control[p] \in Periodic!Controls /\ Rank(registry[p].state) \in 1 .. 7
    BY <1>1, RankOf DEF PeriodicTyped
  <2> QED BY <2>1 DEF OnwardOf, SamePeriod, Periodic!Controls
<1> QED BY <1>2, <1>3, <1>4, <1>5

\* A step that writes of one period.
LEMMA OnePeriod ==
  ASSUME Periodic!WorkAssumption, PeriodicRows, PeriodicTyped', prefix' = prefix, NEW p \in 1 .. Last,
         \A q \in (1 .. Last) \ {p} : SamePeriod(q),
         CoveredOf(p)', IndexOf(p)', RetiredOf(p)', OnwardOf(p),
         registry[p].state = "SCHEDULED" => registry'[p].state = "SCHEDULED"
  PROVE  PeriodicRows' /\ PeriodsOnward
<1>1. \A q \in 1 .. Last : CoveredOf(q)' /\ IndexOf(q)' /\ RetiredOf(q)' /\ OnwardOf(q)
  <2> TAKE q \in 1 .. Last
  <2>1. CASE q = p
    BY <2>1
  <2>2. CASE q # p
    BY <2>2, SamePeriodStays
  <2> QED BY <2>1, <2>2
<1>2. \A q \in 1 .. prefix' : registry'[q].state = "SCHEDULED"
  <2>1. \A q \in 1 .. prefix : registry[q].state = "SCHEDULED" /\ q \in 1 .. Last
    BY PeriodicParts, PeriodicSettings DEF PeriodicTyped
  <2> QED BY <2>1 DEF SamePeriod
<1> QED BY <1>1, <1>2, PeriodicPartsNext DEF PeriodsOnward

\* A step that writes of none.
LEMMA NoPeriod ==
  ASSUME Periodic!WorkAssumption, PeriodicRows, now' \in 0 .. MaxTime, prefix' = prefix, UNCHANGED periodic
  PROVE  PeriodicRows' /\ PeriodsOnward
<1>1. \A q \in 1 .. Last : SamePeriod(q)
  BY DEF SamePeriod, periodic
<1>2. \A q \in 1 .. Last : CoveredOf(q)' /\ IndexOf(q)' /\ RetiredOf(q)' /\ OnwardOf(q)
  BY <1>1, SamePeriodStays
<1>3. PeriodicTyped'
  BY PeriodicParts DEF PeriodicTyped, periodic
<1>4. \A q \in 1 .. prefix' : registry'[q].state = "SCHEDULED"
  BY PeriodicParts DEF periodic
<1> QED BY <1>2, <1>3, <1>4, PeriodicPartsNext DEF PeriodsOnward

\* The names of a period's states, and a registry row.
StateNames == {"OPEN", "CLOSING", "DRAINING", "SEALED", "INTENT", "DISABLED", "SCHEDULED"}

\* A registry row is written: the period goes on, and seals nothing but what is empty.
LEMMA RegistryStep ==
  ASSUME Periodic!WorkAssumption, PeriodicRows, NEW p \in 1 .. Last,
         NEW r \in [state : StateNames, sealNext : Nat \cup {None}],
         registry' = [registry EXCEPT ![p] = r], UNCHANGED <<now, control, target, work, lookup, key, prefix, tried>>,
         Rank(registry[p].state) <= Rank(r.state),
         Rank(r.state) >= 4 => (\A t \in PeriodRows : target[p][t] = None) /\ r.sealNext = control[p].next,
         r.state = "SCHEDULED" => key[p] \in {"PendingDeletion", "Gone"}
  PROVE  PeriodicRows' /\ PeriodsOnward
<1>1. PeriodicTyped /\ CoveredOf(p) /\ IndexOf(p) /\ RetiredOf(p)
  BY PeriodicParts
<1>2. registry'[p] = r /\ PeriodicTyped'
  BY <1>1 DEF PeriodicTyped, StateNames
<1>3. \A q \in (1 .. Last) \ {p} : SamePeriod(q)
  BY <1>1 DEF SamePeriod, PeriodicTyped
<1>4. CoveredOf(p)' /\ IndexOf(p)'
  BY <1>1 DEF CoveredOf, IndexOf
<1>5. Rank(registry[p].state) \in 1 .. 7 /\ Rank(r.state) \in 1 .. 7
  BY <1>1, RankOf DEF PeriodicTyped, StateNames
<1>6. RetiredOf(p)'
  BY <1>1, <1>2, <1>5 DEF RetiredOf
<1>7. OnwardOf(p)
  <2>1. control[p] \in Periodic!Controls
    BY <1>1 DEF PeriodicTyped
  <2> QED BY <1>2, <1>5, <2>1 DEF OnwardOf, Periodic!Controls
<1>8. registry[p].state = "SCHEDULED" => registry'[p].state = "SCHEDULED"
  <2>1. r.state \in StateNames
    OBVIOUS
  <2> QED BY <1>2, <2>1, RankOf DEF StateNames
<1> QED BY <1>2, <1>3, <1>4, <1>6, <1>7, <1>8, OnePeriod

\* A control is written with what its pass has come to: it begins a pass, or goes further.
LEMMA ControlStep ==
  ASSUME Periodic!WorkAssumption, PeriodicRows, NEW p \in 1 .. Last, NEW c \in Periodic!Controls, NEW T \in SUBSET Nat,
         control' = [control EXCEPT ![p] = c], tried' = [tried EXCEPT ![p] = T],
         UNCHANGED <<now, registry, target, work, lookup, key, prefix>>,
         c.next = control[p].next, c.pending = control[p].pending, c.cursor <= c.high, c.high < c.next,
         \/ control[p].pass < c.pass
         \/ c.pass = control[p].pass /\ c.high = control[p].high /\ control[p].cursor <= c.cursor /\ tried[p] \subseteq T,
         \A o \in 1 .. MaxOrdinal : o <= c.cursor /\ work[p][o] # None => o \in T
  PROVE  PeriodicRows' /\ PeriodsOnward
<1>1. PeriodicTyped /\ CoveredOf(p) /\ IndexOf(p) /\ RetiredOf(p)
  BY PeriodicParts
<1>2. control'[p] = c /\ tried'[p] = T
  BY <1>1 DEF PeriodicTyped
<1>3. \A q \in (1 .. Last) \ {p} : control'[q] = control[q] /\ tried'[q] = tried[q]
  BY <1>1 DEF PeriodicTyped
<1>4. PeriodicTyped'
  <2>1. \A q \in 1 .. Last : control'[q].cursor <= control'[q].high /\ control'[q].high < control'[q].next
    BY <1>1, <1>2, <1>3 DEF PeriodicTyped
  <2>2. control' \in [1 .. Last -> Periodic!Controls] /\ tried' \in [1 .. Last -> SUBSET Nat]
    BY <1>1 DEF PeriodicTyped
  <2> QED BY <1>1, <2>1, <2>2 DEF PeriodicTyped
<1>5. \A q \in (1 .. Last) \ {p} : SamePeriod(q)
  BY <1>3 DEF SamePeriod
<1>6. CoveredOf(p)'
  BY <1>2 DEF CoveredOf
<1>7. IndexOf(p)'
  BY <1>1, <1>2 DEF IndexOf
<1>8. RetiredOf(p)'
  BY <1>1, <1>2 DEF RetiredOf
<1>9. OnwardOf(p)
  <2>1. Rank(registry[p].state) \in 1 .. 7
    BY <1>1, RankOf DEF PeriodicTyped
  <2> QED BY <1>2, <2>1 DEF OnwardOf
<1> QED BY <1>4, <1>5, <1>6, <1>7, <1>8, <1>9, OnePeriod

\* A key is moved: not behind the registry's back.
LEMMA KeyStep ==
  ASSUME Periodic!WorkAssumption, PeriodicRows, NEW p \in 1 .. Last,
         NEW k \in {"Enabled", "Disabled", "PendingDeletion", "Gone"},
         key' = [key EXCEPT ![p] = k], UNCHANGED <<now, registry, control, target, work, lookup, prefix, tried>>,
         k # "Enabled" => Rank(registry[p].state) >= 5,
         k \in {"PendingDeletion", "Gone"} => Rank(registry[p].state) >= 6,
         key[p] \in {"PendingDeletion", "Gone"} => k \in {"PendingDeletion", "Gone"}
  PROVE  PeriodicRows' /\ PeriodsOnward
<1>1. PeriodicTyped /\ CoveredOf(p) /\ IndexOf(p) /\ RetiredOf(p)
  BY PeriodicParts
<1>2. key'[p] = k /\ PeriodicTyped'
  BY <1>1 DEF PeriodicTyped
<1>3. \A q \in (1 .. Last) \ {p} : SamePeriod(q)
  BY <1>1 DEF SamePeriod, PeriodicTyped
<1>4. CoveredOf(p)' /\ IndexOf(p)'
  BY <1>1 DEF CoveredOf, IndexOf
<1>5. RetiredOf(p)'
  BY <1>1, <1>2 DEF RetiredOf
<1>6. OnwardOf(p)
  <2>1. Rank(registry[p].state) \in 1 .. 7 /\ control[p] \in Periodic!Controls
    BY <1>1, RankOf DEF PeriodicTyped
  <2> QED BY <2>1 DEF OnwardOf, Periodic!Controls
<1> QED BY <1>2, <1>3, <1>4, <1>5, <1>6, OnePeriod

\* The retired prefix takes the next period.
LEMMA PrefixStep ==
  ASSUME Periodic!WorkAssumption, PeriodicRows, prefix + 1 \in 1 .. Last, registry[prefix + 1].state = "SCHEDULED",
         prefix' = prefix + 1, now' = now, UNCHANGED periodic
  PROVE  PeriodicRows' /\ PeriodsOnward
<1>1. \A q \in 1 .. Last : SamePeriod(q)
  BY DEF SamePeriod, periodic
<1>2. \A q \in 1 .. Last : CoveredOf(q)' /\ IndexOf(q)' /\ RetiredOf(q)' /\ OnwardOf(q)
  BY <1>1, SamePeriodStays
<1>3. PeriodicTyped /\ prefix \in Nat
  BY PeriodicParts DEF PeriodicTyped
<1>4. PeriodicTyped'
  BY <1>3, PeriodicSettings DEF PeriodicTyped, periodic
<1>5. \A q \in 1 .. prefix' : registry'[q].state = "SCHEDULED"
  <2>1. \A q \in 1 .. prefix' : q \in 1 .. prefix \/ q = prefix + 1
    BY <1>3
  <2> QED BY <2>1, PeriodicParts DEF periodic
<1> QED BY <1>2, <1>4, <1>5, PeriodicPartsNext DEF PeriodsOnward

-----------------------------------------------------------------------------

\* The rows of a period, with their work, are written: what its pass is about only gets less.
LEMMA RowsStepOf ==
  ASSUME Periodic!WorkAssumption, PeriodicRows, NEW p \in 1 .. Last, NEW c \in Periodic!Controls,
         NEW T \in [PeriodRows -> Nat \cup {None}], NEW W \in [1 .. MaxOrdinal -> Periodic!WorkRows \cup {None}],
         NEW L \in [PeriodRows -> (1 .. MaxOrdinal) \cup {None}],
         control' = [control EXCEPT ![p] = c], target' = [target EXCEPT ![p] = T], work' = [work EXCEPT ![p] = W],
         lookup' = [lookup EXCEPT ![p] = L], UNCHANGED <<now, registry, key, prefix, tried>>,
         c.pass = control[p].pass, c.high = control[p].high, c.cursor = control[p].cursor, control[p].next <= c.next,
         \A o \in 1 .. MaxOrdinal : o <= control[p].high /\ W[o] # None => work[p][o] # None,
         Rank(registry[p].state) >= 3 => \A t \in PeriodRows : T[t] # None => T[t] = target[p][t],
         Rank(registry[p].state) >= 4 => c.next = control[p].next,
         c.pending = Cardinality({o \in 1 .. MaxOrdinal : W[o] # None}),
         \A t \in PeriodRows : /\ T[t] = None <=> L[t] = None
                               /\ T[t] # None => W[L[t]] = [target |-> t, deadline |-> T[t]],
         \A o \in 1 .. MaxOrdinal : W[o] # None => o < c.next /\ L[W[o].target] = o
  PROVE  PeriodicRows' /\ PeriodsOnward
<1>1. PeriodicTyped /\ CoveredOf(p) /\ IndexOf(p) /\ RetiredOf(p)
  BY PeriodicParts
<1>2. control'[p] = c /\ target'[p] = T /\ work'[p] = W /\ lookup'[p] = L
  BY <1>1 DEF PeriodicTyped
<1>3. \A q \in (1 .. Last) \ {p} : SamePeriod(q)
  BY <1>1 DEF SamePeriod, PeriodicTyped
<1>4. control[p] \in Periodic!Controls /\ control[p].cursor <= control[p].high /\ control[p].high < control[p].next
  BY <1>1 DEF PeriodicTyped
<1>5. c.cursor <= c.high /\ c.high < c.next
  BY <1>4 DEF Periodic!Controls
<1>6. PeriodicTyped'
  <2>1. \A q \in 1 .. Last : control'[q].cursor <= control'[q].high /\ control'[q].high < control'[q].next
    BY <1>1, <1>2, <1>3, <1>5 DEF PeriodicTyped, SamePeriod
  <2>2. control' \in [1 .. Last -> Periodic!Controls] /\ target' \in [1 .. Last -> [PeriodRows -> Nat \cup {None}]]
    BY <1>1 DEF PeriodicTyped
  <2>3. work' \in [1 .. Last -> [1 .. MaxOrdinal -> Periodic!WorkRows \cup {None}]]
    BY <1>1 DEF PeriodicTyped
  <2>4. lookup' \in [1 .. Last -> [PeriodRows -> (1 .. MaxOrdinal) \cup {None}]]
    BY <1>1 DEF PeriodicTyped
  <2> QED BY <1>1, <2>1, <2>2, <2>3, <2>4 DEF PeriodicTyped
<1>7. CoveredOf(p)'
  <2> SUFFICES ASSUME NEW o \in 1 .. MaxOrdinal, o <= c.cursor, W[o] # None PROVE o \in tried[p]
    BY <1>2 DEF CoveredOf
  <2>1. o <= control[p].high
    BY <1>4 DEF Periodic!Controls
  <2> QED BY <1>1, <2>1 DEF CoveredOf
<1>8. IndexOf(p)'
  BY <1>2 DEF IndexOf
<1>9. Rank(registry[p].state) \in 1 .. 7
  BY <1>1, RankOf DEF PeriodicTyped
<1>10. RetiredOf(p)'
  <2>1. Rank(registry[p].state) >= 4 => (\A t \in PeriodRows : T[t] = None) /\ registry[p].sealNext = c.next
    BY <1>1, <1>9 DEF RetiredOf
  <2> QED BY <1>1, <1>2, <2>1 DEF RetiredOf
<1>11. OnwardOf(p)
  BY <1>2, <1>4, <1>9 DEF OnwardOf, Periodic!Controls
<1> QED BY <1>3, <1>6, <1>7, <1>8, <1>10, <1>11, OnePeriod

\* Finitely many ordinals have work.
LEMMA WorkFinite ==
  ASSUME Periodic!WorkAssumption, NEW W
  PROVE  IsFiniteSet({o \in 1 .. MaxOrdinal : W[o] # None})
<1>1. IsFiniteSet(1 .. MaxOrdinal)
  BY FS_Interval, PeriodicSettings
<1> QED BY <1>1, FS_Subset

\* A row is put: with new work, or with its own brought forward.
LEMMA PeriodicPut ==
  ASSUME Periodic!WorkAssumption, PeriodicRows, NEW p \in 1 .. Last, NEW t \in PeriodRows, NEW d \in 1 .. MaxTime,
         Periodic!Put(p, t, d)
  PROVE  PeriodicRows' /\ PeriodsOnward
<1>1. PeriodicTyped /\ CoveredOf(p) /\ IndexOf(p) /\ RetiredOf(p)
  BY PeriodicParts
<1>2. Rank(registry[p].state) <= 2 /\ Rank(registry[p].state) \in 1 .. 7
  BY <1>1, PeriodicStage, RankOf DEF Periodic!Put, Periodic!Admits, PeriodicTyped
<1>3. control[p] \in Periodic!Controls /\ control[p].high < control[p].next
  BY <1>1 DEF PeriodicTyped
<1>4. target[p] \in [PeriodRows -> Nat \cup {None}] /\ lookup[p] \in [PeriodRows -> (1 .. MaxOrdinal) \cup {None}]
  BY <1>1 DEF PeriodicTyped
<1>5. work[p] \in [1 .. MaxOrdinal -> Periodic!WorkRows \cup {None}]
  BY <1>1 DEF PeriodicTyped
<1>6. None \notin Nat /\ None \notin 1 .. MaxOrdinal /\ None \notin Periodic!WorkRows /\ d \in Nat /\ MaxOrdinal \in Nat
  BY PeriodicSettings
<1>7. UNCHANGED <<now, registry, key, prefix, tried>>
  BY DEF Periodic!Put
<1>8. PICK T : T = [target[p] EXCEPT ![t] = d]
  OBVIOUS
<1>9. target' = [target EXCEPT ![p] = T] /\ T \in [PeriodRows -> Nat \cup {None}]
  BY <1>4, <1>6, <1>8 DEF Periodic!Put
<1>10. T[t] = d /\ \A u \in PeriodRows \ {t} : T[u] = target[p][u]
  BY <1>4, <1>8
<1>11. CASE lookup[p][t] = None /\ control[p].next <= MaxOrdinal
            /\ work' = [work EXCEPT ![p][control[p].next] = [target |-> t, deadline |-> d]]
            /\ lookup' = [lookup EXCEPT ![p][t] = control[p].next]
            /\ control' = [control EXCEPT ![p].revision = @ + 1, ![p].next = @ + 1, ![p].pending = @ + 1]
  <2>1. PICK o : o = control[p].next
    OBVIOUS
  <2>2. o \in 1 .. MaxOrdinal /\ control[p].high < o
    BY <1>3, <1>6, <1>11, <2>1 DEF Periodic!Controls
  <2>3. PICK x : x = [target |-> t, deadline |-> d]
    OBVIOUS
  <2>4. x \in Periodic!WorkRows /\ x.target = t
    BY <1>6, <2>3 DEF Periodic!WorkRows
  <2>5. PICK W : W = [work[p] EXCEPT ![o] = x]
    OBVIOUS
  <2>6. work' = [work EXCEPT ![p] = W] /\ W \in [1 .. MaxOrdinal -> Periodic!WorkRows \cup {None}]
    BY <1>5, <1>11, <2>1, <2>2, <2>3, <2>4, <2>5
  <2>7. W[o] = x /\ \A q \in (1 .. MaxOrdinal) \ {o} : W[q] = work[p][q]
    BY <1>5, <2>2, <2>5
  <2>8. PICK L : L = [lookup[p] EXCEPT ![t] = o]
    OBVIOUS
  <2>9. lookup' = [lookup EXCEPT ![p] = L] /\ L \in [PeriodRows -> (1 .. MaxOrdinal) \cup {None}]
    BY <1>4, <1>11, <2>1, <2>2, <2>8
  <2>10. L[t] = o /\ \A u \in PeriodRows \ {t} : L[u] = lookup[p][u]
    BY <1>4, <2>8
  <2>11. PICK c : c = [control[p] EXCEPT !.revision = @ + 1, !.next = @ + 1, !.pending = @ + 1]
    OBVIOUS
  <2>12. control' = [control EXCEPT ![p] = c]
    BY <1>1, <1>11, <2>11 DEF PeriodicTyped
  <2>13. /\ c \in Periodic!Controls /\ c.pass = control[p].pass /\ c.high = control[p].high /\ c.cursor = control[p].cursor
         /\ c.next = o + 1 /\ c.pending = control[p].pending + 1
    <3>1. PICK r \in Nat, n \in Nat, m \in Nat : /\ r = control[p].revision + 1 /\ n = control[p].next + 1
                                                /\ m = control[p].pending + 1
      BY <1>3, <1>6 DEF Periodic!Controls
    <3>2. PICK y \in Periodic!Controls : y = control[p]
      BY <1>3
    <3>3. c = [y EXCEPT !.revision = r, !.next = n, !.pending = m]
      BY <2>11, <3>1, <3>2
    <3>4. n \in 1 .. MaxOrdinal + 1
      BY <1>6, <2>1, <2>2, <3>1
    <3>5. /\ c \in Periodic!Controls /\ c.pass = y.pass /\ c.high = y.high
          /\ c.cursor = y.cursor /\ c.revision = r /\ c.next = n /\ c.pending = m
      BY <3>3, <3>4 DEF Periodic!Controls
    <3> QED BY <2>1, <3>1, <3>2, <3>5
  <2>14. work[p][o] = None
    BY <1>1, <1>3, <2>1, <2>2 DEF IndexOf, Periodic!Controls
  <2>15. c.pending = Cardinality({q \in 1 .. MaxOrdinal : W[q] # None})
    <3> DEFINE S == {q \in 1 .. MaxOrdinal : work[p][q] # None}
    <3>1. o \notin S /\ IsFiniteSet(S)
      BY <2>14, WorkFinite
    <3>2. {q \in 1 .. MaxOrdinal : W[q] # None} = S \cup {o}
      BY <1>6, <2>2, <2>4, <2>7
    <3>3. control[p].pending = Cardinality(S)
      BY <1>1 DEF IndexOf
    <3> HIDE DEF S
    <3>4. Cardinality(S \cup {o}) = Cardinality(S) + 1
      BY <3>1, FS_AddElement
    <3> QED BY <2>13, <3>2, <3>3, <3>4
  <2>16. \A u \in PeriodRows : /\ T[u] = None <=> L[u] = None
                               /\ T[u] # None => W[L[u]] = [target |-> u, deadline |-> T[u]]
    <3> TAKE u \in PeriodRows
    <3>1. CASE u = t
      BY <1>6, <1>10, <2>2, <2>3, <2>7, <2>10, <3>1
    <3>2. CASE u # t
      <4>1. T[u] = target[p][u] /\ L[u] = lookup[p][u]
        BY <1>10, <2>10, <3>2
      <4>2. (target[p][u] = None) <=> (lookup[p][u] = None)
        BY <1>1 DEF IndexOf
      <4>3. ASSUME target[p][u] # None PROVE W[lookup[p][u]] = [target |-> u, deadline |-> target[p][u]]
        <5>1. work[p][lookup[p][u]] = [target |-> u, deadline |-> target[p][u]]
          BY <1>1, <4>3 DEF IndexOf
        <5>2. lookup[p][u] \in 1 .. MaxOrdinal
          BY <1>4, <4>2, <4>3
        <5>3. target[p][u] \in Nat
          BY <1>4, <4>3
        <5>4. [target |-> u, deadline |-> target[p][u]] \in Periodic!WorkRows
          BY <5>3 DEF Periodic!WorkRows
        <5>5. lookup[p][u] # o
          BY <1>6, <2>14, <5>1, <5>4
        <5> QED BY <2>7, <5>1, <5>2, <5>5
      <4> QED BY <4>1, <4>2, <4>3
    <3> QED BY <3>1, <3>2
  <2>17. \A q \in 1 .. MaxOrdinal : W[q] # None => q < c.next /\ L[W[q].target] = q
    <3> SUFFICES ASSUME NEW q \in 1 .. MaxOrdinal, W[q] # None PROVE q < c.next /\ L[W[q].target] = q
      OBVIOUS
    <3>1. CASE q = o
      BY <2>2, <2>4, <2>7, <2>10, <2>13, <3>1
    <3>2. CASE q # o
      <4>1. W[q] = work[p][q] /\ work[p][q] # None
        BY <2>7, <3>2
      <4>2. q < o /\ lookup[p][work[p][q].target] = q
        BY <1>1, <2>1, <4>1 DEF IndexOf
      <4>3. work[p][q].target \in PeriodRows
        BY <1>5, <4>1 DEF Periodic!WorkRows
      <4>4. work[p][q].target # t
        BY <1>6, <1>11, <4>2
      <4> QED BY <2>2, <2>10, <2>13, <4>1, <4>2, <4>3, <4>4
    <3> QED BY <3>1, <3>2
  <2>18. \A q \in 1 .. MaxOrdinal : q <= control[p].high /\ W[q] # None => work[p][q] # None
    BY <1>3, <2>2, <2>7 DEF Periodic!Controls
  <2>19. control[p].next <= c.next
    BY <1>3, <2>1, <2>13 DEF Periodic!Controls
  <2>20. ~(Rank(registry[p].state) >= 3) /\ ~(Rank(registry[p].state) >= 4)
    BY <1>2
  <2> QED BY <1>7, <1>9, <2>6, <2>9, <2>12, <2>13, <2>15, <2>16, <2>17, <2>18, <2>19, <2>20, RowsStepOf
<1>12. CASE lookup[p][t] # None /\ work' = [work EXCEPT ![p][lookup[p][t]].deadline = d]
            /\ control' = [control EXCEPT ![p].revision = @ + 1] /\ UNCHANGED lookup
  <2>1. PICK o : o = lookup[p][t]
    OBVIOUS
  <2>2. o \in 1 .. MaxOrdinal /\ target[p][t] # None /\ target[p][t] \in Nat
    BY <1>1, <1>4, <1>12, <2>1 DEF IndexOf
  <2>3. work[p][o] = [target |-> t, deadline |-> target[p][t]]
    BY <1>1, <2>1, <2>2 DEF IndexOf
  <2>4. PICK x : x = [target |-> t, deadline |-> d]
    OBVIOUS
  <2>5. x \in Periodic!WorkRows /\ x.target = t /\ x = [work[p][o] EXCEPT !.deadline = d]
    BY <1>6, <2>3, <2>4 DEF Periodic!WorkRows
  <2>6. PICK W : W = [work[p] EXCEPT ![o] = x]
    OBVIOUS
  <2>7. work' = [work EXCEPT ![p] = W] /\ W \in [1 .. MaxOrdinal -> Periodic!WorkRows \cup {None}]
    <3>1. work' = [work EXCEPT ![p][o] = [work[p][o] EXCEPT !.deadline = d]]
      BY <1>12, <2>1
    <3> QED BY <1>5, <2>2, <2>5, <2>6, <3>1
  <2>8. W[o] = x /\ \A q \in (1 .. MaxOrdinal) \ {o} : W[q] = work[p][q]
    BY <1>5, <2>2, <2>6
  <2>9. PICK c : c = [control[p] EXCEPT !.revision = @ + 1]
    OBVIOUS
  <2>10. control' = [control EXCEPT ![p] = c]
    BY <1>1, <1>12, <2>9 DEF PeriodicTyped
  <2>11. /\ c \in Periodic!Controls /\ c.pass = control[p].pass /\ c.high = control[p].high /\ c.cursor = control[p].cursor
         /\ c.next = control[p].next /\ c.pending = control[p].pending /\ control[p].next <= c.next
    BY <1>3, <2>9 DEF Periodic!Controls
  <2>12. lookup' = [lookup EXCEPT ![p] = lookup[p]]
    BY <1>1, <1>12 DEF PeriodicTyped
  <2>13. work[p][o] # None
    BY <1>6, <2>2, <2>3 DEF Periodic!WorkRows
  <2>14. \A q \in 1 .. MaxOrdinal : W[q] # None <=> work[p][q] # None
    BY <1>6, <2>5, <2>8, <2>13
  <2>15. c.pending = Cardinality({q \in 1 .. MaxOrdinal : W[q] # None})
    <3>1. {q \in 1 .. MaxOrdinal : W[q] # None} = {q \in 1 .. MaxOrdinal : work[p][q] # None}
      BY <2>14
    <3> QED BY <1>1, <2>11, <3>1 DEF IndexOf
  <2>16. \A u \in PeriodRows : /\ T[u] = None <=> lookup[p][u] = None
                               /\ T[u] # None => W[lookup[p][u]] = [target |-> u, deadline |-> T[u]]
    <3> TAKE u \in PeriodRows
    <3>1. CASE u = t
      BY <1>6, <1>10, <1>12, <2>1, <2>4, <2>8, <3>1
    <3>2. CASE u # t
      <4>1. T[u] = target[p][u]
        BY <1>10, <3>2
      <4>2. (target[p][u] = None) <=> (lookup[p][u] = None)
        BY <1>1 DEF IndexOf
      <4>3. ASSUME target[p][u] # None PROVE W[lookup[p][u]] = [target |-> u, deadline |-> target[p][u]]
        <5>1. work[p][lookup[p][u]] = [target |-> u, deadline |-> target[p][u]]
          BY <1>1, <4>3 DEF IndexOf
        <5>2. lookup[p][u] \in 1 .. MaxOrdinal
          BY <1>4, <4>2, <4>3
        <5>3. lookup[p][u] # o
          BY <2>3, <3>2, <5>1
        <5> QED BY <2>8, <5>1, <5>2, <5>3
      <4> QED BY <4>1, <4>2, <4>3
    <3> QED BY <3>1, <3>2
  <2>17. \A q \in 1 .. MaxOrdinal : W[q] # None => q < c.next /\ lookup[p][W[q].target] = q
    <3> SUFFICES ASSUME NEW q \in 1 .. MaxOrdinal, W[q] # None PROVE q < c.next /\ lookup[p][W[q].target] = q
      OBVIOUS
    <3>1. work[p][q] # None
      BY <2>14
    <3>2. q < control[p].next /\ lookup[p][work[p][q].target] = q
      BY <1>1, <3>1 DEF IndexOf
    <3>3. W[q].target = work[p][q].target
      BY <2>3, <2>5, <2>8
    <3> QED BY <2>11, <3>2, <3>3
  <2>18. ~(Rank(registry[p].state) >= 3) /\ ~(Rank(registry[p].state) >= 4)
    BY <1>2
  <2>19. \A q \in 1 .. MaxOrdinal : q <= control[p].high /\ W[q] # None => work[p][q] # None
    BY <2>14
  <2> QED BY <1>4, <1>7, <1>9, <2>7, <2>10, <2>11, <2>12, <2>15, <2>16, <2>17, <2>18, <2>19, RowsStepOf
<1> QED BY <1>11, <1>12 DEF Periodic!Put

\* Rows are deleted, with their work and lookups, and each is counted.
LEMMA PeriodicDelete ==
  ASSUME Periodic!WorkAssumption, PeriodicRows, NEW p \in 1 .. Last, NEW g, g \subseteq PeriodRows,
         Periodic!DeleteRows(p, g), UNCHANGED <<now, registry, key, prefix, tried>>
  PROVE  PeriodicRows' /\ PeriodsOnward
<1> DEFINE there == {t \in g : target[p][t] # None}
           gone == {lookup[p][t] : t \in there}
           S == {o \in 1 .. MaxOrdinal : work[p][o] # None}
<1>1. PeriodicTyped /\ CoveredOf(p) /\ IndexOf(p) /\ RetiredOf(p)
  BY PeriodicParts
<1>2. control[p] \in Periodic!Controls /\ control[p].high < control[p].next
  BY <1>1 DEF PeriodicTyped
<1>3. target[p] \in [PeriodRows -> Nat \cup {None}] /\ lookup[p] \in [PeriodRows -> (1 .. MaxOrdinal) \cup {None}]
  BY <1>1 DEF PeriodicTyped
<1>4. work[p] \in [1 .. MaxOrdinal -> Periodic!WorkRows \cup {None}]
  BY <1>1 DEF PeriodicTyped
<1>5. None \notin Nat /\ None \notin 1 .. MaxOrdinal /\ None \notin Periodic!WorkRows /\ MaxOrdinal \in Nat
  BY PeriodicSettings
<1>6. \A t \in there : /\ t \in PeriodRows /\ lookup[p][t] \in 1 .. MaxOrdinal
                       /\ work[p][lookup[p][t]] # None /\ work[p][lookup[p][t]].target = t
  <2> SUFFICES ASSUME NEW t \in there
               PROVE  /\ t \in PeriodRows /\ lookup[p][t] \in 1 .. MaxOrdinal
                      /\ work[p][lookup[p][t]] # None /\ work[p][lookup[p][t]].target = t
    OBVIOUS
  <2>1. t \in PeriodRows /\ target[p][t] # None /\ target[p][t] \in Nat
    BY <1>3
  <2>2. lookup[p][t] # None /\ work[p][lookup[p][t]] = [target |-> t, deadline |-> target[p][t]]
    BY <1>1, <2>1 DEF IndexOf
  <2>3. [target |-> t, deadline |-> target[p][t]] \in Periodic!WorkRows
    BY <2>1 DEF Periodic!WorkRows
  <2> QED BY <1>3, <1>5, <2>1, <2>2, <2>3
<1>7. \A o \in 1 .. MaxOrdinal : work[p][o] # None => (o \in gone <=> work[p][o].target \in there)
  <2> SUFFICES ASSUME NEW o \in 1 .. MaxOrdinal, work[p][o] # None
               PROVE  o \in gone <=> work[p][o].target \in there
    OBVIOUS
  <2>1. lookup[p][work[p][o].target] = o
    BY <1>1 DEF IndexOf
  <2> QED BY <1>6, <2>1
<1>8. PICK n \in Nat : n = Cardinality(there) /\ n = Cardinality(gone) /\ gone \subseteq S
  <2>1. gone \subseteq S /\ IsFiniteSet(S)
    BY <1>6, WorkFinite
  <2>2. IsFiniteSet(gone)
    BY <2>1, FS_Subset
  <2> DEFINE f == [t \in there |-> lookup[p][t]]
  <2>3. f \in Injection(there, gone) /\ f \in Surjection(there, gone)
    <3>1. f \in Injection(there, gone)
      BY <1>6 DEF Injection, IsInjective
    <3>2. f \in Surjection(there, gone)
      BY DEF Surjection
    <3> QED BY <3>1, <3>2
  <2> HIDE DEF f, there, gone, S
  <2>4. IsFiniteSet(there) /\ Cardinality(there) = Cardinality(gone)
    BY <2>2, <2>3, FS_Injection
  <2>5. Cardinality(there) \in Nat
    BY <2>4, FS_CardinalityType
  <2> QED BY <2>1, <2>4, <2>5
<1>9. PICK T : T = [t \in PeriodRows |-> IF t \in there THEN None ELSE target[p][t]]
  OBVIOUS
<1>10. PICK W : W = [o \in 1 .. MaxOrdinal |-> IF o \in gone /\ work[p][o] # None THEN None ELSE work[p][o]]
  OBVIOUS
<1>11. PICK L : L = [t \in PeriodRows |-> IF t \in there THEN None ELSE lookup[p][t]]
  OBVIOUS
<1>12. PICK c : c = [control[p] EXCEPT !.revision = @ + 1, !.pending = @ - n]
  OBVIOUS
<1>13. /\ target' = [target EXCEPT ![p] = T] /\ lookup' = [lookup EXCEPT ![p] = L]
       /\ T \in [PeriodRows -> Nat \cup {None}] /\ L \in [PeriodRows -> (1 .. MaxOrdinal) \cup {None}]
  BY <1>1, <1>3, <1>9, <1>11 DEF Periodic!DeleteRows, PeriodicTyped
<1>14. work' = [work EXCEPT ![p] = W] /\ W \in [1 .. MaxOrdinal -> Periodic!WorkRows \cup {None}]
  <2>1. W = [o \in 1 .. MaxOrdinal |-> IF work[p][o] # None /\ \E t \in there : lookup[p][t] = o THEN None ELSE work[p][o]]
    <3>1. \A o \in 1 .. MaxOrdinal : o \in gone <=> \E t \in there : lookup[p][t] = o
      OBVIOUS
    <3> QED BY <1>10, <3>1
  <2>2. W \in [1 .. MaxOrdinal -> Periodic!WorkRows \cup {None}]
    BY <1>4, <1>10
  <2> QED BY <1>1, <2>1, <2>2 DEF Periodic!DeleteRows, PeriodicTyped, Periodic!Ordinals
<1>15. control' = [control EXCEPT ![p] = c]
  BY <1>1, <1>8, <1>12, PeriodicCount DEF Periodic!DeleteRows, PeriodicTyped
<1>16. /\ \A t \in PeriodRows : T[t] = IF t \in there THEN None ELSE target[p][t]
       /\ \A t \in PeriodRows : L[t] = IF t \in there THEN None ELSE lookup[p][t]
       /\ \A o \in 1 .. MaxOrdinal : W[o] = IF o \in gone THEN None ELSE work[p][o]
  BY <1>9, <1>10, <1>11
<1>17. control[p].pending = Cardinality(S)
  BY <1>1 DEF IndexOf
<1>18. IsFiniteSet(S)
  BY WorkFinite
<1>19. {o \in 1 .. MaxOrdinal : W[o] # None} = S \ gone
  BY <1>16
<1>20. Cardinality(S \ gone) = Cardinality(S) - n /\ Cardinality(S \ gone) \in Nat
  <2> HIDE DEF S, gone, there
  <2>1. S \cap gone = gone
    BY <1>8
  <2>2. Cardinality(S \ gone) = Cardinality(S) - Cardinality(S \cap gone) /\ IsFiniteSet(S \ gone)
    BY <1>18, FS_Difference
  <2> QED BY <1>8, <2>1, <2>2, FS_CardinalityType
<1>21. /\ c \in Periodic!Controls /\ c.pass = control[p].pass /\ c.high = control[p].high /\ c.cursor = control[p].cursor
       /\ c.next = control[p].next /\ c.pending = control[p].pending - n /\ control[p].next <= c.next
  <2>1. control[p].revision \in Nat /\ control[p].next \in Nat /\ control[p].pending \in Nat
    BY <1>2 DEF Periodic!Controls
  <2>2. control[p].pending - n \in Nat
    BY <1>17, <1>20
  <2>3. PICK r, k, m : r = control[p].revision + 1 /\ k = control[p].next /\ m = control[p].pending - n
    OBVIOUS
  <2>4. r \in Nat /\ k \in Nat /\ m \in Nat /\ control[p].next <= k
    BY <2>1, <2>2, <2>3
  <2>5. PICK x \in Periodic!Controls : x = control[p]
    BY <1>2
  <2>6. c = [x EXCEPT !.revision = r, !.next = k, !.pending = m]
    BY <1>12, <2>3, <2>5 DEF Periodic!Controls
  <2> HIDE DEF S, gone, there
  <2>7. /\ c \in Periodic!Controls /\ c.pass = x.pass /\ c.high = x.high
        /\ c.cursor = x.cursor /\ c.revision = r /\ c.next = k /\ c.pending = m
    BY <2>3, <2>4, <2>5, <2>6 DEF Periodic!Controls
  <2> QED BY <2>3, <2>4, <2>5, <2>7
<1>22. c.pending = Cardinality({o \in 1 .. MaxOrdinal : W[o] # None})
  BY <1>17, <1>19, <1>20, <1>21
<1> HIDE DEF S
<1>23. \A t \in PeriodRows : /\ T[t] = None <=> L[t] = None
                             /\ T[t] # None => W[L[t]] = [target |-> t, deadline |-> T[t]]
  <2> TAKE t \in PeriodRows
  <2>1. CASE t \in there
    BY <1>16, <2>1
  <2>2. CASE t \notin there
    <3>1. T[t] = target[p][t] /\ L[t] = lookup[p][t]
      BY <1>16, <2>2
    <3>2. (target[p][t] = None) <=> (lookup[p][t] = None)
      BY <1>1 DEF IndexOf
    <3>3. ASSUME target[p][t] # None PROVE W[lookup[p][t]] = [target |-> t, deadline |-> target[p][t]]
      <4>1. work[p][lookup[p][t]] = [target |-> t, deadline |-> target[p][t]]
        BY <1>1, <3>3 DEF IndexOf
      <4>2. lookup[p][t] \in 1 .. MaxOrdinal
        BY <1>3, <3>2, <3>3
      <4>3. lookup[p][t] \notin gone
        <5> SUFFICES ASSUME NEW u \in there, lookup[p][u] = lookup[p][t] PROVE FALSE
          OBVIOUS
        <5>1. work[p][lookup[p][t]].target = u
          BY <1>6
        <5> HIDE DEF there
        <5> QED BY <2>2, <4>1, <5>1
      <4> QED BY <1>16, <4>1, <4>2, <4>3
    <3> QED BY <3>1, <3>2, <3>3
  <2> QED BY <2>1, <2>2
<1>24. \A o \in 1 .. MaxOrdinal : W[o] # None => o < c.next /\ L[W[o].target] = o
  <2> SUFFICES ASSUME NEW o \in 1 .. MaxOrdinal, W[o] # None PROVE o < c.next /\ L[W[o].target] = o
    OBVIOUS
  <2>1. o \notin gone /\ W[o] = work[p][o] /\ work[p][o] # None
    BY <1>16
  <2>2. o < control[p].next /\ lookup[p][work[p][o].target] = o
    BY <1>1, <2>1 DEF IndexOf
  <2>3. work[p][o].target \in PeriodRows
    BY <1>4, <2>1 DEF Periodic!WorkRows
  <2>4. work[p][o].target \notin there
    BY <1>7, <2>1
  <2> HIDE DEF there, gone
  <2> QED BY <1>16, <1>21, <2>1, <2>2, <2>3, <2>4
<1>25. \A o \in 1 .. MaxOrdinal : o <= control[p].high /\ W[o] # None => work[p][o] # None
  BY <1>16
<1>26. \A t \in PeriodRows : T[t] # None => T[t] = target[p][t]
  BY <1>16
<1> HIDE DEF there, gone
<1> QED BY <1>13, <1>14, <1>15, <1>21, <1>22, <1>23, <1>24, <1>25, <1>26, RowsStepOf

-----------------------------------------------------------------------------

\* The period there is at a time.
CurrentAt(t) == IF t \div Span + 1 <= Last THEN t \div Span + 1 ELSE Last

\* It is the module's, ...
LEMMA CurrentIs ==
  ASSUME Periodic!WorkAssumption, NEW t \in Nat
  PROVE  Periodic!Min({Last, t \div Span + 1}) = CurrentAt(t) /\ CurrentAt(t) \in 0 .. Last
<1>1. t \div Span \in Nat /\ Last \in Nat
  BY PeriodicSettings
<1> DEFINE q == t \div Span + 1
           m == CHOOSE x \in {Last, q} : \A y \in {Last, q} : x <= y
<1>2. q \in Nat
  BY <1>1
<1> HIDE DEF q
<1>3. m = IF q <= Last THEN q ELSE Last
  BY <1>1, <1>2
<1>4. Periodic!Min({Last, q}) = m
  BY DEF Periodic!Min, m
<1> HIDE DEF m
<1> QED BY <1>1, <1>2, <1>3, <1>4 DEF CurrentAt, q

\* ... in every state, ...
LEMMA CurrentOf ==
  ASSUME Periodic!WorkAssumption, now \in Nat
  PROVE  Periodic!Current = CurrentAt(now) /\ Periodic!Current \in 0 .. Last
BY CurrentIs DEF Periodic!Current

\* A time by the span of a period.
LEMMA TimesDivided ==
  ASSUME NEW m \in Nat, m # 0, NEW t \in Nat
  PROVE  t \div m \in Nat /\ (t + 1) \div m \in Nat /\ t \div m <= (t + 1) \div m
OBVIOUS

\* ... and does not go back.
LEMMA CurrentGrows ==
  ASSUME Periodic!WorkAssumption, NEW t \in Nat
  PROVE  CurrentAt(t) <= CurrentAt(t + 1) /\ CurrentAt(t) \in Nat /\ CurrentAt(t + 1) \in 0 .. Last
<1>1. Last \in Nat /\ Span \in Nat /\ Span > 0
  BY PeriodicSettings
<1>2. t \div Span \in Nat /\ (t + 1) \div Span \in Nat /\ t \div Span <= (t + 1) \div Span
  BY <1>1, TimesDivided
<1> QED BY <1>1, <1>2 DEF CurrentAt

\* The turns, in a state.
PeriodicTurns == Periodic!TurnsInv

\* How many turns a period may have missed, if it is that one's turn.
MissedAt(r, p) == IF r > p THEN r - p - 1 ELSE Last - p + r - 1

\* Whose turn it is, with so many periods retired and that many there are.
TurnAt(s, f, c) == IF s = None \/ s \notin f .. c THEN f ELSE s

\* What the turns are, in these words.
LEMMA PeriodicTurnsAre ==
  ASSUME Periodic!WorkAssumption, now \in Nat
  PROVE  PeriodicTurns <=>
           /\ sweep \in (1 .. Last) \cup {None} /\ (sweep # None => sweep <= CurrentAt(now))
           /\ waiting \in [1 .. Last -> 0 .. Last]
           /\ \A p \in 1 .. Last : p > CurrentAt(now) => waiting[p] = 0
           /\ \A p \in prefix + 1 .. CurrentAt(now) :
                waiting[p] <= MissedAt(TurnAt(sweep, prefix + 1, CurrentAt(now)), p)
BY CurrentOf DEF PeriodicTurns, Periodic!TurnsInv, Periodic!Missed, Periodic!Turn, Periodic!Minimum, Periodic!Periods,
                 MissedAt, TurnAt

\* The same after a step.
LEMMA PeriodicTurnsAreNext ==
  ASSUME Periodic!WorkAssumption, now' \in Nat
  PROVE  PeriodicTurns' <=>
           /\ sweep' \in (1 .. Last) \cup {None} /\ (sweep' # None => sweep' <= CurrentAt(now'))
           /\ waiting' \in [1 .. Last -> 0 .. Last]
           /\ \A p \in 1 .. Last : p > CurrentAt(now') => waiting'[p] = 0
           /\ \A p \in prefix' + 1 .. CurrentAt(now') :
                waiting'[p] <= MissedAt(TurnAt(sweep', prefix' + 1, CurrentAt(now')), p)
<1>1. Periodic!Current' = CurrentAt(now')
  BY CurrentIs DEF Periodic!Current
<1> QED BY <1>1 DEF PeriodicTurns, Periodic!TurnsInv, Periodic!Missed, Periodic!Turn, Periodic!Minimum, Periodic!Periods,
                    MissedAt, TurnAt

\* Only some steps change them.
LEMMA PeriodicTurnsStay ==
  ASSUME Periodic!WorkAssumption, now \in Nat, PeriodicTurns, UNCHANGED <<now, prefix, sweep, waiting>>
  PROVE  PeriodicTurns'
BY PeriodicTurnsAre, PeriodicTurnsAreNext

\* A period's turn is taken: the others have missed one more.
LEMMA PeriodicSelect ==
  ASSUME Periodic!WorkAssumption, now \in Nat, prefix \in Nat, PeriodicTurns, NEW s, Periodic!Select(s)
  PROVE  /\ PeriodicTurns'
         /\ \E p \in 1 .. Last : Periodic!Go(s, [phase |-> "selected", period |-> p])
<1> DEFINE c == CurrentAt(now)
           f == prefix + 1
           p == TurnAt(sweep, f, c)
<1>1. c \in Nat /\ c <= Last /\ Last \in Nat /\ f \in Nat /\ f >= 1 /\ f <= c
  BY CurrentOf, PeriodicSettings DEF Periodic!Select, Periodic!Minimum
<1>2. /\ sweep' = (IF p = c THEN f ELSE p + 1)
      /\ waiting' = [q \in 1 .. Last |-> IF q = p \/ q \notin f .. c THEN 0 ELSE Periodic!Min({waiting[q] + 1, Last + 1})]
      /\ Periodic!Go(s, [phase |-> "selected", period |-> p]) /\ now' = now /\ prefix' = prefix
  BY CurrentOf DEF Periodic!Select, Periodic!Minimum, Periodic!Periods, TurnAt
<1>3. /\ waiting \in [1 .. Last -> 0 .. Last]
      /\ \A q \in f .. c : waiting[q] <= MissedAt(p, q)
  BY PeriodicTurnsAre
<1>4. p \in f .. c
  <2> HIDE DEF c, f
  <2>1. CASE sweep = None \/ sweep \notin f .. c
    <3>1. p = f
      BY <2>1 DEF TurnAt
    <3> QED BY <1>1, <3>1
  <2>2. CASE sweep # None /\ sweep \in f .. c
    <3>1. p = sweep
      BY <2>2 DEF TurnAt
    <3> QED BY <2>2, <3>1
  <2> QED BY <2>1, <2>2
<1> DEFINE r == IF p = c THEN f ELSE p + 1
<1>5. r \in f .. c
  BY <1>1, <1>4
<1> HIDE DEF c, f, p
<1>6. ASSUME NEW q \in 1 .. Last
      PROVE  waiting'[q] \in 0 .. Last /\ (q \in f .. c => waiting'[q] <= MissedAt(r, q)) /\ (q > c => waiting'[q] = 0)
  <2>1. CASE q = p \/ q \notin f .. c
    BY <1>1, <1>2, <1>4, <2>1 DEF MissedAt
  <2>2. CASE ~(q = p \/ q \notin f .. c)
    <3>1. waiting[q] \in Nat /\ waiting[q] <= MissedAt(p, q)
      BY <1>3, <2>2
    <3>2. /\ MissedAt(p, q) + 1 <= MissedAt(r, q) /\ MissedAt(r, q) <= Last - 1
          /\ MissedAt(p, q) \in Int /\ MissedAt(r, q) \in Int
      BY <1>1, <1>4, <2>2 DEF MissedAt
    <3>3. Periodic!Min({waiting[q] + 1, Last + 1}) = waiting[q] + 1
      <4> DEFINE w == waiting[q] + 1
      <4>1. w \in Nat /\ w <= Last
        <5> DEFINE x == MissedAt(p, q)
                   y == MissedAt(r, q)
        <5>1. x \in Int /\ y \in Int /\ x + 1 <= y /\ y <= Last - 1 /\ waiting[q] <= x
          BY <3>1, <3>2
        <5> HIDE DEF x, y
        <5> QED BY <1>1, <3>1, <5>1
      <4> HIDE DEF w
      <4>2. Periodic!Min({w, Last + 1}) = w
        BY <1>1, <4>1 DEF Periodic!Min
      <4> QED BY <4>2 DEF w
    <3>4. waiting'[q] = waiting[q] + 1
      BY <1>2, <2>2, <3>3
    <3> DEFINE x == MissedAt(p, q)
               y == MissedAt(r, q)
    <3>5. x \in Int /\ y \in Int /\ x + 1 <= y /\ y <= Last - 1 /\ waiting[q] <= x
      BY <3>1, <3>2
    <3> HIDE DEF x, y
    <3>6. waiting'[q] \in 0 .. Last /\ waiting'[q] <= y
      BY <1>1, <3>1, <3>4, <3>5
    <3> QED BY <1>1, <2>2, <3>6 DEF y
  <2> QED BY <2>1, <2>2
<1>7. TurnAt(sweep', f, c) = r
  <2>1. sweep' = r /\ r # None
    BY <1>1, <1>2, <1>5, PeriodicSettings
  <2> HIDE DEF r
  <2> QED BY <1>5, <2>1 DEF TurnAt
<1>8. PeriodicTurns'
  <2>1. sweep' \in (1 .. Last) \cup {None} /\ (sweep' # None => sweep' <= c)
    BY <1>1, <1>2, <1>5
  <2>2. waiting' \in [1 .. Last -> 0 .. Last]
    <3>1. DOMAIN waiting' = 1 .. Last /\ waiting' = [q \in 1 .. Last |-> waiting'[q]]
      BY <1>2
    <3> QED BY <1>6, <3>1
  <2>3. \A q \in 1 .. Last : q > c => waiting'[q] = 0
    BY <1>6
  <2>4. \A q \in f .. c : waiting'[q] <= MissedAt(TurnAt(sweep', f, c), q)
    BY <1>1, <1>6, <1>7
  <2> QED BY <1>2, <2>1, <2>2, <2>3, <2>4, PeriodicTurnsAreNext DEF c, f
<1> QED BY <1>1, <1>2, <1>4, <1>8

\* Time goes on: a period that is new has missed none.
LEMMA PeriodicTick ==
  ASSUME Periodic!WorkAssumption, now \in Nat, prefix \in Nat, PeriodicTurns, Periodic!Tick
  PROVE  PeriodicTurns'
<1>1. now' = now + 1 /\ UNCHANGED <<prefix, sweep, waiting>>
  BY DEF Periodic!Tick
<1>2. PICK c \in Nat, d \in 0 .. Last : c = CurrentAt(now) /\ d = CurrentAt(now + 1) /\ c <= d
  BY CurrentGrows
<1>3. /\ sweep \in (1 .. Last) \cup {None} /\ (sweep # None => sweep <= c)
      /\ waiting \in [1 .. Last -> 0 .. Last]
      /\ \A p \in 1 .. Last : p > c => waiting[p] = 0
      /\ \A p \in prefix + 1 .. c : waiting[p] <= MissedAt(TurnAt(sweep, prefix + 1, c), p)
  BY <1>2, PeriodicTurnsAre
<1>4. Last \in Nat /\ None \notin Nat
  BY PeriodicSettings
<1>5. TurnAt(sweep, prefix + 1, d) = TurnAt(sweep, prefix + 1, c)
  BY <1>2, <1>3, <1>4 DEF TurnAt
<1>6. PICK r \in Nat : r = TurnAt(sweep, prefix + 1, c) /\ r >= 1
  BY <1>2, <1>3, <1>4 DEF TurnAt
<1>7. ASSUME NEW p \in prefix + 1 .. d PROVE waiting[p] <= MissedAt(r, p)
  <2>1. CASE p <= c
    BY <1>2, <1>3, <1>6, <2>1
  <2>2. CASE p > c
    <3>1. p \in 1 .. Last /\ waiting[p] = 0
      <4>1. p \in 1 .. Last
        BY <1>2, <1>4, <2>2
      <4> QED BY <1>3, <2>2, <4>1
    <3> QED BY <1>4, <1>6, <3>1 DEF MissedAt
  <2> QED BY <1>2, <2>1, <2>2
<1>8. \A p \in 1 .. Last : p > d => waiting[p] = 0
  BY <1>2, <1>3
<1>9. sweep # None => sweep <= d
  BY <1>2, <1>3
<1>10. now' \in Nat
  BY <1>1
<1> QED BY <1>1, <1>2, <1>3, <1>5, <1>6, <1>7, <1>8, <1>9, <1>10, PeriodicTurnsAreNext

\* A period is retired: the others keep their turns.
LEMMA PeriodicRetired ==
  ASSUME Periodic!WorkAssumption, now \in Nat, prefix \in Nat, PeriodicTurns, prefix' = prefix + 1,
         UNCHANGED <<now, sweep, waiting>>
  PROVE  PeriodicTurns'
<1>1. PICK c \in 0 .. Last : c = CurrentAt(now)
  BY CurrentOf
<1>2. /\ sweep \in (1 .. Last) \cup {None} /\ (sweep # None => sweep <= c)
      /\ waiting \in [1 .. Last -> 0 .. Last]
      /\ \A p \in 1 .. Last : p > c => waiting[p] = 0
      /\ \A p \in prefix + 1 .. c : waiting[p] <= MissedAt(TurnAt(sweep, prefix + 1, c), p)
  BY <1>1, PeriodicTurnsAre
<1>3. Last \in Nat /\ None \notin Nat
  BY PeriodicSettings
<1>4. ASSUME NEW p \in prefix + 2 .. c PROVE waiting[p] <= MissedAt(TurnAt(sweep, prefix + 2, c), p)
  <2>0. p \in 1 .. Last /\ p \in prefix + 1 .. c
    BY <1>3
  <2>1. waiting[p] \in Nat /\ waiting[p] <= MissedAt(TurnAt(sweep, prefix + 1, c), p)
    BY <1>2, <2>0
  <2>2. CASE sweep \in prefix + 2 .. c
    BY <1>3, <2>1, <2>2 DEF TurnAt
  <2>3. CASE sweep \notin prefix + 2 .. c
    <3>1. TurnAt(sweep, prefix + 1, c) = prefix + 1 /\ TurnAt(sweep, prefix + 2, c) = prefix + 2
      BY <1>1, <1>2, <1>3, <2>3 DEF TurnAt
    <3> QED BY <1>1, <1>3, <2>1, <3>1 DEF MissedAt
  <2> QED BY <2>2, <2>3
<1>5. prefix' + 1 = prefix + 2
  OBVIOUS
<1> QED BY <1>1, <1>2, <1>4, <1>5, PeriodicTurnsAreNext

-----------------------------------------------------------------------------

\* What the runs know.
PeriodicJobs ==
  DOMAIN job = Sweeps /\ \A s \in Sweeps : job[s] # Periodic!Idle => Periodic!JobInv(job[s])

\* Together with the rows and the turns it is the invariant.
LEMMA PeriodicIs == Periodic!IInv <=> PeriodicRows /\ PeriodicJobs /\ PeriodicTurns
BY DEF Periodic!IInv, PeriodicRows, PeriodicJobs, PeriodicTurns

\* After a step too.
LEMMA PeriodicIsNext == Periodic!IInv' <=> PeriodicRows' /\ PeriodicJobs' /\ PeriodicTurns'
BY PeriodicIs, PTL

\* What a run has at hand is still that.
LEMMA PeriodicItemsStay ==
  ASSUME Periodic!WorkAssumption, PeriodicTyped, PeriodicTyped', PeriodsOnward, NEW j, j.period \in 1 .. Last,
         Periodic!ItemsInv(j)
  PROVE  Periodic!ItemsInv(j)'
<1> DEFINE p == j.period
           at == {i.ordinal : i \in j.items}
<1>1. /\ control[p] \in Periodic!Controls /\ control'[p] \in Periodic!Controls /\ OnwardOf(p)
      /\ tried[p] \subseteq Nat
  BY DEF PeriodicTyped, PeriodsOnward
<1>2. /\ j \in Periodic!Passing /\ j.pass <= control[p].pass /\ \A o \in at : j.cursor < o
      /\ \A i, k \in j.items : i.ordinal = k.ordinal => i = k
      /\ j.whole => Cardinality(at) <= j.left
      /\ j.pass = control[p].pass =>
           /\ \A o \in at : o <= control[p].high
           /\ \A o \in 1 .. MaxOrdinal : o <= control[p].high /\ work[p][o] # None =>
                o \in tried[p] \cup at \/ (~j.whole /\ \A q \in at : q < o)
  BY PeriodicCount DEF Periodic!ItemsInv, Periodic!Ordinals
<1> HIDE DEF at
<1>0. j.pass \in Nat
  BY <1>2 DEF Periodic!Passing
<1>3. j.pass <= control'[p].pass /\ (j.pass = control'[p].pass => j.pass = control[p].pass)
  BY <1>0, <1>1, <1>2 DEF OnwardOf, Periodic!Controls
<1>4. ASSUME j.pass = control'[p].pass
      PROVE  /\ \A o \in at : o <= control'[p].high
             /\ \A o \in 1 .. MaxOrdinal : o <= control'[p].high /\ work'[p][o] # None =>
                  o \in tried'[p] \cup at \/ (~j.whole /\ \A q \in at : q < o)
  <2>1. /\ j.pass = control[p].pass /\ control'[p].high = control[p].high /\ tried[p] \subseteq tried'[p]
        /\ \A o \in 1 .. MaxOrdinal : o <= control[p].high /\ work'[p][o] # None => work[p][o] # None
    BY <1>0, <1>1, <1>3, <1>4 DEF OnwardOf, Periodic!Controls
  <2> QED BY <1>2, <2>1
<1> QED BY <1>2, <1>3, <1>4, PeriodicCount DEF Periodic!ItemsInv, Periodic!Ordinals, at

\* And so is all that it knows.
LEMMA PeriodicJobStays ==
  ASSUME Periodic!WorkAssumption, PeriodicTyped, PeriodicTyped', PeriodsOnward, NEW j, Periodic!JobInv(j)
  PROVE  Periodic!JobInv(j)'
<1> DEFINE p == j.period
<1>1. p \in 1 .. Last
  BY DEF Periodic!JobInv, Periodic!Periods
<1>2. /\ control[p] \in Periodic!Controls /\ control'[p] \in Periodic!Controls /\ OnwardOf(p)
      /\ Rank(registry[p].state) \in 1 .. 7 /\ Rank(registry'[p].state) \in 1 .. 7
  BY <1>1, RankOf DEF PeriodicTyped, PeriodsOnward
<1>3. Periodic!Stage(p) = Rank(registry[p].state) /\ Periodic!Stage(p)' = Rank(registry'[p].state)
  BY <1>1, PeriodicStage, PeriodicStageNext
<1>4. /\ Periodic!Stage(p) >= 5 => Periodic!Stage(p)' >= 5
      /\ Periodic!Stage(p) >= 6 => Periodic!Stage(p)' >= 6
  BY <1>2, <1>3 DEF OnwardOf
<1>5. ASSUME j.phase = "entered"
      PROVE  /\ j.control \in Periodic!Controls /\ j.control.cursor <= j.control.high /\ j.control.high < j.control.next
             /\ j.control.pass <= control'[p].pass
             /\ j.control.pass = control'[p].pass =>
                  j.control.high = control'[p].high /\ j.control.cursor <= control'[p].cursor
  <2>1. /\ j.control \in Periodic!Controls /\ j.control.cursor <= j.control.high /\ j.control.high < j.control.next
        /\ j.control.pass <= control[p].pass
        /\ j.control.pass = control[p].pass => j.control.high = control[p].high /\ j.control.cursor <= control[p].cursor
    BY <1>5 DEF Periodic!JobInv
  <2> QED BY <1>2, <2>1 DEF OnwardOf, Periodic!Controls
<1>6. j.phase = "items" => Periodic!ItemsInv(j)'
  BY <1>1, PeriodicItemsStay DEF Periodic!JobInv
<1> QED BY <1>4, <1>5, <1>6 DEF Periodic!JobInv, Periodic!Periods

\* A step in which one run moves.
LEMMA PeriodicAround ==
  ASSUME Periodic!WorkAssumption, Periodic!IInv, PeriodicRows', PeriodsOnward, PeriodicTurns', NEW s \in Sweeps, NEW j,
         Periodic!Go(s, j), j # Periodic!Idle => Periodic!JobInv(j)'
  PROVE  Periodic!IInv'
<1>1. PeriodicTyped /\ PeriodicTyped' /\ PeriodicJobs
  BY PeriodicIs, PeriodicParts, PeriodicPartsNext
<1>2. DOMAIN job' = Sweeps /\ job'[s] = j /\ \A v \in Sweeps \ {s} : job'[v] = job[v]
  BY <1>1 DEF PeriodicJobs, Periodic!Go
<1>3. ASSUME NEW v \in Sweeps, job'[v] # Periodic!Idle PROVE Periodic!JobInv(job[v])'
  <2>1. CASE v = s
    <3>1. \A k : k = j => (k # Periodic!Idle => Periodic!JobInv(k)')
      OBVIOUS
    <3> QED BY <1>2, <1>3, <2>1, <3>1
  <2>2. CASE v # s
    <3>1. \A k : Periodic!JobInv(k) => Periodic!JobInv(k)'
      BY <1>1, PeriodicJobStays
    <3>2. job'[v] = job[v] /\ Periodic!JobInv(job[v])
      BY <1>1, <1>2, <1>3, <2>2 DEF PeriodicJobs
    <3> QED BY <3>1, <3>2
  <2> QED BY <2>1, <2>2
<1>4. PeriodicJobs'
  BY <1>2, <1>3 DEF PeriodicJobs, Periodic!Idle
<1> QED BY <1>4, PeriodicIsNext

\* A step in which none moves.
LEMMA PeriodicApart ==
  ASSUME Periodic!WorkAssumption, Periodic!IInv, PeriodicRows', PeriodsOnward, PeriodicTurns', job' = job
  PROVE  Periodic!IInv'
<1>1. PeriodicTyped /\ PeriodicTyped' /\ PeriodicJobs
  BY PeriodicIs, PeriodicParts, PeriodicPartsNext
<1>2. ASSUME NEW v \in Sweeps, job'[v] # Periodic!Idle PROVE Periodic!JobInv(job[v])'
  <2>1. \A k : Periodic!JobInv(k) => Periodic!JobInv(k)'
    BY <1>1, PeriodicJobStays
  <2>2. job'[v] = job[v] /\ Periodic!JobInv(job[v])
    BY <1>1, <1>2 DEF PeriodicJobs
  <2> QED BY <2>1, <2>2
<1>3. PeriodicJobs'
  BY <1>1, <1>2 DEF PeriodicJobs, Periodic!Idle
<1> QED BY <1>3, PeriodicIsNext

\* What is to be known of a run that neither looks at a period nor passes over it.
LEMMA PeriodicPlain ==
  ASSUME Periodic!WorkAssumption, PeriodicTyped', NEW j, j.period \in 1 .. Last,
         j.phase \in {"selected", "drained", "intended", "retired", "disable", "disabled", "schedule", "scheduled"},
         j.phase \in {"intended", "disable", "disabled", "schedule"} => Rank(registry'[j.period].state) >= 5,
         j.phase = "drained" => j.record = "DRAINING",
         j.phase \in {"disable", "disabled", "schedule", "scheduled"} => j \in Periodic!Keying,
         j.phase = "disable" => j.record = "INTENT",
         j.phase = "disabled" => j.record \in {"INTENT", "DISABLED"},
         j.phase = "schedule" => Rank(registry'[j.period].state) >= 6
  PROVE  Periodic!JobInv(j)'
<1>1. Periodic!Stage(j.period)' = Rank(registry'[j.period].state)
  BY PeriodicStageNext
<1> QED BY <1>1 DEF Periodic!JobInv, Periodic!Periods

\* A run that is at work.
LEMMA PeriodicRun ==
  ASSUME Periodic!WorkAssumption, Periodic!IInv, NEW s \in Sweeps, job[s] # Periodic!Idle
  PROVE  /\ Periodic!JobInv(job[s]) /\ job[s].period \in 1 .. Last
         /\ PeriodicRows /\ PeriodicTyped /\ PeriodicTurns /\ now \in Nat /\ prefix \in Nat
         /\ Periodic!Stage(job[s].period) = Rank(registry[job[s].period].state)
         /\ Rank(registry[job[s].period].state) \in 1 .. 7 /\ registry[job[s].period].state \in StateNames
         /\ CoveredOf(job[s].period) /\ IndexOf(job[s].period) /\ RetiredOf(job[s].period)
<1>1. PeriodicRows /\ PeriodicTyped /\ PeriodicTurns /\ PeriodicJobs
  BY PeriodicIs, PeriodicParts
<1>2. Periodic!JobInv(job[s]) /\ job[s].period \in 1 .. Last
  BY <1>1 DEF PeriodicJobs, Periodic!JobInv, Periodic!Periods
<1>3. registry[job[s].period].state \in StateNames /\ now \in Nat /\ prefix \in Nat
  BY <1>1, <1>2, PeriodicSettings DEF PeriodicTyped, StateNames
<1>4. Rank(registry[job[s].period].state) \in 1 .. 7
  BY <1>3, RankOf DEF StateNames
<1>5. CoveredOf(job[s].period) /\ IndexOf(job[s].period) /\ RetiredOf(job[s].period)
  BY <1>1, <1>2, PeriodicParts
<1> QED BY <1>1, <1>2, <1>3, <1>4, <1>5, PeriodicStage

-----------------------------------------------------------------------------

\* A run takes a turn.
LEMMA PeriodicSelects ==
  ASSUME Periodic!WorkAssumption, Periodic!IInv, NEW s \in Sweeps, Periodic!Select(s)
  PROVE  Periodic!IInv' /\ PeriodsOnward
<1>1. PeriodicRows /\ PeriodicTurns /\ PeriodicTyped
  BY PeriodicIs, PeriodicParts
<1>2. now \in 0 .. MaxTime /\ now \in Nat /\ prefix \in Nat
  BY <1>1, PeriodicSettings DEF PeriodicTyped
<1>3. UNCHANGED <<periodic, now, prefix>>
  BY DEF Periodic!Select, periodic
<1>4. PeriodicRows' /\ PeriodsOnward
  BY <1>1, <1>2, <1>3, NoPeriod
<1>5. PICK p \in 1 .. Last : PeriodicTurns' /\ Periodic!Go(s, [phase |-> "selected", period |-> p])
  BY <1>1, <1>2, PeriodicSelect
<1>6. PICK j : j = [phase |-> "selected", period |-> p]
  OBVIOUS
<1>7. PeriodicTyped'
  BY <1>4, PeriodicPartsNext
<1>8. Periodic!JobInv(j)'
  BY <1>6, <1>7, PeriodicPlain
<1>9. Periodic!Go(s, j)
  BY <1>5, <1>6
<1> QED BY <1>4, <1>5, <1>8, <1>9, PeriodicAround

\* A run goes on without writing: to where what it has to know is known.
LEMMA PeriodicGoes ==
  ASSUME Periodic!WorkAssumption, Periodic!IInv, NEW s \in Sweeps, job[s] # Periodic!Idle, NEW j, Periodic!Go(s, j),
         UNCHANGED <<periodic, now, prefix, sweep, waiting>>,
         PeriodicTyped' => (j # Periodic!Idle => Periodic!JobInv(j)')
  PROVE  Periodic!IInv' /\ PeriodsOnward
<1>1. PeriodicRows /\ PeriodicTurns /\ PeriodicTyped /\ now \in Nat
  BY PeriodicRun
<1>2. PeriodicRows' /\ PeriodsOnward
  BY <1>1, NoPeriod DEF PeriodicTyped
<1>3. PeriodicTyped'
  BY <1>2, PeriodicPartsNext
<1>4. PeriodicTurns'
  BY <1>1, PeriodicTurnsStay
<1> QED BY <1>2, <1>3, <1>4, PeriodicAround

\* A run writes, and goes on.
LEMMA PeriodicWrites ==
  ASSUME Periodic!WorkAssumption, Periodic!IInv, NEW s \in Sweeps, job[s] # Periodic!Idle, NEW j, Periodic!Go(s, j),
         UNCHANGED <<now, prefix, sweep, waiting>>, PeriodicRows', PeriodsOnward,
         PeriodicTyped' => (j # Periodic!Idle => Periodic!JobInv(j)')
  PROVE  Periodic!IInv' /\ PeriodsOnward
<1>1. PeriodicTurns /\ now \in Nat
  BY PeriodicRun
<1>2. PeriodicTurns'
  BY <1>1, PeriodicTurnsStay
<1>3. PeriodicTyped'
  BY PeriodicPartsNext
<1> QED BY <1>2, <1>3, PeriodicAround

\* A run stops, or passes over what it could not erase.
LEMMA PeriodicStops ==
  ASSUME Periodic!WorkAssumption, Periodic!IInv, NEW s \in Sweeps, Periodic!Stop(s)
  PROVE  Periodic!IInv' /\ PeriodsOnward
<1>1. PICK j : j = Periodic!Idle
  OBVIOUS
<1>2. job[s] # Periodic!Idle /\ Periodic!Go(s, j) /\ UNCHANGED <<periodic, now, prefix, sweep, waiting>>
  BY <1>1 DEF Periodic!Stop, periodic
<1>3. \A k : k = Periodic!Idle => (k # Periodic!Idle => Periodic!JobInv(k)')
  OBVIOUS
<1>4. j # Periodic!Idle => Periodic!JobInv(j)'
  BY <1>1
<1> QED BY <1>2, <1>4, PeriodicGoes

\* A job that has a phase is not idle.
LEMMA NotIdle ==
  ASSUME NEW j, j.phase # "idle"
  PROVE  j # Periodic!Idle
BY DEF Periodic!Idle

\* What is at hand is no less for what was due being left.
LEMMA PeriodicItemsDone ==
  ASSUME Periodic!WorkAssumption, NEW j, NEW k, Periodic!JobInv(j), j.phase = "items", k = [j EXCEPT !.due = None]
  PROVE  k.phase = "items" /\ k.period = j.period /\ Periodic!JobInv(k)
<1>1. j \in Periodic!Passing /\ Periodic!ItemsInv(j) /\ j.period \in Periodic!Periods
  BY DEF Periodic!JobInv, Periodic!ItemsInv
<1>2. /\ k \in Periodic!Passing /\ k.phase = "items" /\ k.period = j.period /\ k.pass = j.pass /\ k.cursor = j.cursor
      /\ k.items = j.items /\ k.left = j.left /\ k.whole = j.whole
  BY <1>1 DEF Periodic!Passing
<1>3. Periodic!ItemsInv(k)
  BY <1>1, <1>2 DEF Periodic!ItemsInv
<1> QED BY <1>1, <1>2, <1>3 DEF Periodic!JobInv

\* A run passes over what it could not erase.
LEMMA PeriodicPasses ==
  ASSUME Periodic!WorkAssumption, Periodic!IInv, NEW s \in Sweeps, Periodic!PassOver(s)
  PROVE  Periodic!IInv' /\ PeriodsOnward
<1>1. job[s] # Periodic!Idle /\ job[s].phase = "items" /\ UNCHANGED <<periodic, now, prefix, sweep, waiting>>
  BY DEF Periodic!PassOver, Periodic!Idle, periodic
<1>2. PICK k : k = [job[s] EXCEPT !.due = None]
  OBVIOUS
<1>3. Periodic!Go(s, k)
  BY <1>2 DEF Periodic!PassOver
<1>4. Periodic!JobInv(job[s]) /\ PeriodicRows /\ PeriodicTyped /\ now \in 0 .. MaxTime
  BY <1>1, PeriodicRun DEF PeriodicTyped
<1>5. Periodic!JobInv(k)
  BY <1>1, <1>2, <1>4, PeriodicItemsDone
<1>6. PeriodsOnward
  BY <1>1, <1>4, NoPeriod
<1>7. PeriodicTyped' => Periodic!JobInv(k)'
  BY <1>4, <1>5, <1>6, PeriodicJobStays
<1> QED BY <1>1, <1>3, <1>7, PeriodicGoes

\* A group of what is due is erased.
LEMMA PeriodicErases ==
  ASSUME Periodic!WorkAssumption, Periodic!IInv, NEW s \in Sweeps, Periodic!Group(s)
  PROVE  Periodic!IInv' /\ PeriodsOnward
<1>1. job[s] # Periodic!Idle /\ job[s].phase = "items" /\ UNCHANGED <<now, registry, key, prefix, sweep, tried, waiting>>
  BY DEF Periodic!Group, Periodic!Idle
<1>2. PICK k : k = [job[s] EXCEPT !.due = None]
  OBVIOUS
<1>3. Periodic!Go(s, k)
  BY <1>2 DEF Periodic!Group
<1>4. Periodic!JobInv(job[s]) /\ PeriodicRows /\ PeriodicTyped /\ job[s].period \in 1 .. Last
  BY <1>1, PeriodicRun
<1>5. Periodic!JobInv(k)
  BY <1>1, <1>2, <1>4, PeriodicItemsDone
<1>6. PICK g : g \subseteq PeriodRows /\ Periodic!DeleteRows(job[s].period, g)
  <2> DEFINE t == job[s].due.target
             g == CHOOSE x \in Groups : t \in x
  <2>1. t \in PeriodRows
    <3>1. job[s] \in Periodic!Passing /\ job[s].due # None
      BY <1>1, <1>4 DEF Periodic!JobInv, Periodic!ItemsInv, Periodic!Group
    <3> QED BY <3>1 DEF Periodic!Passing, Periodic!WorkRows
  <2>2. \E x \in Groups : t \in x
    BY <2>1 DEF Periodic!WorkAssumption
  <2>3. g \in Groups
    BY <2>2
  <2>4. g \subseteq PeriodRows
    BY <2>3 DEF Periodic!WorkAssumption
  <2>5. Periodic!DeleteRows(job[s].period, g)
    BY DEF Periodic!Group, Periodic!GroupOf
  <2> QED BY <2>4, <2>5
<1>7. PICK p \in 1 .. Last : p = job[s].period
  BY <1>4
<1>8. PeriodicRows' /\ PeriodsOnward
  BY <1>1, <1>4, <1>6, <1>7, PeriodicDelete
<1>9. PeriodicTyped' => Periodic!JobInv(k)'
  BY <1>4, <1>5, <1>8, PeriodicJobStays
<1> QED BY <1>1, <1>3, <1>8, <1>9, PeriodicWrites

-----------------------------------------------------------------------------

\* A run reads a period that is not sealed, having moved it on to what is due.
LEMMA PeriodicEnters ==
  ASSUME Periodic!WorkAssumption, Periodic!IInv, NEW s \in Sweeps, Periodic!Enter(s)
  PROVE  Periodic!IInv' /\ PeriodsOnward
<1>1. job[s] # Periodic!Idle /\ UNCHANGED <<now, control, target, work, lookup, key, prefix, sweep, tried, waiting>>
  BY DEF Periodic!Enter, Periodic!Idle
<1>2. /\ PeriodicRows /\ PeriodicTyped
      /\ Periodic!Stage(job[s].period) = Rank(registry[job[s].period].state)
      /\ Rank(registry[job[s].period].state) \in 1 .. 7 /\ registry[job[s].period].state \in StateNames
  BY <1>1, PeriodicRun
<1>3. PICK p \in 1 .. Last : p = job[s].period
  BY <1>1, PeriodicRun
<1>4. ~(Rank(registry[p].state) >= 4)
  BY <1>2, <1>3 DEF Periodic!Enter, Periodic!Sealed
<1>5. PICK d : d = Periodic!Due(p)
  OBVIOUS
<1>6. d \in {"OPEN", "CLOSING", "DRAINING"} /\ Rank(registry[p].state) <= Rank(d) /\ Rank(d) <= 3
  BY <1>2, <1>3, <1>4, <1>5, RankOf DEF Periodic!Due, StateNames
<1>7. PICK r : r = [registry[p] EXCEPT !.state = d]
  OBVIOUS
<1>8. r \in [state : StateNames, sealNext : Nat \cup {None}] /\ r.state = d
  BY <1>2, <1>6, <1>7 DEF PeriodicTyped, StateNames
<1>9. registry' = [registry EXCEPT ![p] = r]
  BY <1>2, <1>3, <1>5, <1>7 DEF Periodic!Enter, PeriodicTyped
<1>10. PeriodicRows' /\ PeriodsOnward
  <2>1. ~(Rank(r.state) >= 4) /\ r.state # "SCHEDULED"
    BY <1>6, <1>8, RankOf
  <2>2. Rank(registry[p].state) <= Rank(r.state)
    BY <1>6, <1>8
  <2> QED BY <1>1, <1>2, <1>8, <1>9, <2>1, <2>2, RegistryStep
<1>11. PICK c : c = control[p]
  OBVIOUS
<1>12. PICK j : j = [phase |-> "entered", period |-> p, record |-> d, control |-> c]
  OBVIOUS
<1>13. Periodic!Go(s, j)
  BY <1>3, <1>5, <1>11, <1>12 DEF Periodic!Enter
<1>14. PeriodicTyped' => Periodic!JobInv(j)'
  <2>1. c \in Periodic!Controls /\ c.cursor <= c.high /\ c.high < c.next /\ control'[p] = c
    BY <1>1, <1>2, <1>11 DEF PeriodicTyped
  <2>2. c.pass <= c.pass /\ c.cursor <= c.cursor
    BY <2>1 DEF Periodic!Controls
  <2>3. j.phase = "entered" /\ j.period = p /\ j.record = d /\ j.control = c
    BY <1>12
  <2> QED BY <1>6, <2>1, <2>2, <2>3 DEF Periodic!JobInv, Periodic!Periods
<1> QED BY <1>1, <1>10, <1>13, <1>14, PeriodicWrites

\* The first of the work that is left, as a query returns it, ...
FirstOf(left) == {o \in left : Periodic!Cardinality({i \in left : i <= o}) <= Limit}

\* ... with its rows, ...
ItemsOf(items, w) == {[ordinal |-> o, row |-> w[o]] : o \in items}

\* ... and those up to one.
UpTo(left, o) == {i \in left : i <= o}

\* What a query of the work after a cursor returns: it is all there is, or less than the rest.
LEMMA PeriodicQuery ==
  ASSUME Periodic!WorkAssumption, NEW left, left \subseteq 1 .. MaxOrdinal, NEW o \in left, o \notin FirstOf(left)
  PROVE  FirstOf(left) # left /\ \A q \in FirstOf(left) : q < o
<1>1. \A q \in left : q \in FirstOf(left) <=> Cardinality(UpTo(left, q)) <= Limit
  BY PeriodicCount DEF FirstOf, UpTo
<1>2. FirstOf(left) \subseteq left
  BY DEF FirstOf
<1>3. \A i \in left : i \in Nat
  BY PeriodicSettings
<1>4. ASSUME NEW q \in FirstOf(left), o <= q PROVE FALSE
  <2>1. q \in left
    BY <1>2
  <2>2. UpTo(left, o) \subseteq UpTo(left, q)
    <3>1. \A i \in left : i <= o => i <= q
      BY <1>3, <1>4, <2>1
    <3> QED BY <3>1 DEF UpTo
  <2>3. IsFiniteSet(UpTo(left, q))
    <3>1. UpTo(left, q) \subseteq 1 .. MaxOrdinal
      BY DEF UpTo
    <3>2. IsFiniteSet(1 .. MaxOrdinal)
      BY FS_Interval, PeriodicSettings
    <3> QED BY <3>1, <3>2, FS_Subset
  <2>4. /\ Cardinality(UpTo(left, o)) <= Cardinality(UpTo(left, q))
        /\ Cardinality(UpTo(left, o)) \in Nat /\ Cardinality(UpTo(left, q)) \in Nat
    BY <2>2, <2>3, FS_Subset, FS_CardinalityType
  <2>5. Cardinality(UpTo(left, q)) <= Limit /\ ~(Cardinality(UpTo(left, o)) <= Limit)
    BY <1>1, <2>1
  <2> QED BY <2>4, <2>5, PeriodicSettings
<1>5. FirstOf(left) # left
  OBVIOUS
<1>6. ASSUME NEW q \in FirstOf(left) PROVE q < o
  <2>1. q \in Nat /\ o \in Nat /\ ~(o <= q)
    BY <1>2, <1>3, <1>4
  <2> QED BY <2>1
<1> QED BY <1>5, <1>6

\* The items of a query are those ordinals, each with its row.
LEMMA PeriodicItemsHave ==
  ASSUME NEW items, NEW w
  PROVE  /\ {i.ordinal : i \in ItemsOf(items, w)} = items
         /\ \A i, k \in ItemsOf(items, w) : i.ordinal = k.ordinal => i = k
         /\ \A i \in ItemsOf(items, w) : i.ordinal \in items /\ i = [ordinal |-> i.ordinal, row |-> w[i.ordinal]]
<1>1. \A i \in ItemsOf(items, w) : i.ordinal \in items /\ i = [ordinal |-> i.ordinal, row |-> w[i.ordinal]]
  BY DEF ItemsOf
<1>2. \A o \in items : \E i \in ItemsOf(items, w) : i.ordinal = o
  <2> TAKE o \in items
  <2>1. [ordinal |-> o, row |-> w[o]] \in ItemsOf(items, w)
    BY DEF ItemsOf
  <2> QED BY <2>1
<1> QED BY <1>1, <1>2

\* A run that has queried what is next.
QueryOf(p, record, c, left, w) ==
  [phase |-> "items", period |-> p, record |-> record, pass |-> c.pass, cursor |-> c.cursor, due |-> None,
   items |-> ItemsOf(FirstOf(left), w), left |-> Attempts,
   whole |-> Periodic!Cardinality(FirstOf(left)) <= Attempts /\ FirstOf(left) = left]

\* It is of its kind.
LEMMA PeriodicPassing ==
  ASSUME Periodic!WorkAssumption, NEW p \in 1 .. Last, NEW record \in {"OPEN", "CLOSING", "DRAINING"},
         NEW c \in Periodic!Controls, NEW left, NEW w,
         ItemsOf(FirstOf(left), w) \subseteq [ordinal : 1 .. MaxOrdinal, row : Periodic!WorkRows]
  PROVE  QueryOf(p, record, c, left, w) \in Periodic!Passing
<1>1. c.pass \in Nat /\ c.cursor \in Nat /\ Attempts \in Nat
  BY PeriodicSettings DEF Periodic!Controls
<1> DEFINE whole == Periodic!Cardinality(FirstOf(left)) <= Attempts /\ FirstOf(left) = left
           its == ItemsOf(FirstOf(left), w)
<1>2. whole \in BOOLEAN /\ its \in SUBSET [ordinal : 1 .. MaxOrdinal, row : Periodic!WorkRows]
  OBVIOUS
<1> HIDE DEF whole, its
<1>3. [phase |-> "items", period |-> p, record |-> record, pass |-> c.pass, cursor |-> c.cursor, due |-> None,
       items |-> its, left |-> Attempts, whole |-> whole] \in Periodic!Passing
  BY <1>1, <1>2 DEF Periodic!Passing, Periodic!Ordinals, Periodic!Periods
<1> QED BY <1>3 DEF whole, its, QueryOf

\* A run has queried what is next.
LEMMA PeriodicItemsKnown ==
  ASSUME Periodic!WorkAssumption, PeriodicTyped', NEW p \in 1 .. Last, NEW c \in Periodic!Controls,
         NEW record \in {"OPEN", "CLOSING", "DRAINING"}, NEW left, NEW j,
         left = {o \in c.cursor + 1 .. c.high : work'[p][o] # None},
         j = QueryOf(p, record, c, left, work'[p]),
         c.pass <= control'[p].pass,
         c.pass = control'[p].pass =>
           c.high = control'[p].high /\ \A o \in 1 .. MaxOrdinal : o <= c.cursor /\ work'[p][o] # None => o \in tried'[p]
  PROVE  Periodic!JobInv(j)'
<1>1. /\ c.cursor \in Nat /\ c.high \in Nat /\ c.high <= MaxOrdinal /\ c.pass \in Nat /\ Attempts \in Nat
      /\ MaxOrdinal \in Nat
  BY PeriodicSettings DEF Periodic!Controls
<1> DEFINE items == FirstOf(left)
           its == ItemsOf(items, work'[p])
           at == {i.ordinal : i \in its}
           whole == Periodic!Cardinality(items) <= Attempts /\ items = left
<1>2. left \subseteq 1 .. MaxOrdinal /\ items \subseteq left
  BY <1>1 DEF FirstOf
<1>3. \A o \in left : o \in Nat /\ c.cursor < o /\ o <= c.high /\ work'[p][o] \in Periodic!WorkRows
  BY <1>1, <1>2 DEF PeriodicTyped
<1>4. /\ at = items /\ \A i, k \in its : i.ordinal = k.ordinal => i = k
      /\ \A i \in its : i.ordinal \in items /\ i = [ordinal |-> i.ordinal, row |-> work'[p][i.ordinal]]
  BY PeriodicItemsHave
<1> HIDE DEF items, its
<1>5. its \subseteq [ordinal : 1 .. MaxOrdinal, row : Periodic!WorkRows]
  BY <1>2, <1>3, <1>4
<1>6. whole \in BOOLEAN
  OBVIOUS
<1>7. ASSUME c.pass = control'[p].pass
      PROVE  /\ \A o \in items : o <= control'[p].high
             /\ \A o \in 1 .. MaxOrdinal : o <= control'[p].high /\ work'[p][o] # None =>
                  o \in tried'[p] \cup items \/ (~whole /\ \A q \in items : q < o)
  <2>1. \A o \in items : o <= control'[p].high
    BY <1>2, <1>3, <1>7
  <2>2. ASSUME NEW o \in 1 .. MaxOrdinal, o <= control'[p].high, work'[p][o] # None, o \notin tried'[p], o \notin items
        PROVE  ~whole /\ \A q \in items : q < o
    <3>1. ~(o <= c.cursor)
      BY <1>7, <2>2
    <3>2. o \in left
      BY <1>1, <1>7, <2>2, <3>1
    <3>3. items # left /\ \A q \in items : q < o
      BY <1>2, <2>2, <3>2, PeriodicQuery DEF items
    <3> QED BY <3>3
  <2> QED BY <2>1, <2>2
<1> HIDE DEF whole
<1>8. /\ j.phase = "items" /\ j.period = p /\ j.pass = c.pass /\ j.cursor = c.cursor /\ j.items = its
      /\ j.left = Attempts /\ j.whole = whole
      /\ j \in Periodic!Passing
  <2>1. j \in Periodic!Passing
    BY <1>5, PeriodicPassing DEF items, its
  <2> QED BY <2>1 DEF QueryOf, its, whole, items
<1>9. Periodic!Cardinality(at) = Periodic!Cardinality(items) /\ (whole => Periodic!Cardinality(items) <= Attempts)
  BY <1>4 DEF whole
<1>10. \A o \in at : c.cursor < o
  BY <1>2, <1>3, <1>4
<1>11. Periodic!ItemsInv(j)'
  <2>1. {i.ordinal : i \in j.items} = at
    BY <1>8
  <2> HIDE DEF at
  <2> QED BY <1>4, <1>7, <1>8, <1>9, <1>10, <2>1 DEF Periodic!ItemsInv, Periodic!Ordinals
<1> QED BY <1>8, <1>11 DEF Periodic!JobInv, Periodic!Periods

\* A pass that came to its end is followed by a new one, over the work there is then.
LEMMA PeriodicBegins ==
  ASSUME Periodic!WorkAssumption, Periodic!IInv, NEW s \in Sweeps, Periodic!Begin(s)
  PROVE  Periodic!IInv' /\ PeriodsOnward
<1>1. /\ job[s] # Periodic!Idle /\ job[s].phase = "entered"
      /\ UNCHANGED <<now, registry, target, work, lookup, key, prefix, sweep, waiting>>
  <2>1. /\ job[s].phase = "entered"
        /\ UNCHANGED <<now, registry, target, work, lookup, key, prefix, sweep, waiting>>
    BY Zenon DEF Periodic!Begin
  <2> QED BY <2>1 DEF Periodic!Idle
<1>2. PeriodicRows /\ PeriodicTyped /\ Periodic!JobInv(job[s]) /\ now \in 0 .. MaxTime
  BY <1>1, PeriodicRun DEF PeriodicTyped
<1>3. PICK p \in 1 .. Last : p = job[s].period
  BY <1>1, PeriodicRun
<1>4. PICK b \in Periodic!Controls : b = job[s].control
  BY <1>1, <1>2 DEF Periodic!JobInv
<1>5. PICK record \in {"OPEN", "CLOSING", "DRAINING"} : record = job[s].record
  BY <1>1, <1>2 DEF Periodic!JobInv
<1>6. /\ b.cursor <= b.high /\ b.high < b.next /\ b.pass <= control[p].pass
      /\ b.pass = control[p].pass => b.high = control[p].high /\ b.cursor <= control[p].cursor
  BY <1>1, <1>2, <1>3, <1>4 DEF Periodic!JobInv
<1>7. PICK a : a = [b EXCEPT !.revision = @ + 1, !.pass = @ + 1, !.cursor = 0, !.high = b.next - 1]
  OBVIOUS
<1>8. PICK c : c = IF b.cursor = b.high THEN a ELSE b
  OBVIOUS
<1>9. control[p] \in Periodic!Controls /\ CoveredOf(p) /\ MaxOrdinal \in Nat
  BY <1>2, PeriodicParts, PeriodicSettings DEF PeriodicTyped
<1>10. PICK left : left = {o \in c.cursor + 1 .. c.high : work[p][o] # None}
  OBVIOUS
<1>11. PICK j : j = QueryOf(p, record, c, left, work[p])
  OBVIOUS
<1>12. /\ Periodic!Go(s, j)
       /\ b.cursor = b.high => control[p] = b
       /\ control' = (IF b.cursor = b.high THEN [control EXCEPT ![p] = c] ELSE control)
       /\ tried' = (IF b.cursor = b.high THEN [tried EXCEPT ![p] = {}] ELSE tried)
  <2> DEFINE q == job[s].period
             ended == job[s].control.cursor = job[s].control.high
             at == IF ended THEN [job[s].control EXCEPT !.revision = @ + 1, !.pass = @ + 1, !.cursor = 0,
                                                        !.high = job[s].control.next - 1]
                            ELSE job[s].control
             rest == {o \in at.cursor + 1 .. at.high : work[q][o] # None}
             items == {o \in rest : Periodic!Cardinality({i \in rest : i <= o}) <= Limit}
  <2>1. /\ ended => control[q] = job[s].control
        /\ control' = (IF ended THEN [control EXCEPT ![q] = at] ELSE control)
        /\ tried' = (IF ended THEN [tried EXCEPT ![q] = {}] ELSE tried)
        /\ Periodic!Go(s, [phase |-> "items", period |-> q, record |-> job[s].record,
                          pass |-> at.pass, cursor |-> at.cursor, due |-> None,
                          items |-> {[ordinal |-> o, row |-> work[q][o]] : o \in items}, left |-> Attempts,
                          whole |-> Periodic!Cardinality(items) <= Attempts /\ items = rest])
    BY Zenon DEF Periodic!Begin
  <2>2. (ended <=> b.cursor = b.high) /\ at = c
    BY <1>4, <1>7, <1>8
  <2> HIDE DEF ended, at
  <2>3. rest = left
    BY <1>3, <1>10, <2>2
  <2>4. items = FirstOf(rest) /\ {[ordinal |-> o, row |-> work[q][o]] : o \in items} = ItemsOf(items, work[q])
    BY DEF FirstOf, ItemsOf
  <2> HIDE DEF rest, items
  <2>5. Periodic!Go(s, j)
    BY <1>3, <1>5, <1>11, <2>1, <2>2, <2>3, <2>4 DEF QueryOf
  <2> HIDE DEF q
  <2> QED BY <1>3, <1>4, <2>1, <2>2, <2>5 DEF q
<1>13. CASE b.cursor = b.high
  <2>1. c = a /\ control[p] = b /\ control' = [control EXCEPT ![p] = c] /\ tried' = [tried EXCEPT ![p] = {}]
    BY <1>8, <1>12, <1>13
  <2>2. /\ c \in Periodic!Controls /\ c.next = b.next /\ c.pending = b.pending /\ c.pass = b.pass + 1
        /\ c.cursor = 0 /\ c.high = b.next - 1
    <3>1. PICK r, n, h : r = b.revision + 1 /\ n = b.pass + 1 /\ h = b.next - 1
      OBVIOUS
    <3>2. r \in Nat /\ n \in Nat /\ h \in 0 .. MaxOrdinal
      BY <1>9, <3>1 DEF Periodic!Controls
    <3>3. c = [b EXCEPT !.revision = r, !.pass = n, !.cursor = 0, !.high = h]
      BY <1>7, <2>1, <3>1
    <3>4. /\ c \in Periodic!Controls /\ c.next = b.next /\ c.pending = b.pending /\ c.pass = n
          /\ c.cursor = 0 /\ c.high = h
      BY <3>2, <3>3 DEF Periodic!Controls
    <3> QED BY <3>1, <3>4
  <2>3. /\ c.cursor <= c.high /\ c.high < c.next /\ control[p].pass < c.pass
        /\ \A o \in 1 .. MaxOrdinal : ~(o <= c.cursor)
    BY <1>9, <2>1, <2>2 DEF Periodic!Controls
  <2>4. PeriodicRows' /\ PeriodsOnward
    <3>1. {} \in SUBSET Nat
      OBVIOUS
    <3> QED BY <1>1, <1>2, <2>1, <2>2, <2>3, <3>1, ControlStep
  <2>5. control'[p] = c
    BY <1>2, <2>1 DEF PeriodicTyped
  <2>6. PeriodicTyped' => Periodic!JobInv(j)'
    <3>1. work' = work /\ c.pass <= c.pass
      BY <1>1, <2>2 DEF Periodic!Controls
    <3> QED BY <1>10, <1>11, <2>2, <2>3, <2>5, <3>1, PeriodicItemsKnown
  <2> QED BY <1>1, <1>12, <2>4, <2>6, PeriodicWrites
<1>14. CASE b.cursor # b.high
  <2>1. c = b /\ control' = control /\ tried' = tried
    BY <1>8, <1>12, <1>14
  <2>2. UNCHANGED <<periodic, now, prefix, sweep, waiting>>
    BY <1>1, <2>1 DEF periodic
  <2>3. c.pass = control'[p].pass =>
          c.high = control'[p].high /\ \A o \in 1 .. MaxOrdinal : o <= c.cursor /\ work'[p][o] # None => o \in tried'[p]
    <3> SUFFICES ASSUME b.pass = control[p].pass, NEW o \in 1 .. MaxOrdinal, o <= b.cursor, work[p][o] # None
                 PROVE  o \in tried[p]
      BY <1>1, <1>6, <2>1
    <3>1. o <= control[p].cursor
      BY <1>6, <1>9 DEF Periodic!Controls
    <3> QED BY <1>9, <3>1 DEF CoveredOf
  <2>4. work' = work /\ c.pass <= control'[p].pass /\ c \in Periodic!Controls
    BY <1>1, <1>6, <2>1
  <2>5. PeriodicTyped' => Periodic!JobInv(j)'
    BY <1>10, <1>11, <2>3, <2>4, PeriodicItemsKnown
  <2> QED BY <1>1, <1>12, <2>2, <2>5, PeriodicGoes
<1> QED BY <1>13, <1>14

\* The first of what is at hand.
LEMMA PeriodicFirst ==
  ASSUME NEW items, items \subseteq [ordinal : 1 .. MaxOrdinal, row : Periodic!WorkRows], items # {}
  PROVE  \E i \in items : \A k \in items : i.ordinal <= k.ordinal
<1> DEFINE at == {i.ordinal : i \in items}
           R == {x \in Nat \X Nat : x[1] < x[2]}
<1>1. at \subseteq Nat /\ at # {} /\ \A i \in items : i.ordinal \in at
  OBVIOUS
<1>2. IsWellFoundedOn(R, Nat)
  <2>1. R = OpToRel(<, Nat)
    BY Zenon DEF OpToRel
  <2> QED BY <2>1, NatLessThanWellFounded
<1>3. \A m, n \in Nat : m < n => <<m, n>> \in R
  OBVIOUS
<1>4. PICK m \in at : \A y \in at : ~(<<y, m>> \in R)
  <2> HIDE DEF at, R
  <2> QED BY <1>1, <1>2, WFMin, Zenon
<1>5. PICK i \in items : i.ordinal = m
  OBVIOUS
<1> HIDE DEF R
<1>6. \A k \in items : i.ordinal <= k.ordinal
  <2> SUFFICES ASSUME NEW k \in items, ~(i.ordinal <= k.ordinal) PROVE FALSE
    OBVIOUS
  <2>1. k.ordinal \in Nat /\ i.ordinal \in Nat /\ k.ordinal < m
    BY <1>5
  <2> QED BY <1>1, <1>3, <1>4, <1>5, <2>1
<1> QED BY <1>6

\* What a run in its pass has at hand.
LEMMA PeriodicAtHand ==
  ASSUME Periodic!WorkAssumption, NEW j, Periodic!JobInv(j), j.phase = "items"
  PROVE  /\ j \in Periodic!Passing /\ j.period \in 1 .. Last /\ j.pass <= control[j.period].pass
         /\ \A o \in {i.ordinal : i \in j.items} : j.cursor < o
         /\ \A i, k \in j.items : i.ordinal = k.ordinal => i = k
         /\ j.whole => Cardinality({i.ordinal : i \in j.items}) <= j.left
         /\ j.pass = control[j.period].pass =>
              /\ \A o \in {i.ordinal : i \in j.items} : o <= control[j.period].high
              /\ \A o \in 1 .. MaxOrdinal : o <= control[j.period].high /\ work[j.period][o] # None =>
                   \/ o \in tried[j.period] \cup {i.ordinal : i \in j.items}
                   \/ ~j.whole /\ \A q \in {i.ordinal : i \in j.items} : q < o
BY PeriodicCount DEF Periodic!JobInv, Periodic!ItemsInv, Periodic!Ordinals, Periodic!Periods

\* That is what there is to know of it.
LEMMA PeriodicInHand ==
  ASSUME Periodic!WorkAssumption, NEW j, j \in Periodic!Passing, NEW at, at = {i.ordinal : i \in j.items},
         j.pass <= control'[j.period].pass, \A o \in at : j.cursor < o,
         \A i, k \in j.items : i.ordinal = k.ordinal => i = k, j.whole => Cardinality(at) <= j.left,
         j.pass = control'[j.period].pass =>
           /\ \A o \in at : o <= control'[j.period].high
           /\ \A o \in 1 .. MaxOrdinal : o <= control'[j.period].high /\ work'[j.period][o] # None =>
                o \in tried'[j.period] \cup at \/ (~j.whole /\ \A q \in at : q < o)
  PROVE  Periodic!JobInv(j)'
<1>1. Periodic!ItemsInv(j)'
  BY PeriodicCount DEF Periodic!ItemsInv, Periodic!Ordinals
<1>2. j.phase = "items" /\ j.period \in Periodic!Periods
  BY DEF Periodic!Passing
<1> QED BY <1>1, <1>2 DEF Periodic!JobInv

\* A period's cursor comes to the next item; whatever becomes of that, the pass came to it.
LEMMA PeriodicAdvances ==
  ASSUME Periodic!WorkAssumption, Periodic!IInv, NEW s \in Sweeps, Periodic!Advance(s)
  PROVE  Periodic!IInv' /\ PeriodsOnward
<1>1. /\ job[s] # Periodic!Idle /\ job[s].phase = "items" /\ job[s].items # {} /\ job[s].left > 0
      /\ UNCHANGED <<now, registry, target, work, lookup, key, prefix, sweep, waiting>>
  BY DEF Periodic!Advance, Periodic!Idle
<1>2. PICK b : b = job[s]
  OBVIOUS
<1>3. PICK p \in 1 .. Last : p = b.period
  BY <1>1, <1>2, PeriodicRun
<1>4. PeriodicRows /\ PeriodicTyped /\ CoveredOf(p) /\ Periodic!JobInv(b) /\ b.phase = "items" /\ b.items # {} /\ b.left > 0
  BY <1>1, <1>2, <1>3, PeriodicRun
<1>5. PICK at : at = {i.ordinal : i \in b.items}
  OBVIOUS
<1>6. PICK i : i = Periodic!Item(s)
  OBVIOUS
<1>7. b \in Periodic!Passing
  BY <1>4, PeriodicAtHand
<1>8. /\ b.items \subseteq [ordinal : 1 .. MaxOrdinal, row : Periodic!WorkRows] /\ b.left \in Nat /\ b.pass \in Nat
      /\ b.cursor \in Nat /\ b.whole \in BOOLEAN
  BY <1>7 DEF Periodic!Passing, Periodic!Ordinals
<1>9. i \in b.items /\ \A k \in b.items : i.ordinal <= k.ordinal
  <2>1. \E x \in b.items : \A k \in b.items : x.ordinal <= k.ordinal
    BY <1>4, <1>8, PeriodicFirst
  <2> QED BY <1>2, <1>6, <2>1 DEF Periodic!Item
<1>10. PICK o : o = i.ordinal
  OBVIOUS
<1>11. o \in 1 .. MaxOrdinal /\ o \in Nat /\ o \in at /\ (\A q \in at : o <= q) /\ i.row \in Periodic!WorkRows
  BY <1>5, <1>8, <1>9, <1>10
<1>12. /\ \A q \in at : b.cursor < q
       /\ \A x, y \in b.items : x.ordinal = y.ordinal => x = y
       /\ b.whole => Cardinality(at) <= b.left
       /\ b.pass = control[p].pass =>
            /\ \A q \in at : q <= control[p].high
            /\ \A r \in 1 .. MaxOrdinal : r <= control[p].high /\ work[p][r] # None =>
                 r \in tried[p] \cup at \/ (~b.whole /\ \A q \in at : q < r)
  BY <1>3, <1>4, <1>5, PeriodicAtHand
<1>13. /\ control[p].pass = b.pass /\ control[p].cursor = b.cursor
       /\ control' = [control EXCEPT ![p].revision = @ + 1, ![p].cursor = o]
       /\ tried' = [tried EXCEPT ![p] = @ \cup {o}]
  BY <1>2, <1>3, <1>6, <1>10 DEF Periodic!Advance
<1>14. PICK d : d = IF work[p][o] # None /\ (b.record = "DRAINING" \/ i.row.deadline <= now) THEN i.row ELSE None
  OBVIOUS
<1>15. PICK k : k = [b EXCEPT !.items = @ \ {i}, !.cursor = o, !.left = @ - 1, !.due = d]
  OBVIOUS
<1>16. Periodic!Go(s, k)
  BY <1>2, <1>3, <1>6, <1>10, <1>14, <1>15 DEF Periodic!Advance
<1>17. control[p] \in Periodic!Controls /\ control[p].high < control[p].next /\ tried[p] \subseteq Nat
  BY <1>4 DEF PeriodicTyped
<1>18. PICK c : c = [control[p] EXCEPT !.revision = @ + 1, !.cursor = o]
  OBVIOUS
<1>19. /\ c \in Periodic!Controls /\ c.next = control[p].next /\ c.pending = control[p].pending /\ c.pass = control[p].pass
       /\ c.high = control[p].high /\ c.cursor = o
  <2>1. PICK r, x : r = control[p].revision + 1 /\ x = control[p]
    OBVIOUS
  <2>2. c = [x EXCEPT !.revision = r, !.cursor = o] /\ x \in Periodic!Controls /\ r \in Nat
    BY <1>17, <1>18, <2>1 DEF Periodic!Controls
  <2>3. /\ c \in Periodic!Controls /\ c.next = x.next /\ c.pending = x.pending /\ c.pass = x.pass
        /\ c.high = x.high /\ c.cursor = o
    BY <1>11, <2>2 DEF Periodic!Controls
  <2> QED BY <2>1, <2>3
<1>20. control' = [control EXCEPT ![p] = c] /\ control'[p] = c /\ tried' = [tried EXCEPT ![p] = tried[p] \cup {o}]
       /\ tried'[p] = tried[p] \cup {o}
  BY <1>4, <1>13, <1>18 DEF PeriodicTyped
<1>21. c.cursor <= c.high /\ c.high < c.next /\ control[p].cursor <= c.cursor
  <2>1. o <= control[p].high /\ b.cursor < o
    BY <1>11, <1>12, <1>13
  <2> QED BY <1>8, <1>11, <1>13, <1>17, <1>19, <2>1
<1>22. \A r \in 1 .. MaxOrdinal : r <= c.cursor /\ work[p][r] # None => r \in tried[p] \cup {o}
  <2> SUFFICES ASSUME NEW r \in 1 .. MaxOrdinal, r <= o, work[p][r] # None, r # o PROVE r \in tried[p]
    BY <1>19
  <2>1. r <= control[p].high /\ r \in Nat
    BY <1>11, <1>17, <1>19, <1>21 DEF Periodic!Controls
  <2>2. r \notin at /\ ~(o < r)
    BY <1>11, <2>1
  <2> QED BY <1>11, <1>12, <1>13, <2>1, <2>2
<1>23. PeriodicRows' /\ PeriodsOnward
  <2>1. tried[p] \cup {o} \in SUBSET Nat /\ tried[p] \subseteq tried[p] \cup {o}
    BY <1>11, <1>17
  <2> QED BY <1>1, <1>4, <1>19, <1>20, <1>21, <1>22, <2>1, ControlStep
<1>24. Periodic!JobInv(k)'
  <2>1. PICK its : its = b.items \ {i}
    OBVIOUS
  <2>2. PICK n \in Nat : n = b.left - 1
    BY <1>4, <1>8
  <2>3. d \in Periodic!WorkRows \cup {None}
    BY <1>11, <1>14
  <2>4. k = [b EXCEPT !.items = its, !.cursor = o, !.left = n, !.due = d]
    BY <1>15, <2>1, <2>2
  <2>5. its \in SUBSET [ordinal : Periodic!Ordinals, row : Periodic!WorkRows]
    BY <1>8, <2>1 DEF Periodic!Ordinals
  <2>6. /\ k \in Periodic!Passing /\ k.items = its /\ k.cursor = o /\ k.left = n
        /\ k.period = b.period /\ k.pass = b.pass /\ k.whole = b.whole
    BY <1>7, <1>11, <2>2, <2>3, <2>4, <2>5 DEF Periodic!Passing
  <2>7. PICK rest : rest = {x.ordinal : x \in k.items}
    OBVIOUS
  <2>8. rest = at \ {o}
    <3>1. \A x \in b.items : x.ordinal = o => x = i
      BY <1>9, <1>10, <1>12
    <3> QED BY <1>5, <1>10, <2>1, <2>6, <2>7, <3>1
  <2>9. k.pass <= control'[k.period].pass /\ control'[k.period] = c /\ tried'[k.period] = tried[p] \cup {o}
    BY <1>3, <1>8, <1>13, <1>19, <1>20, <2>6
  <2>10. \A q \in rest : k.cursor < q
    <3>1. \A q \in at : q \in Nat
      BY <1>5, <1>8
    <3> QED BY <1>11, <2>6, <2>8, <3>1
  <2>11. \A x, y \in k.items : x.ordinal = y.ordinal => x = y
    BY <1>12, <2>1, <2>6
  <2>12. k.whole => Cardinality(rest) <= k.left
    <3>1. IsFiniteSet(at)
      <4>1. at \subseteq 1 .. MaxOrdinal
        BY <1>5, <1>8
      <4>2. IsFiniteSet(1 .. MaxOrdinal)
        BY FS_Interval, PeriodicSettings
      <4> QED BY <4>1, <4>2, FS_Subset
    <3>2. Cardinality(rest) = Cardinality(at) - 1 /\ Cardinality(at) \in Nat
      BY <1>11, <2>8, <3>1, FS_RemoveElement, FS_CardinalityType
    <3> QED BY <1>8, <1>12, <2>2, <2>6, <3>2
  <2>13. \A q \in rest : q <= c.high
    BY <1>12, <1>13, <1>19, <2>8
  <2>14. ASSUME NEW r \in 1 .. MaxOrdinal, r <= c.high, work[p][r] # None
         PROVE  r \in (tried[p] \cup {o}) \cup rest \/ (~b.whole /\ \A q \in rest : q < r)
    BY <1>12, <1>13, <1>19, <2>8, <2>14
  <2>15. work' = work
    BY <1>1
  <2>16. \A r \in 1 .. MaxOrdinal : r <= control'[k.period].high /\ work'[k.period][r] # None =>
           r \in tried'[k.period] \cup rest \/ (~k.whole /\ \A q \in rest : q < r)
    BY <1>3, <2>6, <2>9, <2>14, <2>15
  <2> QED BY <2>6, <2>7, <2>9, <2>10, <2>11, <2>12, <2>13, <2>16, PeriodicInHand
<1> QED BY <1>1, <1>16, <1>23, <1>24, PeriodicWrites

\* A pass that came to its end says so; a period that drains and has nothing left is next to be sealed.
LEMMA PeriodicFinishes ==
  ASSUME Periodic!WorkAssumption, Periodic!IInv, NEW s \in Sweeps, Periodic!Finish(s)
  PROVE  Periodic!IInv' /\ PeriodsOnward
<1>1. /\ job[s] # Periodic!Idle /\ job[s].phase = "items" /\ (job[s].items = {} \/ job[s].left = 0)
      /\ UNCHANGED <<now, registry, target, work, lookup, key, prefix, sweep, tried, waiting>>
  BY DEF Periodic!Finish, Periodic!Idle
<1>2. PICK b : b = job[s]
  OBVIOUS
<1>3. PICK p \in 1 .. Last : p = b.period
  BY <1>1, <1>2, PeriodicRun
<1>4. PeriodicRows /\ PeriodicTyped /\ CoveredOf(p) /\ Periodic!JobInv(b) /\ b.phase = "items" /\ now \in 0 .. MaxTime
  BY <1>1, <1>2, <1>3, PeriodicRun DEF PeriodicTyped
<1>5. PICK at : at = {i.ordinal : i \in b.items}
  OBVIOUS
<1>6. b \in Periodic!Passing
  BY <1>4, PeriodicAtHand
<1>7. control[p] \in Periodic!Controls /\ control[p].high < control[p].next /\ tried[p] \subseteq Nat
      /\ control[p].cursor <= control[p].high
  BY <1>4 DEF PeriodicTyped
<1>8. PeriodicRows' /\ PeriodsOnward
  <2>1. CASE b.whole
    <3>1. control[p].pass = b.pass /\ control' = [control EXCEPT ![p].revision = @ + 1, ![p].cursor = control[p].high]
      BY <1>2, <1>3, <2>1 DEF Periodic!Finish, Periodic!WholePass
    <3>2. PICK c : c = [control[p] EXCEPT !.revision = @ + 1, !.cursor = control[p].high]
      OBVIOUS
    <3>3. /\ c \in Periodic!Controls /\ c.next = control[p].next /\ c.pending = control[p].pending
          /\ c.pass = control[p].pass /\ c.high = control[p].high /\ c.cursor = control[p].high
      <4>1. PICK r, h, x : r = control[p].revision + 1 /\ x = control[p] /\ h = control[p].high
        OBVIOUS
      <4>2. c = [x EXCEPT !.revision = r, !.cursor = h] /\ x \in Periodic!Controls /\ r \in Nat /\ h \in Nat
        BY <1>7, <3>2, <4>1 DEF Periodic!Controls
      <4>3. /\ c \in Periodic!Controls /\ c.next = x.next /\ c.pending = x.pending /\ c.pass = x.pass
            /\ c.high = x.high /\ c.cursor = h
        BY <4>2 DEF Periodic!Controls
      <4> QED BY <4>1, <4>3
    <3>4. control' = [control EXCEPT ![p] = c] /\ tried' = [tried EXCEPT ![p] = tried[p]]
      BY <1>1, <1>4, <3>1, <3>2 DEF PeriodicTyped
    <3>5. at = {}
      <4>1. CASE b.items = {}
        BY <1>5, <4>1
      <4>2. CASE b.left = 0
        <5>1. Cardinality(at) <= 0
          BY <1>4, <1>5, <2>1, <4>2, PeriodicAtHand
        <5>2. at \subseteq 1 .. MaxOrdinal
          BY <1>5, <1>6 DEF Periodic!Passing, Periodic!Ordinals
        <5>3. IsFiniteSet(at)
          <6>1. IsFiniteSet(1 .. MaxOrdinal)
            BY FS_Interval, PeriodicSettings
          <6> QED BY <5>2, <6>1, FS_Subset
        <5>4. Cardinality(at) = 0
          BY <5>1, <5>3, FS_CardinalityType
        <5> QED BY <5>3, <5>4, FS_EmptySet
      <4> QED BY <1>1, <1>2, <4>1, <4>2
    <3>6. \A o \in 1 .. MaxOrdinal : o <= c.cursor /\ work[p][o] # None => o \in tried[p]
      BY <1>3, <1>4, <1>5, <2>1, <3>1, <3>3, <3>5, PeriodicAtHand
    <3>7. c.cursor <= c.high /\ c.high < c.next /\ control[p].cursor <= c.cursor /\ tried[p] \in SUBSET Nat
      BY <1>7, <3>3 DEF Periodic!Controls
    <3> QED BY <1>1, <1>4, <3>3, <3>4, <3>6, <3>7, ControlStep
  <2>2. CASE ~b.whole
    <3>1. control' = control
      BY <1>2, <2>2 DEF Periodic!Finish, Periodic!WholePass
    <3> QED BY <1>1, <1>4, <3>1, NoPeriod DEF periodic
  <2> QED BY <2>1, <2>2
<1>9. CASE Periodic!Go(s, Periodic!Idle)
  <2>1. PICK j : j = Periodic!Idle
    OBVIOUS
  <2>2. Periodic!Go(s, j)
    BY <1>9, <2>1
  <2>3. j # Periodic!Idle => Periodic!JobInv(j)'
    BY <2>1
  <2> QED BY <1>1, <1>8, <2>2, <2>3, PeriodicWrites
<1>10. CASE b.record = "DRAINING"
            /\ Periodic!Go(s, [phase |-> "drained", period |-> p, record |-> b.record, control |-> control'[p]])
  <2>1. PICK c : c = control'[p]
    OBVIOUS
  <2>2. PICK j : j = [phase |-> "drained", period |-> p, record |-> b.record, control |-> c]
    OBVIOUS
  <2>3. Periodic!Go(s, j)
    BY <1>10, <2>1, <2>2
  <2>4. PeriodicTyped' => Periodic!JobInv(j)'
    BY <1>10, <2>2, PeriodicPlain
  <2> QED BY <1>1, <1>8, <2>3, <2>4, PeriodicWrites
<1> QED BY <1>2, <1>3, <1>9, <1>10 DEF Periodic!Finish

\* A period that drains and has no work left has no rows left: it is sealed.
LEMMA PeriodicSeals ==
  ASSUME Periodic!WorkAssumption, Periodic!IInv, NEW s \in Sweeps, Periodic!Seal(s)
  PROVE  Periodic!IInv' /\ PeriodsOnward
<1>1. /\ job[s] # Periodic!Idle /\ job[s].phase = "drained"
      /\ UNCHANGED <<now, control, target, work, lookup, key, prefix, sweep, tried, waiting>>
  BY DEF Periodic!Seal, Periodic!Idle
<1>2. PICK p \in 1 .. Last : p = job[s].period
  BY <1>1, PeriodicRun
<1>3. PeriodicRows /\ PeriodicTyped /\ IndexOf(p) /\ Periodic!JobInv(job[s])
  BY <1>1, <1>2, PeriodicRun
<1>4. registry[p].state = "DRAINING"
  BY <1>1, <1>2, <1>3 DEF Periodic!JobInv, Periodic!Seal, Periodic!Holds
<1>5. \A o \in 1 .. MaxOrdinal : work[p][o] = None
  BY <1>2 DEF Periodic!Seal, Periodic!Empty, Periodic!Ordinals
<1>6. \A t \in PeriodRows : target[p][t] = None
  <2> SUFFICES ASSUME NEW t \in PeriodRows, target[p][t] # None PROVE FALSE
    OBVIOUS
  <2>1. /\ target[p] \in [PeriodRows -> Nat \cup {None}] /\ lookup[p] \in [PeriodRows -> (1 .. MaxOrdinal) \cup {None}]
        /\ None \notin Periodic!WorkRows
    BY <1>3, PeriodicSettings DEF PeriodicTyped
  <2>2. lookup[p][t] \in 1 .. MaxOrdinal /\ work[p][lookup[p][t]] = [target |-> t, deadline |-> target[p][t]]
    BY <1>3, <2>1 DEF IndexOf
  <2>3. [target |-> t, deadline |-> target[p][t]] \in Periodic!WorkRows
    BY <2>1 DEF Periodic!WorkRows
  <2> QED BY <1>5, <2>1, <2>2, <2>3
<1>7. PICK r : r = [state |-> "SEALED", sealNext |-> control[p].next]
  OBVIOUS
<1>8. r \in [state : StateNames, sealNext : Nat \cup {None}]
  BY <1>3, <1>7, PeriodicSettings DEF PeriodicTyped, StateNames, Periodic!Controls
<1>9. registry' = [registry EXCEPT ![p] = r]
  BY <1>2, <1>7 DEF Periodic!Seal
<1>10. PeriodicRows' /\ PeriodsOnward
  <2>1. Rank(registry[p].state) <= Rank(r.state) /\ r.state # "SCHEDULED" /\ r.sealNext = control[p].next
    BY <1>4, <1>7, RankOf
  <2> QED BY <1>1, <1>3, <1>6, <1>8, <1>9, <2>1, RegistryStep
<1>11. PICK j : j = Periodic!Idle
  OBVIOUS
<1>12. Periodic!Go(s, j)
  BY <1>11 DEF Periodic!Seal
<1>13. j # Periodic!Idle => Periodic!JobInv(j)'
  BY <1>11
<1> QED BY <1>1, <1>10, <1>12, <1>13, PeriodicWrites

-----------------------------------------------------------------------------

\* A run on its way with a key.
LEMMA PeriodicKeying ==
  ASSUME NEW phase \in {"disable", "disabled", "schedule", "scheduled"}, NEW p \in 1 .. Last, NEW record \in StateNames
  PROVE  [phase |-> phase, period |-> p, record |-> record] \in Periodic!Keying
BY PeriodicOrder DEF Periodic!Keying, Periodic!Periods, StateNames

\* What the seal attests.
LEMMA PeriodicEvidence ==
  ASSUME Periodic!WorkAssumption, PeriodicRows, NEW p \in 1 .. Last, Periodic!Evidence(p)
  PROVE  /\ \A t \in PeriodRows : target[p][t] = None
         /\ registry[p].sealNext = control[p].next /\ Rank(registry[p].state) >= 4
         /\ registry[p].state \in {"SEALED", "INTENT", "DISABLED", "SCHEDULED"}
<1>1. PeriodicTyped /\ RetiredOf(p)
  BY PeriodicParts
<1>2. registry[p].state \in StateNames /\ Rank(registry[p].state) >= 4
  BY <1>1, PeriodicStage DEF PeriodicTyped, StateNames, Periodic!Evidence, Periodic!Sealed
<1>3. registry[p].state \in {"SEALED", "INTENT", "DISABLED", "SCHEDULED"}
  BY <1>2, RankOf DEF StateNames
<1> QED BY <1>1, <1>2, <1>3 DEF RetiredOf

\* A sealed period's registry row takes a later state.
LEMMA PeriodicMarks ==
  ASSUME Periodic!WorkAssumption, PeriodicRows, NEW p \in 1 .. Last, Periodic!Evidence(p),
         NEW d \in {"INTENT", "DISABLED", "SCHEDULED"}, Rank(registry[p].state) <= Rank(d),
         d = "SCHEDULED" => key[p] \in {"PendingDeletion", "Gone"},
         registry' = [registry EXCEPT ![p].state = d],
         UNCHANGED <<now, control, target, work, lookup, key, prefix, tried>>
  PROVE  PeriodicRows' /\ PeriodsOnward /\ registry'[p].state = d
<1>1. PeriodicTyped
  BY PeriodicParts
<1>2. PICK r : r = [registry[p] EXCEPT !.state = d]
  OBVIOUS
<1>3. r \in [state : StateNames, sealNext : Nat \cup {None}] /\ r.state = d /\ r.sealNext = registry[p].sealNext
  BY <1>1, <1>2 DEF PeriodicTyped, StateNames
<1>4. registry' = [registry EXCEPT ![p] = r] /\ registry'[p] = r
  BY <1>1, <1>2 DEF PeriodicTyped
<1>5. (\A t \in PeriodRows : target[p][t] = None) /\ r.sealNext = control[p].next
  BY <1>3, PeriodicEvidence
<1>6. Rank(registry[p].state) <= Rank(r.state) /\ (r.state = "SCHEDULED" => key[p] \in {"PendingDeletion", "Gone"})
  BY <1>3
<1> QED BY <1>3, <1>4, <1>5, <1>6, RegistryStep

\* What is to be done with a sealed period's key is recorded before the key is touched.
LEMMA PeriodicIntends ==
  ASSUME Periodic!WorkAssumption, Periodic!IInv, NEW s \in Sweeps, Periodic!Intend(s)
  PROVE  Periodic!IInv' /\ PeriodsOnward
<1>1. /\ job[s] # Periodic!Idle
      /\ UNCHANGED <<now, control, target, work, lookup, key, prefix, sweep, tried, waiting>>
  BY DEF Periodic!Intend, Periodic!Idle
<1>2. PICK p \in 1 .. Last : p = job[s].period
  BY <1>1, PeriodicRun
<1>3. PeriodicRows /\ PeriodicTyped /\ Periodic!Evidence(p)
  BY <1>1, <1>2, PeriodicRun DEF Periodic!Intend
<1>4. CASE registry[p].state = "SEALED" /\ registry' = [registry EXCEPT ![p].state = "INTENT"]
           /\ Periodic!Go(s, [phase |-> "intended", period |-> p])
  <2>1. PICK j : j = [phase |-> "intended", period |-> p]
    OBVIOUS
  <2>2. PeriodicRows' /\ PeriodsOnward /\ registry'[p].state = "INTENT"
    <3>1. Rank(registry[p].state) <= Rank("INTENT")
      BY <1>4, RankOf
    <3>2. registry' = [registry EXCEPT ![p].state = "INTENT"]
      BY <1>4
    <3> QED BY <1>1, <1>3, <3>1, <3>2, PeriodicMarks
  <2>3. PeriodicTyped' => Periodic!JobInv(j)'
    BY <2>1, <2>2, RankOf, PeriodicPlain
  <2>4. Periodic!Go(s, j)
    BY <1>4, <2>1
  <2> QED BY <1>1, <2>2, <2>3, <2>4, PeriodicWrites
<1>5. CASE registry[p].state \in {"INTENT", "DISABLED"} /\ UNCHANGED registry
           /\ Periodic!Go(s, [phase |-> "intended", period |-> p])
  <2>1. PICK j : j = [phase |-> "intended", period |-> p]
    OBVIOUS
  <2>2. UNCHANGED <<periodic, now, prefix, sweep, waiting>> /\ Rank(registry'[p].state) >= 5
    BY <1>1, <1>5, RankOf DEF periodic
  <2>3. PeriodicTyped' => Periodic!JobInv(j)'
    BY <2>1, <2>2, PeriodicPlain
  <2>4. Periodic!Go(s, j)
    BY <1>5, <2>1
  <2> QED BY <1>1, <2>2, <2>3, <2>4, PeriodicGoes
<1>6. CASE UNCHANGED registry /\ Periodic!Go(s, [phase |-> "retired", period |-> p])
  <2>1. PICK j : j = [phase |-> "retired", period |-> p]
    OBVIOUS
  <2>2. UNCHANGED <<periodic, now, prefix, sweep, waiting>>
    BY <1>1, <1>6 DEF periodic
  <2>3. PeriodicTyped' => Periodic!JobInv(j)'
    BY <2>1, PeriodicPlain
  <2>4. Periodic!Go(s, j)
    BY <1>6, <2>1
  <2> QED BY <1>1, <2>2, <2>3, <2>4, PeriodicGoes
<1> QED BY <1>2, <1>4, <1>5, <1>6 DEF Periodic!Intend

\* What the key and the registry say decides what is next.
LEMMA PeriodicObserves ==
  ASSUME Periodic!WorkAssumption, Periodic!IInv, NEW s \in Sweeps, Periodic!Observe(s)
  PROVE  Periodic!IInv' /\ PeriodsOnward
<1>1. /\ job[s] # Periodic!Idle /\ job[s].phase = "intended" /\ UNCHANGED <<periodic, now, prefix, sweep, waiting>>
      /\ registry' = registry
  BY DEF Periodic!Observe, Periodic!Idle, periodic
<1>2. PICK p \in 1 .. Last : p = job[s].period
  BY <1>1, PeriodicRun
<1>3. PeriodicRows /\ PeriodicTyped /\ Periodic!Evidence(p) /\ Periodic!JobInv(job[s]) /\ RetiredOf(p)
      /\ registry[p].state \in StateNames /\ Periodic!Stage(p) = Rank(registry[p].state)
  BY <1>1, <1>2, PeriodicRun DEF Periodic!Observe
<1>4. Rank(registry[p].state) >= 5
  BY <1>1, <1>2, <1>3 DEF Periodic!JobInv
<1>5. PICK record \in StateNames : record = registry[p].state
  BY <1>3
<1>6. PICK phase \in {"disable", "disabled", "scheduled"} :
        /\ Periodic!Go(s, [phase |-> phase, period |-> p, record |-> record])
        /\ phase = "disable" => record = "INTENT"
        /\ phase = "disabled" => key[p] = "Disabled"
  <2>1. CASE registry[p].state = "INTENT" /\ Periodic!Go(s, [phase |-> "disable", period |-> p, record |-> registry[p].state])
    BY <1>5, <2>1
  <2>2. CASE key[p] = "Disabled" /\ Periodic!Go(s, [phase |-> "disabled", period |-> p, record |-> registry[p].state])
    BY <1>5, <2>2
  <2>3. CASE Periodic!Go(s, [phase |-> "scheduled", period |-> p, record |-> registry[p].state])
    BY <1>5, <2>3
  <2> QED BY <1>2, <2>1, <2>2, <2>3 DEF Periodic!Observe
<1>7. phase = "disabled" => record \in {"INTENT", "DISABLED"}
  BY <1>3, <1>4, <1>5, <1>6, RankOf DEF RetiredOf, StateNames
<1>8. PICK j : j = [phase |-> phase, period |-> p, record |-> record]
  OBVIOUS
<1>9. j.phase = phase /\ j.period = p /\ j.record = record /\ j \in Periodic!Keying /\ j.phase # "schedule"
  BY <1>8, PeriodicKeying
<1>10. PeriodicTyped' => Periodic!JobInv(j)'
  BY <1>1, <1>4, <1>6, <1>7, <1>9, PeriodicPlain
<1>11. Periodic!Go(s, j)
  BY <1>6, <1>8
<1> QED BY <1>1, <1>10, <1>11, PeriodicGoes

\* A run on its way with a key goes on.
LEMMA PeriodicKeyed ==
  ASSUME NEW j \in Periodic!Keying, NEW k, NEW phase \in {"disable", "disabled", "schedule", "scheduled"},
         k = [j EXCEPT !.phase = phase] \/ k = [j EXCEPT !.phase = phase, !.record = "DISABLED"]
  PROVE  k \in Periodic!Keying /\ k.phase = phase /\ k.period = j.period /\ k.record \in {j.record, "DISABLED"}
<1>1. Periodic!Range(Periodic!Order) = StateNames /\ "DISABLED" \in StateNames
  BY PeriodicOrder DEF StateNames
<1>2. Periodic!Keying = [phase : {"disable", "disabled", "schedule", "scheduled"}, period : 1 .. Last, record : StateNames]
  BY <1>1 DEF Periodic!Keying, Periodic!Periods
<1>3. CASE k = [j EXCEPT !.phase = phase]
  BY <1>1, <1>2, <1>3
<1>4. CASE k = [j EXCEPT !.phase = phase, !.record = "DISABLED"]
  BY <1>1, <1>2, <1>4
<1> QED BY <1>3, <1>4

\* The key is disabled, behind the intent.
LEMMA PeriodicDisables ==
  ASSUME Periodic!WorkAssumption, Periodic!IInv, NEW s \in Sweeps, Periodic!DisableKey(s)
  PROVE  Periodic!IInv' /\ PeriodsOnward
<1>1. /\ job[s] # Periodic!Idle /\ job[s].phase = "disable"
      /\ UNCHANGED <<now, registry, control, target, work, lookup, prefix, sweep, tried, waiting>>
  BY DEF Periodic!DisableKey, Periodic!Idle
<1>0. PICK b : b = job[s]
  OBVIOUS
<1>2. PICK p \in 1 .. Last : p = b.period
  BY <1>0, <1>1, PeriodicRun
<1>3. PeriodicRows /\ PeriodicTyped /\ Periodic!JobInv(b) /\ RetiredOf(p) /\ Periodic!Stage(p) = Rank(registry[p].state)
  BY <1>0, <1>1, <1>2, PeriodicRun
<1>4. Rank(registry[p].state) >= 5 /\ b \in Periodic!Keying /\ b.record = "INTENT"
  BY <1>0, <1>1, <1>2, <1>3 DEF Periodic!JobInv
<1>5. PICK k : k = IF key[p] = "Enabled" THEN "Disabled" ELSE key[p]
  OBVIOUS
<1>6. key' = [key EXCEPT ![p] = k] /\ k \in {"Enabled", "Disabled", "PendingDeletion", "Gone"}
  BY <1>0, <1>2, <1>3, <1>5 DEF Periodic!DisableKey, PeriodicTyped
<1>7. PeriodicRows' /\ PeriodsOnward
  <2>1. /\ k \in {"PendingDeletion", "Gone"} => Rank(registry[p].state) >= 6
        /\ key[p] \in {"PendingDeletion", "Gone"} => k \in {"PendingDeletion", "Gone"}
    BY <1>3, <1>5 DEF RetiredOf
  <2> QED BY <1>1, <1>3, <1>4, <1>6, <2>1, KeyStep
<1>8. PICK j : j = [b EXCEPT !.phase = "disabled"]
  OBVIOUS
<1>9. Periodic!Go(s, j)
  BY <1>0, <1>8 DEF Periodic!DisableKey
<1>10. j.phase = "disabled" /\ j.period = p /\ j.record \in {"INTENT", "DISABLED"} /\ j \in Periodic!Keying
  BY <1>2, <1>4, <1>8, PeriodicKeyed
<1>11. PeriodicTyped' => Periodic!JobInv(j)'
  BY <1>1, <1>4, <1>10, PeriodicPlain
<1> QED BY <1>1, <1>7, <1>9, <1>11, PeriodicWrites

\* That it is disabled is recorded.
LEMMA PeriodicMarksDisabled ==
  ASSUME Periodic!WorkAssumption, Periodic!IInv, NEW s \in Sweeps, Periodic!MarkDisabled(s)
  PROVE  Periodic!IInv' /\ PeriodsOnward
<1>1. /\ job[s] # Periodic!Idle /\ job[s].phase = "disabled"
      /\ UNCHANGED <<now, control, target, work, lookup, key, prefix, sweep, tried, waiting>>
  BY DEF Periodic!MarkDisabled, Periodic!Idle
<1>0. PICK b : b = job[s]
  OBVIOUS
<1>2. PICK p \in 1 .. Last : p = b.period
  BY <1>0, <1>1, PeriodicRun
<1>3. PeriodicRows /\ PeriodicTyped /\ Periodic!JobInv(b)
  BY <1>0, <1>1, <1>2, PeriodicRun
<1>4. b \in Periodic!Keying /\ b.record \in {"INTENT", "DISABLED"} /\ registry[p].state = b.record /\ Periodic!Evidence(p)
  BY <1>0, <1>1, <1>2, <1>3 DEF Periodic!JobInv, Periodic!MarkDisabled, Periodic!Holds
<1>5. registry' = [registry EXCEPT ![p].state = "DISABLED"]
  BY <1>0, <1>2 DEF Periodic!MarkDisabled
<1>6. PeriodicRows' /\ PeriodsOnward /\ registry'[p].state = "DISABLED"
  <2>1. Rank(registry[p].state) <= Rank("DISABLED")
    BY <1>4, RankOf
  <2> QED BY <1>1, <1>3, <1>4, <1>5, <2>1, PeriodicMarks
<1>7. PICK j : j = [b EXCEPT !.phase = "schedule", !.record = "DISABLED"]
  OBVIOUS
<1>8. Periodic!Go(s, j)
  BY <1>0, <1>7 DEF Periodic!MarkDisabled
<1>9. j.phase = "schedule" /\ j.period = p /\ j \in Periodic!Keying
  BY <1>2, <1>4, <1>7, PeriodicKeyed
<1>10. PeriodicTyped' => Periodic!JobInv(j)'
  <2>1. Rank(registry'[p].state) >= 5 /\ Rank(registry'[p].state) >= 6
    BY <1>6, RankOf
  <2> QED BY <1>9, <2>1, PeriodicPlain
<1> QED BY <1>1, <1>6, <1>8, <1>10, PeriodicWrites

\* Its deletion is scheduled, once that is recorded.
LEMMA PeriodicSchedules ==
  ASSUME Periodic!WorkAssumption, Periodic!IInv, NEW s \in Sweeps, Periodic!ScheduleKey(s)
  PROVE  Periodic!IInv' /\ PeriodsOnward
<1>1. /\ job[s] # Periodic!Idle /\ job[s].phase = "schedule"
      /\ UNCHANGED <<now, registry, control, target, work, lookup, prefix, sweep, tried, waiting>>
  BY DEF Periodic!ScheduleKey, Periodic!Idle
<1>0. PICK b : b = job[s]
  OBVIOUS
<1>2. PICK p \in 1 .. Last : p = b.period
  BY <1>0, <1>1, PeriodicRun
<1>3. PeriodicRows /\ PeriodicTyped /\ Periodic!JobInv(b) /\ RetiredOf(p) /\ Periodic!Stage(p) = Rank(registry[p].state)
      /\ Rank(registry[p].state) \in 1 .. 7
  BY <1>0, <1>1, <1>2, PeriodicRun
<1>4. Rank(registry[p].state) >= 6 /\ Rank(registry[p].state) >= 5 /\ b \in Periodic!Keying
  BY <1>0, <1>1, <1>2, <1>3 DEF Periodic!JobInv
<1>5. PICK k : k = IF key[p] = "Disabled" THEN "PendingDeletion" ELSE key[p]
  OBVIOUS
<1>6. key' = [key EXCEPT ![p] = k] /\ k \in {"Enabled", "Disabled", "PendingDeletion", "Gone"}
  BY <1>0, <1>2, <1>3, <1>5 DEF Periodic!ScheduleKey, PeriodicTyped
<1>7. PeriodicRows' /\ PeriodsOnward
  <2>1. key[p] \in {"PendingDeletion", "Gone"} => k \in {"PendingDeletion", "Gone"}
    BY <1>5
  <2> QED BY <1>1, <1>3, <1>4, <1>6, <2>1, KeyStep
<1>8. PICK j : j = [b EXCEPT !.phase = "scheduled"]
  OBVIOUS
<1>9. Periodic!Go(s, j)
  BY <1>0, <1>8 DEF Periodic!ScheduleKey
<1>10. j.phase = "scheduled" /\ j.period = p /\ j \in Periodic!Keying
  BY <1>2, <1>4, <1>8, PeriodicKeyed
<1>11. PeriodicTyped' => Periodic!JobInv(j)'
  BY <1>10, PeriodicPlain
<1> QED BY <1>1, <1>7, <1>9, <1>11, PeriodicWrites

\* And that it is scheduled is recorded.
LEMMA PeriodicMarksScheduled ==
  ASSUME Periodic!WorkAssumption, Periodic!IInv, NEW s \in Sweeps, Periodic!MarkScheduled(s)
  PROVE  Periodic!IInv' /\ PeriodsOnward
<1>1. /\ job[s] # Periodic!Idle
      /\ UNCHANGED <<now, control, target, work, lookup, key, prefix, sweep, tried, waiting>>
  BY DEF Periodic!MarkScheduled, Periodic!Idle
<1>2. PICK p \in 1 .. Last : p = job[s].period
  BY <1>1, PeriodicRun
<1>3. PeriodicRows
  BY <1>1, PeriodicRun
<1>4. /\ registry[p].state = "DISABLED" /\ Periodic!Evidence(p) /\ key[p] = "PendingDeletion"
      /\ registry' = [registry EXCEPT ![p].state = "SCHEDULED"]
      /\ Periodic!Go(s, [phase |-> "retired", period |-> p])
  BY <1>2 DEF Periodic!MarkScheduled
<1>5. PeriodicRows' /\ PeriodsOnward
  <2>1. Rank(registry[p].state) <= Rank("SCHEDULED")
    BY <1>4, RankOf
  <2> QED BY <1>1, <1>3, <1>4, <2>1, PeriodicMarks
<1>6. PICK j : j = [phase |-> "retired", period |-> p]
  OBVIOUS
<1>7. PeriodicTyped' => Periodic!JobInv(j)'
  BY <1>6, PeriodicPlain
<1>8. Periodic!Go(s, j)
  BY <1>4, <1>6
<1> QED BY <1>1, <1>5, <1>7, <1>8, PeriodicWrites

\* The prefix of retired periods takes the next one.
LEMMA PeriodicPrefixes ==
  ASSUME Periodic!WorkAssumption, Periodic!IInv, NEW s \in Sweeps, Periodic!AdvancePrefix(s)
  PROVE  Periodic!IInv' /\ PeriodsOnward
<1>1. /\ job[s] # Periodic!Idle
      /\ UNCHANGED <<now, registry, control, target, work, lookup, key, sweep, tried, waiting>>
  BY DEF Periodic!AdvancePrefix, Periodic!Idle
<1>2. PICK p \in 1 .. Last : p = job[s].period
  BY <1>1, PeriodicRun
<1>3. PeriodicRows /\ PeriodicTurns /\ now \in Nat /\ prefix \in Nat
  BY <1>1, PeriodicRun
<1>4. p = prefix + 1 /\ registry[p].state = "SCHEDULED" /\ prefix' = p /\ Periodic!Go(s, Periodic!Idle)
  BY <1>2 DEF Periodic!AdvancePrefix, Periodic!Minimum
<1>5. PeriodicRows' /\ PeriodsOnward
  BY <1>1, <1>3, <1>4, PrefixStep DEF periodic
<1>6. PeriodicTurns'
  BY <1>1, <1>3, <1>4, PeriodicRetired
<1>7. PICK j : j = Periodic!Idle
  OBVIOUS
<1>8. Periodic!Go(s, j) /\ (j # Periodic!Idle => Periodic!JobInv(j)')
  BY <1>4, <1>7
<1> QED BY <1>5, <1>6, <1>8, PeriodicAround

-----------------------------------------------------------------------------

\* At first there is nothing.
LEMMA PeriodicInits ==
  ASSUME Periodic!WorkAssumption, Periodic!Init
  PROVE  Periodic!IInv
<1>1. Last \in Nat /\ MaxTime \in Nat /\ MaxOrdinal \in Nat /\ None \notin Nat
  BY PeriodicSettings
<1>2. PeriodicTyped
  <2>1. Periodic!NewControl \in Periodic!Controls
    BY <1>1 DEF Periodic!NewControl, Periodic!Controls
  <2>2. \A p \in 1 .. Last : control[p] = Periodic!NewControl
    BY DEF Periodic!Init, Periodic!Periods
  <2>3. Periodic!NewControl.cursor <= Periodic!NewControl.high /\ Periodic!NewControl.high < Periodic!NewControl.next
    BY DEF Periodic!NewControl
  <2> HIDE DEF Periodic!NewControl
  <2>4. /\ now = 0 /\ prefix = 0
        /\ registry \in [1 .. Last -> [state : {"OPEN", "CLOSING", "DRAINING", "SEALED", "INTENT", "DISABLED", "SCHEDULED"},
                                       sealNext : Nat \cup {None}]]
        /\ target \in [1 .. Last -> [PeriodRows -> Nat \cup {None}]]
        /\ lookup \in [1 .. Last -> [PeriodRows -> (1 .. MaxOrdinal) \cup {None}]]
        /\ key \in [1 .. Last -> {"Enabled", "Disabled", "PendingDeletion", "Gone"}]
    BY DEF Periodic!Init, Periodic!Periods
  <2>5. /\ tried \in [1 .. Last -> SUBSET Nat] /\ work \in [1 .. Last -> [1 .. MaxOrdinal -> Periodic!WorkRows \cup {None}]]
        /\ control \in [1 .. Last -> Periodic!Controls]
    BY <2>1 DEF Periodic!Init, Periodic!Periods, Periodic!Ordinals
  <2> QED BY <1>1, <2>2, <2>3, <2>4, <2>5 DEF PeriodicTyped
<1>3. ASSUME NEW p \in 1 .. Last PROVE CoveredOf(p) /\ IndexOf(p) /\ RetiredOf(p)
  <2>1. /\ registry[p].state = "OPEN" /\ control[p].pending = 0 /\ key[p] = "Enabled"
        /\ \A t \in PeriodRows : target[p][t] = None /\ lookup[p][t] = None
        /\ \A o \in 1 .. MaxOrdinal : work[p][o] = None
    BY DEF Periodic!Init, Periodic!NewControl, Periodic!Periods, Periodic!Ordinals
  <2>2. {o \in 1 .. MaxOrdinal : work[p][o] # None} = {}
    BY <2>1
  <2>3. IndexOf(p)
    BY <2>1, <2>2, FS_EmptySet DEF IndexOf
  <2>4. RetiredOf(p)
    BY <2>1, RankOf DEF RetiredOf
  <2> QED BY <2>1, <2>3, <2>4 DEF CoveredOf
<1>4. PeriodicRows
  <2>1. \A p \in 1 .. prefix : registry[p].state = "SCHEDULED"
    BY DEF Periodic!Init
  <2> QED BY <1>2, <1>3, <2>1, PeriodicParts
<1>5. PeriodicJobs
  BY DEF Periodic!Init, PeriodicJobs
<1>6. PeriodicTurns
  <2>1. now \in Nat /\ prefix = 0 /\ sweep = None /\ waiting = [p \in 1 .. Last |-> 0]
    BY DEF Periodic!Init, Periodic!Periods
  <2>2. PICK c \in 0 .. Last : c = CurrentAt(now)
    BY <2>1, CurrentOf
  <2>3. TurnAt(sweep, prefix + 1, c) = 1
    BY <2>1 DEF TurnAt
  <2>4. \A p \in prefix + 1 .. c : waiting[p] <= MissedAt(1, p)
    BY <1>1, <2>1, <2>2 DEF MissedAt
  <2> QED BY <1>1, <2>1, <2>2, <2>3, <2>4, PeriodicTurnsAre
<1> QED BY <1>4, <1>5, <1>6, PeriodicIs

\* Every step keeps it, and every period goes on.
LEMMA PeriodicNext ==
  ASSUME Periodic!WorkAssumption, Periodic!IInv, [Periodic!Next]_(Periodic!vars)
  PROVE  Periodic!IInv' /\ PeriodsOnward
<1>1. PeriodicRows /\ PeriodicTurns /\ PeriodicTyped
  BY PeriodicIs, PeriodicParts
<1>2. now \in 0 .. MaxTime /\ now \in Nat /\ prefix \in Nat
  BY <1>1, PeriodicSettings DEF PeriodicTyped
<1>3. ASSUME NEW p \in Periodic!Periods, NEW t \in PeriodRows, NEW d \in 1 .. MaxTime, Periodic!Put(p, t, d)
      PROVE  Periodic!IInv' /\ PeriodsOnward
  <2>1. PeriodicRows' /\ PeriodsOnward
    BY <1>1, <1>3, PeriodicPut DEF Periodic!Periods
  <2>2. UNCHANGED <<now, prefix, sweep, waiting, job>>
    BY <1>3 DEF Periodic!Put
  <2> QED BY <1>1, <1>2, <2>1, <2>2, PeriodicTurnsStay, PeriodicApart
<1>4. ASSUME NEW p \in Periodic!Periods, NEW g \in Groups, Periodic!EraseGroup(p, g)
      PROVE  Periodic!IInv' /\ PeriodsOnward
  <2>1. g \subseteq PeriodRows
    BY DEF Periodic!WorkAssumption
  <2>2. Periodic!DeleteRows(p, g) /\ UNCHANGED <<now, registry, key, prefix, sweep, job, tried, waiting>>
    BY <1>4 DEF Periodic!EraseGroup
  <2>3. PeriodicRows' /\ PeriodsOnward
    BY <1>1, <2>1, <2>2, PeriodicDelete DEF Periodic!Periods
  <2> QED BY <1>1, <1>2, <2>2, <2>3, PeriodicTurnsStay, PeriodicApart
<1>5. ASSUME NEW p \in Periodic!Periods, Periodic!DestroyKey(p)
      PROVE  Periodic!IInv' /\ PeriodsOnward
  <2>1. /\ key[p] = "PendingDeletion" /\ key' = [key EXCEPT ![p] = "Gone"]
        /\ UNCHANGED <<now, registry, control, target, work, lookup, prefix, sweep, job, tried, waiting>>
    BY <1>5 DEF Periodic!DestroyKey
  <2>2. p \in 1 .. Last
    BY DEF Periodic!Periods
  <2>3. RetiredOf(p)
    BY <1>1, <2>2, PeriodicParts
  <2>4. Rank(registry[p].state) >= 6 /\ Rank(registry[p].state) >= 5
    BY <2>1, <2>3 DEF RetiredOf
  <2>5. PICK k \in {"Enabled", "Disabled", "PendingDeletion", "Gone"} : k = "Gone"
    OBVIOUS
  <2>6. PeriodicRows' /\ PeriodsOnward
    BY <1>1, <2>1, <2>2, <2>4, <2>5, KeyStep
  <2> QED BY <1>1, <1>2, <2>1, <2>6, PeriodicTurnsStay, PeriodicApart
<1>6. ASSUME NEW s \in Sweeps,
             \/ Periodic!Select(s) \/ Periodic!Enter(s) \/ Periodic!Begin(s) \/ Periodic!Advance(s) \/ Periodic!Group(s)
             \/ Periodic!PassOver(s) \/ Periodic!Finish(s) \/ Periodic!Seal(s) \/ Periodic!Intend(s) \/ Periodic!Observe(s)
             \/ Periodic!DisableKey(s) \/ Periodic!MarkDisabled(s) \/ Periodic!ScheduleKey(s) \/ Periodic!MarkScheduled(s)
             \/ Periodic!AdvancePrefix(s) \/ Periodic!Stop(s)
      PROVE  Periodic!IInv' /\ PeriodsOnward
  BY <1>6, PeriodicSelects, PeriodicEnters, PeriodicBegins, PeriodicAdvances, PeriodicErases, PeriodicPasses,
     PeriodicFinishes, PeriodicSeals, PeriodicIntends, PeriodicObserves, PeriodicDisables, PeriodicMarksDisabled,
     PeriodicSchedules, PeriodicMarksScheduled, PeriodicPrefixes, PeriodicStops
<1>7. CASE Periodic!Tick
  <2>1. UNCHANGED <<periodic, prefix, job>> /\ now' = now + 1 /\ now < MaxTime
    BY <1>7 DEF Periodic!Tick, periodic
  <2>2. now' \in 0 .. MaxTime
    BY <1>2, <2>1, PeriodicSettings
  <2>3. PeriodicRows' /\ PeriodsOnward
    BY <1>1, <2>1, <2>2, NoPeriod
  <2>4. PeriodicTurns'
    BY <1>1, <1>2, <1>7, PeriodicTick
  <2> QED BY <2>1, <2>3, <2>4, PeriodicApart
<1>8. CASE UNCHANGED Periodic!vars
  <2>1. UNCHANGED <<periodic, now, prefix, sweep, waiting, job>>
    BY <1>8 DEF Periodic!vars, periodic
  <2>2. PeriodicRows' /\ PeriodsOnward
    BY <1>1, <1>2, <2>1, NoPeriod
  <2> QED BY <1>1, <1>2, <2>1, <2>2, PeriodicTurnsStay, PeriodicApart
<1> QED BY <1>3, <1>4, <1>5, <1>6, <1>7, <1>8 DEF Periodic!Next

\* What a period may do, a step of it.
LEMMA PeriodicOneWay ==
  ASSUME Periodic!WorkAssumption, Periodic!IInv, Periodic!IInv', PeriodsOnward
  PROVE  Periodic!OneWay
<1>1. PeriodicTyped /\ PeriodicTyped'
  BY PeriodicIs, PeriodicIsNext, PeriodicParts, PeriodicPartsNext
<1>2. ASSUME NEW p \in 1 .. Last
      PROVE  /\ Periodic!Stage(p) <= Periodic!Stage(p)'
             /\ Periodic!Stage(p) >= 3 => \A t \in PeriodRows : target'[p][t] # None => target'[p][t] = target[p][t]
  BY <1>1, PeriodicStage, PeriodicStageNext DEF PeriodsOnward, OnwardOf
<1> QED BY <1>2 DEF Periodic!OneWay, Periodic!Periods

\* For any number of periods, rows and sweeps that overlap, fail or stop anywhere: rows, work,
\* lookups and counters agree; a pass that is over came to all the work it was about; a key is
\* touched only behind the seal of a period in which nothing is left, and periods retire without
\* a gap; no period waits for more turns than there are periods; and a period only goes on
\* (shared_campaign_work: tracked writes, period_pass, seal, retire, advance_prefix).
THEOREM PeriodsSound ==
  ASSUME Periodic!WorkAssumption
  PROVE  Periodic!Spec =>
           /\ [](Periodic!TypeOK /\ Periodic!IndexExact /\ Periodic!PassCovers /\ Periodic!RetiredSoundly
                 /\ Periodic!PeriodsFair)
           /\ [][Periodic!OneWay]_(Periodic!vars)
<1>1. Periodic!Init => Periodic!IInv
  BY PeriodicInits
<1>2. Periodic!IInv /\ [Periodic!Next]_(Periodic!vars) => Periodic!IInv'
  BY PeriodicNext
<1>3. Periodic!IInv => Periodic!PassCovers
  <2> SUFFICES ASSUME Periodic!IInv, NEW p \in 1 .. Last, control[p].cursor = control[p].high,
                      NEW o \in 1 .. control[p].high, work[p][o] # None
               PROVE  o \in tried[p]
    BY DEF Periodic!PassCovers, Periodic!Periods
  <2>1. PeriodicTyped /\ CoveredOf(p)
    BY PeriodicIs, PeriodicParts
  <2>2. control[p] \in Periodic!Controls /\ MaxOrdinal \in Nat
    BY <2>1, PeriodicSettings DEF PeriodicTyped
  <2>3. o \in 1 .. MaxOrdinal /\ o <= control[p].cursor
    BY <2>2 DEF Periodic!Controls
  <2> QED BY <2>1, <2>3 DEF CoveredOf
<1>4. Periodic!IInv => Periodic!PeriodsFair
  BY DEF Periodic!IInv, Periodic!TurnsInv, Periodic!PeriodsFair
<1>5. Periodic!IInv => Periodic!TypeOK /\ Periodic!IndexExact /\ Periodic!RetiredSoundly
  BY DEF Periodic!IInv
<1>6. Periodic!IInv /\ Periodic!IInv' /\ [Periodic!Next]_(Periodic!vars) => [Periodic!OneWay]_(Periodic!vars)
  BY PeriodicNext, PeriodicOneWay
<1> QED BY <1>1, <1>2, <1>3, <1>4, <1>5, <1>6, PTL DEF Periodic!Spec
==============================================================================
