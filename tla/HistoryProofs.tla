----------------------------- MODULE HistoryProofs -----------------------------
(***************************************************************************)
(* Proofs about History for any number of requests, generations and rows   *)
(* of a page.  Content of a generation that is over is never written       *)
(* again, so that the rows a page has shown are all the rows there are;    *)
(* and the answer of such a generation is only stored by a check that is   *)
(* still to be committed, which drops it, or to be observed.               *)
(* HistorySweep has a section of its own at the end.                       *)
(***************************************************************************)
EXTENDS History, FiniteSetTheorems, TLAPS

\* The replay row of request r names no generation and has no answer.
Clean(r) == replay[r].auth = None /\ ~replay[r].response

AllGone == \A r \in Requests : content[r] = None /\ Clean(r)

\* The check of the row may still store or commit a result.
Live(r) == replay[r].auth # None /\ replay[r].status \in {"PROCESSING", "RETRYABLE", "RESULT_READY"}

\* The rows of a request agree on its generation.
Agrees(r) ==
  /\ content[r] # None =>
       locator[r] = [status |-> "ACTIVE", of |-> content[r]] /\ content[r] <= account.generation
  /\ locator[r] # NoEntry =>
       replay[r].auth \in {None, locator[r].of} /\ replay[r].status \in {"none", "COMPLETED", "COMPLETED_ERASED"}
  /\ replay[r].response => replay[r].auth # None
  /\ replay[r].auth # None => completion[r].status # "none" /\ completion[r].of = replay[r].auth
  /\ Live(r) => completion[r].status = "PENDING"
  /\ r \in aged => locator[r] # NoEntry

RowInv == \A r \in Requests : Agrees(r)

Exists(j) == erasure[j].status # "none"

\* A job erases generations that are over, or all of a History that is not active.
JobsInv ==
  /\ \A j \in Erasures : erasure[j].generation <= erasure[j].last
  /\ \A j \in Erasures : Exists(j) /\ ~Full(j) =>
       erasure[j].generation = j.of /\ erasure[j].last = j.of /\ j.of < account.generation
  /\ Exists(Own) => account.status \in {"HISTORY_DELETING", "HISTORY_DELETED", "DELETING", "DELETED"}
  /\ Exists(Whole) => account.status \in {"DELETING", "DELETED"}

\* The job of a full deletion comes to all content that is left, and leaves no
\* replay row behind that names a generation.
FullInv ==
  \A j \in {Own, Whole} : Exists(j) =>
    /\ \A r \in Requests : content[r] # None => Reaches(j, content[r], r)
    /\ erasure[j].stage = "REPLAY" => \A r \in Requests : r <= erasure[j].cursor => Clean(r)

\* The row of request r has been dealt with for the job.
Done(j, r) ==
  IF Full(j) THEN Clean(r)
  ELSE replay[r].response /\ replay[r].auth = j.of => completion[r].status = "PENDING"

\* The sweep's page has all rows that are still to be erased up to its end.
PageInv ==
  LET j == sweep.job
      e == erasure[j] IN
  /\ sweep.step \in {"row", "locator", "replay"} => (~sweep.more => sweep.next = LastRequest)
  /\ sweep.step \in {"row", "locator"} =>
       /\ e.status = "PENDING" /\ e.stage = "HISTORY"
       /\ \A r \in Requests : content[r] = e.generation /\ e.cursor < r /\ r <= sweep.next => r \in sweep.page
  /\ sweep.step = "locator" /\ Min(sweep.page) \in Requests => content[Min(sweep.page)] # e.generation
  /\ sweep.step = "replay" =>
       /\ e.status = "PENDING" /\ e.stage = "REPLAY"
       /\ \A r \in Requests : e.cursor < r /\ r <= sweep.next /\ r \notin sweep.page => Done(j, r)
  /\ sweep.step \in {"state", "receipt", "complete"} =>
       /\ e.status = "PENDING" /\ e.stage = "REPLAY"
       /\ \A r \in Requests : e.cursor < r => Done(j, r)
  /\ sweep.step \in {"state", "receipt"} => Full(j)

\* What the sweep has redacted stays so until it says it is.
RedactInv ==
  /\ sweep.step \in {"redact", "cancel"} => completion[sweep.request].status # "none"
  /\ sweep.step = "cancel" => ~replay[sweep.request].response /\ ~Live(sweep.request)
  /\ sweep.step \in {"content", "answer", "expire"} => locator[sweep.request] # NoEntry
  /\ sweep.step \in {"answer", "expire"} => content[sweep.request] = None
  /\ sweep.step = "expire" => ~replay[sweep.request].response

\* Nothing is there before the History is, or after it is deleted.
GoneInv ==
  /\ account.status \in {"none", "HISTORY_DELETED", "DELETED"} => AllGone
  /\ receipt => AllGone /\ account.status \in {"none", "DELETED"} /\ command # "none"
  /\ mutation = "COMPLETE" => AllGone /\ Exists(Own)

IInv ==
  /\ TypeOK
  /\ RowInv
  /\ JobsInv
  /\ FullInv
  /\ PageInv
  /\ RedactInv
  /\ GoneInv
  /\ NothingLeftBehind
  /\ AnswersAreAccountedFor

-----------------------------------------------------------------------------
(* Types *)

\* A job's row when it is written, and when it moves on.
LEMMA NewJobForm ==
  ASSUME NEW g \in Generations, NEW l \in Generations
  PROVE  /\ NewJob(g, l) \in Jobs
         /\ NewJob(g, l).status = "PENDING" /\ NewJob(g, l).stage = "HISTORY" /\ NewJob(g, l).cursor = 0
         /\ NewJob(g, l).generation = g /\ NewJob(g, l).last = l
<1>1. NoJob \in Jobs /\ NoJob.stage = "HISTORY" /\ NoJob.cursor = 0
  BY HistoryAssumption DEF Jobs, NoJob, Generations
<1>2. ASSUME NEW e \in Jobs, NEW f, f = [e EXCEPT !.status = "PENDING", !.generation = g, !.last = l]
      PROVE  /\ f \in Jobs
             /\ f.status = "PENDING" /\ f.stage = e.stage /\ f.cursor = e.cursor
             /\ f.generation = g /\ f.last = l
  BY <1>2 DEF Jobs
<1> QED BY <1>1, <1>2 DEF NewJob

\* What a job is after any of the moves the sweep makes with it.
LEMMA JobForms ==
  ASSUME NEW e \in Jobs, NEW c \in 0 .. LastRequest
  PROVE  /\ [e EXCEPT !.cursor = c] \in Jobs
         /\ [e EXCEPT !.stage = "REPLAY", !.cursor = c] \in Jobs
         /\ e.generation + 1 \in Generations => [e EXCEPT !.generation = @ + 1, !.cursor = c] \in Jobs
BY DEF Jobs

\* It holds at the start.
LEMMA InitIInv == Init => IInv
<1> SUFFICES ASSUME Init PROVE IInv
  OBVIOUS
<1>1. TypeOK
  <2>1. Own \in Erasures /\ 1 \in Requests
    BY HistoryAssumption DEF Erasures, Requests
  <2>2. NoJob \in Jobs /\ NoEntry \in Locators /\ NoEntry \in Completions /\ NoRow \in Rows
    BY HistoryAssumption DEF Jobs, NoJob, NoEntry, Locators, Completions, NoRow, Rows, Generations
  <2>3. account \in [status : Statuses, generation : Generations]
    BY HistoryAssumption DEF Init, Untouched, Statuses, Generations
  <2>4. sweep \in Sweeps
    BY <2>1, HistoryAssumption DEF Init, Untouched, Idle, Sweeps
  <2> QED BY <2>2, <2>3, <2>4 DEF Init, Untouched, TypeOK
<1>2. RowInv /\ GoneInv
  BY DEF Init, Untouched, RowInv, Agrees, GoneInv, AllGone, Clean, Live, NoRow, NoEntry
<1>3. \A j \in Erasures : ~Exists(j)
  BY DEF Init, Untouched, Exists, NoJob
<1>4. Own \in Erasures /\ Whole \in Erasures
  BY DEF Erasures
<1>5. JobsInv /\ FullInv
  BY <1>3, <1>4 DEF JobsInv, FullInv, Init, Untouched, NoJob
<1>6. PageInv /\ RedactInv
  BY DEF Init, Untouched, Idle, PageInv, RedactInv
<1>7. NothingLeftBehind /\ AnswersAreAccountedFor
  BY DEF Init, Untouched, NothingLeftBehind, AnswersAreAccountedFor, NoRow
<1> QED BY <1>1, <1>2, <1>5, <1>6, <1>7 DEF IInv

\* The steps of checks keep the types of their rows.
LEMMA CheckTypes ==
  ASSUME TypeOK, NEW r \in Requests, Check(r)
  PROVE  TypeOK'
<1>1. CASE Lock(r) \/ TakeOver(r) \/ Store(r) \/ Release(r) \/ Expire(r)
  <2>1. NoRow \in Rows /\ [NoRow EXCEPT !.status = "PROCESSING", !.hash = TRUE] \in Rows
    BY DEF NoRow, Rows
  <2>2. replay[r] \in Rows
    BY DEF TypeOK
  <2>3. /\ [replay[r] EXCEPT !.status = "PROCESSING"] \in Rows
        /\ [replay[r] EXCEPT !.status = "RESULT_READY", !.response = TRUE] \in Rows
        /\ [replay[r] EXCEPT !.status = "RETRYABLE"] \in Rows
    BY <2>2 DEF Rows
  <2>4. replay' \in [Requests -> Rows]
    BY <1>1, <2>1, <2>3 DEF TypeOK, Lock, TakeOver, Store, Release, Expire
  <2> QED BY <1>1, <2>4 DEF TypeOK, Lock, TakeOver, Store, Release, Expire, receipts
<1>2. CASE Reserve(r)
  <2>1. account.generation \in Generations
    BY DEF TypeOK
  <2>2. replay' \in [Requests -> Rows]
    BY <1>2, <2>1 DEF TypeOK, Reserve, Rows
  <2>3. completion' \in [Requests -> Completions]
    BY <1>2, <2>1 DEF TypeOK, Reserve, Completions
  <2> QED BY <1>2, <2>2, <2>3 DEF TypeOK, Reserve, receipts
<1>3. CASE Commit(r)
  <2>1. replay' \in [Requests -> Rows]
    <3>1. /\ replay \in [Requests -> Rows]
          /\ \/ replay' = [replay EXCEPT ![r].status = "COMPLETED"]
             \/ replay' = [replay EXCEPT ![r].status = "COMPLETED", ![r].response = FALSE]
      BY <1>3 DEF TypeOK, Commit
    <3> QED BY <3>1 DEF Rows
  <2>2. completion' \in [Requests -> Completions]
    BY <1>3 DEF TypeOK, Commit, Completions
  <2>3. replay[r].auth \in Generations \cup {None}
    BY DEF TypeOK, Rows
  <2>4. locator' \in [Requests -> Locators] /\ content' \in [Requests -> Generations \cup {None}]
    BY <1>3, <2>3 DEF TypeOK, Commit, Locators
  <2> QED BY <1>3, <2>1, <2>2, <2>4 DEF TypeOK, Commit, receipts
<1>4. CASE Age(r)
  BY <1>4 DEF TypeOK, Age, receipts
<1> QED BY <1>1, <1>2, <1>3, <1>4 DEF Check

\* So do the deletions that clients ask for.
LEMMA RequestTypes ==
  ASSUME TypeOK,
         \/ Bootstrap \/ RequestDeletion \/ CompleteDeletion \/ Clear \/ DeleteHistory
         \/ StartDeletion \/ CompleteWithoutHistory \/ \E r \in Requests : Mutate(r)
  PROVE  TypeOK'
<1>1. CASE Bootstrap \/ RequestDeletion \/ CompleteDeletion \/ CompleteWithoutHistory
  BY <1>1 DEF TypeOK, Bootstrap, RequestDeletion, CompleteDeletion, CompleteWithoutHistory, requests, receipts, Statuses
<1>2. ASSUME NEW r \in Requests, Mutate(r) PROVE TypeOK'
  <2>1. replay' \in [Requests -> Rows]
    <3>1. /\ replay \in [Requests -> Rows]
          /\ \/ UNCHANGED replay
             \/ replay' = [replay EXCEPT ![r].status = "COMPLETED_ERASED", ![r].response = FALSE]
      BY <1>2 DEF TypeOK, Mutate, BeginDeleteOne, CommitDeleteOne
    <3> QED BY <3>1 DEF Rows
  <2>2. locator' \in [Requests -> Locators]
    <3>1. locator \in [Requests -> Locators] /\ [locator EXCEPT ![r].status = "gone"] \in [Requests -> Locators]
      BY DEF TypeOK, Locators
    <3> QED BY <1>2, <3>1 DEF Mutate, BeginDeleteOne, CommitDeleteOne
  <2> QED BY <1>2, <2>1, <2>2 DEF TypeOK, Mutate, BeginDeleteOne, CommitDeleteOne, receipts
<1>3. ASSUME NEW first \in Generations, NEW last \in Generations PROVE NewJob(first, last) \in Jobs
  BY NewJobForm
<1>4. 0 \in Generations /\ account.generation \in Generations
  BY HistoryAssumption DEF Generations, TypeOK
<1>5. CASE Clear
  <2>1. account' \in [status : Statuses, generation : Generations]
    BY <1>5, HistoryAssumption DEF TypeOK, Clear, Generations
  <2>2. erasure' \in [Erasures -> Jobs]
    BY <1>3, <1>4, <1>5 DEF TypeOK, Clear
  <2> QED BY <1>5, <2>1, <2>2 DEF TypeOK, Clear, requests, receipts
<1>6. CASE DeleteHistory \/ StartDeletion
  <2>1. account' \in [status : Statuses, generation : Generations]
    BY <1>6 DEF TypeOK, DeleteHistory, StartDeletion, Statuses
  <2>2. erasure' \in [Erasures -> Jobs]
    BY <1>3, <1>4, <1>6 DEF TypeOK, DeleteHistory, StartDeletion
  <2> QED BY <1>6, <2>1, <2>2 DEF TypeOK, DeleteHistory, StartDeletion, requests, receipts
<1> QED BY <1>1, <1>2, <1>5, <1>6

\* So does the sweep, in an erasure job.
LEMMA EraseTypes ==
  ASSUME TypeOK, JobsInv, Erase
  PROVE  TypeOK'
<1>0. Own \in Erasures /\ Whole \in Erasures /\ 1 \in Requests /\ Idle \in Sweeps
  BY HistoryAssumption DEF Erasures, Requests, Idle, Sweeps
<1>1. ASSUME NEW s, [sweep EXCEPT !.step = s] = sweep',
             s \in {"row", "locator", "replay", "state", "receipt", "complete", "redact", "cancel", "content",
                    "answer", "expire"}
      PROVE  sweep' \in Sweeps
  BY <1>1 DEF TypeOK, Sweeps
<1>2. ASSUME NEW j \in Erasures, NEW rows \in SUBSET Requests, NEW s \in {"row", "replay"}, Query(j, rows, s)
      PROVE  sweep' \in Sweeps
  <2>1. erasure[j].cursor \in 0 .. LastRequest
    BY DEF TypeOK, Jobs
  <2>2. PICK next \in erasure[j].cursor .. LastRequest, more \in BOOLEAN :
          sweep' = [Idle EXCEPT !.step = s, !.job = j,
                      !.page = {r \in rows : erasure[j].cursor < r /\ r <= next}, !.next = next, !.more = more]
    BY <1>2 DEF Query
  <2>3. next \in 0 .. LastRequest
    BY <2>1, HistoryAssumption
  <2> QED BY <1>0, <2>2, <2>3 DEF Idle, Sweeps
<1>3. CASE \E j \in Erasures : BeginHistory(j) \/ BeginReplay(j)
  <2>1. sweep' \in Sweeps
    BY <1>2, <1>3 DEF BeginHistory, BeginReplay
  <2> QED BY <1>3, <2>1 DEF BeginHistory, BeginReplay, TypeOK, requests, receipts
<1>4. CASE EraseContent \/ MarkLocator
  <2>1. sweep' \in Sweeps
    <3>1. CASE EraseContent
      BY <1>1, <3>1 DEF EraseContent, Go
    <3>2. CASE MarkLocator
      BY <3>2 DEF MarkLocator, TypeOK, Sweeps
    <3> QED BY <1>4, <3>1, <3>2
  <2>2. locator' \in [Requests -> Locators]
    BY <1>4 DEF EraseContent, MarkLocator, TypeOK, Locators
  <2>3. content' \in [Requests -> Generations \cup {None}]
    BY <1>4 DEF EraseContent, MarkLocator, TypeOK
  <2> QED BY <1>4, <2>1, <2>2, <2>3 DEF EraseContent, MarkLocator, TypeOK, receipts
<1>5. CASE EndHistoryPage
  <2>1. PICK e \in Jobs : e = erasure[sweep.job]
    BY DEF TypeOK, Sweeps
  <2>2. PICK z \in 0 .. LastRequest : z = 0
    BY HistoryAssumption
  <2>3. sweep.next \in 0 .. LastRequest /\ sweep.job \in Erasures
    BY DEF TypeOK, Sweeps
  <2>4. e.generation # e.last => e.generation + 1 \in Generations
    BY <2>1, <2>3, HistoryAssumption DEF JobsInv, Jobs, Generations
  <2>5. /\ [e EXCEPT !.cursor = sweep.next] \in Jobs
        /\ [e EXCEPT !.stage = "REPLAY", !.cursor = z] \in Jobs
        /\ e.generation # e.last => [e EXCEPT !.generation = @ + 1, !.cursor = z] \in Jobs
    BY <2>3, <2>4, JobForms
  <2>6. Onward(erasure[sweep.job]) \in Jobs
    BY <2>1, <2>2, <2>5 DEF Onward, Last, FromTheStart
  <2>7. erasure' = [erasure EXCEPT ![sweep.job] = Onward(erasure[sweep.job])]
    BY <1>5 DEF EndHistoryPage
  <2>8. erasure' \in [Erasures -> Jobs]
    BY <2>6, <2>7 DEF TypeOK
  <2> QED BY <1>0, <1>5, <2>8 DEF EndHistoryPage, TypeOK, requests, receipts
<1>6. CASE EraseReplay
  <2>1. sweep' \in Sweeps
    BY <1>6 DEF EraseReplay, TypeOK, Sweeps
  <2>2. Replaced \in Rows /\ \A r \in Requests : Redacted(replay[r]) \in Rows
    BY DEF Replaced, Redacted, NoRow, Rows, TypeOK
  <2>3. replay' \in [Requests -> Rows]
    BY <1>6, <2>2 DEF EraseReplay, TypeOK
  <2> QED BY <1>6, <2>1, <2>3 DEF EraseReplay, TypeOK, receipts
<1>7. CASE EndReplayPage
  <2>1. sweep' \in Sweeps
    BY <1>0, <1>1, <1>7 DEF EndReplayPage, Go
  <2>2. erasure' \in [Erasures -> Jobs]
    BY <1>7 DEF EndReplayPage, TypeOK, Jobs, Sweeps
  <2> QED BY <1>7, <2>1, <2>2 DEF EndReplayPage, TypeOK, requests, receipts
<1>8. CASE Refuse \/ LeaveTerminal
  BY <1>0, <1>8 DEF Refuse, LeaveTerminal, TypeOK, requests, receipts
<1>9. CASE FinalizeState
  <2>1. sweep' \in Sweeps
    BY <1>0, <1>1, <1>9 DEF FinalizeState, Go
  <2>2. account' \in [status : Statuses, generation : Generations]
    BY <1>9 DEF FinalizeState, TypeOK, Final, Statuses
  <2> QED BY <1>9, <2>1, <2>2 DEF FinalizeState, TypeOK, requests, receipts
<1>10. CASE WriteReceipt
  <2>1. sweep' \in Sweeps
    BY <1>1, <1>10 DEF WriteReceipt, Go
  <2> QED BY <1>10, <2>1 DEF WriteReceipt, TypeOK, requests
<1>11. CASE CompleteErasure
  <2>1. erasure' \in [Erasures -> Jobs]
    <3>1. erasure \in [Erasures -> Jobs] /\ erasure' = [erasure EXCEPT ![sweep.job].status = "COMPLETE"]
      BY <1>11 DEF CompleteErasure, TypeOK
    <3> QED BY <3>1 DEF Jobs
  <2> QED BY <1>0, <1>11, <2>1 DEF CompleteErasure, TypeOK, requests, receipts
<1> QED BY <1>3, <1>4, <1>5, <1>6, <1>7, <1>8, <1>9, <1>10, <1>11 DEF Erase

\* And in what it purges.
LEMMA PurgeTypes ==
  ASSUME TypeOK, Purge \/ Crash \/ Calm
  PROVE  TypeOK'
<1>0. Own \in Erasures /\ 1 \in Requests /\ Idle \in Sweeps
  BY HistoryAssumption DEF Erasures, Requests, Idle, Sweeps
<1>1. ASSUME NEW s, [sweep EXCEPT !.step = s] = sweep', s \in {"cancel", "answer", "expire"}
      PROVE  sweep' \in Sweeps
  BY <1>1 DEF TypeOK, Sweeps
<1>2. ASSUME NEW r \in Requests, Observe(r) \/ Retire(r) PROVE TypeOK'
  <2>1. sweep' \in Sweeps
    BY <1>0, <1>2 DEF Observe, Retire, Idle, Sweeps
  <2> QED BY <1>2, <2>1 DEF Observe, Retire, TypeOK, requests, receipts
<1>3. CASE RedactStale \/ RetireAnswer
  <2>1. sweep' \in Sweeps
    BY <1>1, <1>3 DEF RedactStale, RetireAnswer, Go
  <2>2. \A r \in Requests : Redacted(replay[r]) \in Rows
    BY DEF Redacted, Rows, TypeOK
  <2>3. replay' \in [Requests -> Rows]
    BY <1>3, <2>2 DEF RedactStale, RetireAnswer, TypeOK, Sweeps
  <2> QED BY <1>3, <2>1, <2>3 DEF RedactStale, RetireAnswer, TypeOK, receipts
<1>4. CASE Cancel
  <2>1. completion' \in [Requests -> Completions]
    <3>1. /\ completion \in [Requests -> Completions]
          /\ completion' \in {completion, [completion EXCEPT ![sweep.request].status = "CANCELLED_ERASED"]}
      BY <1>4 DEF Cancel, TypeOK
    <3> QED BY <3>1 DEF Completions
  <2> QED BY <1>0, <1>4, <2>1 DEF Cancel, TypeOK, receipts
<1>5. CASE RetireContent
  <2>1. sweep' \in Sweeps
    BY <1>1, <1>5 DEF RetireContent, Go
  <2> QED BY <1>5, <2>1 DEF RetireContent, TypeOK, receipts
<1>6. CASE RetireLocator
  <2>1. locator' \in [Requests -> Locators]
    <3>1. /\ locator \in [Requests -> Locators]
          /\ locator' \in {locator, [locator EXCEPT ![sweep.request].status = "gone"]}
      BY <1>6 DEF RetireLocator, TypeOK
    <3> QED BY <3>1 DEF Locators
  <2> QED BY <1>0, <1>6, <2>1 DEF RetireLocator, TypeOK, receipts
<1>7. CASE Crash \/ Calm
  BY <1>0, <1>7 DEF Crash, Calm, TypeOK, requests, receipts
<1> QED BY <1>2, <1>3, <1>4, <1>5, <1>6, <1>7 DEF Purge

\* Every step keeps the types.
LEMMA TypeStep == TypeOK /\ JobsInv /\ [Next]_vars => TypeOK'
<1> SUFFICES ASSUME TypeOK, JobsInv, [Next]_vars PROVE TypeOK'
  OBVIOUS
<1>1. CASE UNCHANGED vars
  BY <1>1 DEF vars, requests, receipts, TypeOK
<1> QED BY <1>1, CheckTypes, RequestTypes, EraseTypes, PurgeTypes DEF Next

-----------------------------------------------------------------------------
(* The rows of a request *)

rows == <<replay, content, locator, completion, aged>>

\* The account's row is written when it is made, cleared or deleted.
LEMMA AccountWrites ==
  ASSUME [Next]_vars
  PROVE  UNCHANGED account \/ Bootstrap \/ Clear \/ DeleteHistory \/ StartDeletion \/ FinalizeState
<1>1. ASSUME NEW r \in Requests, Check(r) \/ Mutate(r) PROVE UNCHANGED account
  BY <1>1 DEF Check, Mutate, Lock, TakeOver, Reserve, Store, Release, Commit, Expire, Age, BeginDeleteOne, CommitDeleteOne
<1>2. ASSUME RequestDeletion \/ CompleteDeletion \/ CompleteWithoutHistory \/ Crash \/ Calm \/ UNCHANGED vars
      PROVE  UNCHANGED account
  BY <1>2 DEF RequestDeletion, CompleteDeletion, CompleteWithoutHistory, Crash, Calm, vars
<1>3. ASSUME Erase PROVE UNCHANGED account \/ FinalizeState
  BY <1>3 DEF Erase, BeginHistory, BeginReplay, EraseContent, MarkLocator, EndHistoryPage, EraseReplay, Refuse,
              EndReplayPage, WriteReceipt, LeaveTerminal, CompleteErasure
<1>4. ASSUME Purge PROVE UNCHANGED account
  BY <1>4 DEF Purge, Observe, Retire, RedactStale, Cancel, RetireContent, RetireAnswer, RetireLocator
<1> QED BY <1>1, <1>2, <1>3, <1>4 DEF Next

\* The generation of the account, which a clear adds to.
LEMMA GenerationGrows ==
  ASSUME IInv, [Next]_vars
  PROVE  /\ account.generation \in Nat /\ account'.generation \in Nat
         /\ account.generation <= account'.generation
         /\ account'.generation = account.generation \/ Clear
<1>0. TypeOK /\ TypeOK'
  BY TypeStep DEF IInv
<1>1. account.generation \in Nat /\ account'.generation \in Nat
  BY <1>0, HistoryAssumption DEF TypeOK, Generations
<1>2. CASE UNCHANGED account
  BY <1>1, <1>2
<1>3. CASE Bootstrap \/ Clear \/ DeleteHistory \/ StartDeletion \/ FinalizeState
  BY <1>0, <1>1, <1>3 DEF TypeOK, Bootstrap, Clear, DeleteHistory, StartDeletion, FinalizeState
<1> QED BY <1>1, <1>2, <1>3, AccountWrites

\* A check's steps keep the rows of its request in agreement.
LEMMA CheckAgrees ==
  ASSUME IInv, NEW q \in Requests, Check(q), NEW r \in Requests
  PROVE  Agrees(r)'
<1>0. TypeOK /\ Agrees(r)
  BY DEF IInv, RowInv
<1>1. replay[r] \in Rows /\ locator[r] \in Locators /\ completion[r] \in Completions
  BY <1>0 DEF TypeOK
<1>n. None \notin Generations
  BY HistoryAssumption
<1>2. CASE r # q
  <2>1. UNCHANGED <<replay[r], content[r], locator[r], completion[r], account>> /\ (r \in aged' <=> r \in aged)
    BY <1>0, <1>2 DEF TypeOK, Check, Lock, TakeOver, Reserve, Store, Release, Commit, Expire, Age
  <2> QED BY <1>0, <2>1 DEF Agrees, Live
<1>3. ASSUME r = q, Lock(q) PROVE Agrees(r)'
  <2>1. replay'[r].status = "PROCESSING" /\ replay'[r].auth = None /\ ~replay'[r].response
    BY <1>0, <1>3 DEF TypeOK, Lock, NoRow
  <2> QED BY <1>0, <1>3, <2>1 DEF Lock, Agrees, Live
<1>4. ASSUME r = q, TakeOver(q) PROVE Agrees(r)'
  <2>1. /\ replay[r].status = "RETRYABLE" /\ replay'[r].status = "PROCESSING"
        /\ replay'[r].auth = replay[r].auth /\ replay'[r].response = replay[r].response
    BY <1>0, <1>1, <1>4 DEF TypeOK, TakeOver, Rows
  <2> QED BY <1>0, <1>4, <2>1 DEF TakeOver, Agrees, Live
<1>5. ASSUME r = q, Reserve(q) PROVE Agrees(r)'
  <2>1. /\ replay'[r].status = "PROCESSING" /\ replay[r].status = "PROCESSING"
        /\ replay'[r].auth = account.generation /\ replay'[r].response = replay[r].response
        /\ completion'[r] = [status |-> "PENDING", of |-> account.generation]
    BY <1>0, <1>1, <1>5 DEF TypeOK, Reserve, Processing, Rows
  <2> QED BY <1>0, <1>5, <2>1, <1>n DEF Reserve, Agrees, Live, TypeOK
<1>6. ASSUME r = q, Store(q) PROVE Agrees(r)'
  <2>1. /\ replay[r].status = "PROCESSING" /\ replay'[r].status = "RESULT_READY"
        /\ replay'[r].auth = replay[r].auth /\ replay[r].auth # None
    BY <1>0, <1>1, <1>6 DEF TypeOK, Store, Stores, Processing, Rows
  <2> QED BY <1>0, <1>6, <2>1 DEF Store, Agrees, Live
<1>7. ASSUME r = q, Release(q) PROVE Agrees(r)'
  <2>1. /\ replay[r].status = "PROCESSING"
        /\ \/ replay'[r] = NoRow
           \/ /\ replay'[r].status = "RETRYABLE"
              /\ replay'[r].auth = replay[r].auth /\ replay'[r].response = replay[r].response
    BY <1>0, <1>1, <1>7 DEF TypeOK, Release, Processing, Rows
  <2> QED BY <1>0, <1>7, <2>1 DEF Release, Agrees, Live, NoRow
<1>8. ASSUME r = q, Commit(q) PROVE Agrees(r)'
  <2>1. /\ replay[r].status = "RESULT_READY" /\ replay'[r].status = "COMPLETED"
        /\ replay'[r].auth = replay[r].auth /\ (replay'[r].response => replay[r].response)
    BY <1>0, <1>1, <1>8 DEF TypeOK, Commit, Rows
  <2>2. completion'[r].of = completion[r].of /\ completion'[r].status = "COMPLETE"
    BY <1>0, <1>1, <1>8 DEF TypeOK, Commit, Completions
  <2>3. CASE StillCurrent(q)
    <3>1. /\ content'[r] = replay[r].auth /\ locator'[r] = [status |-> "ACTIVE", of |-> replay[r].auth]
          /\ replay[r].auth = account.generation /\ account.generation \in Int
      BY <1>0, <1>8, <2>3 DEF TypeOK, Commit, StillCurrent, Generations
    <3> QED BY <1>0, <1>8, <2>1, <2>2, <3>1, <1>n DEF Commit, Agrees, Live
  <2>4. CASE ~StillCurrent(q)
    <3>1. content'[r] = content[r] /\ locator'[r] = [status |-> "gone", of |-> replay[r].auth] /\ locator[r] = NoEntry
      BY <1>0, <1>8, <2>4 DEF TypeOK, Commit
    <3>2. content[r] = None
      BY <1>0, <3>1 DEF Agrees, NoEntry
    <3> QED BY <1>0, <1>8, <2>1, <2>2, <3>1, <3>2 DEF Commit, Agrees, Live
  <2> QED BY <2>3, <2>4
<1>9. ASSUME r = q, Expire(q) PROVE Agrees(r)'
  <2>1. replay'[r] = NoRow
    BY <1>0, <1>9 DEF TypeOK, Expire
  <2> QED BY <1>0, <1>9, <2>1 DEF Expire, Agrees, Live, NoRow
<1>10. ASSUME r = q, Age(q) PROVE Agrees(r)'
  BY <1>0, <1>10 DEF Age, Agrees, Live, NoEntry
<1> QED BY <1>2, <1>3, <1>4, <1>5, <1>6, <1>7, <1>8, <1>9, <1>10 DEF Check

\* A row that is redacted, or replaced, or gone, has no answer.
LEMMA RedactedForm ==
  ASSUME NEW row \in Rows
  PROVE  /\ Redacted(row).status = "COMPLETED_ERASED" /\ Redacted(row).auth = row.auth /\ ~Redacted(row).response
         /\ Replaced.status = "COMPLETED_ERASED" /\ Replaced.auth = None /\ ~Replaced.response
BY DEF Redacted, Replaced, NoRow, Rows

\* What the sweep and the deletion of an item do to rows leaves them in agreement: an
\* answer goes, content goes, a locator ends, a completion is cancelled.
LEMMA LosesAgrees ==
  ASSUME TypeOK, NEW r \in Requests, Agrees(r), UNCHANGED <<aged, account>>,
         \/ replay'[r] = replay[r]
         \/ /\ replay'[r].status = "COMPLETED_ERASED" /\ ~replay'[r].response
            /\ replay'[r].auth \in {None, replay[r].auth},
         content'[r] \in {None, content[r]},
         \/ locator'[r] = locator[r]
         \/ /\ locator[r].status = "ACTIVE" /\ locator'[r].status = "gone" /\ locator'[r].of = locator[r].of
            /\ content'[r] = None,
         \/ completion'[r] = completion[r]
         \/ /\ completion[r].status = "PENDING" /\ completion'[r].status = "CANCELLED_ERASED"
            /\ completion'[r].of = completion[r].of /\ ~Live(r)'
  PROVE  Agrees(r)'
BY DEF Agrees, Live, NoEntry

\* The sweep's steps that write a row of a request.
SweepWrites ==
  \/ EraseContent \/ MarkLocator \/ EraseReplay \/ RedactStale \/ Cancel
  \/ RetireContent \/ RetireAnswer \/ RetireLocator

\* Each of them only takes away.
LEMMA SweepAgrees ==
  ASSUME IInv, SweepWrites, NEW r \in Requests
  PROVE  Agrees(r)'
<1>0. TypeOK /\ Agrees(r) /\ replay[r] \in Rows /\ locator[r] \in Locators /\ completion[r] \in Completions
  BY DEF IInv, RowInv, TypeOK
<1>1. CASE EraseContent
  <2>1. content'[r] \in {None, content[r]}
    BY <1>0, <1>1 DEF EraseContent, TypeOK
  <2> QED BY <1>0, <1>1, <2>1, LosesAgrees DEF EraseContent
<1>2. CASE MarkLocator
  <2>1. CASE locator'[r] = locator[r]
    BY <1>0, <1>2, <2>1, LosesAgrees DEF MarkLocator
  <2>2. CASE locator'[r] # locator[r]
    <3>1. r = Min(sweep.page) /\ locator[r] = [status |-> "ACTIVE", of |-> erasure[sweep.job].generation]
      BY <1>0, <1>2, <2>2 DEF MarkLocator, TypeOK
    <3>2. locator'[r].status = "gone" /\ locator'[r].of = locator[r].of
      BY <1>0, <1>2, <3>1 DEF MarkLocator, TypeOK, Locators
    <3>3. content[r] # erasure[sweep.job].generation
      BY <1>2, <3>1 DEF IInv, PageInv, MarkLocator, At
    <3>4. content[r] = None
      BY <1>0, <3>1, <3>3 DEF Agrees
    <3> QED BY <1>0, <1>2, <3>1, <3>2, <3>4, LosesAgrees DEF MarkLocator
  <2> QED BY <2>1, <2>2
<1>3. CASE EraseReplay
  <2>1. \/ replay'[r] = replay[r] \/ replay'[r] = Redacted(replay[r]) \/ replay'[r] = Replaced
    BY <1>0, <1>3 DEF EraseReplay, TypeOK
  <2> QED BY <1>0, <1>3, <2>1, RedactedForm, LosesAgrees DEF EraseReplay
<1>4. CASE RedactStale
  <2>1. \/ replay'[r] = replay[r] \/ replay'[r] = Redacted(replay[r])
    BY <1>0, <1>4 DEF RedactStale, TypeOK
  <2> QED BY <1>0, <1>4, <2>1, RedactedForm, LosesAgrees DEF RedactStale
<1>5. CASE Cancel
  <2>1. CASE completion'[r] = completion[r]
    BY <1>0, <1>5, <2>1, LosesAgrees DEF Cancel
  <2>2. CASE completion'[r] # completion[r]
    <3>1. /\ r = sweep.request /\ completion[r].status = "PENDING"
          /\ completion'[r].status = "CANCELLED_ERASED" /\ completion'[r].of = completion[r].of
      BY <1>0, <1>5, <2>2 DEF Cancel, TypeOK, Completions
    <3>2. ~Live(r) /\ UNCHANGED replay
      BY <1>5, <3>1 DEF IInv, RedactInv, Cancel, At
    <3> QED BY <1>0, <1>5, <3>1, <3>2, LosesAgrees DEF Cancel, Live
  <2> QED BY <2>1, <2>2
<1>6. CASE RetireContent
  <2>1. content'[r] \in {None, content[r]}
    BY <1>0, <1>6 DEF RetireContent, TypeOK
  <2> QED BY <1>0, <1>6, <2>1, LosesAgrees DEF RetireContent
<1>7. CASE RetireAnswer
  <2>1. \/ replay'[r] = replay[r] \/ replay'[r] = Redacted(replay[r])
    BY <1>0, <1>7 DEF RetireAnswer, TypeOK
  <2> QED BY <1>0, <1>7, <2>1, RedactedForm, LosesAgrees DEF RetireAnswer
<1>8. CASE RetireLocator
  <2>1. CASE locator'[r] = locator[r]
    BY <1>0, <1>8, <2>1, LosesAgrees DEF RetireLocator
  <2>2. CASE locator'[r] # locator[r]
    <3>1. /\ r = sweep.request /\ locator[r].status = "ACTIVE"
          /\ locator'[r].status = "gone" /\ locator'[r].of = locator[r].of
      BY <1>0, <1>8, <2>2 DEF RetireLocator, TypeOK, Locators
    <3>2. content[r] = None
      BY <1>8, <3>1 DEF IInv, RedactInv, RetireLocator, At
    <3> QED BY <1>0, <1>8, <3>1, <3>2, LosesAgrees DEF RetireLocator
  <2> QED BY <2>1, <2>2
<1> QED BY <1>1, <1>2, <1>3, <1>4, <1>5, <1>6, <1>7, <1>8 DEF SweepWrites

\* The steps that write no row of a request.
Elsewhere ==
  \/ Bootstrap \/ RequestDeletion \/ CompleteDeletion \/ Clear \/ DeleteHistory
  \/ StartDeletion \/ CompleteWithoutHistory
  \/ \E j \in Erasures : BeginHistory(j) \/ BeginReplay(j)
  \/ EndHistoryPage \/ Refuse \/ EndReplayPage
  \/ FinalizeState \/ WriteReceipt \/ LeaveTerminal \/ CompleteErasure
  \/ \E r \in Requests : Observe(r) \/ Retire(r) \/ BeginDeleteOne(r)
  \/ Crash \/ Calm \/ UNCHANGED vars

\* Steps elsewhere leave the rows alone.
LEMMA ElsewhereKeeps == Elsewhere => UNCHANGED rows
<1>1. ASSUME \/ Bootstrap \/ RequestDeletion \/ CompleteDeletion \/ Clear \/ DeleteHistory
             \/ StartDeletion \/ CompleteWithoutHistory \/ Crash \/ Calm \/ UNCHANGED vars
      PROVE  UNCHANGED rows
  BY <1>1 DEF Bootstrap, RequestDeletion, CompleteDeletion, Clear, DeleteHistory, StartDeletion,
              CompleteWithoutHistory, Crash, Calm, vars, requests, rows
<1>2. ASSUME \/ \E j \in Erasures : BeginHistory(j) \/ BeginReplay(j)
             \/ EndHistoryPage \/ Refuse \/ EndReplayPage
             \/ FinalizeState \/ WriteReceipt \/ LeaveTerminal \/ CompleteErasure
      PROVE  UNCHANGED rows
  BY <1>2 DEF BeginHistory, BeginReplay, EndHistoryPage, Refuse, EndReplayPage, FinalizeState, WriteReceipt,
              LeaveTerminal, CompleteErasure, requests, rows
<1>3. ASSUME NEW r \in Requests, Observe(r) \/ Retire(r) \/ BeginDeleteOne(r)
      PROVE  UNCHANGED rows
  BY <1>3 DEF Observe, Retire, BeginDeleteOne, requests, rows
<1> QED BY <1>1, <1>2, <1>3 DEF Elsewhere

\* Every step is one of a check, the deletion of an item, one of these, or elsewhere.
LEMMA StepKinds ==
  ASSUME [Next]_vars
  PROVE  (\E q \in Requests : Check(q) \/ CommitDeleteOne(q)) \/ SweepWrites \/ Elsewhere
BY DEF Next, Mutate, Erase, Purge, SweepWrites, Elsewhere

\* Every step keeps the rows of a request in agreement.
LEMMA RowStep ==
  ASSUME IInv, [Next]_vars
  PROVE  RowInv'
<1> SUFFICES ASSUME NEW r \in Requests PROVE Agrees(r)'
  BY DEF RowInv
<1>0. TypeOK /\ Agrees(r)
  BY DEF IInv, RowInv
<1>1. ASSUME NEW q \in Requests, Check(q) PROVE Agrees(r)'
  BY <1>1, CheckAgrees
<1>2. ASSUME NEW q \in Requests, CommitDeleteOne(q) PROVE Agrees(r)'
  <2>1. replay[r] \in Rows /\ locator[r] \in Locators
    BY <1>0 DEF TypeOK
  <2>2. CASE UNCHANGED rows
    BY <1>0, <1>2, <2>2 DEF CommitDeleteOne, rows, Agrees, Live
  <2>3. CASE /\ locator[q].status = "ACTIVE"
             /\ content' = [content EXCEPT ![q] = None]
             /\ locator' = [locator EXCEPT ![q].status = "gone"]
             /\ replay' = [replay EXCEPT ![q].status = "COMPLETED_ERASED", ![q].response = FALSE]
    <3>1. CASE r = q
      <4>1. /\ replay'[r].status = "COMPLETED_ERASED" /\ ~replay'[r].response /\ replay'[r].auth = replay[r].auth
            /\ locator'[r].status = "gone" /\ locator'[r].of = locator[r].of /\ content'[r] = None
        BY <1>0, <2>1, <2>3, <3>1 DEF TypeOK, Rows, Locators
      <4> QED BY <1>0, <1>2, <2>3, <3>1, <4>1, LosesAgrees DEF CommitDeleteOne
    <3>2. CASE r # q
      BY <1>0, <1>2, <2>3, <3>2, LosesAgrees DEF CommitDeleteOne, TypeOK
    <3> QED BY <3>1, <3>2
  <2> QED BY <1>2, <2>2, <2>3 DEF CommitDeleteOne, rows
<1>3. CASE SweepWrites
  BY <1>3, SweepAgrees
<1>4. CASE Elsewhere
  <2>1. /\ UNCHANGED rows /\ account.generation \in Nat /\ account'.generation \in Nat
        /\ account.generation <= account'.generation
    BY <1>4, ElsewhereKeeps, GenerationGrows
  <2>2. content[r] # None => content[r] \in Nat
    BY <1>0, HistoryAssumption DEF TypeOK, Generations
  <2> QED BY <1>0, <2>1, <2>2 DEF rows, Agrees, Live
<1> QED BY <1>1, <1>2, <1>3, <1>4, StepKinds

-----------------------------------------------------------------------------
(* The jobs *)

\* A job's row is written when it is made, behind each page, and at its end.
LEMMA JobWrites ==
  ASSUME [Next]_vars
  PROVE  UNCHANGED erasure \/ Clear \/ DeleteHistory \/ StartDeletion \/ EndHistoryPage \/ EndReplayPage \/ CompleteErasure
<1>1. ASSUME NEW q \in Requests, Check(q) \/ Mutate(q) PROVE UNCHANGED erasure
  BY <1>1 DEF Check, Mutate, Lock, TakeOver, Reserve, Store, Release, Commit, Expire, Age, BeginDeleteOne, CommitDeleteOne
<1>2. ASSUME \/ Bootstrap \/ RequestDeletion \/ CompleteDeletion \/ CompleteWithoutHistory \/ Crash \/ Calm
             \/ UNCHANGED vars
      PROVE  UNCHANGED erasure
  BY <1>2 DEF Bootstrap, RequestDeletion, CompleteDeletion, CompleteWithoutHistory, Crash, Calm, vars
<1>3. ASSUME Purge PROVE UNCHANGED erasure
  BY <1>3 DEF Purge, Observe, Retire, RedactStale, Cancel, RetireContent, RetireAnswer, RetireLocator
<1>4. ASSUME NEW j \in Erasures, BeginHistory(j) \/ BeginReplay(j) PROVE UNCHANGED erasure
  BY <1>4 DEF BeginHistory, BeginReplay
<1>5. ASSUME EraseContent \/ MarkLocator \/ EraseReplay \/ Refuse \/ FinalizeState \/ WriteReceipt \/ LeaveTerminal
      PROVE  UNCHANGED erasure
  BY <1>5 DEF EraseContent, MarkLocator, EraseReplay, Refuse, FinalizeState, WriteReceipt, LeaveTerminal
<1> QED BY <1>1, <1>2, <1>3, <1>4, <1>5 DEF Next, Erase

\* The states of a History follow each other.
LEMMA StatusSteps ==
  ASSUME IInv, [Next]_vars
  PROVE  \/ account'.status = account.status
         \/ Bootstrap /\ account.status = "none" /\ account'.status = "ACTIVE"
         \/ DeleteHistory /\ account.status = "ACTIVE" /\ account'.status = "HISTORY_DELETING"
         \/ StartDeletion /\ account.status \in {"ACTIVE", "HISTORY_DELETING", "HISTORY_DELETED"} /\ account'.status = "DELETING"
         \/ FinalizeState /\ account.status = "HISTORY_DELETING" /\ account'.status = "HISTORY_DELETED"
         \/ FinalizeState /\ account.status = "DELETING" /\ account'.status = "DELETED"
<1>0. account \in [status : Statuses, generation : Generations]
  BY DEF IInv, TypeOK
<1>1. CASE Bootstrap \/ Clear \/ DeleteHistory \/ StartDeletion \/ FinalizeState
  BY <1>0, <1>1 DEF Bootstrap, Clear, DeleteHistory, StartDeletion, FinalizeState, Before, Final, Statuses, Nothing
<1> QED BY <1>1, AccountWrites

\* A job that is made was not there, and those that are there stay.
LEMMA JobsMade ==
  ASSUME IInv, Clear \/ DeleteHistory \/ StartDeletion
  PROVE  \E i \in Erasures :
           /\ ~Exists(i)
           /\ erasure'[i] \in Jobs /\ erasure'[i].status = "PENDING" /\ erasure'[i].stage = "HISTORY" /\ erasure'[i].cursor = 0
           /\ erasure'[i].last = account.generation
           /\ \A j \in Erasures : j # i => erasure'[j] = erasure[j]
           /\ Clear => i = [reason |-> "CLEAR_HISTORY", of |-> account.generation] /\ erasure'[i].generation = account.generation
           /\ DeleteHistory => i = Own /\ erasure'[i].generation = 0
           /\ StartDeletion => i = Whole /\ erasure'[i].generation = 0
<1>0. TypeOK /\ JobsInv /\ account.generation \in Generations /\ 0 \in Generations
  BY HistoryAssumption DEF IInv, TypeOK, Generations
<1>1. CASE Clear
  <2>1. PICK i : i = [reason |-> "CLEAR_HISTORY", of |-> account.generation]
    OBVIOUS
  <2>2. i \in Erasures /\ ~Full(i) /\ i # Own /\ i # Whole /\ i.of = account.generation
    BY <1>0, <2>1 DEF Erasures, Full, Own, Whole
  <2>3. account.generation \in Int
    BY <1>0 DEF Generations
  <2>4. ~Exists(i)
    BY <1>0, <2>2, <2>3 DEF JobsInv
  <2>5. erasure' = [erasure EXCEPT ![i] = NewJob(account.generation, account.generation)] /\ account.status = "ACTIVE"
    BY <1>1, <2>1 DEF Clear
  <2>6. ~DeleteHistory /\ ~StartDeletion
    <3>1. account'.status = account.status
      BY <1>0, <1>1 DEF Clear, TypeOK
    <3> QED BY <1>0, <2>5, <3>1 DEF DeleteHistory, StartDeletion, TypeOK
  <2> QED BY <1>0, <2>1, <2>2, <2>4, <2>5, <2>6, NewJobForm DEF TypeOK
<1>2. CASE DeleteHistory
  <2>1. Own \in Erasures /\ ~Exists(Own)
    BY <1>0, <1>2 DEF JobsInv, DeleteHistory, Erasures
  <2>2. erasure' = [erasure EXCEPT ![Own] = NewJob(0, account.generation)]
    BY <1>2 DEF DeleteHistory
  <2>3. ~Clear /\ ~StartDeletion
    BY <1>0, <1>2 DEF DeleteHistory, Clear, StartDeletion, TypeOK
  <2> QED BY <1>0, <2>1, <2>2, <2>3, NewJobForm DEF TypeOK
<1>3. CASE StartDeletion
  <2>1. Whole \in Erasures /\ ~Exists(Whole)
    BY <1>0, <1>3 DEF JobsInv, StartDeletion, Erasures, Nothing
  <2>2. erasure' = [erasure EXCEPT ![Whole] = NewJob(0, account.generation)]
    BY <1>3 DEF StartDeletion
  <2>3. ~Clear /\ ~DeleteHistory
    BY <1>0, <1>3 DEF DeleteHistory, Clear, StartDeletion, TypeOK
  <2> QED BY <1>0, <2>1, <2>2, <2>3, NewJobForm DEF TypeOK
<1> QED BY <1>1, <1>2, <1>3

\* Behind a page of content the job's row is at the page's end, or at the start of
\* the next generation or stage.
LEMMA OnwardForm ==
  ASSUME NEW e \in Jobs, sweep.next \in 0 .. LastRequest
  PROVE  /\ Onward(e).status = e.status /\ Onward(e).last = e.last
         /\ sweep.more => Onward(e).stage = e.stage /\ Onward(e).generation = e.generation /\ Onward(e).cursor = sweep.next
         /\ ~sweep.more => Onward(e).cursor = 0
         /\ ~sweep.more /\ e.generation = e.last => Onward(e).stage = "REPLAY" /\ Onward(e).generation = e.generation
         /\ ~sweep.more /\ e.generation # e.last => Onward(e).stage = e.stage /\ Onward(e).generation = e.generation + 1
<1>1. CASE sweep.more
  BY <1>1 DEF Onward, Jobs
<1>2. CASE ~sweep.more /\ e.generation = e.last
  BY <1>2 DEF Onward, Last, FromTheStart, Jobs
<1>3. CASE ~sweep.more /\ e.generation # e.last
  BY <1>3 DEF Onward, Last, FromTheStart, Jobs
<1> QED BY <1>1, <1>2, <1>3

\* The sweep moves its own job on, which is pending, and no other.
LEMMA JobsMoved ==
  ASSUME IInv, EndHistoryPage \/ EndReplayPage \/ CompleteErasure
  PROVE  /\ sweep.job \in Erasures /\ erasure[sweep.job] \in Jobs /\ erasure[sweep.job].status = "PENDING"
         /\ \A j \in Erasures : j # sweep.job => erasure'[j] = erasure[j]
         /\ EndHistoryPage => erasure'[sweep.job] = Onward(erasure[sweep.job]) /\ erasure[sweep.job].stage = "HISTORY"
         /\ EndReplayPage \/ CompleteErasure =>
              /\ erasure[sweep.job].stage = "REPLAY" /\ erasure'[sweep.job].stage = "REPLAY"
              /\ erasure'[sweep.job].generation = erasure[sweep.job].generation
              /\ erasure'[sweep.job].last = erasure[sweep.job].last
         /\ EndReplayPage =>
              /\ erasure'[sweep.job].status = "PENDING"
              /\ erasure'[sweep.job].cursor = IF sweep.more THEN sweep.next ELSE erasure[sweep.job].cursor
         /\ CompleteErasure =>
              /\ erasure'[sweep.job].status = "COMPLETE"
              /\ erasure'[sweep.job].cursor = erasure[sweep.job].cursor
<1>0. TypeOK /\ PageInv /\ sweep.job \in Erasures /\ erasure[sweep.job] \in Jobs
  BY DEF IInv, TypeOK, Sweeps
<1>1. CASE EndHistoryPage
  <2>1. ~EndReplayPage /\ ~CompleteErasure
    BY <1>1 DEF EndHistoryPage, EndReplayPage, CompleteErasure, At
  <2>2. erasure' = [erasure EXCEPT ![sweep.job] = Onward(erasure[sweep.job])]
    BY <1>1 DEF EndHistoryPage
  <2>3. erasure[sweep.job].status = "PENDING" /\ erasure[sweep.job].stage = "HISTORY"
    BY <1>0, <1>1 DEF EndHistoryPage, At, PageInv
  <2> QED BY <1>0, <2>1, <2>2, <2>3 DEF TypeOK
<1>2. CASE EndReplayPage
  <2>1. ~EndHistoryPage /\ ~CompleteErasure
    BY <1>2 DEF EndHistoryPage, EndReplayPage, CompleteErasure, At
  <2>2. erasure' = [erasure EXCEPT ![sweep.job].cursor = IF sweep.more THEN sweep.next ELSE @]
    <3>1. CASE sweep.more
      BY <1>2, <3>1 DEF EndReplayPage
    <3>2. CASE ~sweep.more
      BY <1>0, <1>2, <3>2 DEF EndReplayPage, TypeOK, Jobs
    <3> QED BY <3>1, <3>2
  <2>3. erasure[sweep.job].status = "PENDING" /\ erasure[sweep.job].stage = "REPLAY"
    BY <1>0, <1>2 DEF EndReplayPage, At, PageInv
  <2> QED BY <1>0, <2>1, <2>2, <2>3 DEF TypeOK, Jobs
<1>3. CASE CompleteErasure
  <2>1. ~EndHistoryPage /\ ~EndReplayPage
    BY <1>3 DEF EndHistoryPage, EndReplayPage, CompleteErasure, At
  <2>2. erasure' = [erasure EXCEPT ![sweep.job].status = "COMPLETE"]
    BY <1>3 DEF CompleteErasure
  <2>3. erasure[sweep.job].status = "PENDING" /\ erasure[sweep.job].stage = "REPLAY"
    BY <1>0, <1>3 DEF CompleteErasure, At, PageInv
  <2> QED BY <1>0, <2>1, <2>2, <2>3 DEF TypeOK, Jobs
<1> QED BY <1>1, <1>2, <1>3

\* Every step keeps what is said of the jobs.
LEMMA JobsStep ==
  ASSUME IInv, [Next]_vars
  PROVE  JobsInv'
<1>0. /\ TypeOK /\ JobsInv /\ Own \in Erasures /\ Whole \in Erasures
      /\ account.generation \in Nat /\ account'.generation \in Nat /\ account.generation <= account'.generation
  BY GenerationGrows DEF IInv, Erasures
<1>t. /\ \A j \in Erasures : erasure[j].generation \in Nat /\ erasure[j].last \in Nat
      /\ \A j \in Erasures : ~Full(j) => j.of \in Nat
  BY <1>0, HistoryAssumption DEF TypeOK, Jobs, Generations, Erasures, Full
<1>f. Full(Own) /\ Full(Whole) /\ Own # Whole
  BY DEF Full, Own, Whole
<1>1. ASSUME Exists(Own)' => Exists(Own) \/ account'.status \in {"HISTORY_DELETING", "HISTORY_DELETED", "DELETING", "DELETED"}
      PROVE  Exists(Own)' => account'.status \in {"HISTORY_DELETING", "HISTORY_DELETED", "DELETING", "DELETED"}
  BY <1>0, <1>1, StatusSteps DEF JobsInv
<1>2. ASSUME Exists(Whole)' => Exists(Whole) \/ account'.status \in {"DELETING", "DELETED"}
      PROVE  Exists(Whole)' => account'.status \in {"DELETING", "DELETED"}
  BY <1>0, <1>2, StatusSteps DEF JobsInv
<1>3. CASE UNCHANGED erasure
  <2>1. /\ \A j \in Erasures : erasure'[j].generation <= erasure'[j].last
        /\ \A j \in Erasures : Exists(j)' /\ ~Full(j) =>
             erasure'[j].generation = j.of /\ erasure'[j].last = j.of /\ j.of < account'.generation
    BY <1>0, <1>t, <1>3 DEF JobsInv, Exists
  <2>2. Exists(Own)' => Exists(Own)
    BY <1>3 DEF Exists
  <2>3. Exists(Whole)' => Exists(Whole)
    BY <1>3 DEF Exists
  <2> QED BY <1>1, <1>2, <2>1, <2>2, <2>3 DEF JobsInv, Full
<1>4. CASE Clear \/ DeleteHistory \/ StartDeletion
  <2>1. PICK i \in Erasures :
           /\ ~Exists(i)
           /\ erasure'[i] \in Jobs /\ erasure'[i].status = "PENDING" /\ erasure'[i].stage = "HISTORY" /\ erasure'[i].cursor = 0
           /\ erasure'[i].last = account.generation
           /\ \A j \in Erasures : j # i => erasure'[j] = erasure[j]
           /\ Clear => i = [reason |-> "CLEAR_HISTORY", of |-> account.generation] /\ erasure'[i].generation = account.generation
           /\ DeleteHistory => i = Own /\ erasure'[i].generation = 0
           /\ StartDeletion => i = Whole /\ erasure'[i].generation = 0
    BY <1>4, JobsMade
  <2>2. Clear => ~Full(i) /\ i.of = account.generation /\ account'.generation = account.generation + 1
    BY <1>0, <2>1 DEF Clear, TypeOK, Full, Own, Whole
  <2>3. DeleteHistory => account'.status = "HISTORY_DELETING"
    BY <1>0 DEF DeleteHistory, TypeOK
  <2>4. StartDeletion => account'.status = "DELETING"
    BY <1>0 DEF StartDeletion, TypeOK
  <2>5. erasure'[i].generation <= erasure'[i].last
    BY <1>0, <1>4, <2>1
  <2>6. \A j \in Erasures : erasure'[j].generation <= erasure'[j].last
    BY <1>0, <2>1, <2>5 DEF JobsInv
  <2>7. \A j \in Erasures : Exists(j)' /\ ~Full(j) =>
          erasure'[j].generation = j.of /\ erasure'[j].last = j.of /\ j.of < account'.generation
    <3> SUFFICES ASSUME NEW j \in Erasures, Exists(j)', ~Full(j)
                 PROVE  erasure'[j].generation = j.of /\ erasure'[j].last = j.of /\ j.of < account'.generation
      OBVIOUS
    <3>1. CASE j = i
      BY <1>0, <1>4, <1>f, <2>1, <2>2, <3>1
    <3>2. CASE j # i
      BY <1>0, <1>t, <2>1, <3>2 DEF JobsInv, Exists
    <3> QED BY <3>1, <3>2
  <2>8. Exists(Own)' => Exists(Own) \/ account'.status \in {"HISTORY_DELETING", "HISTORY_DELETED", "DELETING", "DELETED"}
    BY <1>0, <1>4, <1>f, <2>1, <2>2, <2>3, <2>4 DEF Exists
  <2>9. Exists(Whole)' => Exists(Whole) \/ account'.status \in {"DELETING", "DELETED"}
    BY <1>0, <1>4, <1>f, <2>1, <2>2, <2>3, <2>4 DEF Exists
  <2> QED BY <1>1, <1>2, <2>6, <2>7, <2>8, <2>9 DEF JobsInv, Full
<1>5. CASE EndHistoryPage \/ EndReplayPage \/ CompleteErasure
  <2>1. PICK i \in Erasures, e \in Jobs : i = sweep.job /\ e = erasure[i] /\ e.status = "PENDING"
    BY <1>5, JobsMoved
  <2>2. Exists(i)
    BY <2>1 DEF Exists
  <2>3. \A j \in Erasures : j # i => erasure'[j] = erasure[j]
    BY <1>5, <2>1, JobsMoved
  <2>4. erasure'[i].last = e.last /\ erasure'[i].generation \in {e.generation, e.generation + 1}
        /\ (erasure'[i].generation # e.generation => e.generation # e.last)
    <3>1. CASE EndHistoryPage
      BY <1>0, <2>1, <3>1, JobsMoved, OnwardForm DEF TypeOK, Sweeps
    <3>2. CASE EndReplayPage \/ CompleteErasure
      BY <2>1, <3>2, JobsMoved
    <3> QED BY <1>5, <3>1, <3>2
  <2>5. \A j \in Erasures : erasure'[j].generation <= erasure'[j].last
    BY <1>0, <1>t, <2>1, <2>3, <2>4 DEF JobsInv
  <2>6. \A j \in Erasures : Exists(j)' /\ ~Full(j) =>
          erasure'[j].generation = j.of /\ erasure'[j].last = j.of /\ j.of < account'.generation
    <3> SUFFICES ASSUME NEW j \in Erasures, Exists(j)', ~Full(j)
                 PROVE  erasure'[j].generation = j.of /\ erasure'[j].last = j.of /\ j.of < account'.generation
      OBVIOUS
    <3>1. CASE j = i
      BY <1>0, <1>t, <2>1, <2>2, <2>4, <3>1 DEF JobsInv
    <3>2. CASE j # i
      BY <1>0, <1>t, <2>3, <3>2 DEF JobsInv, Exists
    <3> QED BY <3>1, <3>2
  <2>7. Exists(Own)' => Exists(Own)
    BY <1>0, <2>1, <2>2, <2>3 DEF Exists
  <2>8. Exists(Whole)' => Exists(Whole)
    BY <1>0, <2>1, <2>2, <2>3 DEF Exists
  <2> QED BY <1>1, <1>2, <2>5, <2>6, <2>7, <2>8 DEF JobsInv, Full
<1> QED BY <1>3, <1>4, <1>5, JobWrites

-----------------------------------------------------------------------------
(* Content *)

\* Only the commit of a check writes content, of the generation that is current.
LEMMA ContentStep ==
  ASSUME IInv, [Next]_vars, NEW r \in Requests
  PROVE  \/ content'[r] \in {None, content[r]}
         \/ /\ account.status = "ACTIVE" /\ content'[r] = account.generation /\ locator[r] = NoEntry
            /\ UNCHANGED <<account, erasure, sweep>>
<1>0. TypeOK
  BY DEF IInv
<1>1. ASSUME NEW q \in Requests, Lock(q) \/ TakeOver(q) \/ Reserve(q) \/ Store(q) \/ Release(q) \/ Expire(q) \/ Age(q)
      PROVE  content'[r] = content[r]
  BY <1>1 DEF Lock, TakeOver, Reserve, Store, Release, Expire, Age
<1>2. ASSUME NEW q \in Requests, Commit(q)
      PROVE  \/ content'[r] = content[r]
             \/ /\ account.status = "ACTIVE" /\ content'[r] = account.generation /\ locator[r] = NoEntry
                /\ UNCHANGED <<account, erasure, sweep>>
  BY <1>0, <1>2 DEF Commit, StillCurrent, TypeOK
<1>3. ASSUME NEW q \in Requests, CommitDeleteOne(q) PROVE content'[r] \in {None, content[r]}
  BY <1>0, <1>3 DEF CommitDeleteOne, TypeOK
<1>4. CASE SweepWrites
  BY <1>0, <1>4 DEF SweepWrites, EraseContent, MarkLocator, EraseReplay, RedactStale, Cancel,
                    RetireContent, RetireAnswer, RetireLocator, TypeOK
<1>5. CASE Elsewhere
  BY <1>5, ElsewhereKeeps DEF rows
<1> QED BY <1>1, <1>2, <1>3, <1>4, <1>5, StepKinds DEF Check

\* The rows of a job's generation are those that were there when it was made.
LEMMA OldContent ==
  ASSUME IInv, [Next]_vars, NEW r \in Requests, NEW j \in Erasures, Exists(j), content'[r] # None,
         content'[r] = erasure[j].generation \/ Full(j)
  PROVE  content'[r] = content[r]
<1>0. TypeOK /\ JobsInv
  BY DEF IInv
<1>1. CASE Full(j)
  <2>1. account.status # "ACTIVE"
    BY <1>0, <1>1 DEF JobsInv, Full
  <2> QED BY <2>1, ContentStep
<1>2. CASE ~Full(j)
  <2>1. erasure[j].generation < account.generation
    BY <1>0, <1>2 DEF JobsInv
  <2>2. erasure[j].generation # account.generation
    BY <1>0, <2>1, HistoryAssumption DEF TypeOK, Jobs, Generations
  <2> QED BY <1>2, <2>2, ContentStep
<1> QED BY <1>1, <1>2

\* A job that comes to a row's content still does after any step that leaves the content.
LEMMA ReachesStays ==
  ASSUME IInv, [Next]_vars, NEW r \in Requests, NEW j \in Erasures,
         content[r] # None, content'[r] = content[r], Reaches(j, content[r], r)
  PROVE  Reaches(j, content[r], r)'
<1>0. TypeOK /\ JobsInv /\ PageInv
  BY DEF IInv
<1>1. PICK g \in Generations : g = content[r]
  BY <1>0 DEF TypeOK
<1>2. PICK e \in Jobs : e = erasure[j]
  BY <1>0 DEF TypeOK
<1>3. /\ g \in Nat /\ r \in Nat /\ 0 < r /\ r <= LastRequest
      /\ e.generation \in Nat /\ e.last \in Nat /\ e.cursor \in Nat
  BY HistoryAssumption DEF Generations, Requests, Jobs
<1>4. /\ e.status = "PENDING" /\ e.stage = "HISTORY"
      /\ e.generation <= g /\ g <= e.last /\ (g = e.generation => e.cursor < r)
  BY <1>1, <1>2, <1>3 DEF Reaches
<1>5. CASE erasure'[j] = erasure[j]
  BY <1>5 DEF Reaches
<1>6. CASE Clear \/ DeleteHistory \/ StartDeletion
  <2>1. Exists(j)
    BY <1>2, <1>4 DEF Exists
  <2> QED BY <1>5, <1>6, <2>1, JobsMade
<1>7. CASE EndReplayPage \/ CompleteErasure
  <2>1. j # sweep.job
    BY <1>2, <1>4, <1>7, JobsMoved
  <2> QED BY <1>5, <1>7, <2>1, JobsMoved
<1>8. CASE EndHistoryPage
  <2>1. CASE j # sweep.job
    BY <1>5, <1>8, <2>1, JobsMoved
  <2>2. CASE j = sweep.job
    <3>1. PICK f \in Jobs : f = erasure'[j] /\ f = Onward(e)
      <4>1. erasure'[j] = Onward(e)
        BY <1>2, <1>8, <2>2, JobsMoved
      <4>2. TypeOK'
        BY <1>0, TypeStep
      <4> QED BY <4>1, <4>2 DEF TypeOK
    <3>2. /\ sweep.next \in 0 .. LastRequest /\ (~sweep.more => sweep.next = LastRequest)
          /\ g = e.generation => ~(e.cursor < r /\ r <= sweep.next)
      BY <1>0, <1>1, <1>2, <1>8, <2>2 DEF TypeOK, Sweeps, PageInv, EndHistoryPage, At
    <3>3. /\ f.status = "PENDING" /\ f.last = e.last
          /\ sweep.more => f.stage = "HISTORY" /\ f.generation = e.generation /\ f.cursor = sweep.next
          /\ ~sweep.more => f.cursor = 0
          /\ ~sweep.more /\ e.generation # e.last => f.stage = "HISTORY" /\ f.generation = e.generation + 1
      BY <1>4, <3>1, <3>2, OnwardForm
    <3>4. sweep.next \in Nat /\ (g = e.generation => sweep.more /\ sweep.next < r)
      BY <1>3, <1>4, <3>2, HistoryAssumption
    <3>5. /\ f.stage = "HISTORY" /\ f.generation <= g /\ g <= f.last
          /\ (g = f.generation => f.cursor < r)
      <4>1. CASE sweep.more
        BY <1>3, <1>4, <3>3, <3>4, <4>1
      <4>2. CASE ~sweep.more
        BY <1>3, <1>4, <3>3, <3>4, <4>2
      <4> QED BY <4>1, <4>2
    <3>6. f.generation \in Nat /\ f.last \in Nat
      BY HistoryAssumption DEF Jobs, Generations
    <3>7. g \in f.generation .. f.last
      BY <1>3, <3>5, <3>6
    <3> QED BY <1>1, <3>1, <3>3, <3>5, <3>7 DEF Reaches
  <2> QED BY <2>1, <2>2
<1> QED BY <1>5, <1>6, <1>7, <1>8, JobWrites

\* A job that is there stays there.
LEMMA ExistsStays ==
  ASSUME IInv, [Next]_vars, NEW j \in Erasures, Exists(j)
  PROVE  Exists(j)'
<1>1. CASE UNCHANGED erasure
  BY <1>1 DEF Exists
<1>2. CASE Clear \/ DeleteHistory \/ StartDeletion
  BY <1>2, JobsMade DEF Exists
<1>3. CASE EndHistoryPage \/ EndReplayPage \/ CompleteErasure
  <2>1. sweep.next \in 0 .. LastRequest
    BY DEF IInv, TypeOK, Sweeps
  <2>2. erasure'[sweep.job].status \in {"PENDING", "COMPLETE"}
    BY <1>3, <2>1, JobsMoved, OnwardForm
  <2> QED BY <1>3, <2>2, JobsMoved DEF Exists
<1> QED BY <1>1, <1>2, <1>3, JobWrites

\* So content that the account no longer shows is waited for after every step.
LEMMA LeftStep ==
  ASSUME IInv, [Next]_vars
  PROVE  NothingLeftBehind'
<1> SUFFICES ASSUME NEW r \in Requests, content'[r] # None,
                    account'.status # "ACTIVE" \/ content'[r] # account'.generation
             PROVE  \E j \in Erasures : Reaches(j, content[r], r)'
  BY DEF NothingLeftBehind
<1>0. /\ TypeOK /\ JobsInv /\ NothingLeftBehind /\ Agrees(r)
  BY DEF IInv, RowInv
<1>1. content'[r] = content[r]
  <2>1. ~ (account.status = "ACTIVE" /\ content'[r] = account.generation /\ UNCHANGED account)
    OBVIOUS
  <2> QED BY <2>1, ContentStep
<1>2. CASE account.status # "ACTIVE" \/ content[r] # account.generation
  <2>1. PICK j \in Erasures : Reaches(j, content[r], r)
    BY <1>0, <1>1, <1>2 DEF NothingLeftBehind
  <2> QED BY <1>1, <2>1, ReachesStays
<1>3. CASE account.status = "ACTIVE" /\ content[r] = account.generation
  <2>1. Clear \/ DeleteHistory \/ StartDeletion
    BY <1>1, <1>3, StatusSteps, GenerationGrows
  <2>2. PICK i \in Erasures :
           /\ erasure'[i].status = "PENDING" /\ erasure'[i].stage = "HISTORY" /\ erasure'[i].cursor = 0
           /\ erasure'[i].last = account.generation
           /\ Clear => erasure'[i].generation = account.generation
           /\ DeleteHistory => erasure'[i].generation = 0
           /\ StartDeletion => erasure'[i].generation = 0
    BY <2>1, JobsMade
  <2>3. account.generation \in erasure'[i].generation .. erasure'[i].last
    BY <2>1, <2>2, GenerationGrows
  <2>4. 0 < r
    BY DEF Requests
  <2> QED BY <1>1, <1>3, <2>2, <2>3, <2>4 DEF Reaches
<1> QED BY <1>2, <1>3

-----------------------------------------------------------------------------
(* Answers *)

\* A replay row is reserved for a generation and is given its answer by its check; all
\* other steps can only take its generation and its answer.
LEMMA ReplayStep ==
  ASSUME IInv, [Next]_vars, NEW r \in Requests
  PROVE  \/ /\ replay'[r].auth \in {None, replay[r].auth}
            /\ replay'[r].response => replay[r].response /\ replay'[r].auth = replay[r].auth
            /\ Live(r)' => Live(r)
         \/ Reserve(r) /\ replay'[r].response = replay[r].response
         \/ Store(r) /\ Live(r) /\ Live(r)' /\ replay'[r].auth = replay[r].auth
<1>0. TypeOK /\ replay[r] \in Rows
  BY DEF IInv, TypeOK
<1>1. CASE replay'[r] = replay[r]
  BY <1>1 DEF Live
<1>2. CASE replay'[r].status = "COMPLETED_ERASED" /\ ~replay'[r].response /\ replay'[r].auth \in {None, replay[r].auth}
  BY <1>2 DEF Live
<1>3. ASSUME NEW q \in Requests, Check(q)
      PROVE  \/ /\ replay'[r].auth \in {None, replay[r].auth}
                /\ replay'[r].response => replay[r].response /\ replay'[r].auth = replay[r].auth
                /\ Live(r)' => Live(r)
             \/ Reserve(r) /\ replay'[r].response = replay[r].response
             \/ Store(r) /\ Live(r) /\ Live(r)' /\ replay'[r].auth = replay[r].auth
  <2>1. CASE q # r
    <3>1. replay'[r] = replay[r]
      BY <1>0, <1>3, <2>1 DEF TypeOK, Check, Lock, TakeOver, Reserve, Store, Release, Commit, Expire, Age
    <3> QED BY <1>1, <3>1
  <2>2. CASE q = r /\ (Lock(q) \/ Expire(q))
    <3>1. replay'[r].auth = None /\ ~replay'[r].response
      <4>1. CASE Lock(q)
        BY <1>0, <2>2, <4>1 DEF TypeOK, Lock, NoRow
      <4>2. CASE Expire(q)
        BY <1>0, <2>2, <4>2 DEF TypeOK, Expire, NoRow
      <4> QED BY <2>2, <4>1, <4>2
    <3> QED BY <3>1 DEF Live
  <2>3. CASE q = r /\ TakeOver(q)
    <3>1. /\ replay[r].status = "RETRYABLE"
          /\ replay'[r].auth = replay[r].auth /\ replay'[r].response = replay[r].response
      BY <1>0, <2>3 DEF TypeOK, TakeOver, Rows
    <3> QED BY <3>1 DEF Live
  <2>4. CASE q = r /\ Reserve(q)
    <3>1. replay'[r].response = replay[r].response
      BY <1>0, <2>4 DEF TypeOK, Reserve, Rows
    <3> QED BY <2>4, <3>1
  <2>5. CASE q = r /\ Store(q)
    <3>1. /\ replay[r].status = "PROCESSING" /\ replay'[r].status = "RESULT_READY"
          /\ replay'[r].auth = replay[r].auth /\ replay[r].auth # None
      BY <1>0, <2>5 DEF TypeOK, Store, Stores, Processing, Rows
    <3> QED BY <2>5, <3>1 DEF Live
  <2>6. CASE q = r /\ Release(q)
    <3>1. /\ replay[r].status = "PROCESSING"
          /\ \/ replay'[r] = NoRow
             \/ replay'[r].auth = replay[r].auth /\ replay'[r].response = replay[r].response
      BY <1>0, <2>6 DEF TypeOK, Release, Processing, Rows
    <3> QED BY <3>1 DEF Live, NoRow
  <2>7. CASE q = r /\ Commit(q)
    <3>1. /\ replay'[r].status = "COMPLETED"
          /\ replay'[r].auth = replay[r].auth /\ (replay'[r].response => replay[r].response)
      BY <1>0, <2>7 DEF TypeOK, Commit, Rows
    <3> QED BY <3>1 DEF Live
  <2>8. CASE q = r /\ Age(q)
    BY <1>1, <2>8 DEF Age
  <2> QED BY <1>3, <2>1, <2>2, <2>3, <2>4, <2>5, <2>6, <2>7, <2>8 DEF Check
<1>4. ASSUME NEW q \in Requests, CommitDeleteOne(q)
      PROVE  \/ replay'[r] = replay[r]
             \/ replay'[r].status = "COMPLETED_ERASED" /\ ~replay'[r].response /\ replay'[r].auth = replay[r].auth
  BY <1>0, <1>4 DEF CommitDeleteOne, TypeOK, Rows
<1>5. ASSUME SweepWrites
      PROVE  replay'[r] = replay[r] \/ replay'[r] = Redacted(replay[r]) \/ replay'[r] = Replaced
  <2>1. CASE EraseReplay \/ RedactStale \/ RetireAnswer
    BY <1>0, <2>1 DEF EraseReplay, RedactStale, RetireAnswer, TypeOK
  <2>2. CASE EraseContent \/ MarkLocator \/ Cancel \/ RetireContent \/ RetireLocator
    BY <2>2 DEF EraseContent, MarkLocator, Cancel, RetireContent, RetireLocator
  <2> QED BY <1>5, <2>1, <2>2 DEF SweepWrites
<1>6. ASSUME SweepWrites
      PROVE  \/ replay'[r] = replay[r]
             \/ replay'[r].status = "COMPLETED_ERASED" /\ ~replay'[r].response /\ replay'[r].auth \in {None, replay[r].auth}
  BY <1>0, <1>5, <1>6, RedactedForm
<1>7. ASSUME Elsewhere PROVE replay'[r] = replay[r]
  BY <1>7, ElsewhereKeeps DEF rows
<1> QED BY <1>1, <1>2, <1>3, <1>4, <1>6, <1>7, StepKinds

\* A completion is reserved once, and ends with the commit of its check or cancelled.
LEMMA CompletionStep ==
  ASSUME IInv, [Next]_vars, NEW r \in Requests
  PROVE  \/ completion'[r] = completion[r]
         \/ Reserve(r) /\ completion[r] = NoEntry /\ completion'[r].status = "PENDING"
         \/ Commit(r) /\ completion'[r].status = "COMPLETE"
         \/ Cancel /\ r = sweep.request /\ completion'[r].status = "CANCELLED_ERASED"
<1>0. TypeOK /\ completion[r] \in Completions
  BY DEF IInv, TypeOK
<1>1. ASSUME NEW q \in Requests, Lock(q) \/ TakeOver(q) \/ Store(q) \/ Release(q) \/ Expire(q) \/ Age(q) \/ CommitDeleteOne(q)
      PROVE  completion'[r] = completion[r]
  BY <1>1 DEF Lock, TakeOver, Store, Release, Expire, Age, CommitDeleteOne
<1>2. ASSUME NEW q \in Requests, Reserve(q)
      PROVE  completion'[r] = completion[r] \/ (Reserve(r) /\ completion[r] = NoEntry /\ completion'[r].status = "PENDING")
  <2>1. CASE q = r
    <3>1. completion[r] = NoEntry /\ completion'[r].status = "PENDING"
      BY <1>0, <1>2, <2>1 DEF Reserve, TypeOK
    <3> QED BY <1>2, <2>1, <3>1
  <2>2. CASE q # r
    <3>1. completion'[r] = completion[r]
      BY <1>0, <1>2, <2>2 DEF Reserve, TypeOK
    <3> QED BY <3>1
  <2> QED BY <2>1, <2>2
<1>3. ASSUME NEW q \in Requests, Commit(q)
      PROVE  completion'[r] = completion[r] \/ (Commit(r) /\ completion'[r].status = "COMPLETE")
  <2>1. completion' = [completion EXCEPT ![q].status = "COMPLETE"]
    BY <1>3 DEF Commit
  <2>2. CASE q = r
    <3>1. completion'[r].status = "COMPLETE"
      BY <1>0, <2>1, <2>2 DEF TypeOK, Completions
    <3> QED BY <1>3, <2>2, <3>1
  <2>3. CASE q # r
    <3>1. completion'[r] = completion[r]
      BY <1>0, <2>1, <2>3 DEF TypeOK
    <3> QED BY <3>1
  <2> QED BY <2>2, <2>3
<1>4. ASSUME EraseContent \/ MarkLocator \/ EraseReplay \/ RedactStale \/ RetireContent \/ RetireAnswer \/ RetireLocator
      PROVE  completion'[r] = completion[r]
  BY <1>4 DEF EraseContent, MarkLocator, EraseReplay, RedactStale, RetireContent, RetireAnswer, RetireLocator
<1>5. ASSUME Cancel
      PROVE  completion'[r] = completion[r] \/ (Cancel /\ r = sweep.request /\ completion'[r].status = "CANCELLED_ERASED")
  <2>1. CASE r = sweep.request
    <3>1. completion'[r] = completion[r] \/ completion'[r].status = "CANCELLED_ERASED"
      <4>1. CASE completion[r].status = "PENDING"
        <5>1. completion' = [completion EXCEPT ![r].status = "CANCELLED_ERASED"]
          BY <1>5, <2>1, <4>1 DEF Cancel
        <5> QED BY <1>0, <5>1 DEF TypeOK, Completions
      <4>2. CASE completion[r].status # "PENDING"
        BY <1>5, <2>1, <4>2 DEF Cancel
      <4> QED BY <4>1, <4>2
    <3> QED BY <1>5, <2>1, <3>1
  <2>2. CASE r # sweep.request
    <3>1. completion'[r] = completion[r]
      BY <1>0, <1>5, <2>2 DEF TypeOK, Cancel
    <3> QED BY <3>1
  <2> QED BY <2>1, <2>2
<1>6. ASSUME Elsewhere PROVE completion'[r] = completion[r]
  BY <1>6, ElsewhereKeeps DEF rows
<1> QED BY <1>1, <1>2, <1>3, <1>4, <1>5, <1>6, StepKinds DEF Check, SweepWrites

\* A History that is not active gets neither content nor answers.
LEMMA CleanStays ==
  ASSUME IInv, [Next]_vars, NEW r \in Requests, account.status # "ACTIVE", Clean(r)
  PROVE  Clean(r)'
BY ReplayStep DEF Clean, Reserve, Store

\* Where nothing is left, nothing comes back.
LEMMA AllGoneStays ==
  ASSUME IInv, [Next]_vars, account.status # "ACTIVE", AllGone
  PROVE  AllGone'
BY ContentStep, CleanStays DEF AllGone

\* A row that has been dealt with for a job stays so: an answer of a generation that is
\* over is only stored by a check that is still to be committed, which drops it.
LEMMA DoneStays ==
  ASSUME IInv, [Next]_vars, NEW r \in Requests, NEW j \in Erasures, Exists(j), Done(j, r)
  PROVE  Done(j, r)'
<1>0. TypeOK /\ JobsInv /\ RedactInv /\ Agrees(r)
  BY DEF IInv, RowInv
<1>1. CASE Full(j)
  <2>1. account.status # "ACTIVE"
    BY <1>0, <1>1 DEF JobsInv, Full
  <2> QED BY <1>1, <2>1, CleanStays DEF Done
<1>2. CASE ~Full(j)
  <2> SUFFICES ASSUME replay'[r].response, replay'[r].auth = j.of PROVE completion'[r].status = "PENDING"
    BY <1>2 DEF Done
  <2>1. CASE Reserve(r)
    BY <1>0, <2>1 DEF Reserve, TypeOK, Completions
  <2>2. CASE Store(r) /\ Live(r)
    BY <1>0, <2>2 DEF Store, Agrees
  <2>3. CASE replay[r].response /\ replay'[r].auth = replay[r].auth
    <3>1. completion[r].status = "PENDING"
      BY <1>2, <2>3 DEF Done
    <3>2. ASSUME Commit(r) PROVE FALSE
      <4>1. account.generation # j.of
        BY <1>0, <1>2, HistoryAssumption DEF JobsInv, TypeOK, Generations, Erasures, Full
      <4>2. ~StillCurrent(r)
        BY <2>3, <4>1 DEF StillCurrent
      <4>3. replay' = [replay EXCEPT ![r].status = "COMPLETED", ![r].response = FALSE]
        BY <3>2, <4>2 DEF Commit
      <4> QED BY <1>0, <4>3 DEF TypeOK, Rows
    <3>3. ASSUME Cancel, r = sweep.request PROVE FALSE
      BY <1>0, <2>3, <3>3 DEF RedactInv, Cancel, At
    <3> QED BY <3>1, <3>2, <3>3, CompletionStep
  <2> QED BY <2>1, <2>2, <2>3, ReplayStep
<1> QED BY <1>1, <1>2

-----------------------------------------------------------------------------
(* Full deletions *)

\* In its replay stage the job of a full deletion has no content left to come to.
LEMMA FullReplay ==
  ASSUME IInv, NEW j \in {Own, Whole}, Exists(j), erasure[j].stage = "REPLAY", NEW r \in Requests
  PROVE  content[r] = None
BY DEF IInv, FullInv, Reaches

\* Every step keeps what is said of full deletions.
LEMMA FullStep ==
  ASSUME IInv, [Next]_vars
  PROVE  FullInv'
<1> SUFFICES ASSUME NEW j \in {Own, Whole}, Exists(j)', NEW r \in Requests
             PROVE  /\ content'[r] # None => Reaches(j, content[r], r)'
                    /\ erasure'[j].stage = "REPLAY" /\ r <= erasure'[j].cursor => Clean(r)'
  BY DEF FullInv
<1>0. /\ TypeOK /\ JobsInv /\ FullInv /\ PageInv /\ Agrees(r)
      /\ j \in Erasures /\ Full(j)
  BY DEF IInv, RowInv, Erasures, Full
<1>1. CASE ~Exists(j)
  <2>1. Clear \/ DeleteHistory \/ StartDeletion
    <3>1. CASE UNCHANGED erasure
      BY <1>1, <3>1 DEF Exists
    <3>2. CASE EndHistoryPage \/ EndReplayPage \/ CompleteErasure
      BY <1>0, <1>1, <3>2, JobsMoved DEF Exists
    <3> QED BY <3>1, <3>2, JobWrites
  <2>2. PICK i \in Erasures :
           /\ erasure'[i] \in Jobs /\ erasure'[i].status = "PENDING" /\ erasure'[i].stage = "HISTORY" /\ erasure'[i].cursor = 0
           /\ erasure'[i].last = account.generation
           /\ \A k \in Erasures : k # i => erasure'[k] = erasure[k]
           /\ Clear => i = [reason |-> "CLEAR_HISTORY", of |-> account.generation]
           /\ DeleteHistory => i = Own /\ erasure'[i].generation = 0
           /\ StartDeletion => i = Whole /\ erasure'[i].generation = 0
    BY <2>1, JobsMade
  <2>3. j = i
    BY <1>0, <1>1, <2>2 DEF Exists
  <2>4. erasure'[j].generation = 0
    BY <1>0, <2>1, <2>2, <2>3 DEF Own, Whole
  <2>5. content'[r] = content[r]
    BY <2>1 DEF Clear, DeleteHistory, StartDeletion, requests
  <2>6. content[r] # None => content[r] \in 0 .. account.generation
    BY <1>0, GenerationGrows, HistoryAssumption DEF Agrees, TypeOK, Generations
  <2>7. 0 < r
    BY DEF Requests
  <2> QED BY <2>2, <2>3, <2>4, <2>5, <2>6, <2>7 DEF Reaches
<1>2. CASE Exists(j)
  <2>1. account.status # "ACTIVE"
    BY <1>0, <1>2 DEF JobsInv, Full
  <2>2. content'[r] # None => content'[r] = content[r]
    BY <2>1, ContentStep
  <2>3. content'[r] # None => Reaches(j, content[r], r)'
    BY <1>0, <1>2, <2>2, ReachesStays DEF FullInv
  <2>4. ASSUME Clean(r) PROVE Clean(r)'
    BY <2>1, <2>4, CleanStays
  <2>5. ASSUME erasure'[j].stage = "REPLAY", r <= erasure'[j].cursor PROVE Clean(r)
    <3>1. erasure[j].cursor \in Nat /\ r \in Nat /\ 0 < r
      BY <1>0, HistoryAssumption DEF TypeOK, Jobs, Requests
    <3>2. CASE erasure'[j] = erasure[j]
      BY <1>0, <1>2, <2>5, <3>2 DEF FullInv
    <3>3. CASE Clear \/ DeleteHistory \/ StartDeletion
      BY <1>0, <1>2, <3>2, <3>3, JobsMade
    <3>4. CASE j # sweep.job /\ (EndHistoryPage \/ EndReplayPage \/ CompleteErasure)
      BY <1>0, <3>2, <3>4, JobsMoved
    <3>5. CASE j = sweep.job /\ EndHistoryPage
      <4>1. erasure'[j] = Onward(erasure[j]) /\ erasure[j].stage = "HISTORY" /\ erasure[j] \in Jobs
        BY <3>5, JobsMoved
      <4>2. erasure'[j].cursor = 0
        BY <1>0, <2>5, <4>1, OnwardForm DEF TypeOK, Sweeps
      <4> QED BY <2>5, <3>1, <4>2
    <3>6. CASE j = sweep.job /\ EndReplayPage
      <4>1. /\ erasure[j].stage = "REPLAY"
            /\ erasure'[j].cursor = IF sweep.more THEN sweep.next ELSE erasure[j].cursor
        BY <3>6, JobsMoved
      <4>2. r <= erasure[j].cursor \/ (erasure[j].cursor < r /\ r <= sweep.next)
        BY <2>5, <3>1, <4>1
      <4>3. CASE r <= erasure[j].cursor
        BY <1>0, <1>2, <4>1, <4>3 DEF FullInv
      <4>4. CASE erasure[j].cursor < r /\ r <= sweep.next
        BY <1>0, <3>6, <4>4 DEF PageInv, EndReplayPage, At, Done
      <4> QED BY <4>2, <4>3, <4>4
    <3>7. CASE j = sweep.job /\ CompleteErasure
      <4>1. erasure[j].stage = "REPLAY" /\ erasure'[j].cursor = erasure[j].cursor
        BY <3>7, JobsMoved
      <4> QED BY <1>0, <1>2, <2>5, <4>1 DEF FullInv
    <3> QED BY <3>2, <3>3, <3>4, <3>5, <3>6, <3>7, JobWrites
  <2> QED BY <2>3, <2>4, <2>5
<1> QED BY <1>1, <1>2

\* Behind the last page of a full deletion nothing is left.
LEMMA AtEnd ==
  ASSUME IInv, sweep.step \in {"state", "receipt"}
  PROVE  AllGone /\ sweep.job \in {Own, Whole} /\ Exists(sweep.job)
<1>0. TypeOK /\ FullInv /\ PageInv
  BY DEF IInv
<1>1. PICK j \in {Own, Whole} : j = sweep.job
  BY <1>0 DEF PageInv, Full
<1>2. erasure[j].stage = "REPLAY" /\ Exists(j)
  BY <1>0, <1>1 DEF PageInv, Exists
<1>3. ASSUME NEW r \in Requests PROVE content[r] = None /\ Clean(r)
  <2>1. erasure[j].cursor \in Nat /\ r \in Nat
    BY <1>0, HistoryAssumption DEF TypeOK, Jobs, Requests, Erasures
  <2>2. CASE r <= erasure[j].cursor
    BY <1>0, <1>2, <2>2, FullReplay DEF FullInv
  <2>3. CASE erasure[j].cursor < r
    <3>1. Done(j, r)
      BY <1>0, <1>1, <2>3 DEF PageInv
    <3> QED BY <1>2, <3>1, FullReplay DEF Done, Full
  <2> QED BY <2>1, <2>2, <2>3
<1> QED BY <1>1, <1>2, <1>3 DEF AllGone

\* The rows that say that it is so are written behind it.
LEMMA ReceiptWrites ==
  ASSUME [Next]_vars
  PROVE  /\ UNCHANGED receipt \/ CompleteWithoutHistory \/ WriteReceipt
         /\ UNCHANGED mutation \/ DeleteHistory \/ WriteReceipt
         /\ UNCHANGED command \/ RequestDeletion \/ CompleteDeletion
<1>1. ASSUME NEW r \in Requests, Check(r) \/ Mutate(r) PROVE UNCHANGED <<receipt, mutation, command>>
  BY <1>1 DEF Check, Mutate, Lock, TakeOver, Reserve, Store, Release, Commit, Expire, Age, BeginDeleteOne, CommitDeleteOne,
              receipts
<1>2. ASSUME Bootstrap \/ Clear \/ StartDeletion \/ Crash \/ Calm \/ UNCHANGED vars
      PROVE  UNCHANGED <<receipt, mutation, command>>
  BY <1>2 DEF Bootstrap, Clear, StartDeletion, Crash, Calm, vars, receipts
<1>3. ASSUME RequestDeletion \/ CompleteDeletion \/ CompleteWithoutHistory \/ DeleteHistory
      PROVE  /\ UNCHANGED receipt \/ CompleteWithoutHistory
             /\ UNCHANGED mutation \/ DeleteHistory
             /\ UNCHANGED command \/ RequestDeletion \/ CompleteDeletion
  BY <1>3 DEF RequestDeletion, CompleteDeletion, CompleteWithoutHistory, DeleteHistory, receipts
<1>4. ASSUME Purge PROVE UNCHANGED <<receipt, mutation, command>>
  BY <1>4 DEF Purge, Observe, Retire, RedactStale, Cancel, RetireContent, RetireAnswer, RetireLocator, receipts
<1>5. ASSUME Erase PROVE UNCHANGED command /\ (UNCHANGED <<receipt, mutation>> \/ WriteReceipt)
  <2>1. CASE WriteReceipt
    BY <2>1 DEF WriteReceipt
  <2>2. CASE \/ \E j \in Erasures : BeginHistory(j) \/ BeginReplay(j)
             \/ EraseContent \/ MarkLocator \/ EndHistoryPage
             \/ EraseReplay \/ Refuse \/ EndReplayPage
             \/ FinalizeState \/ LeaveTerminal \/ CompleteErasure
    BY <2>2 DEF BeginHistory, BeginReplay, EraseContent, MarkLocator, EndHistoryPage, EraseReplay, Refuse,
                EndReplayPage, FinalizeState, LeaveTerminal, CompleteErasure, receipts
  <2> QED BY <1>5, <2>1, <2>2 DEF Erase
<1> QED BY <1>1, <1>2, <1>3, <1>4, <1>5 DEF Next

\* Every step keeps what the receipts say.
LEMMA GoneStep ==
  ASSUME IInv, [Next]_vars
  PROVE  GoneInv'
<1>0. TypeOK /\ JobsInv /\ GoneInv /\ Own \in Erasures
  BY DEF IInv, Erasures
<1>1. account'.status \in {"none", "HISTORY_DELETED", "DELETED"} => AllGone'
  <2>1. CASE account'.status = account.status
    BY <1>0, <2>1, AllGoneStays DEF GoneInv
  <2>2. CASE FinalizeState
    <3>1. AllGone
      BY <2>2, AtEnd DEF FinalizeState, At
    <3>2. UNCHANGED requests
      BY <2>2 DEF FinalizeState
    <3> QED BY <3>1, <3>2 DEF AllGone, Clean, requests
  <2> QED BY <2>1, <2>2, StatusSteps
<1>2. command # "none" => command' # "none"
  BY ReceiptWrites DEF RequestDeletion, CompleteDeletion
<1>3. receipt' => AllGone' /\ account'.status \in {"none", "DELETED"} /\ command' # "none"
  <2>1. CASE receipt
    <3>1. account'.status = account.status
      BY <1>0, <2>1, StatusSteps DEF GoneInv, Bootstrap, Allowed
    <3> QED BY <1>0, <1>2, <2>1, <3>1, AllGoneStays DEF GoneInv
  <2>2. CASE CompleteWithoutHistory
    BY <1>0, <1>1, <1>2, <2>2 DEF CompleteWithoutHistory, Nothing
  <2>3. CASE WriteReceipt /\ receipt' # receipt
    <3>1. command = "REQUESTED" /\ account.status = "DELETED" /\ UNCHANGED <<account, command>>
      BY <2>3 DEF WriteReceipt
    <3> QED BY <1>1, <3>1
  <2> QED BY <2>1, <2>2, <2>3, ReceiptWrites
<1>4. mutation' = "COMPLETE" => AllGone' /\ Exists(Own)'
  <2>1. CASE mutation = "COMPLETE"
    <3>1. account.status # "ACTIVE"
      BY <1>0, <2>1 DEF GoneInv, JobsInv
    <3> QED BY <1>0, <2>1, <3>1, AllGoneStays, ExistsStays DEF GoneInv
  <2>2. CASE WriteReceipt /\ mutation' # mutation
    <3>1. sweep.job = Own /\ sweep.step = "receipt"
      BY <2>2 DEF WriteReceipt, At
    <3>2. AllGone /\ Exists(Own)
      BY <3>1, AtEnd
    <3>3. account.status # "ACTIVE"
      BY <1>0, <3>2 DEF JobsInv
    <3> QED BY <1>0, <3>2, <3>3, AllGoneStays, ExistsStays
  <2>3. CASE DeleteHistory
    BY <2>3 DEF DeleteHistory
  <2> QED BY <2>1, <2>2, <2>3, ReceiptWrites
<1> QED BY <1>1, <1>3, <1>4 DEF GoneInv

-----------------------------------------------------------------------------
(* The sweep *)

\* All others leave the sweep alone.
LEMMA SweepMoves ==
  ASSUME [Next]_vars
  PROVE  UNCHANGED sweep \/ Erase \/ Purge \/ Crash
<1>1. ASSUME NEW r \in Requests, Check(r) \/ Mutate(r) PROVE UNCHANGED sweep
  BY <1>1 DEF Check, Mutate, Lock, TakeOver, Reserve, Store, Release, Commit, Expire, Age, BeginDeleteOne, CommitDeleteOne
<1>2. ASSUME \/ Bootstrap \/ RequestDeletion \/ CompleteDeletion \/ Clear \/ DeleteHistory
             \/ StartDeletion \/ CompleteWithoutHistory \/ Calm \/ UNCHANGED vars
      PROVE  UNCHANGED sweep
  BY <1>2 DEF Bootstrap, RequestDeletion, CompleteDeletion, Clear, DeleteHistory, StartDeletion, CompleteWithoutHistory,
              Calm, vars
<1> QED BY <1>1, <1>2 DEF Next

\* What a page of the sweep has shown stays so.
LEMMA PageStays ==
  ASSUME IInv, [Next]_vars, NEW j \in Erasures, Exists(j)
  PROVE  /\ \A r \in Requests : content'[r] = erasure[j].generation => content[r] = erasure[j].generation
         /\ \A r \in Requests : Done(j, r) => Done(j, r)'
<1>0. erasure[j].generation # None
  BY HistoryAssumption DEF IInv, TypeOK, Jobs
<1>1. ASSUME NEW r \in Requests, content'[r] = erasure[j].generation PROVE content[r] = erasure[j].generation
  BY <1>0, <1>1, OldContent
<1>2. ASSUME NEW r \in Requests, Done(j, r) PROVE Done(j, r)'
  BY <1>2, DoneStays
<1> QED BY <1>1, <1>2

\* In a page of an erasure job the job is pending, and no other step writes its row.
LEMMA PageElsewhere ==
  ASSUME IInv, [Next]_vars, UNCHANGED sweep
  PROVE  PageInv'
<1>0. TypeOK /\ PageInv /\ sweep.job \in Erasures
  BY DEF IInv, TypeOK, Sweeps
<1>1. PICK j \in Erasures : j = sweep.job
  BY <1>0
<1>2. CASE sweep.step \notin {"row", "locator", "replay", "state", "receipt", "complete"}
  BY <1>2 DEF PageInv
<1>3. CASE sweep.step \in {"row", "locator", "replay", "state", "receipt", "complete"}
  <2>1. Exists(j)
    BY <1>0, <1>1, <1>3 DEF PageInv, Exists
  <2>2. erasure'[j] = erasure[j]
    <3>1. CASE Clear \/ DeleteHistory \/ StartDeletion
      BY <2>1, <3>1, JobsMade
    <3>2. CASE EndHistoryPage \/ CompleteErasure
      BY <1>3, <3>2 DEF EndHistoryPage, CompleteErasure, Idle
    <3>3. CASE EndReplayPage
      <4>1. sweep' # sweep
        BY <1>0, <3>3 DEF EndReplayPage, At, Go, Idle, TypeOK, Sweeps
      <4> QED BY <4>1
    <3> QED BY <3>1, <3>2, <3>3, JobWrites
  <2>3. /\ \A r \in Requests : content'[r] = erasure[j].generation => content[r] = erasure[j].generation
        /\ \A r \in Requests : Done(j, r) => Done(j, r)'
    BY <2>1, PageStays
  <2>4. sweep'.job = j
    BY <1>1
  <2>5. ASSUME NEW r \in Requests, Done(j, r) PROVE Done(sweep.job, r)'
    BY <2>3, <2>4, <2>5 DEF Done
  <2>6. \A r \in Requests : Done(j, r) => Done(sweep.job, r)'
    BY <2>5
  <2> QED BY <1>0, <1>1, <2>2, <2>3, <2>6 DEF PageInv
<1> QED BY <1>2, <1>3

\* A page has all the rows that the job still has to come to up to the page's end.
LEMMA QueryShows ==
  ASSUME TypeOK, NEW j \in Erasures, NEW shown \in SUBSET Requests, NEW s, Query(j, shown, s)
  PROVE  /\ sweep'.step = s /\ sweep'.job = j
         /\ ~sweep'.more => sweep'.next = LastRequest
         /\ \A r \in shown : erasure[j].cursor < r /\ r <= sweep'.next => r \in sweep'.page
<1>1. PICK next \in erasure[j].cursor .. LastRequest, more \in BOOLEAN :
        /\ IF more THEN erasure[j].cursor < next ELSE next = LastRequest
        /\ sweep' = [Idle EXCEPT !.step = s, !.job = j,
                       !.page = {r \in shown : erasure[j].cursor < r /\ r <= next}, !.next = next, !.more = more]
  BY DEF Query
<1>2. /\ sweep'.step = s /\ sweep'.job = j /\ sweep'.next = next /\ sweep'.more = more
      /\ sweep'.page = {r \in shown : erasure[j].cursor < r /\ r <= next}
  BY <1>1 DEF Idle
<1> QED BY <1>1, <1>2

\* The steps of an erasure job keep its page.
LEMMA PageErase ==
  ASSUME IInv, [Next]_vars, Erase
  PROVE  PageInv'
<1>0. TypeOK /\ PageInv /\ JobsInv /\ sweep.job \in Erasures
  BY DEF IInv, TypeOK, Sweeps
<1>i. ASSUME sweep' = Idle PROVE PageInv'
  BY <1>i DEF PageInv, Idle
<1>1. ASSUME NEW j \in Erasures, BeginHistory(j) PROVE PageInv'
  <2>1. /\ Due(j, "HISTORY") /\ UNCHANGED <<erasure, content>>
        /\ Query(j, {r \in Requests : content[r] = erasure[j].generation}, "row")
    BY <1>1 DEF BeginHistory, requests
  <2>2. /\ sweep'.step = "row" /\ sweep'.job = j
        /\ ~sweep'.more => sweep'.next = LastRequest
        /\ \A r \in Requests : content[r] = erasure[j].generation /\ erasure[j].cursor < r /\ r <= sweep'.next => r \in sweep'.page
    BY <1>0, <2>1, QueryShows
  <2> QED BY <2>1, <2>2 DEF PageInv, Due
<1>2. ASSUME NEW j \in Erasures, BeginReplay(j) PROVE PageInv'
  <2>1. /\ Due(j, "REPLAY") /\ UNCHANGED <<erasure, replay, completion>>
        /\ Query(j, {r \in Requests : replay[r] # NoRow}, "replay")
    BY <1>2 DEF BeginReplay, requests
  <2>2. /\ sweep'.step = "replay" /\ sweep'.job = j
        /\ ~sweep'.more => sweep'.next = LastRequest
        /\ \A r \in Requests : replay[r] # NoRow /\ erasure[j].cursor < r /\ r <= sweep'.next => r \in sweep'.page
    BY <1>0, <2>1, QueryShows
  <2>3. \A r \in Requests : replay[r] = NoRow => Done(sweep.job, r)'
    BY <2>1 DEF Done, Clean, NoRow
  <2> QED BY <2>1, <2>2, <2>3 DEF PageInv, Due
<1>p. CASE EndHistoryPage \/ Refuse \/ LeaveTerminal \/ CompleteErasure
  BY <1>i, <1>p DEF EndHistoryPage, Refuse, LeaveTerminal, CompleteErasure
<1>3. CASE EraseContent
  <2>1. /\ sweep.step = "row" /\ UNCHANGED erasure
        /\ sweep' = [sweep EXCEPT !.step = "locator"]
        /\ content' = [content EXCEPT ![Min(sweep.page)] = IF @ = erasure[sweep.job].generation THEN None ELSE @]
    BY <1>3 DEF EraseContent, At, Go
  <2>2. /\ sweep'.step = "locator" /\ sweep'.job = sweep.job /\ sweep'.page = sweep.page
        /\ sweep'.next = sweep.next /\ sweep'.more = sweep.more
    BY <1>0, <2>1 DEF TypeOK, Sweeps
  <2>3. erasure[sweep.job].generation # None
    BY <1>0, HistoryAssumption DEF TypeOK, Jobs
  <2>4. /\ \A r \in Requests : content'[r] = erasure[sweep.job].generation => content[r] = erasure[sweep.job].generation
        /\ Min(sweep.page) \in Requests => content'[Min(sweep.page)] # erasure[sweep.job].generation
    BY <1>0, <2>1, <2>3 DEF TypeOK
  <2> QED BY <1>0, <2>1, <2>2, <2>4 DEF PageInv
<1>4. CASE MarkLocator
  <2>1. /\ sweep.step = "locator" /\ UNCHANGED <<erasure, content>>
        /\ sweep' = [sweep EXCEPT !.step = "row", !.page = @ \ {Min(sweep.page)}]
    BY <1>4 DEF MarkLocator, At
  <2>2. /\ sweep'.step = "row" /\ sweep'.job = sweep.job /\ sweep'.page = sweep.page \ {Min(sweep.page)}
        /\ sweep'.next = sweep.next /\ sweep'.more = sweep.more
    BY <1>0, <2>1 DEF TypeOK, Sweeps
  <2> QED BY <1>0, <2>1, <2>2 DEF PageInv
<1>5. CASE EraseReplay
  <2>0. PICK j \in Erasures : j = sweep.job
    BY <1>0
  <2>1. PICK q : j = sweep.job /\ q = Min(sweep.page)
    BY <2>0
  <2>2. /\ sweep.step = "replay" /\ UNCHANGED <<erasure, completion>>
        /\ sweep' = [sweep EXCEPT !.page = @ \ {q}]
        /\ replay' = [replay EXCEPT ![q] =
             IF Full(j) THEN Replaced
             ELSE IF IsOld(q, erasure[j].generation) THEN Redacted(replay[q])
             ELSE replay[q]]
    BY <1>5, <2>1 DEF EraseReplay, At
  <2>3. /\ sweep'.step = "replay" /\ sweep'.job = j /\ sweep'.page = sweep.page \ {q}
        /\ sweep'.next = sweep.next /\ sweep'.more = sweep.more
    BY <1>0, <2>1, <2>2 DEF TypeOK, Sweeps
  <2>4. Exists(j)
    BY <1>0, <2>1, <2>2 DEF PageInv, Exists
  <2>5. q \in Requests => Done(j, q)'
    <3> SUFFICES ASSUME q \in Requests PROVE Done(j, q)'
      OBVIOUS
    <3>1. replay[q] \in Rows
      BY <1>0 DEF TypeOK
    <3>2. CASE Full(j)
      BY <1>0, <2>2, <3>1, <3>2, RedactedForm DEF Done, Clean, TypeOK
    <3>3. CASE ~Full(j) /\ IsOld(q, erasure[j].generation)
      BY <1>0, <2>2, <3>1, <3>3, RedactedForm DEF Done, TypeOK
    <3>4. CASE ~Full(j) /\ ~IsOld(q, erasure[j].generation)
      <4>1. replay'[q] = replay[q] /\ erasure[j].generation = j.of
        BY <1>0, <2>2, <2>4, <3>4 DEF TypeOK, JobsInv
      <4> QED BY <3>4, <4>1 DEF Done, IsOld
    <3> QED BY <3>2, <3>3, <3>4
  <2>6. \A r \in Requests : Done(j, r) => Done(j, r)'
    BY <2>4, PageStays
  <2>7. \A r \in Requests : Done(j, r) \/ r = q => Done(sweep.job, r)'
    BY <2>3, <2>5, <2>6 DEF Done
  <2> QED BY <1>0, <2>1, <2>2, <2>3, <2>7 DEF PageInv
<1>6. CASE EndReplayPage
  <2>1. CASE sweep.more
    BY <1>6, <1>i, <2>1 DEF EndReplayPage
  <2>2. CASE ~sweep.more
    <3>1. PICK j \in Erasures : j = sweep.job
      BY <1>0
    <3>2. /\ sweep.step = "replay" /\ sweep.page = {} /\ UNCHANGED <<erasure, replay, completion>>
          /\ sweep' = [sweep EXCEPT !.step = IF Full(j) THEN "state" ELSE "complete"]
      BY <1>6, <2>2, <3>1 DEF EndReplayPage, At, Go, requests
    <3>3. sweep'.job = j /\ sweep'.step \in {"state", "complete"} /\ (sweep'.step = "state" => Full(j))
      BY <1>0, <3>1, <3>2 DEF TypeOK, Sweeps
    <3>4. \A r \in Requests : Done(j, r) => Done(sweep.job, r)'
      BY <3>2, <3>3 DEF Done, Clean
    <3>5. \A r \in Requests : r <= LastRequest
      BY HistoryAssumption DEF Requests
    <3>6. Full(j) => Full(sweep.job)'
      BY <3>3 DEF Full
    <3> QED BY <1>0, <2>2, <3>1, <3>2, <3>3, <3>4, <3>5, <3>6 DEF PageInv
  <2> QED BY <2>1, <2>2
<1>7. CASE FinalizeState \/ WriteReceipt
  <2>1. CASE sweep' = Idle
    BY <1>i, <2>1
  <2>2. CASE sweep' # Idle
    <3>1. PICK j \in Erasures : j = sweep.job
      BY <1>0
    <3>2. /\ sweep.step \in {"state", "receipt"} /\ UNCHANGED <<erasure, replay, completion>>
          /\ \/ sweep' = [sweep EXCEPT !.step = "receipt"]
             \/ sweep' = [sweep EXCEPT !.step = "complete"]
      BY <1>7, <2>2 DEF FinalizeState, WriteReceipt, At, Go, requests
    <3>3. sweep'.job = j /\ sweep'.step \in {"receipt", "complete"}
      BY <1>0, <3>1, <3>2 DEF TypeOK, Sweeps
    <3>4. \A r \in Requests : Done(j, r) => Done(sweep.job, r)'
      BY <3>2, <3>3 DEF Done, Clean
    <3>5. Full(j) => Full(sweep.job)'
      BY <3>3 DEF Full
    <3> QED BY <1>0, <3>1, <3>2, <3>3, <3>4, <3>5 DEF PageInv
  <2> QED BY <2>1, <2>2
<1> QED BY <1>1, <1>2, <1>p, <1>3, <1>4, <1>5, <1>6, <1>7 DEF Erase

\* What is purged is no erasure job's.
LEMMA PageStep ==
  ASSUME IInv, [Next]_vars
  PROVE  PageInv'
<1>0. TypeOK
  BY DEF IInv
<1>1. CASE Crash
  BY <1>1 DEF Crash, Idle, PageInv
<1>2. CASE Purge
  <2>1. sweep'.step \in {"redact", "cancel", "content", "answer", "expire", "idle"}
    <3>1. ASSUME NEW r \in Requests, Observe(r) \/ Retire(r)
          PROVE  sweep'.step \in {"redact", "content"}
      BY <3>1 DEF Observe, Retire, Idle
    <3>2. CASE RedactStale \/ RetireContent \/ RetireAnswer
      BY <1>0, <3>2 DEF RedactStale, RetireContent, RetireAnswer, Go, TypeOK, Sweeps
    <3>3. CASE Cancel \/ RetireLocator
      BY <3>3 DEF Cancel, RetireLocator, Idle
    <3> QED BY <1>2, <3>1, <3>2, <3>3 DEF Purge
  <2> QED BY <2>1 DEF PageInv
<1> QED BY <1>1, <1>2, SweepMoves, PageElsewhere, PageErase

\* A locator that is there stays, and one that ends was active: then its item was
\* deleted, or the sweep came to it.
LEMMA LocatorStep ==
  ASSUME IInv, [Next]_vars, NEW r \in Requests
  PROVE  \/ locator'[r] = locator[r]
         \/ locator[r] = NoEntry /\ locator'[r] # NoEntry
         \/ /\ locator[r].status = "ACTIVE" /\ locator'[r].status = "gone"
            /\ \/ ~replay'[r].response
               \/ MarkLocator /\ locator[r].of = erasure[sweep.job].generation
               \/ RetireLocator /\ r = sweep.request
<1>0. TypeOK /\ locator[r] \in Locators /\ replay[r] \in Rows
  BY DEF IInv, TypeOK
<1>1. ASSUME NEW q \in Requests, Lock(q) \/ TakeOver(q) \/ Reserve(q) \/ Store(q) \/ Release(q) \/ Expire(q) \/ Age(q)
      PROVE  locator'[r] = locator[r]
  BY <1>1 DEF Lock, TakeOver, Reserve, Store, Release, Expire, Age
<1>2. ASSUME NEW q \in Requests, Commit(q)
      PROVE  locator'[r] = locator[r] \/ (locator[r] = NoEntry /\ locator'[r] # NoEntry)
  BY <1>0, <1>2 DEF Commit, TypeOK, NoEntry
<1>3. ASSUME NEW q \in Requests, CommitDeleteOne(q)
      PROVE  \/ locator'[r] = locator[r]
             \/ locator[r].status = "ACTIVE" /\ locator'[r].status = "gone" /\ ~replay'[r].response
  <2>1. CASE UNCHANGED locator
    BY <2>1
  <2>2. CASE /\ locator[q].status = "ACTIVE"
             /\ locator' = [locator EXCEPT ![q].status = "gone"]
             /\ replay' = [replay EXCEPT ![q].status = "COMPLETED_ERASED", ![q].response = FALSE]
    BY <1>0, <2>2 DEF TypeOK, Locators, Rows
  <2> QED BY <1>3, <2>1, <2>2 DEF CommitDeleteOne
<1>4. ASSUME EraseContent \/ EraseReplay \/ RedactStale \/ Cancel \/ RetireContent \/ RetireAnswer
      PROVE  locator'[r] = locator[r]
  BY <1>4 DEF EraseContent, EraseReplay, RedactStale, Cancel, RetireContent, RetireAnswer
<1>5. ASSUME MarkLocator
      PROVE  \/ locator'[r] = locator[r]
             \/ /\ locator[r].status = "ACTIVE" /\ locator'[r].status = "gone"
                /\ locator[r].of = erasure[sweep.job].generation
  <2>1. CASE UNCHANGED locator
    BY <2>1
  <2>2. CASE locator' # locator
    <3>1. PICK q : q = Min(sweep.page)
      OBVIOUS
    <3>2. /\ locator[q] = [status |-> "ACTIVE", of |-> erasure[sweep.job].generation]
          /\ locator' = [locator EXCEPT ![q].status = "gone"]
      BY <1>5, <2>2, <3>1 DEF MarkLocator
    <3> QED BY <1>0, <3>2 DEF TypeOK, Locators
  <2> QED BY <2>1, <2>2
<1>6. ASSUME RetireLocator
      PROVE  \/ locator'[r] = locator[r]
             \/ locator[r].status = "ACTIVE" /\ locator'[r].status = "gone" /\ r = sweep.request
  <2>1. CASE UNCHANGED locator
    BY <2>1
  <2>2. CASE locator' # locator
    <3>1. PICK q : q = sweep.request
      OBVIOUS
    <3>2. locator[q].status = "ACTIVE" /\ locator' = [locator EXCEPT ![q].status = "gone"]
      BY <1>6, <2>2, <3>1 DEF RetireLocator
    <3> QED BY <1>0, <3>1, <3>2 DEF TypeOK, Locators
  <2> QED BY <2>1, <2>2
<1>7. ASSUME Elsewhere PROVE locator'[r] = locator[r]
  BY <1>7, ElsewhereKeeps DEF rows
<1> QED BY <1>1, <1>2, <1>3, <1>4, <1>5, <1>6, <1>7, StepKinds DEF Check, SweepWrites

\* What is being purged stays as the purge has left it.
LEMMA RedactStep ==
  ASSUME IInv, [Next]_vars
  PROVE  RedactInv'
<1>0. TypeOK /\ RedactInv /\ sweep.request \in Requests
  BY DEF IInv, TypeOK, Sweeps
<1>1. PICK r \in Requests : r = sweep.request
  BY <1>0
<1>2. Agrees(r) /\ replay[r] \in Rows /\ completion[r] \in Completions /\ locator[r] \in Locators
  BY <1>0 DEF IInv, RowInv, TypeOK
<1>3. completion[r].status # "none" => completion'[r].status # "none"
  BY CompletionStep
<1>4. locator[r] # NoEntry => locator'[r] # NoEntry
  BY LocatorStep DEF NoEntry
<1>5. locator[r] # NoEntry /\ content[r] = None => content'[r] = None
  BY ContentStep
<1>6. ~replay[r].response /\ ~Live(r) /\ completion[r].status # "none" => ~replay'[r].response /\ ~Live(r)'
  BY ReplayStep DEF Reserve, NoEntry
<1>7. locator[r] # NoEntry /\ ~replay[r].response => ~replay'[r].response
  <2>1. ASSUME Store(r) PROVE locator[r] = NoEntry
    BY <1>2, <2>1 DEF Agrees, Store, Stores, Processing
  <2> QED BY <2>1, ReplayStep
<1>8. CASE UNCHANGED sweep
  <2>1. sweep'.request = r /\ sweep'.step = sweep.step
    BY <1>1, <1>8
  <2>2. Live(r)' = Live(sweep.request)'
    BY <2>1 DEF Live
  <2> QED BY <1>0, <1>1, <1>3, <1>4, <1>5, <1>6, <1>7, <2>1, <2>2 DEF RedactInv
<1>9. CASE Crash
  BY <1>9 DEF Crash, Idle, RedactInv
<1>10. CASE Erase
  <2>1. sweep'.step \in {"row", "locator", "replay", "state", "receipt", "complete", "idle"}
    <3>1. ASSUME NEW j \in Erasures, BeginHistory(j) \/ BeginReplay(j)
          PROVE  sweep'.step \in {"row", "replay"}
      BY <1>0, <3>1, QueryShows DEF BeginHistory, BeginReplay
    <3>2. CASE EndHistoryPage \/ Refuse \/ LeaveTerminal \/ CompleteErasure
      BY <3>2 DEF EndHistoryPage, Refuse, LeaveTerminal, CompleteErasure, Idle
    <3>3. CASE EraseContent \/ MarkLocator \/ EraseReplay
      BY <1>0, <3>3 DEF EraseContent, MarkLocator, EraseReplay, At, Go, TypeOK, Sweeps
    <3>4. CASE EndReplayPage \/ FinalizeState \/ WriteReceipt
      BY <1>0, <3>4 DEF EndReplayPage, FinalizeState, WriteReceipt, Go, Idle, TypeOK, Sweeps
    <3> QED BY <1>10, <3>1, <3>2, <3>3, <3>4 DEF Erase
  <2> QED BY <2>1 DEF RedactInv
<1>11. CASE Purge
  <2>1. ASSUME NEW q \in Requests, Observe(q) PROVE RedactInv'
    BY <2>1 DEF Observe, RedactInv, Idle, requests
  <2>2. ASSUME NEW q \in Requests, Retire(q) PROVE RedactInv'
    <3>1. Agrees(q)
      BY DEF IInv, RowInv
    <3> QED BY <2>2, <3>1 DEF Retire, RedactInv, Idle, requests, Agrees
  <2>3. CASE RedactStale
    <3>1. sweep.step = "redact" /\ UNCHANGED completion /\ sweep'.step = "cancel" /\ sweep'.request = r
      BY <1>0, <1>1, <2>3 DEF RedactStale, At, Go, TypeOK, Sweeps
    <3>2. ~replay'[r].response /\ (replay'[r].auth = None \/ replay'[r].status \in {"none", "COMPLETED_ERASED"})
      <4>1. CASE replay[r] # NoRow /\ replay[r].auth = completion[r].of
        <5>1. replay' = [replay EXCEPT ![r] = Redacted(replay[r])]
          BY <1>1, <2>3, <4>1 DEF RedactStale
        <5> QED BY <1>0, <1>2, <5>1, RedactedForm DEF TypeOK
      <4>2. CASE ~(replay[r] # NoRow /\ replay[r].auth = completion[r].of)
        <5>1. UNCHANGED replay
          BY <1>1, <2>3, <4>2 DEF RedactStale
        <5>2. replay[r].auth = None /\ ~replay[r].response
          BY <1>2, <4>2 DEF Agrees, NoRow
        <5> QED BY <5>1, <5>2
      <4> QED BY <4>1, <4>2
    <3> QED BY <1>0, <1>1, <3>1, <3>2 DEF RedactInv, Live
  <2>4. CASE Cancel \/ RetireLocator
    BY <2>4 DEF Cancel, RetireLocator, Idle, RedactInv
  <2>5. CASE RetireContent
    <3>1. sweep.step = "content" /\ UNCHANGED locator /\ sweep'.step = "answer" /\ sweep'.request = r /\ content'[r] = None
      BY <1>0, <1>1, <2>5 DEF RetireContent, At, Go, TypeOK, Sweeps
    <3> QED BY <1>0, <1>1, <3>1 DEF RedactInv
  <2>6. CASE RetireAnswer
    <3>1. /\ sweep.step = "answer" /\ UNCHANGED <<locator, content>>
          /\ sweep'.step = "expire" /\ sweep'.request = r
      BY <1>0, <1>1, <2>6 DEF RetireAnswer, At, Go, TypeOK, Sweeps
    <3>2. ~replay'[r].response
      BY <1>0, <1>1, <1>2, <2>6, RedactedForm DEF RetireAnswer, TypeOK
    <3> QED BY <1>0, <1>1, <3>1, <3>2 DEF RedactInv
  <2> QED BY <1>11, <2>1, <2>2, <2>3, <2>4, <2>5, <2>6 DEF Purge
<1> QED BY <1>8, <1>9, <1>10, <1>11, SweepMoves

-----------------------------------------------------------------------------
(* Answers are accounted for *)

\* A job that will redact a row still does, or the row's check is still to be committed
\* or observed.
LEMMA WillRedactStays ==
  ASSUME IInv, [Next]_vars, NEW r \in Requests, NEW j \in Erasures, WillRedact(j, r),
         replay[r].response, replay'[r].response, replay'[r].auth = replay[r].auth
  PROVE  WillRedact(j, r)' \/ completion[r].status = "PENDING"
<1>0. TypeOK /\ PageInv /\ Agrees(r)
  BY DEF IInv, RowInv
<1>1. PICK e \in Jobs : e = erasure[j]
  BY <1>0 DEF TypeOK
<1>2. /\ e.status = "PENDING" /\ (e.stage = "REPLAY" => e.cursor < r)
      /\ Full(j) \/ replay[r].auth = j.of
      /\ e.cursor \in Nat /\ r \in Nat /\ 0 < r
  BY <1>1, HistoryAssumption DEF WillRedact, Jobs, Requests
<1>3. CASE erasure'[j] = erasure[j]
  BY <1>3 DEF WillRedact
<1>4. CASE Clear \/ DeleteHistory \/ StartDeletion
  <2>1. Exists(j)
    BY <1>1, <1>2 DEF Exists
  <2> QED BY <1>3, <1>4, <2>1, JobsMade
<1>5. CASE j # sweep.job /\ (EndHistoryPage \/ EndReplayPage \/ CompleteErasure)
  BY <1>3, <1>5, JobsMoved
<1>6. CASE j = sweep.job /\ EndHistoryPage
  <2>1. erasure'[j] = Onward(e) /\ e.stage = "HISTORY" /\ sweep.next \in 0 .. LastRequest
    BY <1>0, <1>1, <1>6, JobsMoved DEF TypeOK, Sweeps
  <2>2. erasure'[j].status = "PENDING" /\ (erasure'[j].stage = "REPLAY" => erasure'[j].cursor = 0)
    BY <1>2, <2>1, OnwardForm
  <2> QED BY <1>2, <2>2 DEF WillRedact
<1>7. ASSUME Done(j, r) PROVE completion[r].status = "PENDING"
  BY <1>0, <1>2, <1>7 DEF Done, Clean, Agrees
<1>8. CASE j = sweep.job /\ EndReplayPage
  <2>1. /\ e.stage = "REPLAY" /\ erasure'[j].status = "PENDING"
        /\ erasure'[j].cursor = IF sweep.more THEN sweep.next ELSE e.cursor
    BY <1>1, <1>8, JobsMoved
  <2>2. r <= sweep.next => Done(j, r)
    BY <1>0, <1>1, <1>2, <1>8, <2>1 DEF PageInv, EndReplayPage, At
  <2>3. sweep.next \in Nat
    BY <1>0, HistoryAssumption DEF TypeOK, Sweeps
  <2>4. Done(j, r) \/ erasure'[j].cursor < r
    BY <1>2, <2>1, <2>2, <2>3
  <2> QED BY <1>2, <1>7, <2>1, <2>4 DEF WillRedact
<1>9. CASE j = sweep.job /\ CompleteErasure
  <2>1. e.stage = "REPLAY"
    BY <1>1, <1>9, JobsMoved
  <2>2. Done(j, r)
    BY <1>0, <1>1, <1>2, <1>9, <2>1 DEF PageInv, CompleteErasure, At
  <2> QED BY <1>7, <2>2
<1> QED BY <1>3, <1>4, <1>5, <1>6, <1>8, <1>9, JobWrites

\* An answer is accounted for after every step.
LEMMA AnswersStep ==
  ASSUME IInv, [Next]_vars
  PROVE  AnswersAreAccountedFor'
<1> SUFFICES ASSUME NEW r \in Requests, replay'[r].response
             PROVE  \/ completion'[r].status = "PENDING"
                    \/ content'[r] # None
                    \/ locator'[r].status = "ACTIVE"
                    \/ \E j \in Erasures : WillRedact(j, r)'
  BY DEF AnswersAreAccountedFor
<1>0. TypeOK /\ JobsInv /\ PageInv /\ RedactInv /\ Agrees(r) /\ AnswersAreAccountedFor
  BY DEF IInv, RowInv
<1>1. CASE Reserve(r)
  BY <1>0, <1>1 DEF Reserve, TypeOK
<1>2. CASE Store(r) /\ Live(r)
  BY <1>0, <1>2 DEF Store, Agrees
<1>3. CASE replay[r].response /\ replay'[r].auth = replay[r].auth
  <2>1. CASE completion[r].status = "PENDING"
    <3>1. ASSUME Commit(r) PROVE content'[r] # None
      <4>1. CASE StillCurrent(r)
        BY <1>0, <3>1, <4>1, HistoryAssumption DEF Commit, StillCurrent, TypeOK
      <4>2. CASE ~StillCurrent(r)
        <5>1. replay' = [replay EXCEPT ![r].status = "COMPLETED", ![r].response = FALSE]
          BY <3>1, <4>2 DEF Commit
        <5> QED BY <1>0, <5>1 DEF TypeOK, Rows
      <4> QED BY <4>1, <4>2
    <3>2. ASSUME Cancel, r = sweep.request PROVE FALSE
      BY <1>0, <1>3, <3>2 DEF RedactInv, Cancel, At
    <3> QED BY <2>1, <3>1, <3>2, CompletionStep
  <2>2. CASE locator[r].status = "ACTIVE"
    <3>1. ASSUME RetireLocator, r = sweep.request PROVE FALSE
      BY <1>0, <1>3, <3>1 DEF RedactInv, RetireLocator, At
    <3>2. ASSUME MarkLocator, locator[r].of = erasure[sweep.job].generation
          PROVE  \E j \in Erasures : WillRedact(j, r)'
      <4>1. PICK j \in Erasures : j = sweep.job
        BY <1>0 DEF TypeOK, Sweeps
      <4>2. sweep.step = "locator" /\ UNCHANGED erasure
        BY <3>2 DEF MarkLocator, At
      <4>3. erasure[j].status = "PENDING" /\ erasure[j].stage = "HISTORY"
        BY <1>0, <4>1, <4>2 DEF PageInv
      <4>4. replay[r].auth = locator[r].of
        BY <1>0, <1>3, <2>2 DEF Agrees, NoEntry
      <4>5. Full(j) \/ erasure[j].generation = j.of
        BY <1>0, <4>3 DEF JobsInv, Exists
      <4> QED BY <1>3, <3>2, <4>1, <4>2, <4>3, <4>4, <4>5 DEF WillRedact
    <3> QED BY <2>2, <3>1, <3>2, LocatorStep DEF NoEntry
  <2>3. ASSUME NEW j \in Erasures, WillRedact(j, r), completion[r].status # "PENDING"
        PROVE  WillRedact(j, r)'
    BY <1>3, <2>3, WillRedactStays
  <2>4. content[r] # None => locator[r].status = "ACTIVE"
    BY <1>0 DEF Agrees
  <2> QED BY <1>0, <1>3, <2>1, <2>2, <2>3, <2>4 DEF AnswersAreAccountedFor
<1> QED BY <1>1, <1>2, <1>3, ReplayStep

-----------------------------------------------------------------------------
(* The theorems *)

\* The invariant holds after every step.
LEMMA NextIInv == IInv /\ [Next]_vars => IInv'
<1> SUFFICES ASSUME IInv, [Next]_vars PROVE IInv'
  OBVIOUS
<1>1. TypeOK'
  BY TypeStep DEF IInv
<1> QED BY <1>1, RowStep, JobsStep, FullStep, PageStep, RedactStep, GoneStep, LeftStep, AnswersStep DEF IInv

\* So it always holds.
LEMMA Invariance == Spec => []IInv
BY InitIInv, NextIInv, PTL DEF Spec

\* Every row holds values that the code writes, for any number of requests,
\* generations and rows of a page (history_lifecycle/service.py and its callers).
THEOREM TypeCorrect == Spec => []TypeOK
<1>1. IInv => TypeOK
  BY DEF IInv
<1> QED BY <1>1, Invariance, PTL

\* The lifecycle sweep never steps over content that its account no longer shows:
\* some job has it ahead, whatever pages, crashes, clears and deletions came between
\* (_process_history_erasure_stage).
THEOREM Reached == Spec => []ErasureReaches
<1>1. IInv => ErasureReaches
  BY DEF IInv, ErasureReaches
<1> QED BY <1>1, Invariance, PTL

\* An answer in a replay row is always led to: by a check that is still to be committed
\* or observed, by content or a locator, or by a job that will come to the row
\* (_process_replay_erasure_stage, _observe_completion, _expire_locator_and_replay).
THEOREM Accounted == Spec => []AnswersAreAccountedFor
<1>1. IInv => AnswersAreAccountedFor
  BY DEF IInv
<1> QED BY <1>1, Invariance, PTL

\* Where a receipt says that the account's History, or the account, is deleted, neither
\* content nor answers are left, and none comes back (_write_account_deletion_receipt,
\* _complete_pending_mutation, _complete_without_history).
THEOREM Receipts == Spec => []ReceiptMeansErased
<1>1. IInv => ReceiptMeansErased
  BY DEF IInv, GoneInv, AllGone, Clean, ReceiptMeansErased
<1> QED BY <1>1, Invariance, PTL

-----------------------------------------------------------------------------
(***************************************************************************)
(* HistorySweep, beside it: for any records, settings and runs.            *)
(*                                                                         *)
(* What a run deletes has expired and goes in one order, whoever else is   *)
(* at it.  The checkpoint of the backlog only leaves hours that are over:  *)
(* what the index shows of one from now on, it shows late.                 *)
(***************************************************************************)

CONSTANTS Records, ExpiresAt, ShardOf, Workers, Hour, Shards, Window, LaneItems, LaneQueries, MaxTime

VARIABLES clock, bodies, expiring, locators, replays, backlog, lap, runs, late

Sweep == INSTANCE HistorySweep WITH
  now <- clock, content <- bodies, index <- expiring, locator <- locators, replay <- replays, job <- runs

\* The module's counts are those of finite sets.
LEMMA SweepCount ==
  \A S : Sweep!Cardinality(S) = Cardinality(S) /\ (Sweep!IsFiniteSet(S) <=> IsFiniteSet(S))
BY DEF Sweep!Cardinality, Sweep!IsFiniteSet, Cardinality, IsFiniteSet

\* The settings.
LEMMA SweepSettings ==
  ASSUME Sweep!SweepAssumption
  PROVE  /\ IsFiniteSet(Records) /\ ExpiresAt \in [Records -> Nat] /\ ShardOf \in [Records -> 0..Shards - 1]
         /\ Hour \in Nat \ {0} /\ Shards \in Nat \ {0} /\ LaneItems \in Nat \ {0}
         /\ Window \in Nat /\ LaneQueries \in Nat /\ MaxTime \in Nat
<1>1. {Hour, Shards, LaneItems} \subseteq Nat \ {0} /\ {Window, LaneQueries, MaxTime} \subseteq Nat
  BY DEF Sweep!SweepAssumption
<1> QED BY <1>1, SweepCount DEF Sweep!SweepAssumption

\* Division, as the hours and shards use it.
LEMMA Divided ==
  ASSUME NEW d \in Nat \ {0}, NEW x \in Nat
  PROVE  x \div d \in Nat /\ d * (x \div d) <= x /\ x < d * (x \div d) + d
OBVIOUS

\* It is monotonic.
LEMMA DividedInOrder ==
  ASSUME NEW d \in Nat \ {0}, NEW x \in Nat, NEW y \in Nat, x <= y
  PROVE  x \div d <= y \div d
<1> DEFINE p == x \div d
           q == y \div d
<1>1. p \in Nat /\ q \in Nat /\ d * p <= x /\ y < d * q + d
  BY Divided
<1> HIDE DEF p, q
<1>2. ASSUME q < p PROVE FALSE
  <2>1. q + 1 <= p
    BY <1>1, <1>2
  <2>2. d * (q + 1) <= d * p
    BY <1>1, <2>1
  <2>3. d * (q + 1) = d * q + d
    BY <1>1
  <2> QED BY <1>1, <2>2, <2>3
<1>3. p <= q
  BY <1>1, <1>2
<1> QED BY <1>3 DEF p, q

\* Hours do not go back.
LEMMA HoursPass ==
  ASSUME Sweep!SweepAssumption, NEW t \in Nat, NEW u \in Nat, t <= u
  PROVE  Sweep!HourOf(t) \in Nat /\ Sweep!HourOf(u) \in Nat /\ Sweep!HourOf(t) <= Sweep!HourOf(u)
BY SweepSettings, Divided, DividedInOrder DEF Sweep!HourOf

\* A bucket is one of its record's hour.
LEMMA BucketOfHour ==
  ASSUME Sweep!SweepAssumption, NEW r \in Records
  PROVE  Sweep!Bucket(r) \in Nat /\ Sweep!Bucket(r) \div Shards = Sweep!HourOf(ExpiresAt[r])
<1> DEFINE h == Sweep!HourOf(ExpiresAt[r])
           s == ShardOf[r]
           q == (h * Shards + s) \div Shards
<1>1. ExpiresAt[r] \in Nat /\ s \in 0 .. Shards - 1 /\ Shards \in Nat \ {0}
  BY SweepSettings
<1>2. h \in Nat
  BY <1>1, HoursPass
<1>3. Sweep!Bucket(r) = h * Shards + s
  BY DEF Sweep!Bucket
<1> HIDE DEF h, s
<1>4. h * Shards + s \in Nat
  BY <1>1, <1>2
<1>5. q \in Nat /\ Shards * q <= h * Shards + s /\ h * Shards + s < Shards * q + Shards
  BY <1>1, <1>4, Divided
<1> HIDE DEF q
<1>6. ASSUME q < h PROVE FALSE
  <2>1. q + 1 <= h
    BY <1>2, <1>5, <1>6
  <2>2. Shards * (q + 1) <= Shards * h /\ Shards * (q + 1) = Shards * q + Shards /\ Shards * h = h * Shards
    BY <1>1, <1>2, <1>5, <2>1
  <2> QED BY <1>1, <1>2, <1>5, <2>2
<1>7. ASSUME h < q PROVE FALSE
  <2>1. h + 1 <= q
    BY <1>2, <1>5, <1>7
  <2>2. Shards * (h + 1) <= Shards * q /\ Shards * (h + 1) = Shards * h + Shards /\ Shards * h = h * Shards
    BY <1>1, <1>2, <1>5, <2>1
  <2> QED BY <1>1, <1>2, <1>5, <2>2
<1>8. q = h
  BY <1>2, <1>5, <1>6, <1>7
<1> QED BY <1>3, <1>4, <1>8 DEF q, h, s

\* The buckets of an hour and those before end where the next hour's begin, up to the
\* last hour there is.
LEMMA BucketsOfHour ==
  ASSUME Sweep!SweepAssumption, NEW b \in Nat, NEW t \in Nat, t <= MaxTime, b \div Shards <= Sweep!HourOf(t)
  PROVE  b + 1 <= Sweep!Last
<1> DEFINE q == b \div Shards
           h == Sweep!HourOf(MaxTime)
<1>1. Shards \in Nat \ {0} /\ MaxTime \in Nat
  BY SweepSettings
<1>2. h \in Nat /\ Sweep!HourOf(t) \in Nat /\ Sweep!HourOf(t) <= h
  BY <1>1, HoursPass
<1>3. q \in Nat /\ b < Shards * q + Shards
  BY <1>1, Divided
<1>4. q <= h
  BY <1>2, <1>3
<1>5. Sweep!Last = (h + 1) * Shards
  BY DEF Sweep!Last
<1> HIDE DEF q, h
<1>6. Shards * (q + 1) = Shards * q + Shards /\ (q + 1) * Shards <= (h + 1) * Shards
      /\ (q + 1) * Shards = Shards * (q + 1)
  BY <1>1, <1>2, <1>3, <1>4
<1> QED BY <1>1, <1>2, <1>3, <1>5, <1>6

\* The first buckets of an hour.
LEMMA HourBegins ==
  ASSUME Sweep!SweepAssumption, NEW h \in Nat, NEW t \in Nat, t <= MaxTime, h <= Sweep!HourOf(t)
  PROVE  h * Shards \in 0 .. Sweep!Last
<1> DEFINE m == Sweep!HourOf(MaxTime)
<1>1. Shards \in Nat \ {0} /\ MaxTime \in Nat
  BY SweepSettings
<1>2. m \in Nat /\ Sweep!HourOf(t) \in Nat /\ Sweep!HourOf(t) <= m
  BY <1>1, HoursPass
<1>3. h <= m + 1
  BY <1>2
<1>4. Sweep!Last = (m + 1) * Shards
  BY DEF Sweep!Last
<1> HIDE DEF m
<1>5. h * Shards <= (m + 1) * Shards /\ h * Shards \in Nat /\ (m + 1) * Shards \in Nat
  BY <1>1, <1>2, <1>3
<1> QED BY <1>4, <1>5

\* What there is beside the runs.
SweepRows ==
  /\ clock \in 0..MaxTime /\ bodies \subseteq Records /\ expiring \subseteq Records /\ late \subseteq Records
  /\ replays \subseteq Records /\ locators \in [Records -> {"ACTIVE", "EXPIRED", "DELETED"}]
  /\ backlog \in 0..Sweep!Last /\ lap \in 0..Sweep!Last
  /\ Sweep!LocatorLast /\ Sweep!NothingPassed /\ Sweep!NothingEarly
  /\ \A r \in Records : Sweep!Bucket(r) < backlog => Sweep!HourOf(ExpiresAt[r]) < Sweep!HourOf(clock)

\* The invariant is about the rows and each run.
LEMMA SweepParts ==
  ASSUME Sweep!SweepAssumption
  PROVE  Sweep!IInv <=> SweepRows /\ DOMAIN runs = Workers /\ \A w \in Workers : Sweep!JobInv(runs[w])
<1>1. 0 \in 0 .. Sweep!Last
  <2>1. MaxTime \in Nat
    BY SweepSettings
  <2>2. 0 * Shards \in 0 .. Sweep!Last
    BY <2>1, HoursPass, HourBegins
  <2>3. 0 * Shards = 0
    BY SweepSettings
  <2> QED BY <2>2, <2>3
<1>2. ASSUME NEW w \in Workers, Sweep!JobInv(runs[w]) PROVE runs[w].bucket \in 0 .. Sweep!Last
  BY <1>1, <1>2 DEF Sweep!JobInv, Sweep!Jobs, Sweep!Idle
<1> QED BY <1>2 DEF Sweep!IInv, Sweep!TypeOK, SweepRows, Sweep!Last

\* What any step does to what a run knows: nothing comes back, and the index shows what it
\* shows of an hour that is over late.
Later ==
  /\ clock \in Nat /\ clock' \in Nat /\ clock <= clock'
  /\ bodies' \subseteq bodies /\ replays' \subseteq replays /\ late \subseteq late'
  /\ bodies \subseteq Records
  /\ \A r \in bodies' \cap expiring' :
       r \in expiring \cup late' \/ ~(Sweep!HourOf(ExpiresAt[r]) < Sweep!HourOf(clock))

\* A run that does not move still knows what it knew, unless the backlog's checkpoint moved.
LEMMA SweepOthers ==
  ASSUME Sweep!SweepAssumption, NEW w \in Workers, Sweep!JobInv(runs[w]), Later,
         \/ runs'[w] = runs[w]
         \/ runs[w] # Sweep!Idle /\ runs'[w] = [runs[w] EXCEPT !.fresh = FALSE],
         runs'[w].lane = "backlog" /\ runs'[w].fresh => backlog' = backlog
  PROVE  Sweep!JobInv(runs[w])'
<1>1. CASE runs[w] = Sweep!Idle
  BY <1>1 DEF Sweep!JobInv, Sweep!Idle
<1>2. CASE runs[w] # Sweep!Idle
  <2> DEFINE i == runs[w]
             j == runs'[w]
  <2>1. i \in Sweep!Jobs /\ Sweep!ItemInv(i) /\ Sweep!BucketInv(i)
    BY <1>2 DEF Sweep!JobInv
  <2>2. j.lane = i.lane /\ j.phase = i.phase /\ j.at = i.at /\ j.bucket = i.bucket /\ j.page = i.page
        /\ j.item = i.item /\ j.more = i.more /\ (j.fresh => i.fresh)
    BY <2>1 DEF Sweep!Jobs
  <2>3. j \in [lane : {"current", "backlog", "reconcile", "pending"}, phase : {"query", "page", "redact", "locate"},
               at : 0..clock', bucket : 0..Sweep!Last, page : SUBSET Records, item : Records \cup {None}, more : BOOLEAN,
               deleted : Nat, queries : Nat, fresh : BOOLEAN]
    <3>1. 0 .. clock \subseteq 0 .. clock'
      BY DEF Later
    <3> QED BY <2>1, <3>1 DEF Sweep!Jobs
  <2>4. Sweep!ItemInv(i)'
    BY <2>1, <2>2 DEF Sweep!ItemInv, Later
  <2>5. ASSUME j.lane = "backlog", j.phase # "query", ~j.more,
               NEW r \in bodies' \cap expiring', Sweep!Bucket(r) = j.bucket
        PROVE  r \in late' \cup j.page
    <3>1. r \in bodies /\ r \in Records
      BY DEF Later
    <3>2. Sweep!Closed(i, i.bucket) /\ (r \in expiring => r \in late \cup i.page)
      BY <2>1, <2>2, <2>5, <3>1 DEF Sweep!BucketInv
    <3>3. Sweep!HourOf(ExpiresAt[r]) < Sweep!HourOf(clock)
      <4>1. i.at \in Nat /\ i.at <= clock
        BY <2>1 DEF Sweep!Jobs, Later
      <4>2. Sweep!HourOf(i.at) \in Nat /\ Sweep!HourOf(clock) \in Nat /\ Sweep!HourOf(i.at) <= Sweep!HourOf(clock)
        BY <4>1, HoursPass DEF Later
      <4>3. Sweep!HourOf(ExpiresAt[r]) <= Sweep!HourOf(i.at) - 1
        BY <2>2, <2>5, <3>1, <3>2, BucketOfHour DEF Sweep!Closed, Sweep!ClosedHour
      <4>4. Sweep!HourOf(ExpiresAt[r]) \in Nat
        BY <3>1, SweepSettings, HoursPass
      <4> QED BY <4>2, <4>3, <4>4
    <3> QED BY <2>2, <3>2, <3>3 DEF Later
  <2>6. Sweep!BucketInv(i)'
    BY <2>1, <2>2, <2>5 DEF Sweep!BucketInv, Sweep!Closed, Sweep!ClosedHour, Sweep!HourOf
  <2> QED BY <2>3, <2>4, <2>6 DEF Sweep!JobInv, Sweep!Jobs
<1> QED BY <1>1, <1>2

\* The same of the next state.
LEMMA SweepPartsNext ==
  ASSUME Sweep!SweepAssumption, SweepRows', DOMAIN runs' = Workers, \A w \in Workers : Sweep!JobInv(runs[w])'
  PROVE  Sweep!IInv'
<1>1. 0 \in 0 .. Sweep!Last
  <2>1. MaxTime \in Nat
    BY SweepSettings
  <2>2. 0 * Shards \in 0 .. Sweep!Last
    BY <2>1, HoursPass, HourBegins
  <2>3. 0 * Shards = 0
    BY SweepSettings
  <2> QED BY <2>2, <2>3
<1>2. ASSUME NEW w \in Workers PROVE runs'[w].bucket \in 0 .. Sweep!Last
  BY <1>1, <1>2 DEF Sweep!JobInv, Sweep!Jobs, Sweep!Idle
<1> QED BY <1>2 DEF Sweep!IInv, Sweep!TypeOK, SweepRows, Sweep!Last, Sweep!HourOf, Sweep!Bucket

\* An action of run w: the rows keep what they promise, and it knows what it should; the
\* others are as they were, or one checkpoint older.
SweepStep(w) ==
  /\ DOMAIN runs' = Workers /\ SweepRows' /\ Later
  /\ Sweep!JobInv(runs[w])'
  /\ \A v \in Workers \ {w} :
       /\ \/ runs'[v] = runs[v]
          \/ runs[v] # Sweep!Idle /\ runs'[v] = [runs[v] EXCEPT !.fresh = FALSE]
       /\ runs'[v].lane = "backlog" /\ runs'[v].fresh => backlog' = backlog

\* Then all is as it should be.
LEMMA SweepStepKeeps ==
  ASSUME Sweep!SweepAssumption, Sweep!IInv, NEW w \in Workers, SweepStep(w)
  PROVE  Sweep!IInv'
<1>1. \A v \in Workers : Sweep!JobInv(runs[v])
  BY SweepParts
<1>2. ASSUME NEW v \in Workers \ {w} PROVE Sweep!JobInv(runs[v])'
  BY <1>1, <1>2, SweepOthers DEF SweepStep
<1> QED BY <1>2, SweepPartsNext DEF SweepStep

\* The records and the clock stay.
Unmoved == /\ clock' = clock /\ bodies' = bodies /\ expiring' = expiring /\ locators' = locators
           /\ replays' = replays /\ late' = late

\* So do their promises.
LEMMA SweepStays ==
  ASSUME Sweep!SweepAssumption, SweepRows, Unmoved, backlog' = backlog, lap' \in 0 .. Sweep!Last
  PROVE  SweepRows' /\ Later
<1>1. MaxTime \in Nat
  BY SweepSettings
<1> QED BY <1>1 DEF SweepRows, Unmoved, Later, Sweep!LocatorLast, Sweep!NothingPassed, Sweep!NothingEarly, Sweep!Last,
       Sweep!Bucket, Sweep!HourOf

\* A run that alone moves.
LEMMA SweepAlone ==
  ASSUME Sweep!SweepAssumption, Sweep!IInv, NEW w \in Workers, NEW next, Sweep!Step(w, next),
         SweepRows' /\ Later, backlog' = backlog, Sweep!JobInv(runs[w])'
  PROVE  SweepStep(w)
BY SweepParts DEF SweepStep, Sweep!Step

\* What a run that is at work may be.
LEMMA SweepAtWork ==
  ASSUME Sweep!SweepAssumption, Sweep!IInv, NEW w \in Workers, runs[w].phase # "idle"
  PROVE  /\ runs[w] # Sweep!Idle
         /\ runs[w] \in Sweep!Jobs /\ Sweep!ItemInv(runs[w]) /\ Sweep!BucketInv(runs[w])
         /\ clock \in Nat /\ clock <= MaxTime /\ runs[w].at \in Nat /\ runs[w].at <= clock
         /\ runs[w].bucket \in Nat
<1>1. runs[w] \in Sweep!Jobs /\ Sweep!ItemInv(runs[w]) /\ Sweep!BucketInv(runs[w]) /\ SweepRows
  BY SweepParts DEF Sweep!JobInv, Sweep!Idle
<1>2. MaxTime \in Nat
  BY SweepSettings
<1> QED BY <1>1, <1>2 DEF Sweep!Jobs, SweepRows, Sweep!Idle

\* The first lane, from the first bucket of the hour that runs.
LEMMA SweepBegins ==
  ASSUME Sweep!SweepAssumption, Sweep!IInv, NEW w \in Workers, Sweep!Start(w)
  PROVE  SweepStep(w)
<1>1. SweepRows /\ Unmoved /\ backlog' = backlog /\ lap' = lap /\ DOMAIN runs = Workers
  BY SweepParts DEF Unmoved, Sweep!Start
<1>2. SweepRows' /\ Later
  BY <1>1, SweepStays DEF SweepRows
<1>3. /\ clock' = clock /\ clock \in Nat /\ clock <= MaxTime /\ MaxTime \in Nat
      /\ Sweep!HourOf(clock) * Shards \in 0 .. Sweep!Last
  BY <1>1, SweepSettings, HoursPass, HourBegins DEF SweepRows, Unmoved
<1>4. runs'[w] = [lane |-> "current", phase |-> "query", at |-> clock, bucket |-> Sweep!HourOf(clock) * Shards, page |-> {},
                  item |-> None, more |-> FALSE, deleted |-> 0, queries |-> 0, fresh |-> FALSE]
  BY <1>1 DEF Sweep!Start, Sweep!Step, Sweep!Idle
<1>5. Sweep!JobInv(runs[w])'
  BY <1>3, <1>4 DEF Sweep!JobInv, Sweep!Jobs, Sweep!ItemInv, Sweep!BucketInv, Sweep!Last
<1> QED BY <1>1, <1>2, <1>5, SweepAlone DEF Sweep!Start

\* What the index shows of a bucket.
LEMMA SweepQueries ==
  ASSUME Sweep!SweepAssumption, Sweep!IInv, NEW w \in Workers, Sweep!Query(w)
  PROVE  SweepStep(w)
<1> DEFINE j == runs[w]
           shown == {r \in expiring : Sweep!Bucket(r) = j.bucket /\ ExpiresAt[r] <= j.at}
           limit == LaneItems - j.deleted
<1>1. SweepRows /\ Unmoved /\ backlog' = backlog /\ lap' = lap /\ DOMAIN runs = Workers
  BY SweepParts DEF Unmoved, Sweep!Query
<1>2. SweepRows' /\ Later
  BY <1>1, SweepStays DEF SweepRows
<1>3. /\ j \in Sweep!Jobs /\ Sweep!ItemInv(j) /\ Sweep!BucketInv(j) /\ clock \in Nat /\ j.at \in Nat /\ j.at <= clock
      /\ j.bucket \in Nat /\ Sweep!Going(j) /\ j.phase = "query"
  BY SweepAtWork DEF Sweep!Query
<1>4. PICK page \in SUBSET shown :
        /\ Sweep!Cardinality(page) = Sweep!Min({limit, Sweep!Cardinality(shown)})
        /\ Sweep!Step(w, [j EXCEPT !.phase = "page", !.page = page, !.more = Sweep!Cardinality(page) = limit,
                                   !.queries = @ + 1])
  BY DEF Sweep!Query
<1>5. IsFiniteSet(shown) /\ Cardinality(shown) \in Nat /\ shown \subseteq Records
  <2>1. shown \subseteq Records
    BY <1>1 DEF SweepRows
  <2> QED BY <2>1, SweepSettings, FS_Subset, FS_CardinalityType
<1>6. limit \in Nat \ {0}
  BY <1>3, SweepSettings DEF Sweep!Going, Sweep!Jobs
<1>7. Cardinality(page) = limit \/ page = shown
  <2>1. Sweep!Min({limit, Cardinality(shown)}) \in {limit, Cardinality(shown)}
    <3>1. \E x \in {limit, Cardinality(shown)} : \A y \in {limit, Cardinality(shown)} : x <= y
      BY <1>5, <1>6
    <3> QED BY <3>1 DEF Sweep!Min
  <2>2. Cardinality(page) = limit \/ Cardinality(page) = Cardinality(shown)
    BY <1>4, <2>1, SweepCount
  <2>3. Cardinality(page) = Cardinality(shown) => page = shown
    BY <1>5, FS_Subset
  <2> QED BY <2>2, <2>3
<1>8. /\ runs'[w].lane = j.lane /\ runs'[w].phase = "page" /\ runs'[w].at = j.at /\ runs'[w].bucket = j.bucket
      /\ runs'[w].page = page /\ runs'[w].item = j.item /\ runs'[w].fresh = j.fresh
      /\ ~runs'[w].more => page = shown
      /\ runs'[w] \in Sweep!Jobs
  <2> DEFINE m == Sweep!Cardinality(page) = limit
  <2>1. runs'[w] = [j EXCEPT !.phase = "page", !.page = page, !.more = m, !.queries = @ + 1]
    BY <1>1, <1>4 DEF Sweep!Step
  <2>2. page \in SUBSET Records
    BY <1>5
  <2>3. m \in BOOLEAN /\ (~m => page = shown)
    BY <1>7, SweepCount
  <2> HIDE DEF shown, limit, m
  <2>4. runs'[w].more = m
    BY <1>3, <2>1 DEF Sweep!Jobs
  <2>5. ~runs'[w].more => page = shown
    BY <2>3, <2>4
  <2>8. m \in BOOLEAN
    BY <2>3
  <2>9. j.queries + 1 \in Nat
    BY <1>3 DEF Sweep!Jobs
  <2>6. runs'[w] \in Sweep!Jobs
    BY <1>3, <2>1, <2>2, <2>8, <2>9 DEF Sweep!Jobs
  <2>7. /\ runs'[w].lane = j.lane /\ runs'[w].phase = "page" /\ runs'[w].at = j.at /\ runs'[w].bucket = j.bucket
        /\ runs'[w].page = page /\ runs'[w].item = j.item /\ runs'[w].fresh = j.fresh
    BY <1>3, <2>1 DEF Sweep!Jobs
  <2> QED BY <2>5, <2>6, <2>7
<1>9. Sweep!ItemInv(runs[w])'
  BY <1>8 DEF Sweep!ItemInv
<1>10. Sweep!BucketInv(runs[w])'
  <2>1. j.lane = "current" => j.bucket \div Shards = Sweep!HourOf(j.at)
    BY <1>3 DEF Sweep!Going
  <2>2. j.lane = "backlog" => Sweep!Closed(j, j.bucket)
    BY <1>3 DEF Sweep!Going
  <2>3. ASSUME j.lane = "backlog", NEW r \in bodies \cap expiring, Sweep!Bucket(r) = j.bucket PROVE r \in shown
    <3>1. r \in Records /\ ExpiresAt[r] \in Nat
      BY <1>1, SweepSettings DEF SweepRows
    <3>2. Sweep!HourOf(ExpiresAt[r]) <= Sweep!HourOf(j.at) - 1
      BY <2>2, <2>3, <3>1, BucketOfHour DEF Sweep!Closed, Sweep!ClosedHour
    <3>3. ~(j.at <= ExpiresAt[r])
      BY <1>3, <3>1, <3>2, HoursPass
    <3> QED BY <1>3, <2>3, <3>1, <3>3
  <2>4. \A r \in bodies' \cap expiring' : runs'[w].lane = "backlog" /\ ~runs'[w].more /\ Sweep!Bucket(r) = runs'[w].bucket
          => r \in runs'[w].page
    BY <1>1, <1>8, <2>3 DEF Unmoved
  <2> HIDE DEF shown
  <2> QED BY <1>1, <1>3, <1>8, <2>1, <2>2, <2>4 DEF Sweep!BucketInv, Sweep!Closed, Sweep!ClosedHour, Unmoved
<1>11. Sweep!JobInv(runs[w])'
  BY <1>1, <1>8, <1>9, <1>10 DEF Sweep!JobInv, Sweep!Jobs, Unmoved
<1> QED BY <1>1, <1>2, <1>4, <1>11, SweepAlone

\* The content of a record of the page.
LEMMA SweepDeletes ==
  ASSUME Sweep!SweepAssumption, Sweep!IInv, NEW w \in Workers, Sweep!DeleteContent(w)
  PROVE  SweepStep(w)
<1> DEFINE j == runs[w]
<1>1. SweepRows /\ DOMAIN runs = Workers /\ MaxTime \in Nat
  BY SweepParts, SweepSettings
<1>2. /\ j \in Sweep!Jobs /\ Sweep!ItemInv(j) /\ Sweep!BucketInv(j) /\ j.phase = "page"
      /\ clock \in Nat /\ j.at \in Nat /\ j.at <= clock
  BY SweepAtWork DEF Sweep!DeleteContent
<1>3. PICK r \in j.page :
        /\ bodies' = bodies \ {r}
        /\ Sweep!Step(w, [j EXCEPT !.phase = "redact", !.item = r, !.page = @ \ {r},
                                   !.deleted = IF r \in bodies THEN @ + 1 ELSE @])
  BY DEF Sweep!DeleteContent
<1>4. /\ clock' = clock /\ expiring' = expiring /\ locators' = locators /\ replays' = replays
      /\ backlog' = backlog /\ lap' = lap /\ late' = late
  BY DEF Sweep!DeleteContent
<1>5. r \in Records /\ ExpiresAt[r] \in Nat /\ ExpiresAt[r] <= j.at
  BY <1>2, SweepSettings DEF Sweep!Jobs, Sweep!ItemInv
<1>6. SweepRows' /\ Later
  BY <1>1, <1>2, <1>3, <1>4, <1>5 DEF SweepRows, Later, Sweep!LocatorLast, Sweep!NothingPassed, Sweep!NothingEarly,
     Sweep!Last, Sweep!Bucket, Sweep!HourOf
<1>7. /\ runs'[w].lane = j.lane /\ runs'[w].phase = "redact" /\ runs'[w].at = j.at /\ runs'[w].bucket = j.bucket
      /\ runs'[w].page = j.page \ {r} /\ runs'[w].item = r /\ runs'[w].fresh = j.fresh /\ runs'[w].more = j.more
      /\ runs'[w] \in Sweep!Jobs
  <2> DEFINE d == IF r \in bodies THEN j.deleted + 1 ELSE j.deleted
             rest == j.page \ {r}
  <2>1. d \in Nat /\ rest \in SUBSET Records
    BY <1>2 DEF Sweep!Jobs
  <2>2. runs'[w] = [j EXCEPT !.phase = "redact", !.item = r, !.page = rest, !.deleted = d]
    BY <1>1, <1>2, <1>3 DEF Sweep!Step, Sweep!Jobs
  <2>3. rest = j.page \ {r}
    OBVIOUS
  <2> HIDE DEF d, rest
  <2> QED BY <1>2, <1>5, <2>1, <2>2, <2>3 DEF Sweep!Jobs
<1>8. Sweep!ItemInv(runs[w])'
  BY <1>2, <1>3, <1>5, <1>7 DEF Sweep!ItemInv
<1>9. Sweep!BucketInv(runs[w])'
  BY <1>2, <1>3, <1>4, <1>7 DEF Sweep!BucketInv, Sweep!Closed, Sweep!ClosedHour
<1>10. Sweep!JobInv(runs[w])'
  BY <1>4, <1>7, <1>8, <1>9 DEF Sweep!JobInv, Sweep!Jobs
<1> QED BY <1>3, <1>4, <1>6, <1>10, SweepAlone

\* The replay it could be restored from.
LEMMA SweepRedacts ==
  ASSUME Sweep!SweepAssumption, Sweep!IInv, NEW w \in Workers, Sweep!Redact(w)
  PROVE  SweepStep(w)
<1> DEFINE j == runs[w]
<1>1. SweepRows /\ DOMAIN runs = Workers /\ MaxTime \in Nat
  BY SweepParts, SweepSettings
<1>2. j \in Sweep!Jobs /\ Sweep!ItemInv(j) /\ Sweep!BucketInv(j) /\ j.phase = "redact" /\ clock \in Nat
  BY SweepAtWork DEF Sweep!Redact
<1>3. /\ clock' = clock /\ bodies' = bodies /\ expiring' = expiring /\ locators' = locators
      /\ replays' = replays \ {j.item} /\ backlog' = backlog /\ lap' = lap /\ late' = late
      /\ Sweep!Step(w, [j EXCEPT !.phase = "locate"])
  BY DEF Sweep!Redact
<1>4. SweepRows' /\ Later
  BY <1>1, <1>2, <1>3 DEF SweepRows, Later, Sweep!LocatorLast, Sweep!NothingPassed, Sweep!NothingEarly,
     Sweep!Last, Sweep!Bucket, Sweep!HourOf
<1>5. runs'[w] = [j EXCEPT !.phase = "locate"] /\ runs'[w] \in Sweep!Jobs
  BY <1>1, <1>2, <1>3 DEF Sweep!Step, Sweep!Jobs
<1>6. Sweep!ItemInv(runs[w])' /\ Sweep!BucketInv(runs[w])'
  BY <1>2, <1>3, <1>5 DEF Sweep!Jobs, Sweep!ItemInv, Sweep!BucketInv, Sweep!Closed, Sweep!ClosedHour
<1>7. Sweep!JobInv(runs[w])'
  BY <1>3, <1>5, <1>6 DEF Sweep!JobInv, Sweep!Jobs
<1> QED BY <1>3, <1>4, <1>7, SweepAlone

\* The locator, last.
LEMMA SweepExpires ==
  ASSUME Sweep!SweepAssumption, Sweep!IInv, NEW w \in Workers, Sweep!ExpireLocator(w)
  PROVE  SweepStep(w)
<1> DEFINE j == runs[w]
           r == j.item
           next == IF j.lane = "pending" THEN Sweep!Idle ELSE [j EXCEPT !.phase = "page", !.item = None]
<1>1. SweepRows /\ DOMAIN runs = Workers /\ MaxTime \in Nat
  BY SweepParts, SweepSettings
<1>2. /\ j \in Sweep!Jobs /\ Sweep!ItemInv(j) /\ Sweep!BucketInv(j) /\ j.phase = "locate"
      /\ clock \in Nat /\ j.at \in Nat /\ j.at <= clock
  BY SweepAtWork DEF Sweep!ExpireLocator
<1>3. /\ clock' = clock /\ bodies' = bodies /\ expiring' = expiring /\ replays' = replays
      /\ backlog' = backlog /\ lap' = lap /\ late' = late
      /\ Sweep!Step(w, next)
      /\ locators' = IF locators[r] = "ACTIVE" THEN [locators EXCEPT ![r] = "EXPIRED"] ELSE locators
  BY DEF Sweep!ExpireLocator
<1>4. r \in Records /\ r \notin bodies /\ r \notin replays /\ ExpiresAt[r] \in Nat /\ ExpiresAt[r] <= j.at
  BY <1>2, SweepSettings DEF Sweep!ItemInv
<1>5. SweepRows' /\ Later
  BY <1>1, <1>2, <1>3, <1>4 DEF SweepRows, Later, Sweep!LocatorLast, Sweep!NothingPassed, Sweep!NothingEarly,
     Sweep!Last, Sweep!Bucket, Sweep!HourOf
<1>6. runs'[w] = next
  BY <1>1, <1>3 DEF Sweep!Step
<1>7. CASE j.lane = "pending"
  <2>1. Sweep!JobInv(runs[w])'
    BY <1>6, <1>7 DEF Sweep!JobInv, Sweep!Idle
  <2> QED BY <1>3, <1>5, <2>1, SweepAlone
<1>8. CASE j.lane # "pending"
  <2>1. runs'[w] = [j EXCEPT !.phase = "page", !.item = None] /\ runs'[w] \in Sweep!Jobs
    BY <1>2, <1>6, <1>8 DEF Sweep!Jobs
  <2>2. Sweep!ItemInv(runs[w])' /\ Sweep!BucketInv(runs[w])'
    BY <1>2, <1>3, <2>1 DEF Sweep!Jobs, Sweep!ItemInv, Sweep!BucketInv, Sweep!Closed, Sweep!ClosedHour
  <2>3. Sweep!JobInv(runs[w])'
    BY <1>3, <2>1, <2>2 DEF Sweep!JobInv, Sweep!Jobs
  <2> QED BY <1>3, <1>5, <2>3, SweepAlone
<1> QED BY <1>7, <1>8

\* The next bucket of the hour that runs, and a full page of the reconciliation again.
LEMMA SweepGoesOn ==
  ASSUME Sweep!SweepAssumption, Sweep!IInv, NEW w \in Workers, Sweep!NextShard(w) \/ Sweep!Again(w)
  PROVE  SweepStep(w)
<1> DEFINE j == runs[w]
<1>1. SweepRows /\ Unmoved /\ backlog' = backlog /\ lap' = lap /\ DOMAIN runs = Workers
  BY SweepParts DEF Unmoved, Sweep!NextShard, Sweep!Again
<1>2. SweepRows' /\ Later
  BY <1>1, SweepStays DEF SweepRows
<1>3. /\ j \in Sweep!Jobs /\ Sweep!ItemInv(j) /\ Sweep!BucketInv(j) /\ clock \in Nat /\ clock <= MaxTime
      /\ j.at \in Nat /\ j.at <= clock /\ j.bucket \in Nat /\ j.phase = "page"
  BY SweepAtWork DEF Sweep!NextShard, Sweep!Again
<1>4. PICK b \in {j.bucket, j.bucket + 1} :
        /\ Sweep!Step(w, [j EXCEPT !.phase = "query", !.bucket = b, !.more = FALSE])
        /\ b # j.bucket => j.lane = "current"
        /\ j.lane # "backlog"
  <2>1. CASE Sweep!NextShard(w)
    BY <2>1 DEF Sweep!NextShard
  <2>2. CASE Sweep!Again(w)
    <3>1. [j EXCEPT !.phase = "query", !.more = FALSE] = [j EXCEPT !.phase = "query", !.bucket = j.bucket, !.more = FALSE]
      BY <1>3 DEF Sweep!Jobs
    <3> QED BY <2>2, <3>1 DEF Sweep!Again
  <2> QED BY <2>1, <2>2
<1>5. b \in 0 .. Sweep!Last
  <2>1. ASSUME j.lane = "current" PROVE j.bucket + 1 <= Sweep!Last /\ Sweep!Last \in Nat
    <3>1. j.bucket \div Shards = Sweep!HourOf(j.at) /\ j.at <= MaxTime /\ Sweep!HourOf(j.at) \in Nat
      <4>1. MaxTime \in Nat
        BY SweepSettings
      <4> QED BY <1>3, <2>1, <4>1, HoursPass DEF Sweep!BucketInv
    <3>2. Sweep!Last \in Nat
      <4>1. MaxTime \in Nat /\ Shards \in Nat
        BY SweepSettings
      <4>2. Sweep!HourOf(MaxTime) \in Nat
        BY <4>1, HoursPass
      <4> QED BY <4>1, <4>2 DEF Sweep!Last
    <3> QED BY <1>3, <3>1, <3>2, BucketsOfHour
  <2> QED BY <1>3, <1>4, <2>1 DEF Sweep!Jobs
<1>6. runs'[w] = [j EXCEPT !.phase = "query", !.bucket = b, !.more = FALSE] /\ runs'[w] \in Sweep!Jobs
  BY <1>1, <1>3, <1>4, <1>5 DEF Sweep!Step, Sweep!Jobs
<1>7. Sweep!ItemInv(runs[w])' /\ Sweep!BucketInv(runs[w])'
  BY <1>1, <1>3, <1>4, <1>6 DEF Sweep!Jobs, Sweep!ItemInv, Sweep!BucketInv, Unmoved
<1>8. Sweep!JobInv(runs[w])'
  BY <1>1, <1>6, <1>7 DEF Sweep!JobInv, Sweep!Jobs, Unmoved
<1> QED BY <1>1, <1>2, <1>4, <1>8, SweepAlone

\* The checkpoint of the backlog leaves a bucket in which nothing is left that was shown
\* in time.
LEMMA SweepAdvances ==
  ASSUME Sweep!SweepAssumption, Sweep!IInv, NEW w \in Workers, Sweep!AdvanceBacklog(w)
  PROVE  SweepStep(w)
<1> DEFINE j == runs[w]
           next == [j EXCEPT !.phase = "query", !.bucket = @ + 1]
<1>1. SweepRows /\ Unmoved /\ lap' = lap /\ DOMAIN runs = Workers /\ MaxTime \in Nat
  BY SweepParts, SweepSettings DEF Unmoved, Sweep!AdvanceBacklog
<1>2. /\ j \in Sweep!Jobs /\ Sweep!ItemInv(j) /\ Sweep!BucketInv(j) /\ clock \in Nat /\ clock <= MaxTime
      /\ j.at \in Nat /\ j.at <= clock /\ j.bucket \in Nat /\ j.phase = "page"
      /\ j.page = {} /\ ~j.more /\ j.lane = "backlog" /\ j.fresh
  BY SweepAtWork DEF Sweep!AdvanceBacklog, Sweep!Emptied
<1>3. backlog' = j.bucket + 1 /\ Sweep!Passed(w, "backlog", next)
  BY DEF Sweep!AdvanceBacklog
<1>4. /\ j.bucket = backlog /\ Sweep!Closed(j, j.bucket)
      /\ \A r \in bodies \cap expiring : Sweep!Bucket(r) = backlog => r \in late
  BY <1>2 DEF Sweep!BucketInv
<1>5. Sweep!HourOf(j.at) \in Nat /\ Sweep!HourOf(clock) \in Nat /\ Sweep!HourOf(j.at) <= Sweep!HourOf(clock)
  BY <1>2, HoursPass
<1>6. backlog' \in 0 .. Sweep!Last
  <2>1. backlog \div Shards <= Sweep!HourOf(j.at) /\ backlog \in Nat
    <3>1. backlog \div Shards \in Nat
      BY <1>2, <1>4, SweepSettings, Divided
    <3> QED BY <1>2, <1>4, <1>5, <3>1 DEF Sweep!Closed, Sweep!ClosedHour
  <2>2. backlog + 1 <= Sweep!Last
    BY <1>2, <1>1, <2>1, BucketsOfHour
  <2>3. Sweep!Last \in Nat
    <3>1. Sweep!HourOf(MaxTime) \in Nat /\ Shards \in Nat
      BY <1>1, HoursPass, SweepSettings
    <3> QED BY <3>1 DEF Sweep!Last
  <2> QED BY <1>3, <1>4, <2>1, <2>2, <2>3
<1>7. \A r \in Records : Sweep!Bucket(r) \in Nat /\ Sweep!HourOf(ExpiresAt[r]) \in Nat
  BY SweepSettings, BucketOfHour, HoursPass
<1>8. ASSUME NEW r \in Records, Sweep!Bucket(r) < backlog' PROVE Sweep!HourOf(ExpiresAt[r]) < Sweep!HourOf(clock)
  <2>1. CASE Sweep!Bucket(r) < backlog
    BY <1>1, <2>1 DEF SweepRows
  <2>2. CASE Sweep!Bucket(r) = backlog
    BY <1>4, <1>5, <1>7, <2>2, BucketOfHour DEF Sweep!Closed, Sweep!ClosedHour
  <2> QED BY <1>2, <1>3, <1>4, <1>7, <1>8, <2>1, <2>2
<1>9. ASSUME NEW r \in bodies \cap expiring, r \notin late PROVE Sweep!Bucket(r) >= backlog'
  <2>1. r \in Records /\ Sweep!Bucket(r) >= backlog /\ Sweep!Bucket(r) # backlog
    BY <1>1, <1>4, <1>9 DEF SweepRows, Sweep!NothingPassed
  <2> QED BY <1>2, <1>3, <1>4, <1>7, <2>1
<1>10. SweepRows' /\ Later
  <2>1. Sweep!NothingPassed'
    BY <1>1, <1>9 DEF Unmoved, Sweep!NothingPassed, Sweep!Bucket, Sweep!HourOf
  <2>2. \A r \in Records : (Sweep!Bucket(r) < backlog => Sweep!HourOf(ExpiresAt[r]) < Sweep!HourOf(clock))'
    BY <1>1, <1>8 DEF Unmoved, Sweep!Bucket, Sweep!HourOf
  <2> QED BY <1>1, <1>2, <1>6, <2>1, <2>2 DEF SweepRows, Later, Unmoved, Sweep!LocatorLast, Sweep!NothingEarly, Sweep!Last,
          Sweep!HourOf
<1>11. DOMAIN runs' = Workers /\ runs'[w] = next
  BY <1>3 DEF Sweep!Passed
<1>12. Sweep!JobInv(runs[w])'
  <2>1. next \in Sweep!Jobs /\ next.page = {} /\ next.phase = "query" /\ next.lane = "backlog" /\ next.bucket = j.bucket + 1
    BY <1>2, <1>3, <1>6 DEF Sweep!Jobs
  <2> HIDE DEF next
  <2>2. Sweep!ItemInv(runs[w])' /\ Sweep!BucketInv(runs[w])'
    BY <1>3, <1>11, <2>1 DEF Sweep!ItemInv, Sweep!BucketInv
  <2> QED BY <1>1, <1>11, <2>1, <2>2 DEF Sweep!JobInv, Sweep!Jobs, Unmoved
<1>13. ASSUME NEW v \in Workers \ {w}
       PROVE  /\ runs'[v] = runs[v] \/ (runs[v] # Sweep!Idle /\ runs'[v] = [runs[v] EXCEPT !.fresh = FALSE])
              /\ runs'[v].lane = "backlog" /\ runs'[v].fresh => backlog' = backlog
  <2>1. CASE runs[v].lane = "backlog"
    <3>1. runs'[v] = [runs[v] EXCEPT !.fresh = FALSE]
      BY <1>3, <2>1 DEF Sweep!Passed
    <3>2. runs[v] # Sweep!Idle /\ runs[v] \in Sweep!Jobs
      BY <2>1, SweepParts DEF Sweep!Idle, Sweep!JobInv
    <3>3. ~runs'[v].fresh
      BY <3>1, <3>2 DEF Sweep!Jobs
    <3> QED BY <3>1, <3>2, <3>3
  <2>2. CASE runs[v].lane # "backlog"
    BY <1>3, <2>2 DEF Sweep!Passed
  <2> QED BY <2>1, <2>2
<1> QED BY <1>10, <1>11, <1>12, <1>13 DEF SweepStep

\* Where the reconciliation's window begins.
LEMMA SweepWindow ==
  ASSUME Sweep!SweepAssumption, NEW t \in Nat, t <= MaxTime
  PROVE  Sweep!WindowStart(t) \in 0 .. Sweep!Last
<1>1. Window \in Nat /\ MaxTime \in Nat /\ Shards \in Nat \ {0}
  BY SweepSettings
<1>2. Sweep!HourOf(t) \in Nat
  BY <1>1, HoursPass
<1>3. CASE Sweep!HourOf(t) > Window
  <2>1. Sweep!HourOf(t) - Window \in Nat /\ Sweep!HourOf(t) - Window <= Sweep!HourOf(t)
    BY <1>1, <1>2, <1>3
  <2> QED BY <1>3, <2>1, HourBegins DEF Sweep!WindowStart
<1>4. CASE ~(Sweep!HourOf(t) > Window)
  <2>1. 0 * Shards \in 0 .. Sweep!Last /\ 0 * Shards = 0
    BY <1>1, <1>2, HourBegins
  <2> QED BY <1>4, <2>1 DEF Sweep!WindowStart
<1> QED BY <1>3, <1>4

\* A checkpoint of the reconciliation, for the next bucket or a new run.
LEMMA SweepPasses ==
  ASSUME Sweep!SweepAssumption, Sweep!IInv, NEW w \in Workers, NEW next, Sweep!Passed(w, "reconcile", next),
         SweepRows' /\ Later, backlog' = backlog, Sweep!JobInv(runs[w])'
  PROVE  SweepStep(w)
<1>1. DOMAIN runs' = Workers
  BY DEF Sweep!Passed
<1>2. ASSUME NEW v \in Workers \ {w}
      PROVE  runs'[v] = runs[v] \/ (runs[v] # Sweep!Idle /\ runs'[v] = [runs[v] EXCEPT !.fresh = FALSE])
  <2>1. CASE runs[v].lane = "reconcile"
    BY <2>1 DEF Sweep!Passed, Sweep!Idle
  <2>2. CASE runs[v].lane # "reconcile"
    BY <2>2 DEF Sweep!Passed
  <2> QED BY <2>1, <2>2
<1> QED BY <1>1, <1>2 DEF SweepStep

\* Round the window.
LEMMA SweepLaps ==
  ASSUME Sweep!SweepAssumption, Sweep!IInv, NEW w \in Workers, Sweep!AdvanceLap(w)
  PROVE  SweepStep(w)
<1> DEFINE j == runs[w]
           b == IF Sweep!Closed(j, j.bucket + 1) THEN j.bucket + 1 ELSE Sweep!WindowStart(j.at)
           next == [j EXCEPT !.phase = "query", !.bucket = b]
<1>1. SweepRows /\ Unmoved /\ backlog' = backlog /\ DOMAIN runs = Workers /\ MaxTime \in Nat
  BY SweepParts, SweepSettings DEF Unmoved, Sweep!AdvanceLap
<1>2. /\ j \in Sweep!Jobs /\ Sweep!ItemInv(j) /\ Sweep!BucketInv(j) /\ clock \in Nat /\ clock <= MaxTime
      /\ j.at \in Nat /\ j.at <= clock /\ j.bucket \in Nat /\ j.page = {} /\ j.lane = "reconcile"
  BY SweepAtWork DEF Sweep!AdvanceLap, Sweep!Emptied
<1>3. lap' = b /\ Sweep!Passed(w, "reconcile", next)
  BY DEF Sweep!AdvanceLap
<1>4. b \in 0 .. Sweep!Last
  <2>1. CASE Sweep!Closed(j, j.bucket + 1)
    <3> DEFINE c == j.bucket + 1
    <3>0. c \in Nat /\ j.at <= MaxTime /\ Shards \in Nat \ {0} /\ Sweep!HourOf(j.at) \in Nat
      BY <1>1, <1>2, HoursPass, SweepSettings
    <3>1. c \in Nat /\ Sweep!HourOf(j.at) \in Nat /\ c \div Shards \in Nat /\ j.at <= MaxTime
      <4> HIDE DEF c
      <4> QED BY <3>0, Divided
    <3>2. c \div Shards <= Sweep!HourOf(j.at)
      BY <2>1, <3>1 DEF Sweep!Closed, Sweep!ClosedHour
    <3>3. c + 1 <= Sweep!Last
      <4> HIDE DEF c
      <4> QED BY <1>2, <3>1, <3>2, BucketsOfHour
    <3>4. Sweep!Last \in Nat
      <4>1. Sweep!HourOf(MaxTime) \in Nat /\ Shards \in Nat
        BY <1>1, HoursPass, SweepSettings
      <4> QED BY <4>1 DEF Sweep!Last
    <3> QED BY <2>1, <3>1, <3>3, <3>4
  <2>2. CASE ~Sweep!Closed(j, j.bucket + 1)
    <3>1. j.at <= MaxTime
      BY <1>1, <1>2
    <3> QED BY <1>2, <2>2, <3>1, SweepWindow
  <2> QED BY <2>1, <2>2
<1> HIDE DEF b
<1>5. SweepRows' /\ Later
  BY <1>1, <1>3, <1>4, SweepStays
<1>6. runs'[w] = next
  BY <1>3 DEF Sweep!Passed
<1>7. next \in Sweep!Jobs /\ next.page = {} /\ next.phase = "query" /\ next.lane = "reconcile"
  BY <1>2, <1>4 DEF Sweep!Jobs
<1> HIDE DEF next
<1>8. Sweep!ItemInv(runs[w])' /\ Sweep!BucketInv(runs[w])'
  BY <1>6, <1>7 DEF Sweep!ItemInv, Sweep!BucketInv
<1>9. Sweep!JobInv(runs[w])'
  BY <1>1, <1>6, <1>7, <1>8 DEF Sweep!JobInv, Sweep!Jobs, Unmoved
<1> QED BY <1>1, <1>3, <1>5, <1>9, SweepPasses

\* The next lane, from its checkpoint.
LEMMA SweepTakesUp ==
  ASSUME Sweep!SweepAssumption, Sweep!IInv, NEW w \in Workers, Sweep!BeginBacklog(w) \/ Sweep!BeginReconcile(w)
  PROVE  SweepStep(w)
<1> DEFINE j == runs[w]
<1>1. SweepRows /\ Unmoved /\ backlog' = backlog /\ DOMAIN runs = Workers /\ MaxTime \in Nat
  BY SweepParts, SweepSettings DEF Unmoved, Sweep!BeginBacklog, Sweep!BeginReconcile
<1>2. j \in Sweep!Jobs /\ clock \in Nat /\ clock <= MaxTime /\ j.at \in Nat /\ j.at <= clock
  BY SweepAtWork DEF Sweep!BeginBacklog, Sweep!BeginReconcile, Sweep!Over
<1>3. CASE Sweep!BeginBacklog(w)
  <2>1. lap' = lap /\ lap \in 0 .. Sweep!Last /\ backlog \in 0 .. Sweep!Last
    BY <1>1, <1>3 DEF Sweep!BeginBacklog, SweepRows
  <2>2. SweepRows' /\ Later
    BY <1>1, <2>1, SweepStays
  <2>3. runs'[w] = [lane |-> "backlog", phase |-> "query", at |-> j.at, bucket |-> backlog, page |-> {},
                    item |-> None, more |-> FALSE, deleted |-> 0, queries |-> 0, fresh |-> TRUE]
    BY <1>1, <1>3 DEF Sweep!BeginBacklog, Sweep!Step, Sweep!Idle
  <2>4. Sweep!JobInv(runs[w])'
    BY <1>1, <1>2, <2>1, <2>3 DEF Sweep!JobInv, Sweep!Jobs, Sweep!ItemInv, Sweep!BucketInv, Unmoved, Sweep!Last
  <2> QED BY <1>1, <1>3, <2>2, <2>4, SweepAlone DEF Sweep!BeginBacklog
<1>4. CASE Sweep!BeginReconcile(w)
  <2> DEFINE b == IF Sweep!HourOf(j.at) = 0 \/ Sweep!InWindow(j) THEN lap ELSE Sweep!WindowStart(j.at)
             next == [Sweep!Idle EXCEPT !.lane = "reconcile", !.phase = "query", !.at = j.at, !.bucket = b, !.fresh = TRUE]
  <2>1. lap' = b /\ IF b = lap THEN Sweep!Step(w, next) ELSE Sweep!Passed(w, "reconcile", next)
    BY <1>4 DEF Sweep!BeginReconcile
  <2>2. b \in 0 .. Sweep!Last
    <3>1. lap \in 0 .. Sweep!Last /\ j.at <= MaxTime
      BY <1>1, <1>2 DEF SweepRows
    <3> QED BY <1>2, <3>1, SweepWindow
  <2> HIDE DEF b
  <2>3. SweepRows' /\ Later
    BY <1>1, <2>1, <2>2, SweepStays
  <2>4. runs'[w] = next
    BY <1>1, <2>1 DEF Sweep!Step, Sweep!Passed
  <2>5. next = [lane |-> "reconcile", phase |-> "query", at |-> j.at, bucket |-> b, page |-> {},
                item |-> None, more |-> FALSE, deleted |-> 0, queries |-> 0, fresh |-> TRUE]
    <3> DEFINE idle == [lane |-> "none", phase |-> "idle", at |-> 0, bucket |-> 0, page |-> {}, item |-> None,
                        more |-> FALSE, deleted |-> 0, queries |-> 0, fresh |-> FALSE]
    <3>1. Sweep!Idle = idle
      BY DEF Sweep!Idle
    <3>2. next = [idle EXCEPT !.lane = "reconcile", !.phase = "query", !.at = j.at, !.bucket = b, !.fresh = TRUE]
      BY <3>1, Zenon
    <3> HIDE DEF next, j
    <3> QED BY <3>2
  <2> HIDE DEF next
  <2>6. Sweep!JobInv(runs[w])'
    BY <1>1, <1>2, <2>2, <2>4, <2>5 DEF Sweep!JobInv, Sweep!Jobs, Sweep!ItemInv, Sweep!BucketInv, Unmoved, Sweep!Last
  <2> QED BY <1>1, <2>1, <2>3, <2>6, SweepAlone, SweepPasses
<1> QED BY <1>3, <1>4

\* A locator whose time has come.
LEMMA SweepRetains ==
  ASSUME Sweep!SweepAssumption, Sweep!IInv, NEW w \in Workers, NEW r \in Records, Sweep!Retain(w, r)
  PROVE  SweepStep(w)
<1> DEFINE j == runs[w]
<1>1. SweepRows /\ DOMAIN runs = Workers /\ MaxTime \in Nat /\ ExpiresAt[r] \in Nat
  BY SweepParts, SweepSettings
<1>2. j \in Sweep!Jobs /\ clock \in Nat /\ j.at \in Nat /\ j.at <= clock
  BY SweepAtWork DEF Sweep!Retain, Sweep!Over
<1>3. /\ clock' = clock /\ bodies' = bodies \ {r} /\ expiring' = expiring /\ locators' = locators
      /\ replays' = replays /\ backlog' = backlog /\ lap' = lap /\ late' = late
      /\ Sweep!Step(w, [Sweep!Idle EXCEPT !.lane = "pending", !.phase = "redact", !.at = j.at, !.item = r])
      /\ ExpiresAt[r] <= j.at
  BY DEF Sweep!Retain
<1>4. SweepRows' /\ Later
  BY <1>1, <1>2, <1>3 DEF SweepRows, Later, Sweep!LocatorLast, Sweep!NothingPassed, Sweep!NothingEarly,
     Sweep!Last, Sweep!Bucket, Sweep!HourOf
<1>5. runs'[w] = [lane |-> "pending", phase |-> "redact", at |-> j.at, bucket |-> 0, page |-> {},
                  item |-> r, more |-> FALSE, deleted |-> 0, queries |-> 0, fresh |-> FALSE]
  BY <1>1, <1>3 DEF Sweep!Step, Sweep!Idle
<1>6. 0 \in 0 .. Sweep!Last
  <2>1. 0 * Shards \in 0 .. Sweep!Last /\ 0 * Shards = 0
    BY <1>1, HoursPass, HourBegins, SweepSettings
  <2> QED BY <2>1
<1>7. Sweep!JobInv(runs[w])'
  BY <1>2, <1>3, <1>5, <1>6 DEF Sweep!JobInv, Sweep!Jobs, Sweep!ItemInv, Sweep!BucketInv, Sweep!Last
<1> QED BY <1>3, <1>4, <1>7, SweepAlone

\* The end of a run.
LEMMA SweepStops ==
  ASSUME Sweep!SweepAssumption, Sweep!IInv, NEW w \in Workers, Sweep!Stop(w)
  PROVE  SweepStep(w)
<1>1. SweepRows /\ Unmoved /\ backlog' = backlog /\ lap' = lap /\ DOMAIN runs = Workers
  BY SweepParts DEF Unmoved, Sweep!Stop
<1>2. SweepRows' /\ Later
  BY <1>1, SweepStays DEF SweepRows
<1>3. Sweep!JobInv(runs[w])'
  BY <1>1 DEF Sweep!Stop, Sweep!Step, Sweep!JobInv, Sweep!Idle
<1> QED BY <1>1, <1>2, <1>3, SweepAlone DEF Sweep!Stop

\* What goes on around the runs.
LEMMA SweepAround ==
  ASSUME Sweep!SweepAssumption, Sweep!IInv, runs' = runs, backlog' = backlog, SweepRows', Later
  PROVE  Sweep!IInv'
<1>1. DOMAIN runs = Workers /\ \A w \in Workers : Sweep!JobInv(runs[w])
  BY SweepParts
<1>2. \A w \in Workers : Sweep!JobInv(runs[w])'
  BY <1>1, SweepOthers
<1> QED BY <1>1, <1>2, SweepPartsNext

\* The index, which shows a record of an hour that is over late.
LEMMA SweepShows ==
  ASSUME Sweep!SweepAssumption, Sweep!IInv, NEW r \in Records, Sweep!Propagate(r)
  PROVE  Sweep!IInv'
<1>1. SweepRows /\ MaxTime \in Nat
  BY SweepParts, SweepSettings
<1>2. /\ clock' = clock /\ bodies' = bodies /\ locators' = locators /\ replays' = replays
      /\ backlog' = backlog /\ lap' = lap /\ runs' = runs
      /\ expiring' = IF r \in bodies THEN expiring \cup {r} ELSE expiring \ {r}
      /\ late' = IF r \in bodies /\ Sweep!HourOf(clock) > Sweep!HourOf(ExpiresAt[r]) THEN late \cup {r} ELSE late
  BY DEF Sweep!Propagate
<1>3. /\ clock \in Nat /\ Sweep!HourOf(clock) \in Nat /\ \A s \in Records : Sweep!HourOf(ExpiresAt[s]) \in Nat
      /\ backlog \in Nat /\ Sweep!Bucket(r) \in Nat
  BY <1>1, SweepSettings, HoursPass, BucketOfHour DEF SweepRows
<1>4. Later
  BY <1>1, <1>2, <1>3 DEF Later, SweepRows
<1>5. ASSUME NEW s \in bodies \cap expiring', s \notin late' PROVE Sweep!Bucket(s) >= backlog
  <2>1. CASE s \in expiring
    BY <1>1, <1>2, <1>5, <2>1 DEF SweepRows, Sweep!NothingPassed
  <2>2. CASE s \notin expiring
    BY <1>1, <1>2, <1>3, <1>5, <2>2 DEF SweepRows
  <2> QED BY <2>1, <2>2
<1>6. SweepRows'
  <2>1. Sweep!NothingPassed'
    BY <1>2, <1>5 DEF Sweep!NothingPassed, Sweep!Bucket, Sweep!HourOf
  <2>2. expiring' \subseteq Records /\ late' \subseteq Records
    BY <1>1, <1>2 DEF SweepRows
  <2> QED BY <1>1, <1>2, <2>1, <2>2 DEF SweepRows, Sweep!LocatorLast, Sweep!NothingEarly, Sweep!Last, Sweep!Bucket, Sweep!HourOf
<1> QED BY <1>2, <1>4, <1>6, SweepAround

\* The account's own deletion of a record.
LEMMA SweepDeleted ==
  ASSUME Sweep!SweepAssumption, Sweep!IInv, NEW r \in Records, Sweep!Delete(r)
  PROVE  Sweep!IInv'
<1>1. SweepRows /\ MaxTime \in Nat
  BY SweepParts, SweepSettings
<1>2. /\ clock' = clock /\ bodies' = bodies \ {r} /\ replays' = replays \ {r} /\ expiring' = expiring
      /\ locators' = [locators EXCEPT ![r] = "DELETED"]
      /\ backlog' = backlog /\ lap' = lap /\ runs' = runs /\ late' = late
  BY DEF Sweep!Delete
<1>3. SweepRows' /\ Later
  BY <1>1, <1>2 DEF SweepRows, Later, Sweep!LocatorLast, Sweep!NothingPassed, Sweep!NothingEarly,
     Sweep!Last, Sweep!Bucket, Sweep!HourOf
<1> QED BY <1>2, <1>3, SweepAround

\* The clock.
LEMMA SweepTicks ==
  ASSUME Sweep!SweepAssumption, Sweep!IInv, Sweep!Tick
  PROVE  Sweep!IInv'
<1>1. SweepRows /\ MaxTime \in Nat
  BY SweepParts, SweepSettings
<1>2. /\ clock < MaxTime /\ clock' = clock + 1 /\ bodies' = bodies /\ replays' = replays /\ expiring' = expiring
      /\ locators' = locators /\ backlog' = backlog /\ lap' = lap /\ runs' = runs /\ late' = late
  BY DEF Sweep!Tick
<1>3. /\ clock \in Nat /\ clock' \in 0 .. MaxTime /\ clock <= clock' /\ clock' \in Nat
      /\ \A r \in Records : ExpiresAt[r] \in Nat
  BY <1>1, <1>2, SweepSettings DEF SweepRows
<1>4. /\ Sweep!HourOf(clock) \in Nat /\ Sweep!HourOf(clock') \in Nat /\ Sweep!HourOf(clock) <= Sweep!HourOf(clock')
      /\ \A r \in Records : Sweep!HourOf(ExpiresAt[r]) \in Nat
  BY <1>3, HoursPass
<1>5. \A r \in Records : Sweep!Bucket(r) < backlog' => Sweep!HourOf(ExpiresAt[r]) < Sweep!HourOf(clock')
  BY <1>1, <1>2, <1>4 DEF SweepRows
<1>6. Sweep!NothingEarly'
  BY <1>1, <1>2, <1>3 DEF SweepRows, Sweep!NothingEarly
<1>7. SweepRows' /\ Later
  BY <1>1, <1>2, <1>3, <1>5, <1>6 DEF SweepRows, Later, Sweep!LocatorLast, Sweep!NothingPassed,
     Sweep!Last, Sweep!Bucket, Sweep!HourOf
<1> QED BY <1>2, <1>7, SweepAround

\* All records are there, at first, and no run.
LEMMA SweepInits ==
  ASSUME Sweep!SweepAssumption, Sweep!Init
  PROVE  Sweep!IInv
<1>1. MaxTime \in Nat /\ 0 \in 0 .. Sweep!Last
  <2>1. MaxTime \in Nat /\ 0 * Shards = 0
    BY SweepSettings
  <2>2. 0 * Shards \in 0 .. Sweep!Last
    BY <2>1, HoursPass, HourBegins
  <2> QED BY <2>1, <2>2
<1>2. \A r \in Records : Sweep!Bucket(r) \in Nat
  BY BucketOfHour
<1>3. SweepRows
  BY <1>1, <1>2 DEF Sweep!Init, SweepRows, Sweep!LocatorLast, Sweep!NothingPassed, Sweep!NothingEarly
<1>4. DOMAIN runs = Workers /\ \A w \in Workers : Sweep!JobInv(runs[w])
  BY DEF Sweep!Init, Sweep!JobInv
<1> QED BY <1>3, <1>4, SweepParts

\* Every step keeps it.
LEMMA SweepNext ==
  ASSUME Sweep!SweepAssumption, Sweep!IInv, [Sweep!Next]_(Sweep!vars)
  PROVE  Sweep!IInv'
<1>1. ASSUME NEW w \in Workers,
             \/ Sweep!Start(w) \/ Sweep!Query(w) \/ Sweep!DeleteContent(w) \/ Sweep!Redact(w) \/ Sweep!ExpireLocator(w)
             \/ Sweep!NextShard(w) \/ Sweep!AdvanceBacklog(w) \/ Sweep!AdvanceLap(w) \/ Sweep!Again(w)
             \/ Sweep!BeginBacklog(w) \/ Sweep!BeginReconcile(w) \/ Sweep!Stop(w)
             \/ \E r \in Records : Sweep!Retain(w, r)
      PROVE  Sweep!IInv'
  <2>1. SweepStep(w)
    BY <1>1, SweepBegins, SweepQueries, SweepDeletes, SweepRedacts, SweepExpires, SweepGoesOn, SweepAdvances,
       SweepLaps, SweepTakesUp, SweepStops, SweepRetains
  <2> QED BY <2>1, SweepStepKeeps
<1>2. ASSUME NEW r \in Records, Sweep!Propagate(r) \/ Sweep!Delete(r) PROVE Sweep!IInv'
  BY <1>2, SweepShows, SweepDeleted
<1>3. CASE UNCHANGED Sweep!vars
  <2>1. SweepRows /\ Unmoved /\ backlog' = backlog /\ lap' = lap /\ runs' = runs
    BY <1>3, SweepParts DEF Sweep!vars, Unmoved
  <2>2. SweepRows' /\ Later
    BY <2>1, SweepStays DEF SweepRows
  <2> QED BY <2>1, <2>2, SweepAround
<1> QED BY <1>1, <1>2, <1>3, SweepTicks DEF Sweep!Next

\* For any records, hours, shards, settings and runs that overlap or die anywhere: a
\* locator goes last, the backlog's checkpoint leaves nothing behind that the index showed
\* in time, and nothing goes before its time (history_lifecycle, HistorySweep).
THEOREM ExpirySound ==
  ASSUME Sweep!SweepAssumption
  PROVE  Sweep!Spec => [](Sweep!TypeOK /\ Sweep!LocatorLast /\ Sweep!NothingPassed /\ Sweep!NothingEarly)
<1>1. Sweep!Init => Sweep!IInv
  BY SweepInits
<1>2. Sweep!IInv /\ [Sweep!Next]_(Sweep!vars) => Sweep!IInv'
  BY SweepNext
<1>3. Sweep!IInv => Sweep!TypeOK /\ Sweep!LocatorLast /\ Sweep!NothingPassed /\ Sweep!NothingEarly
  BY DEF Sweep!IInv
<1> QED BY <1>1, <1>2, <1>3, PTL DEF Sweep!Spec
===============================================================================
