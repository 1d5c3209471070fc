-------------------------------- MODULE History --------------------------------
(***************************************************************************)
(* The History of one account: history_mutation_api, history_lifecycle,    *)
(* history_account_deletion_bridge, and the analysis pipeline that writes  *)
(* what they erase (conversation_analysis).                                *)
(*                                                                         *)
(* A check leaves its answer twice: in the replay row of its request, for  *)
(* a client that asks again, and in a content row of the generation it was *)
(* accepted in.  To clear the History is to start another generation and   *)
(* to leave an erasure job for the old one.  The lifecycle sweep erases by *)
(* pages, in two stages, with its place in the job; it also retires what   *)
(* is old, and the checks whose generation ended before they did.          *)
(*                                                                         *)
(* The sweep runs alone (its function has a reserved concurrency of 1), is *)
(* interrupted anywhere, and shares every row with the other functions.    *)
(***************************************************************************)
EXTENDS Naturals, FiniteSets, FiniteSetsExt

CONSTANTS
  LastRequest,    \* requests of the account, in the order of the sort keys
  MaxGeneration,  \* bound on the generations
  PageSize,       \* HISTORY_ERASURE_BATCH_SIZE
  None            \* no generation

Requests == 1 .. LastRequest
Generations == 0 .. MaxGeneration

ASSUME HistoryAssumption ==
  /\ LastRequest \in Nat \ {0}
  /\ MaxGeneration \in Nat
  /\ PageSize \in Nat \ {0}
  /\ None \notin Generations

VARIABLES
  account,     \* the STATE row: accountStatus and historyGeneration
  command,     \* the account's deletion row: none, REQUESTED or complete
  replay,      \* ANALYSIS#REQUEST rows
  content,     \* the generation of a request's content row, or None
  locator,     \* REQUEST rows
  completion,  \* COMPLETION rows
  aged,        \* requests whose contentExpiresAt has passed
  deleting,    \* deletions of one item between their reads and their transaction
  erasure,     \* ERASURE rows
  mutation,    \* the receipt of a History-only deletion
  receipt,     \* ACCOUNT_DELETION#HISTORY
  sweep,       \* what the lifecycle sweep is about
  calm         \* from now on sweeps do not die and clients lock no request again

requests == <<replay, content, locator, completion, aged, deleting>>
receipts == <<mutation, receipt>>
vars == <<account, command, requests, erasure, receipts, sweep, calm>>

-----------------------------------------------------------------------------
(* Rows *)

Own == [reason |-> "HISTORY_ACCOUNT_DELETION", of |-> 0]
Whole == [reason |-> "ACCOUNT_DELETION", of |-> 0]

\* The jobs an account can have: one for each generation it clears.
Erasures == [reason : {"CLEAR_HISTORY"}, of : Generations] \cup {Own, Whole}

NoRow == [status |-> "none", auth |-> None, response |-> FALSE, hash |-> FALSE]
NoEntry == [status |-> "none", of |-> None]
NoJob == [status |-> "none", stage |-> "HISTORY", generation |-> 0, last |-> 0, cursor |-> 0]

\* _erasure_job: generations first to last are to be erased.
NewJob(first, last) == [NoJob EXCEPT !.status = "PENDING", !.generation = first, !.last = last]

Idle == [step |-> "idle", job |-> Own, request |-> 1, page |-> {}, next |-> 0, more |-> FALSE]

Untouched ==
  /\ account = [status |-> "none", generation |-> 0]
  /\ command = "none"
  /\ replay = [r \in Requests |-> NoRow]
  /\ content = [r \in Requests |-> None]
  /\ locator = [r \in Requests |-> NoEntry]
  /\ completion = [r \in Requests |-> NoEntry]
  /\ aged = {}
  /\ deleting = {}
  /\ erasure = [j \in Erasures |-> NoJob]
  /\ mutation = "none"
  /\ receipt = FALSE
  /\ sweep = Idle

Init == Untouched /\ calm = FALSE

\* append_account_authority_checks, _authority_condition_checks.
Allowed == command = "none"

-----------------------------------------------------------------------------
(* The account *)

Bootstrap ==
  /\ Allowed
  /\ account.status = "none"
  /\ account' = [account EXCEPT !.status = "ACTIVE"]
  /\ UNCHANGED <<command, requests, erasure, receipts, sweep, calm>>

\* account_data_api: the deletion of the account is requested.
RequestDeletion ==
  /\ command = "none"
  /\ command' = "REQUESTED"
  /\ UNCHANGED <<account, requests, erasure, receipts, sweep, calm>>

\* The finalizer, behind the receipts of this and of all other components.
CompleteDeletion ==
  /\ command = "REQUESTED"
  /\ receipt
  /\ command' = "COMPLETE"
  /\ UNCHANGED <<account, requests, erasure, receipts, sweep, calm>>

-----------------------------------------------------------------------------
(* A check, from the lock of its request to the commit of its result *)

Processing(r) == replay[r].status = "PROCESSING"

\* check_or_lock_request: a locator answers for the request for good.
Lock(r) ==
  /\ ~calm
  /\ Allowed
  /\ replay[r] = NoRow
  /\ locator[r] = NoEntry
  /\ replay' = [replay EXCEPT ![r] = [NoRow EXCEPT !.status = "PROCESSING", !.hash = TRUE]]
  /\ UNCHANGED <<account, command, content, locator, completion, aged, deleting, erasure, receipts, sweep, calm>>

TakeOver(r) ==
  /\ Allowed
  /\ replay[r].status = "RETRYABLE"
  /\ replay' = [replay EXCEPT ![r].status = "PROCESSING"]
  /\ UNCHANGED <<account, command, content, locator, completion, aged, deleting, erasure, receipts, sweep, calm>>

\* reserve_history_acceptance: the check is accepted in the current generation.
Reserve(r) ==
  /\ Allowed
  /\ Processing(r)
  /\ replay[r].auth = None
  /\ account.status = "ACTIVE"
  /\ completion[r] = NoEntry
  /\ replay' = [replay EXCEPT ![r].auth = account.generation]
  /\ completion' = [completion EXCEPT ![r] = [status |-> "PENDING", of |-> account.generation]]
  /\ UNCHANGED <<account, command, content, locator, aged, deleting, erasure, receipts, sweep, calm>>

\* Mutant: the result is stored whatever became of the request.
StoresAnyway(r) == replay[r].status \in {"PROCESSING", "COMPLETED_ERASED"}

\* The row is still the one this invocation holds the lease of.
Stores(r) == Processing(r)

Store(r) ==
  /\ Allowed
  /\ Stores(r)
  /\ replay[r].auth # None
  /\ replay' = [replay EXCEPT ![r].status = "RESULT_READY", ![r].response = TRUE]
  /\ UNCHANGED <<account, command, content, locator, completion, aged, deleting, erasure, receipts, sweep, calm>>

\* release_request, for a check that failed: it has no fence.
Release(r) ==
  /\ Processing(r)
  /\ replay' = [replay EXCEPT ![r] = IF @.auth = None THEN NoRow ELSE [@ EXCEPT !.status = "RETRYABLE"]]
  /\ UNCHANGED <<account, command, content, locator, completion, aged, deleting, erasure, receipts, sweep, calm>>

\* Mutant: the generation is that of the acceptance, whatever is current.
AcceptedOnce(r) == account.status = "ACTIVE"

\* active_generation.
StillCurrent(r) == account.status = "ACTIVE" /\ replay[r].auth = account.generation

\* commit_scan_and_request with append_history_completion: the transaction
\* conditions the STATE row that was read.
Commit(r) ==
  /\ Allowed
  /\ replay[r].status = "RESULT_READY"
  /\ account.status \in {"ACTIVE", "DELETING"}
  /\ completion[r].status = "PENDING"
  /\ locator[r] = NoEntry
  /\ IF StillCurrent(r)
     THEN /\ content[r] = None
          /\ content' = [content EXCEPT ![r] = replay[r].auth]
          /\ locator' = [locator EXCEPT ![r] = [status |-> "ACTIVE", of |-> replay[r].auth]]
          /\ replay' = [replay EXCEPT ![r].status = "COMPLETED"]
     ELSE /\ locator' = [locator EXCEPT ![r] = [status |-> "gone", of |-> replay[r].auth]]
          /\ replay' = [replay EXCEPT ![r].status = "COMPLETED", ![r].response = FALSE]
          /\ UNCHANGED content
  /\ completion' = [completion EXCEPT ![r].status = "COMPLETE"]
  /\ UNCHANGED <<account, command, aged, deleting, erasure, receipts, sweep, calm>>

\* DynamoDB deletes a replay row some time after its 900 seconds.
Expire(r) ==
  /\ replay[r].status \notin {"none", "COMPLETED_ERASED"}
  /\ replay' = [replay EXCEPT ![r] = NoRow]
  /\ UNCHANGED <<account, command, content, locator, completion, aged, deleting, erasure, receipts, sweep, calm>>

\* contentExpiresAt passes.
Age(r) ==
  /\ locator[r].status = "ACTIVE"
  /\ r \notin aged
  /\ aged' = aged \cup {r}
  /\ UNCHANGED <<account, command, replay, content, locator, completion, deleting, erasure, receipts, sweep, calm>>

-----------------------------------------------------------------------------
(* history_mutation_api *)

\* delete_one: the reads of the STATE and the locator.
BeginDeleteOne(r) ==
  /\ r \notin deleting
  /\ account.status = "ACTIVE"
  /\ locator[r] = [status |-> "ACTIVE", of |-> account.generation]
  /\ deleting' = deleting \cup {r}
  /\ UNCHANGED <<account, command, replay, content, locator, completion, aged, erasure, receipts, sweep, calm>>

\* The transaction.  The update of a replay row that is gone creates one, which
\* has no payloadHash.
CommitDeleteOne(r) ==
  /\ r \in deleting
  /\ deleting' = deleting \ {r}
  /\ \/ /\ Allowed
        /\ locator[r].status = "ACTIVE"
        /\ content' = [content EXCEPT ![r] = None]
        /\ locator' = [locator EXCEPT ![r].status = "gone"]
        /\ replay' = [replay EXCEPT ![r].status = "COMPLETED_ERASED", ![r].response = FALSE]
     \/ UNCHANGED <<content, locator, replay>>
  /\ UNCHANGED <<account, command, completion, aged, erasure, receipts, sweep, calm>>

\* clear_history.
Clear ==
  LET j == [reason |-> "CLEAR_HISTORY", of |-> account.generation] IN
  /\ Allowed
  /\ account.status = "ACTIVE"
  /\ account.generation < MaxGeneration
  /\ account' = [account EXCEPT !.generation = @ + 1]
  /\ erasure' = [erasure EXCEPT ![j] = NewJob(account.generation, account.generation)]
  /\ UNCHANGED <<command, requests, receipts, sweep, calm>>

\* delete_account_history.
DeleteHistory ==
  /\ Allowed
  /\ account.status = "ACTIVE"
  /\ account' = [account EXCEPT !.status = "HISTORY_DELETING"]
  /\ erasure' = [erasure EXCEPT ![Own] = NewJob(0, account.generation)]
  /\ mutation' = "PENDING"
  /\ UNCHANGED <<command, requests, receipt, sweep, calm>>

-----------------------------------------------------------------------------
(* history_account_deletion_bridge *)

\* Mutant: a History that is deleted, or being deleted, needs no job.
Needless == {"none", "DELETED", "HISTORY_DELETING", "HISTORY_DELETED"}

\* The states in which nothing is left to erase.
Nothing == {"none", "DELETED"}

StartDeletion ==
  /\ command = "REQUESTED"
  /\ account.status \notin Nothing \cup {"DELETING"}
  /\ account' = [account EXCEPT !.status = "DELETING"]
  /\ erasure' = [erasure EXCEPT ![Whole] = NewJob(0, account.generation)]
  /\ UNCHANGED <<command, requests, receipts, sweep, calm>>

\* _complete_without_history: the transaction conditions the state.
CompleteWithoutHistory ==
  /\ command = "REQUESTED"
  /\ account.status \in Nothing
  /\ ~receipt
  /\ receipt' = TRUE
  /\ UNCHANGED <<account, command, requests, erasure, mutation, sweep, calm>>

-----------------------------------------------------------------------------
(* The lifecycle sweep: an erasure job, first the History stage *)

At(step) == sweep.step = step
Go(step) == sweep' = [sweep EXCEPT !.step = step]

\* full_history_deletion.
Full(j) == j \in {Own, Whole}

\* A stale job of a completed account deletion is left alone.
Due(j, stage) ==
  /\ erasure[j].status = "PENDING"
  /\ erasure[j].stage = stage
  /\ j = Whole => command = "REQUESTED"

\* A page of the rows behind the cursor: DynamoDB ends it at the limit, or before.
Query(j, rows, step) ==
  \E next \in erasure[j].cursor .. LastRequest, more \in BOOLEAN :
    LET page == {r \in rows : erasure[j].cursor < r /\ r <= next} IN
    /\ Cardinality(page) <= PageSize
    /\ IF more THEN erasure[j].cursor < next ELSE next = LastRequest
    /\ sweep' = [Idle EXCEPT !.step = step, !.job = j, !.page = page, !.next = next, !.more = more]

\* _process_history_erasure_stage.
BeginHistory(j) ==
  /\ At("idle")
  /\ Due(j, "HISTORY")
  /\ Query(j, {r \in Requests : content[r] = erasure[j].generation}, "row")
  /\ UNCHANGED <<account, command, requests, erasure, receipts, calm>>

EraseContent ==
  /\ At("row")
  /\ sweep.page # {}
  /\ LET r == Min(sweep.page) IN
     content' = [content EXCEPT ![r] = IF @ = erasure[sweep.job].generation THEN None ELSE @]
  /\ Go("locator")
  /\ UNCHANGED <<account, command, replay, locator, completion, aged, deleting, erasure, receipts, calm>>

\* _mark_locator_erased.
MarkLocator ==
  LET r == Min(sweep.page) IN
  /\ At("locator")
  /\ locator' = IF locator[r] = [status |-> "ACTIVE", of |-> erasure[sweep.job].generation]
                THEN [locator EXCEPT ![r].status = "gone"] ELSE locator
  /\ sweep' = [sweep EXCEPT !.step = "row", !.page = @ \ {r}]
  /\ UNCHANGED <<account, command, replay, content, completion, aged, deleting, erasure, receipts, calm>>

\* REMOVE continuationSortKey.
FromTheStart(row) == 0

\* The generation is the last one the job erases.
Last(row) == row.generation = row.last

\* Behind a page: the next page, the next generation, or the other stage.
Onward(row) ==
  IF sweep.more THEN [row EXCEPT !.cursor = sweep.next]
  ELSE IF Last(row) THEN [row EXCEPT !.stage = "REPLAY", !.cursor = FromTheStart(row)]
  ELSE [row EXCEPT !.generation = @ + 1, !.cursor = FromTheStart(row)]

EndHistoryPage ==
  /\ At("row")
  /\ sweep.page = {}
  /\ erasure' = [erasure EXCEPT ![sweep.job] = Onward(@)]
  /\ sweep' = Idle
  /\ UNCHANGED <<account, command, requests, receipts, calm>>

-----------------------------------------------------------------------------
(* The replay stage *)

\* _process_replay_erasure_stage.
BeginReplay(j) ==
  /\ At("idle")
  /\ Due(j, "REPLAY")
  /\ Query(j, {r \in Requests : replay[r] # NoRow}, "replay")
  /\ UNCHANGED <<account, command, requests, erasure, receipts, calm>>

\* _redact_analysis_replay of a row that names its generation.
Redacted(row) == [row EXCEPT !.status = "COMPLETED_ERASED", !.response = FALSE]

\* For a full deletion the row is replaced; only its payloadHash stays.
Replaced == [NoRow EXCEPT !.status = "COMPLETED_ERASED", !.hash = TRUE]

\* The row holds an answer of the generation.
IsOld(r, g) == replay[r].auth = g /\ replay[r].response

EraseReplay ==
  LET r == Min(sweep.page) IN
  /\ At("replay")
  /\ sweep.page # {}
  /\ Full(sweep.job) => replay[r].hash
  /\ replay' = [replay EXCEPT ![r] =
       IF Full(sweep.job) THEN Replaced
       ELSE IF IsOld(r, erasure[sweep.job].generation) THEN Redacted(@)
       ELSE @]
  /\ sweep' = [sweep EXCEPT !.page = @ \ {r}]
  /\ UNCHANGED <<account, command, content, locator, completion, aged, deleting, erasure, receipts, calm>>

\* A row without a payloadHash, and a row that has gone since it was read, end
\* the sweep with an error.
Refuse ==
  /\ At("replay")
  /\ sweep.page # {}
  /\ Full(sweep.job)
  /\ ~replay[Min(sweep.page)].hash
  /\ sweep' = Idle
  /\ UNCHANGED <<account, command, requests, erasure, receipts, calm>>

EndReplayPage ==
  /\ At("replay")
  /\ sweep.page = {}
  /\ IF sweep.more
     THEN /\ erasure' = [erasure EXCEPT ![sweep.job].cursor = sweep.next]
          /\ sweep' = Idle
     ELSE /\ Go(IF Full(sweep.job) THEN "state" ELSE "complete")
          /\ UNCHANGED erasure
  /\ UNCHANGED <<account, command, requests, receipts, calm>>

-----------------------------------------------------------------------------
(* _complete_erasure *)

Before(j) == IF j = Own THEN "HISTORY_DELETING" ELSE "DELETING"
Final(j) == IF j = Own THEN "HISTORY_DELETED" ELSE "DELETED"

\* A History-only deletion accepts that the account's has begun meanwhile.
Accepted(j) == {Final(j)} \cup IF j = Own THEN {"DELETING", "DELETED"} ELSE {}

\* _finalize_account_state.
FinalizeState ==
  /\ At("state")
  /\ sweep.job = Whole => command = "REQUESTED"
  /\ \/ /\ account.status = Before(sweep.job)
        /\ account' = [account EXCEPT !.status = Final(sweep.job)]
        /\ Go("receipt")
     \/ /\ account.status # Before(sweep.job)
        /\ sweep' = IF account.status \in Accepted(sweep.job) THEN [sweep EXCEPT !.step = "receipt"] ELSE Idle
        /\ UNCHANGED account
  /\ UNCHANGED <<command, requests, erasure, receipts, calm>>

\* _complete_pending_mutation, _write_account_deletion_receipt: the latter
\* conditions the deleted state and the command.
WriteReceipt ==
  /\ At("receipt")
  /\ \/ /\ sweep.job = Own
        /\ mutation' = "COMPLETE"
        /\ UNCHANGED receipt
     \/ /\ sweep.job = Whole
        /\ command = "REQUESTED"
        /\ account.status = "DELETED"
        /\ receipt' = TRUE
        /\ UNCHANGED mutation
  /\ Go("complete")
  /\ UNCHANGED <<account, command, requests, erasure, calm>>

\* TERMINAL: the job stays as it is.
LeaveTerminal ==
  /\ sweep.step \in {"state", "receipt"}
  /\ sweep.job = Whole
  /\ command # "REQUESTED"
  /\ sweep' = Idle
  /\ UNCHANGED <<account, command, requests, erasure, receipts, calm>>

CompleteErasure ==
  /\ At("complete")
  /\ erasure' = [erasure EXCEPT ![sweep.job].status = "COMPLETE"]
  /\ sweep' = Idle
  /\ UNCHANGED <<account, command, requests, receipts, calm>>

-----------------------------------------------------------------------------
(* A check whose generation ended, and content that is old *)

\* _observe_completion; a check that is not stale is looked at again later.
Observe(r) ==
  /\ At("idle")
  /\ completion[r].status = "PENDING"
  /\ account.status # "ACTIVE" \/ account.generation # completion[r].of
  /\ sweep' = [Idle EXCEPT !.step = "redact", !.request = r]
  /\ UNCHANGED <<account, command, requests, erasure, receipts, calm>>

\* force_cancel: also a row without an answer, so that none comes any more.
RedactStale ==
  LET r == sweep.request IN
  /\ At("redact")
  /\ replay' = IF replay[r] # NoRow /\ replay[r].auth = completion[r].of
               THEN [replay EXCEPT ![r] = Redacted(@)] ELSE replay
  /\ Go("cancel")
  /\ UNCHANGED <<account, command, content, locator, completion, aged, deleting, erasure, receipts, calm>>

Cancel ==
  LET r == sweep.request IN
  /\ At("cancel")
  /\ completion' = IF completion[r].status = "PENDING"
                   THEN [completion EXCEPT ![r].status = "CANCELLED_ERASED"] ELSE completion
  /\ sweep' = Idle
  /\ UNCHANGED <<account, command, replay, content, locator, aged, deleting, erasure, receipts, calm>>

\* An expired content row, found by its bucket, or an active locator that is due.
Retire(r) ==
  /\ At("idle")
  /\ r \in aged
  /\ content[r] # None \/ locator[r].status = "ACTIVE"
  /\ sweep' = [Idle EXCEPT !.step = "content", !.request = r]
  /\ UNCHANGED <<account, command, requests, erasure, receipts, calm>>

RetireContent ==
  /\ At("content")
  /\ content' = [content EXCEPT ![sweep.request] = None]
  /\ Go("answer")
  /\ UNCHANGED <<account, command, replay, locator, completion, aged, deleting, erasure, receipts, calm>>

\* _expire_locator_and_replay.
RetireAnswer ==
  LET r == sweep.request IN
  /\ At("answer")
  /\ replay' = IF replay[r].response THEN [replay EXCEPT ![r] = Redacted(@)] ELSE replay
  /\ Go("expire")
  /\ UNCHANGED <<account, command, content, locator, completion, aged, deleting, erasure, receipts, calm>>

RetireLocator ==
  LET r == sweep.request IN
  /\ At("expire")
  /\ locator' = IF locator[r].status = "ACTIVE" THEN [locator EXCEPT ![r].status = "gone"] ELSE locator
  /\ sweep' = Idle
  /\ UNCHANGED <<account, command, replay, content, completion, aged, deleting, erasure, receipts, calm>>

\* A time limit, or an error of any call.
Crash ==
  /\ ~At("idle")
  /\ ~calm
  /\ sweep' = Idle
  /\ UNCHANGED <<account, command, requests, erasure, receipts, calm>>

Calm ==
  /\ ~calm
  /\ calm' = TRUE
  /\ UNCHANGED <<account, command, requests, erasure, receipts, sweep>>

-----------------------------------------------------------------------------
(* The specification *)

Check(r) ==
  Lock(r) \/ TakeOver(r) \/ Reserve(r) \/ Store(r) \/ Release(r) \/ Commit(r) \/ Expire(r) \/ Age(r)

Mutate(r) == BeginDeleteOne(r) \/ CommitDeleteOne(r)

Erase ==
  \/ \E j \in Erasures : BeginHistory(j) \/ BeginReplay(j)
  \/ EraseContent \/ MarkLocator \/ EndHistoryPage
  \/ EraseReplay \/ Refuse \/ EndReplayPage
  \/ FinalizeState \/ WriteReceipt \/ LeaveTerminal \/ CompleteErasure

Purge ==
  \/ \E r \in Requests : Observe(r) \/ Retire(r)
  \/ RedactStale \/ Cancel
  \/ RetireContent \/ RetireAnswer \/ RetireLocator

Next ==
  \/ Bootstrap \/ RequestDeletion \/ CompleteDeletion
  \/ \E r \in Requests : Check(r) \/ Mutate(r)
  \/ Clear \/ DeleteHistory
  \/ StartDeletion \/ CompleteWithoutHistory
  \/ Erase \/ Purge \/ Crash \/ Calm

Spec == Init /\ [][Next]_vars

\* What the sweep does once it has begun with something.
Work ==
  \/ EraseContent \/ MarkLocator \/ EndHistoryPage
  \/ EraseReplay \/ Refuse \/ EndReplayPage
  \/ FinalizeState \/ WriteReceipt \/ LeaveTerminal \/ CompleteErasure
  \/ RedactStale \/ Cancel
  \/ RetireContent \/ RetireAnswer \/ RetireLocator

\* The sweep is scheduled every five minutes, goes on while it lives, does not
\* die for ever, and comes to what is due, in any order; so does the bridge, by the
\* ledger's stream and by its own schedule.  Clients repeat a request finitely often.
Fairness ==
  /\ WF_vars(Calm)
  /\ WF_vars(Work)
  /\ SF_vars(\E j \in Erasures : BeginHistory(j) \/ BeginReplay(j))
  /\ SF_vars(\E r \in Requests : Observe(r) \/ Retire(r))
  /\ WF_vars(StartDeletion)
  /\ WF_vars(CompleteWithoutHistory)

FairSpec == Spec /\ Fairness

-----------------------------------------------------------------------------
(* Properties *)

Rows == [status : {"none", "PROCESSING", "RETRYABLE", "RESULT_READY", "COMPLETED", "COMPLETED_ERASED"},
         auth : Generations \cup {None}, response : BOOLEAN, hash : BOOLEAN]
Locators == [status : {"none", "ACTIVE", "gone"}, of : Generations \cup {None}]
Completions == [status : {"none", "PENDING", "COMPLETE", "CANCELLED_ERASED"}, of : Generations \cup {None}]
Jobs == [status : {"none", "PENDING", "COMPLETE"}, stage : {"HISTORY", "REPLAY"},
         generation : Generations, last : Generations, cursor : 0 .. LastRequest]
Sweeps == [step : {"idle", "row", "locator", "replay", "state", "receipt", "complete",
                   "redact", "cancel", "content", "answer", "expire"},
           job : Erasures, request : Requests, page : SUBSET Requests,
           next : 0 .. LastRequest, more : BOOLEAN]
Statuses == {"none", "ACTIVE", "HISTORY_DELETING", "HISTORY_DELETED", "DELETING", "DELETED"}

\* Every row holds values the code writes.
TypeOK ==
  /\ account \in [status : Statuses, generation : Generations]
  /\ command \in {"none", "REQUESTED", "COMPLETE"}
  /\ replay \in [Requests -> Rows]
  /\ content \in [Requests -> Generations \cup {None}]
  /\ locator \in [Requests -> Locators]
  /\ completion \in [Requests -> Completions]
  /\ aged \subseteq Requests
  /\ deleting \subseteq Requests
  /\ erasure \in [Erasures -> Jobs]
  /\ mutation \in {"none", "PENDING", "COMPLETE"}
  /\ receipt \in BOOLEAN
  /\ sweep \in Sweeps
  /\ calm \in BOOLEAN

\* A job that will still come to the content of generation g of request r.
Reaches(j, g, r) ==
  LET e == erasure[j] IN
  /\ e.status = "PENDING"
  /\ e.stage = "HISTORY"
  /\ g \in e.generation .. e.last
  /\ g = e.generation => e.cursor < r

\* A job that will still come to the replay row of request r.
WillRedact(j, r) ==
  LET e == erasure[j] IN
  /\ e.status = "PENDING"
  /\ Full(j) \/ replay[r].auth = j.of
  /\ e.stage = "REPLAY" => e.cursor < r

\* Content that its account no longer shows is waited for: some job has it ahead,
\* whatever generations, deletions and pages came between, and no check that was
\* accepted before a clear writes behind the job that erases its generation.
NothingLeftBehind ==
  \A r \in Requests :
    content[r] # None /\ (account.status # "ACTIVE" \/ content[r] # account.generation) =>
      \E j \in Erasures : Reaches(j, content[r], r)

\* The lifecycle sweep comes to everything that its account no longer shows, and the
\* rows it works on are of their types (history_lifecycle/service.py).
ErasureReaches == TypeOK /\ NothingLeftBehind

\* No answer outlives its check by being forgotten: a replay row keeps an answer
\* only while the check is still to be committed or observed, while its content
\* or its locator leads a purge to it, or while an erasure job will come to it.
AnswersAreAccountedFor ==
  \A r \in Requests :
    replay[r].response =>
      \/ completion[r].status = "PENDING"
      \/ content[r] # None
      \/ locator[r].status = "ACTIVE"
      \/ \E j \in Erasures : WillRedact(j, r)

\* A receipt, of the deletion of the account or of its History, means that
\* neither content nor answers are left, and that none comes back.
ReceiptMeansErased ==
  receipt \/ mutation = "COMPLETE" =>
    \A r \in Requests : content[r] = None /\ ~replay[r].response

\* A requested deletion of the account leaves its receipt, and a History-only
\* deletion its own, within the retention of the replay rows.
DeletionLeavesReceipt ==
  /\ command = "REQUESTED" ~> receipt
  /\ mutation = "PENDING" ~> mutation = "COMPLETE"

Hashless == \E r \in Requests : replay[r] # NoRow /\ ~replay[r].hash

\* No deletion is under way, but for those that meet a replay row which the
\* deletion of one item has left without a payloadHash, and what is old is
\* purged. It is so again and again.
Settled ==
  /\ command = "REQUESTED" => receipt \/ Hashless
  /\ mutation = "PENDING" => Hashless
  /\ \A r \in aged : content[r] = None /\ ~replay[r].response
=============================================================================
