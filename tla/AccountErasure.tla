---------------------------- MODULE AccountErasure ----------------------------
(***************************************************************************)
(* account_data_api and shared_account_finalization: the deletion of one   *)
(* account, from the client's request to the deletion of the identity.     *)
(*                                                                         *)
(* The stream of the ledger, the schedule and the HTTP request drive the   *)
(* same components at the same time.  A component erases one page of its   *)
(* partition per invocation, row by row, and keeps its place in a progress *)
(* row that nothing conditions; behind the last page it leaves a receipt.  *)
(* The profile waits for the receipts of all the other components, and the *)
(* identity for that of the profile.                                       *)
(*                                                                         *)
(* Every writer of the erased rows conditions the absence of the account's *)
(* deletion row; a writer's read and its transaction are one step here.    *)
(***************************************************************************)
EXTENDS Naturals, FiniteSets, FiniteSetsExt

CONSTANTS
  Records,     \* components that delete or minimise the rows of a partition
  Outbox,      \* CAMPAIGN_OUTBOX: locators, and the events they lead to
  Profile,     \* USER_PROFILE
  External,    \* components with workers elsewhere
  Finalizer,   \* what an invocation does after its components
  First,       \* an invocation's first component
  After,       \* the order of an invocation's components
  MaxRow,      \* rows of a partition
  PageSize,    \* rows of a page
  Operations,  \* operationIds of deletion requests
  None,        \* no command
  Workers      \* invocations

Paged == Records \cup {Outbox, Profile}
Rows == 1 .. MaxRow

ASSUME ErasureAssumption ==
  /\ MaxRow \in Nat \ {0}
  /\ PageSize \in Nat \ {0}
  /\ Outbox \notin Records \cup {Profile} /\ Profile \notin Records
  /\ External \cap Paged = {} /\ Finalizer \notin Paged
  /\ First \in Paged
  /\ After \in [Paged -> Paged \cup {Finalizer}]
  /\ None \notin Operations

VARIABLES
  inventory,  \* the approved inventory is the one the deployment pins
  command,    \* operationId of the ACCOUNT_DELETION row, or None
  complete,   \* the row's status is COMPLETE
  row,        \* rows of each partition
  event,      \* OBSERVATION_READY rows, by their locator
  progress,   \* cursor of each progress row; 0: no such row
  receipt,    \* components with a receipt
  identity,   \* the Cognito user exists
  job,        \* local state of each invocation
  told,       \* history: requests that were answered as accepted
  calm        \* from now on invocations do not die and the inventory stays

stores == <<row, event>>
ledger == <<inventory, command, complete, progress, receipt>>
vars == <<ledger, stores, identity, job, told, calm>>

-----------------------------------------------------------------------------
(* Rows and jobs *)

\* A row is content to erase, or what is left of it once it is minimised: an
\* erased replay record, a locator without its event, a consent audit.
Contents == {"absent", "minimal", "content"}

Pending == command # None /\ ~complete

Idle == [phase |-> "idle", at |-> First, cursor |-> 0, page |-> {}, next |-> 0, more |-> FALSE]

Jobs == [phase : {"idle", "look", "query", "erase", "clean", "prove", "delete", "complete"},
         at : Paged, cursor : 0 .. MaxRow, page : SUBSET Rows, next : 0 .. MaxRow,
         more : BOOLEAN]

\* The account has its PROFILE row, and other rows as they were written.
Untouched ==
  /\ inventory = TRUE
  /\ command = None
  /\ complete = FALSE
  /\ row = [c \in Paged |-> [i \in Rows |-> IF c = Profile /\ i = 1 THEN "content" ELSE "absent"]]
  /\ event = {}
  /\ progress = [c \in Paged |-> 0]
  /\ receipt = {}
  /\ identity = TRUE
  /\ job = [w \in Workers |-> Idle]
  /\ told = {}

Init == Untouched /\ calm = FALSE

Present(c) == {i \in Rows : row[c][i] # "absent"}

-----------------------------------------------------------------------------
(* The account's writers and its request *)

\* The absence of the deletion row is a condition of every writer's transaction.
Fenced == command = None

\* A profile's audits are written as they are to stay.
Write(c, i) ==
  /\ Fenced
  /\ row[c][i] = "absent"
  /\ \E s \in IF c = Profile THEN {"content", "minimal"} ELSE {"content"} :
       row' = [row EXCEPT ![c][i] = s]
  /\ event' = IF c = Outbox THEN event \cup {i} ELSE event
  /\ UNCHANGED <<ledger, identity, job, told, calm>>

\* The client is answered, or the reply is lost.
Request(o) ==
  /\ inventory
  /\ command = None
  /\ row[Profile][1] = "content"
  /\ command' = o
  /\ told' \in {told, told \cup {o}}
  /\ UNCHANGED <<inventory, complete, progress, receipt, stores, identity, job, calm>>

\* Mutant: any request for an account that is being deleted is a replay.
ReplaysAny(o) == Pending

\* _replay: the command is bound to the operationId of the request.
Replays(o) == Pending /\ command = o

Replay(o) ==
  /\ Replays(o)
  /\ told' = told \cup {o}
  /\ UNCHANGED <<ledger, stores, identity, job, calm>>

-----------------------------------------------------------------------------
(* One component of an invocation *)

Step(w, j) == job' = [job EXCEPT ![w] = j]

\* On to the next component.
Continue(w) ==
  LET next == After[job[w].at] IN
  Step(w, IF next = Finalizer THEN [Idle EXCEPT !.phase = "prove"]
          ELSE [Idle EXCEPT !.phase = "look", !.at = next])

\* Lifecycle.verify.
Begin(w) ==
  /\ job[w].phase = "idle"
  /\ Pending
  /\ inventory
  /\ Step(w, [Idle EXCEPT !.phase = "look"])
  /\ UNCHANGED <<ledger, stores, identity, told, calm>>

\* A component with a receipt only drops the progress row that may be left.
AlreadyComplete(w) ==
  LET c == job[w].at IN
  /\ job[w].phase = "look"
  /\ c \in receipt
  /\ progress' = [progress EXCEPT ![c] = 0]
  /\ Continue(w)
  /\ UNCHANGED <<inventory, command, complete, receipt, stores, identity, told, calm>>

\* Mutant: the profile waits for nobody.
NoPrerequisites(c) == TRUE

\* USER_PROFILE_PREREQUISITES.
Prerequisites(c) == c = Profile => (Records \cup {Outbox} \cup External) \subseteq receipt

Look(w) ==
  LET c == job[w].at IN
  /\ job[w].phase = "look"
  /\ c \notin receipt
  /\ IF Prerequisites(c)
     THEN Step(w, [job[w] EXCEPT !.phase = "query", !.cursor = progress[c]])
     ELSE Continue(w)
  /\ UNCHANGED <<ledger, stores, identity, told, calm>>

\* Mutant: the query starts from the first row.
FromTheFirst(j) == 0

\* ExclusiveStartKey.
StartAfter(j) == j.cursor

\* A page ends with one of its rows, with the component, or, in ANALYSIS_ABUSE,
\* with one of its partitions.
Query(w) ==
  LET j == job[w] IN
  /\ j.phase = "query"
  /\ \E next \in StartAfter(j) .. MaxRow, more \in BOOLEAN :
       LET page == {i \in Present(j.at) : StartAfter(j) < i /\ i <= next} IN
       /\ Cardinality(page) <= PageSize
       /\ IF more THEN StartAfter(j) < next ELSE next = MaxRow
       /\ Step(w, [j EXCEPT !.phase = "erase", !.page = page, !.next = next, !.more = more])
  /\ UNCHANGED <<ledger, stores, identity, told, calm>>

Erasing(w, c) ==
  /\ job[w].phase = "erase"
  /\ job[w].at = c
  /\ job[w].page # {}

Erased(w) == Step(w, [job[w] EXCEPT !.page = @ \ {Min(@)}])

\* Mutant: the minimal row is put without a condition.
PutMinimal(c, i) == TRUE

\* The row that is replaced by its minimal form must still be there.
MayMinimise(c, i) == row[c][i] # "absent"

\* A row that is expired, or of a kind that is not kept, is deleted.
EraseRecord(w, c) ==
  /\ Erasing(w, c)
  /\ LET i == Min(job[w].page) IN
     \/ row' = [row EXCEPT ![c][i] = "absent"]
     \/ MayMinimise(c, i) /\ row' = [row EXCEPT ![c][i] = "minimal"]
  /\ Erased(w)
  /\ UNCHANGED <<ledger, event, identity, told, calm>>

\* The event is gone before its locator is deleted.
EventGone(i) == i \notin event

EraseEvent(w) ==
  /\ Erasing(w, Outbox)
  /\ LET i == Min(job[w].page) IN
     /\ i \in event
     /\ event' = event \ {i}
  /\ UNCHANGED <<ledger, row, identity, job, told, calm>>

EraseLocator(w) ==
  /\ Erasing(w, Outbox)
  /\ LET i == Min(job[w].page) IN
     /\ EventGone(i)
     /\ row[Outbox][i] # "absent"
     /\ row' = [row EXCEPT ![Outbox][i] = "absent"]
  /\ Erased(w)
  /\ UNCHANGED <<ledger, event, identity, told, calm>>

\* paired_delete: both rows in one transaction.
ErasePair(w) ==
  /\ Erasing(w, Outbox)
  /\ LET i == Min(job[w].page) IN
     /\ row[Outbox][i] # "absent"
     /\ row' = [row EXCEPT ![Outbox][i] = "absent"]
     /\ event' = event \ {i}
  /\ Erased(w)
  /\ UNCHANGED <<ledger, identity, told, calm>>

\* Consent audits stay as they are.
EraseProfile(w) ==
  /\ Erasing(w, Profile)
  /\ LET i == Min(job[w].page) IN
     row' = [row EXCEPT ![Profile][i] = IF @ = "minimal" THEN "minimal" ELSE "absent"]
  /\ Erased(w)
  /\ UNCHANGED <<ledger, event, identity, told, calm>>

\* Mutant: the progress is saved before the page is erased.
PageRead(j) == j.phase = "erase"

PageErased(j) == j.phase = "erase" /\ j.page = {}

PutProgress(w) ==
  LET j == job[w] IN
  /\ PageErased(j)
  /\ j.more
  /\ progress' = [progress EXCEPT ![j.at] = j.next]
  /\ Continue(w)
  /\ UNCHANGED <<inventory, command, complete, receipt, stores, identity, told, calm>>

\* The receipt is put, or found; the progress row is removed by an invocation
\* that read one.
PutReceipt(w) ==
  LET j == job[w] IN
  /\ PageErased(j)
  /\ ~j.more
  /\ receipt' = receipt \cup {j.at}
  /\ IF j.cursor = 0 THEN Continue(w) ELSE Step(w, [j EXCEPT !.phase = "clean"])
  /\ UNCHANGED <<inventory, command, complete, progress, stores, identity, told, calm>>

RemoveProgress(w) ==
  /\ job[w].phase = "clean"
  /\ progress' = [progress EXCEPT ![job[w].at] = 0]
  /\ Continue(w)
  /\ UNCHANGED <<inventory, command, complete, receipt, stores, identity, told, calm>>

-----------------------------------------------------------------------------
(* Finalizer.finalize *)

\* Every component but IDENTITY has left its receipt.
Proven == (Paged \cup External) \subseteq receipt

\* The transaction that checks the whole proof.
Prove(w) ==
  /\ job[w].phase = "prove"
  /\ Pending /\ inventory /\ Proven
  /\ Step(w, [job[w] EXCEPT !.phase = "delete"])
  /\ UNCHANGED <<ledger, stores, identity, told, calm>>

DeleteIdentity(w) ==
  /\ job[w].phase = "delete"
  /\ identity' = FALSE
  /\ Step(w, [job[w] EXCEPT !.phase = "complete"])
  /\ UNCHANGED <<ledger, stores, told, calm>>

\* The transaction that completes the command under the same proof.
Complete(w) ==
  /\ job[w].phase = "complete"
  /\ Pending /\ inventory /\ Proven
  /\ complete' = TRUE
  /\ Step(w, Idle)
  /\ UNCHANGED <<inventory, command, progress, receipt, stores, identity, told, calm>>

\* A condition fails, at the finalizer's transactions or at a row that another
\* invocation erased.
Refused(w) ==
  LET j == job[w] IN
  /\ \/ j.phase \in {"prove", "complete"} /\ ~(Pending /\ inventory /\ Proven)
     \/ j.phase = "erase" /\ j.page # {} /\ row[j.at][Min(j.page)] = "absent"
  /\ Step(w, Idle)
  /\ UNCHANGED <<ledger, stores, identity, told, calm>>

\* The invocation dies, or ends without finalizing as the HTTP request does.
Crash(w) ==
  /\ ~calm
  /\ job[w].phase # "idle"
  /\ Step(w, Idle)
  /\ UNCHANGED <<ledger, stores, identity, told, calm>>

-----------------------------------------------------------------------------
(* Around the invocations *)

ExternalReceipt(c) ==
  /\ Pending
  /\ receipt' = receipt \cup {c}
  /\ UNCHANGED <<inventory, command, complete, progress, stores, identity, job, told, calm>>

\* Time to live of minimal rows.
Expire(c, i) ==
  /\ c # Outbox
  /\ row[c][i] = "minimal"
  /\ row' = [row EXCEPT ![c][i] = "absent"]
  /\ UNCHANGED <<ledger, event, identity, job, told, calm>>

\* A new inventory does not cover the commands before it.
Revise ==
  /\ ~calm
  /\ inventory
  /\ inventory' = FALSE
  /\ UNCHANGED <<command, complete, progress, receipt, stores, identity, job, told, calm>>

Calm ==
  /\ ~calm
  /\ calm' = TRUE
  /\ UNCHANGED <<ledger, stores, identity, job, told>>

Erase(w) ==
  \/ \E c \in Records : EraseRecord(w, c)
  \/ EraseEvent(w) \/ EraseLocator(w) \/ ErasePair(w)
  \/ EraseProfile(w)

Invocation(w) ==
  \/ AlreadyComplete(w) \/ Look(w) \/ Query(w)
  \/ Erase(w)
  \/ PutProgress(w) \/ PutReceipt(w) \/ RemoveProgress(w)
  \/ Prove(w) \/ DeleteIdentity(w) \/ Complete(w)
  \/ Refused(w)

Next ==
  \/ \E w \in Workers : Begin(w) \/ Invocation(w) \/ Crash(w)
  \/ \E c \in Paged, i \in Rows : Write(c, i) \/ Expire(c, i)
  \/ \E o \in Operations : Request(o) \/ Replay(o)
  \/ \E c \in External : ExternalReceipt(c)
  \/ Revise
  \/ Calm

Spec == Init /\ [][Next]_vars

\* The schedule starts invocations, those that do not die end, and the workers
\* elsewhere leave their receipts.
Fairness ==
  /\ \A w \in Workers : WF_vars(Begin(w)) /\ WF_vars(Invocation(w))
  /\ \A c \in External : WF_vars(c \notin receipt /\ ExternalReceipt(c))
  /\ WF_vars(Calm)

FairSpec == Spec /\ Fairness

-----------------------------------------------------------------------------
(* Properties *)

\* Every row and job holds values the code writes.
TypeOK ==
  /\ inventory \in BOOLEAN /\ complete \in BOOLEAN /\ identity \in BOOLEAN /\ calm \in BOOLEAN
  /\ command \in Operations \cup {None}
  /\ row \in [Paged -> [Rows -> Contents]]
  /\ event \subseteq Rows
  /\ progress \in [Paged -> 0 .. MaxRow]
  /\ receipt \subseteq Paged \cup External
  /\ job \in [Workers -> Jobs]
  /\ told \subseteq Operations

\* The receipt of a component means that its content is gone, whatever pages and
\* cursors other invocations had read: unconditioned progress rows never make an
\* invocation step over a row, and no writer comes back.
ReceiptMeansErased ==
  \A c \in receipt \cap Paged :
    /\ \A i \in Rows : row[c][i] # "content"
    /\ c = Outbox => event = {}

\* Once the deletion is requested, a row that is gone stays gone: an invocation
\* that read it before another deleted it does not put its minimal form.
GoneStaysGone ==
  [][command # None =>
       \A c \in Paged, i \in Rows : row[c][i] = "absent" => row'[c][i] = "absent"]_vars

\* An event of the outbox always has its locator, the only way to find it, also
\* when an invocation dies between the two deletes.
EventsAreLocated ==
  \A i \in event : row[Outbox][i] # "absent"

\* The profile's rows outlive the content of every other component, since the
\* receipts of all of them come first.
ProfileGoesLast ==
  command # None /\ row[Profile][1] = "absent" =>
    (Records \cup {Outbox} \cup External) \subseteq receipt

\* The identity is deleted behind everything else, and before the client may be
\* told that the account is gone.
IdentityGoesLast ==
  /\ ~identity => \A c \in Paged : \A i \in Rows : row[c][i] # "content"
  /\ complete => ~identity

\* The last two rows of an account go in their order.
ErasedInOrder == ProfileGoesLast /\ IdentityGoesLast

\* A receipt speaks for every row there was, and each could be found.
NothingOverlooked == ReceiptMeansErased /\ EventsAreLocated

\* A client whose request was accepted has its own operationId in the command.
AcceptedIsCommand == told \subseteq {command}

\* No deletion is under way, once invocations have stopped dying and the inventory
\* stays, and is the one the deployment pins. It is so again and again.
Settled == calm /\ inventory => ~Pending
=============================================================================
