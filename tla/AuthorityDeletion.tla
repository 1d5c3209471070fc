-------------------------- MODULE AuthorityDeletion --------------------------
(***************************************************************************)
(* shared_check_authority/deletion.py: the V1_AUTHORITY component of an    *)
(* account deletion, run by the ledger's stream and by the scheduled       *)
(* reconciliation at the same time, against the writers of the partitions  *)
(* it erases.                                                              *)
(*                                                                         *)
(* The account has one partition per issued HMAC key; partition k is the   *)
(* k-th issued.  delete_batch fences every ACCESS row, deletes the rows of *)
(* each partition page by page in the order of their sort keys, ACCESS     *)
(* last, reads that every partition is empty, and writes its receipt.  It  *)
(* may stop, be refused or die between any two of these steps, and the     *)
(* next invocation starts over.  A lost reply is a commit and then a       *)
(* crash.  The writers are one step each: their transactions condition     *)
(* every row they read.                                                    *)
(***************************************************************************)
EXTENDS Integers, FiniteSets

CONSTANTS
  Workers,      \* invocations of the deletion worker
  MaxKeys,      \* HMAC keys that can ever be issued (four in the code)
  InitialKeys,  \* keys issued before the model starts
  Checks,       \* receipts a partition can hold
  PageSize,     \* page_size
  MaxPages      \* max_pages

ASSUME BoundsAssumption ==
  /\ {MaxKeys, PageSize, MaxPages} \subseteq Nat \ {0}
  /\ InitialKeys \in 1 .. MaxKeys
  /\ Checks \in Nat

VARIABLES
  ledger,     \* ACCOUNT_DELETION row of the account
  receipt,    \* the component's completion receipt exists
  progress,   \* inventory revision pinned by the progress row, or NoProgress
  inventory,  \* revision of the key inventory: keys 1 .. inventory are issued
  access,     \* ACCESS row of each partition
  rows,       \* other rows of each partition, by the order of their sort keys
  pending,    \* CHECK rows in state ADMITTED, all of them paid
  reserved,   \* reservedChecks of the PERIOD row
  usage,      \* reservedChecks of the purchase-usage row, or NoUsage
  lapsed,     \* partitions whose usage_deadline has passed
  faulty,     \* invocations can still die
  job         \* local state of each worker

stored == <<access, rows, pending, reserved, usage>>
vars == <<ledger, receipt, progress, inventory, stored, lapsed, faulty, job>>

-----------------------------------------------------------------------------
(* Rows *)

Partitions == 1 .. MaxKeys
Issued == 1 .. inventory
NoProgress == 0
NoUsage == -1

\* ATTEMPT#, then CHECK#..., then PERIOD#.
Attempt == 0
Receipts == 1 .. Checks
Period == Checks + 1
Families == {Attempt, Period} \cup Receipts

AccessStates == {"absent", "live", "DELETING"}
Phases == {"idle", "read", "fence", "page", "commit", "access", "verify", "finish"}

Idle == [phase |-> "idle", inventory |-> 0, fresh |-> FALSE, seen |-> {},
         partition |-> 1, pages |-> 0, present |-> FALSE, targets |-> {},
         released |-> {}, reserved |-> 0, usage |-> NoUsage]

Jobs == [phase : Phases, inventory : 0 .. MaxKeys, fresh : BOOLEAN,
         seen : SUBSET Partitions, partition : 1 .. MaxKeys + 1, pages : Nat,
         present : BOOLEAN, targets : SUBSET Families,
         released : SUBSET Receipts, reserved : Int, usage : Int]

Init ==
  /\ ledger = "none"
  /\ receipt = FALSE
  /\ progress = NoProgress
  /\ inventory = InitialKeys
  /\ access = [p \in Partitions |-> "absent"]
  /\ rows = [p \in Partitions |-> {}]
  /\ pending = [p \in Partitions |-> {}]
  /\ reserved = [p \in Partitions |-> 0]
  /\ usage = [p \in Partitions |-> NoUsage]
  /\ lapsed = {}
  /\ faulty = TRUE
  /\ job = [w \in Workers |-> Idle]

-----------------------------------------------------------------------------
(* Writers of the partitions *)

\* _account_conditions, in the transaction of every client and worker mutation.
AccountOpen == ledger = "none"

\* Mutant: the attempt counter is not fenced by the deletion row.
CountAttemptUnfenced(p) ==
  /\ rows' = [rows EXCEPT ![p] = @ \cup {Attempt}]
  /\ UNCHANGED <<ledger, receipt, progress, inventory, access, pending, reserved,
                 usage, lapsed, faulty, job>>

CountAttempt(p) ==
  /\ AccountOpen
  /\ rows' = [rows EXCEPT ![p] = @ \cup {Attempt}]
  /\ UNCHANGED <<ledger, receipt, progress, inventory, access, pending, reserved,
                 usage, lapsed, faulty, job>>

\* _commit of a source that funds no period.
Grant(p) ==
  /\ AccountOpen
  /\ \A other \in Issued : access[other] = "absent"
  /\ access' = [access EXCEPT ![p] = "live"]
  /\ UNCHANGED <<ledger, receipt, progress, inventory, rows, pending, reserved,
                 usage, lapsed, faulty, job>>

\* _commit_paid: ACCESS, the PERIOD row and the purchase's usage row.
Fund(p) ==
  /\ AccountOpen
  /\ \A other \in Issued \ {p} : access[other] = "absent"
  /\ Period \notin rows[p]
  /\ usage[p] = NoUsage
  /\ p \notin lapsed
  /\ access' = [access EXCEPT ![p] = "live"]
  /\ rows' = [rows EXCEPT ![p] = @ \cup {Period}]
  /\ reserved' = [reserved EXCEPT ![p] = 0]
  /\ usage' = [usage EXCEPT ![p] = 0]
  /\ UNCHANGED <<ledger, receipt, progress, inventory, pending, lapsed, faulty, job>>

\* global_for_period: the two reservation counters agree.
Paired(p) == usage[p] = reserved[p]

Admit(p, c) ==
  /\ AccountOpen
  /\ access[p] = "live"
  /\ Period \in rows[p]
  /\ c \notin rows[p]
  /\ p \notin lapsed
  /\ Paired(p)
  /\ rows' = [rows EXCEPT ![p] = @ \cup {c}]
  /\ pending' = [pending EXCEPT ![p] = @ \cup {c}]
  /\ reserved' = [reserved EXCEPT ![p] = @ + 1]
  /\ usage' = [usage EXCEPT ![p] = @ + 1]
  /\ UNCHANGED <<ledger, receipt, progress, inventory, access, lapsed, faulty, job>>

Settle(p, c) ==
  /\ AccountOpen
  /\ c \in pending[p]
  /\ Period \in rows[p]
  /\ p \notin lapsed
  /\ Paired(p)
  /\ pending' = [pending EXCEPT ![p] = @ \ {c}]
  /\ reserved' = [reserved EXCEPT ![p] = @ - 1]
  /\ usage' = [usage EXCEPT ![p] = @ - 1]
  /\ UNCHANGED <<ledger, receipt, progress, inventory, access, rows, lapsed, faulty, job>>

\* Recovery.expire knows no account: it is fenced by ACCESS alone, and past the
\* usage deadline it releases the local period only.
RecoverLease(p, c) ==
  /\ access[p] = "live"
  /\ c \in pending[p]
  /\ Period \in rows[p]
  /\ p \in lapsed \/ Paired(p)
  /\ reserved[p] > 0
  /\ pending' = [pending EXCEPT ![p] = @ \ {c}]
  /\ reserved' = [reserved EXCEPT ![p] = @ - 1]
  /\ usage' = IF p \in lapsed THEN usage ELSE [usage EXCEPT ![p] = @ - 1]
  /\ UNCHANGED <<ledger, receipt, progress, inventory, access, rows, lapsed, faulty, job>>

\* Expiry.expire of a settled receipt, and of an attempt counter, which needs no
\* ACCESS row.
ExpireReceipt(p, c) ==
  /\ access[p] = "live"
  /\ c \in rows[p] \ pending[p]
  /\ rows' = [rows EXCEPT ![p] = @ \ {c}]
  /\ UNCHANGED <<ledger, receipt, progress, inventory, access, pending, reserved,
                 usage, lapsed, faulty, job>>

ExpireAttempt(p) ==
  /\ access[p] # "DELETING"
  /\ Attempt \in rows[p]
  /\ rows' = [rows EXCEPT ![p] = @ \ {Attempt}]
  /\ UNCHANGED <<ledger, receipt, progress, inventory, access, pending, reserved,
                 usage, lapsed, faulty, job>>

\* The usage deadline passes, and then _expire_purchase_usage deletes the row.
Lapse(p) ==
  /\ lapsed' = lapsed \cup {p}
  /\ UNCHANGED <<ledger, receipt, progress, inventory, stored, faulty, job>>

ExpireUsage(p) ==
  /\ p \in lapsed
  /\ usage' = [usage EXCEPT ![p] = NoUsage]
  /\ UNCHANGED <<ledger, receipt, progress, inventory, access, rows, pending,
                 reserved, lapsed, faulty, job>>

Writer(p) ==
  \/ CountAttempt(p)
  \/ Grant(p)
  \/ Fund(p)
  \/ \E c \in Receipts :
       Admit(p, c) \/ Settle(p, c) \/ RecoverLease(p, c) \/ ExpireReceipt(p, c)
  \/ ExpireAttempt(p)
  \/ Lapse(p)
  \/ ExpireUsage(p)

-----------------------------------------------------------------------------
(* delete_batch *)

Set(w, j) == job' = [job EXCEPT ![w] = j]
Stop(w) == Set(w, Idle)

\* _guards: the deletion command and the key inventory are those j read.
Guarded(j) ==
  /\ ledger = "requested"
  /\ inventory = j.inventory

\* _access_guard: the ACCESS row is the fence, or is as absent as it was read.
AccessGuarded(j) ==
  access[j.partition] = IF j.present THEN "DELETING" ELSE "absent"

\* An invocation that reads the receipt, or the terminal fence the finalizer left
\* in the command's place, has nothing to do; one that reads a progress row of
\* another inventory gives up.
Start(w) ==
  /\ job[w].phase = "idle"
  /\ ledger = "requested"
  /\ ~receipt
  /\ progress \in {NoProgress, inventory}
  /\ Set(w, [Idle EXCEPT !.phase = "read", !.inventory = inventory,
                         !.fresh = (progress = NoProgress)])
  /\ UNCHANGED <<ledger, receipt, progress, inventory, stored, lapsed, faulty>>

ReadAccess(w) ==
  /\ job[w].phase = "read"
  /\ Set(w, [job[w] EXCEPT !.phase = "fence",
               !.seen = {p \in 1 .. job[w].inventory : access[p] # "absent"}])
  /\ UNCHANGED <<ledger, receipt, progress, inventory, stored, lapsed, faulty>>

\* Mutant: a partition that is already fenced cannot be fenced again.
FenceHoldsOnce(j) ==
  /\ Guarded(j)
  /\ j.fresh => progress = NoProgress
  /\ \A p \in 1 .. j.inventory : access[p] = IF p \in j.seen THEN "live" ELSE "absent"

FenceHolds(j) ==
  /\ Guarded(j)
  /\ j.fresh => progress = NoProgress
  /\ \A p \in 1 .. j.inventory : p \in j.seen <=> access[p] # "absent"

Fence(w) ==
  LET j == job[w] IN
  /\ j.phase = "fence"
  /\ FenceHolds(j)
  /\ progress' = IF j.fresh THEN j.inventory ELSE progress
  /\ access' = [p \in Partitions |-> IF p \in j.seen THEN "DELETING" ELSE access[p]]
  /\ Set(w, [j EXCEPT !.phase = "page"])
  /\ UNCHANGED <<ledger, receipt, inventory, rows, pending, reserved, usage, lapsed, faulty>>

\* The first PageSize rows of a partition.
Page(p) == {r \in rows[p] : Cardinality({s \in rows[p] : s < r}) < PageSize}

\* What _purchase_releases demands before it builds the page's transaction: the
\* pending receipts have their PERIOD row and global counters that agree with it,
\* and a PERIOD row is deleted only with every reservation it counts.
Releasable(p, targets) ==
  LET released == targets \cap pending[p] IN
  /\ released # {} => /\ Period \in rows[p]
                      /\ p \in lapsed \/ Paired(p)
                      /\ Cardinality(released) <= reserved[p]
  /\ Period \in targets => Cardinality(released) = reserved[p]

NextPartition(w, j) ==
  Set(w, IF j.partition < j.inventory
         THEN [j EXCEPT !.phase = "page", !.partition = @ + 1]
         ELSE [j EXCEPT !.phase = "verify", !.partition = 1])

ReadPage(w) ==
  LET j == job[w]
      p == j.partition
      targets == Page(p)
  IN
  /\ j.phase = "page"
  /\ IF targets # {}
     THEN /\ Releasable(p, targets)
          /\ Set(w, [j EXCEPT !.phase = "commit", !.present = access[p] # "absent",
                       !.targets = targets, !.released = targets \cap pending[p],
                       !.reserved = reserved[p],
                       !.usage = IF p \in lapsed THEN NoUsage ELSE usage[p]])
     ELSE IF access[p] # "absent"
     THEN Set(w, [j EXCEPT !.phase = "access"])
     ELSE NextPartition(w, j)
  /\ UNCHANGED <<ledger, receipt, progress, inventory, stored, lapsed, faulty>>

\* Mutant: the rows are not compared with what was read.
ReleasesAssumed(j) == TRUE

\* The exact conditions on the rows the releases were computed from.
ReleasesUnchanged(j) ==
  LET p == j.partition IN
  /\ j.released \subseteq pending[p]
  /\ Period \in j.targets \/ j.released # {} =>
       Period \in rows[p] /\ reserved[p] = j.reserved
  /\ j.released # {} /\ j.usage # NoUsage => usage[p] = j.usage

CommitPage(w) ==
  LET j == job[w]
      p == j.partition
      n == Cardinality(j.released)
  IN
  /\ j.phase = "commit"
  /\ Guarded(j)
  /\ AccessGuarded(j)
  /\ ReleasesUnchanged(j)
  /\ rows' = [rows EXCEPT ![p] = @ \ j.targets]
  /\ pending' = [pending EXCEPT ![p] = @ \ j.targets]
  /\ reserved' = IF Period \in j.targets THEN reserved ELSE [reserved EXCEPT ![p] = @ - n]
  /\ usage' = IF j.usage = NoUsage THEN usage ELSE [usage EXCEPT ![p] = @ - n]
  /\ IF j.pages + 1 >= MaxPages
     THEN Stop(w)
     ELSE Set(w, [j EXCEPT !.phase = "page", !.pages = @ + 1])
  /\ UNCHANGED <<ledger, receipt, progress, inventory, access, lapsed, faulty>>

DeleteAccess(w) ==
  LET j == job[w] IN
  /\ j.phase = "access"
  /\ Guarded(j)
  /\ access[j.partition] = "DELETING"
  /\ access' = [access EXCEPT ![j.partition] = "absent"]
  /\ NextPartition(w, j)
  /\ UNCHANGED <<ledger, receipt, progress, inventory, rows, pending, reserved,
                 usage, lapsed, faulty>>

\* A consistent query of one partition after the other.
Verify(w) ==
  LET j == job[w] IN
  /\ j.phase = "verify"
  /\ rows[j.partition] = {}
  /\ access[j.partition] = "absent"
  /\ Set(w, IF j.partition < j.inventory
            THEN [j EXCEPT !.partition = @ + 1]
            ELSE [j EXCEPT !.phase = "finish"])
  /\ UNCHANGED <<ledger, receipt, progress, inventory, stored, lapsed, faulty>>

Complete(w) ==
  LET j == job[w] IN
  /\ j.phase = "finish"
  /\ Guarded(j)
  /\ \A p \in 1 .. j.inventory : access[p] = "absent"
  /\ ~receipt
  /\ progress # NoProgress
  /\ receipt' = TRUE
  /\ progress' = NoProgress
  /\ Stop(w)
  /\ UNCHANGED <<ledger, inventory, stored, lapsed, faulty>>

\* The code raises, or its transaction's conditions do not hold.
Blocked(w) ==
  LET j == job[w] IN
  \/ j.phase = "fence" /\ ~FenceHolds(j)
  \/ j.phase = "page" /\ ~Releasable(j.partition, Page(j.partition))
  \/ j.phase = "commit" /\ ~(Guarded(j) /\ AccessGuarded(j) /\ ReleasesUnchanged(j))
  \/ j.phase = "access" /\ ~(Guarded(j) /\ access[j.partition] = "DELETING")
  \/ j.phase = "verify" /\ ~(rows[j.partition] = {} /\ access[j.partition] = "absent")
  \/ j.phase = "finish" /\ ~(/\ Guarded(j) /\ ~receipt /\ progress # NoProgress
                             /\ \A p \in 1 .. j.inventory : access[p] = "absent")

Refused(w) ==
  /\ Blocked(w)
  /\ Stop(w)
  /\ UNCHANGED <<ledger, receipt, progress, inventory, stored, lapsed, faulty>>

\* The invocation dies, runs out of time (can_continue), or loses a reply.
Crash(w) ==
  /\ faulty
  /\ job[w] # Idle
  /\ Stop(w)
  /\ UNCHANGED <<ledger, receipt, progress, inventory, stored, lapsed, faulty>>

Worker(w) ==
  \/ Start(w) \/ ReadAccess(w) \/ Fence(w) \/ ReadPage(w) \/ CommitPage(w)
  \/ DeleteAccess(w) \/ Verify(w) \/ Complete(w) \/ Refused(w)

-----------------------------------------------------------------------------
(* The account's other parties *)

\* AccountDeletionService.request.
Request ==
  /\ ledger = "none"
  /\ ledger' = "requested"
  /\ UNCHANGED <<receipt, progress, inventory, stored, lapsed, faulty, job>>

\* Finalizer: the command becomes a terminal fence once every component is done.
Finalize ==
  /\ ledger = "requested"
  /\ receipt
  /\ ledger' = "completed"
  /\ UNCHANGED <<receipt, progress, inventory, stored, lapsed, faulty, job>>

\* The operator issues a key.
Rotate ==
  /\ inventory < MaxKeys
  /\ inventory' = inventory + 1
  /\ UNCHANGED <<ledger, receipt, progress, stored, lapsed, faulty, job>>

\* From here on no invocation dies.
Calm ==
  /\ faulty
  /\ faulty' = FALSE
  /\ UNCHANGED <<ledger, receipt, progress, inventory, stored, lapsed, job>>

Next ==
  \/ \E p \in Issued : Writer(p)
  \/ \E w \in Workers : Worker(w) \/ Crash(w)
  \/ Request
  \/ Finalize
  \/ Rotate
  \/ Calm

Spec == Init /\ [][Next]_vars

\* The stream retries an unfinished command and the schedule runs it again, an
\* invocation that does not die ends, and invocations do not die for ever.
Fairness ==
  /\ WF_vars(Calm)
  /\ \A w \in Workers : WF_vars(Worker(w))

FairSpec == Spec /\ Fairness

-----------------------------------------------------------------------------
(* Properties *)

\* Every row and job holds values the code writes.
TypeOK ==
  /\ ledger \in {"none", "requested", "completed"}
  /\ receipt \in BOOLEAN
  /\ progress \in 0 .. MaxKeys
  /\ inventory \in Partitions
  /\ access \in [Partitions -> AccessStates]
  /\ rows \in [Partitions -> SUBSET Families]
  /\ pending \in [Partitions -> SUBSET Receipts]
  /\ reserved \in [Partitions -> Nat]
  /\ usage \in [Partitions -> Nat \cup {NoUsage}]
  /\ lapsed \subseteq Partitions
  /\ faulty \in BOOLEAN
  /\ job \in [Workers -> Jobs]

\* The component's receipt is true, and stays true: no partition of the account,
\* of any issued key, holds a row, although writers, sweeps and other invocations
\* of the worker run between the last empty query and the receipt and after it.
ReceiptMeansErased ==
  receipt => \A p \in Partitions : rows[p] = {} /\ access[p] = "absent"

\* Until its deadline the purchase's reservation counter, which outlives the
\* account, counts the receipts that are still pending: a deletion in pages
\* neither strands a reservation nor releases one twice.
UsageConserved ==
  \A p \in Partitions \ lapsed :
    usage[p] # NoUsage => usage[p] = Cardinality(pending[p])

\* ACCESS goes last: a partition without it holds no receipt or period, so the
\* sweeps that are fenced by ACCESS alone never meet one they may touch.
AccessOutlivesRows ==
  \A p \in Partitions : access[p] = "absent" => rows[p] \subseteq {Attempt}

\* What a receipt claims, and the order that lets it.
ErasureInOrder == ReceiptMeansErased /\ AccessOutlivesRows

\* A requested deletion ends, unless a key was issued after it had pinned the
\* inventory: then it fails closed.
DeletionEnds ==
  ledger = "requested" ~> \/ receipt
                          \/ progress \notin {NoProgress, inventory}
=============================================================================
