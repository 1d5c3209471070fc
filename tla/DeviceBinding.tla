---------------------------- MODULE DeviceBinding ----------------------------
(***************************************************************************)
(* device_registration and device_recovery: one account's device bindings. *)
(*                                                                         *)
(* A consistent pointer row names the active device; the device rows are   *)
(* read without consistency, so such a read returns any status the row has *)
(* ever had.  Accounts from before the pointer have device rows only, and  *)
(* the active one is found through an index that lags in the same way.     *)
(*                                                                         *)
(* Each operation reads, then submits one transaction that conditions the  *)
(* pointer's fingerprint and stateVersion, the status of each device row   *)
(* it writes and the absence of the account's deletion row.  No row of the *)
(* account is written but under a condition on the pointer, so that one    *)
(* read step per operation loses nothing.                                  *)
(***************************************************************************)
EXTENDS Naturals, FiniteSets

CONSTANTS
  Devices,      \* binding fingerprints
  None,         \* the fingerprint NONE, and no device
  Recoveries,   \* operationIds of self recoveries
  Workers,      \* invocations
  MaxRequests,  \* DEVICE_RECOVERY_RATE_MAX_REQUESTS
  MaxVersion    \* bound: writes of the pointer

DeviceAssumption ==
  /\ IsFiniteSet(Devices)
  /\ None \notin Devices
  /\ MaxRequests \in Nat /\ MaxVersion \in Nat

VARIABLES
  ledger,    \* the ACCOUNT_DELETION row exists
  pointer,   \* ACTIVE_BINDING row: [to, version], or NoPointer
  device,    \* status of each DEVICE row
  past,      \* statuses an inconsistent read of the row can return
  receipt,   \* device of each RECOVERY row, or None
  requests,  \* requestCount of the current window's RATE row
  job,       \* local state of each invocation
  told       \* history: recoveries a client was told of, <<operationId, device>>

bindings == <<pointer, device, past>>
vars == <<ledger, bindings, receipt, requests, job, told>>

-----------------------------------------------------------------------------
(* Rows and jobs *)

NoPointer == [to |-> None, version |-> 0]
Pointers == [to : Devices \cup {None}, version : Nat]
Statuses == {"absent", "ACTIVE", "INACTIVE"}
Requests == {"register", "recover", "reset", "restore"}

Idle == [request |-> "none", phase |-> "idle", target |-> None, pointer |-> NoPointer,
         active |-> None, previous |-> "absent", id |-> None, late |-> FALSE]

Jobs == [request : Requests \cup {"none"}, phase : {"idle", "commit", "reread"},
         target : Devices \cup {None}, pointer : Pointers,
         active : Devices \cup {None}, previous : Statuses,
         id : Recoveries \cup {None}, late : BOOLEAN]

\* New accounts, and accounts from before the pointer, whose index has settled.
Init ==
  /\ ledger = FALSE
  /\ pointer = NoPointer
  /\ device \in [Devices -> Statuses]
  /\ past = [d \in Devices |-> {device[d]}]
  /\ receipt = [r \in Recoveries |-> None]
  /\ requests = 0
  /\ job = [w \in Workers |-> Idle]
  /\ told = {}

Active == {d \in Devices : device[d] = "ACTIVE"}

\* _recovery_authority_checks and register_device's _authority_conditions.
Available == ~ledger

\* Results _get_single_legacy_active can return without raising: one device at
\* most appears active in the index.
LegacyActive ==
  {d \in Devices \cup {None} :
     /\ d # None => "ACTIVE" \in past[d]
     /\ \A other \in Devices \ {d} : past[other] # {"ACTIVE"}}

\* _pointer_and_active, which raises when the pointer's device is not active.
ActiveReads ==
  IF pointer = NoPointer THEN LegacyActive
  ELSE IF pointer.to = None THEN {None}
  ELSE {d \in {pointer.to} : "ACTIVE" \in past[d]}

Begin(w, j) ==
  /\ job[w] = Idle
  /\ job' = [job EXCEPT ![w] = j]
  /\ UNCHANGED <<ledger, bindings, receipt, requests, told>>

Finish(w) == job' = [job EXCEPT ![w] = Idle]

Submitting(w, request) ==
  /\ job[w].request = request
  /\ job[w].phase = "commit"

-----------------------------------------------------------------------------
(* Transactions *)

SetDevices(f) ==
  /\ device' = f
  /\ past' = [d \in Devices |-> past[d] \cup {f[d]}]

Point(d) ==
  /\ pointer.version < MaxVersion
  /\ pointer' = [to |-> d, version |-> pointer.version + 1]

\* The pointer is the one read, and the device to deactivate is still active.
Unchanged(j) ==
  /\ Available
  /\ pointer = j.pointer
  /\ j.active \notin {None, j.target} => device[j.active] = "ACTIVE"

\* Mutant: the old device's row is left alone.
ReplaceTargetOnly(j) ==
  /\ device[j.target] = j.previous
  /\ SetDevices([device EXCEPT ![j.target] = "ACTIVE"])

\* The target's row becomes active and the old device's row inactive; the target
\* must have the status that was read.
Replace(j) ==
  /\ device[j.target] = j.previous
  /\ SetDevices([d \in Devices |->
                   IF d = j.target THEN "ACTIVE"
                   ELSE IF d = j.active THEN "INACTIVE" ELSE device[d]])

\* Mutant: the pointer follows every recovery without a new version.
PointUnversioned(j) == pointer' = [pointer EXCEPT !.to = j.target]

\* _binding_replacement_operations: a recovery of the active device leaves an
\* existing pointer as it is.
PointIfMoved(j) ==
  IF pointer # NoPointer /\ j.active = j.target
  THEN UNCHANGED pointer
  ELSE Point(j.target)

-----------------------------------------------------------------------------
(* register_device *)

BeginRegister(w, d) ==
  /\ Available
  /\ \E a \in ActiveReads, s \in past[d] :
       Begin(w, [Idle EXCEPT !.request = "register", !.phase = "commit", !.target = d,
                             !.pointer = pointer, !.active = a, !.previous = s])

\* Registering the active device again takes a new version as well.
CommitRegister(w) ==
  LET j == job[w] IN
  /\ Submitting(w, "register")
  /\ Unchanged(j)
  /\ Replace(j)
  /\ Point(j.target)
  /\ Finish(w)
  /\ UNCHANGED <<ledger, receipt, requests, told>>

-----------------------------------------------------------------------------
(* process_self_recovery *)

BeginRecover(w, r, d) ==
  /\ Available
  /\ receipt[r] = None
  /\ \E a \in ActiveReads, s \in past[d] :
       Begin(w, [Idle EXCEPT !.request = "recover", !.phase = "commit", !.target = d,
                             !.pointer = pointer, !.active = a, !.previous = s, !.id = r])

\* _rate_limit_update counts in the window in which the recovery began, which may
\* be over.
CountRequest(j) ==
  IF j.late THEN UNCHANGED requests
  ELSE requests < MaxRequests /\ requests' = requests + 1

\* Mutant: the receipt is put without attribute_not_exists.
NewReceiptOverwrites(j) == receipt' = [receipt EXCEPT ![j.id] = j.target]

NewReceipt(j) ==
  /\ receipt[j.id] = None
  /\ receipt' = [receipt EXCEPT ![j.id] = j.target]

\* The client is answered, or the reply is lost.
CommitRecover(w) ==
  LET j == job[w] IN
  /\ Submitting(w, "recover")
  /\ Unchanged(j)
  /\ CountRequest(j)
  /\ Replace(j)
  /\ PointIfMoved(j)
  /\ NewReceipt(j)
  /\ told' \in {told, told \cup {<<j.id, j.target>>}}
  /\ Finish(w)
  /\ UNCHANGED ledger

\* _replay_receipt: the operationId is bound to one payload.
Replays(r, d) == receipt[r] = d

\* A retry that finds the receipt is answered from it.
Replay(w, r, d) ==
  /\ Available
  /\ job[w] = Idle
  /\ Replays(r, d)
  /\ told' = told \cup {<<r, d>>}
  /\ UNCHANGED <<ledger, bindings, receipt, requests, job>>

\* A cancelled recovery looks for the receipt another attempt may have left.
RereadReceipt(w) ==
  LET j == job[w] IN
  /\ j.phase = "reread"
  /\ told' = IF Replays(j.id, j.target) THEN told \cup {<<j.id, j.target>>} ELSE told
  /\ Finish(w)
  /\ UNCHANGED <<ledger, bindings, receipt, requests>>

-----------------------------------------------------------------------------
(* process_recovery, the operator's route *)

\* With a pointer and no active device there is nothing to do.
BeginReset(w) ==
  \E a \in ActiveReads :
    /\ a # None \/ pointer = NoPointer
    /\ Begin(w, [Idle EXCEPT !.request = "reset", !.phase = "commit",
                             !.pointer = pointer, !.active = a])

CommitReset(w) ==
  LET j == job[w] IN
  /\ Submitting(w, "reset")
  /\ Unchanged(j)
  /\ SetDevices([d \in Devices |-> IF d = j.active THEN "INACTIVE" ELSE device[d]])
  /\ Point(None)
  /\ Finish(w)
  /\ UNCHANGED <<ledger, receipt, requests, told>>

BeginRestore(w, d) ==
  \E a \in ActiveReads, s \in past[d] \ {"absent"} :
    Begin(w, [Idle EXCEPT !.request = "restore", !.phase = "commit", !.target = d,
                          !.pointer = pointer, !.active = a, !.previous = s])

CommitRestore(w) ==
  LET j == job[w] IN
  /\ Submitting(w, "restore")
  /\ Unchanged(j)
  /\ Replace(j)
  /\ PointIfMoved(j)
  /\ Finish(w)
  /\ UNCHANGED <<ledger, receipt, requests, told>>

\* The transaction is cancelled: a recovery re-reads, the others raise.
Cancelled(w) ==
  /\ job[w].phase = "commit"
  /\ IF job[w].request = "recover"
     THEN job' = [job EXCEPT ![w] = [Idle EXCEPT !.request = "recover", !.phase = "reread",
                                       !.target = job[w].target, !.id = job[w].id]]
     ELSE Finish(w)
  /\ UNCHANGED <<ledger, bindings, receipt, requests, told>>

\* The request never arrives, or the invocation dies.
Crash(w) ==
  /\ job[w] # Idle
  /\ Finish(w)
  /\ UNCHANGED <<ledger, bindings, receipt, requests, told>>

-----------------------------------------------------------------------------
(* What else happens to the rows *)

\* Time to live of an INACTIVE row, of the RATE row of a window that is over and
\* of a recovery's receipt, whose operationId is then new again.
ExpireDevice(d) ==
  /\ device[d] = "INACTIVE"
  /\ SetDevices([device EXCEPT ![d] = "absent"])
  /\ UNCHANGED <<ledger, pointer, receipt, requests, job, told>>

NextWindow ==
  /\ requests' = 0
  /\ job' = [w \in Workers |-> [job[w] EXCEPT !.late = Submitting(w, "recover")]]
  /\ UNCHANGED <<ledger, bindings, receipt, told>>

ExpireReceipt(r) ==
  /\ receipt[r] # None
  /\ receipt' = [receipt EXCEPT ![r] = None]
  /\ told' = {t \in told : t[1] # r}
  /\ UNCHANGED <<ledger, bindings, requests, job>>

RequestDeletion ==
  /\ Available
  /\ ledger' = TRUE
  /\ UNCHANGED <<bindings, receipt, requests, job, told>>

\* delete_device_bindings deletes the partition in the order of its sort keys:
\* the pointer goes before any DEVICE row.
ErasePointer ==
  /\ ledger
  /\ pointer' = NoPointer
  /\ UNCHANGED <<ledger, device, past, receipt, requests, job, told>>

EraseDevice(d) ==
  /\ ledger
  /\ pointer = NoPointer
  /\ SetDevices([device EXCEPT ![d] = "absent"])
  /\ UNCHANGED <<ledger, pointer, receipt, requests, job, told>>

Invocation(w) ==
  \/ \E d \in Devices : BeginRegister(w, d) \/ BeginRestore(w, d)
  \/ \E r \in Recoveries, d \in Devices : BeginRecover(w, r, d) \/ Replay(w, r, d)
  \/ BeginReset(w)
  \/ CommitRegister(w) \/ CommitRecover(w) \/ CommitReset(w) \/ CommitRestore(w)
  \/ RereadReceipt(w)
  \/ Cancelled(w)
  \/ Crash(w)

Next ==
  \/ \E w \in Workers : Invocation(w)
  \/ \E d \in Devices : ExpireDevice(d) \/ EraseDevice(d)
  \/ \E r \in Recoveries : ExpireReceipt(r)
  \/ NextWindow
  \/ RequestDeletion
  \/ ErasePointer

Spec == Init /\ [][Next]_vars

-----------------------------------------------------------------------------
(* Properties *)

\* Every row and job holds values the code writes.
TypeOK ==
  /\ ledger \in BOOLEAN
  /\ pointer \in Pointers
  /\ device \in [Devices -> Statuses]
  /\ past \in [Devices -> SUBSET Statuses]
  /\ receipt \in [Recoveries -> Devices \cup {None}]
  /\ requests \in 0 .. MaxRequests
  /\ job \in [Workers -> Jobs]
  /\ told \subseteq Recoveries \X Devices

\* As long as there is a pointer, the device it names is the account's only
\* active one, and there is none when it says NONE: whatever registrations,
\* recoveries and resets started from stale reads, also of an account from
\* before the pointer, and while the account is being erased.
PointerNamesTheActive ==
  pointer # NoPointer => Active = {pointer.to} \ {None}

\* The stateVersion tells every two bindings apart: a device is activated or
\* deactivated only with a new version, so no reader that compares versions can
\* mistake a binding that came back for the one it read.
SwitchVersioned ==
  Active' # Active /\ ~ledger => pointer'.version > pointer.version

\* A recovery the client was told of is the one its receipt records: no attempt
\* replays another request's success and none is applied over another.
ToldAsRecorded ==
  \A t \in told : receipt[t[1]] = t[2]

\* Once the account's deletion is requested, no operation that had read the rows
\* before binds a device again.
NoBindingAfterDeletion ==
  ledger => Active' \subseteq Active /\ pointer' \in {pointer, NoPointer}

\* What no step does to the active device, before the request and after it.
BindingStepsSound == SwitchVersioned /\ NoBindingAfterDeletion

-----------------------------------------------------------------------------
(* The invariant the properties are proved from (AccountRecordsProofs) *)

\* Before the first pointer an active row has never been anything else.
LegacySettled ==
  pointer = NoPointer /\ ~ledger =>
    \A d \in Devices : device[d] = "ACTIVE" => past[d] = {"ACTIVE"}

\* What an invocation that may still submit knows.
JobInv(j) ==
  /\ j.phase = "commit" /\ j.request \in {"register", "recover", "restore"} =>
       j.target \in Devices
  /\ j.request = "recover" \/ j.phase = "reread" => j.id \in Recoveries /\ j.target \in Devices
  /\ j.request = "reset" => j.target = None
  /\ j.phase = "commit" /\ j.pointer # NoPointer => j.active = j.pointer.to
  /\ j.phase = "commit" /\ j.pointer = NoPointer /\ pointer = NoPointer /\ ~ledger =>
       Active \subseteq {j.active}

IInv ==
  /\ TypeOK
  /\ PointerNamesTheActive
  /\ LegacySettled
  /\ ToldAsRecorded
  /\ \A w \in Workers : JobInv(job[w])
=============================================================================
