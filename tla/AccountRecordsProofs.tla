------------------------- MODULE AccountRecordsProofs -------------------------
(***************************************************************************)
(* Theorems about the parts of MCAccountRecords, for any accounts,         *)
(* devices, requests, purchases, rows and invocations and any settings its *)
(* assumptions allow. Each part has an invariant of its own (IInv, in its  *)
(* module); the parts share nothing but their variables.                   *)
(***************************************************************************)
EXTENDS MCAccountRecords, Integers, FiniteSetTheorems, WellFoundedInduction, TLAPS

-----------------------------------------------------------------------------
(***************************************************************************)
(* DeviceBinding                                                           *)
(*                                                                         *)
(* PointerNamesTheActive is not inductive alone.  What an invocation read  *)
(* must still be right if its transaction commits, which happens only when *)
(* the pointer is the one it read: then its "active" device is the one the *)
(* pointer names or, without a pointer, the only one there can be, because *)
(* the index had settled before the first pointer and no device was        *)
(* activated since.                                                        *)
(***************************************************************************)

\* An invocation between requests knows nothing.
LEMMA BindingIdleFacts == Device!Idle \in Device!Jobs /\ Device!JobInv(Device!Idle) /\ Device!JobInv(Device!Idle)'
  BY DeviceAssumed
  DEF Device!DeviceAssumption, Device!Idle, Device!Jobs, Device!JobInv, Device!NoPointer, Device!Pointers,
      Device!Statuses

\* A new account, and one from before the pointer, satisfy the invariant.
LEMMA BindingInitIInv == Device!Init => Device!IInv
<1>1. Device!Init => Device!TypeOK
  <2> SUFFICES ASSUME Device!Init PROVE Device!TypeOK
    OBVIOUS
  <2>1. v4 \in [Choices -> SUBSET Device!Statuses]
    BY DEF Device!Init
  <2>2. v2 \in Device!Pointers /\ v5 \in [Recoveries -> Choices \cup {None}]
    BY DEF Device!Init, Device!NoPointer, Device!Pointers
  <2>3. v6 \in 0 .. MaxRequests
    BY DeviceAssumed DEF Device!DeviceAssumption, Device!Init
  <2>4. v7 \in [Workers -> Device!Jobs]
    BY BindingIdleFacts DEF Device!Init
  <2> QED
    BY <2>1, <2>2, <2>3, <2>4 DEF Device!Init, Device!TypeOK
<1>2. Device!Init => Device!PointerNamesTheActive /\ Device!LegacySettled /\ Device!ToldAsRecorded
  BY DEF Device!Init, Device!PointerNamesTheActive, Device!LegacySettled, Device!ToldAsRecorded
<1>3. Device!Init => \A w \in Workers : Device!JobInv(v7[w])
  BY BindingIdleFacts DEF Device!Init
<1> QED
  BY <1>1, <1>2, <1>3 DEF Device!IInv

\* Writing device rows with statuses keeps their types; what they were stays in
\* the past an inconsistent read sees.
LEMMA BindingSetDevicesType ==
  ASSUME Device!TypeOK, NEW f \in [Choices -> Device!Statuses], Device!SetDevices(f)
  PROVE  v3' \in [Choices -> Device!Statuses] /\ v4' \in [Choices -> SUBSET Device!Statuses]
  BY DEF Device!TypeOK, Device!SetDevices

\* What any of the invocations' reads gives them: the target's row as it was once,
\* and the active device, if the pointer does not move on.
LEMMA BindingReadFacts ==
  ASSUME Device!IInv, Device!Available, NEW a \in Device!ActiveReads
  PROVE  /\ a \in Choices \cup {None}
         /\ v2 # Device!NoPointer => a = v2.to
         /\ v2 = Device!NoPointer => Device!Active \subseteq {a}
<1>1. CASE v2 = Device!NoPointer
  <2>1. a \in Device!LegacyActive
    BY <1>1 DEF Device!ActiveReads
  <2>2. \A d \in Device!Active : v4[d] = {"ACTIVE"}
    BY <1>1 DEF Device!IInv, Device!LegacySettled, Device!Available, Device!Active
  <2> QED
    BY <1>1, <2>1, <2>2 DEF Device!LegacyActive, Device!Active
<1>2. CASE v2 # Device!NoPointer
  BY <1>2 DEF Device!ActiveReads, Device!IInv, Device!TypeOK, Device!Pointers
<1> QED
  BY <1>1, <1>2

\* The operator's routes do not look for the deletion row first; behind it they
\* can no longer commit.
LEMMA BindingLateReadFacts ==
  ASSUME Device!IInv, NEW a \in Device!ActiveReads
  PROVE  /\ a \in Choices \cup {None}
         /\ v2 # Device!NoPointer => a = v2.to
         /\ v2 = Device!NoPointer /\ ~v1 => Device!Active \subseteq {a}
<1>1. CASE Device!Available
  BY <1>1, BindingReadFacts
<1>2. CASE ~Device!Available
  BY <1>2
  DEF Device!Available, Device!ActiveReads, Device!LegacyActive, Device!IInv, Device!TypeOK, Device!Pointers
<1> QED
  BY <1>1, <1>2

\* A read changes nothing but the invocation that makes it.
LEMMA BindingBeginStep ==
  ASSUME Device!IInv, NEW w \in Workers, NEW j \in Device!Jobs, Device!Begin(w, j), Device!JobInv(j)
  PROVE  Device!IInv'
<1>1. Device!TypeOK'
  BY DEF Device!IInv, Device!TypeOK, Device!Begin, Device!bindings
<1>2. (Device!PointerNamesTheActive /\ Device!LegacySettled /\ Device!ToldAsRecorded)'
  BY DEF Device!IInv, Device!Begin, Device!bindings, Device!PointerNamesTheActive, Device!LegacySettled,
         Device!ToldAsRecorded, Device!Active
<1>3. \A v \in Workers : Device!JobInv(v7[v])'
  BY DEF Device!IInv, Device!TypeOK, Device!Begin, Device!bindings, Device!JobInv, Device!Active
<1> QED
  BY <1>1, <1>2, <1>3 DEF Device!IInv

\* register_device's reads.
LEMMA BindingBeginRegisterStep ==
  ASSUME Device!IInv, NEW w \in Workers, NEW d \in Choices, Device!BeginRegister(w, d)
  PROVE  Device!IInv'
<1>1. v2 \in Device!Pointers /\ v4[d] \subseteq Device!Statuses
  BY DEF Device!IInv, Device!TypeOK
<1>2. PICK a \in Device!ActiveReads, s \in v4[d] :
        Device!Begin(w, [Device!Idle EXCEPT !.request = "register", !.phase = "commit", !.target = d,
                              !.pointer = v2, !.active = a, !.previous = s])
  BY DEF Device!BeginRegister
<1> DEFINE j == [Device!Idle EXCEPT !.request = "register", !.phase = "commit", !.target = d,
                              !.pointer = v2, !.active = a, !.previous = s]
<1>3. j \in Device!Jobs /\ Device!JobInv(j)
  BY <1>1, <1>2, BindingLateReadFacts, BindingIdleFacts
  DEF Device!Idle, Device!Jobs, Device!JobInv, Device!Requests
<1> QED
  BY <1>2, <1>3, BindingBeginStep

\* The reads of the operator's recovery.
LEMMA BindingBeginRestoreStep ==
  ASSUME Device!IInv, NEW w \in Workers, NEW d \in Choices, Device!BeginRestore(w, d)
  PROVE  Device!IInv'
<1>1. v2 \in Device!Pointers /\ v4[d] \subseteq Device!Statuses
  BY DEF Device!IInv, Device!TypeOK
<1>2. PICK a \in Device!ActiveReads, s \in v4[d] \ {"absent"} :
        Device!Begin(w, [Device!Idle EXCEPT !.request = "restore", !.phase = "commit", !.target = d,
                              !.pointer = v2, !.active = a, !.previous = s])
  BY DEF Device!BeginRestore
<1> DEFINE j == [Device!Idle EXCEPT !.request = "restore", !.phase = "commit", !.target = d,
                              !.pointer = v2, !.active = a, !.previous = s]
<1>3. j \in Device!Jobs /\ Device!JobInv(j)
  BY <1>1, <1>2, BindingLateReadFacts, BindingIdleFacts
  DEF Device!Idle, Device!Jobs, Device!JobInv, Device!Requests
<1> QED
  BY <1>2, <1>3, BindingBeginStep

\* process_self_recovery's reads.
LEMMA BindingBeginRecoverStep ==
  ASSUME Device!IInv, NEW w \in Workers, NEW r \in Recoveries, NEW d \in Choices, Device!BeginRecover(w, r, d)
  PROVE  Device!IInv'
<1>1. v2 \in Device!Pointers /\ v4[d] \subseteq Device!Statuses
  BY DEF Device!IInv, Device!TypeOK
<1>2. PICK a \in Device!ActiveReads, s \in v4[d] :
        Device!Begin(w, [Device!Idle EXCEPT !.request = "recover", !.phase = "commit", !.target = d,
                              !.pointer = v2, !.active = a, !.previous = s, !.id = r])
  BY DEF Device!BeginRecover
<1> DEFINE j == [Device!Idle EXCEPT !.request = "recover", !.phase = "commit", !.target = d,
                              !.pointer = v2, !.active = a, !.previous = s, !.id = r]
<1>3. j \in Device!Jobs /\ Device!JobInv(j)
  BY <1>1, <1>2, BindingLateReadFacts, BindingIdleFacts
  DEF Device!Idle, Device!Jobs, Device!JobInv, Device!Requests
<1> QED
  BY <1>2, <1>3, BindingBeginStep

\* The reads of the operator's reset.
LEMMA BindingBeginResetStep ==
  ASSUME Device!IInv, NEW w \in Workers, Device!BeginReset(w)
  PROVE  Device!IInv'
<1>1. v2 \in Device!Pointers
  BY DEF Device!IInv, Device!TypeOK
<1>2. PICK a \in Device!ActiveReads :
        Device!Begin(w, [Device!Idle EXCEPT !.request = "reset", !.phase = "commit",
                              !.pointer = v2, !.active = a])
  BY DEF Device!BeginReset
<1> DEFINE j == [Device!Idle EXCEPT !.request = "reset", !.phase = "commit",
                              !.pointer = v2, !.active = a]
<1>3. j \in Device!Jobs /\ Device!JobInv(j)
  BY <1>1, <1>2, BindingLateReadFacts, BindingIdleFacts
  DEF Device!Idle, Device!Jobs, Device!JobInv, Device!Requests
<1> QED
  BY <1>2, <1>3, BindingBeginStep

-----------------------------------------------------------------------------

\* What an invocation knew, others' transactions do not make wrong: the pointer
\* they leave is another, or no device was activated.
LEMMA BindingJobStable ==
  ASSUME Device!IInv, Device!TypeOK', NEW j \in Device!Jobs, Device!JobInv(j),
         v1 => v1',
         \/ v2' = v2 /\ Device!Active' \subseteq Device!Active
         \/ v2' # Device!NoPointer
         \/ v1'
  PROVE  Device!JobInv(j)'
  BY DEF Device!JobInv

\* So a transaction only has to keep what is known of the rows.
LEMMA BindingOthersStable ==
  ASSUME Device!IInv, Device!TypeOK', NEW w \in Workers, Device!Finish(w),
         v1 => v1',
         \/ v2' = v2 /\ Device!Active' \subseteq Device!Active
         \/ v2' # Device!NoPointer
         \/ v1'
  PROVE  (\A v \in Workers : Device!JobInv(v7[v]))'
<1> SUFFICES ASSUME NEW v \in Workers PROVE Device!JobInv(v7[v])'
  OBVIOUS
<1>1. CASE v = w
  BY <1>1, BindingIdleFacts DEF Device!Finish, Device!IInv, Device!TypeOK
<1>2. CASE v # w
  <2>1. v7'[v] = v7[v] /\ v7[v] \in Device!Jobs /\ Device!JobInv(v7[v])
    BY <1>2 DEF Device!Finish, Device!IInv, Device!TypeOK
  <2>2. PICK j \in Device!Jobs : j = v7[v]
    BY <2>1
  <2>3. Device!JobInv(j)'
    BY <2>1, <2>2, BindingJobStable
  <2> QED
    BY <2>1, <2>2, <2>3 DEF Device!JobInv
<1> QED
  BY <1>1, <1>2

\* The pointer's new version.
LEMMA BindingPointFacts ==
  ASSUME Device!TypeOK, NEW d \in Choices \cup {None}, Device!Point(d)
  PROVE  /\ v2' \in Device!Pointers
         /\ v2' # Device!NoPointer
         /\ v2'.to = d
         /\ v2'.version > v2.version
  BY DEF Device!TypeOK, Device!Pointers, Device!Point, Device!NoPointer

\* Replacing the device that was active leaves the target as the only active one.
LEMMA BindingReplaceFacts ==
  ASSUME Device!IInv, NEW j \in Device!Jobs, Device!JobInv(j), j.phase = "commit", j.target \in Choices,
         Device!Unchanged(j), Device!Replace(j)
  PROVE  /\ v3' \in [Choices -> Device!Statuses]
         /\ v4' \in [Choices -> SUBSET Device!Statuses]
         /\ Device!Active' = {j.target}
         /\ v2 # Device!NoPointer => j.active = v2.to
<1>1. Device!Active \subseteq {j.active}
  <2>1. CASE v2 = Device!NoPointer
    BY <2>1 DEF Device!JobInv, Device!Unchanged, Device!Available
  <2>2. CASE v2 # Device!NoPointer
    BY <2>2 DEF Device!JobInv, Device!Unchanged, Device!IInv, Device!PointerNamesTheActive
  <2> QED
    BY <2>1, <2>2
<1> DEFINE f == [d \in Choices |-> IF d = j.target THEN "ACTIVE"
                                  ELSE IF d = j.active THEN "INACTIVE" ELSE v3[d]]
<1>2. f \in [Choices -> Device!Statuses]
  BY DEF Device!IInv, Device!TypeOK, Device!Statuses
<1>3. Device!SetDevices(f)
  BY DEF Device!Replace
<1>4. v3' \in [Choices -> Device!Statuses] /\ v4' \in [Choices -> SUBSET Device!Statuses]
  BY <1>2, <1>3, BindingSetDevicesType DEF Device!IInv
<1>5. Device!Active' = {j.target}
  BY <1>1, <1>3 DEF Device!SetDevices, Device!Active
<1> QED
  BY <1>4, <1>5 DEF Device!JobInv, Device!Unchanged

\* register_device and the operator's recovery.
LEMMA BindingCommitStep ==
  ASSUME Device!IInv, NEW w \in Workers, Device!CommitRegister(w) \/ Device!CommitRestore(w)
  PROVE  Device!IInv' /\ (Device!Active' # Device!Active => v2'.version > v2.version)
<1> DEFINE j == v7[w]
<1>1. j \in Device!Jobs /\ Device!JobInv(j) /\ j.phase = "commit" /\ j.target \in Choices
  BY DEF Device!IInv, Device!TypeOK, Device!JobInv, Device!CommitRegister, Device!CommitRestore,
         Device!Submitting
<1>2. Device!Unchanged(j) /\ Device!Replace(j) /\ Device!Finish(w)
  BY DEF Device!CommitRegister, Device!CommitRestore
<1>3. UNCHANGED <<v1, v5, v6, v8>>
  BY DEF Device!CommitRegister, Device!CommitRestore
<1>4. PICK k \in Device!Jobs : k = j
  BY <1>1
<1>5. /\ v3' \in [Choices -> Device!Statuses]
      /\ v4' \in [Choices -> SUBSET Device!Statuses]
      /\ Device!Active' = {j.target}
      /\ v2 # Device!NoPointer => j.active = v2.to
  BY <1>1, <1>2, <1>4, BindingReplaceFacts
<1>6. \/ Device!Point(j.target)
      \/ v2 # Device!NoPointer /\ j.active = j.target /\ UNCHANGED v2
  BY DEF Device!CommitRegister, Device!CommitRestore, Device!PointIfMoved
<1>7. /\ v2' \in Device!Pointers
      /\ v2' # Device!NoPointer
      /\ v2'.to = j.target
      /\ v2'.version > v2.version \/ v2' = v2
  BY <1>1, <1>5, <1>6, BindingPointFacts DEF Device!IInv, Device!TypeOK
<1>8. v7' \in [Workers -> Device!Jobs]
  BY <1>2, BindingIdleFacts DEF Device!Finish, Device!IInv, Device!TypeOK
<1>9. Device!TypeOK'
  BY <1>3, <1>5, <1>7, <1>8 DEF Device!IInv, Device!TypeOK
<1>10. (Device!PointerNamesTheActive /\ Device!LegacySettled /\ Device!ToldAsRecorded)'
  BY <1>1, <1>3, <1>5, <1>7, DeviceAssumed
  DEF Device!DeviceAssumption, Device!PointerNamesTheActive, Device!LegacySettled, Device!ToldAsRecorded,
      Device!IInv
<1>11. (\A v \in Workers : Device!JobInv(v7[v]))'
  BY <1>2, <1>3, <1>7, <1>9, BindingOthersStable
<1>12. Device!IInv'
  BY <1>9, <1>10, <1>11 DEF Device!IInv, Device!JobInv
<1>13. Device!Active' # Device!Active => v2'.version > v2.version
  <2> SUFFICES ASSUME v2' = v2 PROVE Device!Active' = Device!Active
    BY <1>7
  <2> QED
    BY <1>1, <1>5, <1>7, DeviceAssumed DEF Device!DeviceAssumption, Device!IInv, Device!PointerNamesTheActive
<1> QED
  BY <1>12, <1>13

\* process_self_recovery: a receipt is written where there was none, so what any
\* client was told stays as recorded.
LEMMA BindingCommitRecoverStep ==
  ASSUME Device!IInv, NEW w \in Workers, Device!CommitRecover(w)
  PROVE  Device!IInv' /\ (Device!Active' # Device!Active => v2'.version > v2.version)
<1> DEFINE j == v7[w]
<1>1. /\ j \in Device!Jobs /\ Device!JobInv(j) /\ j.phase = "commit"
      /\ j.target \in Choices /\ j.id \in Recoveries
  BY DEF Device!IInv, Device!TypeOK, Device!JobInv, Device!CommitRecover, Device!Submitting
<1>2. Device!Unchanged(j) /\ Device!Replace(j) /\ Device!Finish(w) /\ UNCHANGED v1
  BY DEF Device!CommitRecover
<1>4. PICK k \in Device!Jobs : k = j
  BY <1>1
<1>5. /\ v3' \in [Choices -> Device!Statuses]
      /\ v4' \in [Choices -> SUBSET Device!Statuses]
      /\ Device!Active' = {j.target}
      /\ v2 # Device!NoPointer => j.active = v2.to
  BY <1>1, <1>2, <1>4, BindingReplaceFacts
<1>6. \/ Device!Point(j.target)
      \/ v2 # Device!NoPointer /\ j.active = j.target /\ UNCHANGED v2
  BY DEF Device!CommitRecover, Device!PointIfMoved
<1>7. /\ v2' \in Device!Pointers
      /\ v2' # Device!NoPointer
      /\ v2'.to = j.target
      /\ v2'.version > v2.version \/ v2' = v2
  BY <1>1, <1>5, <1>6, BindingPointFacts DEF Device!IInv, Device!TypeOK
<1>8. v7' \in [Workers -> Device!Jobs]
  BY <1>2, BindingIdleFacts DEF Device!Finish, Device!IInv, Device!TypeOK
<1>9. v6' \in 0 .. MaxRequests
  BY DeviceAssumed
  DEF Device!DeviceAssumption, Device!CommitRecover, Device!CountRequest, Device!IInv, Device!TypeOK
<1>10. v5[j.id] = None /\ v5' = [v5 EXCEPT ![j.id] = j.target]
  BY DEF Device!CommitRecover, Device!NewReceipt
<1>11. v8' \subseteq v8 \cup {<<j.id, j.target>>}
  BY DEF Device!CommitRecover
<1>12. v5' \in [Recoveries -> Choices \cup {None}] /\ v8' \subseteq Recoveries \X Choices
  BY <1>1, <1>10, <1>11 DEF Device!IInv, Device!TypeOK
<1>13. Device!TypeOK'
  BY <1>2, <1>5, <1>7, <1>8, <1>9, <1>12 DEF Device!IInv, Device!TypeOK
<1>14. Device!ToldAsRecorded'
  <2> SUFFICES ASSUME NEW t \in v8' PROVE v5'[t[1]] = t[2]
    BY DEF Device!ToldAsRecorded
  <2>1. CASE t = <<j.id, j.target>>
    BY <2>1, <1>1, <1>10 DEF Device!IInv, Device!TypeOK
  <2>2. CASE t \in v8
    <3>1. v5[t[1]] = t[2] /\ t[2] \in Choices /\ t[1] \in Recoveries
      BY <2>2 DEF Device!IInv, Device!TypeOK, Device!ToldAsRecorded
    <3>2. t[1] # j.id
      BY <3>1, <1>10, DeviceAssumed DEF Device!DeviceAssumption
    <3> QED
      BY <3>1, <3>2, <1>10 DEF Device!IInv, Device!TypeOK
  <2> QED
    BY <2>1, <2>2, <1>11
<1>15. (Device!PointerNamesTheActive /\ Device!LegacySettled)'
  BY <1>1, <1>5, <1>7, DeviceAssumed
  DEF Device!DeviceAssumption, Device!PointerNamesTheActive, Device!LegacySettled
<1>16. (\A v \in Workers : Device!JobInv(v7[v]))'
  BY <1>2, <1>7, <1>13, BindingOthersStable
<1>17. Device!IInv'
  BY <1>13, <1>14, <1>15, <1>16 DEF Device!IInv, Device!JobInv
<1>18. Device!Active' # Device!Active => v2'.version > v2.version
  <2> SUFFICES ASSUME v2' = v2 PROVE Device!Active' = Device!Active
    BY <1>7
  <2> QED
    BY <1>1, <1>5, <1>7, DeviceAssumed DEF Device!DeviceAssumption, Device!IInv, Device!PointerNamesTheActive
<1> QED
  BY <1>17, <1>18

\* The operator's reset: NONE names no device, and none is left active.
LEMMA BindingCommitResetStep ==
  ASSUME Device!IInv, NEW w \in Workers, Device!CommitReset(w)
  PROVE  Device!IInv' /\ v2'.version > v2.version
<1> DEFINE j == v7[w]
<1>1. j \in Device!Jobs /\ Device!JobInv(j) /\ j.phase = "commit" /\ j.target = None
  BY DEF Device!IInv, Device!TypeOK, Device!JobInv, Device!CommitReset, Device!Submitting
<1>2. Device!Unchanged(j) /\ Device!Finish(w) /\ UNCHANGED <<v1, v5, v6, v8>>
  BY DEF Device!CommitReset
<1>3. Device!Active \subseteq {j.active}
  BY <1>1, <1>2 DEF Device!JobInv, Device!Unchanged, Device!Available, Device!IInv, Device!PointerNamesTheActive
<1> DEFINE f == [d \in Choices |-> IF d = j.active THEN "INACTIVE" ELSE v3[d]]
<1>4. f \in [Choices -> Device!Statuses] /\ Device!SetDevices(f)
  BY DEF Device!IInv, Device!TypeOK, Device!Statuses, Device!CommitReset
<1>5. v3' \in [Choices -> Device!Statuses] /\ v4' \in [Choices -> SUBSET Device!Statuses]
  BY <1>4, BindingSetDevicesType DEF Device!IInv
<1>6. Device!Active' = {}
  BY <1>3, <1>4 DEF Device!SetDevices, Device!Active
<1>7. /\ v2' \in Device!Pointers
      /\ v2' # Device!NoPointer
      /\ v2'.to = None
      /\ v2'.version > v2.version
  BY BindingPointFacts DEF Device!IInv, Device!CommitReset
<1>8. v7' \in [Workers -> Device!Jobs]
  BY <1>2, BindingIdleFacts DEF Device!Finish, Device!IInv, Device!TypeOK
<1>9. Device!TypeOK'
  BY <1>2, <1>5, <1>7, <1>8 DEF Device!IInv, Device!TypeOK
<1>10. (Device!PointerNamesTheActive /\ Device!LegacySettled /\ Device!ToldAsRecorded)'
  BY <1>2, <1>6, <1>7 DEF Device!PointerNamesTheActive, Device!LegacySettled, Device!ToldAsRecorded, Device!IInv
<1>11. (\A v \in Workers : Device!JobInv(v7[v]))'
  BY <1>2, <1>7, <1>9, BindingOthersStable
<1> QED
  BY <1>7, <1>9, <1>10, <1>11 DEF Device!IInv

\* Answers taken from the receipt, and ends of invocations.
LEMMA BindingAnswerStep ==
  ASSUME Device!IInv, NEW w \in Workers,
         \/ \E r \in Recoveries, d \in Choices : Device!Replay(w, r, d)
         \/ Device!RereadReceipt(w) \/ Device!Cancelled(w) \/ Device!Crash(w)
  PROVE  Device!IInv'
<1>1. UNCHANGED <<v1, v2, v3, v4, v5, v6>>
  BY DEF Device!Replay, Device!RereadReceipt, Device!Cancelled, Device!Crash, Device!bindings
<1>2. Device!Active' = Device!Active
  BY <1>1 DEF Device!Active
<1>3. v8' \subseteq Recoveries \X Choices /\ \A t \in v8' : v5[t[1]] = t[2]
  <2>1. CASE \E r \in Recoveries, d \in Choices : Device!Replay(w, r, d)
    BY <2>1 DEF Device!Replay, Device!Replays, Device!IInv, Device!TypeOK, Device!ToldAsRecorded
  <2>2. CASE Device!RereadReceipt(w)
    <3>1. v7[w] \in Device!Jobs /\ v7[w].phase # "idle"
      BY <2>2 DEF Device!RereadReceipt, Device!IInv, Device!TypeOK
    <3>2. v8' \subseteq v8 \cup {<<v7[w].id, v7[w].target>>}
      BY <2>2 DEF Device!RereadReceipt
    <3>3. <<v7[w].id, v7[w].target>> \in v8' \ v8 =>
            /\ v7[w].id \in Recoveries /\ v7[w].target \in Choices
            /\ v5[v7[w].id] = v7[w].target
      BY <2>2 DEF Device!RereadReceipt, Device!Replays, Device!IInv, Device!JobInv
    <3> QED
      BY <3>2, <3>3 DEF Device!IInv, Device!TypeOK, Device!ToldAsRecorded
  <2>3. CASE Device!Cancelled(w) \/ Device!Crash(w)
    BY <2>3 DEF Device!Cancelled, Device!Crash, Device!IInv, Device!TypeOK, Device!ToldAsRecorded
  <2> QED
    BY <2>1, <2>2, <2>3
<1>4. \/ UNCHANGED v7
      \/ Device!Finish(w)
      \/ \E j \in Device!Jobs : j.phase = "reread" /\ j.request = "recover" /\ j.target \in Choices
                          /\ j.id \in Recoveries /\ v7' = [v7 EXCEPT ![w] = j]
  <2>1. CASE Device!Cancelled(w) /\ v7[w].request = "recover"
    <3>1. v7[w].id \in Recoveries /\ v7[w].target \in Choices
      BY <2>1 DEF Device!IInv, Device!JobInv
    <3> DEFINE j == [Device!Idle EXCEPT !.request = "recover", !.phase = "reread",
                                 !.target = v7[w].target, !.id = v7[w].id]
    <3>2. /\ j \in Device!Jobs /\ j.phase = "reread" /\ j.request = "recover"
          /\ j.target \in Choices /\ j.id \in Recoveries
      BY <3>1, BindingIdleFacts DEF Device!Idle, Device!Jobs, Device!Requests
    <3>3. v7' = [v7 EXCEPT ![w] = j]
      BY <2>1 DEF Device!Cancelled
    <3> QED
      BY <3>2, <3>3
  <2>2. CASE ~(Device!Cancelled(w) /\ v7[w].request = "recover")
    BY <2>2 DEF Device!Replay, Device!RereadReceipt, Device!Cancelled, Device!Crash
  <2> QED
    BY <2>1, <2>2
<1>5. v7' \in [Workers -> Device!Jobs]
  BY <1>4, BindingIdleFacts DEF Device!Finish, Device!IInv, Device!TypeOK
<1>6. Device!TypeOK'
  BY <1>1, <1>3, <1>5 DEF Device!IInv, Device!TypeOK
<1>7. (Device!PointerNamesTheActive /\ Device!LegacySettled /\ Device!ToldAsRecorded)'
  BY <1>1, <1>2, <1>3 DEF Device!PointerNamesTheActive, Device!LegacySettled, Device!ToldAsRecorded, Device!IInv
<1>8. (\A v \in Workers : Device!JobInv(v7[v]))'
  <2>1. CASE UNCHANGED v7
    BY <2>1, <1>1, <1>2 DEF Device!IInv, Device!JobInv
  <2>2. CASE Device!Finish(w)
    BY <2>2, <1>1, <1>2, <1>6, BindingOthersStable
  <2>3. CASE \E j \in Device!Jobs : j.phase = "reread" /\ j.request = "recover" /\ j.target \in Choices
                              /\ j.id \in Recoveries /\ v7' = [v7 EXCEPT ![w] = j]
    BY <2>3, <1>1, <1>2 DEF Device!IInv, Device!JobInv, Device!TypeOK
  <2> QED
    BY <1>4, <2>1, <2>2, <2>3
<1> QED
  BY <1>6, <1>7, <1>8 DEF Device!IInv

\* Rows that go away by themselves or with the account make no device active.
LEMMA BindingRemovalStep ==
  ASSUME Device!IInv,
         (\E d \in Choices : Device!ExpireDevice(d) \/ Device!EraseDevice(d)) \/ Device!ErasePointer
  PROVE  /\ Device!IInv'
         /\ Device!Active' \subseteq Device!Active /\ (Device!Active' # Device!Active => v1)
         /\ v2' \in {v2, Device!NoPointer}
<1>1. UNCHANGED <<v1, v5, v6, v7, v8>>
  BY DEF Device!ExpireDevice, Device!EraseDevice, Device!ErasePointer
<1>2. /\ v3' \in [Choices -> Device!Statuses]
      /\ v4' \in [Choices -> SUBSET Device!Statuses]
      /\ Device!Active' \subseteq Device!Active
  <2>1. CASE Device!ErasePointer
    BY <2>1 DEF Device!ErasePointer, Device!IInv, Device!TypeOK, Device!Active
  <2>2. ASSUME NEW d \in Choices, Device!ExpireDevice(d) \/ Device!EraseDevice(d)
        PROVE  /\ v3' \in [Choices -> Device!Statuses]
               /\ v4' \in [Choices -> SUBSET Device!Statuses]
               /\ Device!Active' \subseteq Device!Active
    <3>0. [v3 EXCEPT ![d] = "absent"] \in [Choices -> Device!Statuses]
      BY DEF Device!IInv, Device!TypeOK, Device!Statuses
    <3>1. Device!SetDevices([v3 EXCEPT ![d] = "absent"])
      BY <2>2 DEF Device!ExpireDevice, Device!EraseDevice
    <3>2. Device!Active' \subseteq Device!Active
      BY <3>1 DEF Device!SetDevices, Device!Active, Device!IInv, Device!TypeOK
    <3> QED
      BY <3>0, <3>1, <3>2, BindingSetDevicesType DEF Device!IInv
  <2> QED
    BY <2>1, <2>2
<1>3. /\ v2' \in {v2, Device!NoPointer}
      /\ v2' # v2 => v1
  BY DEF Device!ExpireDevice, Device!EraseDevice, Device!ErasePointer
<1>4. Device!TypeOK'
  BY <1>1, <1>2, <1>3 DEF Device!IInv, Device!TypeOK, Device!NoPointer, Device!Pointers
<1>5. \A e \in Choices : v3'[e] = "ACTIVE" => (v4'[e] = v4[e] \cup {"ACTIVE"} \/ v4' = v4)
                                                  /\ v3[e] = "ACTIVE"
  BY <1>2
  DEF Device!ExpireDevice, Device!EraseDevice, Device!ErasePointer, Device!SetDevices, Device!Active,
      Device!IInv, Device!TypeOK
<1>6. Device!LegacySettled'
  BY <1>1, <1>3, <1>5 DEF Device!LegacySettled, Device!IInv, Device!TypeOK
<1>7. Device!PointerNamesTheActive' /\ (Device!Active' # Device!Active => v1)
  <2>1. CASE \E d \in Choices : Device!ExpireDevice(d)
    <3>1. Device!Active' = Device!Active
      BY <2>1 DEF Device!ExpireDevice, Device!SetDevices, Device!Active, Device!IInv, Device!TypeOK
    <3> QED
      BY <2>1, <3>1 DEF Device!ExpireDevice, Device!PointerNamesTheActive, Device!IInv
  <2>2. CASE (\E d \in Choices : Device!EraseDevice(d)) \/ Device!ErasePointer
    BY <2>2 DEF Device!EraseDevice, Device!ErasePointer, Device!PointerNamesTheActive, Device!IInv
  <2> QED
    BY <2>1, <2>2
<1>8. Device!ToldAsRecorded'
  BY <1>1 DEF Device!ToldAsRecorded, Device!IInv
<1>9. (\A v \in Workers : Device!JobInv(v7[v]))'
  BY <1>1, <1>2, <1>3 DEF Device!IInv, Device!JobInv
<1> QED
  BY <1>2, <1>3, <1>4, <1>6, <1>7, <1>8, <1>9 DEF Device!IInv

\* The rate window, the receipts' time to live and the deletion request.
LEMMA BindingAroundStep ==
  ASSUME Device!IInv, Device!NextWindow \/ (\E r \in Recoveries : Device!ExpireReceipt(r)) \/ Device!RequestDeletion
  PROVE  Device!IInv'
<1>1. UNCHANGED <<v2, v3, v4>> /\ (v1 => v1')
  BY DEF Device!NextWindow, Device!ExpireReceipt, Device!RequestDeletion, Device!bindings
<1>2. Device!Active' = Device!Active
  BY <1>1 DEF Device!Active
<1>3. Device!TypeOK' /\ (\A v \in Workers : Device!JobInv(v7[v]))'
  <2>1. CASE Device!NextWindow
    <3>1. \A v \in Workers : v7[v] \in Device!Jobs /\ Device!Submitting(v, "recover") \in BOOLEAN
      BY DEF Device!IInv, Device!TypeOK, Device!Submitting
    <3>2. \A j \in Device!Jobs, b \in BOOLEAN : [j EXCEPT !.late = b] \in Device!Jobs
      BY DEF Device!Jobs
    <3>3. v7' \in [Workers -> Device!Jobs]
      BY <2>1, <3>1, <3>2 DEF Device!NextWindow
    <3>4. \A v \in Workers : /\ v7'[v].request = v7[v].request
                             /\ v7'[v].phase = v7[v].phase
                             /\ v7'[v].target = v7[v].target
                             /\ v7'[v].pointer = v7[v].pointer
                             /\ v7'[v].active = v7[v].active
                             /\ v7'[v].id = v7[v].id
      BY <2>1, <3>1 DEF Device!NextWindow, Device!Jobs
    <3>5. v6' \in 0 .. MaxRequests
      BY <2>1, DeviceAssumed DEF Device!DeviceAssumption, Device!NextWindow
    <3>6. Device!TypeOK'
      BY <2>1, <3>3, <3>5 DEF Device!NextWindow, Device!IInv, Device!TypeOK, Device!bindings
    <3>7. (\A v \in Workers : Device!JobInv(v7[v]))'
      BY <2>1, <3>4, <1>2 DEF Device!NextWindow, Device!IInv, Device!JobInv, Device!bindings
    <3> QED
      BY <3>6, <3>7
  <2>2. CASE (\E r \in Recoveries : Device!ExpireReceipt(r)) \/ Device!RequestDeletion
    <3>1. UNCHANGED <<v6, v7>>
      BY <2>2 DEF Device!ExpireReceipt, Device!RequestDeletion
    <3>2. v5' \in [Recoveries -> Choices \cup {None}] /\ v8' \subseteq v8
          /\ v1' \in BOOLEAN
      BY <2>2 DEF Device!ExpireReceipt, Device!RequestDeletion, Device!IInv, Device!TypeOK
    <3>3. Device!TypeOK'
      BY <3>1, <3>2, <1>1 DEF Device!IInv, Device!TypeOK
    <3>4. (\A v \in Workers : Device!JobInv(v7[v]))'
      BY <3>1, <1>1, <1>2 DEF Device!IInv, Device!JobInv
    <3> QED
      BY <3>3, <3>4
  <2> QED
    BY <2>1, <2>2
<1>4. Device!ToldAsRecorded'
  BY DEF Device!NextWindow, Device!ExpireReceipt, Device!RequestDeletion, Device!ToldAsRecorded, Device!IInv,
         Device!TypeOK
<1>5. (Device!PointerNamesTheActive /\ Device!LegacySettled)'
  BY <1>1, <1>2 DEF Device!PointerNamesTheActive, Device!LegacySettled, Device!IInv
<1> QED
  BY <1>3, <1>4, <1>5 DEF Device!IInv

-----------------------------------------------------------------------------

\* Every registration, recovery, reset, expiry and erasure keeps the invariant.
LEMMA BindingNextIInv == Device!IInv /\ [Device!Next]_(Device!vars) => Device!IInv'
<1> SUFFICES ASSUME Device!IInv, [Device!Next]_(Device!vars) PROVE Device!IInv'
  OBVIOUS
<1>1. CASE UNCHANGED Device!vars
  <2>1. UNCHANGED <<v1, v2, v3, v4, v5, v6, v7, v8>>
    BY <1>1 DEF Device!vars, Device!bindings
  <2>2. Device!Active' = Device!Active
    BY <2>1 DEF Device!Active
  <2> QED
    BY <2>1, <2>2
    DEF Device!IInv, Device!TypeOK, Device!PointerNamesTheActive, Device!LegacySettled, Device!ToldAsRecorded,
        Device!JobInv
<1>2. ASSUME NEW w \in Workers, Device!Invocation(w) PROVE Device!IInv'
  BY <1>2, BindingBeginRegisterStep, BindingBeginRestoreStep, BindingBeginRecoverStep, BindingBeginResetStep,
     BindingCommitStep, BindingCommitRecoverStep, BindingCommitResetStep, BindingAnswerStep
  DEF Device!Invocation
<1>3. CASE (\E d \in Choices : Device!ExpireDevice(d) \/ Device!EraseDevice(d)) \/ Device!ErasePointer
  BY <1>3, BindingRemovalStep
<1>4. CASE Device!NextWindow \/ (\E r \in Recoveries : Device!ExpireReceipt(r)) \/ Device!RequestDeletion
  BY <1>4, BindingAroundStep
<1> QED
  BY <1>1, <1>2, <1>3, <1>4 DEF Device!Next

\* A new binding has a new version, and behind a deletion there is none.
LEMMA BindingSoundStep ==
  ASSUME Device!IInv, Device!Next PROVE Device!BindingStepsSound
<1>1. ASSUME Device!Active' # Device!Active, ~v1 PROVE v2'.version > v2.version
  <2>1. CASE \E w \in Workers : \/ Device!CommitRegister(w) \/ Device!CommitRestore(w)
                               \/ Device!CommitRecover(w) \/ Device!CommitReset(w)
    BY <1>1, <2>1, BindingCommitStep, BindingCommitRecoverStep, BindingCommitResetStep
  <2>2. CASE (\E d \in Choices : Device!ExpireDevice(d) \/ Device!EraseDevice(d)) \/ Device!ErasePointer
    BY <1>1, <2>2, BindingRemovalStep
  <2>3. CASE UNCHANGED v3
    BY <1>1, <2>3 DEF Device!Active
  <2> QED
    BY <2>1, <2>2, <2>3
    DEF Device!Next, Device!Invocation, Device!BeginRegister, Device!BeginRestore, Device!BeginRecover,
        Device!BeginReset, Device!Begin, Device!Replay,
        Device!RereadReceipt, Device!Cancelled, Device!Crash, Device!NextWindow,
        Device!ExpireReceipt, Device!RequestDeletion, Device!bindings
<1>2. ASSUME v1 PROVE Device!Active' \subseteq Device!Active /\ v2' \in {v2, Device!NoPointer}
  <2>1. CASE (\E d \in Choices : Device!ExpireDevice(d) \/ Device!EraseDevice(d)) \/ Device!ErasePointer
    BY <1>2, <2>1, BindingRemovalStep
  <2>2. CASE UNCHANGED <<v3, v2>>
    BY <2>2 DEF Device!Active
  <2> QED
    BY <1>2, <2>1, <2>2
    DEF Device!Next, Device!Invocation, Device!BeginRegister, Device!BeginRestore, Device!BeginRecover,
        Device!BeginReset, Device!Begin, Device!Replay,
        Device!CommitRegister, Device!CommitRestore, Device!CommitRecover, Device!CommitReset,
        Device!Unchanged, Device!Available,
        Device!RereadReceipt, Device!Cancelled, Device!Crash, Device!NextWindow,
        Device!ExpireReceipt, Device!RequestDeletion, Device!bindings
<1> QED BY <1>1, <1>2 DEF Device!BindingStepsSound, Device!SwitchVersioned, Device!NoBindingAfterDeletion

-----------------------------------------------------------------------------
(* LegacyRequest                                                           *)

\* The times and amounts of the settings.
LEMMA RequestsSettings ==
  /\ RequestLease \in Nat /\ RequestTtl \in Nat /\ Monthly \in Nat /\ Credits \in Nat
  /\ MaxRate \in Nat /\ RequestTime \in Nat
  /\ None \notin Choices /\ None \notin Contents
BY RequestsAssumed DEF Requested!RequestAssumption

\* What an invocation holds in its phases.
Locked == [phase : {"prepare", "resume"}, request : Choices, hash : Contents]
Asking == [phase : {"model", "commit"}, request : Choices, hash : Contents, seen : Requested!Allowances]
Replaying == [phase : {"replay", "authority"}, request : Choices, hash : Contents, row : Requested!Rows]
Telling == [phase : {"told"}, request : Choices, hash : Contents, answer : Contents]

\* The phase says which of them it is.
LEMMA RequestsJob ==
  ASSUME NEW w \in Workers, Requested!JobInv(w)
  PROVE  /\ v7[w].phase \in {"prepare", "resume"} => v7[w] \in Locked
         /\ v7[w].phase \in {"model", "commit"} =>
              v7[w] \in Asking /\ v7[w].seen \in Requested!Allowances /\ v7[w].seen.monthly + v7[w].seen.credits > 0
         /\ v7[w].phase \in {"replay", "authority"} => v7[w] \in Replaying /\ v7[w].row.answer = v7[w].hash
         /\ v7[w].phase \in {"prepare", "resume", "model", "commit", "replay", "authority"} =>
              v7[w].request \in Choices /\ v7[w].hash \in Contents
BY DEF Requested!JobInv, Requested!Idle, Locked, Asking, Replaying

\* A step moves one invocation: the others know what they knew.
LEMMA RequestsGo ==
  ASSUME Requested!IInv, NEW w \in Workers, NEW j, v7' = [v7 EXCEPT ![w] = j], Requested!JobInv(w)'
  PROVE  DOMAIN v7' = Workers /\ \A x \in Workers : Requested!JobInv(x)'
<1>1. DOMAIN v7 = Workers /\ \A x \in Workers : Requested!JobInv(x)
  BY DEF Requested!IInv
<1>2. ASSUME NEW x \in Workers PROVE Requested!JobInv(x)'
  <2>1. CASE x = w
    BY <2>1
  <2>2. CASE x # w
    <3>1. v7'[x] = v7[x] /\ Requested!JobInv(x)
      BY <2>2, <1>1
    <3> QED BY <3>1 DEF Requested!JobInv
  <2> QED BY <2>1, <2>2
<1> QED BY <1>1, <1>2

\* What one invocation may tell.
Told(w) ==
  v7'[w].phase = "told" /\ v7[w].phase # "told" =>
    /\ v7'[w].answer = v7'[w].hash
    /\ v2.state = "ACTIVE"
    /\ v7[w].phase = "authority" => v2.device = "bound" /\ v1 < v7[w].row.expires

\* Only the one that moves tells anything.
LEMMA RequestsTold ==
  ASSUME NEW w \in Workers, NEW j, DOMAIN v7 = Workers, v7' = [v7 EXCEPT ![w] = j], Told(w)
  PROVE  Requested!ToldBehindCharge
<1>1. ASSUME NEW x \in Workers PROVE Told(x)
  <2>1. CASE x # w
    BY <2>1 DEF Told
  <2> QED BY <2>1
<1> QED BY <1>1 DEF Requested!ToldBehindCharge, Told

\* A step of one invocation that leaves the rows and the charges.
LEMMA RequestsRest ==
  ASSUME Requested!IInv, NEW w \in Workers, NEW j, v7' = [v7 EXCEPT ![w] = j], Requested!JobInv(w)', Told(w),
         v1' = v1, v2' = v2, v3' = v3, v5' = v5, v6' \in 0 .. MaxRate, v8' = v8
  PROVE  Requested!IInv' /\ Requested!ChargesAddUp /\ Requested!ToldBehindCharge
<1>1. DOMAIN v7' = Workers /\ \A x \in Workers : Requested!JobInv(x)'
  BY RequestsGo
<1>2. Requested!ToldBehindCharge
  BY RequestsTold DEF Requested!IInv
<1>3. \A q \in Choices : v8'[q] \in {0, 1} /\ Requested!RowInv(q)'
  BY DEF Requested!IInv, Requested!RowInv
<1>4. Requested!IInv'
  BY <1>1, <1>3 DEF Requested!IInv
<1> QED BY <1>2, <1>4 DEF Requested!ChargesAddUp

\* A step of one invocation at one row.
LEMMA RequestsRow ==
  ASSUME Requested!IInv, NEW w \in Workers, NEW q \in Choices, NEW j,
         v7' = [v7 EXCEPT ![w] = j], Requested!JobInv(w)', Told(w), Requested!ChargesAddUp,
         v1' = v1, v2' = v2, v6' = v6, v5' \in Requested!Allowances,
         DOMAIN v3' = Choices, DOMAIN v8' = Choices,
         \A r \in Choices \ {q} : v3'[r] = v3[r] /\ v8'[r] = v8[r],
         v8'[q] \in {0, 1}, Requested!RowInv(q)'
  PROVE  Requested!IInv' /\ Requested!ChargesAddUp /\ Requested!ToldBehindCharge
<1>1. ASSUME NEW r \in Choices PROVE v8'[r] \in {0, 1} /\ Requested!RowInv(r)'
  <2>1. CASE r = q
    BY <2>1
  <2>2. CASE r # q
    <3>1. v3'[r] = v3[r] /\ v8'[r] = v8[r] /\ v8[r] \in {0, 1} /\ Requested!RowInv(r)
      BY <2>2 DEF Requested!IInv
    <3> QED BY <3>1 DEF Requested!RowInv
  <2> QED BY <2>1, <2>2
<1>2. DOMAIN v7' = Workers /\ \A x \in Workers : Requested!JobInv(x)'
  BY RequestsGo
<1>3. Requested!ToldBehindCharge
  BY RequestsTold DEF Requested!IInv
<1>4. Requested!IInv'
  BY <1>1, <1>2 DEF Requested!IInv
<1> QED BY <1>3, <1>4

\* A request begins: its row is leased, found completed or found answered.
LEMMA RequestsBegins ==
  ASSUME Requested!IInv, NEW w \in Workers, NEW q \in Choices, NEW h \in Contents,
         Requested!Lock(w, q, h) \/ Requested!Resume(w, q, h) \/ Requested!Return(w, q, h)
           \/ Requested!ReplayRead(w, q, h)
  PROVE  Requested!IInv' /\ Requested!ChargesAddUp /\ Requested!ToldBehindCharge
<1>1. /\ DOMAIN v7 = Workers /\ DOMAIN v3 = Choices /\ DOMAIN v8 = Choices
      /\ v1 \in Nat /\ v5 \in Requested!Allowances /\ v6 \in 0 .. MaxRate
      /\ v8[q] \in {0, 1} /\ Requested!RowInv(q)
  BY RequestsSettings DEF Requested!IInv
<1>2. CASE Requested!Lock(w, q, h)
  <2> DEFINE j == [phase |-> "prepare", request |-> q, hash |-> h]
             row == Requested!Leased(h, w)
  <2>1. /\ v7' = [v7 EXCEPT ![w] = j] /\ v3' = [v3 EXCEPT ![q] = row]
        /\ v1' = v1 /\ v2' = v2 /\ v5' = v5 /\ v6' = v6
        /\ v8' = [v8 EXCEPT ![q] = 0] \/ (v8' = v8 /\ v3[q] # None /\ v3[q].status = "PROCESSING")
    BY <1>2 DEF Requested!Lock, Requested!LockNew, Requested!TakeOver, Requested!Go, Requested!Live
  <2>2. row \in Requested!Rows /\ row.status = "PROCESSING"
    BY <1>1, RequestsSettings DEF Requested!Leased, Requested!Rows
  <2> HIDE DEF row
  <2>3. v7'[w] = j /\ j.phase = "prepare" /\ j \in Locked
    BY <2>1, <1>1 DEF Locked
  <2> HIDE DEF j
  <2>4. Requested!JobInv(w)' /\ Told(w)
    BY <2>3 DEF Requested!JobInv, Told, Locked
  <2>5. v8'[q] = 0 /\ v3'[q] = row
    BY <2>1, <1>1 DEF Requested!RowInv
  <2>6. Requested!RowInv(q)'
    BY <2>2, <2>5 DEF Requested!RowInv
  <2>7. /\ DOMAIN v3' = Choices /\ DOMAIN v8' = Choices
        /\ \A r \in Choices \ {q} : v3'[r] = v3[r] /\ v8'[r] = v8[r]
        /\ Requested!ChargesAddUp
    BY <2>1, <1>1 DEF Requested!ChargesAddUp
  <2> QED BY <2>1, <2>4, <2>5, <2>6, <2>7, <1>1, RequestsRow
<1>3. CASE Requested!Resume(w, q, h)
  <2> DEFINE j == [phase |-> "resume", request |-> q, hash |-> h]
  <2>1. v7' = [v7 EXCEPT ![w] = j] /\ v1' = v1 /\ v2' = v2 /\ v3' = v3 /\ v5' = v5 /\ v6' = v6 /\ v8' = v8
    BY <1>3 DEF Requested!Resume, Requested!Go
  <2>2. v7'[w] = j /\ j.phase = "resume" /\ j \in Locked
    BY <2>1, <1>1 DEF Locked
  <2> HIDE DEF j
  <2>3. Requested!JobInv(w)' /\ Told(w)
    BY <2>2 DEF Requested!JobInv, Told, Locked
  <2> QED BY <2>1, <2>3, <1>1, RequestsRest
<1>4. CASE Requested!Return(w, q, h)
  <2> DEFINE j == [phase |-> "told", request |-> q, hash |-> h, answer |-> v3[q].answer]
  <2>1. /\ v7' = [v7 EXCEPT ![w] = j] /\ v1' = v1 /\ v2' = v2 /\ v3' = v3 /\ v5' = v5 /\ v6' = v6 /\ v8' = v8
        /\ v7[w] = Requested!Idle /\ v2.state = "ACTIVE"
        /\ v3[q] # None /\ v3[q].status = "COMPLETED" /\ v3[q].hash = h
    BY <1>4 DEF Requested!Return, Requested!Go, Requested!Active, Requested!Live
  <2>2. v3[q].answer = h
    BY <2>1, <1>1 DEF Requested!RowInv
  <2>3. v7'[w] = j /\ j \in Telling /\ j.answer = j.hash
    BY <2>1, <2>2, <1>1 DEF Telling
  <2> HIDE DEF j
  <2>4. Requested!JobInv(w)' /\ Told(w)
    BY <2>1, <2>3 DEF Requested!JobInv, Told, Telling, Requested!Idle
  <2> QED BY <2>1, <2>4, <1>1, RequestsRest
<1>5. CASE Requested!ReplayRead(w, q, h)
  <2> DEFINE j == [phase |-> "replay", request |-> q, hash |-> h, row |-> v3[q]]
  <2>1. /\ v7' = [v7 EXCEPT ![w] = j] /\ v1' = v1 /\ v2' = v2 /\ v3' = v3 /\ v5' = v5 /\ v6' = v6 /\ v8' = v8
        /\ v3[q] # None /\ v3[q].status = "COMPLETED" /\ v3[q].hash = h
    BY <1>5 DEF Requested!ReplayRead, Requested!Replayable, Requested!Go, Requested!Live
  <2>2. v3[q].answer = h /\ v3[q] \in Requested!Rows
    BY <2>1, <1>1 DEF Requested!RowInv
  <2>3. v7'[w] = j /\ j \in Replaying /\ j.phase = "replay" /\ j.row.answer = j.hash
    BY <2>1, <2>2, <1>1 DEF Replaying
  <2> HIDE DEF j
  <2>4. Requested!JobInv(w)' /\ Told(w)
    BY <2>1, <2>3 DEF Requested!JobInv, Told, Replaying
  <2> QED BY <2>1, <2>4, <1>1, RequestsRest
<1> QED BY <1>2, <1>3, <1>4, <1>5

\* An invocation prepares, gives up, or looks again at what it replays.
LEMMA RequestsReads ==
  ASSUME Requested!IInv, NEW w \in Workers,
         Requested!Prepare(w) \/ Requested!GiveUp(w) \/ Requested!ReplayAgain(w) \/ Requested!ReplayTell(w)
  PROVE  Requested!IInv' /\ Requested!ChargesAddUp /\ Requested!ToldBehindCharge
<1>1. /\ DOMAIN v7 = Workers /\ Requested!JobInv(w)
      /\ v5 \in Requested!Allowances /\ v6 \in 0 .. MaxRate
  BY DEF Requested!IInv
<1>2. CASE Requested!Prepare(w)
  <2> DEFINE i == v7[w]
             j == [phase |-> IF i.phase = "resume" THEN "commit" ELSE "model",
                   request |-> i.request, hash |-> i.hash, seen |-> v5]
  <2>1. /\ v7' = [v7 EXCEPT ![w] = j] /\ v1' = v1 /\ v2' = v2 /\ v3' = v3 /\ v5' = v5 /\ v8' = v8
        /\ v6' = v6 + 1 /\ v6 < MaxRate /\ i.phase \in {"prepare", "resume"} /\ v5.monthly + v5.credits > 0
    BY <1>2 DEF Requested!Prepare, Requested!Go
  <2>2. i.request \in Choices /\ i.hash \in Contents
    BY <2>1, <1>1, RequestsJob
  <2>3. v7'[w] = j
    BY <2>1, <1>1
  <2> HIDE DEF i
  <2>4. j \in Asking /\ j.seen = v5 /\ j.phase \in {"commit", "model"}
    BY <2>2, <1>1 DEF Asking
  <2> HIDE DEF j
  <2>5. Requested!JobInv(w)' /\ Told(w)
    BY <2>1, <2>3, <2>4 DEF Requested!JobInv, Told, Asking
  <2>6. v6' \in 0 .. MaxRate
    BY <2>1, <1>1, RequestsSettings
  <2> QED BY <2>1, <2>5, <2>6, RequestsRest
<1>3. CASE Requested!GiveUp(w)
  <2>1. /\ v7' = [v7 EXCEPT ![w] = Requested!Idle]
        /\ v1' = v1 /\ v2' = v2 /\ v3' = v3 /\ v5' = v5 /\ v6' = v6 /\ v8' = v8
    BY <1>3 DEF Requested!GiveUp, Requested!Go
  <2>2. v7'[w] = Requested!Idle
    BY <2>1, <1>1
  <2>3. Requested!JobInv(w)' /\ Told(w)
    BY <2>2 DEF Requested!JobInv, Told, Requested!Idle
  <2> QED BY <2>1, <2>3, <1>1, RequestsRest
<1>4. CASE Requested!ReplayAgain(w)
  <2> DEFINE i == v7[w]
             j == [i EXCEPT !.phase = "authority"]
  <2>1. /\ v7' = [v7 EXCEPT ![w] = j] /\ v1' = v1 /\ v2' = v2 /\ v3' = v3 /\ v5' = v5 /\ v6' = v6 /\ v8' = v8
        /\ i.phase = "replay"
    BY <1>4 DEF Requested!ReplayAgain, Requested!Go
  <2>2. i \in Replaying /\ i.row.answer = i.hash
    BY <2>1, <1>1, RequestsJob
  <2>3. v7'[w] = j
    BY <2>1, <1>1
  <2> HIDE DEF i
  <2>4. j \in Replaying /\ j.phase = "authority" /\ j.row = i.row /\ j.hash = i.hash
    BY <2>2 DEF Replaying
  <2> HIDE DEF j
  <2>5. Requested!JobInv(w)' /\ Told(w)
    BY <2>2, <2>3, <2>4 DEF Requested!JobInv, Told, Replaying
  <2> QED BY <2>1, <2>5, <1>1, RequestsRest
<1>5. CASE Requested!ReplayTell(w)
  <2> DEFINE answer == v7[w].row.answer
             j == [phase |-> "told", request |-> v7[w].request, hash |-> v7[w].hash, answer |-> answer]
  <2>1. /\ v7' = [v7 EXCEPT ![w] = j] /\ v1' = v1 /\ v2' = v2 /\ v3' = v3 /\ v5' = v5 /\ v6' = v6 /\ v8' = v8
        /\ v7[w].phase = "authority" /\ v2.state = "ACTIVE" /\ v2.device = "bound" /\ v1 < v7[w].row.expires
    BY <1>5 DEF Requested!ReplayTell, Requested!Go, Requested!Authority, Requested!Active
  <2>2. v7[w].request \in Choices /\ v7[w].hash \in Contents /\ answer = v7[w].hash
    BY <2>1, <1>1, RequestsJob
  <2> HIDE DEF answer
  <2>3. v7'[w] = j
    BY <2>1, <1>1
  <2>4. j \in Telling /\ j.answer = j.hash /\ j.phase = "told"
    BY <2>2 DEF Telling
  <2> HIDE DEF j
  <2>5. Requested!JobInv(w)' /\ Told(w)
    BY <2>1, <2>3, <2>4 DEF Requested!JobInv, Told, Telling
  <2> QED BY <2>1, <2>5, <1>1, RequestsRest
<1> QED BY <1>2, <1>3, <1>4, <1>5

\* A lease is released, an answer is kept, a charge is committed: the row is the one of
\* the invocation's request.
LEMMA RequestsWritten ==
  ASSUME Requested!IInv, NEW w \in Workers, NEW q \in Choices, q = v7[w].request, v7[w].hash \in Contents,
         Requested!Release(w) \/ Requested!StoreResult(w) \/ Requested!Commit(w)
  PROVE  Requested!IInv' /\ Requested!ChargesAddUp /\ Requested!ToldBehindCharge
<1> DEFINE i == v7[w]
<1>1. /\ DOMAIN v7 = Workers /\ DOMAIN v3 = Choices /\ DOMAIN v8 = Choices
      /\ v6 \in 0 .. MaxRate /\ v1 \in Nat /\ v5 \in Requested!Allowances /\ Requested!JobInv(w)
      /\ v8[q] \in {0, 1} /\ Requested!RowInv(q)
      /\ i.hash \in Contents /\ q = i.request
  BY RequestsSettings DEF Requested!IInv
<1>2. CASE Requested!Release(w)
  <2>1. /\ v7' = [v7 EXCEPT ![w] = Requested!Idle] /\ v1' = v1 /\ v2' = v2 /\ v5' = v5 /\ v6' = v6 /\ v8' = v8
        /\ v3' = v3 \/ v3' = [v3 EXCEPT ![q] = None]
    BY <1>2 DEF Requested!Release, Requested!Go
  <2>2. v7'[w] = Requested!Idle
    BY <2>1, <1>1
  <2>3. Requested!JobInv(w)' /\ Told(w) /\ Requested!ChargesAddUp
    BY <2>1, <2>2 DEF Requested!JobInv, Told, Requested!Idle, Requested!ChargesAddUp
  <2>4. /\ v3'[q] = None \/ v3'[q] = v3[q]
        /\ v8'[q] = v8[q] /\ DOMAIN v3' = Choices /\ DOMAIN v8' = Choices
        /\ \A r \in Choices \ {q} : v3'[r] = v3[r] /\ v8'[r] = v8[r]
    BY <2>1, <1>1
  <2>5. Requested!RowInv(q)'
    BY <2>4, <1>1 DEF Requested!RowInv
  <2> HIDE DEF i
  <2> QED BY <2>1, <2>3, <2>4, <2>5, <1>1, RequestsRow
<1>3. CASE Requested!StoreResult(w)
  <2> DEFINE row == [v3[q] EXCEPT !.status = "RESULT_READY", !.token = None, !.answer = i.hash, !.expires = v1 + RequestTtl]
             j == [i EXCEPT !.phase = "commit"]
  <2>1. /\ v7' = [v7 EXCEPT ![w] = j] /\ v1' = v1 /\ v2' = v2 /\ v5' = v5 /\ v6' = v6 /\ v8' = v8
        /\ v3' = [v3 EXCEPT ![q] = row] /\ v3[q] # None /\ v3[q].status = "PROCESSING" /\ v3[q].hash = i.hash
        /\ i.phase = "model"
    BY <1>3 DEF Requested!StoreResult, Requested!Go
  <2>2. i \in Asking /\ i.seen \in Requested!Allowances /\ i.seen.monthly + i.seen.credits > 0
    BY <2>1, <1>1, RequestsJob
  <2>3. v3[q] \in Requested!Rows /\ v8[q] = 0
    BY <2>1, <1>1 DEF Requested!RowInv
  <2>4. v7'[w] = j
    BY <2>1, <1>1
  <2> HIDE DEF i
  <2>5. j \in Asking /\ j.seen = i.seen /\ j.phase = "commit"
    BY <2>2 DEF Asking
  <2> HIDE DEF j
  <2>6. Requested!JobInv(w)' /\ Told(w)
    BY <2>2, <2>4, <2>5 DEF Requested!JobInv, Told, Asking
  <2>7. row \in Requested!Rows /\ row.status = "RESULT_READY" /\ row.answer = row.hash
    <3> DEFINE old == v3[q]
    <3>1. old \in Requested!Rows /\ old.hash = i.hash /\ i.hash \in Contents /\ v1 + RequestTtl \in Nat
      BY <2>1, <2>3, <1>1, RequestsSettings
    <3>2. row = [old EXCEPT !.status = "RESULT_READY", !.token = None, !.answer = i.hash, !.expires = v1 + RequestTtl]
      OBVIOUS
    <3> HIDE DEF old, row
    <3> QED BY <3>1, <3>2 DEF Requested!Rows
  <2> HIDE DEF row
  <2>8. v3'[q] = row /\ v8'[q] = 0 /\ \A r \in Choices \ {q} : v3'[r] = v3[r] /\ v8'[r] = v8[r]
    BY <2>1, <2>3, <1>1
  <2>9. Requested!RowInv(q)'
    BY <2>7, <2>8 DEF Requested!RowInv
  <2>10. DOMAIN v3' = Choices /\ DOMAIN v8' = Choices /\ v5' \in Requested!Allowances /\ Requested!ChargesAddUp
    BY <2>1, <1>1 DEF Requested!ChargesAddUp
  <2> QED BY <2>1, <2>6, <2>8, <2>9, <2>10, RequestsRow
<1>4. CASE Requested!Commit(w)
  <2> DEFINE row == [v3[q] EXCEPT !.status = "COMPLETED", !.expires = v1 + RequestTtl]
             answer == v3[q].answer
             j == [phase |-> "told", request |-> q, hash |-> i.hash, answer |-> answer]
  <2>1. /\ v7' = [v7 EXCEPT ![w] = j] /\ v1' = v1 /\ v2' = v2 /\ v6' = v6
        /\ v5' = Requested!Consume(i.seen, q) /\ v5 = i.seen
        /\ v8' = [v8 EXCEPT ![q] = IF i.seen.last = q THEN v8[q] ELSE v8[q] + 1]
        /\ v3' = [v3 EXCEPT ![q] = row] /\ v3[q] # None /\ v3[q].status = "RESULT_READY" /\ v3[q].hash = i.hash
        /\ i.phase = "commit" /\ v2.state = "ACTIVE"
    BY <1>4 DEF Requested!Commit, Requested!Go, Requested!Active, Requested!SameAllowance
  <2>2. i.seen \in Requested!Allowances /\ i.seen.monthly + i.seen.credits > 0
    BY <2>1, <1>1, RequestsJob
  <2>3. v3[q] \in Requested!Rows /\ v8[q] = 0 /\ answer = i.hash
    BY <2>1, <1>1 DEF Requested!RowInv
  <2>4. row \in Requested!Rows /\ row.status = "COMPLETED" /\ row.answer = row.hash
    <3> DEFINE old == v3[q]
    <3>1. old \in Requested!Rows /\ old.answer = old.hash /\ v1 + RequestTtl \in Nat
      BY <2>1, <2>3, <1>1, RequestsSettings
    <3>2. row = [old EXCEPT !.status = "COMPLETED", !.expires = v1 + RequestTtl]
      OBVIOUS
    <3> HIDE DEF old, row
    <3> QED BY <3>1, <3>2 DEF Requested!Rows
  <2>5. v7'[w] = j
    BY <2>1, <1>1
  <2> HIDE DEF answer
  <2>6. j \in Telling /\ j.answer = j.hash /\ j.phase = "told"
    BY <2>3, <1>1 DEF Telling
  <2> HIDE DEF j
  <2>7. Requested!JobInv(w)' /\ Told(w)
    BY <2>1, <2>5, <2>6 DEF Requested!JobInv, Told, Telling
  <2>8. v5' \in Requested!Allowances /\ Requested!ChargesAddUp
    <3> DEFINE s == i.seen
    <3>1. /\ s \in Requested!Allowances /\ s.monthly \in 0 .. Monthly /\ s.credits \in 0 .. Credits /\ s.version \in Nat
          /\ s.monthly + s.credits > 0 /\ v5 = s /\ v5' = Requested!Consume(s, q)
      BY <2>1, <2>2 DEF Requested!Allowances
    <3> HIDE DEF s
    <3>2. CASE s.last = q
      BY <3>1, <3>2 DEF Requested!Consume, Requested!ChargesAddUp
    <3>3. CASE s.last # q /\ s.monthly > 0
      <4>1. v5' = [monthly |-> s.monthly - 1, credits |-> s.credits, last |-> q, version |-> s.version + 1]
        BY <3>1, <3>3 DEF Requested!Consume
      <4> QED BY <4>1, <3>1, <3>3, RequestsSettings DEF Requested!Allowances, Requested!ChargesAddUp
    <3>4. CASE s.last # q /\ ~(s.monthly > 0)
      <4>1. v5' = [monthly |-> 0, credits |-> s.credits - 1, last |-> q, version |-> s.version + 1]
        BY <3>1, <3>4 DEF Requested!Consume
      <4> QED BY <4>1, <3>1, <3>4, RequestsSettings DEF Requested!Allowances, Requested!ChargesAddUp
    <3> QED BY <3>2, <3>3, <3>4
  <2> HIDE DEF row
  <2>9. v3'[q] = row /\ v8'[q] \in {0, 1} /\ \A r \in Choices \ {q} : v3'[r] = v3[r] /\ v8'[r] = v8[r]
    BY <2>1, <2>3, <1>1
  <2>10. Requested!RowInv(q)'
    BY <2>4, <2>9 DEF Requested!RowInv
  <2>11. DOMAIN v3' = Choices /\ DOMAIN v8' = Choices
    BY <2>1, <1>1
  <2> HIDE DEF i
  <2> QED BY <2>1, <2>7, <2>8, <2>9, <2>10, <2>11, RequestsRow
<1> QED BY <1>2, <1>3, <1>4

\* The same, for the request the invocation has.
LEMMA RequestsWrites ==
  ASSUME Requested!IInv, NEW w \in Workers,
         Requested!Release(w) \/ Requested!StoreResult(w) \/ Requested!Commit(w)
  PROVE  Requested!IInv' /\ Requested!ChargesAddUp /\ Requested!ToldBehindCharge
<1>1. Requested!JobInv(w)
  BY DEF Requested!IInv
<1>2. v7[w].phase \in {"prepare", "model", "commit"}
  BY DEF Requested!Release, Requested!StoreResult, Requested!Commit
<1>3. v7[w].request \in Choices /\ v7[w].hash \in Contents
  BY <1>1, <1>2, RequestsJob
<1> QED BY <1>3, RequestsWritten

\* The account, the device, the table's own expiry and the clock.
LEMMA RequestsAround ==
  ASSUME Requested!IInv,
         \/ \E q \in Choices : Requested!Expire(q)
         \/ Requested!Delete \/ Requested!Erase \/ Requested!ReplaceDevice \/ Requested!Tick
  PROVE  Requested!IInv' /\ Requested!ChargesAddUp /\ Requested!ToldBehindCharge
<1>1. v5' = v5 /\ v7' = v7 /\ v8' = v8
  BY DEF Requested!Expire, Requested!Delete, Requested!Erase, Requested!ReplaceDevice, Requested!Tick
<1>2. Requested!ChargesAddUp /\ Requested!ToldBehindCharge
  BY <1>1 DEF Requested!ChargesAddUp, Requested!ToldBehindCharge
<1>3. v1' \in 0 .. RequestTime
  BY RequestsSettings DEF Requested!IInv, Requested!Expire, Requested!Delete, Requested!Erase, Requested!ReplaceDevice,
     Requested!Tick
<1>4. v6' \in 0 .. MaxRate
  BY RequestsSettings DEF Requested!IInv, Requested!Expire, Requested!Delete, Requested!Erase, Requested!ReplaceDevice,
     Requested!Tick
<1>5. v2' \in [state : {"ACTIVE", "DELETING", "ERASED"}, device : {"bound", "replaced"}]
  BY DEF Requested!IInv, Requested!Expire, Requested!Delete, Requested!Erase, Requested!ReplaceDevice, Requested!Tick
<1>6. DOMAIN v3' = Choices /\ \A q \in Choices : v3'[q] = None \/ v3'[q] = v3[q]
  BY DEF Requested!IInv, Requested!Expire, Requested!Delete, Requested!Erase, Requested!ReplaceDevice, Requested!Tick
<1>7. ASSUME NEW q \in Choices PROVE v8'[q] \in {0, 1} /\ Requested!RowInv(q)'
  <2>1. v8[q] \in {0, 1} /\ Requested!RowInv(q) /\ (v3'[q] = None \/ v3'[q] = v3[q]) /\ v8' = v8
    BY <1>1, <1>6 DEF Requested!IInv
  <2> QED BY <2>1 DEF Requested!RowInv
<1>8. ASSUME NEW x \in Workers PROVE Requested!JobInv(x)'
  <2>1. Requested!JobInv(x) /\ v7' = v7
    BY <1>1 DEF Requested!IInv
  <2> QED BY <2>1 DEF Requested!JobInv
<1> QED BY <1>1, <1>2, <1>3, <1>4, <1>5, <1>6, <1>7, <1>8 DEF Requested!IInv

\* It begins so.
LEMMA RequestsBegin == ASSUME Requested!Init PROVE Requested!IInv
<1> USE RequestsSettings
<1>1. v5 \in Requested!Allowances
  BY DEF Requested!Init, Requested!Allowances
<1>2. \A q \in Choices : v8[q] \in {0, 1} /\ Requested!RowInv(q)
  BY DEF Requested!Init, Requested!RowInv
<1>3. \A w \in Workers : Requested!JobInv(w)
  BY DEF Requested!Init, Requested!JobInv
<1> QED BY <1>1, <1>2, <1>3 DEF Requested!Init, Requested!IInv

\* Every step keeps the invariant, charges soundly and tells behind the charge.
LEMMA RequestsStep ==
  ASSUME Requested!IInv, Requested!Next
  PROVE  Requested!IInv' /\ Requested!ChargesAddUp /\ Requested!ToldBehindCharge
BY RequestsBegins, RequestsReads, RequestsWrites, RequestsAround DEF Requested!Next

\* What the invariant is for.
LEMMA RequestsKept ==
  ASSUME Requested!IInv PROVE Requested!TypeOK /\ Requested!ChargedOnce
<1>1. Requested!TypeOK
  BY DEF Requested!IInv, Requested!TypeOK, Requested!RowInv, Requested!Rows, Requested!Allowances
<1>2. Requested!ChargedOnce
  BY DEF Requested!IInv, Requested!ChargedOnce, Requested!RowInv
<1> QED BY <1>1, <1>2

-----------------------------------------------------------------------------
(* Ownership                                                               *)

\* The instance counts as the theorems about finite sets do.
LEMMA LocksCardinality ==
  \A S : Locks!Cardinality(S) = Cardinality(S) /\ (Locks!IsFiniteSet(S) <=> IsFiniteSet(S))
BY DEF Locks!Cardinality, Locks!IsFiniteSet, Cardinality, IsFiniteSet

\* Chains, and how long each may grow.
LEMMA LocksLives ==
  /\ Len(Lives) \in Nat \ {0} /\ LocatorPage \in Nat \ {0} /\ MaxClaims \in Nat
  /\ \A c \in Locks!Chains : c \in Nat \ {0} /\ Lives[c] \in Nat \ {0}
  /\ None \notin [account : Accounts, revision : Nat]
<1>1. Lives \in Seq(Nat \ {0}) /\ Len(Lives) > 0 /\ LocatorPage \in Nat \ {0} /\ MaxClaims \in Nat
      /\ None \notin [account : Accounts, revision : Nat]
  BY LocksAssumed DEF Locks!OwnershipAssumption
<1>2. Len(Lives) \in Nat
  BY <1>1
<1>3. ASSUME NEW c \in Locks!Chains PROVE c \in Nat \ {0} /\ Lives[c] \in Nat \ {0}
  BY <1>1, <1>2, <1>3 DEF Locks!Chains
<1> QED BY <1>1, <1>2, <1>3

\* A token is its chain and its place there.
LEMMA LocksToken ==
  ASSUME NEW t \in Locks!Tokens
  PROVE  /\ t = <<t[1], t[2]>> /\ t[1] \in Locks!Chains /\ t[1] \in Nat
         /\ t[2] \in Nat \ {0} /\ t[2] <= Lives[t[1]]
         /\ t \in Locks!Lineage(t) /\ Locks!Lineage(t) \subseteq Locks!Tokens
<1>1. PICK c \in Locks!Chains : t \in {<<c, i>> : i \in 1 .. Lives[c]}
  BY DEF Locks!Tokens
<1>2. PICK i \in 1 .. Lives[c] : t = <<c, i>>
  BY <1>1
<1>3. c \in Nat \ {0} /\ Lives[c] \in Nat \ {0}
  BY LocksLives
<1>4. t[1] = c /\ t[2] = i
  BY <1>2
<1>5. t \in Locks!Lineage(t)
  BY <1>2, <1>3, <1>4 DEF Locks!Lineage
<1>6. Locks!Lineage(t) \subseteq Locks!Tokens
  <2>1. ASSUME NEW u \in Locks!Lineage(t) PROVE u \in Locks!Tokens
    <3>1. PICK k \in 1 .. i : u = <<c, k>>
      BY <1>4 DEF Locks!Lineage
    <3>2. k \in 1 .. Lives[c]
      BY <1>3
    <3> QED BY <3>1, <3>2 DEF Locks!Tokens
  <2> QED BY <2>1
<1> QED BY <1>2, <1>3, <1>4, <1>5, <1>6

\* Of two tokens of a chain, one is in the lineage of the other.
LEMMA LocksLineage ==
  ASSUME NEW t \in Locks!Tokens, NEW u \in Locks!Tokens
  PROVE  /\ u \in Locks!Lineage(t) <=> u[1] = t[1] /\ u[2] <= t[2]
         /\ u[1] = t[1] => u \in Locks!Lineage(t) \/ t \in Locks!Lineage(u)
<1>1. /\ t = <<t[1], t[2]>> /\ t[2] \in Nat \ {0}
      /\ u = <<u[1], u[2]>> /\ u[2] \in Nat \ {0}
  BY LocksToken
<1>2. ASSUME NEW x \in Locks!Tokens, NEW y \in Locks!Tokens,
             x = <<x[1], x[2]>>, x[2] \in Nat \ {0}, y = <<y[1], y[2]>>, y[2] \in Nat \ {0}
      PROVE y \in Locks!Lineage(x) <=> y[1] = x[1] /\ y[2] <= x[2]
  BY <1>2 DEF Locks!Lineage
<1>3. u \in Locks!Lineage(t) <=> u[1] = t[1] /\ u[2] <= t[2]
  BY <1>1, <1>2
<1>4. t \in Locks!Lineage(u) <=> t[1] = u[1] /\ t[2] <= u[2]
  BY <1>1, <1>2
<1> QED BY <1>1, <1>3, <1>4

\* There are finitely many.
LEMMA LocksFinite == IsFiniteSet(Locks!Tokens)
<1>1. IsFiniteSet(Locks!Chains)
  BY LocksLives, FS_Interval DEF Locks!Chains
<1> DEFINE Places(c) == {<<c, i>> : i \in 1 .. Lives[c]}
<1>2. ASSUME NEW c \in Locks!Chains PROVE IsFiniteSet(Places(c))
  <2>0. Lives[c] \in Int
    BY LocksLives
  <2>1. IsFiniteSet(1 .. Lives[c])
    BY <2>0, FS_Interval
  <2> DEFINE f == [i \in 1 .. Lives[c] |-> <<c, i>>]
  <2>2. f \in Surjection(1 .. Lives[c], Places(c))
    BY DEF Surjection
  <2> QED BY <2>1, <2>2, FS_Surjection
<1>3. IsFiniteSet({Places(c) : c \in Locks!Chains})
  <2> DEFINE f == [c \in Locks!Chains |-> Places(c)]
  <2>1. f \in Surjection(Locks!Chains, {Places(c) : c \in Locks!Chains})
    BY DEF Surjection
  <2> QED BY <1>1, <2>1, FS_Surjection
<1>4. \A S \in {Places(c) : c \in Locks!Chains} : IsFiniteSet(S)
  BY <1>2
<1>5. IsFiniteSet(UNION {Places(c) : c \in Locks!Chains})
  BY <1>3, <1>4, FS_UNION
<1> QED BY <1>5 DEF Locks!Tokens

\* The rows of the invariant, without the invocations.
LocksRows ==
  /\ Locks!TypeOK /\ DOMAIN v3 = Locks!Tokens
  /\ Locks!LocksPaired /\ Locks!ChainOfOne /\ Locks!HeadIsOwned /\ Locks!ErasedForGood
  /\ \A a \in v6 : v2[a] = "deleting"

\* A locator for every lock and the reverse, by account.
LocksPairs ==
  \A a \in Accounts, t \in Locks!Tokens : <<a, t>> \in v4 <=> Locks!Owned(a, t)

\* That is what pairing them by token comes to.
LEMMA LocksByAccount == Locks!TypeOK => (Locks!LocksPaired <=> LocksPairs)
<1> SUFFICES ASSUME Locks!TypeOK PROVE Locks!LocksPaired <=> LocksPairs
  OBVIOUS
<1>1. \A t \in Locks!Tokens : v3[t] # None => v3[t].account \in Accounts
  BY DEF Locks!TypeOK
<1>2. ASSUME NEW t \in Locks!Tokens
      PROVE  {a \in Accounts : <<a, t>> \in v4} = (IF v3[t] = None THEN {} ELSE {v3[t].account})
               <=> \A a \in Accounts : <<a, t>> \in v4 <=> Locks!Owned(a, t)
  BY <1>1 DEF Locks!Owned
<1> QED BY <1>2 DEF Locks!LocksPaired, LocksPairs

\* The same after a step.
LEMMA LocksByAccountNext == Locks!TypeOK' => (Locks!LocksPaired' <=> LocksPairs')
BY LocksByAccount, PTL

\* A step moves one invocation; the deletions of the others find no locator come back.
LEMMA LocksOthers ==
  ASSUME Locks!IInv, NEW w \in Workers, NEW j, v7' = [v7 EXCEPT ![w] = j], Locks!JobInv(w)',
         \A a \in Accounts : v2[a] = "deleting" =>
           v2'[a] = "deleting" /\ \A t \in Locks!Tokens : <<a, t>> \in v4' => <<a, t>> \in v4
  PROVE  DOMAIN v7' = Workers /\ \A x \in Workers : Locks!JobInv(x)'
<1>1. DOMAIN v7 = Workers /\ \A x \in Workers : Locks!JobInv(x)
  BY DEF Locks!IInv
<1>2. ASSUME NEW x \in Workers PROVE Locks!JobInv(x)'
  <2>1. CASE x = w
    BY <2>1
  <2>2. CASE x # w
    <3>1. v7'[x] = v7[x] /\ Locks!JobInv(x)
      BY <2>2, <1>1
    <3> QED BY <3>1 DEF Locks!JobInv
  <2> QED BY <2>1, <2>2
<1> QED BY <1>1, <1>2

\* An invocation that moves while the rows stay.
LEMMA LocksMove ==
  ASSUME Locks!IInv, NEW w \in Workers, NEW j, Locks!Move(w, j), Locks!JobInv(w)'
  PROVE  Locks!IInv' /\ Locks!NeverTransferred
<1>1. v7' = [v7 EXCEPT ![w] = j] /\ UNCHANGED <<v1, v2, v3, v4, v5, v6>>
  BY DEF Locks!Move, Locks!rows
<1>2. DOMAIN v7' = Workers /\ \A x \in Workers : Locks!JobInv(x)'
  BY <1>1, LocksOthers
<1>3. LocksRows => LocksRows'
  BY <1>1 DEF LocksRows, Locks!TypeOK, Locks!LocksPaired, Locks!ChainOfOne, Locks!HeadIsOwned, Locks!ErasedForGood,
     Locks!Owned
<1>4. Locks!NeverTransferred
  BY <1>1 DEF Locks!NeverTransferred
<1> QED BY <1>2, <1>3, <1>4 DEF LocksRows, Locks!IInv

\* At rest an invocation knows nothing.
LEMMA LocksAtRest ==
  ASSUME NEW w \in Workers, v7'[w] = Locks!Idle PROVE Locks!JobInv(w)'
BY DEF Locks!JobInv, Locks!Idle

\* What an account may take, nobody else has.
LEMMA LocksOpen ==
  ASSUME LocksRows, NEW a \in Accounts, v2[a] = "active", NEW t \in Locks!Tokens,
         \A u \in Locks!Lineage(t) : v3[u] # None => v3[u].account = a
  PROVE  \A u \in Locks!Tokens : u[1] = t[1] /\ v3[u] # None => v3[u].account = a \/ v2[v3[u].account] = "deleting"
<1> SUFFICES ASSUME NEW u \in Locks!Tokens, u[1] = t[1], v3[u] # None, v3[u].account # a,
                    v2[v3[u].account] # "deleting"
             PROVE FALSE
  OBVIOUS
<1>1. v3[u].account \in Accounts /\ v2[v3[u].account] = "active"
  BY DEF LocksRows, Locks!TypeOK
<1>2. Locks!Owned(v3[u].account, u)
  BY DEF Locks!Owned
<1>3. t \in Locks!Lineage(t)
  BY LocksToken
<1>4. t \in Locks!Lineage(u)
  BY LocksLineage
<1>5. Locks!Owned(v3[u].account, t)
  BY <1>1, <1>2, <1>4 DEF LocksRows, Locks!ChainOfOne
<1> QED BY <1>3, <1>5 DEF Locks!Owned

\* A lineage is taken by its own account, or when nobody has it.
LEMMA LocksTake ==
  ASSUME LocksRows, NEW a \in Accounts, v2[a] = "active", NEW t \in Locks!Tokens,
         \A u \in Locks!Lineage(t) : v3[u] # None => v3[u].account = a,
         Locks!Take(a, Locks!Lineage(t)), UNCHANGED <<v1, v2, v6>>,
         v5' = v5 \/ v5' = [v5 EXCEPT ![a] = t]
  PROVE  /\ LocksRows' /\ Locks!NeverTransferred
         /\ \A b \in Accounts : v2[b] = "deleting" =>
              v2'[b] = "deleting" /\ \A u \in Locks!Tokens : <<b, u>> \in v4' => <<b, u>> \in v4
<1> DEFINE L == Locks!Lineage(t)
<1>1. /\ \A u \in L : Locks!Revision(v3[u]) < MaxClaims
      /\ v3' = [u \in Locks!Tokens |-> IF u \in L THEN [account |-> a, revision |-> Locks!Revision(v3[u]) + 1] ELSE v3[u]]
      /\ v4' = v4 \cup {<<a, u>> : u \in L}
  BY DEF Locks!Take
<1>2. L \subseteq Locks!Tokens /\ t \in L
  BY LocksToken
<1>3. ASSUME NEW u \in L
      PROVE  /\ v3'[u] # None /\ v3'[u].account = a /\ v3'[u].revision \in 1 .. MaxClaims
             /\ v3[u] # None => v3'[u].revision > v3[u].revision
  <2>1. u \in Locks!Tokens
    BY <1>2
  <2>2. v3[u] # None => v3[u].revision \in 1 .. MaxClaims
    BY <2>1 DEF LocksRows, Locks!TypeOK
  <2>3. Locks!Revision(v3[u]) \in Nat /\ (v3[u] # None => Locks!Revision(v3[u]) = v3[u].revision)
    BY <2>2, LocksLives DEF Locks!Revision
  <2>4. v3'[u] = [account |-> a, revision |-> Locks!Revision(v3[u]) + 1]
    BY <1>1, <2>1
  <2>5. Locks!Revision(v3[u]) + 1 \in Nat /\ Locks!Revision(v3[u]) + 1 \in 1 .. MaxClaims
    BY <1>1, <2>3, LocksLives
  <2>6. v3'[u] \in [account : Accounts, revision : Nat]
    BY <2>4, <2>5
  <2> QED BY <2>2, <2>3, <2>4, <2>5, <2>6, LocksLives
<1>4. \A u \in Locks!Tokens : u \notin L => v3'[u] = v3[u]
  BY <1>1
<1>5. DOMAIN v3' = Locks!Tokens
  BY <1>1
<1> HIDE DEF L
<1>6. \A u \in Locks!Tokens : v3[u] # None => v3[u].account \in Accounts /\ v3[u].revision \in 1 .. MaxClaims
  BY DEF LocksRows, Locks!TypeOK
<1>7. \A b \in Accounts, u \in Locks!Tokens : Locks!Owned(b, u)' <=> (Locks!Owned(b, u) \/ (b = a /\ u \in L))
  <2>1. ASSUME NEW u \in L PROVE v3[u] # None => v3[u].account = a
    BY DEF L
  <2> QED BY <1>3, <1>4, <2>1 DEF Locks!Owned
<1>8. Locks!TypeOK'
  <2>1. \A u \in Locks!Tokens : v3'[u] # None => v3'[u].account \in Accounts /\ v3'[u].revision \in 1 .. MaxClaims
    BY <1>3, <1>4, <1>6
  <2>2. v4' \subseteq Accounts \X Locks!Tokens
    BY <1>1, <1>2 DEF LocksRows, Locks!TypeOK
  <2>3. v5' \in [Accounts -> Locks!Tokens \cup {None}]
    BY DEF LocksRows, Locks!TypeOK
  <2> QED BY <2>1, <2>2, <2>3 DEF LocksRows, Locks!TypeOK
<1>9. Locks!LocksPaired'
  <2>1. \A b \in Accounts, u \in Locks!Tokens : <<b, u>> \in v4 <=> Locks!Owned(b, u)
    BY LocksByAccount DEF LocksRows, LocksPairs
  <2>2. \A b \in Accounts, u \in Locks!Tokens : <<b, u>> \in v4' <=> (<<b, u>> \in v4 \/ (b = a /\ u \in L))
    BY <1>1
  <2>3. LocksPairs'
    BY <1>7, <2>1, <2>2 DEF LocksPairs
  <2> QED BY <1>8, <2>3, LocksByAccountNext
<1>10. Locks!ChainOfOne'
  <2> SUFFICES ASSUME NEW b \in Accounts, NEW s \in Locks!Tokens, v2[b] = "active", Locks!Owned(b, s)',
                      NEW u \in Locks!Tokens
               PROVE  /\ u \in Locks!Lineage(s) => Locks!Owned(b, u)'
                      /\ u[1] = s[1] /\ v3'[u] # None => v3'[u].account = b \/ v2[v3'[u].account] = "deleting"
    BY DEF Locks!ChainOfOne
  <2>1. \A x \in Locks!Tokens : x[1] = t[1] /\ v3[x] # None => v3[x].account = a \/ v2[v3[x].account] = "deleting"
    BY LocksOpen
  <2>2. Locks!Owned(b, s) =>
          /\ u \in Locks!Lineage(s) => Locks!Owned(b, u)
          /\ u[1] = s[1] /\ v3[u] # None => v3[u].account = b \/ v2[v3[u].account] = "deleting"
    BY DEF LocksRows, Locks!ChainOfOne
  <2>3. CASE Locks!Owned(b, s)
    <3>1. u \in L => u[1] = t[1]
      BY <1>2, LocksLineage DEF L
    <3>2. CASE u \in L /\ u[1] = s[1]
      <4>1. v3[s].account = b /\ v3[s] # None /\ s[1] = t[1]
        BY <2>3, <3>1, <3>2 DEF Locks!Owned
      <4>2. b = a
        BY <2>1, <4>1
      <4> QED BY <1>3, <3>2, <4>2 DEF Locks!Owned
    <3>3. CASE u \notin L
      BY <1>4, <1>7, <2>2, <2>3, <3>3
    <3>4. CASE u[1] # s[1]
      BY <2>2, <2>3, <1>7, <3>4
    <3> QED BY <3>2, <3>3, <3>4
  <2>4. CASE ~Locks!Owned(b, s)
    <3>1. b = a /\ s \in L
      BY <1>7, <2>4
    <3>2. s[1] = t[1] /\ s[2] <= t[2]
      BY <1>2, <3>1, LocksLineage DEF L
    <3>3. u \in Locks!Lineage(s) => u \in L
      <4>1. u[2] \in Nat /\ s[2] \in Nat /\ t[2] \in Nat
        BY LocksToken
      <4> QED BY <3>2, <4>1, LocksLineage DEF L
    <3>4. u[1] = s[1] /\ v3'[u] # None => v3'[u].account = b \/ v2[v3'[u].account] = "deleting"
      BY <1>3, <1>4, <2>1, <3>1, <3>2
    <3> QED BY <1>7, <3>1, <3>3, <3>4
  <2> QED BY <2>3, <2>4
<1>11. Locks!HeadIsOwned'
  <2> SUFFICES ASSUME NEW b \in Accounts, v2[b] = "active", NEW h, h = v5'[b], h # None
               PROVE v3'[h] # None /\ v3'[h].account = b
    BY DEF Locks!HeadIsOwned, Locks!Owned
  <2>1. v5 \in [Accounts -> Locks!Tokens \cup {None}]
    BY DEF LocksRows, Locks!TypeOK
  <2>2. h = v5[b] => h \in Locks!Tokens /\ Locks!Owned(b, h)
    BY <2>1 DEF LocksRows, Locks!HeadIsOwned
  <2>3. h # v5[b] => b = a /\ h = t
    BY <2>1
  <2>4. h \in Locks!Tokens /\ (Locks!Owned(b, h) \/ (b = a /\ h \in L))
    BY <1>2, <2>2, <2>3
  <2> QED BY <1>7, <2>4 DEF Locks!Owned
<1>12. Locks!ErasedForGood' /\ \A b \in v6' : v2'[b] = "deleting"
  <2>1. \A b \in v6 : b \in Accounts /\ b # a /\ v2[b] = "deleting"
    BY DEF LocksRows, Locks!TypeOK
  <2> QED BY <1>1, <1>7, <2>1 DEF LocksRows, Locks!ErasedForGood
<1>13. Locks!NeverTransferred
  <2>1. ASSUME NEW u \in L PROVE v3[u] # None => v3[u].account = a
    BY DEF L
  <2> QED BY <1>3, <1>4, <2>1 DEF Locks!NeverTransferred
<1>14. ASSUME NEW b \in Accounts, v2[b] = "deleting"
       PROVE v2'[b] = "deleting" /\ \A u \in Locks!Tokens : <<b, u>> \in v4' => <<b, u>> \in v4
  BY <1>1, <1>14
<1> QED BY <1>5, <1>8, <1>9, <1>10, <1>11, <1>12, <1>13, <1>14 DEF LocksRows

\* Observing, verifying, asking for the locators, and giving up write nothing.
LEMMA LocksReads ==
  ASSUME Locks!IInv, NEW w \in Workers,
         \/ \E a \in Accounts, t \in Locks!Tokens : Locks!Observe(w, a, t) \/ Locks!VerifyFirst(w, a, t)
         \/ Locks!Verify(w) \/ Locks!Stop(w)
         \/ \E a \in Accounts : Locks!Query(w, a)
  PROVE  Locks!IInv' /\ Locks!NeverTransferred
<1>1. DOMAIN v7 = Workers /\ Locks!JobInv(w)
  BY DEF Locks!IInv
<1>2. ASSUME NEW a \in Accounts, NEW t \in Locks!Tokens, Locks!Observe(w, a, t)
      PROVE Locks!IInv' /\ Locks!NeverTransferred
  <2>0. PICK former : Locks!Move(w, [Locks!Idle EXCEPT !.kind = "handoff", !.phase = "observed", !.account = a,
          !.token = t, !.seen = Locks!Rows(Locks!Lineage(t)), !.head = v5[a], !.former = former])
    BY <1>2 DEF Locks!Observe
  <2> DEFINE k == [Locks!Idle EXCEPT !.kind = "handoff", !.phase = "observed", !.account = a,
                     !.token = t, !.seen = Locks!Rows(Locks!Lineage(t)), !.head = v5[a], !.former = former]
  <2>1. PICK j : /\ Locks!Move(w, j) /\ j.kind = "handoff" /\ j.phase = "observed" /\ j.account = a /\ j.token = t
                 /\ j.seen = Locks!Rows(Locks!Lineage(t))
    <3>1. /\ k.kind = "handoff" /\ k.phase = "observed" /\ k.account = a /\ k.token = t
          /\ k.seen = Locks!Rows(Locks!Lineage(t))
      BY DEF Locks!Idle
    <3>2. Locks!Move(w, k)
      BY <2>0
    <3> HIDE DEF k
    <3> QED BY <3>1, <3>2
  <2>2. v7'[w] = j
    BY <1>1, <2>1 DEF Locks!Move
  <2>3. \A u \in Locks!Lineage(t) : v3[u] # None => v3[u].account = a
    BY <1>2 DEF Locks!Observe, Locks!Observable
  <2>4. \A u \in Locks!Lineage(t) : j.seen[u] # None => j.seen[u].account = a
    BY <2>1, <2>3 DEF Locks!Rows
  <2>5. Locks!JobInv(w)'
    BY <2>1, <2>2, <2>4 DEF Locks!JobInv
  <2> QED BY <2>1, <2>5, LocksMove
<1>3. ASSUME NEW a \in Accounts, NEW t \in Locks!Tokens, Locks!VerifyFirst(w, a, t)
      PROVE Locks!IInv' /\ Locks!NeverTransferred
  <2> DEFINE k == [Locks!Idle EXCEPT !.kind = "claim", !.phase = "proven", !.account = a, !.token = t]
  <2>1. PICK j : /\ Locks!Move(w, j) /\ j.kind = "claim" /\ j.phase = "proven" /\ j.account = a /\ j.token = t
    <3>1. k.kind = "claim" /\ k.phase = "proven" /\ k.account = a /\ k.token = t
      BY DEF Locks!Idle
    <3>2. Locks!Move(w, k)
      BY <1>3 DEF Locks!VerifyFirst
    <3> HIDE DEF k
    <3> QED BY <3>1, <3>2
  <2>2. v7'[w] = j
    BY <1>1, <2>1 DEF Locks!Move
  <2>3. Locks!JobInv(w)'
    BY <2>1, <2>2 DEF Locks!JobInv
  <2> QED BY <2>1, <2>3, LocksMove
<1>4. ASSUME Locks!Verify(w) PROVE Locks!IInv' /\ Locks!NeverTransferred
  <2>1. v7[w].phase = "observed" /\ Locks!Move(w, [v7[w] EXCEPT !.phase = "proven"])
    BY <1>4 DEF Locks!Verify
  <2>2. v7'[w] = [v7[w] EXCEPT !.phase = "proven"]
    BY <1>1, <2>1 DEF Locks!Move
  <2>3. /\ v7'[w].kind = v7[w].kind /\ v7'[w].account = v7[w].account /\ v7'[w].token = v7[w].token
        /\ v7'[w].seen = v7[w].seen /\ (v7'[w].phase = "proven" \/ v7'[w].phase = v7[w].phase)
    BY <2>2
  <2>4. Locks!JobInv(w)'
    BY <1>1, <2>1, <2>3 DEF Locks!JobInv
  <2> QED BY <2>1, <2>4, LocksMove
<1>5. ASSUME Locks!Stop(w) PROVE Locks!IInv' /\ Locks!NeverTransferred
  <2>1. Locks!Move(w, Locks!Idle) /\ v7'[w] = Locks!Idle
    BY <1>1, <1>5 DEF Locks!Stop, Locks!Move
  <2> QED BY <2>1, LocksAtRest, LocksMove
<1>6. ASSUME NEW a \in Accounts, Locks!Query(w, a) PROVE Locks!IInv' /\ Locks!NeverTransferred
  <2> DEFINE mine == {t \in Locks!Tokens : <<a, t>> \in v4}
  <2>1. PICK page \in SUBSET mine :
          /\ Locks!Cardinality(page) = IF Locks!Cardinality(mine) < LocatorPage THEN Locks!Cardinality(mine) ELSE LocatorPage
          /\ Locks!Move(w, [Locks!Idle EXCEPT !.kind = "erase", !.account = a, !.page = page,
                                              !.phase = IF page = {} THEN "complete" ELSE "page"])
    BY <1>6 DEF Locks!Query
  <2>2. v2[a] = "deleting" /\ v2' = v2 /\ v4' = v4
    BY <1>6, <2>1 DEF Locks!Query, Locks!Move, Locks!rows
  <2>3. PICK j : /\ Locks!Move(w, j) /\ j.kind = "erase" /\ j.account = a /\ j.page = page
                 /\ j.phase = IF page = {} THEN "complete" ELSE "page"
    <3> DEFINE k == [Locks!Idle EXCEPT !.kind = "erase", !.account = a, !.page = page,
                                       !.phase = IF page = {} THEN "complete" ELSE "page"]
    <3>1. k.kind = "erase" /\ k.account = a /\ k.page = page /\ k.phase = IF page = {} THEN "complete" ELSE "page"
      BY DEF Locks!Idle
    <3>2. Locks!Move(w, k)
      BY <2>1
    <3> HIDE DEF k
    <3> QED BY <3>1, <3>2
  <2>4. v7'[w] = j
    BY <1>1, <2>3 DEF Locks!Move
  <2>5. page = {} => mine = {}
    <3>1. IsFiniteSet(mine)
      BY LocksFinite, FS_Subset
    <3>2. Cardinality(mine) \in Nat /\ (Cardinality(mine) = 0 <=> mine = {}) /\ Cardinality({}) = 0
      BY <3>1, FS_CardinalityType, FS_EmptySet
    <3> QED BY <2>1, <3>2, LocksCardinality, LocksLives
  <2>6. page \subseteq Locks!Tokens /\ (page = {} => \A t \in Locks!Tokens : <<a, t>> \notin v4)
    BY <2>5
  <2>7. Locks!JobInv(w)'
    BY <2>2, <2>3, <2>4, <2>6 DEF Locks!JobInv
  <2> QED BY <2>3, <2>7, LocksMove
<1> QED BY <1>2, <1>3, <1>4, <1>5, <1>6

\* A handoff and a claim take the lineage.
LEMMA LocksCommits ==
  ASSUME Locks!IInv, NEW w \in Workers, Locks!Commit(w) \/ Locks!Claim(w)
  PROVE  Locks!IInv' /\ Locks!NeverTransferred
<1>1. DOMAIN v7 = Workers /\ Locks!JobInv(w)
  BY DEF Locks!IInv
<1>2. v7[w].phase = "proven" /\ v7[w].account \in Accounts /\ v7[w].token \in Locks!Tokens
  BY <1>1 DEF Locks!Commit, Locks!Claim, Locks!JobInv
<1>3. PICK a \in Accounts, t \in Locks!Tokens : a = v7[w].account /\ t = v7[w].token
  BY <1>2
<1>4. \A u \in Locks!Lineage(t) : v3[u] # None => v3[u].account = a
  <2>1. CASE Locks!Commit(w)
    <3>1. Locks!SameRows(a, v7[w].seen, t) /\ v7[w].kind = "handoff"
      BY <1>3, <2>1 DEF Locks!Commit
    <3> QED BY <1>1, <1>2, <1>3, <3>1 DEF Locks!SameRows, Locks!JobInv
  <2>2. CASE Locks!Claim(w)
    BY <1>3, <2>2 DEF Locks!Claim
  <2> QED BY <2>1, <2>2
<1>5. /\ v2[a] = "active" /\ Locks!Take(a, Locks!Lineage(t)) /\ UNCHANGED <<v1, v2, v6>>
      /\ v5' = v5 \/ v5' = [v5 EXCEPT ![a] = t]
      /\ v7' = [v7 EXCEPT ![w] = Locks!Idle]
  BY <1>3 DEF Locks!Commit, Locks!Claim
<1>6. LocksRows
  BY DEF Locks!IInv, LocksRows
<1>7. /\ LocksRows' /\ Locks!NeverTransferred
      /\ \A b \in Accounts : v2[b] = "deleting" =>
           v2'[b] = "deleting" /\ \A u \in Locks!Tokens : <<b, u>> \in v4' => <<b, u>> \in v4
  BY <1>4, <1>5, <1>6, LocksTake
<1>8. Locks!JobInv(w)'
  BY <1>1, <1>5, LocksAtRest
<1>9. DOMAIN v7' = Workers /\ \A x \in Workers : Locks!JobInv(x)'
  BY <1>5, <1>7, <1>8, LocksOthers
<1> QED BY <1>7, <1>9 DEF LocksRows, Locks!IInv

\* A lock goes with its locator, for an account that is being deleted.
LEMMA LocksErase ==
  ASSUME Locks!IInv, NEW w \in Workers, Locks!EraseOne(w)
  PROVE  Locks!IInv' /\ Locks!NeverTransferred
<1>1. DOMAIN v7 = Workers /\ Locks!JobInv(w) /\ LocksRows
  BY DEF Locks!IInv, LocksRows
<1>2. PICK t \in v7[w].page : /\ Locks!Owned(v7[w].account, t) /\ v3' = [v3 EXCEPT ![t] = None]
                              /\ v4' = v4 \ {<<v7[w].account, t>>}
                              /\ v7' = [v7 EXCEPT ![w] = IF v7[w].page = {t} THEN Locks!Idle
                                                         ELSE [v7[w] EXCEPT !.page = @ \ {t}]]
  BY DEF Locks!EraseOne
<1>3. /\ v7[w].phase = "page" /\ v7[w].account \in Accounts /\ v7[w].page \subseteq Locks!Tokens
      /\ v7[w].kind = "erase" /\ v2[v7[w].account] = "deleting"
  BY <1>1 DEF Locks!EraseOne, Locks!JobInv
<1>4. PICK a \in Accounts : a = v7[w].account
  BY <1>3
<1>5. /\ UNCHANGED <<v1, v2, v5, v6>> /\ t \in Locks!Tokens /\ v2[a] = "deleting" /\ v3[t] # None /\ v3[t].account = a
      /\ v3' = [v3 EXCEPT ![t] = None] /\ v4' = v4 \ {<<a, t>>}
  BY <1>2, <1>3, <1>4 DEF Locks!EraseOne, Locks!Owned
<1>6. /\ DOMAIN v3 = Locks!Tokens /\ DOMAIN v3' = Locks!Tokens
      /\ v3'[t] = None /\ \A u \in Locks!Tokens : u # t => v3'[u] = v3[u]
  BY <1>1, <1>5 DEF LocksRows
<1>7. Locks!TypeOK'
  BY <1>1, <1>5, <1>6 DEF LocksRows, Locks!TypeOK
<1>8. \A b \in Accounts, u \in Locks!Tokens : Locks!Owned(b, u)' <=> Locks!Owned(b, u) /\ u # t
  BY <1>6 DEF Locks!Owned
<1>9. Locks!LocksPaired'
  <2>1. \A b \in Accounts, u \in Locks!Tokens : <<b, u>> \in v4 <=> Locks!Owned(b, u)
    BY <1>1, LocksByAccount DEF LocksRows, LocksPairs
  <2>2. \A b \in Accounts, u \in Locks!Tokens : <<b, u>> \in v4' <=> <<b, u>> \in v4 /\ ~(b = a /\ u = t)
    BY <1>5
  <2>3. \A b \in Accounts : Locks!Owned(b, t) => b = a
    BY <1>5 DEF Locks!Owned
  <2>4. LocksPairs'
    BY <1>8, <2>1, <2>2, <2>3 DEF LocksPairs
  <2> QED BY <1>7, <2>4, LocksByAccountNext
<1>10. Locks!ChainOfOne'
  <2> SUFFICES ASSUME NEW b \in Accounts, NEW s \in Locks!Tokens, v2[b] = "active", Locks!Owned(b, s)',
                      NEW u \in Locks!Tokens
               PROVE  /\ u \in Locks!Lineage(s) => Locks!Owned(b, u)'
                      /\ u[1] = s[1] /\ v3'[u] # None => v3'[u].account = b \/ v2[v3'[u].account] = "deleting"
    BY <1>5 DEF Locks!ChainOfOne
  <2>1. Locks!Owned(b, s)
    BY <1>8
  <2>2. /\ u \in Locks!Lineage(s) => Locks!Owned(b, u)
        /\ u[1] = s[1] /\ v3[u] # None => v3[u].account = b \/ v2[v3[u].account] = "deleting"
    BY <1>1, <2>1 DEF LocksRows, Locks!ChainOfOne
  <2>3. Locks!Owned(b, u) => u # t
    BY <1>5 DEF Locks!Owned
  <2> QED BY <1>6, <1>8, <2>2, <2>3
<1>11. Locks!HeadIsOwned'
  <2> SUFFICES ASSUME NEW b \in Accounts, v2[b] = "active", NEW h, h = v5[b], h # None
               PROVE v3'[h] # None /\ v3'[h].account = b
    BY <1>5 DEF Locks!HeadIsOwned, Locks!Owned
  <2>1. h \in Locks!Tokens /\ v3[h] # None /\ v3[h].account = b
    BY <1>1 DEF LocksRows, Locks!TypeOK, Locks!HeadIsOwned, Locks!Owned
  <2> QED BY <1>5, <1>6, <2>1
<1>12. Locks!ErasedForGood' /\ \A b \in v6' : v2'[b] = "deleting"
  <2>1. \A b \in v6 : b \in Accounts
    BY <1>1 DEF LocksRows, Locks!TypeOK
  <2> QED BY <1>1, <1>5, <1>8, <2>1 DEF LocksRows, Locks!ErasedForGood
<1>13. Locks!NeverTransferred
  BY <1>5, <1>6 DEF Locks!NeverTransferred
<1>14. DOMAIN v7' = Workers /\ \A x \in Workers : Locks!JobInv(x)'
  <2>1. CASE v7[w].page = {t}
    <3>1. v7' = [v7 EXCEPT ![w] = Locks!Idle]
      BY <1>2, <2>1
    <3> QED BY <1>1, <1>5, <3>1, LocksAtRest, LocksOthers
  <2>2. CASE v7[w].page # {t}
    <3> DEFINE k == [v7[w] EXCEPT !.page = @ \ {t}]
    <3>1. v7' = [v7 EXCEPT ![w] = k]
      BY <1>2, <2>2
    <3>2. k.kind = v7[w].kind /\ k.phase = v7[w].phase /\ k.account = v7[w].account /\ k.page \subseteq v7[w].page
      <4>1. DOMAIN k = DOMAIN v7[w] /\ k.kind = v7[w].kind /\ k.phase = v7[w].phase /\ k.account = v7[w].account
        OBVIOUS
      <4>2. k.page = v7[w].page \ {t} \/ k.page = v7[w].page
        OBVIOUS
      <4> QED BY <4>1, <4>2
    <3> HIDE DEF k
    <3>3. v7'[w] = k
      BY <1>1, <3>1
    <3>4. Locks!JobInv(w)'
      BY <1>3, <1>4, <1>5, <3>2, <3>3 DEF Locks!JobInv
    <3> QED BY <1>5, <3>1, <3>4, LocksOthers
  <2> QED BY <2>1, <2>2
<1> QED BY <1>6, <1>7, <1>9, <1>10, <1>11, <1>12, <1>13, <1>14 DEF LocksRows, Locks!IInv

\* The receipt rests on a page that found no locator.
LEMMA LocksRecord ==
  ASSUME Locks!IInv, NEW w \in Workers, Locks!Record(w)
  PROVE  Locks!IInv' /\ Locks!NeverTransferred
<1>1. DOMAIN v7 = Workers /\ Locks!JobInv(w) /\ LocksRows
  BY DEF Locks!IInv, LocksRows
<1>2. /\ v7[w].phase = "complete" /\ v6' = v6 \cup {v7[w].account} /\ v7' = [v7 EXCEPT ![w] = Locks!Idle]
      /\ UNCHANGED <<v1, v2, v3, v4, v5>>
  BY DEF Locks!Record
<1>3. PICK a \in Accounts : a = v7[w].account /\ v2[a] = "deleting" /\ \A t \in Locks!Tokens : <<a, t>> \notin v4
  BY <1>1, <1>2 DEF Locks!JobInv
<1>4. \A t \in Locks!Tokens : <<a, t>> \in v4 <=> Locks!Owned(a, t)
  BY <1>1, LocksByAccount DEF LocksRows, LocksPairs
<1>5. \A b \in Accounts, t \in Locks!Tokens : Locks!Owned(b, t)' = Locks!Owned(b, t)
  BY <1>2 DEF Locks!Owned
<1>6. v6 \subseteq Accounts
  BY <1>1 DEF LocksRows, Locks!TypeOK
<1>7. Locks!ErasedForGood'
  BY <1>1, <1>2, <1>3, <1>4, <1>5, <1>6 DEF LocksRows, Locks!ErasedForGood
<1>8. /\ Locks!TypeOK' /\ DOMAIN v3' = Locks!Tokens /\ Locks!LocksPaired' /\ Locks!ChainOfOne' /\ Locks!HeadIsOwned'
      /\ \A b \in v6' : v2'[b] = "deleting"
  BY <1>1, <1>2, <1>3, <1>6 DEF LocksRows, Locks!TypeOK, Locks!LocksPaired, Locks!ChainOfOne, Locks!HeadIsOwned,
     Locks!Owned
<1>9. Locks!NeverTransferred
  BY <1>2 DEF Locks!NeverTransferred
<1>10. DOMAIN v7' = Workers /\ \A x \in Workers : Locks!JobInv(x)'
  <2>1. Locks!JobInv(w)'
    BY <1>1, <1>2, LocksAtRest
  <2> QED BY <1>2, <2>1, LocksOthers
<1> QED BY <1>7, <1>8, <1>9, <1>10 DEF Locks!IInv

\* The fence, the rest of the erasure, and what the buyer does in the store.
LEMMA LocksAround ==
  ASSUME Locks!IInv,
         \/ \E a \in Accounts : Locks!RequestDeletion(a) \/ Locks!EraseSource(a)
         \/ Locks!Change \/ Locks!End \/ Locks!BuyAgain
  PROVE  Locks!IInv' /\ Locks!NeverTransferred
<1> USE DEF Locks!rows
<1>1. LocksRows
  BY DEF Locks!IInv, LocksRows
<1>2. UNCHANGED <<v3, v4, v6, v7>>
  BY DEF Locks!RequestDeletion, Locks!EraseSource, Locks!Change, Locks!End, Locks!BuyAgain
<1>3. /\ v2' \in [Accounts -> {"active", "deleting"}]
      /\ \A a \in Accounts : v2'[a] = v2[a] \/ v2'[a] = "deleting"
  <2>1. v2 \in [Accounts -> {"active", "deleting"}]
    BY <1>1 DEF LocksRows, Locks!TypeOK
  <2> QED BY <2>1 DEF Locks!RequestDeletion, Locks!EraseSource, Locks!Change, Locks!End, Locks!BuyAgain
<1>4. /\ v5' \in [Accounts -> Locks!Tokens \cup {None}]
      /\ \A a \in Accounts : v5'[a] = v5[a] \/ v5'[a] = None
  <2>1. v5 \in [Accounts -> Locks!Tokens \cup {None}]
    BY <1>1 DEF LocksRows, Locks!TypeOK
  <2> QED BY <2>1 DEF Locks!RequestDeletion, Locks!EraseSource, Locks!Change, Locks!End, Locks!BuyAgain
<1>5. v1'.chain \in Locks!Chains /\ v1'.length \in 1 .. Lives[v1'.chain] /\ v1'.live \in BOOLEAN
  <2>1. v1.chain \in Locks!Chains /\ v1.length \in 1 .. Lives[v1.chain] /\ v1.live \in BOOLEAN
    BY <1>1 DEF LocksRows, Locks!TypeOK
  <2>2. ASSUME v1' = v1 PROVE v1'.chain \in Locks!Chains /\ v1'.length \in 1 .. Lives[v1'.chain] /\ v1'.live \in BOOLEAN
    BY <2>1, <2>2
  <2>3. ASSUME Locks!Change PROVE v1'.chain \in Locks!Chains /\ v1'.length \in 1 .. Lives[v1'.chain] /\ v1'.live \in BOOLEAN
    <3>1. v1.length < Lives[v1.chain] /\ v1' = [v1 EXCEPT !.length = @ + 1]
      BY <2>3 DEF Locks!Change
    <3>2. v1'.chain = v1.chain /\ v1'.live = v1.live /\ v1'.length \in {v1.length, v1.length + 1}
      BY <3>1
    <3>3. Lives[v1.chain] \in Nat
      BY <2>1, LocksLives
    <3> QED BY <2>1, <3>1, <3>2, <3>3
  <2>4. ASSUME Locks!End PROVE v1'.chain \in Locks!Chains /\ v1'.length \in 1 .. Lives[v1'.chain] /\ v1'.live \in BOOLEAN
    <3>1. v1' = [v1 EXCEPT !.live = FALSE]
      BY <2>4 DEF Locks!End
    <3>2. v1'.chain = v1.chain /\ v1'.length = v1.length /\ v1'.live \in {v1.live, FALSE}
      BY <3>1
    <3> QED BY <2>1, <3>2
  <2>5. ASSUME Locks!BuyAgain PROVE v1'.chain \in Locks!Chains /\ v1'.length \in 1 .. Lives[v1'.chain] /\ v1'.live \in BOOLEAN
    <3>1. v1.chain < Len(Lives) /\ v1' = [chain |-> v1.chain + 1, length |-> 1, live |-> TRUE]
      BY <2>5 DEF Locks!BuyAgain
    <3>2. v1.chain \in Nat \ {0} /\ Len(Lives) \in Nat
      BY <2>1, LocksLives
    <3>3. v1'.chain \in Locks!Chains
      BY <3>1, <3>2 DEF Locks!Chains
    <3>4. Lives[v1'.chain] \in Nat \ {0}
      BY <3>3, LocksLives
    <3> QED BY <3>1, <3>3, <3>4
  <2> QED BY <2>2, <2>3, <2>4, <2>5 DEF Locks!RequestDeletion, Locks!EraseSource
<1>6. \A b \in Accounts, t \in Locks!Tokens : Locks!Owned(b, t)' = Locks!Owned(b, t)
  BY <1>2 DEF Locks!Owned
<1>7. Locks!TypeOK'
  BY <1>1, <1>2, <1>3, <1>4, <1>5 DEF LocksRows, Locks!TypeOK
<1>8. Locks!LocksPaired' /\ Locks!ErasedForGood' /\ DOMAIN v3' = Locks!Tokens
  <2>1. v6 \subseteq Accounts
    BY <1>1 DEF LocksRows, Locks!TypeOK
  <2> QED BY <1>1, <1>2, <1>6, <2>1 DEF LocksRows, Locks!LocksPaired, Locks!ErasedForGood
<1>9. \A a \in v6' : v2'[a] = "deleting"
  <2>1. v6 \subseteq Accounts
    BY <1>1 DEF LocksRows, Locks!TypeOK
  <2> QED BY <1>1, <1>2, <1>3, <2>1 DEF LocksRows
<1>10. Locks!ChainOfOne'
  <2> SUFFICES ASSUME NEW b \in Accounts, NEW s \in Locks!Tokens, v2'[b] = "active", Locks!Owned(b, s)',
                      NEW u \in Locks!Tokens
               PROVE  /\ u \in Locks!Lineage(s) => Locks!Owned(b, u)'
                      /\ u[1] = s[1] /\ v3'[u] # None => v3'[u].account = b \/ v2'[v3'[u].account] = "deleting"
    BY DEF Locks!ChainOfOne
  <2>1. v2[b] = "active" /\ Locks!Owned(b, s)
    BY <1>3, <1>6
  <2>2. /\ u \in Locks!Lineage(s) => Locks!Owned(b, u)
        /\ u[1] = s[1] /\ v3[u] # None => v3[u].account = b \/ v2[v3[u].account] = "deleting"
    BY <1>1, <2>1 DEF LocksRows, Locks!ChainOfOne
  <2>3. v3[u] # None => v3[u].account \in Accounts
    BY <1>1 DEF LocksRows, Locks!TypeOK
  <2> QED BY <1>2, <1>3, <1>6, <2>2, <2>3
<1>11. Locks!HeadIsOwned'
  <2> SUFFICES ASSUME NEW b \in Accounts, v2'[b] = "active", NEW h, h = v5'[b], h # None
               PROVE v3'[h] # None /\ v3'[h].account = b
    BY DEF Locks!HeadIsOwned, Locks!Owned
  <2>1. v2[b] = "active" /\ h = v5[b]
    BY <1>3, <1>4
  <2> QED BY <1>1, <1>2, <2>1 DEF LocksRows, Locks!HeadIsOwned, Locks!Owned
<1>12. Locks!NeverTransferred
  BY <1>2 DEF Locks!NeverTransferred
<1>13. ASSUME NEW x \in Workers PROVE Locks!JobInv(x)'
  <2>1. Locks!JobInv(x)
    BY DEF Locks!IInv
  <2>2. v7[x].account \in Accounts /\ v2[v7[x].account] = "deleting" => v2'[v7[x].account] = "deleting"
    BY <1>3
  <2> QED BY <1>2, <2>1, <2>2 DEF Locks!JobInv
<1>14. DOMAIN v7' = Workers
  BY <1>2 DEF Locks!IInv
<1> QED BY <1>7, <1>8, <1>9, <1>10, <1>11, <1>12, <1>13, <1>14 DEF Locks!IInv

\* It begins so.
LEMMA LocksBegin == ASSUME Locks!Init PROVE Locks!IInv
<1>1. 1 \in Locks!Chains /\ Lives[1] \in Nat \ {0}
  <2>1. 1 \in Locks!Chains
    BY LocksLives DEF Locks!Chains
  <2> QED BY <2>1, LocksLives
<1>2. Locks!TypeOK /\ DOMAIN v3 = Locks!Tokens
  BY <1>1 DEF Locks!Init, Locks!TypeOK
<1>3. Locks!LocksPaired /\ Locks!ChainOfOne /\ Locks!HeadIsOwned /\ Locks!ErasedForGood
  BY DEF Locks!Init, Locks!LocksPaired, Locks!ChainOfOne, Locks!HeadIsOwned, Locks!ErasedForGood, Locks!Owned
<1>4. DOMAIN v7 = Workers /\ \A w \in Workers : Locks!JobInv(w)
  BY DEF Locks!Init, Locks!JobInv, Locks!Idle
<1> QED BY <1>2, <1>3, <1>4 DEF Locks!Init, Locks!IInv

\* Every step keeps the invariant, and no lock changes hands in it.
LEMMA LocksStep == ASSUME Locks!IInv, Locks!Next PROVE Locks!IInv' /\ Locks!NeverTransferred
BY LocksReads, LocksCommits, LocksErase, LocksRecord, LocksAround DEF Locks!Next

-----------------------------------------------------------------------------
(* AccessSources                                                           *)

\* The lengths and bounds, and what None is not.
LEMMA SourcesSettings ==
  /\ TrialLength \in Nat \ {0} /\ MaxKeys \in Nat \ {0} /\ MaxBindings \in Nat \ {0}
  /\ MaxAccess \in Nat /\ SourceTime \in Nat
  /\ None \notin Int /\ None \notin Sources!Bases /\ None \notin Sources!SourceRows /\ None \notin Sources!AccessRows
BY SourcesAssumed DEF Sources!AccessAssumption

\* Which source an invocation replaces: the trial's with a trial, and no other one with it.
LEMMA SourcesChange ==
  ASSUME NEW j, j \in Sources!Jobs, j.kind \in Sources!Requests, j.row = None \/ Sources!Written(j.row)
  PROVE  \E b \in Sources!Bases, s \in Sources!SourceRows \cup {None} :
           /\ Sources!Change(j) = [Sources!Sources(j.row) EXCEPT ![b] = s]
           /\ b = "trial" <=> j.kind = "trial"
           /\ b = "trial" => s # None /\ s.from = j.at /\ s.until = j.at + TrialLength
           /\ b = "paid" => s # None /\ s.until # None /\ s.from < s.until
<1> USE SourcesSettings
<1>1. j.at \in Int /\ j.end \in Int \cup {None}
  BY DEF Sources!Jobs
<1>2. Sources!Sources(j.row) \in [Sources!Bases -> Sources!SourceRows \cup {None}]
  BY DEF Sources!Sources, Sources!NoSources, Sources!Written, Sources!AccessRows
<1>3. CASE j.kind = "trial"
  <2> DEFINE s == Sources!Source(TRUE, j.at, j.at + TrialLength)
  <2>1. Sources!Change(j) = [Sources!Sources(j.row) EXCEPT !["trial"] = s]
    BY <1>3 DEF Sources!Change
  <2>2. s \in Sources!SourceRows /\ s.from = j.at /\ s.until = j.at + TrialLength
    BY <1>1 DEF Sources!Source, Sources!SourceRows
  <2>3. "trial" \in Sources!Bases
    BY DEF Sources!Bases
  <2> HIDE DEF s
  <2> QED BY <1>3, <2>1, <2>2, <2>3
<1>4. CASE j.kind = "paid"
  <2> DEFINE s == Sources!Source(TRUE, j.at, j.at + 1)
  <2>1. Sources!Change(j) = [Sources!Sources(j.row) EXCEPT !["paid"] = s]
    BY <1>4 DEF Sources!Change
  <2>2. s \in Sources!SourceRows /\ s.from = j.at /\ s.until = j.at + 1 /\ s.until \in Int
    BY <1>1 DEF Sources!Source, Sources!SourceRows
  <2>3. "paid" \in Sources!Bases
    BY DEF Sources!Bases
  <2> HIDE DEF s
  <2> QED BY <1>1, <1>4, <2>1, <2>2, <2>3
<1>5. CASE j.kind = "grant"
  <2> DEFINE s == Sources!Source(TRUE, j.at, j.end)
  <2>1. Sources!Change(j) = [Sources!Sources(j.row) EXCEPT !["complimentary"] = s]
    BY <1>5 DEF Sources!Change
  <2>2. s \in Sources!SourceRows
    BY <1>1 DEF Sources!Source, Sources!SourceRows
  <2>3. "complimentary" \in Sources!Bases
    BY DEF Sources!Bases
  <2> HIDE DEF s
  <2> QED BY <1>5, <2>1, <2>2, <2>3
<1>6. CASE j.kind = "revoke"
  <2> DEFINE s == Sources!Source(FALSE, j.at, None)
  <2>1. Sources!Change(j) = [Sources!Sources(j.row) EXCEPT !["complimentary"] = s]
    BY <1>6 DEF Sources!Change
  <2>2. s \in Sources!SourceRows
    BY <1>1 DEF Sources!Source, Sources!SourceRows
  <2>3. "complimentary" \in Sources!Bases
    BY DEF Sources!Bases
  <2> HIDE DEF s
  <2> QED BY <1>6, <2>1, <2>2, <2>3
<1>7. CASE j.kind = "snapshot"
  <2> DEFINE s == Sources!Sources(j.row)["complimentary"]
  <2>1. Sources!Change(j) = Sources!Sources(j.row)
    BY <1>7 DEF Sources!Change
  <2>2. "complimentary" \in Sources!Bases
    BY DEF Sources!Bases
  <2>3. s \in Sources!SourceRows \cup {None} /\ Sources!Sources(j.row) = [Sources!Sources(j.row) EXCEPT !["complimentary"] = s]
    BY <1>2, <2>2
  <2> HIDE DEF s
  <2> QED BY <1>7, <2>1, <2>2, <2>3
<1> QED BY <1>3, <1>4, <1>5, <1>6, <1>7 DEF Sources!Requests

\* The row `row` is `old` with one source replaced, the trial's by a trial at `at` only.
Over(row, old, kind, at) ==
  /\ Sources!Written(row) /\ row.revision = Sources!Revision(old) + 1
  /\ \E b \in Sources!Bases : /\ \A c \in Sources!Bases : c # b => row.sources[c] = Sources!Sources(old)[c]
                              /\ b = "trial" <=> kind = "trial"
  /\ kind = "trial" => row.sources["trial"] # None /\ row.sources["trial"].from = at

\* Such is what an invocation writes.
LEMMA SourcesWritten ==
  ASSUME NEW j, j \in Sources!Jobs, j.kind \in Sources!Requests, j.row = None \/ Sources!Written(j.row), NEW t
  PROVE  Over(Sources!Effective(j.row, Sources!Change(j), t), j.row, j.kind, j.at)
<1> USE SourcesSettings
<1> DEFINE r == Sources!Effective(j.row, Sources!Change(j), t)
<1>1. PICK b \in Sources!Bases, s \in Sources!SourceRows \cup {None} :
        /\ Sources!Change(j) = [Sources!Sources(j.row) EXCEPT ![b] = s]
        /\ b = "trial" <=> j.kind = "trial"
        /\ b = "trial" => s # None /\ s.from = j.at /\ s.until = j.at + TrialLength
        /\ b = "paid" => s # None /\ s.until # None /\ s.from < s.until
  BY SourcesChange
<1>2. Sources!Sources(j.row) \in [Sources!Bases -> Sources!SourceRows \cup {None}]
  BY DEF Sources!Sources, Sources!NoSources, Sources!Written, Sources!AccessRows
<1>3. Sources!Change(j) \in [Sources!Bases -> Sources!SourceRows \cup {None}]
  BY <1>1, <1>2
<1>4. Sources!Revision(j.row) \in Nat
  BY DEF Sources!Revision, Sources!Written, Sources!AccessRows
<1>5. Sources!Basis(Sources!Change(j), t) \in Sources!Bases \cup {None}
  BY DEF Sources!Basis, Sources!Bases
<1>6. r = [revision |-> Sources!Revision(j.row) + 1, sources |-> Sources!Change(j), basis |-> Sources!Basis(Sources!Change(j), t)]
  BY DEF Sources!Effective
<1>7. r \in Sources!AccessRows /\ r.revision = Sources!Revision(j.row) + 1 /\ r.sources = Sources!Change(j)
  BY <1>3, <1>4, <1>5, <1>6 DEF Sources!AccessRows
<1>8. r.sources[b] = s /\ \A c \in Sources!Bases : c # b => r.sources[c] = Sources!Sources(j.row)[c]
  BY <1>1, <1>2, <1>7
<1>9. ASSUME NEW c \in {"paid", "trial"}, Sources!Sources(j.row)[c] # None
      PROVE  /\ Sources!Sources(j.row)[c].until # None /\ Sources!Sources(j.row)[c].from < Sources!Sources(j.row)[c].until
             /\ c = "trial" => Sources!Sources(j.row)[c].until = Sources!Sources(j.row)[c].from + TrialLength
  <2>1. j.row # None
    BY <1>9 DEF Sources!Sources, Sources!NoSources, Sources!Bases
  <2>2. Sources!Sources(j.row) = j.row.sources
    BY <2>1 DEF Sources!Sources
  <2> QED BY <1>9, <2>1, <2>2 DEF Sources!Written
<1> HIDE DEF r
<1>10. "paid" \in Sources!Bases /\ "trial" \in Sources!Bases
  BY DEF Sources!Bases
<1>11. j.at \in Int
  BY DEF Sources!Jobs
<1>12. ASSUME NEW c \in {"paid", "trial"}, r.sources[c] # None
       PROVE  /\ r.sources[c].until # None /\ r.sources[c].from < r.sources[c].until
              /\ c = "trial" => r.sources[c].until = r.sources[c].from + TrialLength
  <2>1. CASE c = b
    <3>1. c = "trial" => s.from < s.until /\ s.until # None
      BY <1>1, <1>11, <2>1
    <3> QED BY <1>1, <1>8, <2>1, <3>1
  <2>2. CASE c # b
    BY <1>8, <1>9, <1>10, <1>12, <2>2
  <2> QED BY <2>1, <2>2
<1>13. Sources!Written(r)
  BY <1>7, <1>12 DEF Sources!Written
<1>14. r.revision = Sources!Revision(j.row) + 1
  BY <1>7
<1>15. j.kind = "trial" => r.sources["trial"] # None /\ r.sources["trial"].from = j.at
  BY <1>1, <1>8
<1>16. Over(r, j.row, j.kind, j.at)
  BY <1>1, <1>8, <1>13, <1>14, <1>15 DEF Over
<1> QED BY <1>16 DEF r

\* The rows of the invariant, without the invocations.
AccountRows ==
  /\ v1 \in 0 .. SourceTime /\ v2 \in BOOLEAN /\ v3 \in Sources!Keys /\ v4 \in 1 .. MaxBindings
  /\ \A k \in Sources!Keys : v5[k] # None =>
       v5[k].revision \in 1 .. MaxAccess /\ v5[k].basis \in Sources!Bases \cup {None}
  /\ \A k \in Sources!Keys : v6[k] = None \/ v6[k] \in 0 .. v1
  /\ Sources!RowsInv

\* The invocations of the invariant.
AccountJobs == DOMAIN v7 = Workers /\ \A w \in Workers : Sources!JobInv(w)

\* The two make the invariant up.
LEMMA SourcesParts == Sources!IInv <=> AccountRows /\ v9 /\ AccountJobs
<1>1. (\A w \in Workers : Sources!JobInv(w)) =>
        \A w \in Workers : v7[w].phase \in {"idle", "asked", "past", "commit", "baseline", "device", "grant", "again", "tell"}
  BY DEF Sources!JobInv, Sources!Jobs
<1> DEFINE Phased ==
      \A w \in Workers : v7[w].phase \in {"idle", "asked", "past", "commit", "baseline", "device", "grant", "again", "tell"}
<1>2. Sources!TypeOK /\ Sources!RowsInv <=> AccountRows /\ Phased
  BY DEF Sources!TypeOK, AccountRows
<1> HIDE DEF Phased
<1>3. AccountJobs => Phased
  BY <1>1 DEF Phased, AccountJobs
<1> QED BY <1>2, <1>3 DEF Sources!IInv, AccountJobs

\* The same after a step.
LEMMA SourcesPartsNext == Sources!IInv' <=> AccountRows' /\ v9' /\ AccountJobs'
BY SourcesParts, PTL

\* Times pass, keys and bindings are added, revisions rise, and activations stay.
Onward ==
  /\ v1 <= v1' /\ v3 <= v3' /\ v4 <= v4' /\ v4' \in Int /\ v1' \in Int /\ v3' \in Sources!Keys
  /\ \A k \in Sources!Keys :
       v5'[k] = v5[k] \/ (Sources!Revision(v5'[k]) \in Int /\ Sources!Revision(v5[k]) < Sources!Revision(v5'[k]))
  /\ \A k \in Sources!Keys : v6[k] # None => v6'[k] = v6[k]

\* An invocation that does not move knows what it knew.
LEMMA SourcesJobKept ==
  ASSUME AccountRows, Onward, NEW x \in Workers, Sources!JobInv(x), v7'[x] = v7[x]
  PROVE  Sources!JobInv(x)'
<1> USE SourcesSettings
<1>1. /\ {v1, v1', v3, v3', v4, v4'} \subseteq Int /\ v1 <= v1' /\ v3 <= v3' /\ v4 <= v4' /\ v3 <= MaxKeys /\ v3' <= MaxKeys
  BY DEF AccountRows, Onward, Sources!Keys
<1>2. PICK j : j = v7[x]
  OBVIOUS
<1>3. v7'[x] = j
  BY <1>2
<1>4. /\ j \in Sources!Jobs
      /\ j.phase # "idle" => j.kind \in Sources!Requests /\ j.keys \in 1 .. v3' /\ j.at \in 0 .. v1'
      /\ j.phase = "past" => j.kind \in {"trial", "snapshot"}
      /\ j.phase = "commit" /\ j.kind = "trial" => Sources!Eligible(j.row, j.at)
      /\ j.phase \in {"baseline", "device", "grant", "again", "tell"} => j.kind = "snapshot"
      /\ j.phase \in {"grant", "again", "tell"} => j.device \in 1 .. v4'
  BY <1>1, <1>2 DEF Sources!JobInv
<1>5. j.phase # "idle" => j.keys \in Sources!Keys /\ j.keys \in 1 .. v3
  BY <1>1, <1>2 DEF Sources!JobInv, Sources!Keys
<1>6. j.phase \in {"past", "commit"} =>
        /\ j.row # None => Sources!Written(j.row)
        /\ Sources!Revision(j.row) <= Sources!Revision(v5'[j.keys])
        /\ Sources!Revision(j.row) = Sources!Revision(v5'[j.keys]) => j.row = v5'[j.keys]
  <2> SUFFICES ASSUME j.phase \in {"past", "commit"}
               PROVE  /\ j.row # None => Sources!Written(j.row)
                      /\ Sources!Revision(j.row) <= Sources!Revision(v5'[j.keys])
                      /\ Sources!Revision(j.row) = Sources!Revision(v5'[j.keys]) => j.row = v5'[j.keys]
    OBVIOUS
  <2>1. /\ j.row # None => Sources!Written(j.row)
        /\ Sources!Revision(j.row) <= Sources!Revision(v5[j.keys])
        /\ Sources!Revision(j.row) = Sources!Revision(v5[j.keys]) => j.row = v5[j.keys]
    BY <1>2 DEF Sources!JobInv
  <2>2. Sources!Revision(j.row) \in Int
    BY <2>1 DEF Sources!Revision, Sources!Written, Sources!AccessRows
  <2>3. Sources!Revision(v5[j.keys]) \in Int
    BY <1>5 DEF AccountRows, Sources!Revision
  <2>4. \/ v5'[j.keys] = v5[j.keys]
        \/ /\ Sources!Revision(v5'[j.keys]) \in Int
           /\ Sources!Revision(v5[j.keys]) < Sources!Revision(v5'[j.keys])
    BY <1>5 DEF Onward
  <2> QED BY <2>1, <2>2, <2>3, <2>4
<1>7. j.phase # "idle" => Sources!Seen(j.keys) \subseteq Sources!Seen(j.keys)'
  <2> SUFFICES ASSUME j.phase # "idle" PROVE Sources!Seen(j.keys) \subseteq Sources!Seen(j.keys)'
    OBVIOUS
  <2>1. \A k \in 1 .. j.keys : v6[k] # None => v6'[k] = v6[k]
    BY <1>1, <1>5 DEF Onward, Sources!Keys
  <2> QED BY <2>1 DEF Sources!Seen
<1>8. j.phase \notin {"idle", "asked", "past"} /\ j.kind = "snapshot" => j.past \subseteq Sources!Seen(j.keys)'
  BY <1>2, <1>7 DEF Sources!JobInv
<1>9. j.phase = "tell" => j.stood \/ j.device # v4' \/ j.past # Sources!Seen(j.keys)'
  <2> SUFFICES ASSUME j.phase = "tell", ~j.stood, j.device = v4' PROVE j.past # Sources!Seen(j.keys)'
    OBVIOUS
  <2>1. /\ j.device \in 1 .. v4 /\ (j.stood \/ j.device # v4 \/ j.past # Sources!Seen(j.keys))
        /\ j.kind = "snapshot" /\ j.past \subseteq Sources!Seen(j.keys)
    BY <1>2 DEF Sources!JobInv
  <2>2. j.device = v4
    BY <1>1, <2>1
  <2> QED BY <1>7, <2>1, <2>2
<1> QED BY <1>3, <1>4, <1>6, <1>8, <1>9 DEF Sources!JobInv

\* Nor do the others when one moves.
LEMMA SourcesJobsKept ==
  ASSUME Sources!IInv, Onward, NEW w \in Workers, NEW i, v7' = [v7 EXCEPT ![w] = i], Sources!JobInv(w)'
  PROVE  AccountJobs'
<1>1. AccountRows /\ DOMAIN v7 = Workers /\ \A x \in Workers : Sources!JobInv(x)
  BY SourcesParts DEF AccountJobs
<1>2. ASSUME NEW x \in Workers PROVE Sources!JobInv(x)'
  <2>1. CASE x = w
    BY <2>1
  <2>2. CASE x # w
    <3>1. v7'[x] = v7[x]
      BY <1>1, <2>2
    <3> QED BY <1>1, <3>1, SourcesJobKept
  <2> QED BY <2>1, <2>2
<1>3. DOMAIN v7' = Workers
  BY <1>1
<1> QED BY <1>2, <1>3 DEF AccountJobs

\* An invocation that moves while the rows stay.
LEMMA SourcesMove ==
  ASSUME Sources!IInv, NEW w \in Workers, NEW i, Sources!Move(w, i), Sources!JobInv(w)'
  PROVE  Sources!IInv' /\ Sources!SourcesKept
<1> USE SourcesSettings
<1>1. v7' = [v7 EXCEPT ![w] = i] /\ UNCHANGED <<v1, v2, v3, v4, v5, v6, v8, v9>>
  BY DEF Sources!Move, Sources!rows
<1>2. AccountRows /\ v9
  BY SourcesParts
<1>3. Onward
  BY <1>1, <1>2 DEF Onward, AccountRows, Sources!Keys
<1>4. AccountJobs'
  BY <1>1, <1>3, SourcesJobsKept
<1>5. AccountRows'
  <2>1. Sources!Activations' = Sources!Activations
    BY <1>1 DEF Sources!Activations
  <2>2. Sources!RowsInv'
    BY <1>1, <1>2, <2>1 DEF AccountRows, Sources!RowsInv
  <2> QED BY <1>1, <1>2, <2>2 DEF AccountRows
<1>6. v9'
  BY <1>1, <1>2
<1>7. Sources!SourcesKept
  BY <1>1 DEF Sources!SourcesKept
<1> QED BY <1>4, <1>5, <1>6, <1>7, SourcesPartsNext

\* At rest an invocation knows nothing.
LEMMA SourcesAtRest ==
  ASSUME NEW w \in Workers, v7'[w] = Sources!Idle PROVE Sources!JobInv(w)'
<1>1. Sources!Idle \in Sources!Jobs /\ Sources!Idle.phase = "idle" /\ Sources!Idle.kind = None
  BY DEF Sources!Idle, Sources!Jobs
<1> QED BY <1>1 DEF Sources!JobInv

\* A request is checked, and its keyring and device noted.
LEMMA SourcesBegins ==
  ASSUME Sources!IInv, NEW w \in Workers, NEW kind \in Sources!Requests, Sources!Begin(w, kind)
  PROVE  Sources!IInv' /\ Sources!SourcesKept
<1> USE SourcesSettings
<1>1. AccountRows /\ DOMAIN v7 = Workers
  BY SourcesParts DEF AccountJobs
<1>2. PICK end \in (IF kind = "grant" THEN {None} \cup {v1 + 1} ELSE {None}) :
        Sources!Move(w, [Sources!Idle EXCEPT !.kind = kind, !.phase = "asked", !.keys = v3,
                           !.device = IF kind = "trial" THEN v4 ELSE None, !.end = end])
  BY DEF Sources!Begin
<1> DEFINE d == IF kind = "trial" THEN v4 ELSE None
           i == [Sources!Idle EXCEPT !.kind = kind, !.phase = "asked", !.keys = v3, !.device = d, !.end = end]
<1>3. v1 \in Int /\ v1 >= 0 /\ v3 \in Int /\ v3 >= 1 /\ v4 \in Int
  BY <1>1 DEF AccountRows, Sources!Keys
<1>4. end \in Int \cup {None}
  BY <1>2, <1>3
<1>6. Sources!Move(w, i)
  BY <1>2
<1>5. i \in Sources!Jobs /\ i.kind = kind /\ i.phase = "asked" /\ i.keys = v3 /\ i.at = 0
  <2>1. d \in Int \cup {None}
    BY <1>3
  <2> HIDE DEF d
  <2>2. Sources!Idle \in Sources!Jobs /\ Sources!Idle.at = 0
    BY DEF Sources!Idle, Sources!Jobs
  <2> QED BY <1>3, <1>4, <2>1, <2>2 DEF Sources!Jobs
<1> HIDE DEF i
<1>7. v7'[w] = i /\ v3' = v3 /\ v1' = v1
  BY <1>1, <1>6 DEF Sources!Move, Sources!rows
<1>8. Sources!JobInv(w)'
  BY <1>3, <1>5, <1>7 DEF Sources!JobInv
<1> QED BY <1>6, <1>8, SourcesMove

\* What there is to know of an invocation at work.
LEMMA SourcesJob ==
  ASSUME Sources!IInv, NEW w \in Workers, v7[w].phase # "idle"
  PROVE  /\ v7[w] \in Sources!Jobs /\ v7[w].kind \in Sources!Requests
         /\ v7[w].keys \in 1 .. v3 /\ v7[w].keys \in Sources!Keys /\ v7[w].at \in 0 .. v1
         /\ v1 \in Nat /\ v3 \in Nat /\ v4 \in Nat /\ v3 <= MaxKeys
         /\ DOMAIN v7 = Workers /\ Sources!JobInv(w) /\ AccountRows
<1> USE SourcesSettings
<1>1. AccountRows /\ DOMAIN v7 = Workers /\ Sources!JobInv(w)
  BY SourcesParts DEF AccountJobs
<1>2. v1 \in Nat /\ v3 \in Nat /\ v4 \in Nat /\ v3 <= MaxKeys
  BY <1>1 DEF AccountRows, Sources!Keys
<1>3. v7[w] \in Sources!Jobs /\ v7[w].kind \in Sources!Requests /\ v7[w].keys \in 1 .. v3 /\ v7[w].at \in 0 .. v1
  BY <1>1 DEF Sources!JobInv
<1> QED BY <1>1, <1>2, <1>3 DEF Sources!Keys

\* The row read is one the writers write.
LEMMA SourcesReads ==
  ASSUME Sources!IInv, NEW w \in Workers, Sources!Read(w)
  PROVE  Sources!IInv' /\ Sources!SourcesKept
<1> USE SourcesSettings
<1>1. PICK j : j = v7[w]
  OBVIOUS
<1>2. j.phase = "asked"
  BY <1>1 DEF Sources!Read
<1>3. /\ j \in Sources!Jobs /\ j.kind \in Sources!Requests /\ j.keys \in 1 .. v3 /\ j.keys \in Sources!Keys
      /\ v1 \in Nat /\ DOMAIN v7 = Workers /\ AccountRows
  BY <1>1, <1>2, SourcesJob
<1>4. PICK row : row = v5[j.keys]
  OBVIOUS
<1> DEFINE p == IF j.kind \in {"trial", "snapshot"} THEN "past" ELSE "commit"
           i == [j EXCEPT !.row = row, !.at = v1, !.phase = p]
<1>5. Sources!Move(w, i)
  BY <1>1, <1>4 DEF Sources!Read
<1>6. row # None => Sources!Written(row)
  BY <1>3, <1>4 DEF AccountRows, Sources!RowsInv
<1>7. row \in Sources!AccessRows \cup {None} /\ Sources!Revision(row) \in Int
  BY <1>6 DEF Sources!Written, Sources!Revision, Sources!AccessRows
<1>8. i \in Sources!Jobs
  <2>1. p \in {"past", "commit"} /\ v1 \in Int
    BY <1>3
  <2> HIDE DEF p
  <2> QED BY <1>3, <1>7, <2>1 DEF Sources!Jobs
<1>9. /\ i.kind = j.kind /\ i.keys = j.keys /\ i.row = row /\ i.at = v1
      /\ i.phase = IF j.kind \in {"trial", "snapshot"} THEN "past" ELSE "commit"
  BY <1>3 DEF Sources!Jobs
<1> HIDE DEF i
<1>10. v7'[w] = i /\ v3' = v3 /\ v1' = v1 /\ v5' = v5
  BY <1>3, <1>5 DEF Sources!Move, Sources!rows
<1>11. v1 \in 0 .. v1
  BY <1>3
<1>12. Sources!JobInv(w)'
  BY <1>3, <1>4, <1>6, <1>7, <1>8, <1>9, <1>10, <1>11 DEF Sources!JobInv
<1> QED BY <1>5, <1>12, SourcesMove

\* A trial is only left for an account without one, and beside nothing that lasts.
LEMMA SourcesReadsHistory ==
  ASSUME Sources!IInv, NEW w \in Workers, Sources!ReadHistory(w)
  PROVE  Sources!IInv' /\ Sources!SourcesKept
<1> USE SourcesSettings
<1>1. PICK j : j = v7[w]
  OBVIOUS
<1>2. j.phase = "past"
  BY <1>1 DEF Sources!ReadHistory
<1>3. /\ j \in Sources!Jobs /\ j.kind \in Sources!Requests /\ j.keys \in 1 .. v3 /\ j.keys \in Sources!Keys
      /\ v1 \in Nat /\ v3 \in Nat /\ v3 <= MaxKeys /\ DOMAIN v7 = Workers /\ AccountRows /\ Sources!JobInv(w)
  BY <1>1, <1>2, SourcesJob
<1>4. PICK seen : seen = Sources!Seen(j.keys)
  OBVIOUS
<1> DEFINE i == [j EXCEPT !.past = seen, !.at = v1, !.phase = "commit"]
<1>5. Sources!Move(w, i) /\ (j.kind = "trial" => Sources!Eligible(j.row, v1))
  BY <1>1, <1>4 DEF Sources!ReadHistory, Sources!Seen
<1>6. seen \in SUBSET Int
  <2>1. \A k \in 1 .. j.keys : v6[k] = None \/ v6[k] \in Int
    BY <1>3 DEF AccountRows, Sources!Keys
  <2> QED BY <1>4, <2>1 DEF Sources!Seen
<1>7. i \in Sources!Jobs
  <2>1. v1 \in Int
    BY <1>3
  <2> QED BY <1>3, <1>6, <2>1 DEF Sources!Jobs
<1>8. i.kind = j.kind /\ i.keys = j.keys /\ i.row = j.row /\ i.at = v1 /\ i.past = seen /\ i.phase = "commit"
  BY <1>3 DEF Sources!Jobs
<1> HIDE DEF i
<1>9. v7'[w] = i /\ v3' = v3 /\ v1' = v1 /\ v5' = v5 /\ v6' = v6
  BY <1>3, <1>5 DEF Sources!Move, Sources!rows
<1>10. v1 \in 0 .. v1
  BY <1>3
<1>11. /\ j.row # None => Sources!Written(j.row)
       /\ Sources!Revision(j.row) <= Sources!Revision(v5[j.keys])
       /\ Sources!Revision(j.row) = Sources!Revision(v5[j.keys]) => j.row = v5[j.keys]
  BY <1>1, <1>2, <1>3 DEF Sources!JobInv
<1>12. seen = Sources!Seen(j.keys)'
  BY <1>4, <1>9 DEF Sources!Seen
<1>13. Sources!JobInv(w)'
  BY <1>3, <1>5, <1>7, <1>8, <1>9, <1>10, <1>11, <1>12 DEF Sources!JobInv
<1> QED BY <1>5, <1>13, SourcesMove

\* Giving up.
LEMMA SourcesStops ==
  ASSUME Sources!IInv, NEW w \in Workers, Sources!Stop(w)
  PROVE  Sources!IInv' /\ Sources!SourcesKept
<1>1. DOMAIN v7 = Workers
  BY SourcesParts DEF AccountJobs
<1>2. Sources!Move(w, Sources!Idle) /\ v7'[w] = Sources!Idle
  BY <1>1 DEF Sources!Stop, Sources!Move
<1> QED BY <1>2, SourcesAtRest, SourcesMove

\* The reads of a snapshot: its histories stay among those there are, and a last look
\* that finds either changed says so.
LEMMA SourcesLooks ==
  ASSUME Sources!IInv, NEW w \in Workers,
         Sources!ReadBaseline(w) \/ Sources!ReadDevice(w) \/ Sources!ReadGrant(w) \/ Sources!ReadAgain(w)
  PROVE  Sources!IInv' /\ Sources!SourcesKept
<1> USE SourcesSettings
<1>1. PICK j : j = v7[w]
  OBVIOUS
<1>2. j.phase \in {"baseline", "device", "grant", "again"}
  BY <1>1 DEF Sources!ReadBaseline, Sources!ReadDevice, Sources!ReadGrant, Sources!ReadAgain
<1>3. /\ j \in Sources!Jobs /\ j.kind \in Sources!Requests /\ j.keys \in 1 .. v3 /\ j.keys \in Sources!Keys
      /\ j.at \in 0 .. v1 /\ v4 \in Nat /\ v4 >= 1 /\ DOMAIN v7 = Workers /\ AccountRows /\ Sources!JobInv(w)
  <2>1. v4 >= 1
    BY SourcesParts DEF AccountRows
  <2> QED BY <1>1, <1>2, <2>1, SourcesJob
<1>4. /\ j.kind = "snapshot" /\ j.past \subseteq Sources!Seen(j.keys)
      /\ j.phase \in {"grant", "again"} => j.device \in 1 .. v4
  BY <1>1, <1>2, <1>3 DEF Sources!JobInv
<1>5. v5[j.keys] \in Sources!AccessRows \cup {None}
  BY <1>3 DEF AccountRows, Sources!RowsInv, Sources!Written
<1>6. \E i \in Sources!Jobs :
        /\ Sources!Move(w, i)
        /\ i.kind = "snapshot" /\ i.keys = j.keys /\ i.at = j.at /\ i.past = j.past
        /\ i.phase \in {"device", "grant", "again", "tell"}
        /\ i.phase \in {"grant", "again", "tell"} => i.device \in 1 .. v4
        /\ i.phase = "tell" => i.stood \/ i.device # v4 \/ i.past # Sources!Seen(j.keys)
  <2>1. CASE Sources!ReadBaseline(w)
    <3> DEFINE i == [j EXCEPT !.row = v5[j.keys], !.phase = "device"]
    <3>1. Sources!Move(w, i)
      BY <1>1, <2>1 DEF Sources!ReadBaseline
    <3>2. i \in Sources!Jobs
      BY <1>3, <1>5 DEF Sources!Jobs
    <3>3. i.kind = j.kind /\ i.keys = j.keys /\ i.at = j.at /\ i.past = j.past /\ i.phase = "device"
      BY <1>3 DEF Sources!Jobs
    <3> HIDE DEF i
    <3> QED BY <1>4, <3>1, <3>2, <3>3
  <2>2. CASE Sources!ReadDevice(w)
    <3> DEFINE i == [j EXCEPT !.device = v4, !.phase = "grant"]
    <3>1. Sources!Move(w, i)
      BY <1>1, <2>2 DEF Sources!ReadDevice
    <3>2. i \in Sources!Jobs
      <4>1. v4 \in Int
        BY <1>3
      <4> QED BY <1>3, <4>1 DEF Sources!Jobs
    <3>3. i.kind = j.kind /\ i.keys = j.keys /\ i.at = j.at /\ i.past = j.past /\ i.phase = "grant" /\ i.device = v4
      BY <1>3 DEF Sources!Jobs
    <3>4. v4 \in 1 .. v4
      BY <1>3
    <3> HIDE DEF i
    <3> QED BY <1>4, <3>1, <3>2, <3>3, <3>4
  <2>3. CASE Sources!ReadGrant(w)
    <3> DEFINE g == IF Sources!Granted(v5[j.keys], v1) THEN v5[j.keys] ELSE None
               i == [j EXCEPT !.grant = g, !.phase = "again"]
    <3>1. Sources!Move(w, i) /\ j.phase = "grant"
      BY <1>1, <2>3 DEF Sources!ReadGrant
    <3>2. g \in Sources!AccessRows \cup {None}
      BY <1>5
    <3> HIDE DEF g
    <3>3. i \in Sources!Jobs
      BY <1>3, <3>2 DEF Sources!Jobs
    <3>4. /\ i.kind = j.kind /\ i.keys = j.keys /\ i.at = j.at /\ i.past = j.past /\ i.phase = "again"
          /\ i.device = j.device
      BY <1>3 DEF Sources!Jobs
    <3> HIDE DEF i
    <3> QED BY <1>4, <3>1, <3>3, <3>4
  <2>4. CASE Sources!ReadAgain(w)
    <3> DEFINE s == /\ v5[j.keys] = j.row /\ j.grant \in {None, j.row} /\ v4 = j.device
                    /\ {v6[k] : k \in 1 .. j.keys} \ {None} = j.past
               i == [j EXCEPT !.phase = "tell", !.stood = s]
    <3>1. Sources!Move(w, i) /\ j.phase = "again" /\ v5[j.keys] = j.row /\ j.grant \in {None, j.row}
      BY <1>1, <2>4 DEF Sources!ReadAgain, Sources!StillGranted
    <3>2. s \in BOOLEAN
      OBVIOUS
    <3>3. s \/ j.device # v4 \/ j.past # Sources!Seen(j.keys)
      BY <3>1 DEF Sources!Seen
    <3> HIDE DEF s
    <3>4. i \in Sources!Jobs
      BY <1>3, <3>2 DEF Sources!Jobs
    <3>5. /\ i.kind = j.kind /\ i.keys = j.keys /\ i.at = j.at /\ i.past = j.past /\ i.phase = "tell"
          /\ i.device = j.device /\ i.stood = s
      BY <1>3 DEF Sources!Jobs
    <3> HIDE DEF i
    <3> QED BY <1>4, <3>1, <3>3, <3>4, <3>5
  <2> QED BY <2>1, <2>2, <2>3, <2>4
<1>7. PICK i \in Sources!Jobs :
        /\ Sources!Move(w, i)
        /\ i.kind = "snapshot" /\ i.keys = j.keys /\ i.at = j.at /\ i.past = j.past
        /\ i.phase \in {"device", "grant", "again", "tell"}
        /\ i.phase \in {"grant", "again", "tell"} => i.device \in 1 .. v4
        /\ i.phase = "tell" => i.stood \/ i.device # v4 \/ i.past # Sources!Seen(j.keys)
  BY <1>6
<1>8. v7'[w] = i /\ v1' = v1 /\ v3' = v3 /\ v4' = v4 /\ v6' = v6
  BY <1>3, <1>7 DEF Sources!Move, Sources!rows
<1>9. Sources!Seen(j.keys)' = Sources!Seen(j.keys)
  BY <1>8 DEF Sources!Seen
<1>10. Sources!JobInv(w)'
  BY <1>3, <1>4, <1>7, <1>8, <1>9 DEF Sources!JobInv
<1> QED BY <1>7, <1>10, SourcesMove

\* The instance counts as the theorems about finite sets do.
LEMMA SourcesCardinality == \A S : Sources!Cardinality(S) = Cardinality(S)
BY DEF Sources!Cardinality, Sources!IsFiniteSet, Cardinality, IsFiniteSet

\* What there is one of at most counts as much.
LEMMA SourcesFew ==
  ASSUME NEW S, \A a, b \in S : a = b PROVE Sources!Cardinality(S) <= 1
<1>1. CASE S = {}
  <2>1. Cardinality(S) = 0
    BY <1>1, FS_EmptySet
  <2> QED BY <2>1, SourcesCardinality
<1>2. CASE S # {}
  <2>1. PICK a : S = {a}
    BY <1>2
  <2>2. Cardinality({a}) = 1
    BY FS_Singleton
  <2> QED BY <2>1, <2>2, SourcesCardinality
<1> QED BY <1>1, <1>2

\* What lasts no more at one time does not at a later one.
LEMMA SourcesOver ==
  ASSUME NEW s \in Sources!SourceRows, NEW t \in Int, NEW u \in Int, t <= u, ~Sources!Lasts(s, t)
  PROVE  ~Sources!Lasts(s, u)
<1>1. s.until # None /\ s.until \in Int
  BY DEF Sources!Lasts, Sources!SourceRows
<1> QED BY <1>1 DEF Sources!Lasts

\* A transaction: it finds the row it was made from, the account's only one, and with a
\* trial no activation.
LEMMA SourcesWrites ==
  ASSUME AccountRows, NEW j, j \in Sources!Jobs, j.kind \in Sources!Requests,
         j.keys \in 1 .. v3, j.at \in 0 .. v1, j.row # None => Sources!Written(j.row),
         Sources!Revision(j.row) = Sources!Revision(v5[j.keys]) => j.row = v5[j.keys],
         j.kind = "trial" => Sources!Eligible(j.row, j.at),
         Sources!Committable(j), NEW t, Sources!Write(j, t), UNCHANGED <<v1, v2, v3, v4>>,
         \/ j.kind # "trial" /\ v6' = v6 /\ v8' = v8
         \/ /\ j.kind = "trial" /\ \A k \in 1 .. v3 : v6[k] = None
            /\ v6' = [v6 EXCEPT ![j.keys] = j.at] /\ v8' = v8 \cup {j.at}
  PROVE  AccountRows' /\ Onward /\ Sources!SourcesKept
<1> USE SourcesSettings
<1>1. /\ v1 \in Int /\ v1 >= 0 /\ v3 \in Int /\ v3 >= 1 /\ v3 <= MaxKeys /\ v4 \in Int /\ j.at \in Int /\ j.at <= v1
      /\ v3 \in Sources!Keys /\ \A k \in Sources!Keys : k \in Int /\ k >= 1
  BY DEF AccountRows, Sources!Keys
<1>2. Sources!RowsInv
  BY DEF AccountRows
<1>3. PICK n \in Sources!Keys : n = j.keys /\ n = v3
  BY <1>1 DEF Sources!Committable
<1>4. j.row = v5[n]
  BY <1>3 DEF Sources!Committable
<1>5. \A k \in Sources!Keys : k # n => v5[k] = None
  <2> SUFFICES ASSUME NEW k \in Sources!Keys, k # n PROVE v5[k] = None
    OBVIOUS
  <2>1. k < n => k \in 1 .. v3 - 1
    BY <1>1, <1>3
  <2>2. v5[k] # None => k <= v3
    BY <1>2 DEF Sources!RowsInv
  <2> QED BY <1>1, <1>3, <2>1, <2>2 DEF Sources!Committable
<1> DEFINE r == Sources!Effective(j.row, Sources!Change(j), t)
<1>6. v5' = [v5 EXCEPT ![n] = r] /\ Sources!Revision(v5[n]) < MaxAccess
  BY <1>3 DEF Sources!Write
<1>7. Over(r, v5[n], j.kind, j.at)
  BY <1>4, SourcesWritten
<1> HIDE DEF r
<1>8. DOMAIN v5 = Sources!Keys /\ DOMAIN v6 = Sources!Keys
  BY <1>2 DEF Sources!RowsInv
<1>9. v5'[n] = r /\ DOMAIN v5' = Sources!Keys /\ \A k \in Sources!Keys : k # n => v5'[k] = None
  BY <1>5, <1>6, <1>8
<1>10. /\ r # None /\ Sources!Written(r) /\ r.basis \in Sources!Bases \cup {None}
       /\ r.sources \in [Sources!Bases -> Sources!SourceRows \cup {None}]
  BY <1>7 DEF Over, Sources!Written, Sources!AccessRows
<1>11. Sources!Revision(v5[n]) \in Nat
  BY <1>4 DEF Sources!Revision, Sources!Written, Sources!AccessRows
<1>12. r.revision = Sources!Revision(v5[n]) + 1 /\ r.revision \in 1 .. MaxAccess
  BY <1>6, <1>7, <1>11 DEF Over
<1>13. \A k \in Sources!Keys : v6[k] # None => k <= v3
  BY <1>2 DEF Sources!RowsInv
<1>14. /\ DOMAIN v6' = Sources!Keys /\ \A k \in Sources!Keys : v6[k] # None => v6'[k] = v6[k]
       /\ \A k \in Sources!Keys : v6'[k] = v6[k] \/ (k = n /\ v6'[k] = j.at /\ j.kind = "trial")
  <2>1. CASE j.kind # "trial"
    BY <1>8, <2>1
  <2>2. CASE j.kind = "trial"
    <3>1. \A k \in 1 .. v3 : v6[k] = None
      BY <2>2
    <3>2. v6[n] = None
      BY <1>1, <1>3, <3>1
    <3>3. v6' = [v6 EXCEPT ![n] = j.at]
      BY <1>3, <2>2
    <3> QED BY <1>8, <2>2, <3>2, <3>3
  <2> QED BY <2>1, <2>2
<1>15. /\ v8' = Sources!Activations' /\ \A a, b \in v8' : a = b
       /\ j.kind = "trial" => Sources!Activations' = {j.at}
       /\ j.kind # "trial" => Sources!Activations' = Sources!Activations
  <2>1. v8 = Sources!Activations /\ \A a, b \in v8 : a = b
    BY <1>2 DEF Sources!RowsInv
  <2>2. CASE j.kind # "trial"
    <3>1. Sources!Activations' = Sources!Activations
      BY <2>2 DEF Sources!Activations
    <3> QED BY <2>1, <2>2, <3>1
  <2>3. CASE j.kind = "trial"
    <3>1. \A k \in 1 .. v3 : v6[k] = None
      BY <2>3
    <3>2. Sources!Activations = {}
      BY <3>1 DEF Sources!Activations
    <3>3. v6'[n] = j.at /\ \A k \in 1 .. v3 : k # n => v6'[k] = None
      <4>1. v6' = [v6 EXCEPT ![n] = j.at]
        BY <1>3, <2>3
      <4>2. \A k \in 1 .. v3 : k \in Sources!Keys
        BY <1>1 DEF Sources!Keys
      <4> QED BY <1>8, <3>1, <4>1, <4>2
    <3>4. n \in 1 .. v3 /\ j.at # None
      BY <1>1, <1>3
    <3>5. {v6'[k] : k \in 1 .. v3} \ {None} = {j.at}
      BY <3>3, <3>4
    <3>6. Sources!Activations' = {j.at}
      BY <3>5 DEF Sources!Activations
    <3> QED BY <2>1, <2>3, <3>2, <3>6
  <2> QED BY <2>2, <2>3
<1>16. ASSUME r.sources["trial"] # None PROVE Sources!Activations' = {r.sources["trial"].from}
  <2>1. CASE j.kind = "trial"
    BY <1>7, <1>15, <2>1 DEF Over
  <2>2. CASE j.kind # "trial"
    <3>1. r.sources["trial"] = Sources!Sources(v5[n])["trial"]
      BY <1>7, <2>2 DEF Over, Sources!Bases
    <3>2. v5[n] # None
      BY <1>16, <3>1 DEF Sources!Sources, Sources!NoSources, Sources!Bases
    <3>3. r.sources["trial"] = v5[n].sources["trial"]
      BY <3>1, <3>2 DEF Sources!Sources
    <3>4. Sources!Activations = {r.sources["trial"].from}
      BY <1>2, <1>16, <3>2, <3>3 DEF Sources!RowsInv
    <3> QED BY <1>15, <2>2, <3>4
  <2> QED BY <2>1, <2>2
<1>17. Sources!RowsInv'
  <2>1. ASSUME NEW k \in Sources!Keys, v5'[k] # None
        PROVE /\ k <= v3' /\ Sources!Written(v5'[k])
              /\ \A l \in Sources!Keys : v5'[l] # None => l = k
              /\ v5'[k].sources["trial"] # None => Sources!Activations' = {v5'[k].sources["trial"].from}
    <3>1. k = n /\ v5'[k] = r
      BY <1>9, <2>1
    <3>2. k <= v3'
      BY <1>1, <1>3, <3>1
    <3> QED BY <1>9, <1>10, <1>16, <3>1, <3>2
  <2>2. \A k \in Sources!Keys : v6'[k] # None => k <= v3'
    BY <1>1, <1>3, <1>13, <1>14
  <2> QED BY <1>9, <1>14, <1>15, <2>1, <2>2 DEF Sources!RowsInv
<1>18. \A k \in Sources!Keys : v6'[k] = None \/ v6'[k] \in 0 .. v1'
  BY <1>14 DEF AccountRows
<1>19. AccountRows'
  <2>1. \A k \in Sources!Keys : v5'[k] # None =>
           v5'[k].revision \in 1 .. MaxAccess /\ v5'[k].basis \in Sources!Bases \cup {None}
    BY <1>9, <1>10, <1>12
  <2> QED BY <1>17, <1>18, <2>1 DEF AccountRows
<1>20. Onward
  <2>1. Sources!Revision(v5'[n]) \in Int /\ Sources!Revision(v5[n]) < Sources!Revision(v5'[n])
    <3>1. Sources!Revision(v5'[n]) = r.revision
      BY <1>9, <1>10 DEF Sources!Revision
    <3> QED BY <1>11, <1>12, <3>1
  <2>2. \A k \in Sources!Keys : k # n => v5'[k] = v5[k]
    BY <1>5, <1>9
  <2> QED BY <1>1, <1>14, <2>1, <2>2 DEF Onward
<1>21. Sources!SourcesKept
  <2> SUFFICES ASSUME NEW k \in Sources!Keys, v5'[k] # v5[k]
               PROVE  /\ Sources!Cardinality({b \in Sources!Bases : v5'[k].sources[b] # Sources!Sources(v5[k])[b]}) <= 1
                      /\ v6'[k] # v6[k] => \A b \in Sources!Bases \ {"trial"} : ~Sources!InForce(v5'[k].sources[b], v1)
    BY DEF Sources!SourcesKept
  <2>1. k = n /\ v5'[k] = r
    BY <1>5, <1>9
  <2>2. PICK b \in Sources!Bases : /\ \A c \in Sources!Bases : c # b => r.sources[c] = Sources!Sources(v5[n])[c]
                                   /\ b = "trial" <=> j.kind = "trial"
    BY <1>7 DEF Over
  <2>3. Sources!Cardinality({c \in Sources!Bases : v5'[k].sources[c] # Sources!Sources(v5[k])[c]}) <= 1
    BY <2>1, <2>2, SourcesFew
  <2>4. ASSUME v6'[k] # v6[k], NEW c \in Sources!Bases \ {"trial"} PROVE ~Sources!InForce(r.sources[c], v1)
    <3>1. j.kind = "trial"
      BY <1>14, <2>4
    <3>2. r.sources[c] = Sources!Sources(v5[n])[c]
      BY <2>2, <3>1
    <3>3. r.sources[c] = None \/ ~r.sources[c].on \/ ~Sources!Lasts(r.sources[c], j.at)
      BY <1>4, <3>1, <3>2 DEF Sources!Eligible
    <3>4. r.sources[c] \in Sources!SourceRows \cup {None}
      BY <1>10
    <3>5. r.sources[c] \in Sources!SourceRows /\ ~Sources!Lasts(r.sources[c], j.at) => ~Sources!Lasts(r.sources[c], v1)
      BY <1>1, SourcesOver
    <3> QED BY <3>3, <3>4, <3>5 DEF Sources!InForce
  <2> QED BY <2>1, <2>3, <2>4
<1> QED BY <1>19, <1>20, <1>21

\* What a transaction is prepared from.
LEMMA SourcesPrepared ==
  ASSUME Sources!IInv, NEW w \in Workers, v7[w].phase = "commit"
  PROVE  /\ v7[w].row # None => Sources!Written(v7[w].row)
         /\ Sources!Revision(v7[w].row) = Sources!Revision(v5[v7[w].keys]) => v7[w].row = v5[v7[w].keys]
         /\ v7[w].kind = "trial" => Sources!Eligible(v7[w].row, v7[w].at)
         /\ v7[w].kind = "snapshot" => v7[w].past \subseteq Sources!Seen(v7[w].keys)
<1>1. Sources!JobInv(w)
  BY SourcesJob
<1> QED BY <1>1 DEF Sources!JobInv

\* The writers.
LEMMA SourcesCommits ==
  ASSUME Sources!IInv, NEW w \in Workers, Sources!Commit(w)
  PROVE  Sources!IInv' /\ Sources!SourcesKept
<1>1. PICK j : j = v7[w]
  OBVIOUS
<1>2. /\ j.phase = "commit" /\ Sources!Committable(j) /\ UNCHANGED <<v1, v2, v3, v4, v9>>
      /\ v7' = [v7 EXCEPT ![w] = Sources!Idle]
  BY <1>1 DEF Sources!Commit
<1>3. PICK t \in j.at .. v1 : Sources!Write(j, t)
  BY <1>1 DEF Sources!Commit
<1>4. \/ j.kind # "trial" /\ v6' = v6 /\ v8' = v8
      \/ /\ j.kind = "trial" /\ \A k \in 1 .. v3 : v6[k] = None
         /\ v6' = [v6 EXCEPT ![j.keys] = j.at] /\ v8' = v8 \cup {j.at}
  BY <1>1 DEF Sources!Commit
<1>5. /\ j \in Sources!Jobs /\ j.kind \in Sources!Requests /\ j.keys \in 1 .. v3 /\ j.at \in 0 .. v1
      /\ DOMAIN v7 = Workers /\ AccountRows
  BY <1>1, <1>2, SourcesJob
<1>6. /\ j.row # None => Sources!Written(j.row)
      /\ Sources!Revision(j.row) = Sources!Revision(v5[j.keys]) => j.row = v5[j.keys]
      /\ j.kind = "trial" => Sources!Eligible(j.row, j.at)
  BY <1>1, <1>2, SourcesPrepared
<1>7. AccountRows' /\ Onward /\ Sources!SourcesKept
  BY <1>2, <1>3, <1>4, <1>5, <1>6, SourcesWrites
<1>8. Sources!JobInv(w)'
  BY <1>2, <1>5, SourcesAtRest
<1>9. AccountJobs'
  BY <1>2, <1>7, <1>8, SourcesJobsKept
<1>10. v9'
  BY <1>2, SourcesParts
<1> QED BY <1>7, <1>9, <1>10, SourcesPartsNext

\* The rows, and whether they may go on, when nothing is written.
LEMMA SourcesStay ==
  ASSUME AccountRows, UNCHANGED <<v1, v2, v3, v4, v5, v6, v8>>
  PROVE  AccountRows' /\ Onward /\ Sources!SourcesKept
<1>1. Sources!Activations' = Sources!Activations
  BY DEF Sources!Activations
<1>2. Sources!RowsInv'
  BY <1>1 DEF AccountRows, Sources!RowsInv
<1>3. AccountRows'
  BY <1>2 DEF AccountRows
<1>4. Onward
  BY SourcesSettings DEF Onward, AccountRows, Sources!Keys
<1>5. Sources!SourcesKept
  BY DEF Sources!SourcesKept
<1> QED BY <1>3, <1>4, <1>5

\* A snapshot begins by computing the row anew, if its basis has run out.
LEMMA SourcesRefreshes ==
  ASSUME Sources!IInv, NEW w \in Workers, Sources!Refresh(w)
  PROVE  Sources!IInv' /\ Sources!SourcesKept
<1>1. PICK j : j = v7[w]
  OBVIOUS
<1>2. /\ j.phase = "commit" /\ j.kind = "snapshot" /\ UNCHANGED <<v1, v2, v3, v4, v6, v8, v9>>
      /\ v7' = [v7 EXCEPT ![w].phase = "baseline"]
      /\ v5' = v5 \/ (Sources!Committable(j) /\ Sources!Write(j, v1))
  BY <1>1 DEF Sources!Refresh
<1>3. /\ j \in Sources!Jobs /\ j.kind \in Sources!Requests /\ j.keys \in 1 .. v3 /\ j.at \in 0 .. v1
      /\ DOMAIN v7 = Workers /\ AccountRows
  BY <1>1, <1>2, SourcesJob
<1>4. /\ j.row # None => Sources!Written(j.row)
      /\ Sources!Revision(j.row) = Sources!Revision(v5[j.keys]) => j.row = v5[j.keys]
      /\ j.past \subseteq Sources!Seen(j.keys)
  BY <1>1, <1>2, SourcesPrepared
<1>5. AccountRows' /\ Onward /\ Sources!SourcesKept
  <2>1. CASE v5' = v5
    BY <1>2, <1>3, <2>1, SourcesStay
  <2>2. CASE Sources!Committable(j) /\ Sources!Write(j, v1)
    <3>1. j.kind # "trial"
      BY <1>2
    <3> QED BY <1>2, <1>3, <1>4, <2>2, <3>1, SourcesWrites
  <2> QED BY <1>2, <2>1, <2>2
<1> DEFINE i == [j EXCEPT !.phase = "baseline"]
<1>6. v7' = [v7 EXCEPT ![w] = i]
  BY <1>1, <1>2, <1>3
<1>7. i \in Sources!Jobs
  BY <1>3 DEF Sources!Jobs
<1>8. i.kind = "snapshot" /\ i.keys = j.keys /\ i.at = j.at /\ i.past = j.past /\ i.phase = "baseline"
  BY <1>2, <1>3 DEF Sources!Jobs
<1> HIDE DEF i
<1>9. v7'[w] = i /\ Sources!Seen(j.keys)' = Sources!Seen(j.keys)
  BY <1>2, <1>3, <1>6 DEF Sources!Seen
<1>10. Sources!JobInv(w)'
  BY <1>2, <1>3, <1>4, <1>7, <1>8, <1>9 DEF Sources!JobInv
<1>11. AccountJobs'
  BY <1>5, <1>6, <1>10, SourcesJobsKept
<1>12. v9'
  BY <1>2, SourcesParts
<1> QED BY <1>5, <1>11, <1>12, SourcesPartsNext

\* A snapshot that is told stood: what it found changed would be so still.
LEMMA SourcesTells ==
  ASSUME Sources!IInv, NEW w \in Workers, Sources!Tell(w)
  PROVE  Sources!IInv' /\ Sources!SourcesKept
<1>1. PICK j : j = v7[w]
  OBVIOUS
<1>2. /\ j.phase = "tell" /\ {v6[k] : k \in 1 .. j.keys} \ {None} = j.past /\ v4 = j.device
      /\ v9' = (v9 /\ j.stood) /\ v7' = [v7 EXCEPT ![w] = Sources!Idle]
      /\ UNCHANGED <<v1, v2, v3, v4, v5, v6, v8>>
  BY <1>1 DEF Sources!Tell, Sources!rows
<1>3. Sources!JobInv(w) /\ DOMAIN v7 = Workers /\ AccountRows
  BY <1>1, <1>2, SourcesJob
<1>4. j.stood \/ j.device # v4 \/ j.past # Sources!Seen(j.keys)
  BY <1>1, <1>2, <1>3 DEF Sources!JobInv
<1>5. j.past = Sources!Seen(j.keys)
  BY <1>2 DEF Sources!Seen
<1>6. j.stood
  BY <1>2, <1>4, <1>5
<1>7. v9
  BY SourcesParts
<1>8. v9'
  BY <1>2, <1>6, <1>7
<1>9. AccountRows' /\ Onward /\ Sources!SourcesKept
  BY <1>2, <1>3, SourcesStay
<1>10. Sources!JobInv(w)'
  BY <1>2, <1>3, SourcesAtRest
<1>11. AccountJobs'
  BY <1>2, <1>9, <1>10, SourcesJobsKept
<1> QED BY <1>8, <1>9, <1>11, SourcesPartsNext

\* The inventory, the device, the fence and the clock.
LEMMA SourcesAround ==
  ASSUME Sources!IInv, Sources!Rotate \/ Sources!Rebind \/ Sources!RequestDeletion \/ Sources!Tick
  PROVE  Sources!IInv' /\ Sources!SourcesKept
<1> USE SourcesSettings DEF Sources!rows
<1>1. AccountRows /\ v9 /\ DOMAIN v7 = Workers /\ \A x \in Workers : Sources!JobInv(x)
  BY SourcesParts DEF AccountJobs
<1>2. UNCHANGED <<v5, v6, v7, v8, v9>>
  BY DEF Sources!Rotate, Sources!Rebind, Sources!RequestDeletion, Sources!Tick
<1>3. /\ v1 \in Int /\ v1 >= 0 /\ v1 <= SourceTime /\ v2 \in BOOLEAN /\ v3 \in Int /\ v3 >= 1 /\ v3 <= MaxKeys
      /\ v4 \in Int /\ v4 >= 1 /\ v4 <= MaxBindings
  BY <1>1 DEF AccountRows, Sources!Keys
<1>4. v2' \in BOOLEAN
  BY <1>3 DEF Sources!Rotate, Sources!Rebind, Sources!RequestDeletion, Sources!Tick
<1>5. /\ v1' = v1 \/ (v1 < SourceTime /\ v1' = v1 + 1)
      /\ v3' = v3 \/ (v3 < MaxKeys /\ v3' = v3 + 1)
      /\ v4' = v4 \/ (v4 < MaxBindings /\ v4' = v4 + 1)
  BY DEF Sources!Rotate, Sources!Rebind, Sources!RequestDeletion, Sources!Tick
<1>6. /\ v1' \in 0 .. SourceTime /\ v3' \in Sources!Keys /\ v4' \in 1 .. MaxBindings
      /\ v1 <= v1' /\ v3 <= v3' /\ v4 <= v4' /\ v1' \in Int /\ v3' \in Int /\ v4' \in Int
  BY <1>3, <1>5 DEF Sources!Keys
<1>7. Onward
  BY <1>2, <1>6 DEF Onward
<1>8. Sources!Activations' = Sources!Activations
  <2>1. \A k \in 1 .. v3' : k \notin 1 .. v3 => v6[k] = None
    <3> SUFFICES ASSUME NEW k \in 1 .. v3', k \notin 1 .. v3 PROVE v6[k] = None
      OBVIOUS
    <3>1. k \in Sources!Keys /\ ~(k <= v3)
      BY <1>3, <1>6 DEF Sources!Keys
    <3> QED BY <1>1, <3>1 DEF AccountRows, Sources!RowsInv
  <2>2. \A k \in 1 .. v3 : k \in 1 .. v3'
    BY <1>3, <1>6
  <2>3. {v6[k] : k \in 1 .. v3'} \ {None} = {v6[k] : k \in 1 .. v3} \ {None}
    BY <2>1, <2>2
  <2> QED BY <1>2, <2>3 DEF Sources!Activations
<1>9. Sources!RowsInv'
  <2>1. \A k \in Sources!Keys : k <= v3 => k <= v3'
    BY <1>3, <1>6 DEF Sources!Keys
  <2> QED BY <1>1, <1>2, <1>8, <2>1 DEF AccountRows, Sources!RowsInv
<1>10. \A k \in Sources!Keys : v6'[k] = None \/ v6'[k] \in 0 .. v1'
  <2>1. \A k \in Sources!Keys : v6[k] = None \/ v6[k] \in 0 .. v1
    BY <1>1 DEF AccountRows
  <2> QED BY <1>2, <1>3, <1>6, <2>1
<1>11. AccountRows'
  BY <1>1, <1>2, <1>4, <1>6, <1>9, <1>10 DEF AccountRows
<1>12. AccountJobs'
  <2>1. ASSUME NEW x \in Workers PROVE Sources!JobInv(x)'
    BY <1>1, <1>2, <1>7, SourcesJobKept
  <2> QED BY <1>1, <1>2, <2>1 DEF AccountJobs
<1>13. Sources!SourcesKept
  BY <1>2 DEF Sources!SourcesKept
<1>14. v9'
  BY <1>1, <1>2
<1> QED BY <1>11, <1>12, <1>13, <1>14, SourcesPartsNext

\* It begins so.
LEMMA SourcesBegin == ASSUME Sources!Init PROVE Sources!IInv
<1> USE SourcesSettings
<1>1. Sources!Activations = {}
  BY DEF Sources!Init, Sources!Activations, Sources!Keys
<1>2. Sources!RowsInv
  BY <1>1 DEF Sources!Init, Sources!RowsInv
<1>3. AccountRows
  BY <1>2 DEF Sources!Init, AccountRows, Sources!Keys
<1>4. \A w \in Workers : Sources!JobInv(w)
  <2>1. Sources!Idle \in Sources!Jobs /\ Sources!Idle.phase = "idle" /\ Sources!Idle.kind = None
    BY DEF Sources!Idle, Sources!Jobs
  <2>2. \A w \in Workers : v7[w] = Sources!Idle
    BY DEF Sources!Init
  <2> QED BY <2>1, <2>2 DEF Sources!JobInv
<1>5. AccountJobs
  BY <1>4 DEF AccountJobs, Sources!Init
<1>6. v9
  BY DEF Sources!Init
<1> QED BY <1>3, <1>5, <1>6, SourcesParts

\* Every step keeps the invariant, and what the others wrote.
LEMMA SourcesStep == ASSUME Sources!IInv, Sources!Next PROVE Sources!IInv' /\ Sources!SourcesKept
BY SourcesBegins, SourcesReads, SourcesReadsHistory, SourcesCommits, SourcesStops, SourcesRefreshes, SourcesLooks,
   SourcesTells, SourcesAround DEF Sources!Next

\* What the invariant is for.
LEMMA SourcesHold ==
  ASSUME Sources!IInv
  PROVE  Sources!TypeOK /\ Sources!OneAuthority /\ Sources!NeverUnreadable /\ Sources!SnapshotsWhole
<1> USE SourcesSettings
<1>1. Sources!TypeOK /\ Sources!SnapshotsWhole
  BY DEF Sources!IInv, Sources!SnapshotsWhole
<1>2. AccountRows /\ Sources!RowsInv
  BY SourcesParts DEF Sources!IInv
<1>3. Sources!OneAuthority
  <2>1. Sources!Cardinality({k \in Sources!Keys : v5[k] # None}) <= 1
    BY <1>2, SourcesFew DEF Sources!RowsInv
  <2>2. Sources!Cardinality(v8) <= 1
    BY <1>2, SourcesFew DEF Sources!RowsInv
  <2> QED BY <2>1, <2>2 DEF Sources!OneAuthority
<1>4. ASSUME NEW k \in Sources!Keys, v5[k] # None
      PROVE  Sources!Consistent(v5[k], Sources!Activations)
  <2>1. Sources!Cardinality(Sources!Activations) <= 1
    BY <1>2, SourcesFew DEF Sources!RowsInv
  <2>2. \A t \in Sources!Activations : t <= v1
    <3>1. \A l \in 1 .. v3 : l \in Sources!Keys
      BY <1>2 DEF AccountRows, Sources!Keys
    <3> QED BY <1>2, <3>1 DEF AccountRows, Sources!Activations
  <2>3. v5[k].sources["trial"] # None => Sources!Activations = {v5[k].sources["trial"].from}
    BY <1>2, <1>4 DEF Sources!RowsInv
  <2>4. Sources!Sources(v5[k]) = v5[k].sources
    BY <1>4 DEF Sources!Sources
  <2> QED BY <2>1, <2>2, <2>3, <2>4 DEF Sources!Consistent
<1>5. ASSUME NEW k \in Sources!Keys, v5[k] # None,
             ~(LET s == v5[k].sources["complimentary"] IN s # None /\ s.until # None /\ s.until <= s.from)
      PROVE  Sources!Readable(v5[k])
  <2>1. Sources!Written(v5[k])
    BY <1>2, <1>5 DEF Sources!RowsInv
  <2>2. v5[k].sources \in [Sources!Bases -> Sources!SourceRows \cup {None}]
    BY <2>1 DEF Sources!Written, Sources!AccessRows
  <2> SUFFICES ASSUME NEW b \in Sources!Bases, NEW s \in Sources!SourceRows, s = v5[k].sources[b]
               PROVE  IF s.until = None THEN b = "complimentary"
                      ELSE /\ s.from < s.until \/ (b = "paid" /\ ~s.on /\ s.from = s.until)
                           /\ b = "trial" => s.until = s.from + TrialLength
    BY <2>2 DEF Sources!Readable
  <2>3. s # None /\ s.from \in Int /\ s.until \in Int \cup {None}
    BY DEF Sources!SourceRows
  <2>4. CASE b = "complimentary"
    <3>1. s.until = None \/ ~(s.until <= s.from)
      BY <1>5, <2>3, <2>4
    <3> QED BY <2>3, <2>4, <3>1
  <2>5. CASE b \in {"paid", "trial"}
    BY <2>1, <2>3, <2>5 DEF Sources!Written
  <2> QED BY <2>4, <2>5 DEF Sources!Bases
<1>6. Sources!NeverUnreadable
  BY <1>4, <1>5 DEF Sources!NeverUnreadable
<1> QED BY <1>1, <1>3, <1>6

-----------------------------------------------------------------------------
(* Finite sets of numbers, in order *)

\* A set of naturals has a least element.
LEMMA LeastNatural ==
  ASSUME NEW T, T \subseteq Nat, T # {}
  PROVE  \E m \in T : \A y \in T : m <= y
<1> DEFINE R == {x \in Nat \X Nat : x[1] < x[2]}
<1>1. IsWellFoundedOn(R, Nat)
  <2>1. R = OpToRel(<, Nat)
    BY Zenon DEF OpToRel
  <2> QED BY <2>1, NatLessThanWellFounded
<1>2. \A m, n \in Nat : m < n => <<m, n>> \in R
  OBVIOUS
<1> HIDE DEF R
<1>3. PICK m \in T : \A y \in T : ~(<<y, m>> \in R)
  BY <1>1, WFMin, Zenon
<1>4. ASSUME NEW y \in T PROVE m <= y
  <2>1. m \in Nat /\ y \in Nat
    OBVIOUS
  <2>2. ~(y < m)
    BY <2>1, <1>2, <1>3
  <2> QED BY <2>1, <2>2
<1> QED BY <1>4

\* The elements from k on, and up to k.
From(S, k) == {j \in S : j >= k}
UpTo(S, k) == {j \in S : j <= k}

\* The further on, the fewer are left.
LEMMA FewerLeft ==
  ASSUME NEW S, IsFiniteSet(S), S \subseteq Int
  PROVE  /\ \A k \in Int : IsFiniteSet(From(S, k)) /\ Cardinality(From(S, k)) \in Nat
         /\ \A k, l \in S : k < l => Cardinality(From(S, l)) < Cardinality(From(S, k))
<1>1. ASSUME NEW k \in Int PROVE IsFiniteSet(From(S, k)) /\ Cardinality(From(S, k)) \in Nat
  BY FS_Subset, FS_CardinalityType DEF From
<1>2. ASSUME NEW k \in S, NEW l \in S, k < l PROVE Cardinality(From(S, l)) < Cardinality(From(S, k))
  <2>1. From(S, l) \subseteq From(S, k) /\ k \in From(S, k) /\ k \notin From(S, l)
    <3>1. k \in Int /\ l \in Int
      OBVIOUS
    <3>2. ASSUME NEW j \in From(S, l) PROVE j \in From(S, k)
      <4>1. j \in Int /\ j \in S
        BY DEF From
      <4> QED BY <3>1, <4>1, <1>2 DEF From
    <3>3. k \in From(S, k) /\ k \notin From(S, l)
      BY <3>1, <1>2 DEF From
    <3> QED BY <3>2, <3>3
  <2>2. /\ Cardinality(From(S, l)) <= Cardinality(From(S, k))
        /\ Cardinality(From(S, k)) # Cardinality(From(S, l))
    BY <2>1, <1>1, FS_Subset
  <2>3. Cardinality(From(S, l)) \in Nat /\ Cardinality(From(S, k)) \in Nat
    BY <1>1
  <2> QED BY <2>2, <2>3
<1> QED BY <1>1, <1>2

\* The further back, the fewer there were.
LEMMA FewerBefore ==
  ASSUME NEW S, IsFiniteSet(S), S \subseteq Int
  PROVE  /\ \A k \in Int : IsFiniteSet(UpTo(S, k)) /\ Cardinality(UpTo(S, k)) \in Nat
         /\ \A k, l \in S : k < l => Cardinality(UpTo(S, k)) < Cardinality(UpTo(S, l))
<1>1. ASSUME NEW k \in Int PROVE IsFiniteSet(UpTo(S, k)) /\ Cardinality(UpTo(S, k)) \in Nat
  BY FS_Subset, FS_CardinalityType DEF UpTo
<1>2. ASSUME NEW k \in S, NEW l \in S, k < l PROVE Cardinality(UpTo(S, k)) < Cardinality(UpTo(S, l))
  <2>1. UpTo(S, k) \subseteq UpTo(S, l) /\ l \in UpTo(S, l) /\ l \notin UpTo(S, k)
    <3>1. k \in Int /\ l \in Int
      OBVIOUS
    <3>2. ASSUME NEW j \in UpTo(S, k) PROVE j \in UpTo(S, l)
      <4>1. j \in Int /\ j \in S
        BY DEF UpTo
      <4> QED BY <3>1, <4>1, <1>2 DEF UpTo
    <3>3. l \in UpTo(S, l) /\ l \notin UpTo(S, k)
      BY <3>1, <1>2 DEF UpTo
    <3> QED BY <3>2, <3>3
  <2>2. /\ Cardinality(UpTo(S, k)) <= Cardinality(UpTo(S, l))
        /\ Cardinality(UpTo(S, l)) # Cardinality(UpTo(S, k))
    BY <2>1, <1>1, FS_Subset
  <2>3. Cardinality(UpTo(S, l)) \in Nat /\ Cardinality(UpTo(S, k)) \in Nat
    BY <1>1
  <2> QED BY <2>2, <2>3
<1> QED BY <1>1, <1>2

\* A finite set of numbers has a greatest one.
LEMMA Greatest ==
  ASSUME NEW S, IsFiniteSet(S), S \subseteq Int, S # {}
  PROVE  \E x \in S : \A y \in S : y <= x
<1> DEFINE T == {Cardinality(From(S, k)) : k \in S}
<1>1. T \subseteq Nat /\ T # {}
  BY FewerLeft
<1>2. PICK m \in T : \A y \in T : m <= y
  BY <1>1, LeastNatural
<1>3. PICK k \in S : m = Cardinality(From(S, k))
  OBVIOUS
<1>4. ASSUME NEW y \in S, ~(y <= k) PROVE FALSE
  <2>1. Cardinality(From(S, y)) < Cardinality(From(S, k))
    <3>1. y \in Int /\ k \in Int
      OBVIOUS
    <3>2. k < y
      BY <3>1, <1>4
    <3> QED BY <3>2, FewerLeft
  <2>2. m <= Cardinality(From(S, y))
    BY <1>2
  <2> QED BY <2>1, <2>2, <1>3, FewerLeft
<1> QED BY <1>4

\* A finite set of numbers has a least one.
LEMMA Lowest ==
  ASSUME NEW S, IsFiniteSet(S), S \subseteq Int, S # {}
  PROVE  \E x \in S : \A y \in S : x <= y
<1> DEFINE T == {Cardinality(UpTo(S, k)) : k \in S}
<1>1. T \subseteq Nat /\ T # {}
  BY FewerBefore
<1>2. PICK m \in T : \A y \in T : m <= y
  BY <1>1, LeastNatural
<1>3. PICK k \in S : m = Cardinality(UpTo(S, k))
  OBVIOUS
<1>4. ASSUME NEW y \in S, ~(k <= y) PROVE FALSE
  <2>1. Cardinality(UpTo(S, y)) < Cardinality(UpTo(S, k))
    <3>1. y \in Int /\ k \in Int
      OBVIOUS
    <3>2. y < k
      BY <3>1, <1>4
    <3> QED BY <3>2, FewerBefore
  <2>2. m <= Cardinality(UpTo(S, y))
    BY <1>2
  <2> QED BY <2>1, <2>2, <1>3, FewerBefore
<1> QED BY <1>4

\* The n greatest of a set: as many as there are, up to n, and none is skipped.
LEMMA NewestOf ==
  ASSUME NEW S, IsFiniteSet(S), S \subseteq Int, NEW n \in Nat,
         NEW C \in SUBSET S, \A k \in S : k \in C <=> Cardinality(From(S, k)) <= n
  PROVE  /\ IsFiniteSet(C) /\ Cardinality(C) \in 0 .. n
         /\ C # S => Cardinality(C) = n
         /\ \A k \in C, j \in S : j >= k => j \in C
<1>1. IsFiniteSet(C) /\ Cardinality(C) \in Nat
  BY FS_Subset, FS_CardinalityType
<1>2. Cardinality(C) <= n
  <2>1. CASE C = {}
    <3>1. Cardinality(C) = 0
      BY <2>1, FS_EmptySet
    <3> QED BY <3>1
  <2>2. CASE C # {}
    <3>1. PICK m \in C : \A y \in C : m <= y
      BY <2>2, <1>1, Lowest
    <3>2. C \subseteq From(S, m) /\ m \in S
      BY <3>1 DEF From
    <3>3. Cardinality(C) <= Cardinality(From(S, m))
      BY <3>2, FS_Subset, FewerLeft
    <3>4. Cardinality(From(S, m)) \in Nat /\ Cardinality(From(S, m)) <= n
      BY <3>1, <3>2, FewerLeft
    <3> QED BY <3>3, <3>4, <1>1
  <2> QED BY <2>1, <2>2
<1>3. ASSUME NEW k \in C, NEW j \in S, j >= k PROVE j \in C
  <2>1. j = k \/ Cardinality(From(S, j)) < Cardinality(From(S, k))
    <3>1. j \in Int /\ k \in Int
      OBVIOUS
    <3>2. j = k \/ k < j
      BY <3>1, <1>3
    <3>3. k \in S
      OBVIOUS
    <3>4. CASE k < j
      BY <3>3, <3>4, FewerLeft
    <3> QED BY <3>2, <3>4
  <2>2. Cardinality(From(S, j)) \in Nat /\ Cardinality(From(S, k)) \in Nat
    BY FewerLeft
  <2> QED BY <2>1, <2>2
<1>4. ASSUME C # S PROVE Cardinality(C) >= n
  <2> DEFINE rest == S \ C
  <2>1. IsFiniteSet(rest) /\ rest \subseteq Int /\ rest # {}
    BY <1>4, FS_Subset
  <2> HIDE DEF rest
  <2>2. PICK g \in rest : \A y \in rest : y <= g
    BY <2>1, Greatest
  <2>3. g \in S /\ g \notin C /\ \A y \in S : y > g => y \in C
    BY <2>1, <2>2 DEF rest
  <2>4. From(S, g) = C \cup {g}
    <3>1. g \in Int /\ C \subseteq S /\ \A y \in S : y \in Int
      BY <2>3
    <3>2. \A y \in C : y > g
      <4>1. ASSUME NEW y \in C, ~(y > g) PROVE FALSE
        <5>1. g >= y /\ y \in S
          BY <3>1, <4>1
        <5> QED BY <5>1, <2>3, <1>3
      <4> QED BY <4>1
    <3>3. ASSUME NEW y \in S PROVE y >= g <=> y \in C \cup {g}
      <4>1. y \in Int
        BY <3>1
      <4>2. y >= g => y = g \/ y \in C
        BY <4>1, <3>1, <2>3
      <4>3. y \in C => y >= g
        BY <4>1, <3>1, <3>2
      <4> QED BY <4>1, <4>2, <4>3, <3>1
    <3>4. g \in S
      BY <2>3
    <3> QED BY <3>1, <3>3, <3>4, Zenon DEF From
  <2>5. Cardinality(From(S, g)) = Cardinality(C) + 1
    <3>1. g \notin C
      BY <2>3
    <3> QED BY <3>1, <2>4, <1>1, FS_AddElement
  <2>6. ~(Cardinality(From(S, g)) <= n)
    BY <2>3
  <2> QED BY <2>5, <2>6, <1>1
<1> QED BY <1>1, <1>2, <1>3, <1>4

\* The n least of a set: as many as there are, up to n, and none is skipped.
LEMMA FirstOf ==
  ASSUME NEW S, IsFiniteSet(S), S \subseteq Int, NEW n \in Nat,
         NEW C \in SUBSET S, \A k \in S : k \in C <=> Cardinality(UpTo(S, k)) <= n
  PROVE  /\ IsFiniteSet(C) /\ Cardinality(C) \in 0 .. n
         /\ C # S => Cardinality(C) = n
         /\ \A k \in C, j \in S : j <= k => j \in C
<1>1. IsFiniteSet(C) /\ Cardinality(C) \in Nat
  BY FS_Subset, FS_CardinalityType
<1>2. Cardinality(C) <= n
  <2>1. CASE C = {}
    <3>1. Cardinality(C) = 0
      BY <2>1, FS_EmptySet
    <3> QED BY <3>1
  <2>2. CASE C # {}
    <3>1. PICK m \in C : \A y \in C : y <= m
      BY <2>2, <1>1, Greatest
    <3>2. C \subseteq UpTo(S, m) /\ m \in S
      BY <3>1 DEF UpTo
    <3>3. Cardinality(C) <= Cardinality(UpTo(S, m))
      BY <3>2, FS_Subset, FewerBefore
    <3>4. Cardinality(UpTo(S, m)) \in Nat /\ Cardinality(UpTo(S, m)) <= n
      BY <3>1, <3>2, FewerBefore
    <3> QED BY <3>3, <3>4, <1>1
  <2> QED BY <2>1, <2>2
<1>3. ASSUME NEW k \in C, NEW j \in S, j <= k PROVE j \in C
  <2>1. j = k \/ Cardinality(UpTo(S, j)) < Cardinality(UpTo(S, k))
    <3>1. j \in Int /\ k \in Int
      OBVIOUS
    <3>2. j = k \/ j < k
      BY <3>1, <1>3
    <3>3. k \in S
      OBVIOUS
    <3>4. CASE j < k
      BY <3>3, <3>4, FewerBefore
    <3> QED BY <3>2, <3>4
  <2>2. Cardinality(UpTo(S, j)) \in Nat /\ Cardinality(UpTo(S, k)) \in Nat
    BY FewerBefore
  <2> QED BY <2>1, <2>2
<1>4. ASSUME C # S PROVE Cardinality(C) >= n
  <2> DEFINE rest == S \ C
  <2>1. IsFiniteSet(rest) /\ rest \subseteq Int /\ rest # {}
    BY <1>4, FS_Subset
  <2> HIDE DEF rest
  <2>2. PICK g \in rest : \A y \in rest : g <= y
    BY <2>1, Lowest
  <2>3. g \in S /\ g \notin C /\ \A y \in S : y < g => y \in C
    BY <2>1, <2>2 DEF rest
  <2>4. UpTo(S, g) = C \cup {g}
    <3>1. g \in Int /\ C \subseteq S /\ \A y \in S : y \in Int
      BY <2>3
    <3>2. \A y \in C : y < g
      <4>1. ASSUME NEW y \in C, ~(y < g) PROVE FALSE
        <5>1. g <= y /\ y \in S
          BY <3>1, <4>1
        <5> QED BY <5>1, <2>3, <1>3
      <4> QED BY <4>1
    <3>3. ASSUME NEW y \in S PROVE y <= g <=> y \in C \cup {g}
      <4>1. y \in Int
        BY <3>1
      <4>2. y <= g => y = g \/ y \in C
        BY <4>1, <3>1, <2>3
      <4>3. y \in C => y <= g
        BY <4>1, <3>1, <3>2
      <4> QED BY <4>1, <4>2, <4>3, <3>1
    <3>4. g \in S
      BY <2>3
    <3> QED BY <3>1, <3>3, <3>4, Zenon DEF UpTo
  <2>5. Cardinality(UpTo(S, g)) = Cardinality(C) + 1
    <3>1. g \notin C
      BY <2>3
    <3> QED BY <3>1, <2>4, <1>1, FS_AddElement
  <2>6. ~(Cardinality(UpTo(S, g)) <= n)
    BY <2>3
  <2> QED BY <2>5, <2>6, <1>1
<1> QED BY <1>1, <1>2, <1>3, <1>4

\* A sequence from the greatest down, and what it holds.
Falling(s) == \A i, j \in DOMAIN s : i < j => s[i] > s[j]
Elements(s) == {s[i] : i \in DOMAIN s}

\* What a sequence is that has everything at its rank.
LEMMA Ranked ==
  ASSUME NEW S, S \subseteq Nat, NEW c \in Nat, NEW f \in [S -> 1 .. c],
         \A k, l \in S : k < l => f[l] < f[k], \A k, l \in S : f[k] = f[l] => k = l,
         NEW s \in [1 .. c -> S], \A i \in 1 .. c : f[s[i]] = i
  PROVE  s \in Seq(S) /\ Len(s) = c /\ Falling(s) /\ Elements(s) = S
<1>1. s \in Seq(S) /\ Len(s) = c /\ DOMAIN s = 1 .. c
  OBVIOUS
<1>2. ASSUME NEW i \in DOMAIN s, NEW j \in DOMAIN s, i < j PROVE s[i] > s[j]
  <2>1. s[i] \in S /\ s[j] \in S /\ f[s[i]] = i /\ f[s[j]] = j /\ i \in Nat /\ j \in Nat
    BY <1>1
  <2>2. s[i] \in Nat /\ s[j] \in Nat
    BY <2>1
  <2>3. s[i] # s[j]
    BY <2>1, <1>2
  <2>4. ASSUME s[i] < s[j] PROVE FALSE
    <3>1. f[s[j]] < f[s[i]]
      BY <2>1, <2>4
    <3> QED BY <2>1, <3>1, <1>2
  <2> QED BY <2>2, <2>3, <2>4
<1>3. ASSUME NEW k \in S PROVE \E i \in DOMAIN s : s[i] = k
  <2>1. f[k] \in DOMAIN s
    BY <1>1
  <2>2. s[f[k]] \in S /\ f[s[f[k]]] = f[k]
    BY <2>1, <1>1
  <2>3. s[f[k]] = k
    BY <2>2
  <2> QED BY <2>1, <2>3
<1>4. \A i \in DOMAIN s : s[i] \in S
  BY <1>1
<1>5. Elements(s) = S
  <2>1. S \subseteq Elements(s)
    BY <1>3 DEF Elements
  <2>2. Elements(s) \subseteq S
    BY <1>4 DEF Elements
  <2> QED BY <2>1, <2>2
<1> QED BY <1>1, <1>2, <1>5 DEF Falling

\* A finite set, greatest first.
Ordered(S) == [i \in 1 .. Cardinality(S) |-> CHOOSE k \in S : Cardinality(From(S, k)) = i]

\* It is as long as the set is large, and has nothing twice.
LEMMA InOrder ==
  ASSUME NEW S, IsFiniteSet(S), S \subseteq Nat
  PROVE  /\ Ordered(S) \in Seq(S) /\ Len(Ordered(S)) = Cardinality(S)
         /\ Falling(Ordered(S)) /\ Elements(Ordered(S)) = S
<1> DEFINE s == Ordered(S)
           c == Cardinality(S)
           f == [k \in S |-> Cardinality(From(S, k))]
<1>1. c \in Nat /\ S \subseteq Int
  BY FS_CardinalityType
<1>2. ASSUME NEW k \in S PROVE f[k] \in 1 .. c
  <2>1. k \in From(S, k) /\ From(S, k) \subseteq S /\ IsFiniteSet(From(S, k))
    <3>1. k \in Int /\ k >= k
      BY <1>1
    <3> QED BY <1>1, <3>1, FewerLeft DEF From
  <2>2. Cardinality(From(S, k)) \in Nat /\ Cardinality(From(S, k)) <= c
    BY <2>1, <1>1, FS_Subset, FewerLeft
  <2>3. Cardinality(From(S, k)) # 0
    BY <2>1, FS_EmptySet
  <2> QED BY <2>2, <2>3, <1>1
<1>3. \A k, l \in S : k < l => f[l] < f[k]
  BY <1>1, FewerLeft
<1>4. f \in [S -> 1 .. c]
  <2> HIDE DEF c
  <2> QED BY <1>2
<1> HIDE DEF f
<1>5. \A k, l \in S : f[k] = f[l] => k = l
  <2> SUFFICES ASSUME NEW k \in S, NEW l \in S, k # l PROVE f[k] # f[l]
    OBVIOUS
  <2>1. k < l \/ l < k
    <3>1. k \in Nat /\ l \in Nat
      OBVIOUS
    <3> QED BY <3>1
  <2>2. f[k] \in Nat /\ f[l] \in Nat
    BY <1>1, <1>4
  <2> QED BY <2>1, <2>2, <1>3
<1>6. f \in Injection(S, 1 .. c)
  BY <1>4, <1>5 DEF Injection, IsInjective
<1>7. IsFiniteSet(1 .. c) /\ Cardinality(1 .. c) = c
  BY <1>1, FS_Interval
<1>8. f \in Surjection(S, 1 .. c)
  BY <1>6, <1>7, FS_Injection
<1>9. \A i \in 1 .. c : \E k \in S : f[k] = i
  BY <1>8 DEF Surjection
<1>10. \A k \in S : f[k] = Cardinality(From(S, k))
  BY DEF f
<1>11. ASSUME NEW i \in 1 .. c PROVE s[i] \in S /\ f[s[i]] = i
  <2>1. \E k \in S : Cardinality(From(S, k)) = i
    BY <1>9, <1>10
  <2> DEFINE m == CHOOSE k \in S : Cardinality(From(S, k)) = i
  <2>2. m \in S /\ Cardinality(From(S, m)) = i
    BY <2>1
  <2>3. s[i] = m
    BY DEF Ordered
  <2> QED BY <2>2, <2>3, <1>10
<1>12. s \in [1 .. c -> S]
  <2> DEFINE rank(k) == Cardinality(From(S, k))
  <2>1. \A i \in 1 .. c : (CHOOSE k \in S : rank(k) = i) \in S
    BY <1>9, <1>10
  <2>2. s = [i \in 1 .. c |-> CHOOSE k \in S : rank(k) = i]
    BY DEF Ordered
  <2> HIDE DEF rank, s, c
  <2> QED BY <2>1, <2>2, Zenon
<1> HIDE DEF s, c
<1>13. s \in Seq(S) /\ Len(s) = c /\ Falling(s) /\ Elements(s) = S
  <2>1. /\ c \in Nat /\ f \in [S -> 1 .. c] /\ s \in [1 .. c -> S]
        /\ \A k, l \in S : k < l => f[l] < f[k]
        /\ \A k, l \in S : f[k] = f[l] => k = l
        /\ \A i \in 1 .. c : f[s[i]] = i
    BY <1>1, <1>3, <1>4, <1>5, <1>11, <1>12
  <2> QED BY <2>1, Ranked, Zenon
<1> QED BY <1>13 DEF s, c

\* Two lists in order, the first newer than the second, are one list in order.
LEMMA Joined ==
  ASSUME NEW K, K \subseteq Nat, NEW s \in Seq(K), NEW t \in Seq(K),
         Falling(s), Falling(t), \A a \in Elements(s), b \in Elements(t) : a > b
  PROVE  /\ s \o t \in Seq(K) /\ Len(s \o t) = Len(s) + Len(t)
         /\ Falling(s \o t) /\ Elements(s \o t) = Elements(s) \cup Elements(t)
<1> DEFINE r == s \o t
           m == Len(s)
           n == Len(t)
<1>1. /\ r \in Seq(K) /\ Len(r) = m + n /\ m \in Nat /\ n \in Nat
      /\ DOMAIN r = 1 .. (m + n) /\ DOMAIN s = 1 .. m /\ DOMAIN t = 1 .. n
  OBVIOUS
<1>2. \A i \in 1 .. m : r[i] = s[i] /\ i \in 1 .. (m + n)
  OBVIOUS
<1>3. \A i \in 1 .. n : r[m + i] = t[i] /\ m + i \in 1 .. (m + n)
  OBVIOUS
<1>4. \A i \in 1 .. (m + n) : r[i] = IF i <= m THEN s[i] ELSE t[i - m]
  OBVIOUS
<1> HIDE DEF r, m, n
<1>5. \A i \in 1 .. (m + n) : i \in 1 .. m \/ i - m \in 1 .. n
  BY <1>1
<1>6. ASSUME NEW i \in DOMAIN r, NEW j \in DOMAIN r, i < j PROVE r[i] > r[j]
  <2>1. i \in 1 .. (m + n) /\ j \in 1 .. (m + n)
    BY <1>1
  <2>2. CASE j <= m
    <3>1. i \in DOMAIN s /\ j \in DOMAIN s /\ r[i] = s[i] /\ r[j] = s[j]
      BY <1>1, <1>4, <1>6, <2>1, <2>2
    <3> QED BY <3>1, <1>6 DEF Falling
  <2>3. CASE ~(j <= m) /\ i <= m
    <3>1. i \in DOMAIN s /\ j - m \in DOMAIN t /\ r[i] = s[i] /\ r[j] = t[j - m]
      BY <1>1, <1>4, <2>1, <2>3
    <3> QED BY <3>1 DEF Elements
  <2>4. CASE ~(j <= m) /\ ~(i <= m)
    <3>1. i - m \in DOMAIN t /\ j - m \in DOMAIN t /\ r[i] = t[i - m] /\ r[j] = t[j - m] /\ i - m < j - m
      BY <1>1, <1>4, <1>6, <2>1, <2>4
    <3> QED BY <3>1 DEF Falling
  <2> QED BY <2>2, <2>3, <2>4
<1>7. \A i \in DOMAIN r : r[i] \in Elements(s) \cup Elements(t)
  <2> TAKE i \in DOMAIN r
  <2>1. i \in 1 .. (m + n)
    BY <1>1
  <2>2. CASE i <= m
    <3>1. i \in DOMAIN s /\ r[i] = s[i]
      BY <1>1, <1>4, <2>1, <2>2
    <3> QED BY <3>1 DEF Elements
  <2>3. CASE ~(i <= m)
    <3>1. i - m \in DOMAIN t /\ r[i] = t[i - m]
      BY <1>1, <1>4, <2>1, <2>3
    <3> QED BY <3>1 DEF Elements
  <2> QED BY <2>2, <2>3
<1>8. \A i \in DOMAIN s : s[i] \in Elements(r)
  <2>1. \A i \in DOMAIN s : i \in DOMAIN r /\ r[i] = s[i]
    BY <1>1, <1>2
  <2> QED BY <2>1 DEF Elements
<1>9. \A i \in DOMAIN t : t[i] \in Elements(r)
  <2>1. \A i \in DOMAIN t : m + i \in DOMAIN r /\ r[m + i] = t[i]
    BY <1>1, <1>3
  <2> QED BY <2>1 DEF Elements
<1>10. Elements(r) = Elements(s) \cup Elements(t)
  <2>1. Elements(r) \subseteq Elements(s) \cup Elements(t)
    BY <1>7 DEF Elements
  <2>2. Elements(s) \subseteq Elements(r) /\ Elements(t) \subseteq Elements(r)
    BY <1>8, <1>9 DEF Elements
  <2> QED BY <2>1, <2>2
<1>11. Falling(r)
  BY <1>6 DEF Falling
<1> QED BY <1>1, <1>10, <1>11 DEF r, m, n

-----------------------------------------------------------------------------
(***************************************************************************)
(* GovernedHistory                                                         *)
(*                                                                         *)
(* Rows behind the client's boundary were shown or can be no more (Gone).  *)
(* While a page is read, a row that stayed and is ahead of the boundary is *)
(* in a partition still to be queried, among the found, or Deferred: a     *)
(* full page was found that is all newer, and the boundary the page ends   *)
(* with is then newer too.                                                 *)
(***************************************************************************)

\* The module's counts are those of finite sets.
LEMMA ListCount ==
  \A S : Governed!Cardinality(S) = Cardinality(S) /\ (Governed!IsFiniteSet(S) <=> IsFiniteSet(S))
BY DEF Governed!Cardinality, Governed!IsFiniteSet, Cardinality, IsFiniteSet

\* The settings, and that a query is for more than may be shown or read.
LEMMA ListBounds ==
  /\ Receipts \subseteq Nat /\ IsFiniteSet(Receipts) /\ DOMAIN IssuedUnder = Receipts
  /\ PageItems \in Nat \ {0} /\ MaxReads \in Nat \ {0} /\ Retention \in Nat \ {0}
  /\ Window \in Nat /\ Start \in Nat /\ ListTime \in Nat /\ Start <= ListTime /\ None \notin Nat
  /\ Governed!Page \in Nat /\ Governed!Page > 1
  /\ Governed!Page > PageItems \/ Governed!Page > MaxReads
<1>1. /\ Receipts \subseteq Nat /\ IsFiniteSet(Receipts) /\ DOMAIN IssuedUnder = Receipts
      /\ PageItems \in Nat \ {0} /\ MaxReads \in Nat \ {0} /\ Retention \in Nat \ {0}
      /\ Window \in Nat /\ Start \in Nat /\ ListTime \in Nat /\ Start <= ListTime /\ None \notin Nat
  <2>1. /\ Receipts \subseteq Nat /\ IsFiniteSet(Receipts) /\ DOMAIN IssuedUnder = Receipts
        /\ {PageItems, MaxReads, Retention} \subseteq Nat \ {0} /\ {Window, Start, ListTime} \subseteq Nat
        /\ Start <= ListTime /\ None \notin Nat
    BY GovernedAssumed, ListCount DEF Governed!GovernedAssumption
  <2> QED BY <2>1
<1>2. Governed!Min({PageItems, MaxReads}) \in {PageItems, MaxReads}
  <2>1. \E x \in {PageItems, MaxReads} : \A y \in {PageItems, MaxReads} : x <= y
    BY <1>1
  <2> QED BY <2>1 DEF Governed!Min
<1> QED BY <1>1, <1>2 DEF Governed!Page

\* What time, the account and the authority do leaves the list alone; what is gone stays
\* gone, and what cannot be shown any more of what was there never can be.
Onwards ==
  /\ v5' = v5 /\ v6' = v6 /\ v7' = v7 /\ v8' = v8
  /\ \A s \in Receipts : s \in v3 \/ Governed!Gone(s) => s \in v3' \/ Governed!Gone(s)'
  /\ \A r \in v8 : ~Governed!Readable(r) => ~Governed!Readable(r)'
  /\ v2.state = "DELETING" => v2'.state = "DELETING"
  /\ Governed!RowsInv'

\* The steps of what is around the list.
ListAround ==
  \/ Governed!Change \/ Governed!Tick
  \/ \E r \in Receipts : Governed!Settle(r) \/ Governed!Propagate(r) \/ Governed!Retire(r)

\* The clock and the account.
LEMMA ListClock ==
  ASSUME Governed!RowsInv, Governed!Change \/ Governed!Tick
  PROVE  Onwards
<1>1. v3' = v3 /\ v4' = v4 /\ v5' = v5 /\ v6' = v6 /\ v7' = v7 /\ v8' = v8
  BY DEF Governed!Change, Governed!Tick
<1>2. v1 \in Nat /\ v1' \in 0 .. ListTime /\ v1' >= v1
  BY ListBounds DEF Governed!RowsInv, Governed!TypeOK, Governed!Change, Governed!Tick
<1>3. /\ v2' \in [state : {"ACTIVE", "DELETING"}, version : 1..2, revision : 1..2]
      /\ v2.state = "DELETING" => v2'.state = "DELETING"
  BY DEF Governed!RowsInv, Governed!TypeOK, Governed!Change, Governed!Tick
<1>4. \A s \in Receipts : Governed!Gone(s) => Governed!Gone(s)'
  BY <1>2, <1>3, ListBounds DEF Governed!Gone
<1>5. \A r \in Receipts : ~Governed!Readable(r) => ~Governed!Readable(r)'
  BY <1>1, <1>2, ListBounds DEF Governed!Readable
<1>6. v3 \subseteq Receipts /\ v4 \subseteq Receipts /\ v8 \subseteq Receipts
  BY DEF Governed!RowsInv, Governed!TypeOK
<1>7. Governed!TypeOK'
  BY <1>1, <1>2, <1>3 DEF Governed!RowsInv, Governed!TypeOK
<1>8. \A r \in v4' \cup v3' \cup v8' : r <= v1'
  <2>1. ASSUME NEW r \in v4 \cup v3 \cup v8 PROVE r <= v1'
    <3>1. r \in Nat /\ r <= v1
      BY <1>6, ListBounds DEF Governed!RowsInv
    <3> QED BY <3>1, <1>2
  <2> QED BY <2>1, <1>1
<1>9. Governed!RowsInv'
  BY <1>1, <1>4, <1>6, <1>7, <1>8 DEF Governed!RowsInv
<1> QED BY <1>1, <1>3, <1>4, <1>5, <1>6, <1>9 DEF Onwards

\* The authority and its index.
LEMMA ListRows ==
  ASSUME Governed!RowsInv, NEW r \in Receipts,
         Governed!Settle(r) \/ Governed!Propagate(r) \/ Governed!Retire(r)
  PROVE  Onwards
<1>1. v1' = v1 /\ v2' = v2 /\ v5' = v5 /\ v6' = v6 /\ v7' = v7 /\ v8' = v8
  BY DEF Governed!Settle, Governed!Propagate, Governed!Retire
<1>2. v1 \in Nat /\ v1 \in 0 .. ListTime /\ r \in Nat /\ Retention \in Nat \ {0}
  BY ListBounds DEF Governed!RowsInv, Governed!TypeOK
<1>3. v3 \subseteq Receipts /\ v4 \subseteq Receipts /\ v8 \subseteq Receipts
  BY DEF Governed!RowsInv, Governed!TypeOK
<1>4. \A s \in Receipts : Governed!Gone(s)' <=> Governed!Gone(s)
  BY <1>1 DEF Governed!Gone
<1>5. \A s \in v8 : s \in v3 \/ Governed!Gone(s)
  BY DEF Governed!RowsInv
<1>6. CASE Governed!Settle(r)
  <2>1. v3' = v3 \cup {r} /\ v4' = v4 /\ r = v1 /\ r \notin v3 /\ v2.state = "ACTIVE"
    BY <1>6 DEF Governed!Settle
  <2>2. ~Governed!Gone(r)
    BY <2>1, <1>2 DEF Governed!Gone
  <2>3. r \notin v8
    BY <2>1, <2>2, <1>5
  <2>4. \A s \in v8 : ~Governed!Readable(s) => ~Governed!Readable(s)'
    BY <2>1, <2>3, <1>1 DEF Governed!Readable
  <2>5. Governed!RowsInv'
    BY <2>1, <2>3, <1>1, <1>2, <1>3, <1>4 DEF Governed!RowsInv, Governed!TypeOK
  <2> QED BY <2>1, <2>4, <2>5, <1>1, <1>4 DEF Onwards
<1>7. CASE Governed!Propagate(r)
  <2>1. v3' = v3 /\ \/ r \in v3 /\ v4' = v4 \cup {r}
                    \/ r \notin v3 /\ v4' = v4 \ {r}
    BY <1>7 DEF Governed!Propagate
  <2>2. \A s \in v8 : ~Governed!Readable(s) => ~Governed!Readable(s)'
    BY <2>1, <1>1 DEF Governed!Readable
  <2>3. Governed!RowsInv'
    BY <2>1, <1>1, <1>3, <1>4 DEF Governed!RowsInv, Governed!TypeOK
  <2> QED BY <2>1, <2>2, <2>3, <1>1, <1>4 DEF Onwards
<1>8. CASE Governed!Retire(r)
  <2>1. v3' = v3 \ {r} /\ v4' = v4 /\ Governed!Gone(r)
    BY <1>8 DEF Governed!Retire, Governed!Gone
  <2>2. \A s \in v8 : ~Governed!Readable(s) => ~Governed!Readable(s)'
    BY <2>1, <1>1 DEF Governed!Readable
  <2>3. Governed!RowsInv'
    BY <2>1, <1>1, <1>3, <1>4 DEF Governed!RowsInv, Governed!TypeOK
  <2> QED BY <2>1, <2>2, <2>3, <1>1, <1>4 DEF Onwards
<1> QED BY <1>6, <1>7, <1>8

\* The invariant needs no more of what goes on around.
LEMMA ListOnwards ==
  ASSUME Governed!IInv, Onwards
  PROVE  Governed!IInv'
<1>1. v5' = v5 /\ v6' = v6 /\ v7' = v7 /\ v8' = v8 /\ Governed!RowsInv'
  BY DEF Onwards
<1>2. \A r \in v8 : ~Governed!Readable(r) => ~Governed!Readable(r)'
  BY DEF Onwards
<1>3. Governed!Boundary' = Governed!Boundary /\ Governed!Ahead' = Governed!Ahead
  BY <1>1 DEF Governed!Boundary, Governed!Ahead
<1>4. Governed!ClientInv => Governed!ClientInv'
  BY <1>1, <1>2, <1>3 DEF Governed!ClientInv
<1>5. \A found, r : Governed!Deferred(found, r) => Governed!Deferred(found, r)'
  BY <1>1 DEF Governed!Deferred
<1>6. \A s \in Receipts : s \in v3 \/ Governed!Gone(s) => s \in v3' \/ Governed!Gone(s)'
  BY DEF Onwards
<1>7. Governed!QueryInv => Governed!QueryInv'
  <2> SUFFICES ASSUME Governed!QueryInv PROVE Governed!QueryInv'
    OBVIOUS
  <2>1. v5.found \subseteq Governed!Ahead
    BY DEF Governed!QueryInv
  <2>2. v5.found \subseteq Receipts
    BY <2>1 DEF Governed!Ahead
  <2>3. \A s \in v5'.found : s \in v3' \/ Governed!Gone(s)'
    BY <1>1, <1>6, <2>2 DEF Governed!QueryInv
  <2> QED BY <1>1, <1>2, <1>3, <1>5, <2>3 DEF Governed!QueryInv
<1>8. Governed!CanonicalInv => Governed!CanonicalInv'
  <2> SUFFICES ASSUME Governed!CanonicalInv PROVE Governed!CanonicalInv'
    OBVIOUS
  <2>1. v5.left \subseteq Governed!Ahead
    BY DEF Governed!CanonicalInv
  <2>2. v5.left \subseteq Receipts
    BY <2>1 DEF Governed!Ahead
  <2>3. \A s \in v5'.left : s \in v3' \/ Governed!Gone(s)'
    BY <1>1, <1>6, <2>2 DEF Governed!CanonicalInv
  <2>4. v2.state = "DELETING" => v2'.state = "DELETING"
    BY DEF Onwards
  <2> QED BY <1>1, <1>2, <1>3, <1>5, <2>3, <2>4 DEF Governed!CanonicalInv
<1> QED BY <1>1, <1>4, <1>7, <1>8 DEF Governed!IInv, Governed!Idle

\* How many of a set are newer than a receipt: no fewer of a larger set, and one more or
\* fewer where one comes or goes.
LEMMA ListNewer ==
  ASSUME NEW S \in SUBSET Receipts, NEW r
  PROVE  /\ IsFiniteSet(S) /\ Cardinality(S) \in Nat
         /\ Governed!Cardinality({s \in S : s > r}) \in Nat
         /\ Governed!Cardinality({s \in S : s > r}) <= Cardinality(S)
         /\ \A T \in SUBSET Receipts : {s \in S : s > r} \subseteq {s \in T : s > r} =>
              Governed!Cardinality({s \in S : s > r}) <= Governed!Cardinality({s \in T : s > r})
<1>1. \A T \in SUBSET Receipts : IsFiniteSet(T) /\ Cardinality(T) \in Nat
  BY ListBounds, FS_Subset, FS_CardinalityType
<1>2. \A T \in SUBSET Receipts : {s \in T : s > r} \in SUBSET Receipts /\ {s \in T : s > r} \subseteq T
  OBVIOUS
<1>3. Cardinality({s \in S : s > r}) <= Cardinality(S)
  BY <1>1, <1>2, FS_Subset
<1>4. \A T \in SUBSET Receipts : {s \in S : s > r} \subseteq {s \in T : s > r} =>
        Cardinality({s \in S : s > r}) <= Cardinality({s \in T : s > r})
  BY <1>1, <1>2, FS_Subset
<1> QED BY <1>1, <1>2, <1>3, <1>4, ListCount

\* At least a page of a set is newer than a receipt.
Behind(S, r) == Governed!Cardinality({s \in S : s > r}) >= Governed!Page

\* What is deferred is behind what was found.
LEMMA ListDeferred ==
  ASSUME NEW r
  PROVE  /\ Governed!Deferred(v5.found, r) <=> v5.trailing /\ Behind(v5.found, r)
         /\ Governed!Deferred(v5.left \cup v5.items, r) <=> v5.trailing /\ Behind(v5.left \cup v5.items, r)
         /\ Governed!Deferred(v5.found, r)' <=> v5'.trailing /\ Behind(v5'.found, r)
         /\ Governed!Deferred(v5.left \cup v5.items, r)' <=> v5'.trailing /\ Behind(v5'.left \cup v5'.items, r)
BY DEF Governed!Deferred, Behind

\* A partition's query: what it leaves out is older than a whole page of what it found.
LEMMA ListQueried ==
  ASSUME NEW p, v4 \subseteq Receipts, v5.before \in Nat
  PROVE  /\ Governed!Newest(p) \subseteq {r \in v4 : r < v5.before /\ IssuedUnder[r] = p}
         /\ \A r \in v4 \ Governed!Newest(p) : r < v5.before /\ IssuedUnder[r] = p =>
              /\ Governed!Cardinality(Governed!Newest(p)) = Governed!Page
              /\ Governed!Newest(p) = {s \in Governed!Newest(p) : s > r}
<1> DEFINE S == {r \in v4 : IssuedUnder[r] = p /\ r < v5.before}
<1>1. IsFiniteSet(S) /\ S \subseteq Int /\ S \subseteq Receipts /\ S \subseteq Nat
  <2>1. S \subseteq Receipts
    OBVIOUS
  <2> HIDE DEF S
  <2>2. Receipts \subseteq Nat /\ IsFiniteSet(Receipts)
    BY ListBounds
  <2>3. IsFiniteSet(S)
    BY <2>1, <2>2, FS_Subset
  <2> QED BY <2>1, <2>2, <2>3
<1>2. Governed!Newest(p) = {k \in S : Cardinality(From(S, k)) <= Governed!Page}
  BY ListCount DEF Governed!Newest, From
<1> DEFINE C == Governed!Newest(p)
<1>22. C = {k \in S : Cardinality(From(S, k)) <= Governed!Page}
  BY <1>2
<1> HIDE DEF S, C
<1>3. /\ Cardinality(C) \in 0 .. Governed!Page
      /\ C # S => Cardinality(C) = Governed!Page
      /\ \A k \in C, j \in S : j >= k => j \in C
  <2> DEFINE n == Governed!Page
  <2>1. n \in Nat
    BY ListBounds
  <2>2. C \subseteq S /\ \A k \in S : k \in C <=> Cardinality(From(S, k)) <= n
    BY <1>22
  <2> HIDE DEF n
  <2>3. /\ Cardinality(C) \in 0 .. n
        /\ C # S => Cardinality(C) = n
        /\ \A k \in C, j \in S : j >= k => j \in C
    BY <1>1, <2>1, <2>2, NewestOf
  <2> QED BY <2>3 DEF n
<1>4. C \subseteq S
  BY <1>22
<1>5. ASSUME NEW r \in S \ C
      PROVE  Governed!Cardinality(C) = Governed!Page /\ C = {s \in C : s > r}
  <2>1. Cardinality(C) = Governed!Page
    BY <1>3, <1>5
  <2>2. \A s \in C : s > r
    <3>1. ASSUME NEW s \in C PROVE s > r
      <4>1. s \in Nat /\ r \in Nat
        BY <1>1, <1>4
      <4>2. ~(r >= s)
        BY <1>3
      <4> QED BY <4>1, <4>2
    <3> QED BY <3>1
  <2> QED BY <2>1, <2>2, ListCount
<1> QED BY <1>4, <1>5 DEF S, C

\* What is asked leaves everything but the request, and the ghost where the list begins.
LEMMA ListAskedRows ==
  /\ Governed!Authorize \/ Governed!Sort \/ (\E p \in Governed!Partitions : Governed!Query(p)) =>
       /\ v1' = v1 /\ v2' = v2 /\ v3' = v3 /\ v4' = v4 /\ v6' = v6 /\ v7' = v7
       /\ v8' = v8 \/ (v6.status = "none" /\ v8' = v4)
  /\ Governed!Sort \/ (\E p \in Governed!Partitions : Governed!Query(p)) => v8' = v8 /\ v5.phase = "query"
<1>1. ASSUME Governed!Authorize
      PROVE  /\ v1' = v1 /\ v2' = v2 /\ v3' = v3 /\ v4' = v4 /\ v6' = v6 /\ v7' = v7
             /\ v8' = v8 \/ (v6.status = "none" /\ v8' = v4)
  BY <1>1, Zenon DEF Governed!Authorize
<1>2. ASSUME Governed!Sort
      PROVE  /\ v1' = v1 /\ v2' = v2 /\ v3' = v3 /\ v4' = v4 /\ v6' = v6 /\ v7' = v7 /\ v8' = v8
             /\ v5.phase = "query"
  BY <1>2 DEF Governed!Sort
<1>3. ASSUME NEW p \in Governed!Partitions, Governed!Query(p)
      PROVE  /\ v1' = v1 /\ v2' = v2 /\ v3' = v3 /\ v4' = v4 /\ v6' = v6 /\ v7' = v7 /\ v8' = v8
             /\ v5.phase = "query"
  BY <1>3 DEF Governed!Query
<1> QED BY <1>1, <1>2, <1>3

\* The list is authorized and its partitions are asked.
LEMMA ListAsks ==
  ASSUME Governed!IInv, Governed!Authorize \/ Governed!Sort \/ \E p \in Governed!Partitions : Governed!Query(p)
  PROVE  Governed!IInv'
<1>1. v1' = v1 /\ v2' = v2 /\ v3' = v3 /\ v4' = v4 /\ v6' = v6 /\ v7' = v7
  BY ListAskedRows
<1>2. v8' = v8 \/ (v6.status = "none" /\ v8' = v4)
  BY ListAskedRows
<1>3. Governed!RowsInv /\ Governed!ClientInv
  BY DEF Governed!IInv
<1>4. \A r : (Governed!Gone(r)' <=> Governed!Gone(r)) /\ (Governed!Readable(r)' <=> Governed!Readable(r))
  BY <1>1 DEF Governed!Gone, Governed!Readable
<1>5. Governed!RowsInv'
  <2>1. \A r \in v4 : r \in v3 \/ Governed!Gone(r)
    BY <1>3 DEF Governed!RowsInv
  <2>2. v8' \subseteq v4 \cup v8 /\ v8' \cap v3 \subseteq v4
    BY <1>2, <1>3 DEF Governed!RowsInv
  <2> QED BY <1>1, <1>3, <1>4, <2>1, <2>2 DEF Governed!RowsInv, Governed!TypeOK
<1>6. Governed!Boundary' = Governed!Boundary /\ Governed!Ahead' = Governed!Ahead
  BY <1>1 DEF Governed!Boundary, Governed!Ahead
<1>7. Governed!ClientInv'
  BY <1>1, <1>2, <1>3, <1>4, <1>6 DEF Governed!ClientInv
<1>8. Governed!Boundary \in Nat /\ Governed!Ahead \subseteq Receipts
  <2>1. Governed!Ahead \subseteq Receipts /\ Receipts \subseteq Nat /\ ListTime + 1 \in Nat
    BY ListBounds DEF Governed!Ahead
  <2>2. v6.status = "going" => v6.cursor.before \in Receipts
    BY <1>3 DEF Governed!ClientInv
  <2> QED BY <2>1, <2>2 DEF Governed!Boundary
<1>9. CASE Governed!Authorize
  <2>1. v5' = [phase |-> "query", identity |-> Governed!Identity, before |-> Governed!Boundary,
               left |-> Governed!Partitions, found |-> {}, trailing |-> FALSE]
    BY <1>9 DEF Governed!Authorize, Governed!Boundary
  <2>2. Governed!Identity \in Governed!Identities /\ v6'.status # "done"
    BY <1>1, <1>3, <1>9 DEF Governed!Authorize, Governed!RowsInv, Governed!TypeOK, Governed!Identity, Governed!Identities
  <2>3. \A r \in v8' \cap Governed!Ahead : IssuedUnder[r] \in v5'.left
    BY <2>1, <1>8 DEF Governed!Partitions
  <2>4. Governed!QueryInv'
    BY <1>6, <2>1, <2>2, <2>3 DEF Governed!QueryInv, Governed!Identities
  <2> QED BY <1>5, <1>7, <2>2, <2>4 DEF Governed!IInv
<1>10. CASE Governed!Sort
  <2>1. Governed!QueryInv /\ v6.status # "done" /\ v8' = v8 /\ v5.left = {}
    BY <1>10 DEF Governed!Sort, Governed!IInv, Governed!Idle, Governed!CanonicalInv
  <2>2. v5' = [phase |-> "canonical", identity |-> v5.identity, left |-> v5.found,
               examined |-> None, count |-> 0, items |-> {}, trailing |-> v5.trailing]
    BY <1>10 DEF Governed!Sort
  <2>3. v5.identity \in Governed!Identities /\ v5.found \subseteq Governed!Ahead /\ v5.trailing \in BOOLEAN
    BY <2>1 DEF Governed!QueryInv
  <2>4. Governed!Cardinality({}) = 0
    BY ListCount, FS_EmptySet
  <2>5. \A r \in v8' \cap Governed!Ahead : r \in v5.found \/ ~Governed!Readable(r) \/ Governed!Deferred(v5.found, r)
    BY <2>1 DEF Governed!QueryInv
  <2>6. \A r : Governed!Deferred(v5.found, r) => Governed!Deferred(v5.left \cup v5.items, r)'
    <3>1. v5'.left \cup v5'.items = v5.found /\ v5'.trailing = v5.trailing
      BY <2>2
    <3> QED BY <3>1, ListDeferred
  <2>7. \A s \in v5'.left : s \in v3 \/ Governed!Gone(s)
    BY <2>1, <2>2 DEF Governed!QueryInv
  <2>8. v5' \in [phase : {"canonical"}, identity : Governed!Identities, left : SUBSET Governed!Ahead,
                 examined : Governed!Ahead \cup {None}, count : 0 .. MaxReads, items : SUBSET Governed!Ahead, trailing : BOOLEAN]
    BY <2>2, <2>3, ListBounds
  <2>9. v5'.left = v5.found /\ v5'.examined = None /\ v5'.count = 0 /\ v5'.items = {}
    BY <2>2
  <2>10. Governed!CanonicalInv'
    BY <1>1, <1>4, <1>6, <2>1, <2>4, <2>5, <2>6, <2>7, <2>8, <2>9, ListBounds DEF Governed!CanonicalInv, Governed!Identities
  <2> QED BY <1>1, <1>5, <1>7, <2>1, <2>10 DEF Governed!IInv
<1>11. ASSUME NEW p \in Governed!Partitions, Governed!Query(p) PROVE Governed!IInv'
  <2>1. Governed!QueryInv /\ v6.status # "done" /\ v8' = v8 /\ p \in v5.left
    <3>1. v5.phase = "query" /\ v8' = v8
      BY <1>11, ListAskedRows
    <3>2. p \in v5.left
      BY <1>11 DEF Governed!Query
    <3>3. v5 # Governed!Idle /\ ~Governed!CanonicalInv
      BY <3>1 DEF Governed!Idle, Governed!CanonicalInv
    <3> QED BY <3>1, <3>2, <3>3 DEF Governed!IInv
  <2> DEFINE new == Governed!Newest(p)
             full == Governed!Cardinality(new) = Governed!Page
  <2>2. v5' = [v5 EXCEPT !.left = v5.left \ {p}, !.found = v5.found \cup new,
                         !.trailing = v5.trailing \/ full]
    BY <1>11 DEF Governed!Query
  <2>3. v5 \in [phase : {"query"}, identity : Governed!Identities, before : {Governed!Boundary},
                left : SUBSET Governed!Partitions, found : SUBSET Governed!Ahead, trailing : BOOLEAN]
    BY <2>1 DEF Governed!QueryInv
  <2>4. v4 \subseteq Receipts /\ v8 \subseteq Receipts /\ v5.before = Governed!Boundary
    BY <1>3, <2>3 DEF Governed!RowsInv, Governed!TypeOK
  <2>5. /\ new \subseteq {r \in v4 : r < Governed!Boundary /\ IssuedUnder[r] = p}
        /\ \A r \in v4 \ new : r < Governed!Boundary /\ IssuedUnder[r] = p => full /\ new = {s \in new : s > r}
    BY <2>4, <1>8, ListQueried
  <2>6. new \subseteq Governed!Ahead /\ new \subseteq Receipts /\ full \in BOOLEAN
    BY <2>4, <2>5 DEF Governed!Ahead
  <2> HIDE DEF new, full
  <2>7. /\ v5' \in [phase : {"query"}, identity : Governed!Identities, before : {Governed!Boundary},
                    left : SUBSET Governed!Partitions, found : SUBSET Governed!Ahead, trailing : BOOLEAN]
        /\ v5'.left = v5.left \ {p} /\ v5'.found = v5.found \cup new /\ v5'.trailing = (v5.trailing \/ full)
    BY <2>2, <2>3, <2>6
  <2>8. \A s \in v5'.found : s \in v3 \/ Governed!Gone(s)
    BY <2>1, <2>5, <2>7, <1>3 DEF Governed!QueryInv, Governed!RowsInv
  <2>9. v5.found \subseteq Receipts
    BY <2>3 DEF Governed!Ahead
  <2>10. ASSUME NEW r \in v8 \cap Governed!Ahead, IssuedUnder[r] \notin v5'.left
         PROVE  r \in v5'.found \/ ~Governed!Readable(r) \/ Governed!Deferred(v5.found, r)'
    <3>1. CASE IssuedUnder[r] \notin v5.left
      <4>1. r \in v5.found \/ ~Governed!Readable(r) \/ Governed!Deferred(v5.found, r)
        BY <2>1, <3>1 DEF Governed!QueryInv
      <4>2. ASSUME Governed!Deferred(v5.found, r) PROVE Governed!Deferred(v5.found, r)'
        <5>1. /\ Governed!Cardinality({s \in v5.found : s > r}) <= Governed!Cardinality({s \in v5.found \cup new : s > r})
              /\ Governed!Cardinality({s \in v5.found : s > r}) \in Nat
              /\ Governed!Cardinality({s \in v5.found \cup new : s > r}) \in Nat
          <6>1. {s \in v5.found : s > r} \subseteq {s \in v5.found \cup new : s > r}
            OBVIOUS
          <6>2. v5.found \cup new \in SUBSET Receipts
            BY <2>6, <2>9
          <6> QED BY <6>1, <6>2, <2>9, ListNewer
        <5>2. v5.trailing /\ Behind(v5.found, r) /\ Governed!Page \in Nat
          BY <4>2, ListDeferred, ListBounds
        <5>3. Behind(v5.found \cup new, r)
          BY <5>1, <5>2 DEF Behind
        <5> QED BY <5>2, <5>3, <2>7, ListDeferred
      <4> QED BY <4>1, <4>2, <2>7
    <3>2. CASE IssuedUnder[r] \in v5.left
      <4>1. IssuedUnder[r] = p
        BY <2>7, <2>10, <3>2
      <4>2. CASE r \in v4
        <5>1. CASE r \in new
          BY <5>1, <2>7
        <5>2. CASE r \notin new
          <6>1. r < Governed!Boundary
            BY DEF Governed!Ahead
          <6>2. full /\ new = {s \in new : s > r}
            BY <2>5, <4>1, <4>2, <5>2, <6>1
          <6>3. Governed!Cardinality({s \in new : s > r}) = Governed!Page
            BY <6>2 DEF full
          <6>4. /\ Governed!Cardinality({s \in new : s > r}) <= Governed!Cardinality({s \in v5.found \cup new : s > r})
                /\ Governed!Cardinality({s \in v5.found \cup new : s > r}) \in Nat
            <7>1. {s \in new : s > r} \subseteq {s \in v5.found \cup new : s > r}
              OBVIOUS
            <7>2. v5.found \cup new \in SUBSET Receipts
              BY <2>6, <2>9
            <7> QED BY <7>1, <7>2, <2>6, ListNewer
          <6>5. Behind(v5.found \cup new, r)
            BY <6>3, <6>4, ListBounds DEF Behind
          <6> QED BY <6>2, <6>5, <2>7, ListDeferred
        <5> QED BY <5>1, <5>2
      <4>3. CASE r \notin v4
        BY <4>3, <1>3 DEF Governed!RowsInv, Governed!Readable
      <4> QED BY <4>2, <4>3
    <3> QED BY <3>1, <3>2
  <2>11. Governed!QueryInv'
    BY <1>1, <1>4, <1>6, <2>1, <2>7, <2>8, <2>10 DEF Governed!QueryInv, Governed!Identities
  <2> QED BY <1>1, <1>5, <1>7, <2>1, <2>11 DEF Governed!IInv
<1> QED BY <1>9, <1>10, <1>11

\* The newest candidate left.
LEMMA ListMax ==
  ASSUME NEW S \in SUBSET Receipts, S # {}
  PROVE  Governed!Max(S) \in S /\ \A y \in S : y <= Governed!Max(S)
<1>1. IsFiniteSet(S) /\ S \subseteq Int /\ S \subseteq Nat
  <2>1. Receipts \subseteq Nat /\ IsFiniteSet(Receipts)
    BY ListBounds
  <2>2. IsFiniteSet(S)
    BY <2>1, FS_Subset
  <2> QED BY <2>1, <2>2
<1>2. \E x \in S : \A y \in S : x >= y
  <2>1. PICK x \in S : \A y \in S : y <= x
    BY <1>1, Greatest
  <2>2. \A y \in S : x >= y
    BY <1>1, <2>1
  <2> QED BY <2>2
<1> DEFINE m == CHOOSE x \in S : \A y \in S : x >= y
<1>3. m \in S /\ \A y \in S : m >= y
  BY <1>2
<1> HIDE DEF m
<1>4. Governed!Max(S) = m
  BY DEF Governed!Max, m
<1> QED BY <1>1, <1>3, <1>4

\* What is left to read, and what was read of it.
LEMMA ListReading ==
  ASSUME Governed!CanonicalInv
  PROVE  /\ v5.phase = "canonical" /\ v5.identity \in Governed!Identities /\ v5.trailing \in BOOLEAN
         /\ v5.left \subseteq Governed!Ahead /\ v5.items \subseteq Governed!Ahead
         /\ v5.left \subseteq Receipts /\ v5.items \subseteq Receipts
         /\ v5.examined \in Governed!Ahead \cup {None} /\ v5.examined \in Receipts \cup {None}
         /\ v5.count \in Nat /\ v5.count <= MaxReads
         /\ IsFiniteSet(v5.items) /\ Cardinality(v5.items) \in Nat
         /\ Cardinality(v5.items) <= PageItems /\ Cardinality(v5.items) <= v5.count
         /\ Cardinality(v5.items) < Governed!Page
<1>1. v5 \in [phase : {"canonical"}, identity : Governed!Identities, left : SUBSET Governed!Ahead,
              examined : Governed!Ahead \cup {None}, count : 0 .. MaxReads, items : SUBSET Governed!Ahead,
              trailing : BOOLEAN]
  BY DEF Governed!CanonicalInv
<1>2. Governed!Ahead \subseteq Receipts
  BY DEF Governed!Ahead
<1>3. /\ v5.phase = "canonical" /\ v5.identity \in Governed!Identities /\ v5.trailing \in BOOLEAN
      /\ v5.left \subseteq Governed!Ahead /\ v5.items \subseteq Governed!Ahead
      /\ v5.examined \in Governed!Ahead \cup {None} /\ v5.count \in 0 .. MaxReads
  BY <1>1
<1>4. IsFiniteSet(v5.items) /\ Cardinality(v5.items) \in Nat
  BY <1>2, <1>3, ListNewer
<1>5. Cardinality(v5.items) <= PageItems /\ Cardinality(v5.items) <= v5.count
  BY ListCount DEF Governed!CanonicalInv
<1>6. v5.count \in Nat /\ v5.count <= MaxReads
  BY <1>3, ListBounds
<1>7. Cardinality(v5.items) < Governed!Page
  BY <1>4, <1>5, <1>6, ListBounds
<1> QED BY <1>2, <1>3, <1>4, <1>5, <1>6, <1>7

\* A candidate is read again: it is shown, or it cannot be shown any more and nothing
\* older can be.
LEMMA ListReads ==
  ASSUME Governed!IInv, Governed!Canonical
  PROVE  Governed!IInv'
<1>1. /\ v1' = v1 /\ v2' = v2 /\ v3' = v3 /\ v4' = v4 /\ v6' = v6 /\ v7' = v7 /\ v8' = v8
      /\ v5.phase = "canonical" /\ v5.left # {} /\ v5.count # MaxReads /\ Governed!Cardinality(v5.items) # PageItems
  BY DEF Governed!Canonical, Governed!Enough
<1>2. Governed!RowsInv /\ Governed!ClientInv /\ Governed!CanonicalInv /\ v6.status # "done"
  BY <1>1 DEF Governed!IInv, Governed!Idle, Governed!QueryInv
<1>3. Governed!RowsInv'
  BY <1>1, <1>2 DEF Governed!RowsInv, Governed!TypeOK, Governed!Gone
<1>4. Governed!Boundary' = Governed!Boundary /\ Governed!Ahead' = Governed!Ahead
  BY <1>1 DEF Governed!Boundary, Governed!Ahead
<1>5. \A r : (Governed!Gone(r)' <=> Governed!Gone(r)) /\ (Governed!Readable(r)' <=> Governed!Readable(r))
  BY <1>1 DEF Governed!Gone, Governed!Readable
<1>6. Governed!ClientInv'
  BY <1>1, <1>2, <1>4, <1>5 DEF Governed!ClientInv
<1> DEFINE r == Governed!Max(v5.left)
           read == IF Governed!Readable(r) THEN v5.items \cup {r} ELSE v5.items
<1>7. r \in v5.left /\ \A y \in v5.left : y <= r
  BY <1>1, <1>2, ListReading, ListMax
<1>8. v5' = [v5 EXCEPT !.left = v5.left \ {r}, !.examined = r, !.count = v5.count + 1, !.items = read]
  BY DEF Governed!Canonical
<1> HIDE DEF r
<1>9. r \in Governed!Ahead /\ r \in Receipts /\ r \in Nat /\ r # None
  BY <1>2, <1>7, ListReading, ListBounds
<1>10. read \subseteq Governed!Ahead /\ read \subseteq Receipts
  BY <1>2, <1>9, ListReading
<1>11. /\ Cardinality(read) \in Nat /\ Cardinality(read) <= PageItems /\ Cardinality(read) <= v5.count + 1
  <2>1. /\ IsFiniteSet(v5.items) /\ Cardinality(v5.items) \in Nat /\ v5.count \in Nat /\ PageItems \in Nat
        /\ Cardinality(v5.items) <= PageItems /\ Cardinality(v5.items) <= v5.count /\ Cardinality(v5.items) # PageItems
    BY <1>1, <1>2, ListReading, ListBounds, ListCount
  <2>2. \/ Cardinality(read) = Cardinality(v5.items)
        \/ Cardinality(read) = Cardinality(v5.items) + 1
    BY <2>1, FS_AddElement
  <2> QED BY <2>1, <2>2
<1>12. ~Governed!Readable(r) => r \notin read
  <2>1. ASSUME r \in v5.items PROVE FALSE
    <3>1. v5.examined # None
      BY <1>2, <2>1 DEF Governed!CanonicalInv
    <3>2. r < v5.examined /\ r >= v5.examined
      BY <1>2, <1>7, <2>1, <3>1 DEF Governed!CanonicalInv
    <3>3. v5.examined \in Nat
      BY <1>2, <3>1, ListReading, ListBounds
    <3> QED BY <1>9, <3>2, <3>3
  <2> QED BY <2>1
<1> DEFINE t == v5'
<1>13. /\ t \in [phase : {"canonical"}, identity : Governed!Identities, left : SUBSET Governed!Ahead,
                 examined : Governed!Ahead \cup {None}, count : 0 .. MaxReads, items : SUBSET Governed!Ahead,
                 trailing : BOOLEAN]
       /\ t.left = v5.left \ {r} /\ t.examined = r /\ t.count = v5.count + 1 /\ t.items = read /\ t.trailing = v5.trailing
  <2>1. v5 \in [phase : {"canonical"}, identity : Governed!Identities, left : SUBSET Governed!Ahead,
                examined : Governed!Ahead \cup {None}, count : 0 .. MaxReads, items : SUBSET Governed!Ahead,
                trailing : BOOLEAN]
    BY <1>2 DEF Governed!CanonicalInv
  <2>2. v5.count + 1 \in 0 .. MaxReads
    BY <1>1, <2>1, ListBounds
  <2> HIDE DEF read
  <2> QED BY <1>8, <1>9, <1>10, <2>1, <2>2
<1> HIDE DEF t
<1>14. \A s \in t.left : s < r
  <2>1. ASSUME NEW s \in v5.left, s # r PROVE s < r
    <3>1. s \in Nat /\ s <= r
      BY <1>2, <1>7, ListReading, ListBounds
    <3> QED BY <1>9, <2>1, <3>1
  <2> QED BY <1>13, <2>1
<1>15. \A s \in t.items : s >= r
  <2>1. ASSUME NEW s \in v5.items PROVE s >= r
    <3>1. v5.examined # None
      BY <1>2, <2>1 DEF Governed!CanonicalInv
    <3>2. r < v5.examined /\ s >= v5.examined
      BY <1>2, <1>7, <2>1, <3>1 DEF Governed!CanonicalInv
    <3>3. v5.examined \in Nat /\ s \in Nat
      BY <1>2, <3>1, ListReading, ListBounds
    <3> QED BY <1>9, <3>2, <3>3
  <2> QED BY <1>9, <1>13, <2>1
<1>16. \A s \in t.left : s \in v3 \/ Governed!Gone(s)
  BY <1>2, <1>13 DEF Governed!CanonicalInv
<1>17. ~Governed!Readable(r) => r + Retention <= v1 \/ v2.state = "DELETING"
  <2>1. r \in v3 \/ Governed!Gone(r)
    BY <1>2, <1>7 DEF Governed!CanonicalInv
  <2>2. v1 \in Nat
    BY <1>2, ListBounds DEF Governed!RowsInv, Governed!TypeOK
  <2> QED BY <2>1, <2>2, <1>9, ListBounds DEF Governed!Gone, Governed!Readable
<1>18. ASSUME NEW q \in v8 \cap Governed!Ahead
       PROVE  \/ q \in t.left \cup t.items \/ ~Governed!Readable(q) \/ v2.state = "DELETING"
              \/ t.trailing /\ Behind(t.left \cup t.items, q)
  <2>1. \/ q \in v5.left \cup v5.items \/ ~Governed!Readable(q) \/ v2.state = "DELETING"
        \/ v5.trailing /\ Behind(v5.left \cup v5.items, q)
    BY <1>2, ListDeferred DEF Governed!CanonicalInv
  <2>2. CASE Governed!Readable(r)
    <3>1. t.left \cup t.items = v5.left \cup v5.items
      BY <1>7, <1>13, <2>2
    <3> QED BY <2>1, <3>1, <1>13
  <2>3. CASE ~Governed!Readable(r)
    <3>1. t.left \cup t.items = (v5.left \cup v5.items) \ {r}
      BY <1>12, <1>13, <2>3
    <3>2. q \in Nat /\ v1 \in Nat
      BY <1>2, ListBounds DEF Governed!Ahead, Governed!RowsInv, Governed!TypeOK
    <3>3. CASE q < r
      <4>1. q + Retention <= v1 \/ v2.state = "DELETING"
        BY <1>9, <1>17, <2>3, <3>2, <3>3, ListBounds
      <4> QED BY <3>2, <4>1, ListBounds DEF Governed!Readable
    <3>4. CASE q = r
      BY <2>3, <3>4
    <3>5. CASE q > r
      <4>1. {s \in t.left \cup t.items : s > q} = {s \in v5.left \cup v5.items : s > q}
        <5>1. ~(r > q)
          BY <1>9, <3>2, <3>5
        <5> QED BY <3>1, <5>1
      <4>2. Behind(v5.left \cup v5.items, q) => Behind(t.left \cup t.items, q)
        BY <4>1 DEF Behind
      <4>3. q # r
        BY <1>9, <3>2, <3>5
      <4> QED BY <2>1, <3>1, <4>2, <4>3, <1>13
    <3> QED BY <1>9, <3>2, <3>3, <3>4, <3>5
  <2> QED BY <2>2, <2>3
<1>19. Governed!CanonicalInv'
  <2>1. Governed!Cardinality(t.items) <= PageItems /\ Governed!Cardinality(t.items) <= t.count
    BY <1>11, <1>13, ListCount
  <2>2. t.examined # None
    BY <1>9, <1>13
  <2>3. /\ \A s \in t.left : s < t.examined
        /\ \A s \in t.items : s >= t.examined
    BY <1>13, <1>14, <1>15
  <2>4. \A q \in v8 \cap Governed!Ahead :
          \/ q \in t.left \cup t.items \/ ~Governed!Readable(q) \/ v2.state = "DELETING"
          \/ Governed!Deferred(v5.left \cup v5.items, q)'
    BY <1>18, ListDeferred DEF t
  <2>5. t = v5'
    BY DEF t
  <2> QED BY <1>1, <1>4, <1>5, <1>13, <1>16, <2>1, <2>2, <2>3, <2>4, <2>5 DEF Governed!CanonicalInv, Governed!Identities
<1> QED BY <1>1, <1>2, <1>3, <1>6, <1>19 DEF Governed!IInv

\* A page is told: what it has come past was shown, or cannot be.
LEMMA ListTells ==
  ASSUME Governed!IInv, Governed!Tell
  PROVE  Governed!IInv'
<1>1. /\ v1' = v1 /\ v2' = v2 /\ v3' = v3 /\ v4' = v4 /\ v5' = Governed!Idle /\ v8' = v8
      /\ v5.phase = "canonical" /\ Governed!Enough /\ v2.state = "ACTIVE"
      /\ v7' = [r \in Receipts |-> IF r \in v5.items THEN v7[r] + 1 ELSE v7[r]]
  BY DEF Governed!Tell
<1>2. v6' = IF Governed!More
            THEN [status |-> "going",
                  cursor |-> [identity |-> v5.identity, before |-> v5.examined, expires |-> v1 + Window]]
            ELSE [status |-> "done", cursor |-> None]
  BY DEF Governed!Tell
<1>3. Governed!RowsInv /\ Governed!ClientInv /\ Governed!CanonicalInv /\ v6.status # "done"
  BY <1>1 DEF Governed!IInv, Governed!Idle, Governed!QueryInv
<1>4. v6'.status \in {"going", "done"}
  BY <1>2
<1>5. \A r : (Governed!Gone(r)' <=> Governed!Gone(r)) /\ (Governed!Readable(r)' <=> Governed!Readable(r))
  BY <1>1 DEF Governed!Gone, Governed!Readable
<1>6. Governed!RowsInv'
  BY <1>1, <1>3, <1>4, <1>5 DEF Governed!RowsInv, Governed!TypeOK
<1>7. v6.status \in {"none", "going"}
  BY <1>3 DEF Governed!RowsInv, Governed!TypeOK
<1>8. \A r \in Receipts : r < Governed!Boundary => v7[r] = 0
  BY <1>3, <1>7 DEF Governed!ClientInv
<1>9. \A r \in Governed!Ahead : r \in Receipts /\ v7[r] = 0
  BY <1>8 DEF Governed!Ahead
<1>10. v5.items \subseteq Governed!Ahead /\ v5.left \subseteq Receipts /\ v5.items \subseteq Receipts
  BY <1>3, ListReading
<1>11. \A r \in Receipts : /\ r \in v5.items => v7'[r] = 1
                           /\ r \notin v5.items => v7'[r] = v7[r]
  BY <1>1, <1>9, <1>10
<1>12. DOMAIN v7' = Receipts /\ \A r \in Receipts : v7'[r] \in {0, 1}
  BY <1>1, <1>3, <1>11 DEF Governed!ClientInv
\* Behind the boundary.
<1>13. ASSUME NEW r \in v8, r \notin Governed!Ahead PROVE v7'[r] = 1 \/ ~Governed!Readable(r)
  <2>1. r \in Receipts /\ r \in Nat /\ r <= v1 /\ v1 <= ListTime /\ v1 \in Nat
    BY <1>3, ListBounds DEF Governed!RowsInv, Governed!TypeOK
  <2>2. ~(r < Governed!Boundary)
    BY <1>13, <2>1 DEF Governed!Ahead
  <2>3. v6.status = "going"
    <3>1. r < ListTime + 1
      BY <2>1, ListBounds
    <3> QED BY <2>2, <3>1 DEF Governed!Boundary
  <2>4. Governed!Boundary \in Nat
    BY <1>3, <2>3, ListBounds DEF Governed!Boundary, Governed!ClientInv
  <2>5. r >= Governed!Boundary
    BY <2>1, <2>2, <2>4
  <2>6. v7[r] = 1 \/ ~Governed!Readable(r)
    BY <1>3, <2>3, <2>5 DEF Governed!ClientInv
  <2>7. r \notin v5.items
    BY <1>10, <1>13
  <2> QED BY <1>11, <2>1, <2>6, <2>7
\* On this page.
<1>14. ASSUME NEW r \in v8, r \in Governed!Ahead, r \notin v5.left, \A s \in v5.left : ~(s > r)
       PROVE  v7'[r] = 1 \/ ~Governed!Readable(r)
  <2>1. r \in Receipts
    BY <1>9, <1>14
  <2>2. \/ r \in v5.items \/ ~Governed!Readable(r)
        \/ Behind(v5.left \cup v5.items, r)
    BY <1>1, <1>3, <1>14, ListDeferred DEF Governed!CanonicalInv
  <2>3. ~Behind(v5.left \cup v5.items, r)
    <3>1. {s \in v5.left \cup v5.items : s > r} = {s \in v5.items : s > r}
      BY <1>14
    <3>2. /\ Governed!Cardinality({s \in v5.items : s > r}) <= Cardinality(v5.items)
          /\ Governed!Cardinality({s \in v5.items : s > r}) \in Nat
      BY <1>10, ListNewer
    <3>3. Cardinality(v5.items) < Governed!Page /\ Cardinality(v5.items) \in Nat
      BY <1>3, ListReading
    <3>4. Governed!Page \in Nat
      BY ListBounds
    <3>5. ~(Governed!Cardinality({s \in v5.items : s > r}) >= Governed!Page)
      BY <3>2, <3>3, <3>4
    <3> QED BY <3>1, <3>5 DEF Behind
  <2> QED BY <1>11, <2>1, <2>2, <2>3
<1>15. CASE Governed!More
  <2>1. v5.examined # None /\ v6'.status = "going" /\ v6'.cursor.before = v5.examined
    BY <1>2, <1>15 DEF Governed!More
  <2>2. v5.examined \in Receipts /\ v5.examined \in Governed!Ahead /\ v5.examined \in Nat
    BY <1>3, <2>1, ListReading, ListBounds
  <2>3. Governed!Boundary' = v5.examined
    BY <2>1 DEF Governed!Boundary
  <2>4. /\ \A s \in v5.left : s < v5.examined
        /\ \A s \in v5.items : s >= v5.examined
    BY <1>3, <2>1 DEF Governed!CanonicalInv
  <2>5. ASSUME NEW r \in Receipts, r < v5.examined PROVE v7'[r] = 0
    <3>1. r \in Nat /\ r \notin v5.items
      BY <2>2, <2>4, <2>5, ListBounds
    <3>2. v5.examined < Governed!Boundary /\ Governed!Boundary \in Nat
      <4>1. ListTime + 1 \in Nat /\ Receipts \subseteq Nat
        BY ListBounds
      <4>2. v6.status = "going" => v6.cursor.before \in Receipts
        BY <1>3 DEF Governed!ClientInv
      <4>3. Governed!Boundary \in Nat
        BY <4>1, <4>2 DEF Governed!Boundary
      <4>4. v5.examined < Governed!Boundary
        BY <2>2 DEF Governed!Ahead
      <4> QED BY <4>3, <4>4
    <3>3. r < Governed!Boundary
      BY <2>2, <2>5, <3>1, <3>2
    <3> QED BY <1>8, <1>11, <3>1, <3>3
  <2>6. ASSUME NEW r \in v8, r >= v5.examined PROVE v7'[r] = 1 \/ ~Governed!Readable(r)
    <3>1. r \in Nat
      BY <1>3, ListBounds DEF Governed!RowsInv, Governed!TypeOK
    <3>2. \A s \in v5.left : s \in Nat /\ s < v5.examined
      BY <1>10, <2>4, ListBounds
    <3>3. r \notin v5.left /\ \A s \in v5.left : ~(s > r)
      BY <2>2, <2>6, <3>1, <3>2
    <3> QED BY <1>13, <1>14, <3>3
  <2>7. Governed!ClientInv'
    BY <1>1, <1>5, <1>12, <2>1, <2>2, <2>3, <2>5, <2>6 DEF Governed!ClientInv
  <2> QED BY <1>1, <1>6, <2>7 DEF Governed!IInv, Governed!Idle
<1>16. CASE ~Governed!More
  <2>1. v6'.status = "done"
    BY <1>2, <1>16
  <2>2. v5.left = {}
    <3>1. CASE v5.examined = None
      <4>1. v5.count = 0 /\ v5.items = {}
        BY <1>3, <3>1 DEF Governed!CanonicalInv
      <4>2. Governed!Cardinality(v5.items) = 0
        BY <4>1, ListCount, FS_EmptySet
      <4> QED BY <1>1, <4>1, <4>2, ListBounds DEF Governed!Enough
    <3>2. CASE v5.examined # None
      BY <1>16, <3>2 DEF Governed!More
    <3> QED BY <3>1, <3>2
  <2>3. \A r \in v8 : v7'[r] = 1 \/ ~Governed!Readable(r)
    BY <1>13, <1>14, <2>2
  <2>4. Governed!ClientInv'
    BY <1>1, <1>5, <1>12, <2>1, <2>3 DEF Governed!ClientInv
  <2> QED BY <1>1, <1>6, <2>4 DEF Governed!IInv, Governed!Idle
<1> QED BY <1>15, <1>16

\* A list may fail, and is begun with nothing shown.
LEMMA ListFails ==
  ASSUME Governed!IInv, UNCHANGED <<v1, v2, v3, v4, v6, v7, v8>>, v5' \in {v5, Governed!Idle}
  PROVE  Governed!IInv'
<1>1. v1' = v1 /\ v2' = v2 /\ v3' = v3 /\ v4' = v4 /\ v6' = v6 /\ v7' = v7 /\ v8' = v8
  OBVIOUS
<1>2. \A r : (Governed!Gone(r)' <=> Governed!Gone(r)) /\ (Governed!Readable(r)' <=> Governed!Readable(r))
  BY <1>1 DEF Governed!Gone, Governed!Readable
<1>3. Governed!RowsInv'
  BY <1>1, <1>2 DEF Governed!IInv, Governed!RowsInv, Governed!TypeOK
<1>4. CASE v5' = v5
  <2>1. Onwards
    BY <1>1, <1>2, <1>3, <1>4 DEF Onwards
  <2> QED BY <2>1, ListOnwards
<1>5. CASE v5' = Governed!Idle
  <2>1. Governed!Boundary' = Governed!Boundary
    BY <1>1 DEF Governed!Boundary
  <2>2. Governed!ClientInv'
    BY <1>1, <1>2, <2>1 DEF Governed!IInv, Governed!ClientInv
  <2> QED BY <1>3, <1>5, <2>2 DEF Governed!IInv, Governed!Idle
<1> QED BY <1>4, <1>5

\* Before anything is asked.
LEMMA ListBegins == Governed!Init => Governed!IInv
<1> SUFFICES ASSUME Governed!Init PROVE Governed!IInv
  OBVIOUS
<1>1. /\ v1 = Start /\ v2 = [state |-> "ACTIVE", version |-> 1, revision |-> 1]
      /\ v3 \subseteq {r \in Receipts : r <= Start} /\ v4 \subseteq v3
      /\ v5 = Governed!Idle /\ v6 = [status |-> "none", cursor |-> None]
      /\ v7 = [r \in Receipts |-> 0] /\ v8 = {}
  BY DEF Governed!Init
<1>2. Governed!RowsInv
  BY <1>1, ListBounds DEF Governed!RowsInv, Governed!TypeOK
<1>3. Governed!ClientInv
  BY <1>1 DEF Governed!ClientInv
<1> QED BY <1>1, <1>2, <1>3 DEF Governed!IInv

\* Every step keeps the invariant, and a page is told to whom it was read for.
LEMMA ListStep ==
  ASSUME Governed!IInv, Governed!Next
  PROVE  Governed!IInv' /\ Governed!ReleasedToOwner
<1>1. CASE Governed!Authorize \/ Governed!Sort \/ \E p \in Governed!Partitions : Governed!Query(p)
  BY <1>1, ListAsks, ListAskedRows DEF Governed!ReleasedToOwner
<1>2. CASE Governed!Canonical
  BY <1>2, ListReads DEF Governed!ReleasedToOwner, Governed!Canonical
<1>3. CASE Governed!Tell
  BY <1>3, ListTells DEF Governed!ReleasedToOwner, Governed!Tell
<1>4. CASE Governed!Fail
  <2>1. UNCHANGED <<v1, v2, v3, v4, v6, v7, v8>> /\ v5' = Governed!Idle
    BY <1>4 DEF Governed!Fail
  <2> QED BY <2>1, ListFails DEF Governed!ReleasedToOwner
<1>5. CASE ListAround
  <2>1. Onwards
    BY <1>5, ListClock, ListRows DEF ListAround, Governed!IInv
  <2> QED BY <2>1, ListOnwards DEF Onwards, Governed!ReleasedToOwner
<1> QED BY <1>1, <1>2, <1>3, <1>4, <1>5 DEF Governed!Next, ListAround

\* What the invariant says of a list that has come to its end.
LEMMA ListWhole == Governed!IInv => Governed!TypeOK /\ Governed!NothingLeftOut
<1> SUFFICES ASSUME Governed!IInv PROVE Governed!TypeOK /\ Governed!NothingLeftOut
  OBVIOUS
<1>1. Governed!TypeOK
  BY DEF Governed!IInv, Governed!RowsInv
<1>2. \A r \in Receipts : v7[r] <= 1
  BY DEF Governed!IInv, Governed!ClientInv
<1>3. v6.status = "done" => \A r \in v8 : Governed!Readable(r) => v7[r] = 1
  BY DEF Governed!IInv, Governed!ClientInv
<1> QED BY <1>1, <1>2, <1>3 DEF Governed!NothingLeftOut

-----------------------------------------------------------------------------
(***************************************************************************)
(* Export                                                                  *)
(*                                                                         *)
(* What was shown is exactly what the capability has Passed: the families  *)
(* before its own, and its own up to its position.  The families have      *)
(* partitions of their own, and the History's is that of one generation,   *)
(* which a page's verification checks is still the account's.              *)
(***************************************************************************)

\* The module's counts are those of finite sets.
LEMMA ExportCount ==
  \A S : Exported!Cardinality(S) = Cardinality(S) /\ (Exported!IsFiniteSet(S) <=> IsFiniteSet(S))
BY DEF Exported!Cardinality, Exported!IsFiniteSet, Cardinality, IsFiniteSet

\* The settings.
LEMMA ExportBounds ==
  /\ RowKeys \subseteq Nat \ {0} /\ IsFiniteSet(RowKeys) /\ Sizes \subseteq Nat /\ 1 \in Sizes
  /\ PageRows \in Nat \ {0} /\ MaxBindings \in Nat \ {0} /\ MaxGeneration \in Nat \ {0}
  /\ PageBytes \in Nat /\ Window \in Nat /\ MaxPages \in Nat /\ MaxChanges \in Nat /\ PageTime \in Nat
  /\ None \notin Nat /\ None \notin [size : Sizes, live : BOOLEAN]
<1>1. /\ RowKeys \subseteq Nat \ {0} /\ IsFiniteSet(RowKeys)
      /\ {PageRows, MaxBindings, MaxGeneration} \subseteq Nat \ {0} /\ Sizes \subseteq Nat /\ 1 \in Sizes
      /\ {PageBytes, Window, MaxPages, MaxChanges, PageTime} \subseteq Nat
      /\ None \notin Nat /\ None \notin [size : Sizes, live : BOOLEAN]
  BY ExportAssumed, ExportCount DEF Exported!ExportAssumption
<1> QED BY <1>1

\* The three families, and their partitions.
LEMMA ExportPlan ==
  /\ DOMAIN Exported!Plan = 1 .. 3 /\ Len(Exported!Plan) = 3
  /\ Exported!Plan[1] = "profile" /\ Exported!Plan[2] = "receipts" /\ Exported!Plan[3] = "history"
BY DEF Exported!Plan

\* The partition of the plan's i-th family, of one generation.
Family(i, g) == Exported!Partition(Exported!Plan[i], g)

\* The families' partitions are different ones.
LEMMA ExportFamilies ==
  ASSUME NEW g \in 1 .. MaxGeneration
  PROVE  /\ Family(1, g) = <<"profile", 0>> /\ Family(2, g) = <<"receipts", 0>> /\ Family(3, g) = <<"history", g>>
         /\ \A i \in 1 .. 3 : Family(i, g) \in Exported!Partitions
         /\ \A i, j \in 1 .. 3 : Family(i, g) = Family(j, g) => i = j
<1>1. Family(1, g) = <<"profile", 0>> /\ Family(2, g) = <<"receipts", 0>> /\ Family(3, g) = <<"history", g>>
  BY ExportPlan DEF Family, Exported!Partition
<1>2. \A i \in 1 .. 3 : i = 1 \/ i = 2 \/ i = 3
  OBVIOUS
<1>3. \A i \in 1 .. 3 : Family(i, g) \in Exported!Partitions
  BY <1>1, <1>2 DEF Exported!Partitions
<1>4. \A i, j \in 1 .. 3 : Family(i, g) = Family(j, g) => i = j
  BY <1>1, <1>2
<1> QED BY <1>1, <1>3, <1>4

\* Keys, and the places they make.
LEMMA ExportPlaces ==
  /\ \A p \in Exported!Partitions : /\ Exported!KeysOf(p) \subseteq Nat \ {0} /\ IsFiniteSet(Exported!KeysOf(p))
                                    /\ p[1] # "receipts" => Exported!KeysOf(p) = {1}
  /\ \A p \in Exported!Partitions : \A k \in Exported!KeysOf(p) : <<p, k>> \in Exported!Places
  /\ \A x \in Exported!Places : /\ x[1] \in Exported!Partitions /\ x[2] \in Exported!KeysOf(x[1])
                                /\ x = <<x[1], x[2]>> /\ x[2] \in Nat \ {0}
<1>1. ASSUME NEW p \in Exported!Partitions
      PROVE  /\ Exported!KeysOf(p) \subseteq Nat \ {0} /\ IsFiniteSet(Exported!KeysOf(p))
             /\ p[1] # "receipts" => Exported!KeysOf(p) = {1}
  <2>1. IsFiniteSet({1})
    BY FS_Singleton, Zenon
  <2> QED BY <2>1, ExportBounds DEF Exported!KeysOf
<1>2. \A p \in Exported!Partitions : \A k \in Exported!KeysOf(p) : <<p, k>> \in Exported!Places
  BY DEF Exported!Places
<1>3. ASSUME NEW x \in Exported!Places
      PROVE  /\ x[1] \in Exported!Partitions /\ x[2] \in Exported!KeysOf(x[1])
             /\ x = <<x[1], x[2]>> /\ x[2] \in Nat \ {0}
  <2>1. PICK p \in Exported!Partitions : x \in {<<p, k>> : k \in Exported!KeysOf(p)}
    BY DEF Exported!Places
  <2>2. PICK k \in Exported!KeysOf(p) : x = <<p, k>>
    BY <2>1
  <2> QED BY <2>2, <1>1
<1> QED BY <1>1, <1>2, <1>3

\* What time, the account and changes of rows leave of the export.
ExportApart ==
  /\ v5' = v5 /\ v6' = v6 /\ v7' = v7 /\ v8' \subseteq v8
  /\ Exported!RowsInv'

\* A capability needs no more of them.
LEMMA ExportToken ==
  ASSUME NEW t, v7' = v7, v8' \subseteq v8, Exported!TokenInv(t)
  PROVE  /\ t \in Exported!Tokens
         /\ \A x \in Exported!Places : v7'[x] > 0 => Exported!Passed(t, x)
         /\ \A x \in v8' : /\ \E i \in DOMAIN Exported!Plan : x[1] = Exported!Partition(Exported!Plan[i], t.generation)
                           /\ Exported!Passed(t, x) => v7'[x] = 1
BY DEF Exported!TokenInv

\* The invariant needs no more of what goes on around.
LEMMA ExportAround ==
  ASSUME Exported!IInv, ExportApart
  PROVE  Exported!IInv'
<1>1. v5' = v5 /\ v6' = v6 /\ v7' = v7 /\ v8' \subseteq v8 /\ Exported!RowsInv'
  BY DEF ExportApart
<1>2. Exported!TokenInv(v6.cursor) => Exported!TokenInv(v6.cursor)'
  BY <1>1, ExportToken DEF Exported!TokenInv
<1>3. Exported!TokenInv(v5.token) => Exported!TokenInv(v5.token)'
  BY <1>1, ExportToken DEF Exported!TokenInv
<1>4. Exported!ClientInv'
  BY <1>1, <1>2 DEF Exported!IInv, Exported!ClientInv, Exported!OneGeneration
<1>5. Exported!PageInv => Exported!PageInv'
  BY <1>1 DEF Exported!PageInv
<1>6. Exported!JobInv => Exported!JobInv'
  BY <1>1, <1>3, <1>5 DEF Exported!JobInv
<1> QED BY <1>1, <1>4, <1>6 DEF Exported!IInv, Exported!Idle

\* A row changes.
LEMMA ExportChanges ==
  ASSUME Exported!RowsInv, NEW p \in Exported!Partitions, NEW k \in Exported!KeysOf(p),
         NEW row \in {None} \cup [size : Sizes, live : BOOLEAN], Exported!Change(p, k, row)
  PROVE  ExportApart
<1>1. /\ v9 < MaxChanges /\ v9' = v9 + 1 /\ v4' = [v4 EXCEPT ![p][k] = row] /\ v8' = v8 \ {<<p, k>>}
      /\ v1' = v1 /\ v2' = v2 /\ v3' = v3 /\ v5' = v5 /\ v6' = v6 /\ v7' = v7
  BY DEF Exported!Change
<1>2. /\ DOMAIN v4 = Exported!Partitions
      /\ \A q \in Exported!Partitions : v4[q] \in [Exported!KeysOf(q) -> {None} \cup [size : Sizes, live : BOOLEAN]]
  BY DEF Exported!RowsInv
<1>3. /\ DOMAIN v4' = Exported!Partitions
      /\ \A q \in Exported!Partitions : v4'[q] = IF q = p THEN [v4[p] EXCEPT ![k] = row] ELSE v4[q]
  BY <1>1, <1>2
<1>4. \A q \in Exported!Partitions : v4'[q] \in [Exported!KeysOf(q) -> {None} \cup [size : Sizes, live : BOOLEAN]]
  BY <1>2, <1>3
<1>5. \A q \in Exported!Partitions : \A l \in Exported!KeysOf(q) : <<q, l>> # <<p, k>> => v4'[q][l] = v4[q][l]
  BY <1>2, <1>3
<1>6. v8 \subseteq Exported!Places /\ \A x \in v8 : x[2] \in Exported!Live(x[1])
  BY DEF Exported!RowsInv, Exported!TypeOK
<1>7. ASSUME NEW x \in v8' PROVE x[2] \in Exported!Live(x[1])'
  <2>1. x \in v8 /\ x # <<p, k>> /\ x \in Exported!Places
    BY <1>1, <1>6
  <2>2. x[1] \in Exported!Partitions /\ x[2] \in Exported!KeysOf(x[1]) /\ x = <<x[1], x[2]>>
    BY <2>1, ExportPlaces
  <2>3. v4'[x[1]][x[2]] = v4[x[1]][x[2]]
    BY <1>5, <2>1, <2>2
  <2>4. v4[x[1]][x[2]] # None /\ v4[x[1]][x[2]].live
    BY <1>6, <2>1 DEF Exported!Live
  <2> QED BY <2>2, <2>3, <2>4 DEF Exported!Live
<1>8. v9' \in 0 .. MaxChanges
  BY <1>1, ExportBounds DEF Exported!RowsInv, Exported!TypeOK
<1>9. \A q \in Exported!Partitions : \A l \in Exported!KeysOf(q) :
        v4'[q][l] # None => v4'[q][l] \in [size : Sizes, live : BOOLEAN]
  BY <1>4
<1>10. Exported!TypeOK'
  BY <1>1, <1>6, <1>8, <1>9 DEF Exported!RowsInv, Exported!TypeOK
<1>11. Exported!RowsInv'
  BY <1>3, <1>4, <1>7, <1>10 DEF Exported!RowsInv
<1> QED BY <1>1, <1>11 DEF ExportApart

\* The account, the History's generation and the clock.
LEMMA ExportClock ==
  ASSUME Exported!RowsInv, Exported!Clear \/ Exported!Delete \/ Exported!Tick \/ \E d \in {"d1", "d2"} : Exported!Rebind(d)
  PROVE  ExportApart
<1>1. v4' = v4 /\ v5' = v5 /\ v6' = v6 /\ v7' = v7 /\ v8' = v8 /\ v9' = v9
  BY DEF Exported!Clear, Exported!Delete, Exported!Tick, Exported!Rebind
<1>2. Exported!TypeOK
  BY DEF Exported!RowsInv
<1>3. v1' \in 0 .. PageTime /\ v3' \in 1 .. MaxGeneration
  BY <1>2, ExportBounds DEF Exported!TypeOK, Exported!Clear, Exported!Delete, Exported!Tick, Exported!Rebind
<1>4. v2' \in [state : {"ACTIVE", "DELETING"}, device : {"d1", "d2"}, version : 1 .. MaxBindings]
  <2>1. v2 \in [state : {"ACTIVE", "DELETING"}, device : {"d1", "d2"}, version : 1 .. MaxBindings]
    BY <1>2 DEF Exported!TypeOK
  <2>2. ASSUME NEW d \in {"d1", "d2"}, Exported!Rebind(d)
        PROVE  v2' \in [state : {"ACTIVE", "DELETING"}, device : {"d1", "d2"}, version : 1 .. MaxBindings]
    <3>1. v2' = [v2 EXCEPT !.device = d, !.version = v2.version + 1] /\ v2.version < MaxBindings
      BY <2>2 DEF Exported!Rebind
    <3>2. v2.version + 1 \in 1 .. MaxBindings
      BY <2>1, <3>1, ExportBounds
    <3> QED BY <2>1, <3>1, <3>2
  <2>3. CASE Exported!Clear \/ Exported!Delete \/ Exported!Tick
    BY <2>1, <2>3 DEF Exported!Clear, Exported!Delete, Exported!Tick
  <2> QED BY <2>2, <2>3
<1>5. Exported!TypeOK'
  BY <1>1, <1>2, <1>3, <1>4 DEF Exported!TypeOK
<1>6. Exported!RowsInv'
  BY <1>1, <1>5 DEF Exported!RowsInv, Exported!Live
<1> QED BY <1>1, <1>6 DEF ExportApart

\* A row is added, expires or is removed.
LEMMA ExportRows ==
  ASSUME Exported!RowsInv, Exported!Add \/ Exported!Expire \/ Exported!Remove
  PROVE  ExportApart
<1>1. CASE Exported!Add
  <2>1. PICK p \in Exported!Partitions : \E k \in Exported!KeysOf(p), s \in Sizes : Exported!Change(p, k, Exported!Row(s))
    BY <1>1 DEF Exported!Add
  <2>2. PICK k \in Exported!KeysOf(p), s \in Sizes : Exported!Change(p, k, Exported!Row(s))
    BY <2>1
  <2>3. Exported!Row(s) \in {None} \cup [size : Sizes, live : BOOLEAN]
    BY DEF Exported!Row
  <2> QED BY <2>2, <2>3, ExportChanges
<1>2. CASE Exported!Expire
  <2>1. PICK p \in Exported!Partitions : \E k \in Exported!Live(p) : Exported!Change(p, k, [v4[p][k] EXCEPT !.live = FALSE])
    BY <1>2 DEF Exported!Expire
  <2>2. PICK k \in Exported!Live(p) : Exported!Change(p, k, [v4[p][k] EXCEPT !.live = FALSE])
    BY <2>1
  <2>3. k \in Exported!KeysOf(p) /\ v4[p][k] \in [size : Sizes, live : BOOLEAN]
    BY DEF Exported!RowsInv, Exported!TypeOK, Exported!Live
  <2>4. [v4[p][k] EXCEPT !.live = FALSE] \in {None} \cup [size : Sizes, live : BOOLEAN]
    BY <2>3
  <2> QED BY <2>2, <2>3, <2>4, ExportChanges
<1>3. CASE Exported!Remove
  <2>1. PICK p \in Exported!Partitions : \E k \in Exported!KeysOf(p) : Exported!Change(p, k, None)
    BY <1>3 DEF Exported!Remove
  <2>2. PICK k \in Exported!KeysOf(p) : Exported!Change(p, k, None)
    BY <2>1
  <2> QED BY <2>2, ExportChanges
<1> QED BY <1>1, <1>2, <1>3

\* The last of a query's or a page's rows.
LEMMA ExportMax ==
  ASSUME NEW S, IsFiniteSet(S), S \subseteq Nat, S # {}
  PROVE  Exported!Max(S) \in S /\ \A y \in S : y <= Exported!Max(S)
<1>1. \E x \in S : \A y \in S : x >= y
  <2>1. S \subseteq Int
    OBVIOUS
  <2>2. PICK x \in S : \A y \in S : y <= x
    BY <2>1, Greatest
  <2>3. \A y \in S : x >= y
    BY <2>1, <2>2
  <2> QED BY <2>3
<1> DEFINE m == CHOOSE x \in S : \A y \in S : x >= y
<1>2. m \in S /\ \A y \in S : m >= y
  BY <1>1
<1> HIDE DEF m
<1>3. Exported!Max(S) = m
  BY DEF Exported!Max, m
<1>4. \A y \in S : m \in Nat /\ y \in Nat
  BY <1>2
<1> QED BY <1>2, <1>3, <1>4

\* A query begins behind the position and skips nothing up to its end.
LEMMA ExportQueried ==
  ASSUME NEW p \in Exported!Partitions, NEW position \in Nat
  PROVE  /\ Exported!Queried(p, position) \subseteq {k \in Exported!KeysOf(p) : k > position}
         /\ IsFiniteSet(Exported!Queried(p, position)) /\ Exported!Queried(p, position) \subseteq Nat
         /\ \A k \in Exported!Live(p) : k > position =>
              \/ k \in Exported!Queried(p, position)
              \/ /\ Exported!Cardinality(Exported!Queried(p, position)) = PageRows
                 /\ Exported!Queried(p, position) # {} /\ \A j \in Exported!Queried(p, position) : j < k
<1> DEFINE S == {k \in Exported!KeysOf(p) : v4[p][k] # None /\ k > position}
           C == Exported!Queried(p, position)
<1>1. C = {k \in S : Cardinality(UpTo(S, k)) <= PageRows}
  BY ExportCount DEF Exported!Queried, UpTo
<1>2. S \subseteq Exported!KeysOf(p) /\ \A k \in S : k > position
  OBVIOUS
<1>3. \A k \in Exported!Live(p) : k > position => k \in S
  BY DEF Exported!Live
<1> HIDE DEF S, C
<1>4. Exported!KeysOf(p) \subseteq Nat /\ IsFiniteSet(Exported!KeysOf(p))
  BY ExportPlaces
<1>5. IsFiniteSet(S) /\ S \subseteq Int /\ S \subseteq Nat
  BY <1>2, <1>4, FS_Subset
<1>6. C \subseteq S /\ \A k \in S : k \in C <=> Cardinality(UpTo(S, k)) <= PageRows
  BY <1>1
<1>7. PageRows \in Nat /\ PageRows # 0
  BY ExportBounds
<1>8. /\ IsFiniteSet(C) /\ Cardinality(C) \in 0 .. PageRows
      /\ C # S => Cardinality(C) = PageRows
      /\ \A k \in C, j \in S : j <= k => j \in C
  BY <1>5, <1>6, <1>7, FirstOf
<1>9. ASSUME NEW k \in S, k \notin C
      PROVE  Exported!Cardinality(C) = PageRows /\ C # {} /\ \A j \in C : j < k
  <2>1. Cardinality(C) = PageRows
    BY <1>8, <1>9
  <2>2. C # {}
    BY <2>1, <1>7, FS_EmptySet
  <2>3. ASSUME NEW j \in C PROVE j < k
    <3>1. j \in Nat /\ k \in Nat
      BY <1>5, <1>6
    <3>2. ~(k <= j)
      BY <1>8, <1>9
    <3> QED BY <3>1, <3>2
  <2> QED BY <2>1, <2>2, <2>3, ExportCount
<1> QED BY <1>2, <1>3, <1>5, <1>6, <1>8, <1>9 DEF C

\* What fits is the first of what was queried.
LEMMA ExportFitting ==
  ASSUME NEW p, NEW S, S \subseteq Nat
  PROVE  /\ Exported!Fitting(p, S) \subseteq S
         /\ \A m \in Exported!Fitting(p, S), k \in S : k <= m => k \in Exported!Fitting(p, S)
<1>1. Exported!Fitting(p, S) \subseteq S
  BY DEF Exported!Fitting
<1>2. ASSUME NEW m \in Exported!Fitting(p, S), NEW k \in S, k <= m PROVE k \in Exported!Fitting(p, S)
  <2>1. m \in S /\ \A l \in S : l <= m => Exported!Weight(p, {j \in S : j <= l}) <= PageBytes
    BY DEF Exported!Fitting
  <2>2. \A l \in S : l <= k => l <= m
    BY <1>2, <2>1
  <2> QED BY <2>1, <2>2 DEF Exported!Fitting
<1> QED BY <1>1, <1>2

\* An export begins, or goes on.
LEMMA ExportBegins ==
  ASSUME Exported!IInv, Exported!Begin
  PROVE  Exported!IInv'
<1>1. /\ v1' = v1 /\ v2' = v2 /\ v3' = v3 /\ v4' = v4 /\ v6' = v6 /\ v7' = v7 /\ v9' = v9
  BY DEF Exported!Begin
<1>2. Exported!RowsInv /\ Exported!ClientInv /\ Exported!TypeOK
  BY DEF Exported!IInv, Exported!RowsInv
<1>3. /\ v1 \in Nat /\ v3 \in 1 .. MaxGeneration /\ Exported!Context \in [version : 1 .. MaxBindings]
  BY <1>2, ExportBounds DEF Exported!TypeOK, Exported!Context
<1>4. CASE v6.status = "none"
  <2>1. /\ v5' = [phase |-> "planned", context |-> Exported!Context,
                  token |-> [context |-> Exported!Context, expires |-> v1 + Window, page |-> 0,
                             family |-> 1, position |-> 0, generation |-> v3]]
        /\ v8' = UNION {{<<p, k>> : k \in Exported!Live(p)} : p \in {Exported!Partition(Exported!Plan[i], v3) : i \in DOMAIN Exported!Plan}}
    BY <1>4 DEF Exported!Begin
  <2> DEFINE t == [context |-> Exported!Context, expires |-> v1 + Window, page |-> 0,
                   family |-> 1, position |-> 0, generation |-> v3]
  <2>2. t \in Exported!Tokens /\ t.family = 1 /\ t.position = 0 /\ t.generation = v3 /\ t.context = Exported!Context
    BY <1>3, ExportBounds, ExportPlan DEF Exported!Tokens
  <2>3. v5' = [phase |-> "planned", context |-> Exported!Context, token |-> t]
    BY <2>1
  <2> HIDE DEF t
  <2>4. ASSUME NEW x \in v8'
        PROVE  /\ x \in Exported!Places /\ x[2] \in Exported!Live(x[1])
               /\ \E i \in DOMAIN Exported!Plan : x[1] = Exported!Partition(Exported!Plan[i], v3)
    <3>1. PICK i \in DOMAIN Exported!Plan : \E k \in Exported!Live(Exported!Partition(Exported!Plan[i], v3)) :
                     x = <<Exported!Partition(Exported!Plan[i], v3), k>>
      BY <2>1
    <3>2. Family(i, v3) \in Exported!Partitions
      BY <1>3, ExportPlan, ExportFamilies
    <3>3. PICK k \in Exported!Live(Family(i, v3)) : x = <<Family(i, v3), k>>
      BY <3>1 DEF Family
    <3>4. k \in Exported!KeysOf(Family(i, v3))
      BY DEF Exported!Live
    <3> QED BY <3>2, <3>3, <3>4, ExportPlaces DEF Family
  <2>5. \A x \in Exported!Places : v7[x] = 0
    BY <1>2, <1>4 DEF Exported!ClientInv
  <2>6. \A x \in Exported!Places : ~Exported!Passed(t, x)
    <3>1. \A x \in Exported!Places : ~(x[2] <= 0)
      BY ExportPlaces
    <3>2. \A i \in DOMAIN Exported!Plan : ~(i < 1)
      BY ExportPlan
    <3> QED BY <2>2, <3>1, <3>2 DEF Exported!Passed
  <2>7. Exported!TokenInv(v5.token)'
    <3>1. v5'.token = t
      BY <2>3
    <3>2. \A x \in Exported!Places : v7'[x] = 0
      BY <1>1, <2>5
    <3>3. \A x \in Exported!Places : ~(v7'[x] > 0)
      BY <3>2
    <3>4. \A x \in v8' : x \in Exported!Places
      BY <2>4
    <3> QED BY <2>2, <2>4, <2>6, <3>1, <3>3, <3>4 DEF Exported!TokenInv
  <2>8. Exported!RowsInv'
    BY <1>1, <1>2, <2>4 DEF Exported!RowsInv, Exported!TypeOK, Exported!Live
  <2>9. Exported!ClientInv'
    BY <1>1, <1>2, <1>4 DEF Exported!ClientInv, Exported!OneGeneration
  <2>10. Exported!JobInv'
    <3>1. v5' \in [phase : {"planned"}, context : {v5'.token.context}, token : Exported!Tokens]
      BY <2>2, <2>3
    <3> QED BY <1>1, <1>4, <2>7, <3>1 DEF Exported!JobInv, Exported!Tokens
  <2> QED BY <2>8, <2>9, <2>10 DEF Exported!IInv
<1>5. CASE v6.status = "going"
  <2>1. /\ v5' = [phase |-> "planned", context |-> Exported!Context, token |-> v6.cursor] /\ v8' = v8
        /\ v6.cursor.context = Exported!Context
    BY <1>5 DEF Exported!Begin, Exported!Valid
  <2>2. Exported!TokenInv(v6.cursor) /\ v6.cursor \in Exported!Tokens
    BY <1>2, <1>5 DEF Exported!ClientInv, Exported!TokenInv
  <2>3. Exported!TokenInv(v6.cursor)'
    BY <1>1, <2>1, <2>2, ExportToken DEF Exported!TokenInv
  <2>4. Exported!RowsInv'
    BY <1>1, <1>2, <2>1 DEF Exported!RowsInv, Exported!TypeOK, Exported!Live
  <2>5. Exported!ClientInv'
    BY <1>1, <1>2, <1>5, <2>1, <2>3 DEF Exported!ClientInv, Exported!OneGeneration
  <2>6. v5'.token = v6.cursor /\ v5' \in [phase : {"planned"}, context : {v5'.token.context}, token : Exported!Tokens]
    BY <2>1, <2>2
  <2>7. Exported!JobInv'
    BY <1>1, <1>5, <2>3, <2>6 DEF Exported!JobInv, Exported!TokenInv, Exported!Tokens
  <2> QED BY <2>4, <2>5, <2>7 DEF Exported!IInv
<1> QED BY <1>4, <1>5 DEF Exported!Begin

\* A page of one family is read: what it does not show of what is there comes after it.
LEMMA ExportReads ==
  ASSUME Exported!IInv, Exported!Read
  PROVE  Exported!IInv'
<1> DEFINE t == v5.token
           p == Exported!Partition(Exported!Plan[t.family], t.generation)
           queried == Exported!Queried(p, t.position)
           fits == Exported!Fitting(p, queried)
           profile == Exported!Plan[t.family] = "profile"
           next == IF profile THEN None ELSE Exported!NextPosition(p, queried)
<1>1. /\ v1' = v1 /\ v2' = v2 /\ v3' = v3 /\ v4' = v4 /\ v6' = v6 /\ v7' = v7 /\ v8' = v8 /\ v9' = v9
      /\ v5.phase = "planned"
  BY DEF Exported!Read
<1>2. /\ fits = queried \/ fits \cap Exported!Live(p) # {}
      /\ v5' = [phase |-> "read", context |-> v5.context, token |-> t, from |-> p,
                items |-> fits \cap Exported!Live(p), next |-> next]
  BY DEF Exported!Read
<1>3. Exported!RowsInv /\ Exported!ClientInv /\ Exported!JobInv /\ v6.status # "done" /\ Exported!TokenInv(t)
  BY <1>1 DEF Exported!IInv, Exported!JobInv, Exported!Idle
<1>4. t \in Exported!Tokens /\ v5.context = t.context
  BY <1>3 DEF Exported!TokenInv, Exported!JobInv, Exported!PageInv
<1>5. t.family \in 1 .. 3 /\ t.position \in Nat /\ t.generation \in 1 .. MaxGeneration
  BY <1>4, ExportPlan DEF Exported!Tokens
<1>6. p = Family(t.family, t.generation) /\ p \in Exported!Partitions
  BY <1>5, ExportFamilies DEF Family
<1>7. profile => Exported!KeysOf(p) = {1}
  <2>1. profile => t.family = 1
    BY <1>5, ExportPlan
  <2>2. t.family = 1 => p = <<"profile", 0>>
    BY <1>5, <1>6, ExportFamilies
  <2> QED BY <1>6, <2>1, <2>2, ExportPlaces
<1>8. p = Exported!Partition(Exported!Plan[t.family], t.generation)
  OBVIOUS
<1> HIDE DEF t, p, profile
<1>9. /\ queried \subseteq {k \in Exported!KeysOf(p) : k > t.position}
      /\ IsFiniteSet(queried) /\ queried \subseteq Nat
      /\ \A k \in Exported!Live(p) : k > t.position =>
           \/ k \in queried
           \/ /\ Exported!Cardinality(queried) = PageRows
              /\ queried # {} /\ \A j \in queried : j < k
  BY <1>5, <1>6, ExportQueried
<1>10. /\ fits \subseteq queried
       /\ \A m \in fits, k \in queried : k <= m => k \in fits
  BY <1>9, ExportFitting
<1>11. IsFiniteSet(fits) /\ fits \subseteq Nat
  BY <1>9, <1>10, FS_Subset
<1>12. queried # {} => Exported!Max(queried) \in queried /\ \A y \in queried : y <= Exported!Max(queried)
  BY <1>9, ExportMax
<1>13. fits # {} => Exported!Max(fits) \in fits /\ \A y \in fits : y <= Exported!Max(fits)
  BY <1>11, ExportMax
<1>14. next = IF profile THEN None
              ELSE IF fits = queried
                   THEN IF Exported!Cardinality(queried) = PageRows THEN Exported!Max(queried) ELSE None
                   ELSE Exported!Max(fits)
  BY DEF Exported!NextPosition, Exported!Continuation
<1>15. Exported!Cardinality(queried) = PageRows => queried # {}
  BY ExportCount, ExportBounds, FS_EmptySet
<1>16. fits # queried => fits # {}
  BY <1>2
<1> HIDE DEF queried, fits, next
\* Where the page ends.
<1>17. next = None \/ (next \in fits /\ ~profile /\ \A y \in fits : y <= next)
  BY <1>12, <1>13, <1>14, <1>15, <1>16
<1>18. \A y \in fits : y \in Nat /\ y > t.position
  BY <1>9, <1>10, <1>11
<1>19. next \in Nat \cup {None} /\ (next # None => next >= t.position)
  BY <1>5, <1>17, <1>18
<1>20. ASSUME NEW k \in Exported!Live(p), k > t.position
       PROVE  k \in fits \/ (next # None /\ k > next)
  <2>1. k \in Exported!KeysOf(p) /\ k \in Nat /\ None \notin Nat
    BY <1>6, ExportPlaces, ExportBounds DEF Exported!Live
  <2>2. CASE profile
    <3>1. queried \subseteq {1} /\ k = 1
      BY <1>7, <1>9, <2>1, <2>2
    <3>2. k \in queried
      BY <1>9, <1>20, <3>1
    <3>3. fits = queried
      BY <1>10, <1>16, <3>1
    <3> QED BY <3>2, <3>3
  <2>3. CASE ~profile /\ fits = queried
    <3>1. CASE k \in queried
      BY <2>3, <3>1
    <3>2. CASE k \notin queried
      <4>1. Exported!Cardinality(queried) = PageRows /\ queried # {} /\ \A j \in queried : j < k
        BY <1>9, <1>20, <3>2
      <4>2. next = Exported!Max(queried) /\ Exported!Max(queried) \in queried
        BY <1>12, <1>14, <2>3, <4>1
      <4>3. next \in Nat /\ next < k
        BY <1>9, <4>1, <4>2
      <4> QED BY <2>1, <4>3
    <3> QED BY <3>1, <3>2
  <2>4. CASE ~profile /\ fits # queried
    <3>1. next = Exported!Max(fits) /\ next \in fits /\ next \in Nat
      BY <1>11, <1>13, <1>14, <1>16, <2>4
    <3>2. CASE k <= next
      <4>1. k \in queried
        <5>1. ASSUME \A j \in queried : j < k PROVE FALSE
          <6>1. next < k
            BY <1>10, <3>1, <5>1
          <6> QED BY <2>1, <3>1, <3>2, <6>1
        <5> QED BY <1>9, <1>20, <5>1
      <4> QED BY <1>10, <3>1, <3>2, <4>1
    <3>3. CASE ~(k <= next)
      BY <2>1, <3>1, <3>3
    <3> QED BY <3>2, <3>3
  <2> QED BY <2>2, <2>3, <2>4
<1> DEFINE j == v5'
<1>21. /\ j.token = t /\ j.from = p /\ j.items = fits \cap Exported!Live(p) /\ j.next = next
       /\ j \in [phase : {"read", "verified"}, context : {t.context}, token : Exported!Tokens,
                 from : Exported!Partitions, items : SUBSET Nat, next : Nat \cup {None}]
  BY <1>2, <1>4, <1>6, <1>11, <1>19 DEF t
<1>22. \A k \in j.items : k > j.token.position /\ (j.next # None => k <= j.next)
  BY <1>17, <1>18, <1>21
<1>23. ASSUME NEW x \in v8, x[1] = j.from, x[2] > j.token.position
       PROVE  x[2] \in j.items \/ (j.next # None /\ x[2] > j.next)
  <2>1. x[2] \in Exported!Live(p)
    BY <1>3, <1>21, <1>23 DEF Exported!RowsInv
  <2> QED BY <1>20, <1>21, <1>23, <2>1
<1>24. Exported!PageInv'
  <2>1. j.from = Exported!Partition(Exported!Plan[j.token.family], j.token.generation)
    BY <1>8, <1>21
  <2>2. j.next # None => j.next >= j.token.position
    BY <1>19, <1>21
  <2>3. j = v5'
    OBVIOUS
  <2> HIDE DEF j
  <2> QED BY <1>1, <1>21, <1>22, <1>23, <2>1, <2>2, <2>3 DEF Exported!PageInv, Exported!Tokens, Exported!Partitions
<1>25. Exported!TokenInv(v5.token)'
  <2>1. v5'.token = v5.token
    BY <1>21 DEF t
  <2> QED BY <1>1, <1>3, <2>1 DEF Exported!TokenInv, t
<1>26. Exported!RowsInv' /\ Exported!ClientInv'
  BY <1>1, <1>3 DEF Exported!RowsInv, Exported!TypeOK, Exported!Live, Exported!ClientInv, Exported!OneGeneration, Exported!TokenInv
<1> QED BY <1>1, <1>3, <1>24, <1>25, <1>26 DEF Exported!IInv, Exported!JobInv

\* The inventory is verified; an export may fail.
LEMMA ExportVerifies ==
  ASSUME Exported!IInv, Exported!Verify \/ Exported!Fail
  PROVE  Exported!IInv'
<1>1. /\ v1' = v1 /\ v2' = v2 /\ v3' = v3 /\ v4' = v4 /\ v6' = v6 /\ v7' = v7 /\ v8' = v8 /\ v9' = v9
  BY DEF Exported!Verify, Exported!Fail
<1>2. Exported!RowsInv' /\ Exported!ClientInv'
  BY <1>1 DEF Exported!IInv, Exported!RowsInv, Exported!TypeOK, Exported!Live, Exported!ClientInv, Exported!OneGeneration, Exported!TokenInv
<1>3. CASE Exported!Verify
  <2>1. v5.phase = "read" /\ v5' = [v5 EXCEPT !.phase = "verified"]
    BY <1>3 DEF Exported!Verify
  <2>2. Exported!JobInv /\ Exported!PageInv /\ v6.status # "done" /\ Exported!TokenInv(v5.token)
    BY <2>1 DEF Exported!IInv, Exported!JobInv, Exported!Idle
  <2>3. /\ v5' \in [phase : {"read", "verified"}, context : {v5'.token.context}, token : Exported!Tokens,
                    from : Exported!Partitions, items : SUBSET Nat, next : Nat \cup {None}]
        /\ v5'.token = v5.token /\ v5'.from = v5.from /\ v5'.items = v5.items /\ v5'.next = v5.next
    BY <2>1, <2>2 DEF Exported!PageInv
  <2>4. Exported!PageInv'
    BY <1>1, <2>2, <2>3 DEF Exported!PageInv, Exported!Tokens, Exported!Partitions
  <2>5. Exported!TokenInv(v5.token)'
    BY <1>1, <2>2, <2>3 DEF Exported!TokenInv
  <2> QED BY <1>1, <1>2, <2>2, <2>4, <2>5 DEF Exported!IInv, Exported!JobInv
<1>4. CASE Exported!Fail
  BY <1>2, <1>4 DEF Exported!Fail, Exported!IInv, Exported!Idle
<1> QED BY <1>3, <1>4

\* A page is released: all that stayed up to the next position was shown once.
LEMMA ExportTells ==
  ASSUME Exported!IInv, Exported!Tell
  PROVE  Exported!IInv' /\ Exported!ReleasedToOwner
<1>1. /\ v1' = v1 /\ v2' = v2 /\ v3' = v3 /\ v4' = v4 /\ v5' = Exported!Idle /\ v8' = v8 /\ v9' = v9
      /\ v5.phase = "verified" /\ v2.state = "ACTIVE" /\ Exported!Context = v5.context /\ v1 < v5.token.expires
  BY DEF Exported!Tell, Exported!Authorized
<1>2. /\ v6' = IF Exported!Complete THEN [status |-> "done", cursor |-> None]
               ELSE [status |-> "going", cursor |-> Exported!Following]
      /\ v7' = [x \in Exported!Places |-> IF x[1] = v5.from /\ x[2] \in v5.items THEN v7[x] + 1 ELSE v7[x]]
  BY DEF Exported!Tell
<1> DEFINE t == v5.token
           f == t.family
           g == t.generation
<1>3. Exported!RowsInv /\ Exported!ClientInv /\ Exported!PageInv /\ v6.status # "done" /\ Exported!TokenInv(t)
  BY <1>1 DEF Exported!IInv, Exported!JobInv, Exported!Idle
<1>4. /\ t \in Exported!Tokens /\ v5.context = t.context /\ v5.from = Family(f, g)
      /\ v5.next \in Nat \cup {None} /\ v5.from \in Exported!Partitions
  BY <1>3 DEF Exported!PageInv, Family
<1>5. f \in 1 .. 3 /\ t.position \in Nat /\ g \in 1 .. MaxGeneration /\ t.page \in Nat
  BY <1>4, ExportPlan DEF Exported!Tokens
<1>6. Exported!ReleasedToOwner
  BY <1>1, <1>4 DEF Exported!ReleasedToOwner, Exported!Context
<1>7. /\ \A k \in v5.items : k > t.position /\ (v5.next # None => k <= v5.next)
      /\ \A x \in v8 : x[1] = v5.from /\ x[2] > t.position => x[2] \in v5.items \/ (v5.next # None /\ x[2] > v5.next)
      /\ v5.next # None => v5.next >= t.position
  BY <1>3 DEF Exported!PageInv
<1>8. /\ \A x \in Exported!Places : v7[x] > 0 => Exported!Passed(t, x)
      /\ \A x \in v8 : /\ \E i \in 1 .. 3 : x[1] = Family(i, g)
                       /\ Exported!Passed(t, x) => v7[x] = 1
  BY <1>3, ExportPlan DEF Exported!TokenInv, Family
<1>9. v7 \in [Exported!Places -> {0, 1}] /\ v8 \subseteq Exported!Places
  BY <1>3 DEF Exported!ClientInv, Exported!RowsInv, Exported!TypeOK
<1> DEFINE u == Exported!Following
<1>10. u = [t EXCEPT !.page = t.page + 1, !.family = IF v5.next = None THEN f + 1 ELSE f,
                     !.position = IF v5.next = None THEN 0 ELSE v5.next]
  BY DEF Exported!Following
<1>11. Exported!Complete <=> v5.next = None /\ f = 3
  BY ExportPlan DEF Exported!Complete
<1>12. \A x : Exported!Passed(t, x) <=> \/ \E i \in 1 .. 3 : i < f /\ x[1] = Family(i, g)
                                        \/ x[1] = Family(f, g) /\ x[2] <= t.position
  BY ExportPlan DEF Exported!Passed, Family
<1> HIDE DEF t, f, g, u
\* What the page shows had not been shown.
<1>13. ASSUME NEW x \in Exported!Places, x[1] = v5.from, x[2] \in v5.items PROVE v7[x] = 0
  <2>1. ~Exported!Passed(t, x)
    <3>1. x[2] \in Nat /\ x[2] > t.position
      BY <1>7, <1>13, ExportPlaces
    <3>2. \A i \in 1 .. 3 : i < f => Family(i, g) # Family(f, g)
      <4>1. \A i \in 1 .. 3 : i < f => i # f
        BY <1>5
      <4> QED BY <1>5, <4>1, ExportFamilies
    <3> QED BY <1>4, <1>5, <1>12, <1>13, <3>1, <3>2
  <2> QED BY <1>8, <1>9, <2>1
<1>14. \A x \in Exported!Places : v7'[x] = IF x[1] = v5.from /\ x[2] \in v5.items THEN 1 ELSE v7[x]
  BY <1>2, <1>13
<1>15. v7' \in [Exported!Places -> {0, 1}]
  BY <1>2, <1>9, <1>14
<1>16. ASSUME NEW x \in Exported!Places, v7'[x] > 0
       PROVE  Exported!Passed(t, x) \/ (x[1] = v5.from /\ x[2] \in v5.items)
  BY <1>8, <1>14, <1>16
<1>17. ASSUME NEW x \in v8, Exported!Passed(t, x) PROVE v7'[x] = 1
  BY <1>8, <1>9, <1>14, <1>17
<1>18. ASSUME NEW x \in v8, x[1] = v5.from, v5.next = None \/ x[2] <= v5.next PROVE v7'[x] = 1
  <2>1. x[2] \in Nat /\ x \in Exported!Places
    BY <1>9, ExportPlaces
  <2>2. CASE x[2] <= t.position
    BY <1>4, <1>12, <1>17, <1>18, <2>2
  <2>3. CASE ~(x[2] <= t.position)
    <3>1. x[2] > t.position
      BY <1>5, <2>1, <2>3
    <3>2. ~(v5.next # None /\ x[2] > v5.next)
      BY <1>4, <1>18, <2>1
    <3> QED BY <1>7, <1>14, <1>18, <2>1, <3>1, <3>2
  <2> QED BY <2>2, <2>3
\* One generation.
<1>19. ASSUME NEW x \in Exported!Places, v7'[x] > 0 PROVE \E i \in 1 .. 3 : x[1] = Family(i, g)
  BY <1>4, <1>5, <1>12, <1>16, <1>19
<1>20. Exported!OneGeneration'
  <2>1. ASSUME NEW i \in 1 .. 3, Family(i, g)[1] = "history" PROVE Family(i, g) = <<"history", g>>
    <3>1. i = 1 \/ i = 2 \/ i = 3
      OBVIOUS
    <3> QED BY <1>5, <2>1, <3>1, ExportFamilies
  <2>2. \A x \in Exported!Places : x[1][1] = "history" /\ v7'[x] > 0 => x[1] = <<"history", g>>
    BY <1>19, <2>1
  <2> QED BY <2>2 DEF Exported!OneGeneration
<1>21. Exported!RowsInv'
  <2>1. v6'.status \in {"going", "done"}
    BY <1>2
  <2> QED BY <1>1, <1>3, <2>1 DEF Exported!RowsInv, Exported!TypeOK, Exported!Live
<1>22. CASE Exported!Complete
  <2>1. v6'.status = "done"
    BY <1>2, <1>22
  <2>2. ASSUME NEW x \in v8 PROVE v7'[x] = 1
    <3>1. PICK i \in 1 .. 3 : x[1] = Family(i, g)
      BY <1>8
    <3>2. CASE i < f
      BY <1>12, <1>17, <3>1, <3>2
    <3>3. CASE i = f
      BY <1>4, <1>11, <1>18, <1>22, <3>1, <3>3
    <3>4. i < f \/ i = f
      BY <1>11, <1>22
    <3> QED BY <3>2, <3>3, <3>4
  <2>3. Exported!ClientInv'
    BY <1>1, <1>15, <1>20, <2>1, <2>2 DEF Exported!ClientInv
  <2> QED BY <1>1, <1>6, <1>21, <2>3 DEF Exported!IInv, Exported!Idle
<1>23. CASE ~Exported!Complete
  <2>1. v6'.status = "going" /\ v6'.cursor = u
    BY <1>2, <1>23 DEF u
  <2> DEFINE uf == IF v5.next = None THEN f + 1 ELSE f
             up == IF v5.next = None THEN 0 ELSE v5.next
  <2>2. uf \in 1 .. 3 /\ up \in Nat
    BY <1>4, <1>5, <1>11, <1>23
  <2>3. u \in Exported!Tokens /\ u.family = uf /\ u.position = up /\ u.generation = g
    <3> HIDE DEF uf, up
    <3>1. u = [t EXCEPT !.page = t.page + 1, !.family = uf, !.position = up]
      BY <1>10 DEF uf, up
    <3>2. t.page + 1 \in Nat
      BY <1>5
    <3> QED BY <1>4, <2>2, <3>1, <3>2, ExportPlan DEF Exported!Tokens, g
  <2>4. \A x : Exported!Passed(u, x) <=> \/ \E i \in 1 .. 3 : i < uf /\ x[1] = Family(i, g)
                                         \/ x[1] = Family(uf, g) /\ x[2] <= up
    <3> HIDE DEF uf, up
    <3> QED BY <2>3, ExportPlan DEF Exported!Passed, Family
  <2>5. ASSUME NEW x \in Exported!Places, v7'[x] > 0 PROVE Exported!Passed(u, x)
    <3>1. CASE \E i \in 1 .. 3 : i < f /\ x[1] = Family(i, g)
      <4>1. PICK i \in 1 .. 3 : i < f /\ x[1] = Family(i, g)
        BY <3>1
      <4>2. i < uf
        BY <1>5, <4>1
      <4> QED BY <2>4, <4>1, <4>2
    <3>2. CASE x[1] = Family(f, g) /\ x[2] <= t.position
      <4>1. CASE v5.next = None
        <5>1. f < uf
          BY <1>5, <4>1
        <5> QED BY <1>5, <2>4, <3>2, <5>1
      <4>2. CASE v5.next # None
        <5>1. x[2] <= up
          <6>1. x[2] \in Nat
            BY ExportPlaces
          <6> QED BY <1>4, <1>5, <1>7, <3>2, <4>2, <6>1
        <5>2. uf = f
          BY <4>2
        <5> QED BY <2>4, <3>2, <5>1, <5>2
      <4> QED BY <4>1, <4>2
    <3>3. CASE x[1] = v5.from /\ x[2] \in v5.items
      <4>1. CASE v5.next = None
        <5>1. f < uf
          BY <1>5, <4>1
        <5> QED BY <1>4, <1>5, <2>4, <3>3, <5>1
      <4>2. CASE v5.next # None
        <5>1. x[2] <= up /\ uf = f
          BY <1>7, <3>3, <4>2
        <5> QED BY <1>4, <2>4, <3>3, <5>1
      <4> QED BY <4>1, <4>2
    <3> QED BY <1>12, <1>16, <2>5, <3>1, <3>2, <3>3
  <2>6. ASSUME NEW x \in v8, Exported!Passed(u, x) PROVE v7'[x] = 1
    <3>1. x \in Exported!Places /\ x[2] \in Nat \ {0}
      BY <1>9, ExportPlaces
    <3>2. CASE v5.next = None
      <4>1. PICK i \in 1 .. 3 : i < f + 1 /\ x[1] = Family(i, g)
        <5>1. ~(x[2] <= up)
          BY <3>1, <3>2
        <5>2. uf = f + 1
          BY <3>2
        <5> QED BY <2>4, <2>6, <5>1, <5>2
      <4>2. i < f \/ i = f
        BY <1>5, <4>1
      <4>3. CASE i < f
        BY <1>12, <1>17, <4>1, <4>3
      <4>4. CASE i = f
        BY <1>4, <1>18, <3>2, <4>1, <4>4
      <4> QED BY <4>2, <4>3, <4>4
    <3>3. CASE v5.next # None
      <4>1. uf = f /\ up = v5.next
        BY <3>3
      <4>2. CASE \E i \in 1 .. 3 : i < f /\ x[1] = Family(i, g)
        BY <1>12, <1>17, <4>2
      <4>3. CASE x[1] = Family(f, g) /\ x[2] <= v5.next
        BY <1>4, <1>18, <4>3
      <4> QED BY <2>4, <2>6, <4>1, <4>2, <4>3
    <3> QED BY <3>2, <3>3
  <2> HIDE DEF uf, up
  <2>7. Exported!TokenInv(v6.cursor)'
    <3>1. \A x \in v8' : \E i \in DOMAIN Exported!Plan : x[1] = Exported!Partition(Exported!Plan[i], u.generation)
      BY <1>1, <1>8, <2>3, ExportPlan DEF Family
    <3> QED BY <1>1, <2>1, <2>3, <2>5, <2>6, <3>1 DEF Exported!TokenInv
  <2>8. Exported!ClientInv'
    BY <1>1, <1>15, <1>20, <2>1, <2>7 DEF Exported!ClientInv
  <2> QED BY <1>1, <1>6, <1>21, <2>8 DEF Exported!IInv, Exported!Idle
<1> QED BY <1>22, <1>23

\* Before an export begins.
LEMMA ExportInits == Exported!Init => Exported!IInv
<1> SUFFICES ASSUME Exported!Init PROVE Exported!IInv
  OBVIOUS
<1>1. /\ v1 = 0 /\ v3 = 1 /\ v9 = 0 /\ v2 = [state |-> "ACTIVE", device |-> "d1", version |-> 1]
      /\ v5 = Exported!Idle /\ v6 = [status |-> "none", cursor |-> None]
      /\ v7 = [x \in Exported!Places |-> 0] /\ v8 = {}
  BY DEF Exported!Init
<1>2. PICK first \in [RowKeys -> {None} \cup {Exported!Row(s) : s \in Sizes}] :
        v4 = [p \in Exported!Partitions |-> CASE p[1] = "receipts" -> first
                                              [] p[1] = "profile" -> [k \in {1} |-> Exported!Row(1)]
                                              [] OTHER -> [k \in {1} |-> IF p[2] = 1 THEN Exported!Row(1) ELSE None]]
  BY DEF Exported!Init
<1>3. \A s \in Sizes : Exported!Row(s) \in [size : Sizes, live : BOOLEAN]
  BY DEF Exported!Row
<1>4. ASSUME NEW p \in Exported!Partitions
      PROVE  v4[p] \in [Exported!KeysOf(p) -> {None} \cup [size : Sizes, live : BOOLEAN]]
  <2>1. CASE p[1] = "receipts"
    <3>1. v4[p] = first /\ Exported!KeysOf(p) = RowKeys
      BY <1>2, <2>1 DEF Exported!KeysOf
    <3>2. first \in [RowKeys -> {None} \cup [size : Sizes, live : BOOLEAN]]
      BY <1>3
    <3> QED BY <3>1, <3>2
  <2>2. CASE p[1] = "profile"
    <3>1. v4[p] = [k \in {1} |-> Exported!Row(1)] /\ Exported!KeysOf(p) = {1}
      BY <1>2, <2>2 DEF Exported!KeysOf
    <3>2. Exported!Row(1) \in [size : Sizes, live : BOOLEAN]
      BY <1>3, ExportBounds
    <3> QED BY <3>1, <3>2
  <2>3. CASE p[1] # "receipts" /\ p[1] # "profile"
    <3>1. v4[p] = [k \in {1} |-> IF p[2] = 1 THEN Exported!Row(1) ELSE None] /\ Exported!KeysOf(p) = {1}
      BY <1>2, <2>3 DEF Exported!KeysOf
    <3>2. Exported!Row(1) \in [size : Sizes, live : BOOLEAN]
      BY <1>3, ExportBounds
    <3> QED BY <3>1, <3>2
  <2> QED BY <2>1, <2>2, <2>3
<1>5. Exported!TypeOK
  <2>1. \A p \in Exported!Partitions : \A k \in Exported!KeysOf(p) :
          v4[p][k] # None => v4[p][k] \in [size : Sizes, live : BOOLEAN]
    BY <1>4
  <2> QED BY <1>1, <2>1, ExportBounds DEF Exported!TypeOK
<1>6. DOMAIN v4 = Exported!Partitions
  BY <1>2
<1>7. Exported!RowsInv
  BY <1>1, <1>4, <1>5, <1>6 DEF Exported!RowsInv
<1>8. Exported!ClientInv
  BY <1>1 DEF Exported!ClientInv, Exported!OneGeneration
<1> QED BY <1>1, <1>7, <1>8 DEF Exported!IInv

\* Every step keeps the invariant, and a page is released to whom the export belongs.
LEMMA ExportStep ==
  ASSUME Exported!IInv, Exported!Next
  PROVE  Exported!IInv' /\ Exported!ReleasedToOwner
<1>1. CASE Exported!Begin
  BY <1>1, ExportBegins DEF Exported!ReleasedToOwner, Exported!Begin
<1>2. CASE Exported!Read
  BY <1>2, ExportReads DEF Exported!ReleasedToOwner, Exported!Read
<1>3. CASE Exported!Verify \/ Exported!Fail
  BY <1>3, ExportVerifies DEF Exported!ReleasedToOwner, Exported!Verify, Exported!Fail
<1>4. CASE Exported!Tell
  BY <1>4, ExportTells
<1>5. CASE \/ Exported!Add \/ Exported!Expire \/ Exported!Remove \/ Exported!Clear \/ Exported!Delete \/ Exported!Tick
           \/ \E d \in {"d1", "d2"} : Exported!Rebind(d)
  <2>1. ExportApart
    BY <1>5, ExportRows, ExportClock DEF Exported!IInv
  <2> QED BY <2>1, ExportAround DEF ExportApart, Exported!ReleasedToOwner
<1> QED BY <1>1, <1>2, <1>3, <1>4, <1>5 DEF Exported!Next

\* When nothing changes, neither does the invariant.
LEMMA ExportUnmoved ==
  ASSUME Exported!IInv, UNCHANGED <<v1, v2, v3, v4, v5, v6, v7, v8, v9>>
  PROVE  Exported!IInv'
<1>1. Exported!RowsInv'
  BY DEF Exported!IInv, Exported!RowsInv, Exported!TypeOK, Exported!Live
<1> QED BY <1>1, ExportAround DEF ExportApart

\* What the invariant says of an export.
LEMMA ExportWhole == Exported!IInv => Exported!TypeOK /\ Exported!NothingLeftOut /\ Exported!OneGeneration
<1> SUFFICES ASSUME Exported!IInv PROVE Exported!TypeOK /\ Exported!NothingLeftOut /\ Exported!OneGeneration
  OBVIOUS
<1>1. \A x \in Exported!Places : v7[x] \in {0, 1}
  BY DEF Exported!IInv, Exported!ClientInv
<1>2. \A x \in Exported!Places : v7[x] <= 1
  BY <1>1
<1> QED BY <1>2 DEF Exported!IInv, Exported!RowsInv, Exported!ClientInv, Exported!NothingLeftOut

-----------------------------------------------------------------------------
(***************************************************************************)
(* HistoryRead                                                             *)
(*                                                                         *)
(* The list descends, and so do the items of a page.  The queries of a     *)
(* page leave nothing between where the client stands (Bound) and where    *)
(* they have come to, and what a page does not take is older than all it   *)
(* takes.  Only what stayed in the first generation is owed: a client is   *)
(* not promised the rows of a generation that was cleared.                 *)
(***************************************************************************)

\* The module's counts are those of finite sets, and what a sequence holds.
LEMMA ReadCount ==
  /\ \A S : Listed!Cardinality(S) = Cardinality(S) /\ (Listed!IsFiniteSet(S) <=> IsFiniteSet(S))
  /\ \A s : Listed!Range(s) = Elements(s) /\ (Listed!Descends(s) <=> Falling(s))
BY DEF Elements, Falling, Listed!Descends, Listed!Cardinality, Listed!IsFiniteSet, Cardinality, IsFiniteSet, Listed!Range

\* The settings.
LEMMA ReadBounds ==
  /\ RowKeys \subseteq Nat /\ RowKeys # {} /\ IsFiniteSet(RowKeys) /\ Sizes \subseteq Nat
  /\ PageRows \in Nat \ {0} /\ MaxGeneration \in Nat \ {0}
  /\ PageBytes \in Nat /\ Window \in Nat /\ MaxChanges \in Nat /\ PageTime \in Nat
  /\ None \notin Nat /\ None \notin [size : Sizes, live : BOOLEAN]
  /\ None \notin [generation : Nat, last : Nat, expires : Nat]
<1>1. /\ RowKeys \subseteq Nat /\ RowKeys # {} /\ IsFiniteSet(RowKeys) /\ Sizes \subseteq Nat
      /\ {PageRows, MaxGeneration} \subseteq Nat \ {0}
      /\ {PageBytes, Window, MaxChanges, PageTime} \subseteq Nat
      /\ None \notin Nat /\ None \notin [size : Sizes, live : BOOLEAN]
      /\ None \notin [generation : Nat, last : Nat, expires : Nat]
  BY ListAssumed, ReadCount DEF Listed!ReadAssumption
<1> QED BY <1>1

\* The newest key of all.
LEMMA ReadMax == Listed!Max(RowKeys) \in Nat /\ \A k \in RowKeys : k < Listed!Max(RowKeys) + 1
<1>1. \E x \in RowKeys : \A y \in RowKeys : x >= y
  <2>1. PICK x \in RowKeys : \A y \in RowKeys : y <= x
    <3>1. RowKeys \subseteq Int /\ IsFiniteSet(RowKeys) /\ RowKeys # {}
      BY ReadBounds
    <3> QED BY <3>1, Greatest
  <2>2. \A y \in RowKeys : x >= y
    BY <2>1, ReadBounds
  <2> QED BY <2>2
<1> DEFINE m == CHOOSE x \in RowKeys : \A y \in RowKeys : x >= y
<1>2. m \in RowKeys /\ \A y \in RowKeys : m >= y
  BY <1>1
<1> HIDE DEF m
<1>3. Listed!Max(RowKeys) = m
  BY DEF Listed!Max, m
<1>4. \A k \in RowKeys : k < m + 1
  BY <1>2, ReadBounds
<1> QED BY <1>2, <1>3, <1>4, ReadBounds

\* The oldest row of a query.
LEMMA ReadMin ==
  ASSUME NEW S \in SUBSET RowKeys, S # {}
  PROVE  Listed!Min(S) \in S /\ \A y \in S : Listed!Min(S) <= y
<1>1. IsFiniteSet(S) /\ S \subseteq Int
  <2>1. RowKeys \subseteq Nat /\ IsFiniteSet(RowKeys)
    BY ReadBounds
  <2>2. S \subseteq RowKeys
    OBVIOUS
  <2>3. IsFiniteSet(S)
    BY <2>1, <2>2, FS_Subset
  <2> QED BY <2>1, <2>2, <2>3
<1>2. \E x \in S : \A y \in S : x <= y
  BY <1>1, Lowest
<1> DEFINE m == CHOOSE x \in S : \A y \in S : x <= y
<1>3. m \in S /\ \A y \in S : m <= y
  BY <1>2
<1> HIDE DEF m
<1>4. Listed!Min(S) = m
  BY DEF Listed!Min, m
<1> QED BY <1>3, <1>4

\* A query skips nothing up to its end.
LEMMA ReadQueried ==
  ASSUME Listed!ListInv, Listed!QueryInv
  PROVE  /\ Listed!Queried \subseteq {k \in RowKeys : k < v6.before}
         /\ Listed!Stopped => Listed!Queried # {}
         /\ \A k \in Listed!Live(v6.generation) : k < v6.before =>
              \/ k \in Listed!Queried
              \/ Listed!Stopped /\ \A j \in Listed!Queried : k < j
<1> DEFINE S == {k \in RowKeys : v4[v6.generation][k] # None /\ k < v6.before}
           C == Listed!Queried
           n == PageRows - Len(v6.items) + 1
<1>1. C = {k \in S : Cardinality(From(S, k)) <= n} /\ (Listed!Stopped <=> Cardinality(C) = n)
  BY ReadCount DEF Listed!Queried, Listed!Stopped, From
<1>2. n \in Nat /\ n # 0
  <2>1. Len(v6.items) \in Nat /\ Len(v6.items) < PageRows
    BY DEF Listed!ListInv, Listed!QueryInv
  <2> QED BY <2>1, ReadBounds
<1>3. S \subseteq RowKeys /\ (\A k \in S : k < v6.before)
      /\ \A k \in Listed!Live(v6.generation) : k < v6.before => k \in S
  BY DEF Listed!Live
<1> HIDE DEF S, C, n
<1>4. RowKeys \subseteq Nat /\ IsFiniteSet(RowKeys)
  BY ReadBounds
<1>5. IsFiniteSet(S) /\ S \subseteq Int /\ S \subseteq Nat
  <2>1. IsFiniteSet(S)
    BY <1>3, <1>4, FS_Subset
  <2>2. S \subseteq Nat
    BY <1>3, <1>4
  <2> QED BY <2>1, <2>2
<1>6. C \subseteq S /\ \A k \in S : k \in C <=> Cardinality(From(S, k)) <= n
  BY <1>1
<1>7. /\ IsFiniteSet(C) /\ Cardinality(C) \in 0 .. n
      /\ C # S => Cardinality(C) = n
      /\ \A k \in C, j \in S : j >= k => j \in C
  BY <1>2, <1>5, <1>6, NewestOf
<1>8. Listed!Stopped => C # {}
  BY <1>1, <1>2, FS_EmptySet
<1>9. ASSUME NEW k \in S, k \notin C PROVE Listed!Stopped /\ \A j \in C : k < j
  <2>1. Listed!Stopped
    BY <1>1, <1>7, <1>9
  <2>2. ASSUME NEW j \in C PROVE k < j
    <3>1. j \in Nat /\ k \in Nat
      BY <1>5, <1>6
    <3>2. ~(k >= j)
      BY <1>7, <1>9
    <3> QED BY <3>1, <3>2
  <2> QED BY <2>1, <2>2
<1> QED BY <1>3, <1>6, <1>8, <1>9 DEF C

\* What a page takes of it is the newest of it, and fits the page.
LEMMA ReadTaken ==
  ASSUME Listed!ListInv, Listed!QueryInv
  PROVE  /\ Listed!Candidates = Listed!Queried \cap Listed!Live(v6.generation)
         /\ Listed!Taken \subseteq Listed!Candidates /\ Listed!Taken \subseteq RowKeys
         /\ IsFiniteSet(Listed!Taken) /\ Cardinality(Listed!Taken) \in Nat
         /\ Len(v6.items) + Cardinality(Listed!Taken) <= PageRows
         /\ \A m \in Listed!Taken, k \in Listed!Candidates : k >= m => k \in Listed!Taken
<1> DEFINE C == Listed!Candidates
           T == Listed!Taken
<1>1. C = Listed!Queried \cap Listed!Live(v6.generation) /\ C \subseteq RowKeys
  BY DEF Listed!Candidates, Listed!Queried
<1>2. \A k : k \in T <=> /\ k \in C
                         /\ \A l \in Listed!Newer(k) : v6.bytes + Listed!Weight(Listed!Newer(l)) <= PageBytes
                         /\ Len(v6.items) + Cardinality(Listed!Newer(k)) <= PageRows
  BY ReadCount DEF Listed!Taken
<1>3. \A k : Listed!Newer(k) = {j \in C : j >= k}
  BY DEF Listed!Newer
<1> HIDE DEF C, T
<1>4. RowKeys \subseteq Nat /\ IsFiniteSet(RowKeys)
  BY ReadBounds
<1>5. C \subseteq Nat /\ IsFiniteSet(C) /\ T \subseteq C
  BY <1>1, <1>2, <1>4, FS_Subset
<1>6. \A k : Listed!Newer(k) \subseteq C /\ IsFiniteSet(Listed!Newer(k)) /\ Cardinality(Listed!Newer(k)) \in Nat
  <2>1. \A k : Listed!Newer(k) \subseteq C
    BY <1>3
  <2> QED BY <1>5, <2>1, FS_Subset, FS_CardinalityType
<1>7. Len(v6.items) \in Nat /\ Len(v6.items) < PageRows /\ PageRows \in Nat
  BY ReadBounds DEF Listed!ListInv, Listed!QueryInv
<1>8. ASSUME NEW m \in T, NEW k \in C, k >= m PROVE k \in T
  <2>1. Listed!Newer(k) \subseteq Listed!Newer(m)
    <3>1. ASSUME NEW j \in C, j >= k PROVE j >= m
      <4>1. j \in Nat /\ k \in Nat /\ m \in Nat
        BY <1>5
      <4> QED BY <4>1, <3>1, <1>8
    <3> QED BY <3>1, <1>3
  <2>2. Cardinality(Listed!Newer(k)) <= Cardinality(Listed!Newer(m))
    BY <2>1, <1>6, FS_Subset
  <2>3. \A l \in Listed!Newer(k) : v6.bytes + Listed!Weight(Listed!Newer(l)) <= PageBytes
    BY <2>1, <1>2
  <2>4. Len(v6.items) + Cardinality(Listed!Newer(m)) <= PageRows
    BY <1>2
  <2>5. Len(v6.items) + Cardinality(Listed!Newer(k)) <= PageRows
    BY <2>2, <2>4, <1>6, <1>7
  <2> QED BY <2>3, <2>5, <1>2
<1>9. IsFiniteSet(T) /\ Cardinality(T) \in Nat /\ T \subseteq Int
  <2>1. IsFiniteSet(T)
    BY <1>5, FS_Subset
  <2>2. T \subseteq Int
    BY <1>5
  <2> QED BY <2>1, <2>2, FS_CardinalityType
<1>10. Len(v6.items) + Cardinality(T) <= PageRows
  <2>1. CASE T = {}
    <3>1. Cardinality(T) = 0
      BY <2>1, FS_EmptySet
    <3> QED BY <3>1, <1>7
  <2>2. CASE T # {}
    <3>1. PICK m \in T : \A y \in T : m <= y
      BY <2>2, <1>9, Lowest
    <3>2. \A y \in T : y \in Nat /\ m \in Nat
      BY <1>5
    <3>3. T \subseteq Listed!Newer(m)
      BY <3>1, <3>2, <1>3, <1>5
    <3>4. Cardinality(T) <= Cardinality(Listed!Newer(m))
      BY <3>3, <1>6, FS_Subset
    <3>5. Len(v6.items) + Cardinality(Listed!Newer(m)) <= PageRows
      BY <1>2
    <3> QED BY <3>4, <3>5, <1>6, <1>7, <1>9
  <2> QED BY <2>1, <2>2
<1> QED BY <1>1, <1>5, <1>8, <1>9, <1>10 DEF C, T

\* What time, the account and changes of rows leave of the list.
ReadApart ==
  /\ v5' = v5 /\ v6' = v6 /\ v7' = v7 /\ v8' \subseteq v8 /\ v3 <= v3'
  /\ v8 \subseteq Listed!Live(1) => v8' \subseteq Listed!Live(1)'
  /\ Listed!RowsInv'

\* The invariant needs no more of what goes on around.
LEMMA ReadAround ==
  ASSUME Listed!IInv, ReadApart
  PROVE  Listed!IInv'
<1>1. /\ v5' = v5 /\ v6' = v6 /\ v7' = v7 /\ v8' \subseteq v8 /\ Listed!RowsInv'
      /\ v8 \subseteq Listed!Live(1) => v8' \subseteq Listed!Live(1)'
  BY DEF ReadApart
<1>2. Listed!Bound' = Listed!Bound
  BY <1>1 DEF Listed!Bound
<1>3. \A i \in Nat : i \in 1 .. v3 => i \in 1 .. v3'
  <2>1. v3 \in Nat /\ v3' \in Nat /\ v3 <= v3'
    BY ReadBounds DEF ReadApart, Listed!IInv, Listed!RowsInv, Listed!TypeOK
  <2> QED BY <2>1
<1>4. Listed!ClientInv'
  BY <1>1 DEF Listed!IInv, Listed!ClientInv, Listed!Descends
<1>5. ASSUME Listed!ListInv PROVE Listed!ListInv'
  <2>1. Listed!QueryInv => Listed!QueryInv'
    BY <1>1, <1>2 DEF Listed!QueryInv
  <2>2. Listed!ListedInv => Listed!ListedInv'
    BY <1>1, <1>2 DEF Listed!ListedInv
  <2>3. v6.generation \in 1 .. v3'
    <3>1. v6.generation \in 1 .. v3 /\ v3 \in Nat
      BY <1>5, ReadBounds DEF Listed!ListInv, Listed!IInv, Listed!RowsInv, Listed!TypeOK
    <3> QED BY <3>1, <1>3
  <2> QED BY <1>1, <1>2, <1>5, <2>1, <2>2, <2>3 DEF Listed!ListInv, Listed!Descends
<1>6. Listed!JobInv'
  <2>1. v3 \in Nat
    BY ReadBounds DEF Listed!IInv, Listed!RowsInv, Listed!TypeOK
  <2>2. v6.since \in 1 .. v3 => v6.since \in 1 .. v3'
    BY <2>1, <1>3
  <2>3. v6.generation \in 1 .. v3 => v6.generation \in 1 .. v3'
    BY <2>1, <1>3
  <2> QED BY <1>1, <1>5, <2>2, <2>3 DEF Listed!IInv, Listed!JobInv, Listed!Idle
<1> QED BY <1>1, <1>4, <1>6 DEF Listed!IInv

\* A row changes.
LEMMA ReadChanges ==
  ASSUME Listed!RowsInv, NEW g \in 1 .. MaxGeneration, NEW k \in RowKeys,
         NEW row \in {None} \cup [size : Sizes, live : BOOLEAN], Listed!Change(g, k, row)
  PROVE  ReadApart
<1>1. /\ v9 < MaxChanges /\ v9' = v9 + 1 /\ v4' = [v4 EXCEPT ![g][k] = row]
      /\ v8' = (IF g = 1 THEN v8 \ {k} ELSE v8)
      /\ v1' = v1 /\ v2' = v2 /\ v3' = v3 /\ v5' = v5 /\ v6' = v6 /\ v7' = v7
  BY DEF Listed!Change
<1>2. v4 \in [1 .. MaxGeneration -> [RowKeys -> {None} \cup [size : Sizes, live : BOOLEAN]]]
  BY DEF Listed!RowsInv
<1>3. v4' \in [1 .. MaxGeneration -> [RowKeys -> {None} \cup [size : Sizes, live : BOOLEAN]]]
  BY <1>1, <1>2
<1>4. 1 \in 1 .. MaxGeneration
  BY ReadBounds
<1>5. \A l \in RowKeys : g # 1 \/ l # k => v4'[1][l] = v4[1][l]
  BY <1>1, <1>2, <1>4
<1>6. ASSUME v8 \subseteq Listed!Live(1), NEW l \in v8' PROVE l \in Listed!Live(1)'
  <2>1. l \in v8 /\ (g # 1 \/ l # k)
    BY <1>1, <1>6
  <2>2. l \in RowKeys /\ v4[1][l] # None /\ v4[1][l].live
    BY <1>6, <2>1 DEF Listed!Live
  <2>3. v4'[1][l] = v4[1][l]
    BY <1>5, <2>1, <2>2
  <2> QED BY <2>2, <2>3 DEF Listed!Live
<1>7. v9' \in 0 .. MaxChanges
  BY <1>1, ReadBounds DEF Listed!RowsInv, Listed!TypeOK
<1>8. \A h \in 1 .. MaxGeneration : \A l \in RowKeys :
        v4'[h][l] # None => v4'[h][l] \in [size : Sizes, live : BOOLEAN]
  BY <1>3
<1>9. Listed!TypeOK'
  BY <1>1, <1>7, <1>8 DEF Listed!RowsInv, Listed!TypeOK
<1>10. v3 <= v3'
  <2>1. v3 \in Nat
    BY ReadBounds DEF Listed!RowsInv, Listed!TypeOK
  <2> QED BY <1>1, <2>1
<1>11. v8' \subseteq v8
  BY <1>1
<1> QED BY <1>1, <1>3, <1>6, <1>9, <1>10, <1>11 DEF ReadApart, Listed!RowsInv

\* A completion, a row past its retention, and a row removed.
LEMMA ReadRows ==
  ASSUME Listed!RowsInv, NEW k \in RowKeys, Listed!Add(k) \/ Listed!Expire(k) \/ Listed!Remove(k)
  PROVE  ReadApart
<1>1. v3 \in 1 .. MaxGeneration /\ 1 .. v3 \subseteq 1 .. MaxGeneration
  <2>1. v3 \in 1 .. MaxGeneration
    BY DEF Listed!RowsInv, Listed!TypeOK
  <2> QED BY <2>1, ReadBounds
<1>2. CASE Listed!Add(k)
  <2>1. PICK s \in Sizes : Listed!Change(v3, k, [size |-> s, live |-> TRUE])
    BY <1>2 DEF Listed!Add
  <2>2. [size |-> s, live |-> TRUE] \in {None} \cup [size : Sizes, live : BOOLEAN]
    OBVIOUS
  <2> QED BY <1>1, <2>1, <2>2, ReadChanges
<1>3. CASE Listed!Expire(k)
  <2>1. PICK g \in 1 .. v3 : k \in Listed!Live(g) /\ Listed!Change(g, k, [v4[g][k] EXCEPT !.live = FALSE])
    BY <1>3 DEF Listed!Expire
  <2>2. g \in 1 .. MaxGeneration
    BY <1>1
  <2>3. v4[g][k] \in [size : Sizes, live : BOOLEAN]
    BY <2>1, <2>2 DEF Listed!Live, Listed!RowsInv, Listed!TypeOK
  <2>4. [v4[g][k] EXCEPT !.live = FALSE] \in {None} \cup [size : Sizes, live : BOOLEAN]
    BY <2>3
  <2> QED BY <2>1, <2>2, <2>4, ReadChanges
<1>4. CASE Listed!Remove(k)
  <2>1. PICK g \in 1 .. v3 : Listed!Change(g, k, None)
    BY <1>4 DEF Listed!Remove
  <2>2. g \in 1 .. MaxGeneration
    BY <1>1
  <2> QED BY <2>1, <2>2, ReadChanges
<1> QED BY <1>2, <1>3, <1>4

\* The generation, the account and the clock.
LEMMA ReadClock ==
  ASSUME Listed!RowsInv, Listed!Clear \/ Listed!Leave \/ Listed!Tick \/ UNCHANGED <<v1, v2, v3, v4, v5, v6, v7, v8, v9>>
  PROVE  ReadApart
<1>1. v4' = v4 /\ v5' = v5 /\ v6' = v6 /\ v7' = v7 /\ v8' = v8 /\ v9' = v9
  BY DEF Listed!Clear, Listed!Leave, Listed!Tick
<1>2. Listed!TypeOK
  BY DEF Listed!RowsInv
<1>3. v1' \in 0 .. PageTime /\ v3' \in 1 .. MaxGeneration /\ v3 <= v3'
  BY <1>2, ReadBounds DEF Listed!TypeOK, Listed!Clear, Listed!Leave, Listed!Tick
<1>4. v2' \in [state : {"ACTIVE", "DELETING"}, device : {"bound", "replaced"}]
  BY <1>2 DEF Listed!TypeOK, Listed!Clear, Listed!Leave, Listed!Tick
<1>5. Listed!TypeOK'
  BY <1>1, <1>2, <1>3, <1>4 DEF Listed!TypeOK
<1>6. Listed!RowsInv'
  BY <1>1, <1>5 DEF Listed!RowsInv
<1>7. Listed!Live(1)' = Listed!Live(1)
  BY <1>1 DEF Listed!Live
<1> QED BY <1>1, <1>3, <1>6, <1>7 DEF ReadApart

\* What a request's own steps leave of the rows and the client's list.
ReadOwn ==
  /\ v1' = v1 /\ v2' = v2 /\ v3' = v3 /\ v4' = v4 /\ v5' = v5 /\ v7' = v7 /\ v8' = v8 /\ v9' = v9

\* They keep what is said of these.
LEMMA ReadKept ==
  ASSUME Listed!IInv, ReadOwn
  PROVE  /\ Listed!RowsInv' /\ Listed!ClientInv' /\ Listed!Bound' = Listed!Bound
         /\ Listed!Live(1)' = Listed!Live(1)
<1>1. v1' = v1 /\ v2' = v2 /\ v3' = v3 /\ v4' = v4 /\ v5' = v5 /\ v7' = v7 /\ v8' = v8 /\ v9' = v9
  BY DEF ReadOwn
<1>2. Listed!Live(1)' = Listed!Live(1)
  BY <1>1 DEF Listed!Live
<1>3. Listed!RowsInv'
  BY <1>1 DEF Listed!IInv, Listed!RowsInv, Listed!TypeOK
<1>4. Listed!ClientInv'
  BY <1>1, <1>2 DEF Listed!IInv, Listed!ClientInv, Listed!Descends
<1> QED BY <1>1, <1>2, <1>3, <1>4 DEF Listed!Bound

\* A request is authorized, its record is found, and it may fail.
LEMMA ReadRequests ==
  ASSUME Listed!IInv, Listed!Authorize \/ Listed!Fail \/ \E k \in RowKeys : Listed!Locate(k)
  PROVE  Listed!IInv' /\ Listed!NothingCleared
<1>1. v1' = v1 /\ v2' = v2 /\ v3' = v3 /\ v4' = v4 /\ v5' = v5 /\ v7' = v7 /\ v8' = v8 /\ v9' = v9
  BY DEF Listed!Authorize, Listed!Fail, Listed!Locate
<1>2. Listed!RowsInv' /\ Listed!ClientInv'
  BY <1>1, ReadKept DEF ReadOwn
<1>3. v3 \in Nat /\ v3 \in 1 .. v3
  BY ReadBounds DEF Listed!IInv, Listed!RowsInv, Listed!TypeOK
<1>4. CASE Listed!Authorize
  <2>1. v6' = [phase |-> "authorized", since |-> v3]
    BY <1>4 DEF Listed!Authorize
  <2>2. Listed!JobInv'
    BY <1>1, <1>3, <2>1 DEF Listed!JobInv
  <2> QED BY <1>1, <1>2, <2>2 DEF Listed!IInv, Listed!NothingCleared
<1>5. CASE Listed!Fail
  <2>1. v6' = Listed!Idle
    BY <1>5 DEF Listed!Fail
  <2> QED BY <1>1, <1>2, <2>1 DEF Listed!IInv, Listed!JobInv, Listed!Idle, Listed!NothingCleared
<1>6. ASSUME NEW k \in RowKeys, Listed!Locate(k) PROVE Listed!IInv' /\ Listed!NothingCleared
  <2>1. v6' = [phase |-> "located", since |-> v6.since, generation |-> v3, key |-> k] /\ v6.phase = "authorized"
    BY <1>6 DEF Listed!Locate
  <2>2. v6.since \in 1 .. v3
    BY <2>1 DEF Listed!IInv, Listed!JobInv, Listed!Idle, Listed!ListInv, Listed!QueryInv, Listed!ListedInv
  <2>3. v6'.phase = "located" /\ v6'.since \in Nat /\ v6'.generation \in 1 .. v3' /\ v6'.generation >= v6'.since
    BY <1>1, <1>3, <2>1, <2>2
  <2>4. Listed!JobInv'
    BY <2>3 DEF Listed!JobInv
  <2> QED BY <1>1, <1>2, <2>4 DEF Listed!IInv, Listed!NothingCleared
<1> QED BY <1>4, <1>5, <1>6

\* A record is told.
LEMMA ReadTells ==
  ASSUME Listed!IInv, Listed!GetTell
  PROVE  Listed!IInv' /\ Listed!NothingCleared
<1>1. /\ v1' = v1 /\ v2' = v2 /\ v3' = v3 /\ v4' = v4 /\ v5' = v5 /\ v8' = v8 /\ v9' = v9
      /\ v6' = Listed!Idle /\ v6.phase = "located"
      /\ v7' = [v7 EXCEPT !.single = [generation |-> v6.generation, since |-> v6.since]]
  BY DEF Listed!GetTell
<1>2. v6.generation >= v6.since
  BY <1>1 DEF Listed!IInv, Listed!JobInv, Listed!Idle, Listed!ListInv, Listed!QueryInv, Listed!ListedInv
<1>3. v7 = [status |-> v7.status, got |-> v7.got, generation |-> v7.generation, single |-> v7.single]
  BY DEF Listed!IInv, Listed!ClientInv
<1>4. /\ v7' = [status |-> v7'.status, got |-> v7'.got, generation |-> v7'.generation, single |-> v7'.single]
      /\ v7'.status = v7.status /\ v7'.got = v7.got /\ v7'.generation = v7.generation
  BY <1>1, <1>3
<1>5. Listed!Live(1)' = Listed!Live(1)
  BY <1>1 DEF Listed!Live
<1>6. Listed!RowsInv'
  BY <1>1, <1>4 DEF Listed!IInv, Listed!RowsInv, Listed!TypeOK
<1>7. Listed!ClientInv'
  BY <1>1, <1>4, <1>5 DEF Listed!IInv, Listed!ClientInv, Listed!Descends
<1> QED BY <1>1, <1>2, <1>4, <1>6, <1>7 DEF Listed!IInv, Listed!JobInv, Listed!Idle, Listed!NothingCleared

\* A list begins at the newest row, and goes on from its cursor.
LEMMA ReadStarts ==
  ASSUME Listed!IInv, Listed!StartList
  PROVE  Listed!IInv' /\ Listed!NothingCleared
<1>1. /\ v1' = v1 /\ v2' = v2 /\ v3' = v3 /\ v4' = v4 /\ v5' = v5 /\ v7' = v7 /\ v9' = v9
      /\ v6.phase = "authorized"
      /\ v6' = [phase |-> "list", since |-> v6.since, generation |-> v3,
                before |-> IF v7.status = "going" THEN v5.last ELSE Listed!Max(RowKeys) + 1,
                items |-> <<>>, bytes |-> 0, more |-> FALSE]
  BY DEF Listed!StartList
<1>2. \/ v7.status = "none" /\ v8' = Listed!Live(v3)
      \/ v7.status = "going" /\ v5.generation = v3 /\ v8' = v8
  BY DEF Listed!StartList, Listed!CursorGood
<1>3. Listed!RowsInv /\ Listed!ClientInv /\ Listed!TypeOK
  BY DEF Listed!IInv, Listed!RowsInv
<1>4. v3 \in Nat /\ v3 \in 1 .. v3 /\ v6.since \in 1 .. v3
  <2>1. v6.since \in 1 .. v3
    BY <1>1 DEF Listed!IInv, Listed!JobInv, Listed!Idle, Listed!ListInv, Listed!QueryInv, Listed!ListedInv
  <2> QED BY <1>3, <2>1, ReadBounds DEF Listed!TypeOK
<1>5. Listed!Live(1)' = Listed!Live(1) /\ Listed!Bound' = Listed!Bound
  BY <1>1 DEF Listed!Live, Listed!Bound
<1>6. Listed!RowsInv'
  <2>1. v8' \subseteq RowKeys
    BY <1>2, <1>3 DEF Listed!Live, Listed!TypeOK
  <2> QED BY <1>1, <1>3, <2>1 DEF Listed!RowsInv, Listed!TypeOK
<1>7. Listed!ClientInv'
  <2>1. v7.status = "none" \/ v8' = v8
    BY <1>2
  <2> QED BY <1>1, <1>2, <1>3, <1>5, <2>1 DEF Listed!ClientInv, Listed!Descends
<1>8. v7.status = "going" => v5 \in [generation : {v7.generation}, last : RowKeys, expires : Nat]
  BY <1>3 DEF Listed!ClientInv
<1>9. v6'.before = Listed!Bound' /\ v6'.before \in Nat
  <2>1. v6'.before = Listed!Bound'
    BY <1>1, <1>5 DEF Listed!Bound
  <2>2. Listed!Max(RowKeys) + 1 \in Nat
    BY ReadMax
  <2>3. v7.status = "going" => v5.last \in Nat
    BY <1>8, ReadBounds
  <2> QED BY <1>1, <2>1, <2>2, <2>3
<1>10. v6'.generation = 1 => v8' \subseteq Listed!Live(1)'
  <2>1. CASE v7.status = "none"
    BY <1>1, <1>2, <1>5, <2>1
  <2>2. CASE v7.status = "going"
    <3>1. v7.generation = v3 /\ v8' = v8
      BY <1>2, <1>8, <2>2
    <3> QED BY <1>1, <1>3, <1>5, <2>2, <3>1 DEF Listed!ClientInv
  <2> QED BY <1>2, <2>1, <2>2
<1>11. Listed!QueryInv'
  <2>1. v6' = [phase |-> "list", since |-> v6'.since, generation |-> v6'.generation, before |-> v6'.before,
               items |-> v6'.items, bytes |-> v6'.bytes, more |-> FALSE]
    BY <1>1
  <2>2. v6'.items = <<>> /\ Len(v6'.items) < PageRows /\ DOMAIN v6'.items = {}
    BY <1>1, ReadBounds
  <2>3. \A k \in v8' : ~(k < Listed!Bound' /\ k >= v6'.before)
    <3>1. v8' \subseteq Nat
      BY <1>6, ReadBounds DEF Listed!RowsInv, Listed!TypeOK
    <3> QED BY <1>9, <3>1
  <2>4. v6'.before <= Listed!Bound'
    BY <1>9
  <2> QED BY <1>9, <2>1, <2>2, <2>3, <2>4 DEF Listed!QueryInv
<1>12. Listed!ListInv'
  <2>1. /\ v6'.since = v6.since /\ v6'.generation = v3 /\ v6'.items = <<>> /\ DOMAIN v6'.items = {}
    BY <1>1
  <2>2. v6'.since \in Nat /\ v6'.generation \in 1 .. v3' /\ v6'.generation >= v6'.since
    BY <1>1, <1>4, <2>1
  <2>3. v7'.status # "done" /\ (v7'.status = "going" => v6'.generation = v7'.generation)
    BY <1>1, <1>2, <1>8, <2>1
  <2>4. v6'.items \in Seq(RowKeys)
    BY <2>1
  <2> QED BY <1>10, <1>11, <2>1, <2>2, <2>3, <2>4 DEF Listed!ListInv, Listed!Descends
<1> QED BY <1>1, <1>6, <1>7, <1>12 DEF Listed!IInv, Listed!JobInv, Listed!NothingCleared

\* A page's rows, with those its query found.
LEMMA ReadMore ==
  ASSUME Listed!ListInv, Listed!QueryInv, NEW items, items = v6.items \o Listed!Descending(Listed!Taken)
  PROVE  /\ items \in Seq(RowKeys) /\ Len(items) = Len(v6.items) + Cardinality(Listed!Taken)
         /\ Falling(items) /\ Elements(items) = Elements(v6.items) \cup Listed!Taken
<1> DEFINE T == Listed!Taken
           s == v6.items
           t == Ordered(T)
<1>1. Listed!Descending(T) = t
  BY DEF Listed!Descending, Ordered, From, Listed!Cardinality, Cardinality, Listed!IsFiniteSet, IsFiniteSet
<1>2. T \subseteq RowKeys /\ IsFiniteSet(T) /\ \A k \in T : k < v6.before
  BY ReadTaken, ReadQueried
<1>3. s \in Seq(RowKeys) /\ Falling(s) /\ \A k \in Elements(s) : k >= v6.before
  BY ReadCount DEF Listed!ListInv, Listed!QueryInv, Elements
<1>4. v6.before \in Nat /\ RowKeys \subseteq Nat
  BY ReadBounds DEF Listed!QueryInv
<1> HIDE DEF T, s
<1>5. t \in Seq(T) /\ Len(t) = Cardinality(T) /\ Falling(t) /\ Elements(t) = T
  <2>1. T \subseteq Nat
    BY <1>2, <1>4
  <2> QED BY <1>2, <2>1, InOrder
<1> HIDE DEF t
<1>6. t \in Seq(RowKeys)
  BY <1>2, <1>5
<1>7. ASSUME NEW a \in Elements(s), NEW b \in Elements(t) PROVE a > b
  <2>1. a \in Nat /\ b \in Nat
    <3>1. a \in RowKeys
      BY <1>3 DEF Elements
    <3>2. b \in RowKeys
      BY <1>2, <1>5
    <3> QED BY <3>1, <3>2, <1>4
  <2>2. a >= v6.before /\ b < v6.before
    BY <1>2, <1>3, <1>5
  <2> QED BY <1>4, <2>1, <2>2
<1>8. /\ s \o t \in Seq(RowKeys) /\ Len(s \o t) = Len(s) + Len(t)
      /\ Falling(s \o t) /\ Elements(s \o t) = Elements(s) \cup Elements(t)
  <2>1. s \in Seq(RowKeys) /\ t \in Seq(RowKeys) /\ RowKeys \subseteq Nat /\ Falling(s) /\ Falling(t)
    BY <1>3, <1>4, <1>5, <1>6
  <2>2. \A a \in Elements(s), b \in Elements(t) : a > b
    BY <1>7
  <2> QED BY <2>1, <2>2, Joined, Zenon
<1>9. items = s \o t
  BY <1>1 DEF s, T
<1> QED BY <1>5, <1>8, <1>9 DEF s, T

\* A query is made: the page grows, or it ends with all it has come past or what comes
\* after it left for the next.
LEMMA ReadQueries ==
  ASSUME Listed!IInv, Listed!ListQuery
  PROVE  Listed!IInv' /\ Listed!NothingCleared
<1> DEFINE T == Listed!Taken
           items == v6.items \o Listed!Descending(T)
           left == Listed!Candidates # T
           full == Len(items) = PageRows
           ends == left \/ full \/ ~Listed!Stopped
<1>1. /\ v1' = v1 /\ v2' = v2 /\ v3' = v3 /\ v4' = v4 /\ v5' = v5 /\ v7' = v7 /\ v8' = v8 /\ v9' = v9
      /\ v6.phase = "list" /\ (Listed!Candidates # {} /\ v6.items = <<>> => T # {})
  BY DEF Listed!ListQuery
<1>2. v6' = IF ends
            THEN [v6 EXCEPT !.phase = "listed", !.items = items, !.more = left \/ (full /\ Listed!Stopped)]
            ELSE [v6 EXCEPT !.items = items, !.bytes = v6.bytes + Listed!Weight(T), !.before = Listed!Min(Listed!Queried)]
  BY DEF Listed!ListQuery
<1>3. Listed!ListInv /\ Listed!QueryInv
  BY <1>1 DEF Listed!IInv, Listed!JobInv, Listed!Idle, Listed!ListInv, Listed!ListedInv
<1>4. /\ Listed!RowsInv' /\ Listed!ClientInv' /\ Listed!Bound' = Listed!Bound
      /\ Listed!Live(1)' = Listed!Live(1) /\ Listed!ClientInv /\ Listed!TypeOK
  BY <1>1, ReadKept DEF ReadOwn, Listed!IInv, Listed!RowsInv
<1>5. /\ items \in Seq(RowKeys) /\ Len(items) = Len(v6.items) + Cardinality(T)
      /\ Falling(items) /\ Elements(items) = Elements(v6.items) \cup T
  BY <1>3, ReadMore
<1>6. /\ Listed!Candidates = Listed!Queried \cap Listed!Live(v6.generation)
      /\ T \subseteq Listed!Candidates /\ Cardinality(T) \in Nat
      /\ Len(v6.items) + Cardinality(T) <= PageRows
      /\ \A m \in T, k \in Listed!Candidates : k >= m => k \in T
  BY <1>3, ReadTaken
<1>7. /\ Listed!Queried \subseteq RowKeys /\ \A k \in Listed!Queried : k < v6.before
      /\ Listed!Stopped => Listed!Queried # {}
      /\ \A k \in Listed!Live(v6.generation) : k < v6.before =>
           k \in Listed!Queried \/ (Listed!Stopped /\ \A j \in Listed!Queried : k < j)
  BY <1>3, ReadQueried
<1>8. /\ v6 = [phase |-> "list", since |-> v6.since, generation |-> v6.generation, before |-> v6.before,
               items |-> v6.items, bytes |-> v6.bytes, more |-> FALSE]
      /\ v6.before \in Nat /\ v6.before <= Listed!Bound /\ Len(v6.items) < PageRows
      /\ \A k \in Elements(v6.items) : k >= v6.before
      /\ v6.generation = 1 => \A k \in v8 : k < Listed!Bound /\ k >= v6.before => k \in Elements(v6.items)
  BY <1>3, ReadCount DEF Listed!QueryInv, Elements
<1>9. /\ v7.status # "done" /\ (v7.status = "going" => v6.generation = v7.generation)
      /\ v6.since \in Nat /\ v6.generation \in 1 .. v3 /\ v6.generation >= v6.since
      /\ \A k \in Elements(v6.items) : k < Listed!Bound
      /\ v6.generation = 1 => v8 \subseteq Listed!Live(1)
  BY <1>3 DEF Listed!ListInv, Elements
<1>10. RowKeys \subseteq Nat /\ v8 \subseteq RowKeys /\ Listed!Bound \in Nat /\ T \subseteq RowKeys
       /\ Elements(v6.items) \subseteq RowKeys /\ PageRows \in Nat
  <2>1. Listed!Bound \in Nat
    BY <1>4, ReadMax, ReadBounds DEF Listed!Bound, Listed!ClientInv
  <2>2. Elements(v6.items) \subseteq RowKeys
    BY <1>3 DEF Listed!ListInv, Elements
  <2> QED BY <1>4, <1>6, <1>7, <2>1, <2>2, ReadBounds DEF Listed!TypeOK
<1> HIDE DEF T, items, left, full, ends
<1>11. /\ v6'.phase = (IF ends THEN "listed" ELSE "list") /\ v6'.items = items
       /\ v6'.since = v6.since /\ v6'.generation = v6.generation
  BY <1>2, <1>8
\* What the page holds now.
<1>12. \A k \in Elements(items) : k < Listed!Bound
  <2>1. ASSUME NEW k \in T PROVE k < Listed!Bound
    <3>1. k < v6.before /\ k \in Nat
      BY <1>6, <1>7, <1>10
    <3> QED BY <3>1, <1>8, <1>10
  <2> QED BY <1>5, <1>9, <2>1
\* What stayed is in it, or comes after all of it.
<1>13. ASSUME v6.generation = 1, NEW k \in v8, k < Listed!Bound
       PROVE  \/ k \in Elements(items)
              \/ left /\ \A j \in Elements(items) : k < j
              \/ Listed!Stopped /\ (\A j \in Listed!Queried : k < j) /\ \A j \in Elements(items) : k < j
  <2>1. k \in Nat /\ k \in Listed!Live(v6.generation)
    BY <1>9, <1>10, <1>13
  <2>2. CASE k >= v6.before
    BY <1>5, <1>8, <1>13, <2>2
  <2>3. CASE ~(k >= v6.before)
    <3>1. k < v6.before
      BY <1>8, <2>1, <2>3
    <3>2. ASSUME NEW j \in Elements(v6.items) PROVE k < j
      <4>1. j \in Nat /\ j >= v6.before
        BY <1>8, <1>10
      <4> QED BY <1>8, <2>1, <3>1, <4>1
    <3>3. CASE k \in Listed!Queried /\ k \notin T
      <4>1. k \in Listed!Candidates
        BY <1>6, <2>1, <3>3
      <4>2. left
        BY <3>3, <4>1 DEF left
      <4>3. ASSUME NEW j \in T PROVE k < j
        <5>1. j \in Nat
          BY <1>10
        <5>2. ~(k >= j)
          BY <1>6, <3>3, <4>1
        <5> QED BY <2>1, <5>1, <5>2
      <4> QED BY <1>5, <3>2, <4>2, <4>3
    <3>4. CASE k \in T
      BY <1>5, <3>4
    <3>5. CASE Listed!Stopped /\ \A j \in Listed!Queried : k < j
      <4>1. \A j \in T : k < j
        BY <1>6, <3>5
      <4> QED BY <1>5, <3>2, <3>5, <4>1
    <3> QED BY <1>7, <2>1, <3>1, <3>3, <3>4, <3>5
  <2> QED BY <2>2, <2>3
<1>14. CASE ends
  <2>1. v6'.phase = "listed" /\ v6'.more = (left \/ (full /\ Listed!Stopped))
    BY <1>2, <1>8, <1>14
  <2>2. v6'.more \in BOOLEAN /\ (v6'.more => items # <<>>)
    <3>1. left \in BOOLEAN /\ full \in BOOLEAN /\ Listed!Stopped \in BOOLEAN
      BY DEF left, full, Listed!Stopped
    <3>2. left => T # {} \/ v6.items # <<>>
      BY <1>1, <1>6 DEF left
    <3>3. v6.items # <<>> => Elements(v6.items) # {}
      <4>1. v6.items \in Seq(RowKeys)
        BY <1>3 DEF Listed!ListInv
      <4>2. v6.items # <<>> => 1 \in DOMAIN v6.items
        BY <4>1
      <4> QED BY <4>2 DEF Elements
    <3>4. left => Elements(items) # {}
      BY <1>5, <3>2, <3>3
    <3>5. full => 1 \in DOMAIN items
      BY <1>5, ReadBounds DEF full
    <3>6. items = <<>> => Elements(items) = {} /\ 1 \notin DOMAIN items
      BY DEF Elements
    <3> QED BY <2>1, <3>1, <3>4, <3>5, <3>6
  <2>3. ASSUME v6.generation = 1, NEW k \in v8, k < Listed!Bound
        PROVE  k \in Elements(items) \/ (v6'.more /\ \A j \in Elements(items) : k < j)
    <3>1. CASE left /\ \A j \in Elements(items) : k < j
      BY <2>1, <3>1
    <3>2. CASE Listed!Stopped /\ (\A j \in Listed!Queried : k < j) /\ \A j \in Elements(items) : k < j
      BY <1>14, <2>1, <3>2 DEF ends
    <3> QED BY <1>13, <2>3, <3>1, <3>2
  <2>4. Listed!ListedInv'
    <3>1. \A j \in DOMAIN items : items[j] \in Elements(items)
      BY DEF Elements
    <3>2. Listed!Range(items) = Elements(items)
      BY ReadCount
    <3> QED BY <1>1, <1>4, <1>11, <2>1, <2>2, <2>3, <3>1, <3>2 DEF Listed!ListedInv
  <2>5. Listed!ListInv'
    <3>1. Listed!Descends(items) /\ \A j \in DOMAIN items : items[j] < Listed!Bound
      BY <1>5, <1>12, ReadCount DEF Elements
    <3> QED BY <1>1, <1>4, <1>5, <1>9, <1>11, <2>4, <3>1 DEF Listed!ListInv
  <2> QED BY <1>1, <1>4, <2>5 DEF Listed!IInv, Listed!JobInv, Listed!NothingCleared
<1>15. CASE ~ends
  <2>1. ~left /\ ~full /\ Listed!Stopped
    BY <1>15 DEF ends
  <2> DEFINE b == Listed!Min(Listed!Queried)
  <2>2. b \in Listed!Queried /\ b \in Nat /\ b < v6.before /\ \A y \in Listed!Queried : b <= y
    BY <1>7, <1>10, <2>1, ReadMin
  <2>3. v6' = [phase |-> "list", since |-> v6.since, generation |-> v6.generation, before |-> b,
               items |-> items, bytes |-> v6.bytes + Listed!Weight(T), more |-> FALSE]
    <3> DEFINE w == v6.bytes + Listed!Weight(T)
    <3>1. v6' = [v6 EXCEPT !.items = items, !.bytes = w, !.before = b]
      BY <1>2, <1>15
    <3> HIDE DEF w, b
    <3>2. v6' = [phase |-> "list", since |-> v6.since, generation |-> v6.generation, before |-> b,
                 items |-> items, bytes |-> w, more |-> FALSE]
      <4>1. v6 = [phase |-> "list", since |-> v6.since, generation |-> v6.generation, before |-> v6.before,
                  items |-> v6.items, bytes |-> v6.bytes, more |-> FALSE]
        BY <1>8
      <4>2. DOMAIN v6' = {"phase", "since", "generation", "before", "items", "bytes", "more"}
        BY <3>1, <4>1
      <4>3. /\ v6'.phase = "list" /\ v6'.since = v6.since /\ v6'.generation = v6.generation /\ v6'.before = b
            /\ v6'.items = items /\ v6'.bytes = w /\ v6'.more = FALSE
        BY <3>1, <4>1
      <4> QED BY <3>1, <4>1, <4>2, <4>3
    <3> QED BY <3>2 DEF w
  <2> HIDE DEF b
  <2>4. v6' = [phase |-> "list", since |-> v6'.since, generation |-> v6'.generation, before |-> v6'.before,
               items |-> v6'.items, bytes |-> v6'.bytes, more |-> FALSE]
        /\ v6'.before = b
    BY <2>3
  <2>5. Len(items) < PageRows
    <3>1. Len(items) # PageRows /\ Len(items) <= PageRows /\ Len(items) \in Nat
      BY <1>5, <1>6, <2>1 DEF full
    <3> QED BY <3>1, <1>10
  <2>6. ASSUME NEW k \in Elements(items) PROVE k >= b
    <3>1. CASE k \in T
      <4>1. b <= k /\ k \in Nat
        BY <1>6, <1>10, <2>2, <3>1
      <4> QED BY <2>2, <4>1
    <3>2. CASE k \in Elements(v6.items)
      <4>1. k >= v6.before /\ k \in Nat
        BY <1>8, <1>10, <3>2
      <4> QED BY <1>8, <2>2, <4>1
    <3> QED BY <1>5, <3>1, <3>2
  <2>7. b <= Listed!Bound
    BY <1>8, <1>10, <2>2
  <2>8. ASSUME v6.generation = 1, NEW k \in v8, k < Listed!Bound, k >= b PROVE k \in Elements(items)
    <3>1. ~(k < b)
      BY <1>10, <2>2, <2>8
    <3> QED BY <1>13, <2>1, <2>2, <2>8, <3>1
  <2>9. Listed!QueryInv'
    <3>1. \A j \in DOMAIN items : items[j] \in Elements(items)
      BY DEF Elements
    <3>2. Listed!Range(items) = Elements(items)
      BY ReadCount
    <3> QED BY <1>1, <1>4, <1>11, <2>2, <2>4, <2>5, <2>6, <2>7, <2>8, <3>1, <3>2 DEF Listed!QueryInv
  <2>10. Listed!ListInv'
    <3>1. Listed!Descends(items) /\ \A j \in DOMAIN items : items[j] < Listed!Bound
      BY <1>5, <1>12, ReadCount DEF Elements
    <3> QED BY <1>1, <1>4, <1>5, <1>9, <1>11, <2>9, <3>1 DEF Listed!ListInv
  <2> QED BY <1>1, <1>4, <2>10 DEF Listed!IInv, Listed!JobInv, Listed!NothingCleared
<1> QED BY <1>14, <1>15

\* A page is told: all that stayed and is not behind the cursor was shown.
LEMMA ReadPages ==
  ASSUME Listed!IInv, Listed!ListTell
  PROVE  Listed!IInv' /\ Listed!NothingCleared
<1> DEFINE s == v7.got
           t == v6.items
           onward == v6.more /\ v6.items # <<>>
<1>1. /\ v1' = v1 /\ v2' = v2 /\ v3' = v3 /\ v4' = v4 /\ v8' = v8 /\ v9' = v9
      /\ v6' = Listed!Idle /\ v6.phase = "listed"
  BY DEF Listed!ListTell
<1>2. /\ onward => /\ v5' = [generation |-> v6.generation, last |-> Listed!LastIncluded, expires |-> v1 + Window]
                   /\ v7' = [v7 EXCEPT !.status = "going", !.got = s \o t, !.generation = v6.generation]
      /\ ~onward => v5' = v5 /\ v7' = [v7 EXCEPT !.status = "done", !.got = s \o t, !.generation = v6.generation]
  BY DEF Listed!ListTell
<1>3. Listed!ListInv /\ Listed!ListedInv /\ Listed!RowsInv /\ Listed!ClientInv /\ Listed!TypeOK
  BY <1>1 DEF Listed!IInv, Listed!JobInv, Listed!Idle, Listed!ListInv, Listed!QueryInv, Listed!RowsInv
<1>4. /\ v7 = [status |-> v7.status, got |-> v7.got, generation |-> v7.generation, single |-> v7.single]
      /\ s \in Seq(RowKeys) /\ Falling(s)
      /\ v7.status = "none" => s = <<>> /\ v7.generation = None
      /\ v7.status = "going" =>
           /\ v5 \in [generation : {v7.generation}, last : RowKeys, expires : Nat]
           /\ \A k \in Elements(s) : k >= v5.last
           /\ v7.generation = 1 => \A k \in v8 : k >= v5.last => k \in Elements(s)
  BY <1>3, ReadCount DEF Listed!ClientInv, Elements
<1>5. /\ v7.status \in {"none", "going"} /\ (v7.status = "going" => v6.generation = v7.generation)
      /\ v6.generation >= v6.since /\ v6.generation \in 1 .. v3
      /\ t \in Seq(RowKeys) /\ Falling(t) /\ \A k \in Elements(t) : k < Listed!Bound
      /\ v6.generation = 1 => v8 \subseteq Listed!Live(1)
  BY <1>3, ReadCount DEF Listed!ListInv, Elements, Listed!TypeOK
<1>6. /\ v6.more => onward
      /\ v6.generation = 1 => \A k \in v8 : k < Listed!Bound =>
           k \in Elements(t) \/ (v6.more /\ \A j \in Elements(t) : k < j)
  BY <1>3, ReadCount DEF Listed!ListedInv, Elements
<1>7. RowKeys \subseteq Nat /\ v8 \subseteq RowKeys /\ Listed!Bound \in Nat /\ v1 \in Nat /\ Window \in Nat
  <2>1. Listed!Bound \in Nat
    BY <1>4, <1>5, ReadMax, ReadBounds DEF Listed!Bound
  <2> QED BY <1>3, <2>1, ReadBounds DEF Listed!TypeOK
<1>8. v7.status = "going" => Listed!Bound = v5.last
  BY DEF Listed!Bound
<1>9. v7.status = "none" => \A k \in RowKeys : k < Listed!Bound
  BY ReadMax DEF Listed!Bound
<1>10. /\ v7'.got = s \o t /\ v7'.generation = v6.generation /\ v7'.single = v7.single
       /\ v7'.status = (IF onward THEN "going" ELSE "done")
       /\ v7' = [status |-> v7'.status, got |-> v7'.got, generation |-> v7'.generation, single |-> v7'.single]
  BY <1>2, <1>4
<1>11. Listed!NothingCleared
  <2>1. v7.generation \in {None, v6.generation}
    BY <1>4, <1>5
  <2> QED BY <1>5, <1>10, <2>1 DEF Listed!NothingCleared
<1>12. onward => Listed!LastIncluded \in Elements(t) /\ \A k \in Elements(t) : k >= Listed!LastIncluded
  <2> SUFFICES ASSUME onward PROVE Listed!LastIncluded \in Elements(t) /\ \A k \in Elements(t) : k >= Listed!LastIncluded
    OBVIOUS
  <2>1. t # <<>> /\ t \in Seq(RowKeys) /\ Listed!LastIncluded = t[Len(t)]
    BY <1>5 DEF Listed!LastIncluded
  <2>2. Len(t) \in DOMAIN t /\ DOMAIN t = 1 .. Len(t) /\ Len(t) \in Nat
    BY <2>1
  <2>3. ASSUME NEW i \in DOMAIN t PROVE t[i] >= t[Len(t)]
    <3>1. t[i] \in Nat /\ t[Len(t)] \in Nat
      <4>1. t[i] \in RowKeys /\ t[Len(t)] \in RowKeys
        BY <2>1, <2>2
      <4> QED BY <4>1, <1>7
    <3>2. CASE i = Len(t)
      BY <3>1, <3>2
    <3>3. CASE i # Len(t)
      <4>1. i < Len(t)
        BY <2>2, <3>3
      <4>2. t[i] > t[Len(t)]
        BY <1>5, <2>2, <4>1 DEF Falling
      <4> QED BY <3>1, <4>2
    <3> QED BY <3>2, <3>3
  <2> QED BY <2>1, <2>2, <2>3 DEF Elements
<1> HIDE DEF s, t, onward
<1>13. /\ s \o t \in Seq(RowKeys) /\ Falling(s \o t) /\ Elements(s \o t) = Elements(s) \cup Elements(t)
  <2>1. ASSUME NEW a \in Elements(s), NEW b \in Elements(t) PROVE a > b
    <3>1. v7.status = "going"
      <4>1. s # <<>>
        BY DEF Elements
      <4> QED BY <1>4, <1>5, <4>1
    <3>2. a >= Listed!Bound /\ b < Listed!Bound
      BY <1>4, <1>5, <1>8, <3>1
    <3>3. a \in RowKeys /\ b \in RowKeys
      BY <1>4, <1>5 DEF Elements
    <3> QED BY <1>7, <3>2, <3>3
  <2>2. s \in Seq(RowKeys) /\ t \in Seq(RowKeys) /\ RowKeys \subseteq Nat /\ Falling(s) /\ Falling(t)
    BY <1>4, <1>5, <1>7
  <2>3. \A a \in Elements(s), b \in Elements(t) : a > b
    BY <2>1
  <2>4. /\ s \o t \in Seq(RowKeys) /\ Len(s \o t) = Len(s) + Len(t)
        /\ Falling(s \o t) /\ Elements(s \o t) = Elements(s) \cup Elements(t)
    BY <2>2, <2>3, Joined, Zenon
  <2> QED BY <2>4
\* Where the list had come to.
<1>14. ASSUME v6.generation = 1, NEW k \in v8, ~(k < Listed!Bound) PROVE k \in Elements(s)
  <2>1. k \in Nat /\ k \in RowKeys
    BY <1>7
  <2>2. v7.status = "going"
    BY <1>5, <1>9, <1>14, <2>1
  <2>3. k >= v5.last
    BY <1>7, <1>8, <1>14, <2>1, <2>2
  <2> QED BY <1>4, <1>5, <1>14, <2>2, <2>3
<1>15. Listed!RowsInv'
  <2>1. v7'.status \in {"none", "going", "done"}
    BY <1>10
  <2> QED BY <1>1, <1>3, <2>1 DEF Listed!RowsInv, Listed!TypeOK
<1>16. Listed!Live(1)' = Listed!Live(1)
  BY <1>1 DEF Listed!Live
<1>17. v7'.got \in Seq(RowKeys) /\ Listed!Descends(v7'.got) /\ Listed!Range(v7'.got) = Elements(s) \cup Elements(t)
  BY <1>10, <1>13, ReadCount
<1>18. CASE onward
  <2> DEFINE l == Listed!LastIncluded
  <2>1. l \in Elements(t) /\ l \in RowKeys /\ l \in Nat /\ l < Listed!Bound
    <3>1. l \in Elements(t)
      BY <1>12, <1>18
    <3>2. l \in RowKeys
      BY <1>5, <3>1 DEF Elements
    <3> QED BY <1>5, <1>7, <3>1, <3>2
  <2>2. v5' = [generation |-> v6.generation, last |-> l, expires |-> v1 + Window] /\ v7'.status = "going"
    BY <1>2, <1>10, <1>18
  <2>3. \A k \in Elements(t) : k >= l
    BY <1>12, <1>18
  <2> HIDE DEF l
  <2>4. v5' \in [generation : {v7'.generation}, last : RowKeys, expires : Nat] /\ v5'.last = l
    <3>1. v1 + Window \in Nat
      BY <1>7
    <3> QED BY <1>10, <2>1, <2>2, <3>1
  <2>5. ASSUME NEW k \in Elements(s) PROVE k >= l
    <3>1. v7.status = "going"
      <4>1. s # <<>>
        BY DEF Elements
      <4> QED BY <1>4, <1>5, <4>1
    <3>2. k >= Listed!Bound /\ k \in Nat
      BY <1>4, <1>7, <1>8, <3>1 DEF Elements
    <3> QED BY <1>7, <2>1, <3>2
  <2>6. \A k \in Listed!Range(v7'.got) : k >= l
    BY <1>17, <2>3, <2>5
  <2>7. ASSUME v6.generation = 1, NEW k \in v8, k >= l PROVE k \in Listed!Range(v7'.got)
    <3>1. CASE k < Listed!Bound
      <4>1. ~(k < l)
        BY <1>7, <2>1, <2>7
      <4> QED BY <1>6, <1>17, <2>1, <2>7, <3>1, <4>1
    <3>2. CASE ~(k < Listed!Bound)
      BY <1>14, <1>17, <2>7, <3>2
    <3> QED BY <3>1, <3>2
  <2>8. Listed!ClientInv'
    <3>1. \A i \in DOMAIN v7'.got : v7'.got[i] >= l
      BY <2>6, ReadCount DEF Elements
    <3>2. v7'.generation = 1 => v8' \subseteq Listed!Live(1)'
      BY <1>1, <1>5, <1>10, <1>16
    <3>3. v7'.generation = 1 => \A k \in v8' : k >= v5'.last => k \in Listed!Range(v7'.got)
      BY <1>1, <1>10, <2>4, <2>7
    <3> QED BY <1>10, <1>17, <2>2, <2>4, <3>1, <3>2, <3>3 DEF Listed!ClientInv
  <2> QED BY <1>1, <1>11, <1>15, <2>8 DEF Listed!IInv, Listed!JobInv
<1>19. CASE ~onward
  <2>1. v7'.status = "done" /\ ~v6.more
    BY <1>6, <1>10, <1>19
  <2>2. ASSUME v6.generation = 1, NEW k \in v8 PROVE k \in Listed!Range(v7'.got)
    BY <1>6, <1>14, <1>17, <2>1, <2>2
  <2>3. Listed!ClientInv'
    <3>1. v7'.generation = 1 => v8' \subseteq Listed!Range(v7'.got)
      BY <1>1, <1>10, <2>2
    <3> QED BY <1>10, <1>17, <2>1, <3>1 DEF Listed!ClientInv
  <2> QED BY <1>1, <1>11, <1>15, <2>3 DEF Listed!IInv, Listed!JobInv
<1> QED BY <1>18, <1>19

\* Before a list begins.
LEMMA ReadInits == Listed!Init => Listed!IInv
<1> SUFFICES ASSUME Listed!Init PROVE Listed!IInv
  OBVIOUS
<1>1. /\ v1 = 0 /\ v3 = 1 /\ v9 = 0 /\ v2 = [state |-> "ACTIVE", device |-> "bound"]
      /\ v5 = None /\ v6 = Listed!Idle
      /\ v7 = [status |-> "none", got |-> <<>>, generation |-> None, single |-> None] /\ v8 = {}
  BY DEF Listed!Init
<1>2. PICK first \in [RowKeys -> {None} \cup [size : Sizes, live : {TRUE}]] :
        v4 = [g \in 1 .. MaxGeneration |-> IF g = 1 THEN first ELSE [k \in RowKeys |-> None]]
  BY DEF Listed!Init
<1>3. \A g \in 1 .. MaxGeneration : v4[g] \in [RowKeys -> {None} \cup [size : Sizes, live : BOOLEAN]]
  BY <1>2
<1>4. v4 \in [1 .. MaxGeneration -> [RowKeys -> {None} \cup [size : Sizes, live : BOOLEAN]]]
  BY <1>2, <1>3
<1>5. Listed!TypeOK
  <2>1. \A g \in 1 .. MaxGeneration : \A k \in RowKeys :
          v4[g][k] # None => v4[g][k] \in [size : Sizes, live : BOOLEAN]
    BY <1>3
  <2> QED BY <1>1, <2>1, ReadBounds DEF Listed!TypeOK
<1>6. Listed!ClientInv
  BY <1>1 DEF Listed!ClientInv, Listed!Descends
<1> QED BY <1>1, <1>4, <1>5, <1>6 DEF Listed!IInv, Listed!RowsInv, Listed!JobInv

\* Every step keeps the invariant, and nothing is told of a generation that had ended.
LEMMA ReadStep ==
  ASSUME Listed!IInv, Listed!Next
  PROVE  Listed!IInv' /\ Listed!NothingCleared
<1>1. CASE Listed!StartList
  BY <1>1, ReadStarts
<1>2. CASE Listed!ListQuery
  BY <1>2, ReadQueries
<1>3. CASE Listed!ListTell
  BY <1>3, ReadPages
<1>4. CASE Listed!GetTell
  BY <1>4, ReadTells
<1>5. CASE Listed!Authorize \/ Listed!Fail \/ \E k \in RowKeys : Listed!Locate(k)
  BY <1>5, ReadRequests
<1>6. CASE \/ Listed!Clear \/ Listed!Leave \/ Listed!Tick
           \/ \E k \in RowKeys : Listed!Add(k) \/ Listed!Expire(k) \/ Listed!Remove(k)
  <2>1. ReadApart
    BY <1>6, ReadRows, ReadClock DEF Listed!IInv
  <2> QED BY <2>1, ReadAround DEF ReadApart, Listed!NothingCleared
<1> QED BY <1>1, <1>2, <1>3, <1>4, <1>5, <1>6 DEF Listed!Next

\* When nothing changes, neither does the invariant.
LEMMA ReadUnmoved ==
  ASSUME Listed!IInv, UNCHANGED <<v1, v2, v3, v4, v5, v6, v7, v8, v9>>
  PROVE  Listed!IInv'
<1>1. ReadApart
  BY ReadClock DEF Listed!IInv
<1> QED BY <1>1, ReadAround

\* What the invariant says of a list.
LEMMA ReadWhole == Listed!IInv => Listed!TypeOK /\ Listed!NothingLeftOut
<1> SUFFICES ASSUME Listed!IInv PROVE Listed!TypeOK /\ Listed!NothingLeftOut
  OBVIOUS
<1>1. /\ Listed!TypeOK /\ Listed!Descends(v7.got)
      /\ v7.status = "done" /\ v7.generation = 1 => v8 \subseteq Listed!Range(v7.got)
  BY DEF Listed!IInv, Listed!RowsInv, Listed!ClientInv
<1> QED BY <1>1 DEF Listed!NothingLeftOut, Listed!Descends

-----------------------------------------------------------------------------
(* The parts in the run                                                    *)

\* Each invariant holds in the states of its own part, and is not asked for in others.
DevicesInv == part \in {"devices", "recoveries"} => Device!IInv
RequestsInv == part \in {"requests", "contents"} => Requested!IInv
SourcesInv == part \in {"sources", "rotation"} => Sources!IInv
LocksInv == part \in {"locks", "again"} => Locks!IInv
ExportsInv == part \in {"export", "cleared"} => Exported!IInv
ListsInv == part = "list" => Listed!IInv
GovernedInv == part = "governed" => Governed!IInv

\* When nothing changes, neither does the invariant.
LEMMA RequestsRemain == ASSUME UNCHANGED vars PROVE RequestsInv => RequestsInv'
<1> USE DEF vars
<1>1. \A w \in Workers : Requested!JobInv(w) => Requested!JobInv(w)'
  BY DEF Requested!JobInv
<1>2. \A q \in Choices : Requested!RowInv(q) => Requested!RowInv(q)'
  BY DEF Requested!RowInv
<1> QED BY <1>1, <1>2 DEF Requested!IInv, RequestsInv

\* When nothing changes, neither does the invariant of the devices.
LEMMA DevicesRemain == ASSUME UNCHANGED vars PROVE DevicesInv => DevicesInv'
BY BindingNextIInv DEF vars, DevicesInv, Device!vars, Device!bindings

\* The parts of the devices keep their invariant, and their steps are sound.
LEMMA DevicesStep ==
  DevicesInv /\ [Next]_vars => DevicesInv' /\ [(part \in {"devices", "recoveries"}) => Device!BindingStepsSound]_vars
<1>1. ASSUME Next, DevicesInv PROVE DevicesInv' /\ (part \in {"devices", "recoveries"} => Device!BindingStepsSound)
  BY <1>1, BindingNextIInv, BindingSoundStep DEF Next, DevicesInv
<1> QED BY <1>1, DevicesRemain

\* For any devices and recoveries and however many invocations: the invariant holds of
\* every reachable state.
THEOREM BindingInvariance == Spec => []DevicesInv
<1>1. Init => DevicesInv
  BY BindingInitIInv DEF Init, DevicesInv
<1> QED BY <1>1, DevicesStep, PTL DEF Spec

\* The device the pointer names is the account's only active one, whatever stale reads
\* registrations, recoveries and resets started from, and every row and invocation holds
\* values the code writes.
THEOREM UniqueBinding == Spec => []PointerNamesTheActive
<1>1. DevicesInv => PointerNamesTheActive
  BY DEF Device!IInv, DevicesInv, PointerNamesTheActive
<1> QED BY <1>1, BindingInvariance, PTL

\* A client is told of the recovery its receipt records.
THEOREM RecoveriesTold == Spec => []ToldAsRecorded
<1>1. DevicesInv => ToldAsRecorded
  BY DEF Device!IInv, DevicesInv, ToldAsRecorded
<1> QED BY <1>1, BindingInvariance, PTL

\* No two bindings share a stateVersion, and none is made behind a deletion.
THEOREM BindingsSound == Spec => BindingStepsSound
BY BindingInvariance, DevicesStep, PTL DEF Spec, BindingStepsSound

\* For any requests and contents and however many invocations work on them: a scan is
\* charged once, each charge takes one unit, and a result is told only behind it
\* (conversation_analysis, replay_access_policy).
THEOREM RequestsCharged == Spec => RequestsHold
<1>1. Init => RequestsInv
  BY RequestsBegin DEF Init, RequestsInv
<1>2. RequestsInv /\ [Next]_vars => RequestsInv'
  <2>1. CASE Next
    BY <2>1, RequestsStep DEF Next, RequestsInv
  <2> QED BY <2>1, RequestsRemain
<1>3. RequestsInv /\ [Next]_vars
        => [(part \in {"requests", "contents"}) => Requested!ChargesAddUp /\ Requested!ToldBehindCharge]_vars
  BY RequestsStep DEF Next, RequestsInv
<1>4. RequestsInv => (part \in {"requests", "contents"} => Requested!TypeOK /\ Requested!ChargedOnce)
  BY RequestsKept DEF RequestsInv
<1> QED BY <1>1, <1>2, <1>3, <1>4, PTL DEF Spec, RequestsHold

\* When nothing of them changes, neither do the sources.
LEMMA SourcesUnmoved ==
  ASSUME UNCHANGED <<v1, v2, v3, v4, v5, v6, v7, v8, v9>>, Sources!IInv
  PROVE  Sources!IInv'
<1>1. AccountRows /\ v9 /\ DOMAIN v7 = Workers /\ \A x \in Workers : Sources!JobInv(x)
  BY SourcesParts DEF AccountJobs
<1>2. AccountRows' /\ Onward
  BY <1>1, SourcesStay
<1>3. \A x \in Workers : Sources!JobInv(x)'
  BY <1>1, <1>2, SourcesJobKept
<1>4. AccountJobs' /\ v9'
  BY <1>1, <1>3 DEF AccountJobs
<1> QED BY <1>2, <1>4, SourcesPartsNext

\* When nothing of them changes, neither do the locks.
LEMMA LocksUnmoved ==
  ASSUME UNCHANGED <<v1, v2, v3, v4, v5, v6, v7>>, Locks!IInv
  PROVE  Locks!IInv'
<1>1. LocksRows => LocksRows'
  BY DEF LocksRows, Locks!TypeOK, Locks!LocksPaired, Locks!ChainOfOne, Locks!HeadIsOwned, Locks!ErasedForGood, Locks!Owned
<1>2. \A w \in Workers : Locks!JobInv(w) => Locks!JobInv(w)'
  BY DEF Locks!JobInv
<1> QED BY <1>1, <1>2 DEF LocksRows, Locks!IInv

\* When nothing changes, neither do the owners.
LEMMA OwnersRemain ==
  ASSUME UNCHANGED vars
  PROVE  /\ SourcesInv => SourcesInv'
         /\ LocksInv => LocksInv'
BY SourcesUnmoved, LocksUnmoved DEF vars, SourcesInv, LocksInv

\* For any accounts, purchases and keys and however many invocations race: an account
\* has one access row and one trial, readable and told whole, no writer takes back
\* another's source, and the tokens of a purchase are one account's, until they are
\* erased for good (shared_check_authority.entitlements, shared_purchase_ownership).
THEOREM OwnersKept == Spec => OwnersHold
<1>1. Init => SourcesInv /\ LocksInv
  BY SourcesBegin, LocksBegin DEF Init, SourcesInv, LocksInv
<1>2. SourcesInv /\ LocksInv /\ [Next]_vars => SourcesInv' /\ LocksInv'
  <2>1. ASSUME Next, SourcesInv PROVE SourcesInv'
    BY <2>1, SourcesStep DEF Next, SourcesInv
  <2>2. ASSUME Next, LocksInv PROVE LocksInv'
    BY <2>2, LocksStep DEF Next, LocksInv
  <2> QED BY <2>1, <2>2, OwnersRemain
<1>3. SourcesInv /\ [Next]_vars => [(part \in {"sources", "rotation"}) => Sources!SourcesKept]_vars
  BY SourcesStep DEF Next, SourcesInv
<1>4. LocksInv /\ [Next]_vars => [(part \in {"locks", "again"}) => Locks!NeverTransferred]_vars
  BY LocksStep DEF Next, LocksInv
<1>5. SourcesInv => (part \in {"sources", "rotation"} =>
        Sources!TypeOK /\ Sources!OneAuthority /\ Sources!NeverUnreadable /\ Sources!SnapshotsWhole)
  BY SourcesHold DEF SourcesInv
<1>6. LocksInv => (part \in {"locks", "again"} =>
        Locks!TypeOK /\ Locks!LocksPaired /\ Locks!ChainOfOne /\ Locks!HeadIsOwned /\ Locks!ErasedForGood)
  BY DEF LocksInv, Locks!IInv
<1> QED BY <1>1, <1>2, <1>3, <1>4, <1>5, <1>6, PTL DEF Spec, OwnersHold

\* The same of the specification of the devices itself, without the bounds of the parts
\* that check it (device_registration, device_recovery).
THEOREM DevicesSound ==
  Device!Spec => /\ [](Device!TypeOK /\ Device!PointerNamesTheActive /\ Device!ToldAsRecorded)
                 /\ [][Device!BindingStepsSound]_(Device!vars)
<1>1. Device!Init => Device!IInv
  BY BindingInitIInv
<1>2. Device!IInv /\ [Device!Next]_(Device!vars) => Device!IInv'
  BY BindingNextIInv
<1>3. Device!IInv /\ [Device!Next]_(Device!vars) => [Device!BindingStepsSound]_(Device!vars)
  BY BindingSoundStep
<1>4. Device!IInv => Device!TypeOK /\ Device!PointerNamesTheActive /\ Device!ToldAsRecorded
  BY DEF Device!IInv
<1> QED BY <1>1, <1>2, <1>3, <1>4, PTL DEF Device!Spec

\* The same of the specification of the requests itself, without the bounds of the parts
\* that check it (conversation_analysis).
THEOREM RequestsSound ==
  Requested!Spec => /\ [](Requested!TypeOK /\ Requested!ChargedOnce)
                    /\ [][Requested!ChargesAddUp /\ Requested!ToldBehindCharge]_(Requested!vars)
<1>1. Requested!Init => Requested!IInv
  BY RequestsBegin
<1>2. Requested!IInv /\ [Requested!Next]_(Requested!vars) => Requested!IInv'
  <2>1. ASSUME UNCHANGED Requested!vars, Requested!IInv PROVE Requested!IInv'
    <3> USE <2>1 DEF Requested!vars
    <3>1. \A w \in Workers : Requested!JobInv(w) => Requested!JobInv(w)'
      BY DEF Requested!JobInv
    <3>2. \A q \in Choices : Requested!RowInv(q) => Requested!RowInv(q)'
      BY DEF Requested!RowInv
    <3> QED BY <3>1, <3>2 DEF Requested!IInv
  <2> QED BY <2>1, RequestsStep
<1>3. Requested!IInv /\ [Requested!Next]_(Requested!vars)
        => [Requested!ChargesAddUp /\ Requested!ToldBehindCharge]_(Requested!vars)
  BY RequestsStep
<1>4. Requested!IInv => Requested!TypeOK /\ Requested!ChargedOnce
  BY RequestsKept
<1> QED BY <1>1, <1>2, <1>3, <1>4, PTL DEF Requested!Spec

\* The same of the specification of the access row itself: whatever the bounds, however
\* often the key is rotated and whoever writes (shared_check_authority.entitlements).
THEOREM SourcesSound ==
  Sources!Spec =>
    /\ [](Sources!TypeOK /\ Sources!OneAuthority /\ Sources!NeverUnreadable /\ Sources!SnapshotsWhole)
    /\ [][Sources!SourcesKept]_(Sources!vars)
<1>1. Sources!Init => Sources!IInv
  BY SourcesBegin
<1>2. Sources!IInv /\ [Sources!Next]_(Sources!vars) => Sources!IInv'
  BY SourcesStep, SourcesUnmoved DEF Sources!vars
<1>3. Sources!IInv /\ [Sources!Next]_(Sources!vars) => [Sources!SourcesKept]_(Sources!vars)
  BY SourcesStep
<1>4. Sources!IInv => Sources!TypeOK /\ Sources!OneAuthority /\ Sources!NeverUnreadable /\ Sources!SnapshotsWhole
  BY SourcesHold
<1> QED BY <1>1, <1>2, <1>3, <1>4, PTL DEF Sources!Spec

\* The same of the specification of the chains itself: however many tokens a purchase
\* has and accounts it passes through (shared_purchase_ownership).
THEOREM ChainsSound ==
  Locks!Spec =>
    /\ [](Locks!TypeOK /\ Locks!LocksPaired /\ Locks!ChainOfOne /\ Locks!HeadIsOwned /\ Locks!ErasedForGood)
    /\ [][Locks!NeverTransferred]_(Locks!vars)
<1>1. Locks!Init => Locks!IInv
  BY LocksBegin
<1>2. Locks!IInv /\ [Locks!Next]_(Locks!vars) => Locks!IInv'
  BY LocksStep, LocksUnmoved DEF Locks!vars, Locks!rows
<1>3. Locks!IInv /\ [Locks!Next]_(Locks!vars) => [Locks!NeverTransferred]_(Locks!vars)
  BY LocksStep
<1>4. Locks!IInv => Locks!TypeOK /\ Locks!LocksPaired /\ Locks!ChainOfOne /\ Locks!HeadIsOwned /\ Locks!ErasedForGood
  BY DEF Locks!IInv
<1> QED BY <1>1, <1>2, <1>3, <1>4, PTL DEF Locks!Spec

\* When nothing changes, neither do the pages.
LEMMA PagesRemain ==
  ASSUME UNCHANGED vars
  PROVE  /\ ExportsInv => ExportsInv'
         /\ ListsInv => ListsInv'
         /\ GovernedInv => GovernedInv'
BY ExportUnmoved, ReadUnmoved, ListFails DEF vars, ExportsInv, ListsInv, GovernedInv

\* The parts that are paged through keep their invariants.
LEMMA PagesStep ==
  ExportsInv /\ ListsInv /\ GovernedInv /\ [Next]_vars => ExportsInv' /\ ListsInv' /\ GovernedInv'
<1>1. ASSUME Next, ExportsInv PROVE ExportsInv'
  BY <1>1, ExportStep DEF Next, ExportsInv
<1>2. ASSUME Next, ListsInv PROVE ListsInv'
  BY <1>2, ReadStep DEF Next, ListsInv
<1>3. ASSUME Next, GovernedInv PROVE GovernedInv'
  BY <1>3, ListStep DEF Next, GovernedInv
<1> QED BY <1>1, <1>2, <1>3, PagesRemain

\* Whatever the rows and pages and whatever changes between them: a client that reads
\* its export, its History or its governed History to the end is shown every record that
\* stayed, once, of one generation, and nothing that was cleared before it asked or is
\* another's (account_export_api, history_read_api, governed_history).
THEOREM PagesKept == Spec => PagesHold
<1>1. Init => ExportsInv /\ ListsInv /\ GovernedInv
  BY ExportInits, ReadInits, ListBegins DEF Init, ExportsInv, ListsInv, GovernedInv
<1>2. ExportsInv /\ ListsInv /\ GovernedInv /\ [Next]_vars => ExportsInv' /\ ListsInv' /\ GovernedInv'
  BY PagesStep
<1>3. ExportsInv /\ [Next]_vars => [(part \in {"export", "cleared"}) => Exported!ReleasedToOwner]_vars
  BY ExportStep DEF Next, ExportsInv
<1>4. ListsInv /\ [Next]_vars => [part = "list" => Listed!NothingCleared]_vars
  BY ReadStep DEF Next, ListsInv
<1>5. GovernedInv /\ [Next]_vars => [part = "governed" => Governed!ReleasedToOwner]_vars
  BY ListStep DEF Next, GovernedInv
<1>6. ExportsInv => (part \in {"export", "cleared"} =>
        Exported!TypeOK /\ Exported!NothingLeftOut /\ Exported!OneGeneration)
  BY ExportWhole DEF ExportsInv
<1>7. ListsInv => (part = "list" => Listed!TypeOK /\ Listed!NothingLeftOut)
  BY ReadWhole DEF ListsInv
<1>8. GovernedInv => (part = "governed" => Governed!TypeOK /\ Governed!NothingLeftOut)
  BY ListWhole DEF GovernedInv
<1> QED BY <1>1, <1>2, <1>3, <1>4, <1>5, <1>6, <1>7, <1>8, PTL DEF Spec, PagesHold

\* The same of the specification of the export itself: bindings and generations change
\* together (account_export_api).
THEOREM ExportSound ==
  Exported!Spec =>
    /\ [](Exported!TypeOK /\ Exported!NothingLeftOut /\ Exported!OneGeneration)
    /\ [][Exported!ReleasedToOwner]_(Exported!vars)
<1>1. Exported!Init => Exported!IInv
  BY ExportInits
<1>2. Exported!IInv /\ [Exported!Next]_(Exported!vars) => Exported!IInv'
  BY ExportStep, ExportUnmoved DEF Exported!vars
<1>3. Exported!IInv /\ [Exported!Next]_(Exported!vars) => [Exported!ReleasedToOwner]_(Exported!vars)
  BY ExportStep
<1>4. Exported!IInv => Exported!TypeOK /\ Exported!NothingLeftOut /\ Exported!OneGeneration
  BY ExportWhole
<1> QED BY <1>1, <1>2, <1>3, <1>4, PTL DEF Exported!Spec

\* The same of the specification of the History's lists itself (history_read_api).
THEOREM ListSound ==
  Listed!Spec => [](Listed!TypeOK /\ Listed!NothingLeftOut) /\ [][Listed!NothingCleared]_(Listed!vars)
<1>1. Listed!Init => Listed!IInv
  BY ReadInits
<1>2. Listed!IInv /\ [Listed!Next]_(Listed!vars) => Listed!IInv'
  BY ReadStep, ReadUnmoved DEF Listed!vars
<1>3. Listed!IInv /\ [Listed!Next]_(Listed!vars) => [Listed!NothingCleared]_(Listed!vars)
  BY ReadStep
<1>4. Listed!IInv => Listed!TypeOK /\ Listed!NothingLeftOut
  BY ReadWhole
<1> QED BY <1>1, <1>2, <1>3, <1>4, PTL DEF Listed!Spec

\* The same of the specification of the governed lists itself (governed_history).
THEOREM GovernedSound ==
  Governed!Spec => [](Governed!TypeOK /\ Governed!NothingLeftOut) /\ [][Governed!ReleasedToOwner]_(Governed!vars)
<1>1. Governed!Init => Governed!IInv
  BY ListBegins
<1>2. Governed!IInv /\ [Governed!Next]_(Governed!vars) => Governed!IInv'
  BY ListStep, ListFails DEF Governed!vars
<1>3. Governed!IInv /\ [Governed!Next]_(Governed!vars) => [Governed!ReleasedToOwner]_(Governed!vars)
  BY ListStep
<1>4. Governed!IInv => Governed!TypeOK /\ Governed!NothingLeftOut
  BY ListWhole
<1> QED BY <1>1, <1>2, <1>3, <1>4, PTL DEF Governed!Spec
==============================================================================
