--------------------------- MODULE ServicesProofs ---------------------------
(***************************************************************************)
(* Theorems about the services of MCServices, for any operations,          *)
(* invocations and choices and any settings its assumptions allow.  Each   *)
(* service has an invariant of its own (IInv, in its module); the parts    *)
(* share nothing but their variables.                                      *)
(***************************************************************************)
EXTENDS MCServices, Integers, Sequences, FiniteSetTheorems, WellFoundedInduction, TLAPS

-----------------------------------------------------------------------------
(* AgeGate                                                                 *)

\* What JobInv says of a job depends on the job alone.
LEMMA GateOthers ==
  ASSUME Gate!IInv, NEW w \in Workers, NEW f, v5' = [v5 EXCEPT ![w] = f], Gate!JobInv(w)'
  PROVE  DOMAIN v5' = Workers /\ \A x \in Workers : Gate!JobInv(x)'
<1>1. DOMAIN v5' = Workers /\ \A x \in Workers \ {w} : v5'[x] = v5[x]
  BY DEF Gate!IInv
<1>2. ASSUME NEW x \in Workers \ {w} PROVE Gate!JobInv(x)'
  BY <1>1 DEF Gate!IInv, Gate!JobInv
<1> QED BY <1>1, <1>2

\* An invocation that reads, is refused or dies keeps what it knows of its request.
LEMMA GateReads ==
  ASSUME Gate!IInv, NEW w \in Workers,
         (\E o \in Operations : Gate!Begin(w, o)) \/ Gate!ReadProfile(w) \/ Gate!Cancelled(w) \/ Gate!Crash(w)
  PROVE  Gate!IInv' /\ Gate!ClosedForGood
<1> USE GateAssumed DEF Gate!GateAssumption
<1>1. v1' = v1 /\ v2' = v2 /\ v3' = v3 /\ v4' = v4 /\ v6' = v6 /\ v7' = v7
      /\ v1 \in Gate!Profiles /\ v2 \in [Operations -> Gate!Receipts \cup {None}] /\ v7 \in 0..MaxDay
  BY DEF Gate!IInv, Gate!TypeOK, Gate!Begin, Gate!ReadProfile, Gate!Cancelled, Gate!Crash
<1>2. ASSUME NEW o \in Operations, NEW t \in 0..MaxDay, v2[o] # None,
             v5'[w] = Gate!Replaying(o, t)
      PROVE  Gate!JobInv(w)'
  <2>1. v2[o].at \in Gate!Instants
    BY <1>1, <1>2 DEF Gate!Receipts
  <2> QED BY <2>1, <1>1, <1>2 DEF Gate!Replaying, Gate!JobInv
<1>3. ASSUME NEW o \in Operations, NEW n, NEW t \in 0..MaxDay, v5'[w] = Gate!Trying(o, n, t)
      PROVE  Gate!JobInv(w)'
  BY <1>3 DEF Gate!Trying, Gate!JobInv
<1>4. ASSUME v5'[w] = Gate!Idle PROVE Gate!JobInv(w)'
  BY <1>4 DEF Gate!JobInv
<1>5. DOMAIN v5 = Workers
  BY DEF Gate!IInv
<1>6. Gate!JobInv(w)' /\ \E f : v5' = [v5 EXCEPT ![w] = f]
  <2>1. CASE \E o \in Operations : Gate!Begin(w, o)
    <3> PICK o \in Operations : Gate!Begin(w, o)
      BY <2>1
    <3>1. v5'[w] = (IF v2[o] # None THEN Gate!Replaying(o, v7) ELSE Gate!Trying(o, MaxTries, v7))
      BY <1>5 DEF Gate!Begin
    <3>2. Gate!JobInv(w)'
      BY <3>1, <1>1, <1>2, <1>3
    <3> QED BY <3>2 DEF Gate!Begin
  <2>2. CASE Gate!ReadProfile(w)
    <3>1. v5[w].phase = "read" /\ v5[w].op \in Operations /\ v5[w].day \in 0..MaxDay
      BY <2>2 DEF Gate!ReadProfile, Gate!IInv, Gate!JobInv, Gate!Idle
    <3>2. CASE v1.status \notin {"PENDING_AGE_GATE", "ACTIVE"}
      BY <2>2, <3>2, <1>4, <1>5 DEF Gate!ReadProfile
    <3>3. CASE v1.status \in {"PENDING_AGE_GATE", "ACTIVE"}
      <4> DEFINE at == IF Gate!Attested(v1) THEN v1.at ELSE <<v5[w].op, w>>
      <4>1. v5'[w] = [phase |-> "write", op |-> v5[w].op, left |-> v5[w].left - 1, day |-> v5[w].day,
                      seen |-> v1, at |-> at]
        BY <2>2, <3>3, <1>5 DEF Gate!ReadProfile
      <4>2. at \in Gate!Instants
        BY <3>1 DEF Gate!IInv, Gate!Recorded, Gate!Attested, Gate!Instants
      <4>3. Gate!Attested(v1) => at = v1.at
        OBVIOUS
      <4>4. Gate!JobInv(w)'
        BY <4>1, <4>2, <4>3, <3>1, <3>3, <1>1 DEF Gate!JobInv, Gate!Attested
      <4> QED BY <4>4, <2>2 DEF Gate!ReadProfile
    <3> QED BY <2>2, <3>2, <3>3 DEF Gate!ReadProfile
  <2>3. CASE Gate!Cancelled(w)
    <3>1. v5[w].op \in Operations /\ v5[w].day \in 0..MaxDay
      BY <2>3 DEF Gate!Cancelled, Gate!IInv, Gate!JobInv, Gate!Idle
    <3>2. \/ v2[v5[w].op] # None /\ v5'[w] = Gate!Replaying(v5[w].op, v5[w].day)
          \/ v5'[w] = Gate!Trying(v5[w].op, v5[w].left, v5[w].day)
          \/ v5'[w] = Gate!Idle
      BY <2>3, <1>5 DEF Gate!Cancelled
    <3>3. Gate!JobInv(w)'
      BY <3>1, <3>2, <1>2, <1>3, <1>4
    <3> QED BY <3>3, <2>3 DEF Gate!Cancelled
  <2>4. CASE Gate!Crash(w)
    BY <2>4, <1>4, <1>5 DEF Gate!Crash
  <2> QED BY <2>1, <2>2, <2>3, <2>4
<1>7. DOMAIN v5' = Workers /\ \A x \in Workers : Gate!JobInv(x)'
  BY <1>6, GateOthers
<1>8. Gate!TypeOK' /\ Gate!Recorded'
  BY <1>1 DEF Gate!IInv, Gate!TypeOK, Gate!Recorded
<1> QED BY <1>1, <1>7, <1>8 DEF Gate!IInv, Gate!ClosedForGood, Gate!Recorded

\* The instant of the profile is the one the receipt and the client are given: it is
\* the one that was read, or there was none and nothing had been said.
LEMMA GateAttest ==
  ASSUME Gate!IInv, NEW w \in Workers, Gate!Attest(w)
  PROVE  Gate!IInv' /\ Gate!ClosedForGood
<1> USE GateAssumed DEF Gate!GateAssumption
<1> DEFINE j == v5[w]
           at == j.at
           o  == j.op
<1>1. /\ o \in Operations /\ at \in Gate!Instants /\ j.day \in 0..MaxDay
      /\ v1.status \in {"PENDING_AGE_GATE", "ACTIVE"}
      /\ v1.status = "ACTIVE" => at = v1.at
      /\ v3 = None
  BY DEF Gate!Attest, Gate!CanAttest, Gate!Snapshot, Gate!IInv, Gate!JobInv, Gate!Idle, Gate!Attested
<1>2. /\ v1 \in Gate!Profiles /\ v2 \in [Operations -> Gate!Receipts \cup {None}]
      /\ v6 \in [Operations -> Gate!Instants \cup {None}] /\ v7 \in 0..MaxDay /\ DOMAIN v5 = Workers
  BY DEF Gate!IInv, Gate!TypeOK
<1>3. v1'.status = "ACTIVE" /\ v1'.at = at /\ v1' \in Gate!Profiles
  BY <1>1, <1>2 DEF Gate!Attest, Gate!CanAttest, Gate!Snapshot, Gate!Attested, Gate!Profiles
<1>4. /\ v2' = [v2 EXCEPT ![o] = [at |-> at, until |-> j.day + Life]]
      /\ v6' = [v6 EXCEPT ![o] = at] \/ v6' = v6
      /\ v3' = v3 /\ v4' = v4 /\ v7' = v7 /\ v5' = [v5 EXCEPT ![w] = Gate!Idle]
  BY DEF Gate!Attest
<1>5. [at |-> at, until |-> j.day + Life] \in Gate!Receipts
  BY <1>1 DEF Gate!Receipts
<1>6. Gate!TypeOK'
  BY <1>1, <1>2, <1>3, <1>4, <1>5 DEF Gate!IInv, Gate!TypeOK
<1>7. DOMAIN v5' = Workers /\ \A x \in Workers : Gate!JobInv(x)'
  <2>1. Gate!JobInv(w)'
    BY <1>2, <1>4 DEF Gate!JobInv
  <2> QED BY <2>1, <1>4, GateOthers
<1>8. Gate!Recorded'
  <2>1. /\ \A q \in Operations : v6[q] \in {v1.at, None} /\ (v2[q] # None => v2[q].at = v1.at)
        /\ v1.status = "PENDING_AGE_GATE" => v1.at = None
    BY <1>1 DEF Gate!IInv, Gate!Recorded
  <2>2. ASSUME NEW q \in Operations PROVE v6[q] \in {at, None} /\ (v2[q] # None => v2[q].at = at)
    <3>1. CASE v1.status = "ACTIVE"
      BY <3>1, <2>1, <1>1
    <3>2. CASE v1.status = "PENDING_AGE_GATE"
      BY <3>2, <2>1, <1>2 DEF Gate!Receipts
    <3> QED BY <3>1, <3>2, <1>1
  <2>3. ASSUME NEW q \in Operations PROVE v6'[q] \in {at, None} /\ (v2'[q] # None => v2'[q].at = at)
    BY <2>2, <1>4, <1>2, <1>1
  <2>4. ~v4'
    BY <1>1, <1>4 DEF Gate!IInv, Gate!Recorded, Gate!TypeOK
  <2> QED BY <2>3, <2>4, <1>1, <1>3, <1>4 DEF Gate!Recorded
<1> QED BY <1>1, <1>4, <1>6, <1>7, <1>8 DEF Gate!IInv, Gate!ClosedForGood, Gate!Recorded, Gate!TypeOK

\* A stored answer is given again only if the profile still has its instant.
LEMMA GateReplay ==
  ASSUME Gate!IInv, NEW w \in Workers, Gate!Replay(w)
  PROVE  Gate!IInv' /\ Gate!ClosedForGood
<1> USE GateAssumed DEF Gate!GateAssumption
<1>1. v5[w].op \in Operations /\ v5[w].at \in Gate!Instants
  BY DEF Gate!Replay, Gate!IInv, Gate!JobInv, Gate!Idle
<1>2. /\ v1' = v1 /\ v2' = v2 /\ v3' = v3 /\ v4' = v4 /\ v7' = v7 /\ v5' = [v5 EXCEPT ![w] = Gate!Idle]
      /\ v6' = v6 \/ (v3 = None /\ v1.at = v5[w].at /\ v6' = [v6 EXCEPT ![v5[w].op] = v1.at])
  <2> DEFINE stored == v2[v5[w].op]
             again == /\ v3 = None /\ v1 = [status |-> "ACTIVE", at |-> v5[w].at]
                      /\ stored # None /\ (stored # None => stored.until >= v5[w].day)
  <2>1. v6' = IF again THEN [v6 EXCEPT ![v5[w].op] = v5[w].at] ELSE v6
    BY DEF Gate!Replay
  <2>2. v1' = v1 /\ v2' = v2 /\ v3' = v3 /\ v4' = v4 /\ v7' = v7 /\ v5' = [v5 EXCEPT ![w] = Gate!Idle]
    BY DEF Gate!Replay
  <2>3. again => v3 = None /\ v1.at = v5[w].at
    OBVIOUS
  <2> HIDE DEF again
  <2> QED BY <2>1, <2>2, <2>3
<1>3. v6 \in [Operations -> Gate!Instants \cup {None}] /\ DOMAIN v5 = Workers
  BY DEF Gate!IInv, Gate!TypeOK
<1>4. Gate!TypeOK'
  BY <1>1, <1>2, <1>3 DEF Gate!IInv, Gate!TypeOK
<1>5. DOMAIN v5' = Workers /\ \A x \in Workers : Gate!JobInv(x)'
  <2>1. Gate!JobInv(w)'
    BY <1>2, <1>3 DEF Gate!JobInv
  <2> QED BY <2>1, <1>2, GateOthers
<1>6. Gate!Recorded'
  <2> PICK a \in Gate!Instants \cup {None} :
        /\ v1.at \in {a, None}
        /\ v3 = None => a = v1.at
        /\ \A o \in Operations : v6[o] \in {a, None} /\ (v2[o] # None => v2[o].at = a)
    BY DEF Gate!IInv, Gate!Recorded
  <2>1. \A o \in Operations : v6'[o] \in {a, None}
    BY <1>1, <1>2, <1>3
  <2> QED BY <2>1, <1>2 DEF Gate!IInv, Gate!Recorded, Gate!Absent
<1> QED BY <1>2, <1>4, <1>5, <1>6 DEF Gate!IInv, Gate!ClosedForGood, Gate!Recorded

\* Sign-up, the deletion and the expiry of receipts.
LEMMA GateRows ==
  ASSUME Gate!IInv,
         Gate!SignUp \/ Gate!RequestDeletion \/ Gate!EraseProfile \/ Gate!FinishErasure \/ Gate!Tick
         \/ \E o \in Operations : Gate!Expire(o)
  PROVE  Gate!IInv' /\ Gate!ClosedForGood
<1> USE GateAssumed DEF Gate!GateAssumption
<1>1. /\ v1 \in Gate!Profiles /\ v2 \in [Operations -> Gate!Receipts \cup {None}]
      /\ v3 \in 0..MaxDay \cup {None} /\ v4 \in BOOLEAN
      /\ v6 \in [Operations -> Gate!Instants \cup {None}] /\ v7 \in 0..MaxDay
  BY DEF Gate!IInv, Gate!TypeOK
<1>2. v5' = v5 /\ v6' = v6
  BY DEF Gate!SignUp, Gate!RequestDeletion, Gate!EraseProfile, Gate!FinishErasure, Gate!Tick, Gate!Expire
<1>3. /\ v1' \in Gate!Profiles /\ v3' \in 0..MaxDay \cup {None} /\ v4' \in BOOLEAN /\ v7' \in 0..MaxDay
      /\ v2' \in [Operations -> Gate!Receipts \cup {None}]
      /\ \A o \in Operations : v2'[o] \in {v2[o], None}
  <2>1. CASE Gate!SignUp \/ Gate!RequestDeletion
    BY <2>1, <1>1 DEF Gate!SignUp, Gate!RequestDeletion, Gate!Profiles, Gate!Absent
  <2>2. CASE Gate!EraseProfile
    <3>1. Gate!Absent \in Gate!Profiles
      BY DEF Gate!Absent, Gate!Profiles
    <3> QED BY <3>1, <2>2, <1>1 DEF Gate!EraseProfile
  <2>5. CASE Gate!FinishErasure
    BY <2>5, <1>1 DEF Gate!FinishErasure
  <2>4. CASE Gate!Tick
    BY <2>4, <1>1 DEF Gate!Tick
  <2>3. CASE \E o \in Operations : Gate!Expire(o)
    BY <2>3, <1>1 DEF Gate!Expire
  <2> QED BY <2>1, <2>2, <2>3, <2>4, <2>5
<1>4. (\A w \in Workers : Gate!JobInv(w)') /\ DOMAIN v5' = Workers
  BY <1>2 DEF Gate!IInv, Gate!JobInv
<1>5. PICK a \in Gate!Instants \cup {None} :
        /\ v1.at \in {a, None}
        /\ v3 = None => a = v1.at
        /\ \A o \in Operations : v6[o] \in {a, None} /\ (v2[o] # None => v2[o].at = a)
  BY DEF Gate!IInv, Gate!Recorded
<1>6. \A o \in Operations : v6'[o] \in {a, None} /\ (v2'[o] # None => v2'[o].at = a)
  BY <1>2, <1>3, <1>5
<1>7. Gate!Recorded' /\ Gate!ClosedForGood
  <2> USE DEF Gate!Recorded, Gate!ClosedForGood, Gate!Absent, Gate!Profiles
  <2>1. CASE Gate!SignUp
    BY <2>1, <1>1, <1>5, <1>6 DEF Gate!SignUp, Gate!IInv
  <2>2. CASE Gate!RequestDeletion
    BY <2>2, <1>1, <1>5, <1>6 DEF Gate!RequestDeletion, Gate!IInv
  <2>3. CASE Gate!EraseProfile
    BY <2>3, <1>1, <1>5, <1>6 DEF Gate!EraseProfile, Gate!IInv, Gate!Erasable
  <2>4. CASE Gate!FinishErasure
    BY <2>4, <1>1, <1>5, <1>6 DEF Gate!FinishErasure, Gate!IInv, Gate!Erasable
  <2>5. CASE Gate!Tick \/ \E o \in Operations : Gate!Expire(o)
    BY <2>5, <1>1, <1>2, <1>3, <1>5, <1>6 DEF Gate!Tick, Gate!Expire, Gate!IInv
  <2> QED BY <2>1, <2>2, <2>3, <2>4, <2>5
<1> QED BY <1>1, <1>2, <1>3, <1>4, <1>7 DEF Gate!IInv, Gate!TypeOK

\* Every step of the gate keeps its invariant and what it promises.
LEMMA GateStep ==
  ASSUME Gate!IInv, Gate!Next
  PROVE  Gate!IInv' /\ Gate!ClosedForGood
BY GateReads, GateAttest, GateReplay, GateRows DEF Gate!Next, Gate!Work

\* One instant for every answer, receipt and the profile.
LEMMA GateOnce == Gate!IInv => Gate!TypeOK /\ Gate!AttestedOnce
<1> SUFFICES ASSUME Gate!IInv PROVE Gate!AttestedOnce
  BY DEF Gate!IInv
<1>1. PICK a \in Gate!Instants \cup {None} :
        /\ v1.at \in {a, None}
        /\ \A o \in Operations : v6[o] \in {a, None} /\ (v2[o] # None => v2[o].at = a)
  BY DEF Gate!IInv, Gate!Recorded
<1> DEFINE named == {v6[o] : o \in Operations}
                    \cup {v2[o].at : o \in {q \in Operations : v2[q] # None}} \cup {v1.at}
<1>2. \A x \in named : x \in {a, None}
  BY <1>1
<1>3. \A x, y \in named \ {None} : x = y
  BY <1>2
<1> QED BY <1>3 DEF Gate!AttestedOnce

\* However often and under whatever operationIds clients attest their age, at the same
\* time or after lost answers, answers, receipts and the profile name one instant; and
\* behind the deletion's fence nothing is written or told (age_attestation,
\* delete_user_profile_state).
THEOREM GateSound == Spec => GateHolds
<1> DEFINE Inv == part = "gate" => Gate!IInv
<1>1. Init => Inv
  <2> SUFFICES ASSUME Gate!Init PROVE Gate!IInv
    BY DEF Init
  <2>1. Gate!Recorded
    <3>1. /\ v1.at = None /\ v1.status = "absent" /\ v3 = None /\ ~v4
          /\ \A o \in Operations : v6[o] = None /\ v2[o] = None
      BY DEF Gate!Init, Gate!Absent
    <3> QED BY <3>1 DEF Gate!Recorded
  <2>2. Gate!TypeOK
    <3>1. v1 \in Gate!Profiles
      BY DEF Gate!Init, Gate!Absent, Gate!Profiles
    <3>2. v7 \in 0..MaxDay
      BY GateAssumed DEF Gate!Init, Gate!GateAssumption
    <3> QED BY <3>1, <3>2 DEF Gate!Init, Gate!TypeOK
  <2> QED BY <2>1, <2>2 DEF Gate!Init, Gate!IInv, Gate!JobInv
<1>2. Inv /\ [Next]_vars => Inv'
  BY GateStep DEF Next, vars, Gate!IInv, Gate!TypeOK, Gate!JobInv, Gate!Recorded, Gate!Attested
<1>3. Inv /\ [Next]_vars => [part = "gate" => Gate!ClosedForGood]_vars
  BY GateStep DEF Next
<1>4. Inv => (part = "gate" => Gate!TypeOK /\ Gate!AttestedOnce)
  BY GateOnce
<1> QED BY <1>1, <1>2, <1>3, <1>4, PTL DEF Spec, GateHolds

-----------------------------------------------------------------------------
(* ProviderBudget                                                          *)

\* The row that was read is the one that is overwritten, so what was seen of it (room
\* for a call) still holds.
LEMMA BudgetReserve ==
  ASSUME Budget!IInv, NEW w \in Workers, Budget!Reserve(w)
  PROVE  Budget!IInv' /\ Budget!FailuresStopCalls
<1> USE BudgetAssumed DEF Budget!BudgetAssumption
<1> DEFINE j == v3[w]
<1>1. /\ j.phase = "write" /\ j.window \in 0..Windows /\ j.seen = v2
      /\ ~Budget!Spent(v2, j.window) /\ v2.revision < MaxReserved
  BY DEF Budget!IInv, Budget!JobInv, Budget!Reserve, Budget!Unchanged, Budget!Idle
<1>2. v2 \in Budget!Rows /\ v5 = v2.attempts /\ v5 <= MaxAttempts /\ v1 \in 0..Windows
      /\ v4 \in [0..Windows -> Nat] /\ DOMAIN v3 = Workers
  BY DEF Budget!IInv, Budget!TypeOK
<1>3. v2' = [revision |-> v2.revision + 1, window |-> j.window,
             attempts |-> IF v2.window = j.window THEN v2.attempts + 1 ELSE 1,
             failures |-> IF v2.window = j.window THEN v2.failures ELSE 0]
      /\ v5' = (IF v2.window = j.window THEN v5 + 1 ELSE 1)
  BY <1>1 DEF Budget!Reserve
<1>4. v2' \in Budget!Rows /\ v5' = v2'.attempts /\ v2'.attempts <= MaxAttempts
  BY <1>1, <1>2, <1>3 DEF Budget!Rows, Budget!Spent
<1>5. v4' \in [0..Windows -> Nat]
  BY <1>1, <1>2 DEF Budget!Reserve
<1>6. ASSUME NEW x \in Workers PROVE Budget!JobInv(x)'
  <2>1. CASE x = w
    BY <1>1, <1>2, <2>1 DEF Budget!Reserve, Budget!JobInv
  <2>2. CASE x # w
    <3>1. v3'[x] = v3[x]
      BY <2>2, <1>2 DEF Budget!Reserve
    <3>2. Budget!JobInv(x)
      BY DEF Budget!IInv
    <3> QED BY <3>1, <3>2, <1>2, <1>3, <1>1 DEF Budget!JobInv, Budget!Unchanged, Budget!Rows, Budget!Spent
  <2> QED BY <2>1, <2>2
<1>7. Budget!IInv'
  BY <1>2, <1>4, <1>5, <1>6 DEF Budget!IInv, Budget!TypeOK, Budget!Reserve
<1>8. Budget!FailuresStopCalls
  BY <1>1, <1>2, <1>3 DEF Budget!FailuresStopCalls, Budget!Spent, Budget!Rows
<1> QED BY <1>7, <1>8

\* A failure moves the revision on, or leaves the row alone.
LEMMA BudgetCallFails ==
  ASSUME Budget!IInv, NEW w \in Workers, Budget!CallFails(w)
  PROVE  Budget!IInv' /\ Budget!FailuresStopCalls
<1> USE BudgetAssumed DEF Budget!BudgetAssumption
<1>1. v2 \in Budget!Rows /\ v5 = v2.attempts /\ v5 <= MaxAttempts /\ DOMAIN v3 = Workers
  BY DEF Budget!IInv, Budget!TypeOK
<1>2. v2'.attempts = v2.attempts /\ v2' \in Budget!Rows /\ v5' = v5
      /\ (v2' = v2 \/ v2'.revision = v2.revision + 1)
  <2>1. v5' = v5 /\ v2.revision < MaxReserved
        /\ (v2' = v2 \/ v2' = [v2 EXCEPT !.failures = v2.failures + 1, !.revision = v2.revision + 1])
    BY DEF Budget!CallFails
  <2>2. ASSUME v2' = [v2 EXCEPT !.failures = v2.failures + 1, !.revision = v2.revision + 1]
        PROVE  v2' \in Budget!Rows /\ v2'.attempts = v2.attempts /\ v2'.revision = v2.revision + 1
    <3>1. v2' = [revision |-> v2.revision + 1, window |-> v2.window, attempts |-> v2.attempts,
                 failures |-> v2.failures + 1]
      BY <2>2, <1>1 DEF Budget!Rows
    <3> QED BY <3>1, <2>1, <1>1 DEF Budget!Rows
  <2> QED BY <1>1, <2>1, <2>2
<1>3. ASSUME NEW x \in Workers PROVE Budget!JobInv(x)'
  <2>1. CASE x = w
    BY <1>1, <2>1 DEF Budget!CallFails, Budget!JobInv
  <2>2. CASE x # w
    <3>1. v3'[x] = v3[x]
      BY <2>2, <1>1 DEF Budget!CallFails
    <3>2. Budget!JobInv(x)
      BY DEF Budget!IInv
    <3> QED BY <3>1, <3>2, <1>1, <1>2 DEF Budget!JobInv, Budget!Unchanged, Budget!Rows, Budget!Spent
  <2> QED BY <2>1, <2>2
<1>4. Budget!IInv'
  BY <1>1, <1>2, <1>3 DEF Budget!IInv, Budget!TypeOK, Budget!CallFails
<1>5. Budget!FailuresStopCalls
  BY <1>1, <1>2 DEF Budget!FailuresStopCalls, Budget!CallFails, Budget!Rows
<1> QED BY <1>4, <1>5

\* The other steps of an invocation change nothing but its job.
LEMMA BudgetQuiet ==
  ASSUME Budget!IInv, NEW w \in Workers,
         Budget!ReadClock(w) \/ Budget!ReadBudget(w) \/ Budget!Refused(w) \/ Budget!Ends(w)
  PROVE  Budget!IInv' /\ Budget!FailuresStopCalls
<1> USE BudgetAssumed DEF Budget!BudgetAssumption
<1>1. v1' = v1 /\ v2' = v2 /\ v4' = v4 /\ v5' = v5 /\ DOMAIN v3 = Workers /\ DOMAIN v3' = Workers
      /\ \A x \in Workers \ {w} : v3'[x] = v3[x]
  BY DEF Budget!IInv, Budget!ReadClock, Budget!ReadBudget, Budget!Refused, Budget!Ends
<1>2. v2 \in Budget!Rows /\ v1 \in 0..Windows
  BY DEF Budget!IInv, Budget!TypeOK
<1>3. Budget!JobInv(w)'
  <2>1. CASE Budget!ReadClock(w)
    BY <2>1, <1>1, <1>2 DEF Budget!ReadClock, Budget!JobInv
  <2>2. CASE Budget!ReadBudget(w)
    <3>1. v3[w].phase = "read" /\ v3[w].window \in 0..Windows
      BY <2>2 DEF Budget!ReadBudget, Budget!IInv, Budget!JobInv, Budget!Idle
    <3>2. \/ v3'[w] = Budget!Idle
          \/ /\ v3'[w] = [phase |-> "write", window |-> v3[w].window, seen |-> v2]
             /\ ~Budget!Spent(v2, v3[w].window)
      BY <2>2, <1>1 DEF Budget!ReadBudget
    <3> QED BY <3>1, <3>2, <1>1, <1>2 DEF Budget!JobInv, Budget!Rows, Budget!Unchanged
  <2>3. CASE Budget!Refused(w) \/ Budget!Ends(w)
    BY <2>3, <1>1 DEF Budget!Refused, Budget!Ends, Budget!JobInv
  <2> QED BY <2>1, <2>2, <2>3
<1>4. ASSUME NEW x \in Workers PROVE Budget!JobInv(x)'
  BY <1>1, <1>3 DEF Budget!IInv, Budget!JobInv, Budget!Unchanged, Budget!Spent
<1>5. Budget!IInv'
  BY <1>1, <1>4 DEF Budget!IInv, Budget!TypeOK
<1> QED BY <1>1, <1>2, <1>5 DEF Budget!FailuresStopCalls, Budget!Rows

\* Every step of the budget keeps its invariant and what it promises.
LEMMA BudgetStep ==
  ASSUME Budget!IInv, Budget!Next
  PROVE  Budget!IInv' /\ Budget!FailuresStopCalls
<1>1. CASE Budget!Tick
  BY <1>1, BudgetAssumed DEF Budget!Tick, Budget!IInv, Budget!TypeOK, Budget!JobInv, Budget!Unchanged,
     Budget!Spent, Budget!FailuresStopCalls, Budget!BudgetAssumption, Budget!Rows
<1>2. ASSUME NEW w \in Workers,
             Budget!ReadClock(w) \/ Budget!ReadBudget(w) \/ Budget!Reserve(w) \/ Budget!Refused(w)
             \/ Budget!CallFails(w) \/ Budget!Ends(w)
      PROVE  Budget!IInv' /\ Budget!FailuresStopCalls
  BY <1>2, BudgetReserve, BudgetCallFails, BudgetQuiet
<1> QED BY <1>1, <1>2 DEF Budget!Next

\* However many invocations share the budget's row, a window it counts for admits no
\* more calls than it may, and none after its failures (ProviderBudget.reserve, failed).
THEOREM BudgetSound == Spec => BudgetHolds
<1> DEFINE Inv == part = "budget" => Budget!IInv
<1>1. Init => Inv
  BY BudgetAssumed DEF Init, Budget!Init, Budget!IInv, Budget!TypeOK, Budget!JobInv, Budget!Rows,
     Budget!NoBudget, Budget!BudgetAssumption, Budget!Unchanged, Budget!Spent
<1>2. Inv /\ [Next]_vars => Inv'
  BY BudgetStep DEF Next, vars, Budget!IInv, Budget!TypeOK, Budget!JobInv, Budget!Unchanged, Budget!Spent
<1>3. Inv /\ [Next]_vars => [part = "budget" => Budget!FailuresStopCalls]_vars
  BY BudgetStep DEF Next
<1>4. Inv => (part = "budget" => Budget!TypeOK /\ Budget!WithinBudget)
  BY DEF Budget!IInv, Budget!WithinBudget
<1> QED BY <1>1, <1>2, <1>3, <1>4, PTL DEF Spec, BudgetHolds

-----------------------------------------------------------------------------
(* Reconciliation                                                          *)

\* What an invocation does alone, in the module's order.
ScansRun(r) ==
  \/ Scans!Start(r) \/ Scans!ReadPage(r) \/ Scans!Take(r) \/ Scans!Work(r) \/ Scans!Obsolete(r)
  \/ Scans!EndPage(r) \/ Scans!Stop(r) \/ Scans!NextPage(r) \/ Scans!Commit(r) \/ Scans!CutShort(r)

\* The next command of a page is one of its commands, and the first.
LEMMA ScansMin ==
  ASSUME NEW S, S \subseteq Scans!Places, S # {}
  PROVE  Scans!Min(S) \in S /\ \A y \in S : Scans!Min(S) <= y
<1>1. S \subseteq Nat
  BY ScansAssumed DEF Scans!ReconciliationAssumption, Scans!Places
<1> DEFINE R == {x \in Nat \X Nat : x[1] < x[2]}
<1>2. IsWellFoundedOn(R, Nat)
  <2>1. R = OpToRel(<, Nat)
    BY Zenon DEF OpToRel
  <2> QED BY <2>1, NatLessThanWellFounded
<1>3. \A m, n \in Nat : m < n => <<m, n>> \in R
  OBVIOUS
<1> HIDE DEF R
<1>4. PICK m \in S : \A y \in S : ~(<<y, m>> \in R)
  BY <1>1, <1>2, WFMin, Zenon
<1>5. ASSUME NEW y \in S PROVE m <= y
  <2>1. m \in Nat /\ y \in Nat
    BY <1>1
  <2>2. ~(y < m)
    BY <2>1, <1>3, <1>4
  <2> QED BY <2>1, <2>2
<1> QED BY <1>5 DEF Scans!Min

\* A run's step leaves the jobs of others and the commands alone.
LEMMA ScansShape ==
  ASSUME NEW r \in Workers, ScansRun(r)
  PROVE  v1' = v1 /\ v2' = v2 /\ v7' = v7 /\ \E f : v4' = [v4 EXCEPT ![r] = f]
BY DEF ScansRun, Scans!Start, Scans!ReadPage, Scans!Take, Scans!Work, Scans!Obsolete, Scans!EndPage,
   Scans!Stop, Scans!NextPage, Scans!Commit, Scans!CutShort

\* What JobInv says of a job depends on the job and on the commands.
LEMMA ScansOthers ==
  ASSUME Scans!PassInv, NEW r \in Workers, ScansRun(r), Scans!JobInv(r)'
  PROVE  DOMAIN v4' = Workers /\ \A x \in Workers : Scans!JobInv(x)'
<1>1. v1' = v1 /\ v2' = v2 /\ \E f : v4' = [v4 EXCEPT ![r] = f]
  BY ScansShape
<1>2. DOMAIN v4' = Workers /\ \A x \in Workers \ {r} : v4'[x] = v4[x]
  BY <1>1 DEF Scans!PassInv
<1>3. ASSUME NEW x \in Workers \ {r} PROVE Scans!JobInv(x)'
  <2>1. Scans!JobInv(x)
    BY DEF Scans!PassInv
  <2> QED BY <2>1, <1>1, <1>2 DEF Scans!JobInv, Scans!PageInv, Scans!Ahead, Scans!Marked, Scans!OnPage
<1> QED BY <1>2, <1>3

ScansSaved == [at : 0..Ledger, failed : BOOLEAN, revision : 0..MaxSaved, owed : SUBSET Scans!Places]

\* What the checkpoint's and a run's sets are made of.
LEMMA ScansFacts ==
  ASSUME Scans!PassInv
  PROVE  /\ Ledger \in Nat /\ PageSize \in Nat \ {0} /\ MaxSaved \in Nat
         /\ v1 \in {"session", "history", "authority"} /\ v2 \subseteq Scans!Places
         /\ v3 \in ScansSaved /\ v3.owed \subseteq v2 /\ DOMAIN v4 = Workers
         /\ Scans!Marked(v3.failed) \/ \A c \in v3.owed : v3.at < c
BY ScansAssumed DEF Scans!ReconciliationAssumption, Scans!PassInv, Scans!TypeOK, Scans!Ahead, ScansSaved

\* What a page's job is.
LEMMA ScansPage ==
  ASSUME Scans!PassInv, NEW r \in Workers, v4[r].phase \in {"page", "work"}
  PROVE  v4[r] \in Scans!Paging /\ Scans!PageInv(v4[r])
BY DEF Scans!PassInv, Scans!JobInv, Scans!Idle, Scans!Cleans, Scans!Scanning

\* What a scanning run's job is.
LEMMA ScansScan ==
  ASSUME Scans!PassInv, NEW r \in Workers, v4[r].phase = "scan"
  PROVE  v4[r] \in Scans!Scanning /\ Scans!Ahead(v4[r].at, v4[r].failed, v4[r].owed)
BY DEF Scans!PassInv, Scans!JobInv, Scans!Idle, Scans!Cleans, Scans!Paging

\* A pass begins with every command ahead of it, or goes on where one was saved.
LEMMA PassStart ==
  ASSUME Scans!PassInv, NEW r \in Workers, Scans!Start(r)
  PROVE  v3' = v3 /\ Scans!JobInv(r)'
<1> DEFINE fresh == v3.at = 0
<1>1. v4'[r] = [phase |-> "scan", at |-> v3.at, failed |-> v3.failed, revision |-> v3.revision,
                owed |-> IF fresh THEN v2 ELSE v3.owed, pages |-> 0, tries |-> 0]
      /\ v3' = v3 /\ v2' = v2 /\ v1' = v1 /\ v3.revision < MaxSaved
  BY ScansFacts DEF Scans!Start
<1>2. v4'[r] \in Scans!Scanning
  BY <1>1, ScansFacts DEF Scans!Scanning, ScansSaved
<1>3. Scans!Ahead(v3.at, v3.failed, IF fresh THEN v2 ELSE v3.owed)
  BY ScansFacts DEF Scans!Ahead, Scans!Places
<1> QED BY <1>1, <1>2, <1>3 DEF Scans!JobInv, Scans!Ahead, Scans!Marked

\* A page holds the commands up to its end: what is owed is on it or beyond it.
LEMMA PassReadPage ==
  ASSUME Scans!PassInv, NEW r \in Workers, Scans!ReadPage(r)
  PROVE  v3' = v3 /\ Scans!JobInv(r)'
<1> DEFINE j == v4[r]
           end == j.at + PageSize
           todo == {c \in v2 : j.at < c /\ c <= end}
           nxt == IF end > Ledger THEN 0 ELSE end
           jj == [phase |-> "page", at |-> j.at, failed |-> j.failed, revision |-> j.revision,
                  owed |-> j.owed, pages |-> j.pages + 1, tries |-> j.tries, todo |-> todo, next |-> nxt]
<1>1. j \in Scans!Scanning /\ Scans!Ahead(j.at, j.failed, j.owed)
  BY ScansScan DEF Scans!ReadPage
<1>2. v4'[r] = jj /\ v3' = v3 /\ v2' = v2 /\ v1' = v1
  BY ScansFacts DEF Scans!ReadPage
<1>3. j.at \in 0..Ledger /\ nxt \in 0..Ledger /\ (nxt # 0 => nxt = end) /\ j.at < end
  BY <1>1, ScansFacts DEF Scans!Scanning
<1>4. todo \in SUBSET Scans!Places
  BY ScansFacts
<1>5. jj \in Scans!Paging
  BY <1>1, <1>3, <1>4 DEF Scans!Scanning, Scans!Paging
<1>6. Scans!PageInv(jj)
  <2>1. \A c \in v2 : c \in Nat /\ c <= Ledger
    BY ScansFacts DEF Scans!Places
  <2>2. j.owed \subseteq v2 /\ (Scans!Marked(j.failed) \/ \A c \in j.owed : j.at < c)
    BY <1>1 DEF Scans!Ahead
  <2>3. \A c \in v2 : j.at < c => c \in todo \/ (nxt # 0 /\ ~(c <= nxt))
    BY <1>3, <2>1, ScansFacts
  <2>4. \A c \in todo : c \in v2 /\ j.at < c /\ (nxt = 0 \/ c <= nxt)
    BY <1>3
  <2>5. nxt = 0 \/ j.at <= nxt
    BY <1>3, ScansFacts
  <2> HIDE DEF nxt, todo
  <2> QED BY <2>2, <2>3, <2>4, <2>5 DEF Scans!PageInv, Scans!OnPage
<1> QED BY <1>2, <1>5, <1>6 DEF Scans!JobInv, Scans!PageInv, Scans!OnPage, Scans!Marked

\* The checkpoint, as a part of PassInv.
ScansPlace == v3 \in ScansSaved /\ Scans!Ahead(v3.at, v3.failed, v3.owed)

\* The pass's invariant says this of the checkpoint.
LEMMA ScansPlaced == Scans!PassInv => ScansPlace
BY ScansFacts DEF ScansPlace, Scans!PassInv

\* The turn of a command moves no further than to the command.
LEMMA PassTake ==
  ASSUME Scans!PassInv, NEW r \in Workers, Scans!Take(r)
  PROVE  ScansPlace' /\ Scans!JobInv(r)'
<1> DEFINE j == v4[r]
           c == Scans!Min(j.todo)
           jj == IF v1 = "history" THEN [j EXCEPT !.phase = "work"]
                 ELSE [j EXCEPT !.phase = "work", !.at = c, !.tries = j.tries + 1]
<1>1. j \in Scans!Paging /\ Scans!PageInv(j) /\ j.phase = "page" /\ j.todo # {}
  BY ScansPage DEF Scans!Take
<1>2. v4'[r] = jj /\ v2' = v2 /\ v1' = v1
      /\ IF v1 = "session" THEN v3' = [v3 EXCEPT !.at = c, !.failed = TRUE, !.owed = j.owed] ELSE v3' = v3
  BY ScansFacts DEF Scans!Take, Scans!SaveBefore, Scans!Save
<1>3. c \in j.todo /\ \A y \in j.todo : c <= y
  BY <1>1, ScansMin DEF Scans!Paging
<1>4. c \in 0..Ledger /\ \A y \in v2 : y \in Nat
  BY <1>1, <1>3, ScansFacts DEF Scans!Paging, Scans!Places
<1>5. /\ jj \in Scans!Paging /\ jj.phase = "work" /\ jj.todo = j.todo /\ jj.owed = j.owed
      /\ jj.next = j.next /\ jj.failed = j.failed
      /\ jj.at = (IF v1 = "history" THEN j.at ELSE c)
  <2>1. CASE v1 = "history"
    BY <2>1, <1>1 DEF Scans!Paging
  <2>2. CASE v1 # "history"
    <3>1. jj = [phase |-> "work", at |-> c, failed |-> j.failed, revision |-> j.revision, owed |-> j.owed,
                pages |-> j.pages, tries |-> j.tries + 1, todo |-> j.todo, next |-> j.next]
      BY <2>2, <1>1 DEF Scans!Paging
    <3>2. c \in 0..Ledger
      BY <1>4
    <3> HIDE DEF c
    <3> QED BY <3>1, <3>2, <2>2, <1>1 DEF Scans!Paging
  <2> QED BY <2>1, <2>2
<1> HIDE DEF jj, c
<1>6. Scans!PageInv(jj)
  BY <1>1, <1>3, <1>4, <1>5 DEF Scans!PageInv, Scans!OnPage, Scans!Paging, Scans!Min, c
<1>7. Scans!JobInv(r)'
  BY <1>2, <1>5, <1>6 DEF Scans!JobInv, Scans!PageInv, Scans!OnPage, Scans!Marked
<1>8. ScansPlace'
  <2>1. CASE v1 = "session"
    <3>1. v3' \in ScansSaved /\ v3'.failed = TRUE /\ v3'.owed = j.owed
      BY <2>1, <1>1, <1>2, <1>4, ScansFacts DEF ScansSaved, Scans!Paging
    <3> QED BY <3>1, <2>1, <1>1, <1>2 DEF ScansPlace, Scans!Ahead, Scans!Marked, Scans!PageInv
  <2>2. CASE v1 # "session"
    BY <2>2, <1>2, ScansPlaced DEF ScansPlace, Scans!Ahead, Scans!Marked
  <2> QED BY <2>1, <2>2
<1> QED BY <1>7, <1>8

\* A command that was worked on is owed no more; one that failed marks the pass, in the
\* scan that reports failures.
LEMMA PassWork ==
  ASSUME Scans!PassInv, NEW r \in Workers, Scans!Work(r) \/ Scans!Obsolete(r)
  PROVE  ScansPlace' /\ Scans!JobInv(r)'
<1> DEFINE j == v4[r]
           c == Scans!Min(j.todo)
<1>1. j \in Scans!Paging /\ Scans!PageInv(j) /\ j.phase = "work" /\ j.todo # {}
  BY ScansPage DEF Scans!Work, Scans!Obsolete, Scans!PageInv
<1>2. PICK failed \in BOOLEAN, owed \in {j.owed, j.owed \ {c}} :
        /\ v4'[r] = [j EXCEPT !.phase = "page", !.todo = j.todo \ {c}, !.failed = failed, !.owed = owed]
        /\ j.failed => failed
        /\ owed = j.owed \ {c} \/ Scans!Marked(failed)
        /\ v3' = v3 \/ (v1 = "session" /\ v3' = [v3 EXCEPT !.at = j.at, !.failed = failed, !.owed = owed])
  <2>1. CASE Scans!Work(r)
    <3>1. PICK success \in BOOLEAN :
            LET failed == j.failed \/ ~success
                owed == Scans!Paid(j, c, success)
            IN /\ v1 = "history" => success
               /\ v4'[r] = [j EXCEPT !.phase = "page", !.todo = j.todo \ {c}, !.failed = failed, !.owed = owed]
               /\ IF v1 = "session" THEN v3' = [v3 EXCEPT !.at = j.at, !.failed = failed, !.owed = owed]
                  ELSE v3' = v3
      BY <2>1, ScansFacts DEF Scans!Work, Scans!Save
    <3>2. j.failed \in BOOLEAN
      BY <1>1 DEF Scans!Paging
    <3>3. Scans!Paid(j, c, success) = j.owed \ {c} \/ (Scans!Paid(j, c, success) = j.owed /\ v1 = "session" /\ ~success)
      BY <3>1, ScansFacts DEF Scans!Paid
    <3> QED BY <3>1, <3>2, <3>3 DEF Scans!Marked
  <2>2. CASE Scans!Obsolete(r)
    <3>1. v4'[r] = [j EXCEPT !.phase = "page", !.todo = j.todo \ {c}, !.owed = j.owed \ {c}] /\ v3' = v3
      BY <2>2, ScansFacts DEF Scans!Obsolete
    <3>2. [j EXCEPT !.phase = "page", !.todo = j.todo \ {c}, !.owed = j.owed \ {c}]
          = [j EXCEPT !.phase = "page", !.todo = j.todo \ {c}, !.failed = j.failed, !.owed = j.owed \ {c}]
      BY <1>1 DEF Scans!Paging
    <3>3. j.failed \in BOOLEAN
      BY <1>1 DEF Scans!Paging
    <3> QED BY <3>1, <3>2, <3>3
  <2> QED BY <2>1, <2>2
<1> DEFINE jj == [j EXCEPT !.phase = "page", !.todo = j.todo \ {c}, !.failed = failed, !.owed = owed]
<1>3. v1' = v1 /\ v2' = v2
  BY DEF Scans!Work, Scans!Obsolete
<1>4. c \in j.todo /\ \A y \in j.todo : c <= y
  BY <1>1, ScansMin DEF Scans!Paging
<1>5. /\ jj \in Scans!Paging /\ jj.phase = "page" /\ jj.todo = j.todo \ {c} /\ jj.owed = owed
      /\ jj.next = j.next /\ jj.failed = failed /\ jj.at = j.at
  BY <1>1 DEF Scans!Paging
<1>6. j.at \in 0..Ledger /\ j.next \in 0..Ledger /\ j.at <= c /\ \A y \in v2 : y \in Nat
  BY <1>1, <1>4, ScansFacts DEF Scans!Paging, Scans!Places, Scans!PageInv
<1>7. owed \subseteq v2 /\ (Scans!Marked(failed) \/ \A y \in owed : y \in jj.todo \/ ~Scans!OnPage(jj, y))
  BY <1>1, <1>2, <1>5 DEF Scans!PageInv, Scans!OnPage, Scans!Marked
<1>8. j.todo \subseteq v2 /\ \A y \in jj.todo : c < y
  BY <1>1, <1>4, <1>5, <1>6 DEF Scans!PageInv
<1> HIDE DEF jj, c
<1>9. Scans!PageInv(jj)
  BY <1>1, <1>5, <1>6, <1>7, <1>8, <1>4 DEF Scans!PageInv, Scans!OnPage, Scans!Paging
<1>10. Scans!JobInv(r)'
  BY <1>2, <1>3, <1>5, <1>9 DEF Scans!JobInv, Scans!PageInv, Scans!OnPage, Scans!Marked, jj
<1>11. ScansPlace'
  <2>1. CASE v3' = v3
    BY <2>1, <1>3, ScansPlaced DEF ScansPlace, Scans!Ahead, Scans!Marked
  <2>2. CASE v1 = "session" /\ v3' = [v3 EXCEPT !.at = j.at, !.failed = failed, !.owed = owed]
    <3>1. v3' \in ScansSaved /\ v3'.at = j.at /\ v3'.failed = failed /\ v3'.owed = owed
      BY <2>2, <1>1, <1>2, <1>6, ScansFacts DEF ScansSaved, Scans!Paging
    <3>2. j.at = c
      BY <2>2, <1>1 DEF Scans!PageInv, c
    <3>3. \A y \in v2 : y \in jj.todo \/ ~Scans!OnPage(jj, y) => j.at < y
      BY <3>2, <1>1, <1>4, <1>5, <1>6, <1>8 DEF Scans!OnPage, Scans!PageInv
    <3> QED BY <3>1, <3>3, <1>3, <1>7 DEF ScansPlace, Scans!Ahead, Scans!Marked
  <2> QED BY <1>2, <2>1, <2>2
<1> QED BY <1>10, <1>11

\* At the end of a page what is owed lies beyond it; at the end of the last one,
\* nothing does.
LEMMA PassContinue ==
  ASSUME Scans!PassInv, NEW r \in Workers, v4[r].phase = "page", v4[r].todo = {},
         v1' = v1, v2' = v2, v4'[r] \in {Scans!Idle, Scans!Ended(v4[r]), Scans!Continue(v4[r])}
  PROVE  Scans!JobInv(r)' /\ Scans!Ahead(v4[r].next, v4[r].failed, v4[r].owed)
<1> DEFINE j == v4[r]
<1>1. j \in Scans!Paging /\ Scans!PageInv(j)
  BY ScansPage
<1>2. j.next \in 0..Ledger /\ j.owed \subseteq v2 /\ \A y \in v2 : y \in Nat /\ 0 < y
  BY <1>1, ScansFacts DEF Scans!Paging, Scans!PageInv, Scans!Places
<1>3. Scans!Marked(j.failed) \/ (j.next # 0 /\ \A y \in j.owed : j.next < y) \/ j.owed = {}
  BY <1>1, <1>2 DEF Scans!PageInv, Scans!OnPage
<1>4. Scans!Ahead(j.next, j.failed, j.owed)
  BY <1>2, <1>3 DEF Scans!Ahead
<1>5. CASE v4'[r] = Scans!Idle
  BY <1>4, <1>5 DEF Scans!JobInv
<1>6. CASE v4'[r] = Scans!Ended(j) /\ v4'[r] # Scans!Idle
  <2>1. j.next = 0 /\ (v1 = "session" => ~j.failed) /\ v4'[r] = [phase |-> "clean", owed |-> j.owed]
    BY <1>6 DEF Scans!Ended
  <2>2. j.owed = {}
    BY <2>1, <1>3 DEF Scans!Marked
  <2> QED BY <2>1, <2>2, <1>4 DEF Scans!JobInv, Scans!Cleans
<1>7. CASE v4'[r] = Scans!Continue(j) /\ v4'[r] # Scans!Ended(j)
  <2>1. v4'[r] = [phase |-> "scan", at |-> j.next, failed |-> j.failed, revision |-> j.revision,
                  owed |-> j.owed, pages |-> j.pages, tries |-> j.tries]
    BY <1>7 DEF Scans!Continue
  <2>2. v4'[r] \in Scans!Scanning
    BY <2>1, <1>1 DEF Scans!Paging, Scans!Scanning
  <2> QED BY <2>1, <2>2, <1>4 DEF Scans!JobInv, Scans!Ahead, Scans!Marked
<1> QED BY <1>4, <1>5, <1>6, <1>7

\* A page ends: the checkpoint is moved to the next one, by the scan of the authority
\* only if nobody was faster.
LEMMA PassEnds ==
  ASSUME Scans!PassInv, NEW r \in Workers, Scans!EndPage(r) \/ Scans!NextPage(r) \/ Scans!Commit(r)
  PROVE  ScansPlace' /\ Scans!JobInv(r)'
<1> DEFINE j == v4[r]
<1>1. v1' = v1 /\ v2' = v2
  BY DEF Scans!EndPage, Scans!NextPage, Scans!Commit
<1>2. CASE Scans!EndPage(r)
  <2>1. j.phase = "page" /\ j.todo = {} /\ v4'[r] = Scans!Continue(j)
        /\ v3' = [v3 EXCEPT !.at = j.next, !.failed = (j.failed /\ j.next # 0), !.owed = j.owed]
    BY <1>2, ScansFacts DEF Scans!EndPage, Scans!Save
  <2>2. Scans!JobInv(r)' /\ Scans!Ahead(j.next, j.failed, j.owed)
    BY <2>1, <1>1, PassContinue
  <2>3. j \in Scans!Paging /\ j.owed \subseteq v2
    BY <2>1, ScansPage DEF Scans!PageInv
  <2>4. v3' \in ScansSaved /\ v3'.at = j.next /\ v3'.failed = (j.failed /\ j.next # 0) /\ v3'.owed = j.owed
    BY <2>1, <2>3, ScansFacts DEF ScansSaved, Scans!Paging
  <2>5. \A y \in v2 : 0 < y
    BY ScansFacts DEF Scans!Places
  <2>6. ScansPlace'
    BY <1>1, <2>2, <2>3, <2>4, <2>5 DEF ScansPlace, Scans!Ahead, Scans!Marked
  <2> QED BY <2>2, <2>6
<1>3. CASE Scans!NextPage(r)
  <2>1. j.phase = "page" /\ j.todo = {} /\ v4'[r] = Scans!Continue(j) /\ v3' = v3
    BY <1>3, ScansFacts DEF Scans!NextPage
  <2>2. Scans!JobInv(r)'
    BY <2>1, <1>1, PassContinue
  <2> QED BY <2>1, <2>2, <1>1, ScansPlaced DEF ScansPlace, Scans!Ahead, Scans!Marked
<1>4. CASE Scans!Commit(r)
  <2> DEFINE ended == j.phase = "page" /\ j.todo = {}
             at == IF ended THEN j.next ELSE j.at
  <2>1. /\ v1 = "authority" /\ j.phase \in {"scan", "page"}
        /\ v3' = [at |-> at, failed |-> FALSE, revision |-> j.revision + 1, owed |-> j.owed]
        /\ v4'[r] = IF ended THEN Scans!Ended(j) ELSE Scans!Idle
    BY <1>4, ScansFacts DEF Scans!Commit
  <2>2. /\ j.revision \in 0..(MaxSaved - 1) /\ j.at \in 0..Ledger /\ j.owed \subseteq v2
        /\ j.phase = "page" => j.next \in 0..Ledger
    <3>1. CASE j.phase = "scan"
      BY <3>1, ScansScan DEF Scans!Scanning, Scans!Ahead
    <3>2. CASE j.phase = "page"
      BY <3>2, ScansPage DEF Scans!Paging, Scans!PageInv
    <3> QED BY <2>1, <3>1, <3>2
  <2>3. v3' \in ScansSaved
    BY <2>1, <2>2, ScansFacts DEF ScansSaved
  <2>4. CASE ended
    <3>1. Scans!JobInv(r)' /\ Scans!Ahead(j.next, j.failed, j.owed)
      BY <2>1, <2>4, <1>1, PassContinue
    <3>2. Scans!Ahead(v3.at, v3.failed, v3.owed)'
      BY <3>1, <2>1, <2>2, <2>4, <1>1 DEF Scans!Ahead, Scans!Marked
    <3> QED BY <3>1, <3>2, <2>3 DEF ScansPlace
  <2>5. CASE ~ended
    <3>1. \A y \in j.owed : j.at < y
      <4>1. CASE j.phase = "scan"
        BY <4>1, <2>1, ScansScan DEF Scans!Ahead, Scans!Marked
      <4>2. CASE j.phase = "page"
        <5>1. j \in Scans!Paging /\ Scans!PageInv(j)
          BY <4>2, ScansPage
        <5>2. \A y \in v2 : y \in Nat
          BY ScansFacts DEF Scans!Places
        <5> QED BY <5>1, <5>2, <4>2, <2>1, <2>2 DEF Scans!PageInv, Scans!OnPage, Scans!Marked
      <4> QED BY <2>1, <4>1, <4>2
    <3>2. Scans!Ahead(v3.at, v3.failed, v3.owed)'
      BY <3>1, <2>1, <2>2, <2>5, <1>1 DEF Scans!Ahead
    <3>3. Scans!JobInv(r)'
      BY <2>1, <2>5 DEF Scans!JobInv
    <3> QED BY <3>2, <3>3, <2>3 DEF ScansPlace
  <2> QED BY <2>4, <2>5
<1> QED BY <1>2, <1>3, <1>4

\* No pass loses a command: every step.
LEMMA PassStep ==
  ASSUME Scans!PassInv, Scans!Next
  PROVE  Scans!PassInv'
<1>1. ASSUME NEW r \in Workers, ScansRun(r) PROVE Scans!PassInv'
  <2>1. ScansPlace' /\ Scans!JobInv(r)'
    <3>1. CASE Scans!Start(r) \/ Scans!ReadPage(r)
      <4>1. v3' = v3 /\ Scans!JobInv(r)' /\ v1' = v1 /\ v2' = v2
        BY <3>1, <1>1, PassStart, PassReadPage, ScansShape
      <4> QED BY <4>1, ScansPlaced DEF ScansPlace, Scans!Ahead, Scans!Marked
    <3>2. CASE Scans!Stop(r) \/ Scans!CutShort(r)
      <4>1. v3' = v3 /\ v4'[r] = Scans!Idle /\ v1' = v1 /\ v2' = v2
        BY <3>2, ScansFacts DEF Scans!Stop, Scans!CutShort
      <4> QED BY <4>1, ScansPlaced DEF ScansPlace, Scans!Ahead, Scans!Marked, Scans!JobInv
    <3> QED BY <1>1, <3>1, <3>2, PassTake, PassWork, PassEnds DEF ScansRun
  <2>2. DOMAIN v4' = Workers /\ \A x \in Workers : Scans!JobInv(x)'
    BY <1>1, <2>1, ScansOthers
  <2>3. v1' = v1 /\ v2' = v2 /\ v7' = v7
    BY <1>1, ScansShape
  <2>4. v5' \subseteq v2
    BY <1>1 DEF ScansRun, Scans!Start, Scans!ReadPage, Scans!Take, Scans!Work, Scans!Obsolete,
       Scans!EndPage, Scans!Stop, Scans!NextPage, Scans!Commit, Scans!CutShort, Scans!PassInv, Scans!TypeOK
  <2>5. v6' \in [Scans!Places -> SUBSET Scans!Places]
    <3>1. v6 \in [Scans!Places -> SUBSET Scans!Places]
      BY DEF Scans!PassInv, Scans!TypeOK
    <3>2. CASE Scans!Take(r)
      <4>1. v4[r].todo # {} /\ v4[r].todo \subseteq Scans!Places
        BY <3>2, ScansPage DEF Scans!Take, Scans!Paging
      <4>2. Scans!Min(v4[r].todo) \in Scans!Places
        BY <4>1, ScansMin
      <4> QED BY <3>1, <3>2, <4>2 DEF Scans!Take
    <3>3. CASE ~Scans!Take(r)
      BY <3>1, <3>3, <1>1 DEF ScansRun, Scans!Start, Scans!ReadPage, Scans!Work, Scans!Obsolete,
         Scans!EndPage, Scans!Stop, Scans!NextPage, Scans!Commit, Scans!CutShort
    <3> QED BY <3>2, <3>3
  <2>6. \A x \in Workers : v4'[x].phase \in {"idle", "scan", "page", "work", "clean"}
    BY <2>2 DEF Scans!JobInv, Scans!Idle, Scans!Cleans, Scans!Scanning, Scans!Paging
  <2>7. v3' \in [at : 0..Ledger, failed : BOOLEAN, revision : 0..MaxSaved, owed : SUBSET Scans!Places]
    BY <2>1 DEF ScansPlace, ScansSaved
  <2>8. Scans!TypeOK'
    BY <2>3, <2>4, <2>5, <2>6, <2>7, ScansFacts DEF Scans!PassInv, Scans!TypeOK
  <2> QED BY <2>1, <2>2, <2>8 DEF Scans!PassInv, ScansPlace
<1>2. ASSUME NEW c \in Scans!Places, Scans!Request(c) PROVE Scans!PassInv'
  <2>1. v2' = v2 \cup {c} /\ v1' = v1 /\ v3' = v3 /\ v4' = v4 /\ v5' = v5 /\ v6' = v6 /\ v7' = v7
    BY <1>2 DEF Scans!Request
  <2>2. Scans!TypeOK' /\ Scans!Ahead(v3.at, v3.failed, v3.owed)'
    BY <2>1 DEF Scans!PassInv, Scans!TypeOK, Scans!Ahead, Scans!Marked
  <2>3. ASSUME NEW x \in Workers PROVE Scans!JobInv(x)'
    <3>1. Scans!JobInv(x)
      BY DEF Scans!PassInv
    <3> QED BY <3>1, <2>1 DEF Scans!JobInv, Scans!PageInv, Scans!Ahead, Scans!Marked, Scans!OnPage
  <2> QED BY <2>1, <2>2, <2>3 DEF Scans!PassInv
<1> QED BY <1>1, <1>2 DEF Scans!Next, ScansRun

\* The order of turns stays what it is if the run passes nothing that the pass knows.
LEMMA TurnsKept ==
  ASSUME NEW r \in Workers, Scans!InOrder(r), v5 \subseteq Scans!Places, v5' = v5, v6' = v6,
         v6 \in [Scans!Places -> SUBSET Scans!Places],
         \A c \in v5 : Scans!Passed(r, c)' <=> Scans!Passed(r, c),
         \A d \in Scans!Places : Scans!Passed(r, d) => Scans!Passed(r, d)'
  PROVE  Scans!InOrder(r)'
<1>1. \A c \in Scans!Places \ v5 : v6[c] = {}
  BY DEF Scans!InOrder
<1>2. ASSUME NEW c \in v5, NEW d \in v6[c]
      PROVE  IF Scans!Passed(r, c)' THEN c < d /\ Scans!Passed(r, d)' ELSE c < d \/ Scans!Passed(r, d)'
  <2>1. IF Scans!Passed(r, c) THEN c < d /\ Scans!Passed(r, d) ELSE c < d \/ Scans!Passed(r, d)
    BY DEF Scans!InOrder
  <2>2. d \in Scans!Places
    OBVIOUS
  <2> QED BY <2>1, <2>2
<1> QED BY <1>1, <1>2 DEF Scans!InOrder

\* When a pass is over, every command it knows has been passed; the next pass has passed
\* none.
LEMMA TurnsWrap ==
  ASSUME NEW r \in Workers, Scans!InOrder(r), v5' = v5, v6' = v6,
         \A c \in v5 : Scans!Passed(r, c) /\ ~Scans!Passed(r, c)'
  PROVE  Scans!InOrder(r)'
<1>1. \A c \in Scans!Places \ v5 : v6[c] = {}
  BY DEF Scans!InOrder
<1>2. ASSUME NEW c \in v5, NEW d \in v6[c]
      PROVE  IF Scans!Passed(r, c)' THEN c < d /\ Scans!Passed(r, d)' ELSE c < d \/ Scans!Passed(r, d)'
  BY DEF Scans!InOrder
<1> QED BY <1>1, <1>2 DEF Scans!InOrder

ScansTurn(r) ==
  /\ Scans!PassInv /\ v7 = {r} /\ Scans!InOrder(r) /\ Scans!InPlace(r)
  /\ v5 \subseteq v2 /\ v6 \in [Scans!Places -> SUBSET Scans!Places]

\* A new pass has passed nothing, and who is new to it has seen no turn of others.
LEMMA TurnStart ==
  ASSUME NEW r \in Workers, ScansTurn(r), Scans!Start(r)
  PROVE  Scans!InOrder(r)' /\ Scans!InPlace(r)'
<1>1. /\ v4[r].phase \in {"idle", "clean"} /\ v4'[r].phase = "scan" /\ v4'[r].at = v3.at
      /\ v1' = v1 /\ v3' = v3 /\ v6' = v6 /\ v5' \in {v5, v2}
      /\ v5' = v5 \/ v3.at = 0
  BY ScansFacts DEF Scans!Start, ScansTurn
<1>2. \A c \in Scans!Places : Scans!Passed(r, c)' <=> Scans!Passed(r, c)
  BY <1>1 DEF Scans!Passed
<1>3. CASE v5' = v5
  BY <1>1, <1>2, <1>3, TurnsKept, ScansFacts DEF ScansTurn, Scans!InPlace
<1>4. CASE v5' = v2 /\ v3.at = 0
  <2>1. \A c \in Scans!Places : ~Scans!Passed(r, c)' /\ ~Scans!Passed(r, c)
    BY <1>1, <1>2, <1>4 DEF Scans!Passed, Scans!Places
  <2>2. \A c \in v5 : \A d \in v6[c] : c < d
    BY <2>1, ScansFacts DEF ScansTurn, Scans!InOrder
  <2>3. \A c \in Scans!Places \ v5 : v6[c] = {}
    BY DEF ScansTurn, Scans!InOrder
  <2>4. v5 \subseteq v2 /\ v2 \subseteq Scans!Places
    BY ScansFacts DEF ScansTurn
  <2>5. ASSUME NEW c \in v2, NEW d \in v6[c] PROVE ~Scans!Passed(r, c)' /\ c < d
    BY <2>1, <2>2, <2>3, <2>4
  <2>6. Scans!InOrder(r)'
    BY <1>1, <1>4, <2>3, <2>4, <2>5 DEF Scans!InOrder
  <2>7. Scans!InPlace(r)'
    BY <1>1 DEF Scans!InPlace
  <2> QED BY <2>6, <2>7
<1> QED BY <1>1, <1>3, <1>4

\* A page holds what the pass knows of it: the run has passed nothing by reading it.
LEMMA TurnReadPage ==
  ASSUME NEW r \in Workers, ScansTurn(r), Scans!ReadPage(r)
  PROVE  Scans!InOrder(r)' /\ Scans!InPlace(r)'
<1> DEFINE j == v4[r]
           end == j.at + PageSize
           todo == {c \in v2 : j.at < c /\ c <= end}
           nxt == IF end > Ledger THEN 0 ELSE end
<1>1. /\ j.phase = "scan" /\ v4'[r].phase = "page" /\ v4'[r].at = j.at /\ v4'[r].todo = todo
      /\ v4'[r].next = nxt
      /\ v1' = v1 /\ v2' = v2 /\ v3' = v3 /\ v5' = v5 /\ v6' = v6
  BY ScansFacts DEF Scans!ReadPage, ScansTurn
<1>2. j.at \in 0..Ledger /\ v5 \subseteq v2 /\ v2 \subseteq Scans!Places
      /\ \A c \in Scans!Places : c \in Nat /\ c <= Ledger
  BY <1>1, ScansScan, ScansFacts DEF ScansTurn, Scans!Scanning, Scans!Places
<1>3. \A c \in Scans!Places : c <= end <=> nxt = 0 \/ c <= nxt
  BY <1>2, ScansFacts DEF ScansTurn
<1> HIDE DEF nxt
<1>4. \A c \in Scans!Places : Scans!Passed(r, c) <=> c <= j.at
  BY <1>1 DEF Scans!Passed
<1>5. \A c \in Scans!Places :
        Scans!Passed(r, c)' <=> IF v1 = "history" THEN c <= end /\ c \notin todo ELSE c <= j.at
  BY <1>1, <1>3 DEF Scans!Passed, Scans!OnPage
<1>6. (\A c \in v5 : Scans!Passed(r, c)' <=> Scans!Passed(r, c))
      /\ \A d \in Scans!Places : Scans!Passed(r, d) => Scans!Passed(r, d)'
  BY <1>2, <1>4, <1>5, ScansFacts DEF ScansTurn
<1>7. Scans!InOrder(r)'
  BY <1>1, <1>2, <1>6, TurnsKept DEF ScansTurn
<1>8. Scans!InPlace(r)'
  <2>1. \A c \in v5 : (nxt = 0 \/ c <= nxt) /\ c \notin todo => c <= j.at
    BY <1>2, <1>3
  <2>2. \A c \in v5 : c <= j.at => \A d \in todo : c < d
    BY <1>2
  <2>3. v1 = "session" => v3.at = j.at
    BY <1>1 DEF ScansTurn, Scans!InPlace
  <2> HIDE DEF todo
  <2> QED BY <1>1, <2>1, <2>2, <2>3 DEF Scans!InPlace, Scans!OnPage
<1> QED BY <1>7, <1>8

\* What a run knows of its page: the first command on it has been passed by none whose
\* turn is still to come.
LEMMA TurnFirst ==
  ASSUME NEW r \in Workers, ScansTurn(r), v4[r].phase \in {"page", "work"}, v4[r].todo # {}
  PROVE  LET j == v4[r]
             m == Scans!Min(j.todo)
         IN /\ m \in Scans!Places /\ m \in j.todo /\ \A y \in j.todo : m <= y
            /\ \A c \in Scans!Places : c \in Nat
            /\ j \in Scans!Paging /\ Scans!PageInv(j) /\ v5 \subseteq Scans!Places
BY ScansPage, ScansMin, ScansFacts DEF ScansTurn, Scans!Paging, Scans!Places

\* The turn of a command: it had none since any other command that the pass knows.
LEMMA TurnTake ==
  ASSUME NEW r \in Workers, ScansTurn(r), Scans!Take(r)
  PROVE  /\ Scans!InOrder(r)' /\ Scans!InPlace(r)'
         /\ \A c \in v5 : Scans!Min(v4[r].todo) \notin v6[c] \/ c = Scans!Min(v4[r].todo)
<1> DEFINE j == v4[r]
<1>0. PICK m : m = Scans!Min(j.todo)
  OBVIOUS
<1>1. /\ j.phase = "page" /\ m \in Scans!Places /\ m \in j.todo /\ \A y \in j.todo : m <= y
      /\ \A c \in Scans!Places : c \in Nat
      /\ j \in Scans!Paging /\ Scans!PageInv(j) /\ v5 \subseteq Scans!Places
  BY <1>0, TurnFirst DEF Scans!Take
<1>2. j.at \in 0..Ledger /\ j.next \in 0..Ledger /\ j.at < m /\ Scans!OnPage(j, m)
      /\ j.todo \subseteq Scans!Places
  BY <1>1 DEF Scans!Paging, Scans!PageInv
<1>3. /\ v4'[r].phase = "work" /\ v4'[r].todo = j.todo /\ v4'[r].next = j.next
      /\ v4'[r].at = (IF v1 = "history" THEN j.at ELSE m)
      /\ v1' = v1 /\ v5' = v5
      /\ v6' = [d \in Scans!Places |->
                  IF d = m THEN {} ELSE IF d \in v5 THEN v6[d] \cup {m} ELSE v6[d]]
      /\ v1 = "session" => v3'.at = m
  <2>1. v4'[r] = IF v1 = "history" THEN [j EXCEPT !.phase = "work"]
                 ELSE [j EXCEPT !.phase = "work", !.at = m, !.tries = j.tries + 1]
    BY <1>0, ScansFacts DEF Scans!Take, ScansTurn
  <2>2. v1 = "session" => v3'.at = m
    BY <1>0, ScansFacts DEF Scans!Take, Scans!SaveBefore, Scans!Save, ScansTurn, ScansSaved
  <2>3. /\ v4'[r].phase = "work" /\ v4'[r].todo = j.todo /\ v4'[r].next = j.next
        /\ v4'[r].at = (IF v1 = "history" THEN j.at ELSE m)
    <3>1. CASE v1 = "history"
      BY <2>1, <3>1, <1>1 DEF Scans!Paging
    <3>2. CASE v1 # "history"
      BY <2>1, <3>2, <1>1 DEF Scans!Paging
    <3> QED BY <3>1, <3>2
  <2>4. v1' = v1 /\ v5' = v5
        /\ v6' = [d \in Scans!Places |->
                    IF d = m THEN {} ELSE IF d \in v5 THEN v6[d] \cup {m} ELSE v6[d]]
    BY <1>0 DEF Scans!Take
  <2> QED BY <2>2, <2>3, <2>4
<1>4. \A c \in Scans!Places : Scans!Passed(r, c) <=>
        IF v1 = "history" THEN Scans!OnPage(j, c) /\ c \notin j.todo ELSE c <= j.at
  BY <1>1 DEF Scans!Passed
<1>5. \A c \in Scans!Places : Scans!Passed(r, c)' <=>
        IF v1 = "history" THEN Scans!OnPage(j, c) /\ (c \notin j.todo \/ c = m) ELSE c <= m
  BY <1>0, <1>3 DEF Scans!Passed, Scans!OnPage
<1>6. ASSUME NEW c \in v5, c # m
      PROVE  /\ Scans!Passed(r, c) <=> Scans!Passed(r, c)'
             /\ IF Scans!Passed(r, c) THEN c < m ELSE m < c
             /\ m \notin v6[c]
  <2>1. Scans!OnPage(j, c) /\ c \notin j.todo => IF v1 = "history" THEN \A d \in j.todo : c < d ELSE c <= j.at
    BY <1>1 DEF ScansTurn, Scans!InPlace
  <2>2. c \in j.todo => m < c
    BY <1>1, <1>6
  <2>3. ~Scans!OnPage(j, c) => m < c
    BY <1>1, <1>2 DEF Scans!OnPage
  <2>4. IF Scans!Passed(r, c) THEN c < m ELSE m < c
    BY <1>1, <1>2, <1>4, <2>1, <2>2, <2>3
  <2>5. Scans!Passed(r, c) <=> Scans!Passed(r, c)'
    BY <1>1, <1>2, <1>4, <1>5, <1>6, <2>4
  <2>6. ~Scans!Passed(r, m)
    BY <1>1, <1>2, <1>4
  <2>7. m \notin v6[c]
    BY <1>1, <2>4, <2>6 DEF ScansTurn, Scans!InOrder
  <2> QED BY <2>4, <2>5, <2>7
<1>7. \A d \in Scans!Places : Scans!Passed(r, d) => Scans!Passed(r, d)'
  BY <1>1, <1>2, <1>4, <1>5
<1>8. Scans!Passed(r, m)'
  BY <1>1, <1>2, <1>5
<1>9. Scans!InOrder(r)'
  <2>1. ASSUME NEW c \in Scans!Places \ v5 PROVE v6'[c] = {}
    BY <2>1, <1>3 DEF ScansTurn, Scans!InOrder
  <2>2. ASSUME NEW c \in v5, NEW d \in v6'[c]
        PROVE  IF Scans!Passed(r, c)' THEN c < d /\ Scans!Passed(r, d)' ELSE c < d \/ Scans!Passed(r, d)'
    <3>1. c # m /\ (d = m \/ d \in v6[c])
      <4>1. v6'[c] = IF c = m THEN {} ELSE v6[c] \cup {m}
        BY <1>1, <1>3
      <4> QED BY <4>1, <2>2
    <3>2. CASE d = m
      BY <3>1, <3>2, <1>6, <1>8
    <3>3. CASE d \in v6[c]
      <4>1. IF Scans!Passed(r, c) THEN c < d /\ Scans!Passed(r, d) ELSE c < d \/ Scans!Passed(r, d)
        BY <3>3 DEF ScansTurn, Scans!InOrder
      <4>2. d \in Scans!Places
        BY <3>3, <1>1 DEF ScansTurn
      <4> QED BY <4>1, <4>2, <3>1, <1>6, <1>7
    <3> QED BY <3>1, <3>2, <3>3
  <2> QED BY <2>1, <2>2, <1>3 DEF Scans!InOrder
<1>10. Scans!InPlace(r)'
  <2>1. ASSUME NEW c \in v5, Scans!OnPage(j, c), c \notin j.todo
        PROVE  IF v1 = "history" THEN \A d \in j.todo : c < d ELSE c <= m
    BY <2>1, <1>1, <1>2 DEF ScansTurn, Scans!InPlace
  <2> QED BY <1>3, <2>1 DEF Scans!InPlace, Scans!OnPage
<1>11. \A c \in v5 : m \notin v6[c] \/ c = m
  BY <1>6
<1> QED BY <1>0, <1>9, <1>10, <1>11

\* A command's turn is over: the run is behind it, as it was.
LEMMA TurnWork ==
  ASSUME NEW r \in Workers, ScansTurn(r), Scans!Work(r) \/ Scans!Obsolete(r)
  PROVE  Scans!InOrder(r)' /\ Scans!InPlace(r)'
<1> DEFINE j == v4[r]
<1>0. PICK m : m = Scans!Min(j.todo)
  OBVIOUS
<1>1. /\ j.phase = "work" /\ j.todo # {}
  BY ScansPage DEF ScansTurn, Scans!Work, Scans!Obsolete, Scans!PageInv
<1>2. /\ m \in Scans!Places /\ m \in j.todo /\ \A y \in j.todo : m <= y
      /\ \A c \in Scans!Places : c \in Nat
      /\ j \in Scans!Paging /\ Scans!PageInv(j) /\ v5 \subseteq Scans!Places
  BY <1>0, <1>1, TurnFirst
<1>3. /\ j.todo \subseteq Scans!Places /\ j.at \in 0..Ledger /\ Scans!OnPage(j, m)
      /\ v1 # "history" => j.at = m
  BY <1>0, <1>1, <1>2 DEF Scans!Paging, Scans!PageInv
<1>4. /\ v4'[r].phase = "page" /\ v4'[r].todo = j.todo \ {m} /\ v4'[r].next = j.next /\ v4'[r].at = j.at
      /\ v1' = v1 /\ v5' = v5 /\ v6' = v6
      /\ v1 = "session" => v3'.at = j.at
  <2>1. v1 = "session" => v3.at = j.at
    BY <1>1 DEF ScansTurn, Scans!InPlace
  <2>2. CASE Scans!Work(r)
    <3>1. PICK success \in BOOLEAN :
            LET failed == j.failed \/ ~success
                owed == Scans!Paid(j, m, success)
            IN /\ v4'[r] = [j EXCEPT !.phase = "page", !.todo = j.todo \ {m}, !.failed = failed, !.owed = owed]
               /\ IF v1 = "session" THEN v3' = [v3 EXCEPT !.at = j.at, !.failed = failed, !.owed = owed]
                  ELSE v3' = v3
      BY <1>0, <2>2, ScansFacts DEF Scans!Work, Scans!Save, ScansTurn
    <3>2. v1 = "session" => v3'.at = j.at
      BY <3>1, ScansFacts DEF ScansTurn, ScansSaved
    <3>3. v1' = v1 /\ v5' = v5 /\ v6' = v6
      BY <2>2 DEF Scans!Work
    <3> QED BY <3>1, <3>2, <3>3, <1>2 DEF Scans!Paging
  <2>3. CASE Scans!Obsolete(r)
    <3>1. v4'[r] = [j EXCEPT !.phase = "page", !.todo = j.todo \ {m}, !.owed = j.owed \ {m}] /\ v3' = v3
          /\ v1' = v1 /\ v5' = v5 /\ v6' = v6
      BY <1>0, <2>3, ScansFacts DEF Scans!Obsolete, ScansTurn
    <3> QED BY <3>1, <2>1, <1>2 DEF Scans!Paging
  <2> QED BY <2>2, <2>3
<1>5. \A c \in Scans!Places : Scans!Passed(r, c) <=>
        IF v1 = "history" THEN Scans!OnPage(j, c) /\ (c \notin j.todo \/ c = m) ELSE c <= j.at
  BY <1>0, <1>1 DEF Scans!Passed
<1>6. \A c \in Scans!Places : Scans!Passed(r, c)' <=>
        IF v1 = "history" THEN Scans!OnPage(j, c) /\ c \notin j.todo \ {m} ELSE c <= j.at
  BY <1>4 DEF Scans!Passed, Scans!OnPage
<1>7. \A c \in Scans!Places : Scans!Passed(r, c)' <=> Scans!Passed(r, c)
  BY <1>5, <1>6
<1>8. Scans!InOrder(r)'
  BY <1>2, <1>4, <1>7, TurnsKept DEF ScansTurn
<1>9. Scans!InPlace(r)'
  <2>1. ASSUME NEW c \in v5, Scans!OnPage(j, c), c \notin j.todo \ {m}
        PROVE  IF v1 = "history" THEN \A d \in j.todo \ {m} : c < d ELSE c <= j.at
    <3>1. CASE c = m
      BY <3>1, <1>2, <1>3
    <3>2. CASE c # m
      BY <3>2, <2>1, <1>1 DEF ScansTurn, Scans!InPlace
    <3> QED BY <3>1, <3>2
  <2> QED BY <1>4, <2>1 DEF Scans!InPlace, Scans!OnPage
<1> QED BY <1>8, <1>9

\* A page ends where the next one starts, or the pass does.
LEMMA TurnEnds ==
  ASSUME NEW r \in Workers, ScansTurn(r), Scans!EndPage(r) \/ Scans!NextPage(r) \/ Scans!Commit(r)
  PROVE  Scans!InOrder(r)' /\ Scans!InPlace(r)'
<1> DEFINE j == v4[r]
<1>1. v1' = v1 /\ v5' = v5 /\ v6' = v6 /\ v6 \in [Scans!Places -> SUBSET Scans!Places]
      /\ v5 \subseteq Scans!Places /\ Scans!InOrder(r)
  BY ScansFacts DEF Scans!EndPage, Scans!NextPage, Scans!Commit, ScansTurn
<1>2. CASE j.phase = "page" /\ j.todo = {}
  <2>1. j.next \in 0..Ledger /\ j.at \in 0..Ledger /\ Scans!OnPage(j, j.at)
        /\ \A c \in Scans!Places : c \in Nat /\ 0 < c
    BY <1>2, ScansPage, ScansFacts DEF ScansTurn, Scans!Paging, Scans!PageInv, Scans!Places
  <2>2. \A c \in Scans!Places :
          Scans!Passed(r, c) <=> IF v1 = "history" THEN Scans!OnPage(j, c) ELSE c <= j.at
    BY <1>2 DEF Scans!Passed
  <2>3. \A c \in v5 : v1 # "history" /\ Scans!OnPage(j, c) => c <= j.at
    BY <1>2 DEF ScansTurn, Scans!InPlace
  <2>4. /\ v4'[r].phase = "scan" => v4'[r].at = j.next /\ j.next # 0
        /\ v4'[r].phase # "scan" => v4'[r].phase \in {"idle", "clean"} /\ v3'.at = j.next
        /\ v1 = "session" => v3'.at = j.next
    <3>1. CASE Scans!EndPage(r)
      <4>1. v4'[r] = Scans!Continue(j) /\ v3'.at = j.next
        BY <3>1, ScansFacts DEF Scans!EndPage, Scans!Save, ScansTurn, ScansSaved
      <4> QED BY <4>1 DEF Scans!Continue, Scans!Ended, Scans!Idle
    <3>2. CASE Scans!NextPage(r)
      <4>1. v4'[r] = Scans!Continue(j) /\ v1 = "authority" /\ j.next # 0 /\ j.pages < MaxPages
            /\ j.pages \in Nat
        BY <3>2, ScansFacts, ScansPage DEF Scans!NextPage, ScansTurn, Scans!Paging
      <4>2. j.pages # MaxPages
        BY <4>1, ScansAssumed DEF Scans!ReconciliationAssumption
      <4> QED BY <4>1, <4>2 DEF Scans!Continue, Scans!Idle
    <3>3. CASE Scans!Commit(r)
      <4>1. v4'[r] = Scans!Ended(j) /\ v1 = "authority" /\ v3'.at = j.next
        BY <3>3, <1>2, ScansFacts DEF Scans!Commit, ScansTurn
      <4> QED BY <4>1 DEF Scans!Ended, Scans!Idle
    <3> QED BY <3>1, <3>2, <3>3
  <2>5. \A c \in Scans!Places : Scans!Passed(r, c)' <=> c <= j.next
    <3>1. CASE v4'[r].phase = "scan"
      BY <2>4, <3>1 DEF Scans!Passed
    <3>2. CASE v4'[r].phase # "scan"
      BY <2>4, <3>2 DEF Scans!Passed
    <3> QED BY <3>1, <3>2
  <2>6. CASE j.next = 0
    <3>1. \A c \in v5 : Scans!Passed(r, c) /\ ~Scans!Passed(r, c)'
      BY <1>1, <2>1, <2>2, <2>3, <2>5, <2>6 DEF Scans!OnPage
    <3> QED BY <1>1, <2>4, <3>1, TurnsWrap DEF Scans!InPlace
  <2>7. CASE j.next # 0
    <3>1. \A c \in v5 : Scans!Passed(r, c)' <=> Scans!Passed(r, c)
      BY <1>1, <2>1, <2>2, <2>3, <2>5, <2>7 DEF Scans!OnPage
    <3>2. \A c \in Scans!Places : Scans!Passed(r, c) => Scans!Passed(r, c)'
      BY <2>1, <2>2, <2>5, <2>7 DEF Scans!OnPage
    <3> QED BY <1>1, <2>4, <3>1, <3>2, TurnsKept DEF Scans!InPlace
  <2> QED BY <2>6, <2>7
<1>3. CASE ~(j.phase = "page" /\ j.todo = {})
  <2>1. v1 = "authority" /\ j.phase \in {"scan", "page"} /\ v3'.at = j.at /\ v4'[r] = Scans!Idle
    BY <1>3, ScansFacts DEF Scans!EndPage, Scans!NextPage, Scans!Commit, ScansTurn
  <2>2. \A c \in Scans!Places : Scans!Passed(r, c)' <=> Scans!Passed(r, c)
    BY <1>1, <2>1 DEF Scans!Passed, Scans!Idle
  <2> QED BY <1>1, <2>1, <2>2, TurnsKept DEF Scans!InPlace, Scans!Idle
<1> QED BY <1>2, <1>3

\* A run stops: the sessions' is where its checkpoint is; what others had done since
\* theirs has another turn.
LEMMA TurnStops ==
  ASSUME NEW r \in Workers, ScansTurn(r), Scans!Stop(r) \/ Scans!CutShort(r)
  PROVE  Scans!InOrder(r)' /\ Scans!InPlace(r)'
<1>1. /\ v4[r].phase \in {"scan", "page", "work"} /\ v4'[r] = Scans!Idle /\ v1' = v1 /\ v3' = v3 /\ v5' = v5
      /\ IF v1 = "session" THEN v6' = v6 ELSE v6' = [c \in Scans!Places |-> {}]
  BY ScansFacts DEF Scans!Stop, Scans!CutShort, ScansTurn
<1>2. Scans!InPlace(r)'
  BY <1>1 DEF Scans!InPlace, Scans!Idle
<1>3. CASE v1 = "session"
  <2>1. v3.at = v4[r].at
    BY <1>1, <1>3 DEF ScansTurn, Scans!InPlace
  <2>2. \A c \in Scans!Places : Scans!Passed(r, c)' <=> Scans!Passed(r, c)
    BY <1>1, <1>3, <2>1 DEF Scans!Passed, Scans!Idle
  <2>3. v5 \subseteq Scans!Places
    BY ScansFacts DEF ScansTurn
  <2> QED BY <1>1, <1>2, <1>3, <2>2, <2>3, TurnsKept DEF ScansTurn
<1>4. CASE v1 # "session"
  <2>1. v5 \subseteq Scans!Places
    BY ScansFacts DEF ScansTurn
  <2> QED BY <1>1, <1>2, <1>4, <2>1 DEF Scans!InOrder
<1> QED BY <1>3, <1>4

\* The turns of one run alone, in every step of it.
LEMMA TurnStep ==
  ASSUME NEW r \in Workers, ScansTurn(r), ScansRun(r)
  PROVE  /\ Scans!InOrder(r)' /\ Scans!InPlace(r)'
         /\ v4[r].phase = "page" /\ v4'[r].phase = "work" =>
              \A c \in v5 : Scans!Min(v4[r].todo) \notin v6[c] \/ c = Scans!Min(v4[r].todo)
<1>1. CASE Scans!Take(r)
  BY <1>1, TurnTake
<1>2. CASE ~Scans!Take(r)
  <2>1. Scans!InOrder(r)' /\ Scans!InPlace(r)'
    BY <1>2, TurnStart, TurnReadPage, TurnWork, TurnEnds, TurnStops DEF ScansRun
  <2>2. ~(v4[r].phase = "page" /\ v4'[r].phase = "work")
    <3>1. CASE Scans!Start(r) \/ Scans!ReadPage(r) \/ Scans!Work(r) \/ Scans!Obsolete(r)
      BY <3>1 DEF Scans!Start, Scans!ReadPage, Scans!Work, Scans!Obsolete
    <3>2. CASE Scans!EndPage(r) \/ Scans!NextPage(r) \/ Scans!Commit(r)
      BY <3>2, ScansFacts DEF Scans!EndPage, Scans!NextPage, Scans!Commit, Scans!Continue, Scans!Ended,
         Scans!Idle, ScansTurn
    <3>3. CASE Scans!Stop(r) \/ Scans!CutShort(r)
      BY <3>3, ScansFacts DEF Scans!Stop, Scans!CutShort, Scans!Idle, ScansTurn
    <3> QED BY <1>2, <3>1, <3>2, <3>3 DEF ScansRun
  <2> QED BY <2>1, <2>2
<1> QED BY <1>1, <1>2

\* Every step: who is not of the crew does nothing, and only a run alone knows what its
\* pass found.
LEMMA ScansStep ==
  ASSUME Scans!IInv, Scans!Next
  PROVE  Scans!IInv' /\ Scans!TurnsFair
<1>1. Scans!PassInv /\ Scans!CrewInv /\ Scans!PassInv' /\ DOMAIN v4 = Workers
  BY PassStep, ScansFacts DEF Scans!IInv
<1>2. ASSUME NEW r \in Workers, ScansRun(r) PROVE Scans!CrewInv' /\ Scans!TurnsFair
  <2>1. /\ v7' = v7 /\ v2' = v2 /\ \A x \in Workers \ {r} : v4'[x] = v4[x]
    BY <1>1, <1>2, ScansShape
  <2>2. r \in v7
    <3>1. r \in v7 \/ v4[r].phase # "idle"
      BY <1>2 DEF ScansRun, Scans!Start, Scans!ReadPage, Scans!Take, Scans!Work, Scans!Obsolete,
         Scans!EndPage, Scans!Stop, Scans!NextPage, Scans!Commit, Scans!CutShort
    <3> QED BY <3>1, <1>1 DEF Scans!CrewInv, Scans!Idle
  <2>3. ASSUME NEW x \in Workers \ v7 PROVE v4'[x] = Scans!Idle
    BY <2>1, <2>2, <1>1 DEF Scans!CrewInv
  <2>4. CASE v7 = {r}
    <3>1. ScansTurn(r)
      BY <2>4, <1>1 DEF ScansTurn, Scans!CrewInv, Scans!PassInv, Scans!TypeOK
    <3>2. /\ Scans!InOrder(r)' /\ Scans!InPlace(r)'
          /\ v4[r].phase = "page" /\ v4'[r].phase = "work" =>
               \A c \in v5 : Scans!Min(v4[r].todo) \notin v6[c] \/ c = Scans!Min(v4[r].todo)
      BY <3>1, <1>2, TurnStep
    <3>3. Scans!Alone'
      BY <2>1, <2>4 DEF Scans!Alone
    <3>4. \A x \in Workers : v7' = {x} => Scans!InOrder(x)' /\ Scans!InPlace(x)'
      <4> SUFFICES ASSUME NEW x \in Workers, v7' = {x} PROVE Scans!InOrder(x)' /\ Scans!InPlace(x)'
        OBVIOUS
      <4>1. x = r
        BY <2>1, <2>4
      <4> QED BY <4>1, <3>2
    <3>5. Scans!CrewInv'
      BY <1>1, <2>1, <2>3, <3>3, <3>4 DEF Scans!CrewInv
    <3>6. Scans!TurnsFair
      BY <2>1, <3>2 DEF Scans!TurnsFair
    <3> QED BY <3>5, <3>6
  <2>5. CASE v7 # {r}
    <3>1. ~Scans!Alone /\ v5 = {}
      BY <2>2, <2>5, <1>1 DEF Scans!Alone, Scans!CrewInv
    <3>2. v5' = {}
      BY <3>1, <1>2 DEF ScansRun, Scans!Start, Scans!ReadPage, Scans!Take, Scans!Work, Scans!Obsolete,
         Scans!EndPage, Scans!Stop, Scans!NextPage, Scans!Commit, Scans!CutShort
    <3>3. ~Scans!Alone' /\ \A x \in Workers : v7' # {x}
      BY <2>1, <3>1 DEF Scans!Alone
    <3>4. Scans!CrewInv'
      BY <1>1, <2>1, <2>3, <3>2, <3>3 DEF Scans!CrewInv
    <3>5. Scans!TurnsFair
      BY <3>1 DEF Scans!TurnsFair
    <3> QED BY <3>4, <3>5
  <2> QED BY <2>4, <2>5
<1>3. ASSUME NEW c \in Scans!Places, Scans!Request(c) PROVE Scans!CrewInv' /\ Scans!TurnsFair
  <2>1. v1' = v1 /\ v3' = v3 /\ v4' = v4 /\ v5' = v5 /\ v6' = v6 /\ v7' = v7
    BY <1>3 DEF Scans!Request
  <2>2. Scans!CrewInv'
    BY <1>1, <2>1 DEF Scans!CrewInv, Scans!Alone, Scans!InOrder, Scans!InPlace, Scans!Passed, Scans!OnPage
  <2> QED BY <2>1, <2>2 DEF Scans!TurnsFair
<1> QED BY <1>1, <1>2, <1>3 DEF Scans!Next, ScansRun, Scans!IInv

\* However many runs share a checkpoint and wherever they die, a pass reported complete
\* left out no command; and while one run is at work at a time, no command has two turns
\* while another waits (_reconcile_deletion_commands, reconcile of the bridge, CAS of
\* the authority's checkpoint).
THEOREM ScansSound == Spec => ScansHold
<1> DEFINE Inv == part = "scans" => Scans!IInv
<1>1. Init => Inv
  <2> SUFFICES ASSUME Scans!Init PROVE Scans!IInv
    BY DEF Init
  <2>1. /\ v1 \in {"session", "history", "authority"} /\ v2 = {} /\ v5 = {} /\ v6 = [c \in Scans!Places |-> {}]
        /\ v3 = [at |-> 0, failed |-> FALSE, revision |-> 0, owed |-> {}] /\ v4 = [r \in Workers |-> Scans!Idle]
        /\ v7 \in {Workers} \cup {{r} : r \in Workers}
    BY DEF Scans!Init
  <2>2. Scans!TypeOK
    BY <2>1, ScansAssumed DEF Scans!TypeOK, Scans!ReconciliationAssumption, Scans!Idle
  <2>3. Scans!PassInv
    BY <2>1, <2>2 DEF Scans!PassInv, Scans!Ahead, Scans!JobInv
  <2>4. Scans!CrewInv
    BY <2>1 DEF Scans!CrewInv, Scans!InOrder, Scans!InPlace, Scans!Idle
  <2> QED BY <2>3, <2>4 DEF Scans!IInv
<1>2. Inv /\ [Next]_vars => Inv'
  <2>1. CASE Next
    BY <2>1, ScansStep DEF Next
  <2>2. CASE UNCHANGED vars
    BY <2>2 DEF vars, Scans!IInv, Scans!PassInv, Scans!CrewInv, Scans!TypeOK, Scans!JobInv, Scans!PageInv,
       Scans!Ahead, Scans!Marked, Scans!OnPage, Scans!Alone, Scans!InOrder, Scans!InPlace, Scans!Passed
  <2> QED BY <2>1, <2>2
<1>3. Inv /\ [Next]_vars => [part = "scans" => Scans!TurnsFair]_vars
  BY ScansStep DEF Next
<1>4. Inv => (part = "scans" => Scans!TypeOK /\ Scans!PassesComplete)
  BY DEF Scans!IInv, Scans!PassInv, Scans!PassesComplete, Scans!JobInv, Scans!Idle, Scans!Cleans,
     Scans!Scanning, Scans!Paging
<1> QED BY <1>1, <1>2, <1>3, <1>4, PTL DEF Spec, ScansHold

-----------------------------------------------------------------------------
(* ResearchChoice                                                          *)

ChoiceBound == [demographic |-> MaxVersion, campaign |-> MaxVersion + 2]

\* What requests and rows can be depends on the service alone.
LEMMA ChoiceSame ==
  ASSUME v1' = v1
  PROVE  /\ Choice!Requests' = Choice!Requests /\ Choice!StateRows' = Choice!StateRows
         /\ Choice!Kept' = Choice!Kept
BY DEF Choice!Requests, Choice!StateRows, Choice!Kept, Choice!Versions

\* Requests between their reads and their transaction: one is begun or given up, and no
\* row changes.
LEMMA ChoiceQuiet ==
  ASSUME Choice!IInv, NEW w \in Workers, UNCHANGED <<v1, v2, v3, v4, v5, v6, v8, v10, v11>>,
         v9' \subseteq v8, NEW j, DOMAIN v7' = Workers,
         v7'[w] = j, \A x \in Workers \ {w} : v7'[x] = v7[x],
         \/ j = Choice!Idle
         \/ /\ j \in [op : Operations, request : Choice!Requests, seen : Choice!StateRows]
            /\ j.request.expected \in {j.seen.version, AnyVersion}
            /\ Choice!Allowed(j.seen, j.request) /\ j.seen.version < ChoiceBound[v1] /\ j.seen = v2
  PROVE  Choice!IInv'
<1>1. Choice!RowsInv'
  BY ChoiceSame DEF Choice!IInv, Choice!RowsInv
<1>2. ASSUME NEW x \in Workers PROVE Choice!JobInv(x)'
  <2>1. Choice!JobInv(x)
    BY DEF Choice!IInv
  <2>2. CASE x = w
    BY <2>2, <1>1, ChoiceSame DEF Choice!JobInv, Choice!Allowed, Choice!Enrolled, ChoiceBound
  <2>3. CASE x # w
    BY <2>1, <2>3, <1>1, ChoiceSame DEF Choice!JobInv, Choice!Allowed, Choice!Enrolled
  <2> QED BY <2>2, <2>3
<1>3. Choice!AppliedInv' /\ Choice!Counted' /\ Choice!ValuesInForceOnly'
  BY ChoiceSame DEF Choice!IInv, Choice!AppliedInv, Choice!Counted, Choice!ValuesInForceOnly, Choice!Since,
     Choice!Of, Choice!Withdrawals
<1> QED BY <1>1, <1>2, <1>3 DEF Choice!IInv

\* What the requests say.
LEMMA ChoiceFacts ==
  ASSUME Choice!RowsInv
  PROVE  /\ v1 \in {"demographic", "campaign"} /\ ChoiceBound[v1] \in Nat
         /\ \A r \in Choice!Requests :
              /\ r.action \in {"join", "update", "withdraw"} /\ r.value \in Choices \cup {None}
              /\ r.action = "withdraw" => r.value = None
              /\ v1 = "campaign" => r.value = None
              /\ r.expected = AnyVersion => r.action = "withdraw" /\ v1 = "campaign"
         /\ \A k \in Choice!Kept : k # None /\ k.request \in Choice!Requests /\ k.live \in BOOLEAN
         /\ \A c \in Choice!StateRows : c.version \in Nat /\ c.version <= ChoiceBound[v1]
         /\ AnyVersion \notin Nat
<1>1. v1 \in {"demographic", "campaign"} /\ ChoiceBound[v1] \in Nat /\ AnyVersion \notin Nat
  BY ChoiceAssumed DEF Choice!RowsInv, Choice!Kinds, Choice!ChoiceAssumption, ChoiceBound
<1>2. Choice!Versions = 0..ChoiceBound[v1]
  BY DEF Choice!Versions, ChoiceBound
<1>3. \A r \in Choice!Requests :
        /\ r.action \in {"join", "update", "withdraw"} /\ r.value \in Choices \cup {None}
        /\ r.expected \in Nat \cup {AnyVersion}
        /\ r.action = "withdraw" => r.value = None
        /\ v1 = "campaign" => r.value = None
        /\ r.expected = AnyVersion => r.action = "withdraw" /\ v1 = "campaign"
        /\ r \in [action : {"join", "update", "withdraw"}, expected : Nat \cup {AnyVersion},
                  value : Choices \cup {None}]
  BY <1>1, <1>2 DEF Choice!Requests
<1>4. \A k \in Choice!Kept : k # None /\ k.request \in Choice!Requests /\ k.live \in BOOLEAN
  BY <1>3, ChoiceAssumed DEF Choice!Kept, Choice!ChoiceAssumption
<1>5. \A c \in Choice!StateRows : c.version \in Nat /\ c.version <= ChoiceBound[v1]
  BY <1>1, <1>2 DEF Choice!StateRows
<1> QED BY <1>1, <1>3, <1>4, <1>5

\* A set is counted here as in the model.
LEMMA ChoiceCount ==
  ASSUME NEW S
  PROVE  Choice!Cardinality(S) = Cardinality(S) /\ (Choice!IsFiniteSet(S) <=> IsFiniteSet(S))
BY DEF Choice!Cardinality, Choice!IsFiniteSet, Cardinality, IsFiniteSet

\* A transaction finds the row it read: all of it, since versions only grow.
LEMMA ChoiceReads ==
  ASSUME Choice!IInv, NEW w \in Workers, Choice!Commit(w)
  PROVE  LET j == v7[w] IN
         /\ j \in [op : Operations, request : Choice!Requests, seen : Choice!StateRows]
         /\ j.request.expected \in {v2.version, AnyVersion} /\ Choice!Allowed(v2, j.request)
         /\ v2.version < ChoiceBound[v1] /\ j.seen = v2 /\ v4[j.op] = None /\ ~v5 /\ ~v6
         /\ j.op \notin v10
<1> DEFINE j == v7[w]
<1>1. /\ j # Choice!Idle /\ ~v5 /\ j.seen.version = v2.version /\ v4[j.op] = None
  BY DEF Choice!Commit, Choice!CanCommit, Choice!Open, Choice!Unmoved
<1>2. Choice!JobInv(w) /\ Choice!RowsInv /\ Choice!AppliedInv
  BY DEF Choice!IInv
<1>3. /\ j \in [op : Operations, request : Choice!Requests, seen : Choice!StateRows]
      /\ j.request.expected \in {j.seen.version, AnyVersion}
      /\ Choice!Allowed(j.seen, j.request) /\ j.seen.version < ChoiceBound[v1]
      /\ j.seen.version < v2.version \/ j.seen = v2
  BY <1>1, <1>2 DEF Choice!JobInv, ChoiceBound
<1>4. v2.version \in Nat
  BY <1>2, ChoiceFacts DEF Choice!RowsInv
<1>5. j.seen = v2
  BY <1>1, <1>3, <1>4
<1>6. ~v6 /\ j.op \notin v10
  BY <1>1, <1>2 DEF Choice!RowsInv, Choice!AppliedInv
<1> QED BY <1>1, <1>3, <1>5, <1>6

\* The rows after a transaction: the state, its copy and the receipts.
LEMMA ChoiceWrites ==
  ASSUME Choice!IInv, NEW w \in Workers, Choice!Commit(w)
  PROVE  /\ Choice!RowsInv' /\ v2'.version = v2.version + 1 /\ v2'.op = v7[w].op
         /\ v2'.state \in {"enrolled", "withdrawn", "withdrawal_pending"}
         /\ v2'.state = "withdrawal_pending" <=> v1 = "campaign" /\ v7[w].request.action = "withdraw"
         /\ v7[w].request.action # "withdraw" => v2'.state = "enrolled"
         /\ \A o \in Operations : v4'[o] \in {v4[o], None} \/ (o = v7[w].op /\ v4'[o].request = v7[w].request)
         /\ v1 = "demographic" => \A o \in Operations \ {v7[w].op} : o = v2.op => v4'[o] = None
         /\ \A o \in Operations : o # v2.op /\ o # v7[w].op => v4'[o] = v4[o]
<1> DEFINE j == v7[w]
           c == Choice!Result(j)
<1>1. /\ j \in [op : Operations, request : Choice!Requests, seen : Choice!StateRows]
      /\ v2.version < ChoiceBound[v1] /\ j.seen = v2 /\ ~v5 /\ ~v6
  BY ChoiceReads
<1>2. Choice!RowsInv /\ v1' = v1 /\ v5' = v5 /\ v6' = v6 /\ v10' = v10 /\ DOMAIN v7' = Workers
      /\ v2' = c /\ v3' = (IF v1 = "demographic" THEN c ELSE v3) /\ v4' = Choice!Receipts(j)
  BY DEF Choice!IInv, Choice!RowsInv, Choice!Commit
<1>3. /\ j.request.value \in Choices \cup {None} /\ j.request.action \in {"join", "update", "withdraw"}
      /\ v2.version \in Nat /\ ChoiceBound[v1] \in Nat /\ j.op \in Operations /\ v1 \in {"demographic", "campaign"}
  BY <1>1, <1>2, ChoiceFacts DEF Choice!RowsInv
<1>4. c = [state |-> IF j.request.action # "withdraw" THEN "enrolled"
                     ELSE IF v1 = "demographic" THEN "withdrawn" ELSE "withdrawal_pending",
           version |-> v2.version + 1, op |-> j.op, value |-> j.request.value, live |-> TRUE]
  BY <1>1 DEF Choice!Result
<1>5. v2.version + 1 \in Choice!Versions
  BY <1>1, <1>3 DEF Choice!Versions, ChoiceBound
<1>6. c \in Choice!StateRows
  BY <1>3, <1>4, <1>5 DEF Choice!StateRows, Choice!States
<1>7. [request |-> j.request, live |-> TRUE] \in Choice!Kept
  BY <1>1 DEF Choice!Kept
<1>8. Choice!RowsInv'
  <2>1. Choice!Receipts(j) \in [Operations -> Choice!Kept \cup {None}]
    BY <1>2, <1>7 DEF Choice!RowsInv, Choice!Receipts
  <2>2. v2'.state = "withdrawal_pending" => v1 = "campaign"
    BY <1>2, <1>3, <1>4
  <2> QED BY <1>1, <1>2, <1>6, <2>1, <2>2, ChoiceSame DEF Choice!RowsInv
<1>9. \A o \in Operations :
        v4'[o] = IF o = j.op THEN [request |-> j.request, live |-> TRUE]
                 ELSE IF v1 = "demographic" /\ o = v2.op THEN None ELSE v4[o]
  BY <1>1, <1>2 DEF Choice!Receipts
<1>10. /\ v2'.version = v2.version + 1 /\ v2'.op = j.op
       /\ v2'.state \in {"enrolled", "withdrawn", "withdrawal_pending"}
       /\ v2'.state = "withdrawal_pending" <=> v1 = "campaign" /\ j.request.action = "withdraw"
       /\ j.request.action # "withdraw" => v2'.state = "enrolled"
  BY <1>2, <1>3, <1>4
<1> QED BY <1>8, <1>9, <1>10

\* No request is applied again: the version it names is over, or its command is there.
LEMMA ChoiceNew ==
  ASSUME Choice!IInv, NEW w \in Workers, Choice!Commit(w)
  PROVE  LET a == <<v7[w].op, v7[w].request>> IN
         /\ a \notin Choice!Since /\ a \in Operations \X Choice!Requests
         /\ v8' = v8 \cup {a} /\ Choice!Since' = Choice!Since \cup {a}
         /\ v11' = v11 \cup Choice!Commands(v7[w])
<1> DEFINE j == v7[w]
           a == <<j.op, j.request>>
<1>1. /\ j.op \in Operations /\ j.request \in Choice!Requests /\ ~v5 /\ j.op \notin v10
      /\ j.request.expected \in {v2.version, AnyVersion}
  BY ChoiceReads
<1>2. /\ v8' = v8 \cup {a} /\ v10' = v10 /\ Choice!Commands(j) \cap v11 = {}
      /\ v11' = v11 \cup Choice!Commands(j)
  BY DEF Choice!Commit, Choice!CanCommit
<1>3. Choice!Since' = Choice!Since \cup {a}
  BY <1>1, <1>2 DEF Choice!Since, Choice!Of
<1>4. a \notin Choice!Since
  <2> SUFFICES ASSUME a \in Choice!Since PROVE FALSE
    OBVIOUS
  <2>1. IF j.request.expected = AnyVersion THEN j.op \in v11 ELSE j.request.expected < v2.version
    BY <1>1 DEF Choice!IInv, Choice!AppliedInv
  <2>2. v2.version \in Nat /\ (j.request.expected = AnyVersion => j.request.action = "withdraw" /\ v1 = "campaign")
    BY <1>1, ChoiceFacts DEF Choice!IInv, Choice!RowsInv
  <2>3. CASE j.request.expected = AnyVersion
    BY <1>2, <2>1, <2>2, <2>3 DEF Choice!Commands
  <2>4. CASE j.request.expected = v2.version /\ j.request.expected # AnyVersion
    BY <2>1, <2>2, <2>4
  <2> QED BY <1>1, <2>3, <2>4
<1> QED BY <1>1, <1>2, <1>3, <1>4

\* The version and what was applied count the same after a transaction.
LEMMA ChoiceCounts ==
  ASSUME Choice!IInv, NEW w \in Workers, Choice!Commit(w)
  PROVE  Choice!Counted'
<1> DEFINE j == v7[w]
           a == <<j.op, j.request>>
<1>1. /\ a \notin Choice!Since /\ Choice!Since' = Choice!Since \cup {a}
      /\ IsFiniteSet(Choice!Since) /\ ~v5 /\ v5' = v5 /\ v1' = v1
  <2>1. IsFiniteSet(v8)
    BY ChoiceCount DEF Choice!IInv, Choice!AppliedInv
  <2>2. IsFiniteSet(Choice!Since)
    BY <2>1, FS_Subset DEF Choice!Since, Choice!Of
  <2> QED BY <2>2, ChoiceNew, ChoiceReads DEF Choice!Commit
<1>2. Choice!Withdrawals' = IF j.request.action = "withdraw" THEN Choice!Withdrawals \cup {a}
                            ELSE Choice!Withdrawals
  BY <1>1 DEF Choice!Withdrawals
<1>3. IsFiniteSet(Choice!Withdrawals) /\ a \notin Choice!Withdrawals
  BY <1>1, FS_Subset DEF Choice!Withdrawals
<1>4. /\ Cardinality(Choice!Since') = Cardinality(Choice!Since) + 1
      /\ Cardinality(Choice!Since) \in Nat /\ Cardinality(Choice!Withdrawals) \in Nat
      /\ Cardinality(Choice!Withdrawals') = Cardinality(Choice!Withdrawals)
                                            + (IF j.request.action = "withdraw" THEN 1 ELSE 0)
  <2>1. CASE j.request.action = "withdraw"
    BY <1>1, <1>2, <1>3, <2>1, FS_AddElement, FS_CardinalityType
  <2>2. CASE j.request.action # "withdraw"
    <3>1. Choice!Withdrawals' = Choice!Withdrawals
      BY <1>2, <2>2
    <3>2. Cardinality(Choice!Withdrawals') = Cardinality(Choice!Withdrawals)
      BY <3>1
    <3>3. Cardinality(Choice!Since') = Cardinality(Choice!Since) + 1
      BY <1>1, FS_AddElement
    <3> QED BY <1>1, <1>3, <2>2, <3>2, <3>3, FS_CardinalityType
  <2> QED BY <2>1, <2>2
<1>5. /\ v2'.version = v2.version + 1 /\ v2.version \in Nat /\ v1 \in {"demographic", "campaign"}
      /\ v2'.state = "withdrawal_pending" <=> v1 = "campaign" /\ j.request.action = "withdraw"
      /\ v2.state # "withdrawal_pending"
  <2>1. Choice!Allowed(v2, j.request) /\ j.request.action \in {"join", "update", "withdraw"}
        /\ v1 \in {"demographic", "campaign"} /\ v2.version \in Nat
    BY ChoiceReads, ChoiceFacts DEF Choice!IInv, Choice!RowsInv
  <2>2. v2.state # "withdrawal_pending"
    BY <2>1 DEF Choice!Allowed, Choice!Enrolled
  <2> QED BY <2>1, <2>2, ChoiceWrites
<1>6. v2.version = Cardinality(Choice!Since)
                   + (IF v1 = "demographic" THEN 0 ELSE Cardinality(Choice!Withdrawals))
  BY <1>1, <1>4, <1>5, ChoiceCount DEF Choice!IInv, Choice!Counted
<1>7. v2'.version = Cardinality(Choice!Since')
                    + (IF v1' = "demographic" THEN 0
                       ELSE Cardinality(Choice!Withdrawals') - (IF v2'.state = "withdrawal_pending" THEN 1 ELSE 0))
  BY <1>1, <1>4, <1>5, <1>6
<1> QED BY <1>7, ChoiceCount DEF Choice!Counted

\* A transaction: told is what was applied, and no former values are left.
LEMMA ChoiceCommit ==
  ASSUME Choice!IInv, NEW w \in Workers, Choice!Commit(w)
  PROVE  Choice!IInv' /\ Choice!FenceHolds
<1> DEFINE j == v7[w]
           a == <<j.op, j.request>>
<1>1. /\ Choice!RowsInv /\ Choice!AppliedInv /\ Choice!ValuesInForceOnly
      /\ ~v5 /\ ~v6 /\ v5' = v5 /\ v10' = v10 /\ v1' = v1 /\ v9' \subseteq v9 \cup {a}
      /\ j.op \notin v10 /\ j.op \in Operations /\ j.request.expected \in {v2.version, AnyVersion}
      /\ v7' = [v7 EXCEPT ![w] = Choice!Idle]
  BY ChoiceReads DEF Choice!IInv, Choice!Commit
<1>2. /\ Choice!RowsInv' /\ v2'.version = v2.version + 1 /\ v2'.op = j.op
      /\ v2'.state \in {"enrolled", "withdrawn", "withdrawal_pending"}
      /\ j.request.action # "withdraw" => v2'.state = "enrolled"
      /\ \A o \in Operations : v4'[o] \in {v4[o], None} \/ (o = j.op /\ v4'[o].request = j.request)
      /\ v1 = "demographic" => \A o \in Operations \ {j.op} : o = v2.op => v4'[o] = None
      /\ \A o \in Operations : o # v2.op /\ o # j.op => v4'[o] = v4[o]
  BY ChoiceWrites
<1>3. /\ a \in Operations \X Choice!Requests /\ v8' = v8 \cup {a}
      /\ Choice!Since' = Choice!Since \cup {a} /\ v11' = v11 \cup Choice!Commands(j)
  BY ChoiceNew
<1>4. /\ v2.version \in Nat /\ v1 \in {"demographic", "campaign"} /\ AnyVersion \notin Nat
      /\ j.request.expected = AnyVersion => j.request.action = "withdraw" /\ v1 = "campaign"
      /\ j.request.action = "withdraw" \/ v1 = "campaign" => j.request.value = None
  BY <1>1, <1>3, ChoiceFacts DEF Choice!RowsInv
<1>5. Choice!AppliedInv'
  <2>1. v8' \subseteq Operations \X Choice!Requests' /\ v9' \subseteq v8'
    BY <1>1, <1>3, ChoiceSame DEF Choice!AppliedInv
  <2>2. Choice!IsFiniteSet(v8')
    BY <1>1, <1>3, ChoiceCount, FS_AddElement DEF Choice!AppliedInv
  <2>3. ASSUME NEW o \in Operations, v4'[o] # None PROVE <<o, v4'[o].request>> \in v8'
    BY <1>1, <1>2, <1>3, <2>3 DEF Choice!AppliedInv
  <2>4. ASSUME NEW o \in v10 PROVE v4'[o] # None /\ v2'.op # o
    <3>1. v4[o] # None /\ v2.op # o /\ o \in Operations /\ o # j.op
      BY <1>1, <2>4 DEF Choice!AppliedInv, Choice!RowsInv
    <3> QED BY <3>1, <1>2
  <2>5. ASSUME NEW x \in Choice!Since'
        PROVE  IF x[2].expected = AnyVersion THEN x[1] \in v11' ELSE x[2].expected < v2'.version
    <3>1. CASE x = a
      BY <3>1, <1>1, <1>2, <1>3, <1>4 DEF Choice!Commands
    <3>2. CASE x \in Choice!Since
      <4>1. IF x[2].expected = AnyVersion THEN x[1] \in v11 ELSE x[2].expected < v2.version
        BY <3>2, <1>1 DEF Choice!AppliedInv
      <4>2. x[2] \in Choice!Requests
        BY <3>2, <1>1 DEF Choice!AppliedInv, Choice!Since, Choice!Of
      <4>3. x[2].expected \in Nat \cup {AnyVersion}
        BY <4>2, <1>4, ChoiceFacts, <1>1 DEF Choice!Requests, Choice!Versions
      <4> QED BY <4>1, <4>3, <1>2, <1>3, <1>4
    <3> QED BY <2>5, <1>3, <3>1, <3>2
  <2>6. v2' # Choice!NotEnrolled
    BY <1>2 DEF Choice!NotEnrolled
  <2> QED BY <1>1, <2>1, <2>2, <2>3, <2>4, <2>5, <2>6 DEF Choice!AppliedInv, Choice!NotEnrolled
<1>6. Choice!ValuesInForceOnly'
  <2> SUFFICES ASSUME NEW o \in Operations \ v10, v4'[o] # None, v4'[o].request.value # None
               PROVE  v2'.op = o /\ v2'.state = "enrolled"
    BY <1>1 DEF Choice!ValuesInForceOnly
  <2>1. CASE o = j.op
    <3>1. v4[o] = None
      BY <2>1, ChoiceReads
    <3> QED BY <3>1, <2>1, <1>2, <1>4
  <2>2. CASE o # j.op
    <3>1. v4'[o] = v4[o]
      BY <1>2, <2>2
    <3>2. v2.op = o
      BY <3>1, <1>1 DEF Choice!ValuesInForceOnly
    <3>3. v1 = "campaign"
      BY <3>2, <1>2, <1>4, <2>2
    <3>4. <<o, v4[o].request>> \in v8
      BY <3>1, <1>1 DEF Choice!AppliedInv
    <3>5. v4[o].request \in Choice!Requests
      BY <3>4, <1>1 DEF Choice!AppliedInv
    <3>6. v4[o].request.value = None
      BY <3>3, <3>5, <1>1, ChoiceFacts
    <3> QED BY <3>1, <3>6
  <2> QED BY <2>1, <2>2
<1>7. ASSUME NEW x \in Workers PROVE Choice!JobInv(x)'
  <2>1. CASE x = w
    BY <2>1, <1>1 DEF Choice!JobInv, Choice!RowsInv
  <2>2. CASE x # w
    <3>1. Choice!JobInv(x) /\ v7'[x] = v7[x]
      BY <2>2, <1>1 DEF Choice!IInv
    <3>2. CASE v7[x] = Choice!Idle
      BY <3>1, <3>2 DEF Choice!JobInv
    <3>3. CASE v7[x] # Choice!Idle
      <4>1. v7[x].seen \in Choice!StateRows /\ (v7[x].seen.version < v2.version \/ v7[x].seen = v2)
        BY <3>1, <3>3, <1>1 DEF Choice!JobInv
      <4>2. v7[x].seen.version < v2'.version
        BY <4>1, <1>1, <1>2, <1>4, ChoiceFacts
      <4> QED BY <3>1, <3>3, <4>2, <1>1, ChoiceSame DEF Choice!JobInv, Choice!Allowed, Choice!Enrolled
    <3> QED BY <3>2, <3>3
  <2> QED BY <2>1, <2>2
<1>8. Choice!FenceHolds
  BY <1>1 DEF Choice!FenceHolds
<1> QED BY <1>2, <1>5, <1>6, <1>7, <1>8, ChoiceCounts DEF Choice!IInv

\* The bridge completes a withdrawal: a version without a request of its own.
LEMMA ChoiceCompletes ==
  ASSUME Choice!IInv, Choice!CompleteWithdrawal
  PROVE  Choice!IInv'
<1>1. /\ v2.state = "withdrawal_pending" /\ v2' = [v2 EXCEPT !.state = "withdrawn", !.version = v2.version + 1]
      /\ v2 \in Choice!StateRows /\ v2.version < ChoiceBound[v1] /\ ~v6
      /\ UNCHANGED <<v1, v3, v4, v5, v6, v7, v8, v9, v10, v11>>
  BY DEF Choice!CompleteWithdrawal, Choice!answers, Choice!IInv, Choice!RowsInv, ChoiceBound
<1>2. v2.version \in Nat /\ ChoiceBound[v1] \in Nat /\ v1 \in {"demographic", "campaign"}
  BY <1>1, ChoiceFacts DEF Choice!IInv
<1>3. v2'.state = "withdrawn" /\ v2'.version = v2.version + 1 /\ v2'.op = v2.op
  BY <1>1 DEF Choice!StateRows
<1>4. v2' \in Choice!StateRows
  <2>1. v2.version + 1 \in Choice!Versions
    BY <1>1, <1>2 DEF Choice!Versions, ChoiceBound
  <2> QED BY <1>1, <2>1 DEF Choice!StateRows, Choice!States
<1>5. Choice!RowsInv'
  BY <1>1, <1>4, ChoiceSame DEF Choice!IInv, Choice!RowsInv
<1>6. ASSUME NEW x \in Workers PROVE Choice!JobInv(x)'
  <2>1. Choice!JobInv(x) /\ v7'[x] = v7[x]
    BY <1>1 DEF Choice!IInv
  <2>2. CASE v7[x] = Choice!Idle
    BY <2>1, <2>2 DEF Choice!JobInv
  <2>3. CASE v7[x] # Choice!Idle
    <3>1. v7[x].seen \in Choice!StateRows /\ (v5 \/ v7[x].seen.version < v2.version \/ v7[x].seen = v2)
      BY <2>1, <2>3 DEF Choice!JobInv
    <3>2. v5 \/ v7[x].seen.version < v2'.version
      BY <3>1, <1>2, <1>3, ChoiceFacts DEF Choice!IInv
    <3> QED BY <2>1, <2>3, <3>2, <1>1, ChoiceSame DEF Choice!JobInv, Choice!Allowed, Choice!Enrolled
  <2> QED BY <2>2, <2>3
<1>7. Choice!Since' = Choice!Since /\ Choice!Withdrawals' = Choice!Withdrawals
  BY <1>1 DEF Choice!Since, Choice!Of, Choice!Withdrawals
<1>8. Choice!AppliedInv'
  <2>1. ASSUME NEW x \in Choice!Since, v8 \subseteq Operations \X Choice!Requests,
               IF x[2].expected = AnyVersion THEN x[1] \in v11 ELSE x[2].expected < v2.version
        PROVE  IF x[2].expected = AnyVersion THEN x[1] \in v11 ELSE x[2].expected < v2'.version
    <3>1. x[2].expected \in Nat \cup {AnyVersion}
      BY <2>1, <1>2 DEF Choice!Since, Choice!Of, Choice!Requests, Choice!Versions
    <3> QED BY <3>1, <2>1, <1>2, <1>3
  <2>2. v2' # Choice!NotEnrolled
    BY <1>2, <1>3 DEF Choice!NotEnrolled
  <2> QED BY <1>1, <1>3, <1>7, <2>1, <2>2, ChoiceSame DEF Choice!IInv, Choice!AppliedInv, Choice!NotEnrolled
<1>9. Choice!Counted'
  <2>1. v5 \/ v2.version = Cardinality(Choice!Since)
          + (IF v1 = "demographic" THEN 0 ELSE Cardinality(Choice!Withdrawals) - 1)
    BY <1>1, ChoiceCount DEF Choice!IInv, Choice!Counted
  <2>2. v1 = "campaign" \/ v5
    BY <1>1 DEF Choice!IInv, Choice!RowsInv
  <2>3. IsFiniteSet(Choice!Since) /\ IsFiniteSet(Choice!Withdrawals)
    BY FS_Subset, ChoiceCount DEF Choice!IInv, Choice!AppliedInv, Choice!Since, Choice!Of, Choice!Withdrawals
  <2>4. Cardinality(Choice!Since) \in Nat /\ Cardinality(Choice!Withdrawals) \in Nat
    BY <2>3, FS_CardinalityType
  <2>5. v5 \/ v2'.version = Cardinality(Choice!Since) + Cardinality(Choice!Withdrawals)
    BY <1>2, <1>3, <2>1, <2>2, <2>4
  <2> QED BY <1>1, <1>3, <1>7, <2>2, <2>4, <2>5, ChoiceCount DEF Choice!Counted
<1>10. Choice!ValuesInForceOnly'
  BY <1>1, <1>3 DEF Choice!IInv, Choice!ValuesInForceOnly
<1> QED BY <1>5, <1>6, <1>8, <1>9, <1>10 DEF Choice!IInv

\* Rows expire while no request is under way: what outlives its state row is set apart.
LEMMA ChoiceExpires ==
  ASSUME Choice!IInv,
         \/ Choice!Lapse \/ Choice!DropState \/ Choice!DropAuthority
         \/ \E o \in Operations : Choice!ExpireReceipt(o) \/ Choice!DropReceipt(o)
  PROVE  Choice!IInv' /\ Choice!FenceHolds
<1>1. Choice!RowsInv /\ Choice!AppliedInv /\ Choice!Counted /\ Choice!ValuesInForceOnly
      /\ Choice!NotEnrolled \in Choice!StateRows /\ \A x \in Workers : Choice!JobInv(x)
  <2>1. 0 \in Choice!Versions
    BY ChoiceFacts DEF Choice!Versions, Choice!IInv, ChoiceBound
  <2> QED BY <2>1 DEF Choice!IInv, Choice!NotEnrolled, Choice!StateRows, Choice!States
<1>2. CASE Choice!Lapse
  <2>1. /\ v2' = [v2 EXCEPT !.live = FALSE] /\ v3' \in {v3, [v3 EXCEPT !.live = FALSE]}
        /\ v2 # Choice!NotEnrolled /\ v2 \in Choice!StateRows /\ v3 \in Choice!StateRows
        /\ UNCHANGED <<v1, v4, v5, v6, v7, v8, v9, v10, v11>> /\ \A x \in Workers : v7[x] = Choice!Idle
    BY <1>1, <1>2 DEF Choice!Lapse, Choice!RowsInv, Choice!answers
  <2>2. /\ v2' \in Choice!StateRows /\ v3' \in Choice!StateRows
        /\ v2'.state = v2.state /\ v2'.version = v2.version /\ v2'.op = v2.op /\ ~v2'.live
    BY <2>1 DEF Choice!StateRows
  <2>3. Choice!Since' = Choice!Since /\ Choice!Withdrawals' = Choice!Withdrawals /\ v2' # Choice!NotEnrolled
    BY <2>1, <2>2 DEF Choice!Since, Choice!Of, Choice!Withdrawals, Choice!NotEnrolled
  <2>4. Choice!RowsInv'
    BY <1>1, <2>1, <2>2, ChoiceSame DEF Choice!RowsInv
  <2>5. Choice!AppliedInv'
    BY <1>1, <2>1, <2>2, <2>3, ChoiceSame DEF Choice!AppliedInv, Choice!NotEnrolled
  <2>6. Choice!Counted' /\ Choice!ValuesInForceOnly'
    BY <1>1, <2>1, <2>2, <2>3 DEF Choice!Counted, Choice!ValuesInForceOnly
  <2>7. \A x \in Workers : Choice!JobInv(x)'
    BY <2>1 DEF Choice!JobInv
  <2> QED BY <1>1, <2>1, <2>4, <2>5, <2>6, <2>7 DEF Choice!IInv, Choice!FenceHolds, Choice!RowsInv
<1>3. CASE Choice!DropState
  <2>1. /\ v2' = Choice!NotEnrolled /\ v10' = {o \in Operations : v4[o] # None}
        /\ v8' = Choice!Of(v8, v10') /\ v9' = Choice!Of(v9, v10') /\ ~v2.live
        /\ UNCHANGED <<v1, v3, v4, v5, v6, v7, v11>> /\ \A x \in Workers : v7[x] = Choice!Idle
    BY <1>3 DEF Choice!DropState
  <2>2. v8' \subseteq v8 /\ v9' \subseteq v8' /\ v9' \subseteq v9 /\ Choice!IsFiniteSet(v8')
    <3>1. v8' \subseteq v8 /\ v9' \subseteq v8' /\ v9' \subseteq v9
      BY <1>1, <2>1 DEF Choice!Of, Choice!AppliedInv
    <3> QED BY <3>1, <1>1, ChoiceCount, FS_Subset DEF Choice!AppliedInv
  <2>3. Choice!Since' = {} /\ Choice!Withdrawals' = {}
    BY <2>1 DEF Choice!Since, Choice!Of, Choice!Withdrawals
  <2>4. /\ v2'.state = "not_enrolled" /\ v2'.version = 0 /\ v2'.op = None /\ v2 # Choice!NotEnrolled
    BY <2>1 DEF Choice!NotEnrolled
  <2>5. Choice!RowsInv'
    BY <1>1, <2>1, <2>4, ChoiceSame DEF Choice!RowsInv
  <2>6. Choice!AppliedInv'
    <3>1. v8' \subseteq Operations \X Choice!Requests'
      BY <1>1, <2>1, <2>2, ChoiceSame DEF Choice!AppliedInv
    <3>2. ASSUME NEW o \in Operations, v4'[o] # None PROVE <<o, v4'[o].request>> \in v8'
      BY <3>2, <1>1, <2>1 DEF Choice!AppliedInv, Choice!Of
    <3>3. \A o \in v10' : v4'[o] # None /\ v2'.op # o
      BY <2>1, <2>4, ChoiceAssumed DEF Choice!ChoiceAssumption
    <3> QED BY <2>2, <2>3, <3>1, <3>2, <3>3 DEF Choice!AppliedInv
  <2>7. Choice!Counted' /\ Choice!ValuesInForceOnly'
    <3>1. Cardinality(Choice!Since') = 0 /\ Cardinality(Choice!Withdrawals') = 0
      BY <2>3, FS_EmptySet
    <3>2. Choice!Counted'
      BY <3>1, <2>4, ChoiceCount DEF Choice!Counted
    <3> QED BY <2>1, <3>2 DEF Choice!ValuesInForceOnly
  <2>8. \A x \in Workers : Choice!JobInv(x)'
    BY <2>1 DEF Choice!JobInv
  <2> QED BY <1>1, <2>1, <2>2, <2>4, <2>5, <2>6, <2>7, <2>8 DEF Choice!IInv, Choice!FenceHolds, Choice!RowsInv
<1>4. CASE Choice!DropAuthority
  <2>1. v3' = Choice!NotEnrolled /\ ~v3.live /\ UNCHANGED <<v1, v2, v4, v5, v6, v7, v8, v9, v10, v11>>
    BY <1>4 DEF Choice!DropAuthority, Choice!answers
  <2>2. v3 # Choice!NotEnrolled
    BY <2>1 DEF Choice!NotEnrolled
  <2>3. Choice!RowsInv'
    BY <1>1, <2>1, ChoiceSame DEF Choice!RowsInv
  <2>4. Choice!AppliedInv' /\ Choice!Counted' /\ Choice!ValuesInForceOnly'
    BY <1>1, <2>1, ChoiceSame DEF Choice!AppliedInv, Choice!Counted, Choice!ValuesInForceOnly,
       Choice!Since, Choice!Of, Choice!Withdrawals
  <2>5. \A x \in Workers : Choice!JobInv(x)'
    BY <1>1, <2>1, ChoiceSame DEF Choice!JobInv, Choice!Allowed, Choice!Enrolled
  <2> QED BY <1>1, <2>1, <2>2, <2>3, <2>4, <2>5 DEF Choice!IInv, Choice!FenceHolds, Choice!RowsInv
<1>5. ASSUME NEW o \in Operations, Choice!ExpireReceipt(o) PROVE Choice!IInv' /\ Choice!FenceHolds
  <2>1. /\ v4' = [v4 EXCEPT ![o].live = FALSE] /\ v4[o] # None
        /\ UNCHANGED <<v1, v2, v3, v5, v6, v7, v8, v9, v10, v11>>
    BY <1>5 DEF Choice!ExpireReceipt, Choice!Readable, Choice!answers
  <2>2. v4[o] \in Choice!Kept
    BY <1>1, <2>1 DEF Choice!RowsInv
  <2>3. /\ v4'[o] \in Choice!Kept /\ v4'[o].request = v4[o].request
        /\ \A q \in Operations \ {o} : v4'[q] = v4[q]
    BY <1>1, <2>1, <2>2 DEF Choice!RowsInv, Choice!Kept
  <2>4. v4'[o] # None
    BY <2>3, <1>1, ChoiceFacts
  <2>5. v4' \in [Operations -> Choice!Kept \cup {None}]
    <3>1. DOMAIN v4' = Operations /\ v4' = [q \in Operations |-> v4'[q]]
      BY <1>1, <2>1 DEF Choice!RowsInv
    <3> QED BY <3>1, <1>1, <2>3 DEF Choice!RowsInv
  <2>6. Choice!RowsInv' /\ ~v6
    BY <1>1, <2>1, <2>5, ChoiceSame DEF Choice!RowsInv
  <2>7. Choice!AppliedInv' /\ Choice!Counted' /\ Choice!ValuesInForceOnly'
    <3>1. Choice!Since' = Choice!Since /\ Choice!Withdrawals' = Choice!Withdrawals
      BY <2>1 DEF Choice!Since, Choice!Of, Choice!Withdrawals
    <3>2. Choice!Counted'
      BY <1>1, <2>1, <3>1 DEF Choice!Counted
    <3>3. Choice!ValuesInForceOnly'
      BY <1>1, <2>1, <2>3 DEF Choice!ValuesInForceOnly
    <3>4. Choice!AppliedInv'
      BY <1>1, <2>1, <2>3, <2>4, <3>1, ChoiceSame DEF Choice!AppliedInv, Choice!RowsInv
    <3> QED BY <3>2, <3>3, <3>4
  <2>8. \A x \in Workers : Choice!JobInv(x)'
    BY <1>1, <2>1, ChoiceSame DEF Choice!JobInv, Choice!Allowed, Choice!Enrolled
  <2> QED BY <2>1, <2>3, <2>6, <2>7, <2>8 DEF Choice!IInv, Choice!FenceHolds
<1>6. ASSUME NEW o \in Operations, Choice!DropReceipt(o) PROVE Choice!IInv' /\ Choice!FenceHolds
  <2>1. /\ v4' = [v4 EXCEPT ![o] = None] /\ v4[o] # None /\ v10' = v10 \ {o}
        /\ v8' = v8 \ Choice!Of(v8, v10 \cap {o}) /\ v9' = v9 \ Choice!Of(v9, v10 \cap {o})
        /\ UNCHANGED <<v1, v2, v3, v5, v6, v7, v11>>
    BY <1>6 DEF Choice!DropReceipt
  <2>2. v4'[o] = None /\ \A q \in Operations \ {o} : v4'[q] = v4[q]
    BY <1>1, <2>1 DEF Choice!RowsInv
  <2>3. Choice!RowsInv' /\ ~v6
    BY <1>1, <2>1, ChoiceSame DEF Choice!RowsInv
  <2>4. v8' \subseteq v8 /\ v9' \subseteq v8' /\ v9' \subseteq v9 /\ Choice!IsFiniteSet(v8')
    <3>1. v8' \subseteq v8 /\ v9' \subseteq v8' /\ v9' \subseteq v9
      BY <1>1, <2>1 DEF Choice!Of, Choice!AppliedInv
    <3> QED BY <3>1, <1>1, ChoiceCount, FS_Subset DEF Choice!AppliedInv
  <2>5. Choice!Since' = Choice!Since /\ Choice!Withdrawals' = Choice!Withdrawals
    <3>1. Choice!Since' = Choice!Since
      <4>1. \A x : x \in Choice!Since' <=> x \in Choice!Since
        BY <2>1 DEF Choice!Since, Choice!Of
      <4> QED BY <4>1
    <3> QED BY <3>1 DEF Choice!Withdrawals
  <2>6. Choice!AppliedInv'
    <3>1. \A q \in Operations : v4'[q] # None => <<q, v4'[q].request>> \in v8'
      BY <1>1, <2>1, <2>2 DEF Choice!AppliedInv, Choice!Of
    <3>2. v5 \/ \A q \in v10' : v4'[q] # None /\ v2'.op # q
      BY <1>1, <2>1, <2>2 DEF Choice!AppliedInv, Choice!RowsInv
    <3>3. v8' \subseteq Operations \X Choice!Requests'
      BY <1>1, <2>1, <2>4, ChoiceSame DEF Choice!AppliedInv
    <3> QED BY <1>1, <2>1, <2>4, <2>5, <3>1, <3>2, <3>3 DEF Choice!AppliedInv, Choice!NotEnrolled
  <2>7. Choice!Counted' /\ Choice!ValuesInForceOnly'
    BY <1>1, <2>1, <2>2, <2>5 DEF Choice!Counted, Choice!ValuesInForceOnly
  <2>8. \A x \in Workers : Choice!JobInv(x)'
    BY <1>1, <2>1, ChoiceSame DEF Choice!JobInv, Choice!Allowed, Choice!Enrolled
  <2> QED BY <2>1, <2>2, <2>3, <2>4, <2>6, <2>7, <2>8 DEF Choice!IInv, Choice!FenceHolds
<1> QED BY <1>2, <1>3, <1>4, <1>5, <1>6

\* The deletion of the account: behind its fence rows only go.
LEMMA ChoiceErases ==
  ASSUME Choice!IInv,
         \/ Choice!RequestDeletion \/ Choice!EraseState \/ Choice!EraseAuthority \/ Choice!FinishErasure
         \/ \E o \in Operations : Choice!EraseReceipt(o)
  PROVE  Choice!IInv' /\ Choice!FenceHolds
<1>1. /\ v5' /\ v5' \in BOOLEAN /\ v6' \in BOOLEAN /\ UNCHANGED <<v1, v7, v8, v9, v10, v11>>
      /\ v2' \in {v2, Choice!NotEnrolled} /\ v3' \in {v3, Choice!NotEnrolled}
      /\ \A o \in Operations : v4'[o] \in {v4[o], None}
      /\ v4' \in [Operations -> Choice!Kept \cup {None}]
      /\ v6' => v2' = Choice!NotEnrolled /\ v3' = Choice!NotEnrolled /\ \A o \in Operations : v4'[o] = None
      /\ v6 => UNCHANGED <<v2, v3, v4>>
  <2>1. Choice!RowsInv
    BY DEF Choice!IInv
  <2>2. CASE Choice!RequestDeletion
    BY <2>1, <2>2 DEF Choice!RequestDeletion, Choice!rows, Choice!answers, Choice!RowsInv
  <2>3. CASE Choice!EraseState
    BY <2>1, <2>3 DEF Choice!EraseState, Choice!answers, Choice!RowsInv
  <2>4. CASE Choice!EraseAuthority
    BY <2>1, <2>4 DEF Choice!EraseAuthority, Choice!answers, Choice!RowsInv
  <2>5. CASE Choice!FinishErasure
    BY <2>1, <2>5 DEF Choice!FinishErasure, Choice!rows, Choice!answers, Choice!RowsInv
  <2>6. ASSUME NEW o \in Operations, Choice!EraseReceipt(o)
        PROVE  /\ v5' /\ v5' \in BOOLEAN /\ v6' = v6 /\ ~v6 /\ UNCHANGED <<v1, v2, v3, v7, v8, v9, v10, v11>>
               /\ \A q \in Operations : v4'[q] \in {v4[q], None}
               /\ v4' \in [Operations -> Choice!Kept \cup {None}]
    BY <2>1, <2>6 DEF Choice!EraseReceipt, Choice!answers, Choice!RowsInv
  <2> QED BY <2>1, <2>2, <2>3, <2>4, <2>5, <2>6 DEF Choice!RowsInv
<1>2. Choice!RowsInv /\ Choice!AppliedInv /\ Choice!NotEnrolled \in Choice!StateRows
      /\ \A x \in Workers : Choice!JobInv(x)
  <2>1. 0 \in Choice!Versions
    BY ChoiceFacts DEF Choice!Versions, Choice!IInv, ChoiceBound
  <2> QED BY <2>1 DEF Choice!IInv, Choice!NotEnrolled, Choice!StateRows, Choice!States
<1>3. Choice!RowsInv'
  <2>1. v2' \in Choice!StateRows /\ v3' \in Choice!StateRows /\ (v2'.state = "withdrawal_pending" => v1 = "campaign")
    <3>1. Choice!NotEnrolled.state # "withdrawal_pending"
      BY DEF Choice!NotEnrolled
    <3> QED BY <1>1, <1>2, <3>1 DEF Choice!RowsInv
  <2> QED BY <1>1, <1>2, <2>1, ChoiceSame DEF Choice!RowsInv
<1>4. Choice!AppliedInv' /\ Choice!Counted' /\ Choice!ValuesInForceOnly'
  <2>1. Choice!AppliedInv'
    BY <1>1, <1>2, ChoiceSame DEF Choice!AppliedInv
  <2> QED BY <1>1, <2>1 DEF Choice!Counted, Choice!ValuesInForceOnly
<1>5. \A x \in Workers : Choice!JobInv(x)'
  BY <1>1, <1>2, ChoiceSame DEF Choice!JobInv, Choice!Allowed, Choice!Enrolled
<1>6. Choice!FenceHolds
  BY <1>1 DEF Choice!FenceHolds, Choice!rows
<1> QED BY <1>3, <1>4, <1>5, <1>6 DEF Choice!IInv

\* Every step.
LEMMA ChoiceStep ==
  ASSUME Choice!IInv, Choice!Next
  PROVE  Choice!IInv' /\ Choice!FenceHolds
<1>0. Choice!RowsInv /\ Choice!AppliedInv
  BY DEF Choice!IInv
<1>1. ASSUME NEW w \in Workers, NEW o \in Operations, NEW r \in Choice!Requests,
             Choice!Replay(w, o, r) \/ Choice!Begin(w, o, r)
      PROVE  Choice!IInv' /\ Choice!FenceHolds
  <2>1. CASE Choice!Replay(w, o, r)
    <3>1. <<o, r>> \in v8 /\ ~v5 /\ UNCHANGED <<v1, v2, v3, v4, v5, v6, v7, v8, v10, v11>> /\ v9' = v9 \cup {<<o, r>>}
          /\ v7[w] = Choice!Idle
      <4>1. v4[o] # None /\ v4[o].request = r /\ ~v5
        BY <2>1 DEF Choice!Replay, Choice!Replays, Choice!Readable, Choice!Open
      <4>2. <<o, r>> \in v8
        BY <4>1, <1>0 DEF Choice!AppliedInv
      <4>3. UNCHANGED <<v1, v2, v3, v4, v5, v6, v7, v8, v10, v11>> /\ v9' = v9 \cup {<<o, r>>}
            /\ v7[w] = Choice!Idle
        BY <2>1 DEF Choice!Replay, Choice!rows
      <4> QED BY <4>1, <4>2, <4>3
    <3>2. DOMAIN v7' = Workers
      BY <3>1, <1>0 DEF Choice!RowsInv
    <3>3. Choice!IInv'
      BY <3>1, <3>2, <1>0, ChoiceQuiet DEF Choice!AppliedInv
    <3> QED BY <3>1, <3>3, <1>0 DEF Choice!FenceHolds, Choice!rows, Choice!RowsInv
  <2>2. CASE Choice!Begin(w, o, r)
    <3>1. PICK j : j = [op |-> o, request |-> r, seen |-> v2]
      OBVIOUS
    <3>2. /\ UNCHANGED <<v1, v2, v3, v4, v5, v6, v8, v9, v10, v11>> /\ v7' = [v7 EXCEPT ![w] = j]
          /\ r.expected \in {v2.version, AnyVersion} /\ v2.version < ChoiceBound[v1] /\ Choice!Allowed(v2, r)
      BY <2>2, <3>1 DEF Choice!Begin, Choice!rows, Choice!answers, ChoiceBound
    <3>3. j \in [op : Operations, request : Choice!Requests, seen : Choice!StateRows]
      BY <3>1, <1>0 DEF Choice!RowsInv
    <3>4. Choice!IInv'
      <4>1. DOMAIN v7' = Workers /\ v7'[w] = j /\ \A x \in Workers \ {w} : v7'[x] = v7[x]
        BY <3>2, <1>0 DEF Choice!RowsInv
      <4> QED BY <3>1, <3>2, <3>3, <4>1, <1>0, ChoiceQuiet DEF Choice!AppliedInv
    <3> QED BY <3>2, <3>4, <1>0 DEF Choice!FenceHolds, Choice!rows, Choice!RowsInv
  <2> QED BY <1>1, <2>1, <2>2
<1>2. ASSUME NEW w \in Workers, Choice!Cancelled(w) \/ Choice!Crash(w)
      PROVE  Choice!IInv' /\ Choice!FenceHolds
  <2>1. /\ UNCHANGED <<v1, v2, v3, v4, v5, v6, v8, v10, v11>> /\ v7' = [v7 EXCEPT ![w] = Choice!Idle]
        /\ v9' \subseteq v8 /\ (v5 => v9' = v9)
    <3>1. CASE Choice!Cancelled(w)
      <4>1. /\ UNCHANGED <<v1, v2, v3, v4, v5, v6, v8, v10, v11>> /\ v7' = [v7 EXCEPT ![w] = Choice!Idle]
            /\ v7[w] # Choice!Idle
            /\ v9' = IF Choice!Replays(v7[w].op, v7[w].request) /\ ~v5
                     THEN v9 \cup {<<v7[w].op, v7[w].request>>} ELSE v9
        BY <3>1 DEF Choice!Cancelled, Choice!Open, Choice!rows
      <4>2. v7[w].op \in Operations
        BY <4>1 DEF Choice!IInv, Choice!JobInv
      <4>3. v9' \subseteq v8
        BY <4>1, <4>2, <1>0 DEF Choice!Replays, Choice!Readable, Choice!AppliedInv
      <4> QED BY <4>1, <4>3
    <3>2. CASE Choice!Crash(w)
      BY <3>2, <1>0 DEF Choice!Crash, Choice!rows, Choice!answers, Choice!AppliedInv
    <3> QED BY <1>2, <3>1, <3>2
  <2>2. Choice!IInv'
    <3>1. DOMAIN v7' = Workers /\ v7'[w] = Choice!Idle /\ \A x \in Workers \ {w} : v7'[x] = v7[x]
      BY <2>1, <1>0 DEF Choice!RowsInv
    <3> QED BY <2>1, <3>1, ChoiceQuiet
  <2> QED BY <2>1, <2>2 DEF Choice!FenceHolds, Choice!rows
<1>3. ASSUME Choice!CompleteWithdrawal PROVE Choice!IInv' /\ Choice!FenceHolds
  BY <1>3, ChoiceCompletes DEF Choice!FenceHolds, Choice!CompleteWithdrawal, Choice!answers
<1> QED BY <1>1, <1>2, <1>3, ChoiceCommit, ChoiceExpires, ChoiceErases DEF Choice!Next

\* A choice about research is applied once, however often and with whatever fields its
\* operationId is sent; clients are told truly; former values go with the next
\* transaction; and nothing is chosen behind the account's deletion (update_profile,
\* update_participation, delete_user_profile_state).
THEOREM ChoicesSound == Spec => ChoicesHold
<1> DEFINE Inv == part = "choice" => Choice!IInv
<1>1. Init => Inv
  <2> SUFFICES ASSUME Choice!Init PROVE Choice!IInv
    BY DEF Init
  <2>1. /\ v1 \in Choice!Kinds /\ v2 = Choice!NotEnrolled /\ v3 = Choice!NotEnrolled
        /\ v4 = [o \in Operations |-> None] /\ v11 = {} /\ v5 = FALSE /\ v6 = FALSE
        /\ v7 = [w \in Workers |-> Choice!Idle] /\ v8 = {} /\ v9 = {} /\ v10 = {}
    BY DEF Choice!Init, Choice!Kinds
  <2>2. Choice!NotEnrolled \in Choice!StateRows
    <3>1. 0 \in Choice!Versions
      BY <2>1, ChoiceAssumed DEF Choice!Versions, Choice!ChoiceAssumption
    <3> QED BY <3>1 DEF Choice!NotEnrolled, Choice!StateRows, Choice!States
  <2>3. Choice!RowsInv
    BY <2>1, <2>2 DEF Choice!RowsInv, Choice!NotEnrolled
  <2>4. Choice!Since = {} /\ Choice!Withdrawals = {}
    BY <2>1 DEF Choice!Since, Choice!Of, Choice!Withdrawals
  <2>5. Choice!IsFiniteSet(v8) /\ Choice!Cardinality(Choice!Since) = 0 /\ Choice!Cardinality(Choice!Withdrawals) = 0
    BY <2>1, <2>4, ChoiceCount, FS_EmptySet
  <2>6. Choice!AppliedInv /\ Choice!Counted
    BY <2>1, <2>4, <2>5 DEF Choice!AppliedInv, Choice!Counted, Choice!NotEnrolled
  <2> QED BY <2>1, <2>3, <2>6 DEF Choice!IInv, Choice!JobInv, Choice!ValuesInForceOnly
<1>2. Inv /\ [Next]_vars => Inv'
  <2>1. CASE Next
    BY <2>1, ChoiceStep DEF Next
  <2>2. CASE UNCHANGED vars
    <3>1. v1' = v1 /\ Choice!Requests' = Choice!Requests /\ Choice!StateRows' = Choice!StateRows
          /\ Choice!Kept' = Choice!Kept
      BY <2>2, ChoiceSame DEF vars
    <3> QED BY <2>2, <3>1 DEF vars, Choice!IInv, Choice!RowsInv, Choice!JobInv, Choice!AppliedInv, Choice!Counted,
          Choice!ValuesInForceOnly, Choice!Since, Choice!Of, Choice!Withdrawals, Choice!Allowed, Choice!Enrolled
  <2> QED BY <2>1, <2>2
<1>3. Inv /\ [Next]_vars => [part = "choice" => Choice!FenceHolds]_vars
  BY ChoiceStep DEF Next
<1>4. Inv => (part = "choice" => Choice!TypeOK /\ Choice!AppliedOnce /\ Choice!ToldTruth /\ Choice!ValuesInForceOnly)
  <2> SUFFICES ASSUME Choice!IInv PROVE Choice!TypeOK /\ Choice!AppliedOnce /\ Choice!ToldTruth
    BY DEF Choice!IInv
  <2>1. Choice!TypeOK
    BY DEF Choice!IInv, Choice!RowsInv, Choice!TypeOK, Choice!StateRows, Choice!Kept
  <2> QED BY <2>1 DEF Choice!IInv, Choice!Counted, Choice!AppliedInv, Choice!AppliedOnce, Choice!ToldTruth
<1> QED BY <1>1, <1>2, <1>3, <1>4, PTL DEF Spec, ChoicesHold

-----------------------------------------------------------------------------
(* LinkCheck                                                               *)

\* Cardinality of the instance is Cardinality.
LEMMA LinkCount == \A S : Link!Cardinality(S) = Cardinality(S)
BY DEF Link!Cardinality, Cardinality

\* A hop that is not in the chain makes it longer and no less distinct.
LEMMA LinkHop ==
  ASSUME NEW c, NEW n \in Nat, Link!Chain(c, n), NEW u \in Choices, ~Link!Contains(c, u)
  PROVE  Link!Chain(Append(c, u), n + 1) /\ Append(c, u) # << >> /\ Len(Append(c, u)) = Len(c) + 1
<1> DEFINE d == Append(c, u)
<1>1. c \in Seq(Choices) /\ Len(c) \in Nat /\ Len(c) <= n /\ Cardinality(Link!ToSet(c)) = Len(c)
  BY LinkCount DEF Link!Chain
<1>2. d \in Seq(Choices) /\ Len(d) = Len(c) + 1 /\ (\A i \in 1 .. Len(c) : d[i] = c[i]) /\ d[Len(c) + 1] = u
  BY <1>1
<1>3. DOMAIN c = 1 .. Len(c) /\ DOMAIN d = 1 .. (Len(c) + 1)
  BY <1>1, <1>2
<1>4. Link!ToSet(d) = Link!ToSet(c) \cup {u}
  <2>1. \A i \in DOMAIN d : i \in DOMAIN c \/ i = Len(c) + 1
    BY <1>1, <1>3
  <2>2. \A i \in DOMAIN c : i \in DOMAIN d /\ d[i] = c[i]
    BY <1>1, <1>2, <1>3
  <2>3. Len(c) + 1 \in DOMAIN d
    BY <1>1, <1>3
  <2> QED BY <1>2, <2>1, <2>2, <2>3 DEF Link!ToSet
<1>5. u \notin Link!ToSet(c)
  BY <1>1, <1>3 DEF Link!ToSet, Link!Contains
<1>6. IsFiniteSet(Link!ToSet(c))
  <2>1. IsFiniteSet(1 .. Len(c))
    BY <1>1, FS_Interval
  <2>2. c \in Surjection(DOMAIN c, Link!ToSet(c))
    BY <1>1 DEF Surjection, Link!ToSet
  <2> QED BY <2>1, <2>2, <1>3, FS_Surjection
<1>7. Cardinality(Link!ToSet(d)) = Len(c) + 1
  BY <1>1, <1>4, <1>5, <1>6, FS_AddElement
<1> QED BY <1>1, <1>2, <1>7, LinkCount DEF Link!Chain

\* An invocation that goes on by itself leaves the row and the other invocations alone.
LEMMA LinkMoves ==
  ASSUME Link!IInv, NEW w \in Workers, NEW f, v4' = [v4 EXCEPT ![w] = f],
         UNCHANGED <<v1, v2, v3, v5>>, v4[w] # Link!Idle, Link!JobInv(w)',
         f.phase \in Link!Assessing => v4[w].phase \in Link!Assessing
  PROVE  Link!IInv' /\ Link!SettledOnce
<1>1. DOMAIN v4' = Workers /\ v4'[w] = f /\ \A x \in Workers \ {w} : v4'[x] = v4[x]
  BY DEF Link!IInv
<1>2. Link!RowInv' /\ Link!ShownInv' /\ v1' = v1 /\ v2' = v2 /\ v3' = v3
  BY DEF Link!IInv, Link!RowInv, Link!ShownInv, Link!Keepable, Link!Supported
<1>3. ASSUME NEW x \in Workers PROVE Link!JobInv(x)'
  <2>1. CASE x # w
    BY <1>1, <1>2, <2>1 DEF Link!IInv, Link!JobInv, Link!Keepable, Link!Supported
  <2> QED BY <2>1
<1>4. \A x \in Workers : v3'.state = "NOT_STARTED" => v4'[x] = Link!Idle
  BY <1>1, <1>2 DEF Link!IInv
<1>5. \A x, y \in Workers : v4'[x].phase \in Link!Assessing /\ v4'[y].phase \in Link!Assessing => x = y
  BY <1>1 DEF Link!IInv
<1> QED BY <1>1, <1>2, <1>3, <1>4, <1>5 DEF Link!IInv, Link!SettledOnce

\* What the base of a result holds.
LEMMA LinkBase ==
  /\ Link!BaseResult \in Link!Results
  /\ Link!BaseResult.verdict = "unknown" /\ ~Link!BaseResult.threat
  /\ Link!BaseResult.looked = 0 /\ Link!BaseResult.called = 0 /\ Link!BaseResult.observed = 0
  /\ Link!BaseResult.at = None /\ Link!BaseResult.until = None
BY DEF Link!BaseResult, Link!Results, Link!Verdicts, Link!Outcomes, Link!Reasons

\* An assessment that ends without an observation may be kept.
LEMMA LinkNothing ==
  ASSUME NEW o \in Link!Outcomes \ {"complete"},
         NEW s \in {"NO_ELIGIBLE_OBSERVATION", "RESOLVER_UNAVAILABLE"}
  PROVE  Link!Keepable([Link!BaseResult EXCEPT !.outcome = o, !.reasons = {s}])
<1> DEFINE r == [Link!BaseResult EXCEPT !.outcome = o, !.reasons = {s}]
<1>1. /\ r \in Link!Results /\ r.verdict = "unknown" /\ ~r.threat /\ r.reasons = {s}
      /\ r.looked = 0 /\ r.called = 0 /\ r.observed = 0 /\ r.at = None /\ r.until = None
  BY LinkBase DEF Link!Results, Link!Reasons
<1>2. Link!Keepable(r)
  <2> HIDE DEF r
  <2> QED BY <1>1 DEF Link!Keepable, Link!Supported
<1> QED BY <1>2

\* Hops are looked up from the first one on.
LEMMA LinkLooking ==
  ASSUME NEW c, Len(c) \in Nat
  PROVE  Link!Looking([Link!BaseResult EXCEPT !.observed = Len(c), !.outcome = "partial",
                         !.coverage = "limited", !.reasons = {"HTTP_CHAIN_INCOMPLETE"}], c)
<1> DEFINE r == [Link!BaseResult EXCEPT !.observed = Len(c), !.outcome = "partial",
                   !.coverage = "limited", !.reasons = {"HTTP_CHAIN_INCOMPLETE"}]
<1>1. /\ r \in Link!Results /\ r.verdict = "unknown" /\ ~r.threat /\ r.outcome = "partial"
      /\ r.coverage = "limited" /\ r.reasons = {"HTTP_CHAIN_INCOMPLETE"}
      /\ r.looked = 0 /\ r.called = 0 /\ r.observed = Len(c) /\ r.at = None /\ r.until = None
  BY LinkBase DEF Link!Results, Link!Outcomes, Link!Reasons
<1>2. Link!Looking(r, c)
  <2> HIDE DEF r
  <2> QED BY <1>1 DEF Link!Looking
<1> QED BY <1>2

\* What an invocation that resolves a link has so far.
LEMMA LinkChain ==
  ASSUME Link!IInv, NEW w \in Workers, Link!Resolving(w)
  PROVE  /\ Link!Chain(v4[w].chain, MaxRedirects) /\ v4[w].next \in Choices
         /\ Len(v4[w].chain) \in Nat /\ v4[w] # Link!Idle /\ v4[w].phase \in Link!Assessing
         /\ MaxRedirects \in Nat
<1>1. MaxRedirects \in Nat
  BY LinkAssumed DEF Link!LinkAssumption
<1>2. Link!Chain(v4[w].chain, MaxRedirects) /\ v4[w].next \in Choices
  BY DEF Link!IInv, Link!JobInv, Link!Resolving, Link!Idle
<1>3. Len(v4[w].chain) \in Nat
  BY <1>2 DEF Link!Chain
<1> QED BY <1>1, <1>2, <1>3 DEF Link!Resolving, Link!Idle, Link!Assessing

\* The resolver stops before the chain's end.
LEMMA LinkResolved ==
  ASSUME Link!IInv, NEW w \in Workers, Link!Resolving(w), UNCHANGED <<v1, v2, v3, v5>>,
         NEW s \in {"partial", "blocked", "invalid_input"}, Link!Resolved(w, FALSE, s)
  PROVE  Link!IInv' /\ Link!SettledOnce
<1> DEFINE c == v4[w].chain
           o == IF s \in {"blocked", "invalid_input"} THEN s ELSE "unavailable"
           empty == [Link!BaseResult EXCEPT !.outcome = o, !.reasons = {"NO_ELIGIBLE_OBSERVATION"}]
           some == [Link!BaseResult EXCEPT !.observed = Len(c), !.outcome = "partial",
                      !.coverage = "limited", !.reasons = {"HTTP_CHAIN_INCOMPLETE"}]
           f == IF c = << >> THEN [phase |-> "done", result |-> empty]
                ELSE [phase |-> "lookup", chain |-> c, complete |-> FALSE, threats |-> {}, result |-> some]
<1>1. v4' = [v4 EXCEPT ![w] = f]
  BY DEF Link!Resolved
<1>2. DOMAIN v4 = Workers /\ v4'[w] = f
  BY <1>1 DEF Link!IInv
<1>3. Link!JobInv(w)'
  <2>1. CASE c = << >>
    <3>1. Link!Keepable(empty)
      BY LinkNothing DEF Link!Outcomes
    <3>2. Link!Keepable(empty)'
      BY <3>1 DEF Link!Keepable, Link!Supported, Link!BaseResult
    <3> QED BY <1>2, <2>1, <3>2 DEF Link!JobInv
  <2>2. CASE c # << >>
    <3>1. Link!Looking(some, c)
      BY LinkLooking, LinkChain
    <3>4. Link!Chain(c, MaxRedirects + 1)
      BY LinkChain DEF Link!Chain
    <3> HIDE DEF some, c
    <3>2. v4'[w].phase = "lookup" /\ v4'[w].chain = c /\ v4'[w].complete = FALSE /\ v4'[w].result = some
      BY <1>2, <2>2
    <3> QED BY <2>2, <3>1, <3>2, <3>4 DEF Link!JobInv
  <2> QED BY <2>1, <2>2
<1>4. f.phase \in Link!Assessing
  BY DEF Link!Assessing
<1> HIDE DEF f
<1> QED BY <1>1, <1>3, LinkChain, LinkMoves

\* The steps of the resolver.
LEMMA LinkResolves ==
  ASSUME Link!IInv, NEW w \in Workers,
         Link!Stop(w) \/ Link!Loop(w) \/ Link!Redirect(w) \/ Link!Terminal(w) \/ Link!ResolverLost(w)
  PROVE  Link!IInv' /\ Link!SettledOnce
<1> DEFINE c == v4[w].chain
<1>1. UNCHANGED <<v1, v2, v3, v5>> /\ Link!Resolving(w)
  BY DEF Link!Stop, Link!Loop, Link!Redirect, Link!Terminal, Link!ResolverLost
<1>2. CASE Link!Stop(w) \/ Link!Loop(w)
  BY <1>1, <1>2, LinkResolved DEF Link!Stop, Link!Loop
<1>3. CASE Link!Redirect(w)
  <2> PICK u \in Choices : v4' = [v4 EXCEPT ![w].chain = Append(c, v4[w].next), ![w].next = u]
    BY <1>3 DEF Link!Redirect
  <2> DEFINE f == [v4[w] EXCEPT !.chain = Append(c, v4[w].next), !.next = u]
  <2>1. v4' = [v4 EXCEPT ![w] = f]
    BY DEF Link!IInv
  <2>2. Link!Chain(c, Len(c)) /\ Len(c) + 1 <= MaxRedirects
    BY <1>1, <1>3, LinkChain DEF Link!Redirect, Link!Chain
  <2>3. Link!Chain(Append(c, v4[w].next), Len(c) + 1)
    BY <1>1, <1>3, <2>2, LinkChain, LinkHop DEF Link!Redirect, Link!Loops
  <2>4. Link!Chain(Append(c, v4[w].next), MaxRedirects)
    BY <1>1, <2>2, <2>3, LinkChain DEF Link!Chain
  <2>5. f.phase = "resolve" /\ f.chain = Append(c, v4[w].next) /\ f.next = u
    BY <1>1 DEF Link!IInv, Link!JobInv, Link!Resolving, Link!Idle
  <2>6. Link!JobInv(w)'
    BY <2>1, <2>4, <2>5 DEF Link!JobInv, Link!IInv
  <2> HIDE DEF f
  <2> QED BY <1>1, <2>1, <2>5, <2>6, LinkChain, LinkMoves DEF Link!Assessing
<1>4. CASE Link!Terminal(w)
  <2> DEFINE d == Append(c, v4[w].next)
             r == [Link!BaseResult EXCEPT !.observed = Len(d), !.outcome = "partial",
                     !.coverage = "limited", !.reasons = {"HTTP_CHAIN_INCOMPLETE"}]
             g(b) == [phase |-> "lookup", chain |-> d, complete |-> b, threats |-> {}, result |-> r]
  <2> PICK b \in BOOLEAN : v4' = [v4 EXCEPT ![w] = g(b)]
    BY <1>4 DEF Link!Terminal
  <2>1. Link!Chain(d, MaxRedirects + 1) /\ d # << >> /\ Len(d) \in Nat
    BY <1>1, <1>4, LinkChain, LinkHop DEF Link!Terminal, Link!Loops
  <2>2. Link!Looking(r, d)
    BY <2>1, LinkLooking
  <2> HIDE DEF r, d
  <2>3. v4'[w] = g(b)
    BY DEF Link!IInv
  <2>4. Link!JobInv(w)'
    BY <2>1, <2>2, <2>3 DEF Link!JobInv
  <2>5. g(b).phase \in Link!Assessing
    BY DEF Link!Assessing
  <2> HIDE DEF g
  <2> QED BY <1>1, <2>4, <2>5, LinkChain, LinkMoves
<1>5. CASE Link!ResolverLost(w)
  <2> DEFINE r == [Link!BaseResult EXCEPT !.outcome = "unavailable", !.reasons = {"RESOLVER_UNAVAILABLE"}]
             f == [phase |-> "done", result |-> r]
  <2>1. v4' = [v4 EXCEPT ![w] = f]
    BY <1>5 DEF Link!ResolverLost
  <2>2. Link!Keepable(r)
    BY LinkNothing DEF Link!Outcomes
  <2>3. Link!Keepable(r)'
    BY <1>1, <2>2 DEF Link!Keepable, Link!Supported, Link!BaseResult
  <2> HIDE DEF r
  <2>4. Link!JobInv(w)'
    BY <2>1, <2>3 DEF Link!JobInv, Link!IInv
  <2>5. f.phase \in Link!Assessing
    BY DEF Link!Assessing
  <2> HIDE DEF f
  <2> QED BY <1>1, <2>1, <2>4, <2>5, LinkChain, LinkMoves
<1> QED BY <1>2, <1>3, <1>4, <1>5

\* What an invocation that looks hops up has so far.
LEMMA LinkLook ==
  ASSUME Link!IInv, NEW w \in Workers, v4[w].phase = "lookup"
  PROVE  /\ Link!Chain(v4[w].chain, MaxRedirects + 1) /\ v4[w].chain # << >>
         /\ Len(v4[w].chain) \in Nat \ {0}
         /\ Link!Looking(v4[w].result, v4[w].chain) /\ v4[w].complete \in BOOLEAN
         /\ v4[w] # Link!Idle /\ v4[w].phase \in Link!Assessing
         /\ None \notin Nat /\ v1 \in Link!Times /\ \A t \in Link!Times : t \in Nat
<1>1. /\ Link!Chain(v4[w].chain, MaxRedirects + 1) /\ v4[w].chain # << >>
      /\ Link!Looking(v4[w].result, v4[w].chain) /\ v4[w].complete \in BOOLEAN
  BY DEF Link!IInv, Link!JobInv, Link!Idle
<1>2. Len(v4[w].chain) \in Nat \ {0}
  BY <1>1 DEF Link!Chain
<1> QED BY <1>1, <1>2, LinkAssumed DEF Link!Idle, Link!Assessing, Link!IInv, Link!Times, Link!LinkAssumption

\* The lookups end with something that may be kept.
LEMMA LinkDone ==
  ASSUME Link!IInv, NEW w \in Workers, v4[w].phase = "lookup", UNCHANGED <<v1, v2, v3, v5>>,
         NEW r, Link!Keepable(r), v4' = [v4 EXCEPT ![w] = [phase |-> "done", result |-> r]]
  PROVE  Link!IInv' /\ Link!SettledOnce
<1> DEFINE f == [phase |-> "done", result |-> r]
<1>1. Link!Keepable(r)'
  BY DEF Link!Keepable, Link!Supported
<1>2. Link!JobInv(w)'
  BY <1>1 DEF Link!JobInv, Link!IInv
<1>3. f.phase \in Link!Assessing /\ v4[w].phase \in Link!Assessing /\ v4[w] # Link!Idle
  BY LinkLook DEF Link!Assessing
<1> HIDE DEF f
<1> QED BY <1>2, <1>3, LinkMoves DEF f

\* A lookup that finds nothing is followed by the next one.
LEMMA LinkLooksClean ==
  ASSUME Link!IInv, NEW w \in Workers, Link!LookupClean(w)
  PROVE  Link!IInv' /\ Link!SettledOnce
<1> DEFINE j == v4[w]
           r == [j.result EXCEPT !.looked = j.result.looked + 1, !.called = j.result.called + 1,
                                 !.at = Link!Earlier(j.result.at, v1)]
           f == [j EXCEPT !.result = r]
<1>1. j.phase = "lookup" /\ j.result.looked < Len(j.chain) /\ UNCHANGED <<v1, v2, v3, v5>>
  BY DEF Link!LookupClean, Link!Pending
<1>2. v4' = [v4 EXCEPT ![w] = f]
  BY DEF Link!LookupClean, Link!IInv
<1>3. Link!Earlier(j.result.at, v1) \in Link!Times
  BY <1>1, LinkLook DEF Link!Earlier, Link!Looking, Link!Results
<1>4. /\ r \in Link!Results /\ r.looked = j.result.looked + 1 /\ r.called = j.result.called + 1
      /\ r.at \in Link!Times
      /\ r.verdict = j.result.verdict /\ r.outcome = j.result.outcome /\ r.coverage = j.result.coverage
      /\ r.threat = j.result.threat /\ r.reasons = j.result.reasons /\ r.until = j.result.until
      /\ r.observed = j.result.observed
  <2>1. j.result \in Link!Results
    BY <1>1, LinkLook DEF Link!Looking
  <2> DEFINE s == j.result  at == Link!Earlier(s.at, v1)
  <2>3. s \in Link!Results /\ at \in Link!Times
    BY <2>1, <1>3
  <2> HIDE DEF s, at
  <2>2. [s EXCEPT !.looked = s.looked + 1, !.called = s.called + 1, !.at = at] \in Link!Results
    <3>1. s.looked + 1 \in Nat /\ s.called + 1 \in Nat /\ at \in Link!Times \cup {None}
      BY <2>3 DEF Link!Results
    <3>2. \A n, m \in Nat : \A x \in Link!Times \cup {None} :
            [s EXCEPT !.looked = n, !.called = m, !.at = x] \in Link!Results
      BY <2>3 DEF Link!Results
    <3> QED BY <3>1, <3>2
  <2> QED BY <2>1, <2>2, <1>3 DEF s, at, Link!Results
<1>5. Link!Looking(r, j.chain)
  <2> HIDE DEF r
  <2> QED BY <1>1, <1>4, LinkLook DEF Link!Looking, Link!Results
<1>6. f.phase = "lookup" /\ f.chain = j.chain /\ f.complete = j.complete /\ f.result = r
  BY <1>1, LinkLook DEF Link!IInv, Link!JobInv, Link!Idle
<1>7. Link!JobInv(w)'
  <2> HIDE DEF r, f
  <2>1. v4'[w] = f
    BY <1>2 DEF Link!IInv
  <2> QED BY <1>1, <1>5, <1>6, <2>1, LinkLook DEF Link!JobInv
<1> HIDE DEF f
<1> QED BY <1>1, <1>2, <1>6, <1>7, LinkLook, LinkMoves DEF Link!Assessing

\* What is known before a hop is looked up, for the next result.
LEMMA LinkPending ==
  ASSUME Link!IInv, NEW w \in Workers, Link!Pending(w)
  PROVE  LET s == v4[w].result IN
         /\ v4[w].phase = "lookup" /\ s \in Link!Results
         /\ s.verdict = "unknown" /\ s.outcome = "partial" /\ s.coverage = "limited" /\ ~s.threat
         /\ s.reasons = {"HTTP_CHAIN_INCOMPLETE"} /\ s.until = None /\ s.called = s.looked
         /\ s.looked \in Nat /\ s.observed \in Nat /\ s.looked < s.observed
         /\ s.at \in Link!Times \cup {None}
BY LinkLook DEF Link!Pending, Link!Looking, Link!Results

\* What says that nothing is known may be kept.
LEMMA LinkUnknown ==
  ASSUME NEW r \in Link!Results, r.verdict = "unknown", ~r.threat, r.until = None,
         "KNOWN_THREAT_MATCH" \notin r.reasons, r.called <= r.looked, r.looked <= r.observed
  PROVE  Link!Keepable(r)
BY DEF Link!Keepable, Link!Supported

\* A lookup that fails leaves the check where it was.
LEMMA LinkLooksFail ==
  ASSUME Link!IInv, NEW w \in Workers, Link!LookupFails(w)
  PROVE  Link!IInv' /\ Link!SettledOnce
<1> DEFINE s == v4[w].result
<1>1. Link!Pending(w) /\ UNCHANGED <<v1, v2, v3, v5>>
  BY DEF Link!LookupFails
<1>2. PICK n \in {0, 1}, m \in {0, 1} :
        /\ m <= n
        /\ v4' = [v4 EXCEPT ![w] = [phase |-> "done", result |->
             [s EXCEPT !.looked = s.looked + n, !.called = s.called + m,
                !.reasons = IF n = 0 THEN {"TIME_BUDGET_EXCEEDED"} ELSE {"PROVIDER_UNAVAILABLE"}]]]
  BY DEF Link!LookupFails
<1> DEFINE rs == IF n = 0 THEN {"TIME_BUDGET_EXCEEDED"} ELSE {"PROVIDER_UNAVAILABLE"}
           a == s.looked + n
           b == s.called + m
           r == [s EXCEPT !.looked = a, !.called = b, !.reasons = rs]
<1>3. rs \in SUBSET Link!Reasons /\ "KNOWN_THREAT_MATCH" \notin rs
  BY DEF Link!Reasons
<1>4. s \in Link!Results /\ s.verdict = "unknown" /\ ~s.threat /\ s.until = None
  BY <1>1, LinkPending
<1>5. a \in Nat /\ b \in Nat /\ b <= a /\ a <= s.observed
  BY <1>1, <1>2, LinkPending
<1>6. v4' = [v4 EXCEPT ![w] = [phase |-> "done", result |-> r]]
  BY <1>2
<1> HIDE DEF s, rs, a, b
<1>7. /\ r \in Link!Results /\ r.looked = a /\ r.called = b /\ r.reasons = rs
      /\ r.verdict = s.verdict /\ r.threat = s.threat /\ r.until = s.until /\ r.observed = s.observed
  BY <1>3, <1>4, <1>5 DEF Link!Results
<1> HIDE DEF r
<1>8. Link!Keepable(r)
  BY <1>3, <1>4, <1>5, <1>7, LinkUnknown
<1> QED BY <1>1, <1>6, <1>8, LinkPending, LinkDone

\* A match ends the lookups: a threat the provider still vouches for, or nothing known.
LEMMA LinkLooksMatch ==
  ASSUME Link!IInv, NEW w \in Workers, Link!LookupMatch(w)
  PROVE  Link!IInv' /\ Link!SettledOnce
<1> DEFINE s == v4[w].result
           a == s.looked + 1
           b == s.called + 1
<1>1. Link!Pending(w) /\ UNCHANGED <<v1, v2, v3, v5>>
  BY DEF Link!LookupMatch
<1>2. PICK at \in {v1, v1 - 1} \cap Link!Times, until \in v1..(v1 + 2) :
        /\ Link!Current(at, until, at)
        /\ v4' = [v4 EXCEPT ![w] = [phase |-> "done", result |->
             IF Link!Current(at, until, v1)
             THEN [s EXCEPT !.looked = a, !.called = b, !.at = at, !.until = until,
                     !.verdict = "high_risk", !.threat = TRUE, !.reasons = {"KNOWN_THREAT_MATCH"}]
             ELSE [s EXCEPT !.looked = a, !.called = b, !.at = Link!Earlier(s.at, at),
                     !.reasons = {"PROVIDER_RESPONSE_INVALID"}]]]
  BY DEF Link!LookupMatch
<1>3. /\ s \in Link!Results /\ s.verdict = "unknown" /\ s.outcome = "partial" /\ ~s.threat
      /\ s.until = None /\ s.called = s.looked /\ s.looked \in Nat /\ s.observed \in Nat
      /\ s.looked < s.observed /\ s.at \in Link!Times \cup {None}
  BY <1>1, LinkPending
<1>4. v1 \in Nat /\ None \notin Nat /\ (\A t \in Link!Times : t \in Nat)
  BY <1>1, LinkLook DEF Link!Pending
<1>5. until \in Nat /\ at \in Nat /\ at < until /\ at \in Link!Times
  BY <1>2, <1>4 DEF Link!Current
<1>6. a \in Nat /\ b \in Nat /\ a = b /\ 0 < b /\ a <= s.observed
  BY <1>3
<1>7. Link!Earlier(s.at, at) \in Link!Times
  BY <1>3, <1>4, <1>5 DEF Link!Earlier
<1> HIDE DEF a, b
<1>8. CASE Link!Current(at, until, v1)
  <2> DEFINE r == [s EXCEPT !.looked = a, !.called = b, !.at = at, !.until = until,
                     !.verdict = "high_risk", !.threat = TRUE, !.reasons = {"KNOWN_THREAT_MATCH"}]
  <2>1. v4' = [v4 EXCEPT ![w] = [phase |-> "done", result |-> r]]
    BY <1>2, <1>8
  <2> HIDE DEF s
  <2>2. /\ r \in Link!Results /\ r.looked = a /\ r.called = b
        /\ r.at = at /\ r.until = until /\ r.verdict = "high_risk" /\ r.threat = TRUE
        /\ r.reasons = {"KNOWN_THREAT_MATCH"} /\ r.outcome = s.outcome /\ r.observed = s.observed
    BY <1>3, <1>5, <1>6 DEF Link!Results, Link!Verdicts, Link!Reasons
  <2> HIDE DEF r
  <2>3. Link!Keepable(r)
    BY <1>3, <1>4, <1>5, <1>6, <2>2 DEF Link!Keepable, Link!Supported
  <2> QED BY <1>1, <2>1, <2>3, LinkPending, LinkDone
<1>9. CASE ~Link!Current(at, until, v1)
  <2> DEFINE x == Link!Earlier(s.at, at)
             r == [s EXCEPT !.looked = a, !.called = b, !.at = x, !.reasons = {"PROVIDER_RESPONSE_INVALID"}]
  <2>1. v4' = [v4 EXCEPT ![w] = [phase |-> "done", result |-> r]]
    BY <1>2, <1>9
  <2>2. x \in Link!Times
    BY <1>7
  <2> HIDE DEF s, x
  <2>3. /\ r \in Link!Results /\ r.looked = a /\ r.called = b /\ r.until = s.until
        /\ r.verdict = s.verdict /\ r.threat = s.threat /\ r.reasons = {"PROVIDER_RESPONSE_INVALID"}
        /\ r.observed = s.observed
    BY <1>3, <1>6, <2>2 DEF Link!Results, Link!Reasons
  <2> HIDE DEF r
  <2>4. Link!Keepable(r)
    BY <1>3, <1>6, <2>3, LinkUnknown
  <2> QED BY <1>1, <2>1, <2>4, LinkPending, LinkDone
<1> QED BY <1>8, <1>9

\* All hops were looked up and none is listed.
LEMMA LinkAssessed ==
  ASSUME Link!IInv, NEW w \in Workers, Link!Assessed(w)
  PROVE  Link!IInv' /\ Link!SettledOnce
<1> DEFINE s == v4[w].result
<1>1. /\ v4[w].phase = "lookup" /\ ~(s.looked < Len(v4[w].chain)) /\ UNCHANGED <<v1, v2, v3, v5>>
      /\ v4' = [v4 EXCEPT ![w] = [phase |-> "done", result |-> Link!Unlisted(w)]]
  BY DEF Link!Assessed, Link!Pending
<1>2. /\ s \in Link!Results /\ s.verdict = "unknown" /\ s.outcome = "partial" /\ ~s.threat
      /\ s.reasons = {"HTTP_CHAIN_INCOMPLETE"} /\ s.until = None /\ s.called = s.looked
      /\ s.looked = s.observed /\ s.looked \in Nat \ {0} /\ s.at # None
  BY <1>1, LinkLook DEF Link!Looking, Link!Results
<1>3. Link!Keepable(Link!Unlisted(w))
  <2>1. CASE v4[w].complete /\ v2 = "full_url"
    <3> DEFINE r == [s EXCEPT !.verdict = "no_known_threat_detected", !.outcome = "complete",
                       !.coverage = "supported_checks_complete",
                       !.reasons = {"NO_LIST_MATCH", "BROWSER_NAVIGATION_NOT_EVALUATED"}]
    <3>1. Link!Unlisted(w) = r
      BY <2>1 DEF Link!Unlisted
    <3> HIDE DEF s
    <3>2. /\ r \in Link!Results /\ r.verdict = "no_known_threat_detected" /\ r.outcome = "complete"
          /\ r.coverage = "supported_checks_complete" /\ r.looked = s.looked /\ r.called = s.called
          /\ r.reasons = {"NO_LIST_MATCH", "BROWSER_NAVIGATION_NOT_EVALUATED"}
          /\ r.observed = s.observed /\ r.at = s.at /\ r.until = s.until /\ r.threat = s.threat
      BY <1>2 DEF Link!Results, Link!Verdicts, Link!Outcomes, Link!Reasons
    <3>3. Link!Keepable(r)
      <4> HIDE DEF r
      <4> QED BY <1>2, <2>1, <3>2 DEF Link!Keepable, Link!Supported
    <3> QED BY <3>1, <3>3
  <2>2. CASE ~(v4[w].complete /\ v2 = "full_url") /\ v2 = "origin_only"
    <3> DEFINE r == [s EXCEPT !.reasons = {"ORIGIN_ONLY_NOT_FULL_LINK"}]
    <3>1. Link!Unlisted(w) = r
      BY <2>2 DEF Link!Unlisted
    <3> HIDE DEF s
    <3>2. /\ r \in Link!Results /\ r.verdict = s.verdict /\ r.looked = s.looked /\ r.called = s.called
          /\ r.reasons = {"ORIGIN_ONLY_NOT_FULL_LINK"}
          /\ r.observed = s.observed /\ r.until = s.until /\ r.threat = s.threat
      BY <1>2 DEF Link!Results, Link!Reasons
    <3>3. Link!Keepable(r)
      <4> HIDE DEF r
      <4> QED BY <1>2, <3>2, LinkUnknown
    <3> QED BY <3>1, <3>3
  <2>3. CASE ~(v4[w].complete /\ v2 = "full_url") /\ v2 # "origin_only"
    <3>1. Link!Unlisted(w) = s
      BY <2>3 DEF Link!Unlisted
    <3> HIDE DEF s
    <3>2. Link!Keepable(s)
      BY <1>2, LinkUnknown
    <3> QED BY <3>1, <3>2
  <2> QED BY <2>1, <2>2, <2>3
<1> QED BY <1>1, <1>3, LinkDone

\* An invocation that stops, or drops what it cannot use, leaves all else alone.
LEMMA LinkDrops ==
  ASSUME Link!IInv, NEW w \in Workers,
         \/ Link!Unanswered(w) \/ Link!Judge(w) \/ Link!SettleExpired(w) \/ Link!SettleRefused(w)
         \/ Link!Crash(w)
  PROVE  Link!IInv' /\ Link!SettledOnce
<1>1. UNCHANGED <<v1, v2, v3, v5>> /\ v4[w] # Link!Idle /\ DOMAIN v4 = Workers
  BY DEF Link!IInv, Link!Unanswered, Link!Judge, Link!SettleExpired, Link!SettleRefused, Link!Crash, Link!Idle
<1>2. \A r : Link!Keepable(r) => Link!Keepable(r)'
  BY <1>1 DEF Link!Keepable, Link!Supported
<1>3. CASE Link!Unanswered(w)
  <2> DEFINE f == [phase |-> "done", result |-> None]
  <2>1. v4' = [v4 EXCEPT ![w] = f] /\ f.phase \in Link!Assessing /\ v4[w].phase \in Link!Assessing
    BY <1>3 DEF Link!Unanswered, Link!Assessing
  <2>2. Link!JobInv(w)'
    BY <1>1, <2>1 DEF Link!JobInv
  <2> HIDE DEF f
  <2> QED BY <1>1, <2>1, <2>2, LinkMoves
<1>4. CASE Link!Judge(w) \/ Link!SettleExpired(w)
  <2>1. v4[w].phase \in {"done", "settle"} /\ (v4[w].result = None \/ Link!Keepable(v4[w].result))
    BY <1>4 DEF Link!Judge, Link!SettleExpired, Link!IInv, Link!JobInv, Link!Idle
  <2>3. \E f : /\ v4' = [v4 EXCEPT ![w] = f] /\ f.phase = "settle"
               /\ f.result = None \/ Link!Keepable(f.result)
    <3>1. CASE Link!Judge(w)
      <4> DEFINE g == [phase |-> "settle",
                       result |-> IF Link!Usable(v4[w].result) THEN v4[w].result ELSE None]
      <4>1. v4' = [v4 EXCEPT ![w] = g]
        BY <3>1 DEF Link!Judge
      <4>2. g.phase = "settle" /\ (g.result = None \/ Link!Keepable(g.result))
        BY <2>1
      <4> HIDE DEF g
      <4> QED BY <4>1, <4>2
    <3>2. CASE Link!SettleExpired(w)
      <4> DEFINE g == [phase |-> "settle", result |-> None]
      <4>1. v4' = [v4 EXCEPT ![w] = g]
        BY <3>2 DEF Link!SettleExpired
      <4>2. g.phase = "settle" /\ g.result = None
        OBVIOUS
      <4> HIDE DEF g
      <4> QED BY <4>1, <4>2
    <3> QED BY <1>4, <3>1, <3>2
  <2> PICK f : v4' = [v4 EXCEPT ![w] = f] /\ f.phase = "settle" /\ (f.result = None \/ Link!Keepable(f.result))
    BY <2>3
  <2>4. Link!JobInv(w)'
    BY <1>1, <1>2 DEF Link!JobInv
  <2> QED BY <1>1, <2>1, <2>4, LinkMoves DEF Link!Assessing
<1>5. CASE Link!SettleRefused(w)
  <2> DEFINE f == IF v3.state = "SETTLED" THEN [phase |-> "answer"] ELSE Link!Idle
  <2>1. v4' = [v4 EXCEPT ![w] = f] /\ f.phase \notin Link!Assessing
    BY <1>5 DEF Link!SettleRefused, Link!Assessing, Link!Idle
  <2>2. Link!JobInv(w)'
    BY <1>1, <2>1 DEF Link!JobInv
  <2> HIDE DEF f
  <2> QED BY <1>1, <2>1, <2>2, LinkMoves
<1>6. CASE Link!Crash(w)
  <2>1. v4' = [v4 EXCEPT ![w] = Link!Idle] /\ Link!Idle.phase \notin Link!Assessing
    BY <1>6 DEF Link!Crash, Link!Assessing, Link!Idle
  <2>2. Link!JobInv(w)'
    BY <1>1, <2>1 DEF Link!JobInv
  <2> QED BY <1>1, <2>1, <2>2, LinkMoves
<1> QED BY <1>3, <1>4, <1>5, <1>6

\* A check is admitted once, by one invocation.
LEMMA LinkAdmit ==
  ASSUME Link!IInv, NEW w \in Workers, Link!Admit(w)
  PROVE  Link!IInv' /\ Link!SettledOnce
<1>1. /\ v4[w] = Link!Idle /\ v3.state = "NOT_STARTED" /\ UNCHANGED <<v1, v2, v5>>
      /\ v3' = [v3 EXCEPT !.state = "ADMITTED", !.lease = v1 + LinkLease]
      /\ DOMAIN v4 = Workers /\ v1 \in Nat /\ LinkLease \in Nat /\ Link!RowInv
  BY LinkAssumed DEF Link!Admit, Link!IInv, Link!LinkAssumption, Link!Times
<1>2. PICK u \in Choices, b \in BOOLEAN :
        v4' = [v4 EXCEPT ![w] = IF b THEN [phase |-> "resolve", chain |-> << >>, next |-> u]
                                     ELSE [phase |-> "done", result |-> None]]
  BY DEF Link!Admit
<1>3. v3'.state = "ADMITTED" /\ v3'.summary = v3.summary /\ v3'.outcome = v3.outcome /\ Link!RowInv'
  <2>1. v1 + LinkLease \in Nat
    BY <1>1
  <2>2. \A n \in Nat : LET r == [v3 EXCEPT !.state = "ADMITTED", !.lease = n] IN
          /\ r.state = "ADMITTED" /\ r.summary = v3.summary /\ r.outcome = v3.outcome
          /\ r \in [state : {"NOT_STARTED", "ADMITTED", "SETTLED"}, lease : Nat,
                    outcome : Link!Outcomes \cup {"failed", None}, summary : Link!Results \cup {None}]
    BY <1>1 DEF Link!RowInv
  <2>3. /\ v3'.state = "ADMITTED" /\ v3'.summary = v3.summary /\ v3'.outcome = v3.outcome
        /\ v3' \in [state : {"NOT_STARTED", "ADMITTED", "SETTLED"}, lease : Nat,
                    outcome : Link!Outcomes \cup {"failed", None}, summary : Link!Results \cup {None}]
    BY <1>1, <2>1, <2>2
  <2> QED BY <1>1, <2>3 DEF Link!RowInv, Link!Keepable, Link!Supported
<1>4. Link!ShownInv'
  BY <1>1, <1>3 DEF Link!IInv, Link!ShownInv, Link!RowInv
<1>5. \A x \in Workers : x # w => v4'[x] = Link!Idle
  BY <1>1, <1>2 DEF Link!IInv
<1>6. Link!Chain(<< >>, MaxRedirects)
  <2>1. Link!ToSet(<< >>) = {}
    BY DEF Link!ToSet
  <2>2. Cardinality({}) = 0 /\ Len(<< >>) = 0 /\ << >> \in Seq(Choices) /\ MaxRedirects \in Nat
    BY FS_EmptySet, LinkAssumed DEF Link!LinkAssumption
  <2>3. Link!Cardinality(Link!ToSet(<< >>)) = Len(<< >>)
    BY <2>1, <2>2, LinkCount
  <2>4. Len(<< >>) <= MaxRedirects
    BY <2>2
  <2> QED BY <2>2, <2>3, <2>4 DEF Link!Chain
<1>7. Link!JobInv(w)'
  <2>1. CASE b
    <3>1. v4'[w].phase = "resolve" /\ v4'[w].chain = << >> /\ v4'[w].next = u
      BY <1>1, <1>2, <2>1
    <3> QED BY <1>6, <3>1 DEF Link!JobInv
  <2>2. CASE ~b
    <3>1. v4'[w].phase = "done" /\ v4'[w].result = None
      BY <1>1, <1>2, <2>2
    <3> QED BY <3>1 DEF Link!JobInv
  <2> QED BY <2>1, <2>2
<1>8. \A x \in Workers : Link!JobInv(x)'
  BY <1>5, <1>7 DEF Link!JobInv
<1>9. \A x, y \in Workers : v4'[x].phase \in Link!Assessing /\ v4'[y].phase \in Link!Assessing => x = y
  BY <1>5 DEF Link!Idle, Link!Assessing
<1> QED BY <1>1, <1>2, <1>3, <1>4, <1>8, <1>9 DEF Link!IInv, Link!SettledOnce

\* Settlement keeps what was found, of an admitted check.
LEMMA LinkSettles ==
  ASSUME Link!IInv, NEW w \in Workers, Link!Settle(w)
  PROVE  Link!IInv' /\ Link!SettledOnce
<1> DEFINE r == v4[w].result
           o == IF r = None THEN "failed" ELSE r.outcome
<1>1. /\ v4[w].phase = "settle" /\ v3.state = "ADMITTED" /\ UNCHANGED <<v1, v2, v5>>
      /\ v3' = [v3 EXCEPT !.state = "SETTLED", !.summary = r, !.outcome = o]
      /\ v4' = [v4 EXCEPT ![w] = [phase |-> "answer"]] /\ DOMAIN v4 = Workers /\ Link!RowInv
  BY DEF Link!Settle, Link!IInv
<1>2. r = None \/ Link!Keepable(r)
  BY <1>1 DEF Link!IInv, Link!JobInv, Link!Idle
<1>3. r \in Link!Results \cup {None} /\ o \in Link!Outcomes \cup {"failed", None}
  BY <1>2 DEF Link!Keepable, Link!Results
<1>4. o = "complete" => r # None
  OBVIOUS
<1>5. r # None => o = r.outcome
  OBVIOUS
<1> HIDE DEF r, o
<1>6. /\ v3'.state = "SETTLED" /\ v3'.summary = r /\ v3'.outcome = o
      /\ v3' \in [state : {"NOT_STARTED", "ADMITTED", "SETTLED"}, lease : Nat,
                  outcome : Link!Outcomes \cup {"failed", None}, summary : Link!Results \cup {None}]
  BY <1>1, <1>3 DEF Link!RowInv
<1>7. \A x : Link!Keepable(x) => Link!Keepable(x)'
  BY <1>1 DEF Link!Keepable, Link!Supported
<1>8. Link!RowInv'
  BY <1>2, <1>4, <1>5, <1>6, <1>7 DEF Link!RowInv
<1>9. v5 = None \/ v5.result = None
  BY <1>1 DEF Link!IInv, Link!ShownInv, Link!RowInv
<1>10. ASSUME NEW x \in Workers PROVE Link!JobInv(x)'
  <2>1. CASE x = w
    BY <1>1, <1>6, <2>1 DEF Link!JobInv
  <2>2. CASE x # w
    <3>1. v4'[x] = v4[x] /\ Link!JobInv(x)
      BY <1>1, <2>2 DEF Link!IInv
    <3> QED BY <1>6, <1>7, <3>1 DEF Link!JobInv
  <2> QED BY <2>1, <2>2
<1>11. \A x, y \in Workers : v4'[x].phase \in Link!Assessing /\ v4'[y].phase \in Link!Assessing => x = y
  <2>1. v4'[w].phase \notin Link!Assessing
    BY <1>1 DEF Link!Assessing
  <2>2. \A x \in Workers : x # w => v4'[x] = v4[x]
    BY <1>1
  <2> QED BY <2>1, <2>2 DEF Link!IInv
<1> QED BY <1>1, <1>6, <1>8, <1>9, <1>10, <1>11 DEF Link!IInv, Link!ShownInv, Link!SettledOnce

\* An answer tells what the row says now.
LEMMA LinkAnswers ==
  ASSUME Link!IInv, NEW w \in Workers, Link!Answer(w)
  PROVE  Link!IInv' /\ Link!SettledOnce
<1>1. /\ v3.state # "NOT_STARTED" /\ UNCHANGED <<v1, v2, v3>> /\ v5' = Link!Envelope(v3)
      /\ v4' = [v4 EXCEPT ![w] = Link!Idle] /\ DOMAIN v4 = Workers /\ v1 \in Link!Times
  BY DEF Link!Answer, Link!IInv
<1>2. Link!ShownInv'
  <2>1. v5'.at = v1 /\ v5'.result = IF v3.summary = None THEN None ELSE Link!Public(v3.summary, v1)
    BY <1>1 DEF Link!Envelope
  <2> QED BY <1>1, <2>1 DEF Link!ShownInv
<1>3. Link!RowInv'
  BY <1>1 DEF Link!IInv, Link!RowInv, Link!Keepable, Link!Supported
<1>4. ASSUME NEW x \in Workers PROVE Link!JobInv(x)'
  <2>1. CASE x = w
    BY <1>1, <2>1 DEF Link!JobInv
  <2>2. CASE x # w
    BY <1>1, <2>2 DEF Link!IInv, Link!JobInv, Link!Keepable, Link!Supported
  <2> QED BY <2>1, <2>2
<1>5. \A x, y \in Workers : v4'[x].phase \in Link!Assessing /\ v4'[y].phase \in Link!Assessing => x = y
  <2>1. v4'[w].phase \notin Link!Assessing
    BY <1>1 DEF Link!Assessing, Link!Idle
  <2>2. \A x \in Workers : x # w => v4'[x] = v4[x]
    BY <1>1
  <2> QED BY <2>1, <2>2 DEF Link!IInv
<1> QED BY <1>1, <1>2, <1>3, <1>4, <1>5 DEF Link!IInv, Link!SettledOnce

\* A check whose lease has passed is settled without a result.
LEMMA LinkReconciles ==
  ASSUME Link!IInv, NEW w \in Workers, Link!Reconcile(w)
  PROVE  Link!IInv' /\ Link!SettledOnce
<1>1. /\ v3.state = "ADMITTED" /\ UNCHANGED <<v1, v2, v4>> /\ v5' = Link!Envelope(v3')
      /\ v3' = [v3 EXCEPT !.state = "SETTLED", !.outcome = "failed"] /\ Link!RowInv
  BY DEF Link!Reconcile, Link!IInv
<1>2. /\ v3'.state = "SETTLED" /\ v3'.summary = None /\ v3'.outcome = "failed" /\ Link!RowInv'
  BY <1>1 DEF Link!RowInv
<1>3. v5'.result = None
  BY <1>1, <1>2 DEF Link!Envelope
<1>4. ASSUME NEW x \in Workers PROVE Link!JobInv(x)'
  BY <1>1, <1>2 DEF Link!IInv, Link!JobInv, Link!Keepable, Link!Supported
<1> QED BY <1>1, <1>2, <1>3, <1>4 DEF Link!IInv, Link!ShownInv, Link!SettledOnce

\* Every step of the link check keeps its invariant.
LEMMA LinkStep ==
  ASSUME Link!IInv, Link!Next
  PROVE  Link!IInv' /\ Link!SettledOnce
<1>1. CASE \E w \in Workers :
             Link!Stop(w) \/ Link!Loop(w) \/ Link!Redirect(w) \/ Link!Terminal(w) \/ Link!ResolverLost(w)
  BY <1>1, LinkResolves
<1>2. CASE \E w \in Workers :
             Link!LookupClean(w) \/ Link!LookupMatch(w) \/ Link!LookupFails(w) \/ Link!Assessed(w)
  BY <1>2, LinkLooksClean, LinkLooksMatch, LinkLooksFail, LinkAssessed
<1>3. CASE \E w \in Workers :
             \/ Link!Unanswered(w) \/ Link!Judge(w) \/ Link!SettleExpired(w) \/ Link!SettleRefused(w)
             \/ Link!Crash(w)
  BY <1>3, LinkDrops
<1>4. CASE \E w \in Workers : Link!Admit(w) \/ Link!Settle(w) \/ Link!Answer(w) \/ Link!Reconcile(w)
  BY <1>4, LinkAdmit, LinkSettles, LinkAnswers, LinkReconciles
<1>5. CASE Link!Tick
  <2>1. v1 < MaxTime /\ v1' = v1 + 1 /\ UNCHANGED <<v2, v3, v4, v5>> /\ v1 \in Link!Times
        /\ MaxTime \in Nat
    BY <1>5, LinkAssumed DEF Link!Tick, Link!IInv, Link!LinkAssumption
  <2>2. v1' \in Link!Times
    BY <2>1 DEF Link!Times
  <2>3. Link!RowInv' /\ Link!ShownInv'
    BY <2>1 DEF Link!IInv, Link!RowInv, Link!ShownInv, Link!Keepable, Link!Supported
  <2>4. \A x \in Workers : Link!JobInv(x)'
    BY <2>1 DEF Link!IInv, Link!JobInv, Link!Keepable, Link!Supported
  <2> QED BY <2>1, <2>2, <2>3, <2>4 DEF Link!IInv, Link!SettledOnce
<1> QED BY <1>1, <1>2, <1>3, <1>4, <1>5 DEF Link!Next

\* What the invariant says to clients and of the assessments.
LEMMA LinkPromises ==
  ASSUME Link!IInv
  PROVE  /\ Link!TypeOK /\ Link!EveryResultSupported /\ Link!OneAssessment
         /\ Link!ToldWhatIsKnown /\ Link!NoDetour
<1>1. Link!TypeOK
  BY DEF Link!IInv, Link!TypeOK, Link!RowInv, Link!JobInv, Link!Idle
<1>2. Link!EveryResultSupported
  BY DEF Link!EveryResultSupported, Link!IInv, Link!JobInv, Link!Keepable, Link!Idle
<1>3. Link!OneAssessment
  <2> DEFINE S == {w \in Workers : v4[w].phase \in {"resolve", "lookup", "done", "settle"}}
  <2>1. \A v, w \in S : v = w
    BY DEF Link!IInv, Link!Assessing
  <2>2. IsFiniteSet(S) /\ Cardinality(S) <= 1
    <3>1. CASE S = {}
      BY <3>1, FS_EmptySet
    <3>2. CASE S # {}
      <4> PICK w \in S : TRUE
        BY <3>2
      <4>1. S = {w}
        BY <2>1
      <4>2. IsFiniteSet({w}) /\ Cardinality({w}) = 1
        BY FS_Singleton
      <4> HIDE DEF S
      <4>3. IsFiniteSet(S) /\ Cardinality(S) = 1
        BY <4>1, <4>2
      <4> QED BY <4>3
    <3> QED BY <3>1, <3>2
  <2>3. Link!Cardinality(S) <= 1
    <3> HIDE DEF S
    <3> QED BY <2>2, LinkCount
  <2> QED BY <2>3 DEF Link!OneAssessment
<1>4. Link!NoDetour
  <2> SUFFICES ASSUME NEW w \in Workers, v4[w].phase \in {"resolve", "lookup"}
               PROVE  /\ Len(v4[w].chain) <= MaxRedirects + 1
                      /\ Link!Cardinality(Link!ToSet(v4[w].chain)) = Len(v4[w].chain)
    BY DEF Link!NoDetour
  <2>1. MaxRedirects \in Nat
    BY LinkAssumed DEF Link!LinkAssumption
  <2>2. Link!Chain(v4[w].chain, MaxRedirects) \/ Link!Chain(v4[w].chain, MaxRedirects + 1)
    BY DEF Link!IInv, Link!JobInv, Link!Idle
  <2>3. Len(v4[w].chain) \in Nat
    BY <2>2 DEF Link!Chain
  <2> QED BY <2>1, <2>2, <2>3 DEF Link!Chain
<1>5. Link!ToldWhatIsKnown
  <2> DEFINE p == v5.result  r == v3.summary
  <2> SUFFICES ASSUME v5 # None, v5.result # None
               PROVE  /\ p.verdict = "high_risk" => r.at <= v5.at /\ v5.at < r.until
                      /\ p.verdict = "no_known_threat_detected" =>
                           r.called = r.observed /\ r.observed > 0 /\ ~r.threat /\ v2 = "full_url"
                      /\ r.threat => p.verdict \in {"high_risk", "unknown"}
                      /\ v3.outcome = "complete" => p.outcome = "complete"
    BY DEF Link!ToldWhatIsKnown
  <2>1. /\ Link!Keepable(r) /\ v3.outcome = r.outcome /\ p = Link!Public(r, v5.at)
    BY DEF Link!IInv, Link!ShownInv, Link!RowInv
  <2> HIDE DEF p, r
  <2>2. CASE r.verdict = "high_risk" /\ ~Link!Current(r.at, r.until, v5.at)
    <3>1. p.verdict = "unknown"
      BY <2>1, <2>2 DEF Link!Public
    <3> QED BY <2>1, <2>2, <3>1 DEF Link!Keepable
  <2>3. CASE ~(r.verdict = "high_risk" /\ ~Link!Current(r.at, r.until, v5.at))
    <3>1. p.verdict = r.verdict /\ p.outcome = r.outcome
      BY <2>1, <2>3 DEF Link!Public
    <3>2. r.verdict = "high_risk" => r.at <= v5.at /\ v5.at < r.until
      BY <2>3 DEF Link!Current
    <3>3. r.verdict = "no_known_threat_detected" =>
            r.called = r.observed /\ r.observed > 0 /\ ~r.threat /\ v2 = "full_url"
      BY <2>1 DEF Link!Keepable, Link!Supported, Link!Results
    <3>4. r.threat => r.verdict = "high_risk"
      BY <2>1 DEF Link!Keepable, Link!Supported
    <3> QED BY <2>1, <3>1, <3>2, <3>3, <3>4
  <2> QED BY <2>2, <2>3
<1> QED BY <1>1, <1>2, <1>3, <1>4, <1>5

-----------------------------------------------------------------------------
(* MessageCheck: what the policies produce is what the contract accepts      *)

\* What is reported when nothing is known of the message.
SaysUndecided(m, limits, more, rules, ev, key) ==
  /\ m \in Message!Summaries
  /\ m.rules = rules /\ m.evidence = ev /\ limits \subseteq m.limits /\ m.limits # {}
  /\ m.limits \subseteq limits \cup more
  /\ m.verdict = "unknown" /\ m.action \in {"review_input", "use_built_in_help"}
  /\ m.outcome \in {"blocked", "unavailable", "inconclusive"}
  /\ <<m.outcome, m.key, m.action>> = Message!Unknown(m.limits, key)

\* The undecided summary is of that form.
LEMMA MessageUndecided ==
  ASSUME NEW rules \in Message!RuleSets, NEW limits \in SUBSET Message!Limits,
         NEW more \in SUBSET {"INSUFFICIENT_EVIDENCE"}, limits \cup more # {},
         NEW ev \in SUBSET Message!Seen, NEW key \in {"inconclusive", "ai_inconclusive"}
  PROVE  SaysUndecided(Message!Undecided(limits, more, rules, ev, key), limits, more, rules, ev, key)
<1> SUFFICES ASSUME NEW m, m = Message!Undecided(limits, more, rules, ev, key)
             PROVE  SaysUndecided(m, limits, more, rules, ev, key)
  OBVIOUS
<1>1. CASE "HOSTILE_INPUT_STOP" \in limits
  BY <1>1 DEF SaysUndecided, Message!Undecided, Message!Unknown, Message!Summary, Message!Summaries
<1>2. CASE "HOSTILE_INPUT_STOP" \notin limits /\ limits \cap Message!Outage # {}
  BY <1>2 DEF SaysUndecided, Message!Undecided, Message!Unknown, Message!Summary, Message!Summaries
<1>3. CASE "HOSTILE_INPUT_STOP" \notin limits /\ limits \cap Message!Outage = {}
  <2>1. m = Message!Summary("unknown", "inconclusive", limits \cup more, rules, ev, "review_input", key)
    BY <1>3 DEF SaysUndecided, Message!Undecided
  <2>2. "HOSTILE_INPUT_STOP" \notin limits \cup more /\ (limits \cup more) \cap Message!Outage = {}
    BY <1>3 DEF Message!Outage
  <2>3. limits \cup more \in SUBSET Message!Limits
    BY DEF Message!Limits
  <2> DEFINE all == limits \cup more
  <2> HIDE DEF all
  <2> QED BY <2>1, <2>2, <2>3 DEF SaysUndecided, Message!Unknown, Message!Summary, Message!Summaries, all
<1> QED BY <1>1, <1>2, <1>3

\* The fixed rules satisfy the contract on any rules, limits and evidence, and drop no limit.
SaysRules(m, rules, given, ev) ==
  /\ Message!ValidRules(m) /\ m \in Message!Summaries
  /\ m.rules = rules /\ m.evidence = ev /\ given \subseteq m.limits
  /\ m.limits \subseteq given \cup {"INSUFFICIENT_EVIDENCE"}
  /\ m.action = "avoid_link" <=> Message!Matched(ev)
  /\ m.verdict = "no_known_threat_detected" => m.limits = {} /\ rules = {Message!Benign}
  /\ Message!Matched(ev) => m.limits # {}
  /\ ~Message!Matched(ev) /\ Message!Independent(rules, ev) => m.limits = given
  /\ ~Message!Matched(ev) /\ rules = {Message!Benign} /\ given = {} => m.limits = given

\* The summary of the rules alone is of that form.
LEMMA MessageRules ==
  ASSUME NEW rules \in Message!RuleSets, NEW given \in SUBSET Message!Limits,
         NEW ev \in SUBSET Message!Seen
  PROVE  SaysRules(Message!Rules(rules, given, ev), rules, given, ev)
<1> SUFFICES ASSUME NEW m, m = Message!Rules(rules, given, ev)
             PROVE  SaysRules(m, rules, given, ev)
  OBVIOUS
<1> DEFINE match == Message!Matched(ev)
           limits == IF match /\ given = {} THEN {"INSUFFICIENT_EVIDENCE"} ELSE given
<1>1. CASE match
  <2>1. /\ limits # {} /\ Message!Extent(limits) = "partial" /\ given \subseteq limits
        /\ limits \subseteq given \cup {"INSUFFICIENT_EVIDENCE"}
    BY <1>1 DEF Message!Extent
  <2>2. m = Message!Summary("high_risk", Message!Extent(limits), limits, rules, ev, "avoid_link",
                            "partial_known_threat")
    BY <1>1 DEF Message!Rules
  <2> HIDE DEF limits
  <2> QED BY <1>1, <2>1, <2>2 DEF SaysRules, Message!Summary, Message!ValidRules, Message!Summaries, Message!Limits
<1>2. CASE ~match /\ Message!Demands(rules)
  <2>1. (Message!Extent(given) = "complete" <=> given = {}) /\ Message!Extent(given) \in {"complete", "partial"}
    BY DEF Message!Extent
  <2>2. m = Message!Summary("high_risk", Message!Extent(given), given, rules, ev, "pause_and_verify",
                            "high_risk_request")
    BY <1>2 DEF Message!Rules
  <2> QED BY <1>2, <2>1, <2>2 DEF SaysRules, Message!Summary, Message!ValidRules, Message!Summaries
<1>3. CASE ~match /\ ~Message!Demands(rules) /\ Message!Pressure \in rules
  <2>1. (Message!Extent(given) = "complete" <=> given = {}) /\ Message!Extent(given) \in {"complete", "partial"}
    BY DEF Message!Extent
  <2>2. m = Message!Summary("suspicious", Message!Extent(given), given, rules, ev, "verify_independently",
                            "suspicious_request")
    BY <1>3 DEF Message!Rules
  <2> QED BY <1>3, <2>1, <2>2 DEF SaysRules, Message!Summary, Message!ValidRules, Message!Summaries
<1>4. CASE ~match /\ rules = {Message!Benign} /\ given = {}
  <2>1. ~Message!Demands(rules) /\ Message!Pressure \notin rules
    BY <1>4 DEF Message!Demands, Message!Grave, Message!Benign, Message!Pressure
  <2>2. m = Message!Summary("no_known_threat_detected", "complete", given, rules, ev,
                            "verify_independently", "no_supported_finding")
    BY <1>4, <2>1 DEF Message!Rules
  <2> QED BY <1>4, <2>1, <2>2 DEF SaysRules, Message!Summary, Message!ValidRules, Message!Summaries
<1>5. CASE /\ ~match /\ ~Message!Demands(rules) /\ Message!Pressure \notin rules
           /\ ~(rules = {Message!Benign} /\ given = {})
  <2>1. m = Message!Undecided(given, {"INSUFFICIENT_EVIDENCE"}, rules, ev, "inconclusive")
    BY <1>5 DEF Message!Rules
  <2>2. SaysUndecided(m, given, {"INSUFFICIENT_EVIDENCE"}, rules, ev, "inconclusive")
    <3>1. given \cup {"INSUFFICIENT_EVIDENCE"} # {}
      OBVIOUS
    <3> QED BY <2>1, <3>1, MessageUndecided
  <2>3. ~Message!Independent(rules, ev)
    BY <1>5 DEF Message!Independent
  <2> QED BY <1>5, <2>2, <2>3 DEF SaysUndecided, SaysRules, Message!ValidRules
<1> QED BY <1>1, <1>2, <1>3, <1>4, <1>5

\* The model's finding beside the rules: what the policy makes of it satisfies the second
\* contract whenever its limits explain why there is no finding.
SaysModel(m, rules, given, ev, said) ==
  /\ m \in Message!Sums /\ Message!ValidModel(m)
  /\ m.s.rules = rules /\ m.s.evidence = ev /\ given \subseteq m.s.limits
  /\ m.ai = Message!Trusted(said, rules, given, ev)
  /\ m.s.action = "avoid_link" <=> Message!Matched(ev)
  /\ m.s.verdict = "no_known_threat_detected" =>
       m.s.limits = {} /\ (rules = {Message!Benign} \/ m.ai = "no_warning")
  /\ Message!Matched(ev) => m.s.limits # {}

\* The summary with a model's answer is of that form.
LEMMA MessageWithModel ==
  ASSUME NEW rules \in Message!RuleSets, NEW given \in SUBSET Message!Limits,
         NEW ev \in SUBSET Message!Seen, NEW said \in Message!Says,
         said = "unavailable" => given = {} \/ given \cap Message!Outage # {},
         said = "abstained" =>
           given = {} \/ given \cap (Message!Untrusted \cup {"INSUFFICIENT_EVIDENCE"}) # {},
         said = "warning" => Message!Benign \notin rules
  PROVE  SaysModel(Message!WithModel(rules, given, ev, said), rules, given, ev, said)
<1> SUFFICES ASSUME NEW m, m = Message!WithModel(rules, given, ev, said)
             PROVE  SaysModel(m, rules, given, ev, said)
  OBVIOUS
<1> DEFINE status == Message!Trusted(said, rules, given, ev)
           limits == given \cup Message!Missing(given, status)
           lim == IF limits = {} THEN {"INSUFFICIENT_EVIDENCE"} ELSE limits
           ruled == \/ Message!Independent(rules, ev)
                    \/ rules = {Message!Benign} /\ limits = {} /\ status # "warning"
\* What the contract says of the model's part holds of any limits that keep those given.
<1> DEFINE Explained(ls) ==
             /\ status \in {"abstained", "unavailable"} => ls # {}
             /\ status = "unavailable" => ls \cap Message!Outage # {}
             /\ status = "abstained" => ls \cap (Message!Untrusted \cup {"INSUFFICIENT_EVIDENCE"}) # {}
             /\ status \in {"warning", "no_warning"} =>
                  /\ ls \cap Message!Untrusted = {}
                  /\ "INSUFFICIENT_EVIDENCE" \in ls => Message!Matched(ev)
                  /\ ~(status = "warning" /\ Message!Benign \in rules)
<1>1. /\ status \in Message!Says /\ limits \in SUBSET Message!Limits /\ given \subseteq limits
      /\ given # {} => limits = given
      /\ status \in {"warning", "no_warning"} => limits = given /\ given \cap Message!Untrusted = {}
           /\ ("INSUFFICIENT_EVIDENCE" \in given => Message!Matched(ev))
           /\ ~(status = "warning" /\ Message!Benign \in rules)
      /\ status = "abstained" => limits \cap (Message!Untrusted \cup {"INSUFFICIENT_EVIDENCE"}) # {}
      /\ status = "unavailable" => limits \cap Message!Outage # {}
  <2>1. status = said \/ status = "abstained"
    BY DEF Message!Trusted
  <2>2. status \in {"warning", "no_warning"} => given \cap Message!Untrusted = {}
           /\ ("INSUFFICIENT_EVIDENCE" \in given => Message!Matched(ev))
           /\ ~(status = "warning" /\ Message!Benign \in rules)
    BY DEF Message!Trusted
  <2>3. status = "abstained" =>
          given = {} \/ given \cap (Message!Untrusted \cup {"INSUFFICIENT_EVIDENCE"}) # {}
    <3>1. CASE said = "abstained"
      BY <3>1
    <3>2. CASE said # "abstained" /\ status = "abstained"
      <4>1. \/ given \cap Message!Untrusted # {} \/ "INSUFFICIENT_EVIDENCE" \in given
            \/ said = "warning" /\ Message!Benign \in rules
        BY <3>2 DEF Message!Trusted
      <4> QED BY <4>1
    <3> QED BY <3>1, <3>2
  <2>4. status = "unavailable" => given = {} \/ given \cap Message!Outage # {}
    BY <2>1
  <2> HIDE DEF status
  <2> QED BY <2>1, <2>2, <2>3, <2>4 DEF Message!Missing, Message!Limits, Message!Says, Message!Outage
<1> HIDE DEF status, limits
<1>2. ASSUME NEW ls, limits \subseteq ls, ls \subseteq limits \cup {"INSUFFICIENT_EVIDENCE"},
             "INSUFFICIENT_EVIDENCE" \in ls /\ ls # limits => Message!Matched(ev) \/ status \notin {"warning", "no_warning"}
      PROVE  Explained(ls)
  BY <1>1, <1>2 DEF Message!Untrusted
<1>3. CASE ruled
  <2> DEFINE v == Message!Rules(rules, limits, ev)
  <2>1. m = [s |-> v, ai |-> status]
    BY <1>3 DEF Message!WithModel, status, limits
  <2>2. SaysRules(v, rules, limits, ev)
    BY <1>1, MessageRules
  <2> HIDE DEF v
  <2>3. Explained(v.limits)
    BY <1>2, <1>3, <2>2 DEF SaysRules
  <2>4. \/ Message!Independent(v.rules, v.evidence)
        \/ v.rules = {Message!Benign} /\ v.limits = {} /\ status # "warning"
    BY <1>3, <2>2 DEF SaysRules, Message!Independent
  <2>5. v.limits = {} <=> v.outcome = "complete"
    BY <2>2 DEF SaysRules, Message!ValidRules
  <2>6. Message!ValidModel(m)
    BY <2>1, <2>2, <2>3, <2>4, <2>5 DEF SaysRules, Message!ValidModel
  <2> QED BY <1>1, <2>1, <2>2, <2>6 DEF status, SaysModel, SaysRules, Message!Sums
<1>4. CASE ~ruled /\ status = "warning"
  <2> DEFINE v == Message!Summary("suspicious", Message!Extent(limits), limits, rules, ev,
                                  "verify_independently", "ai_warning")
  <2>1. m = [s |-> v, ai |-> status]
    BY <1>4 DEF Message!WithModel, status, limits
  <2>2. (Message!Extent(limits) = "complete" <=> limits = {}) /\ Message!Extent(limits) \in {"complete", "partial"}
    BY DEF Message!Extent
  <2>3. Explained(limits) /\ ~Message!Matched(ev)
    BY <1>2, <1>4 DEF Message!Independent
  <2>4. v \in [verdict : {"suspicious"}, outcome : {Message!Extent(limits)}, limits : {limits},
               rules : {rules}, evidence : {ev}, action : {"verify_independently"}, key : {"ai_warning"}]
    BY DEF Message!Summary
  <2> HIDE DEF v
  <2>5. Message!ValidModel(m)
    BY <1>4, <2>1, <2>2, <2>3, <2>4 DEF Message!ValidModel
  <2>6. m \in Message!Sums
    BY <1>1, <2>1, <2>2, <2>4 DEF Message!Sums, Message!Summaries
  <2> QED BY <1>1, <2>1, <2>3, <2>4, <2>5, <2>6 DEF status, SaysModel
<1>5. CASE ~ruled /\ status = "no_warning" /\ limits = {}
  <2> DEFINE v == Message!Summary("no_known_threat_detected", "complete", limits, rules, ev,
                                  "verify_independently", "ai_no_warning")
  <2>1. m = [s |-> v, ai |-> status]
    BY <1>5 DEF Message!WithModel, status, limits
  <2>2. Explained(limits) /\ ~Message!Matched(ev)
    BY <1>2, <1>5 DEF Message!Independent
  <2>3. v \in [verdict : {"no_known_threat_detected"}, outcome : {"complete"}, limits : {limits},
               rules : {rules}, evidence : {ev}, action : {"verify_independently"}, key : {"ai_no_warning"}]
    BY DEF Message!Summary
  <2> HIDE DEF v
  <2>4. Message!ValidModel(m)
    BY <1>5, <2>1, <2>2, <2>3 DEF Message!ValidModel
  <2>5. m \in Message!Sums
    BY <1>1, <2>1, <2>3 DEF Message!Sums, Message!Summaries
  <2> QED BY <1>1, <1>5, <2>1, <2>2, <2>3, <2>4, <2>5 DEF status, SaysModel
<1>6. CASE ~ruled /\ status # "warning" /\ ~(status = "no_warning" /\ limits = {})
  <2> DEFINE v == Message!Undecided(lim, {}, rules, ev, "ai_inconclusive")
  <2>1. m = [s |-> v, ai |-> status]
    BY <1>6 DEF Message!WithModel, status, limits
  <2>2. /\ lim \in SUBSET Message!Limits /\ lim # {} /\ lim \cup {} = lim /\ limits \subseteq lim
        /\ lim \subseteq limits \cup {"INSUFFICIENT_EVIDENCE"}
        /\ limits # {} => lim = limits
    BY <1>1 DEF Message!Limits
  <2> HIDE DEF lim
  <2>3. {} \in SUBSET {"INSUFFICIENT_EVIDENCE"} /\ lim \cup {} # {}
    BY <2>2
  <2>4. SaysUndecided(v, lim, {}, rules, ev, "ai_inconclusive")
    BY <1>1, <2>2, <2>3, MessageUndecided
  <2> HIDE DEF v
  <2>5. v.limits = lim
    BY <2>2, <2>4 DEF SaysUndecided
  <2>6. Explained(v.limits) /\ ~Message!Matched(ev) /\ ~Message!Independent(rules, ev)
    BY <1>2, <1>6, <2>2, <2>5 DEF Message!Independent
  <2>7. Message!ValidModel(m)
    BY <1>6, <2>1, <2>4, <2>6 DEF SaysUndecided, Message!ValidModel
  <2> QED BY <1>1, <2>1, <2>2, <2>4, <2>5, <2>6, <2>7 DEF status, SaysModel, SaysUndecided, Message!Sums
<1> QED BY <1>3, <1>4, <1>5, <1>6

\* A summary with other evidence is a summary, the rest of it unchanged.
WithEvidence(r, m, ev) ==
  /\ r \in Message!Sums /\ r.ai = m.ai /\ r.s.evidence = ev
  /\ r.s.verdict = m.s.verdict /\ r.s.outcome = m.s.outcome /\ r.s.limits = m.s.limits
  /\ r.s.rules = m.s.rules /\ r.s.action = m.s.action /\ r.s.key = m.s.key

\* Replacing the evidence of a summary makes such a summary.
LEMMA MessageEvidence ==
  ASSUME NEW m \in Message!Sums, NEW ev \in SUBSET Message!Seen
  PROVE  WithEvidence([m EXCEPT !.s.evidence = ev], m, ev)
<1> DEFINE s == [m.s EXCEPT !.evidence = ev]
<1>1. m.s \in Message!Summaries /\ m.ai \in Message!Says
  BY DEF Message!Sums
<1>2. /\ s \in Message!Summaries /\ s.evidence = ev
      /\ s.verdict = m.s.verdict /\ s.outcome = m.s.outcome /\ s.limits = m.s.limits
      /\ s.rules = m.s.rules /\ s.action = m.s.action /\ s.key = m.s.key
  BY <1>1 DEF Message!Summaries
<1>3. [m EXCEPT !.s.evidence = ev] = [m EXCEPT !.s = s]
  BY DEF Message!Sums
<1> HIDE DEF s
<1> DEFINE r == [m EXCEPT !.s = s]
<1>5. r \in Message!Sums /\ r.s = s /\ r.ai = m.ai
  BY <1>2 DEF Message!Sums
<1> HIDE DEF r
<1>6. WithEvidence(r, m, ev)
  BY <1>2, <1>5 DEF WithEvidence
<1> QED BY <1>3, <1>6 DEF r

\* Summaries with the same parts are the same.
LEMMA MessageSame ==
  ASSUME NEW m \in Message!Sums, NEW r, WithEvidence(r, m, m.s.evidence)
  PROVE  r = m
<1>1. r.s \in Message!Summaries /\ m.s \in Message!Summaries
  BY DEF Message!Sums, WithEvidence
<1>2. r.s = m.s
  BY <1>1 DEF Message!Summaries, WithEvidence
<1> QED BY <1>2 DEF Message!Sums, WithEvidence

\* The evidence the contract counts.
LEMMA MessageFresh ==
  ASSUME NEW ev \in SUBSET Message!Seen
  PROVE  /\ Message!Fresh(ev) \in SUBSET Message!Seen
         /\ (\A e \in ev : e.freshness # "expired") => Message!Fresh(ev) = ev
         /\ \A e \in ev : e.outcome = "match" <=> e.freshness \in {"current", "expired"}
         /\ \A e \in ev : e.outcome = "match" => e.until \in Nat /\ e.at \in Nat
BY DEF Message!Fresh, Message!Seen

\* What an evaluation decides is good wherever it is kept.
LEMMA MessageNew ==
  ASSUME NEW m \in Message!Sums, v2 \in Message!Messages,
         IF v2.version = 1 THEN Message!ValidRules(m.s) ELSE Message!ValidModel(m),
         Message!Dated(m.s.evidence), Message!Fresh(m.s.evidence) = m.s.evidence,
         Message!Matched(m.s.evidence) => m.s.limits # {},
         m.s.action = "avoid_link" <=> Message!Matched(m.s.evidence)
  PROVE  Message!Good(m)
<1>1. m.s.evidence \in SUBSET Message!Seen
  BY DEF Message!Sums, Message!Summaries
<1>2. Message!Baseline(m) = m
  BY <1>1, MessageEvidence, MessageSame DEF Message!Baseline
<1>3. Message!Valid(m)
  <2>1. CASE v2.version = 1
    BY <2>1 DEF Message!Valid
  <2>2. CASE v2.version = 2
    BY <2>2 DEF Message!Valid
  <2>3. CASE v2.version = 3
    BY <1>1, <1>2, <2>3, MessageFresh DEF Message!Valid
  <2>4. v2.version \in 1..3
    BY DEF Message!Messages
  <2> QED BY <2>1, <2>2, <2>3, <2>4
<1> QED BY <1>3 DEF Message!Good

\* Without a link that is no longer current, what was said stays readable, keeps its rules
\* and the model's finding, and tells of the threats that are current.
Presented(p, m) ==
  /\ Message!Good(p) /\ p.s.rules = m.s.rules /\ p.ai = m.ai
  /\ p = m \/ (~Message!Reassures(p) /\ m.s.limits # {})
  /\ \A e \in p.s.evidence : e.freshness = "current" => Message!Current(e)
  /\ Message!Matched(Message!Fresh(p.s.evidence)) <=>
       \E e \in m.s.evidence : e.outcome = "match" /\ v1 < e.until

\* What is presented of a good summary is of that form.
LEMMA MessagePresents ==
  ASSUME NEW m, v2 \in Message!Messages, v1 \in Nat, v2.version = 3, Message!Good(m)
  PROVE  Presented(Message!Present(m), m)
<1> DEFINE old == m.s.evidence
           stale == {e \in old : e.freshness = "current" /\ ~Message!Current(e)}
           marked == {[e EXCEPT !.freshness = "expired"] : e \in stale}
           ev == (old \ stale) \cup marked
           given == Message!LimitsWithout(m)
           rebuilt == Message!WithModel(m.s.rules, given, Message!Fresh(ev), m.ai)
           p == [rebuilt EXCEPT !.s.evidence = ev]
<1>1. /\ m \in Message!Sums /\ old \in SUBSET Message!Seen /\ m.s.rules \in Message!RuleSets
      /\ m.s.limits \in SUBSET Message!Limits /\ m.ai \in Message!Says
      /\ Message!Dated(old) /\ Message!Valid(m) /\ (Message!Matched(old) => m.s.limits # {})
      /\ \A e \in old : e.outcome = "match" <=> e.freshness \in {"current", "expired"}
      /\ \A e \in old : e.outcome = "match" => e.until \in Nat /\ e.at \in Nat
  BY MessageFresh DEF Message!Good, Message!Sums, Message!Summaries
<1>2. CASE stale = {}
  <2>1. Message!Present(m) = m
    BY <1>2 DEF Message!Present
  <2>2. \A e \in old : e.freshness = "current" => Message!Current(e)
    BY <1>2
  <2>3. Message!Matched(Message!Fresh(old)) <=> \E e \in old : e.outcome = "match" /\ v1 < e.until
    <3>1. ASSUME NEW e \in old, e.outcome = "match", e.freshness # "expired" PROVE v1 < e.until
      BY <1>1, <2>2, <3>1 DEF Message!Current
    <3>2. ASSUME NEW e \in old, e.outcome = "match", v1 < e.until PROVE e.freshness # "expired"
      BY <1>1, <3>2 DEF Message!Dated
    <3> QED BY <3>1, <3>2 DEF Message!Fresh, Message!Matched
  <2> QED BY <2>1, <2>2, <2>3 DEF Presented
<1>3. CASE stale # {}
  <2>1. Message!Present(m) = p
    BY <1>3 DEF Message!Present
  <2>2. \A e \in stale : e.outcome = "match" /\ e.at <= v1 /\ e.until <= v1 /\ e \in Message!Seen
    BY <1>1 DEF Message!Current, Message!Dated
  <2>3. \A e \in marked : /\ e \in Message!Seen /\ e.freshness = "expired" /\ e.outcome = "match"
                          /\ e.at <= v1 /\ e.until <= v1
    <3> SUFFICES ASSUME NEW d \in stale
                 PROVE  LET e == [d EXCEPT !.freshness = "expired"] IN
                        /\ e \in Message!Seen /\ e.freshness = "expired" /\ e.outcome = "match"
                        /\ e.at <= v1 /\ e.until <= v1
      OBVIOUS
    <3>1. d \in [outcome : {"match"}, at : Nat, until : Nat, freshness : {"current", "expired"}]
      BY <2>2 DEF Message!Seen
    <3> QED BY <2>2, <3>1 DEF Message!Seen
  <2> HIDE DEF marked
  <2>4. ev \in SUBSET Message!Seen /\ Message!Dated(ev)
    BY <1>1, <2>3 DEF Message!Dated
  <2>5. /\ Message!Fresh(ev) \in SUBSET Message!Seen /\ Message!Fresh(Message!Fresh(ev)) = Message!Fresh(ev)
        /\ Message!Fresh(ev) \subseteq Message!Fresh(old)
        /\ \A e \in Message!Fresh(ev) : e.freshness = "current" => Message!Current(e)
    BY <2>3, <2>4 DEF Message!Fresh
  <2>6. Message!Matched(Message!Fresh(ev)) <=> \E e \in old : e.outcome = "match" /\ v1 < e.until
    <3>1. ASSUME NEW e \in Message!Fresh(ev), e.outcome = "match" PROVE e \in old /\ v1 < e.until
      BY <1>1, <2>3, <3>1 DEF Message!Fresh, Message!Current
    <3>2. ASSUME NEW e \in old, e.outcome = "match", v1 < e.until PROVE e \in Message!Fresh(ev)
      <4>1. e.freshness # "expired"
        BY <1>1, <3>2 DEF Message!Dated
      <4>2. e \notin stale
        BY <1>1, <2>2, <3>2
      <4> QED BY <4>1, <4>2 DEF Message!Fresh
    <3> QED BY <3>1, <3>2 DEF Message!Matched
  <2>7. /\ given \in SUBSET Message!Limits /\ "WITHHELD_LINKS" \in given
        /\ m.s.limits \ {"INSUFFICIENT_EVIDENCE"} \subseteq given
        /\ given \subseteq m.s.limits \cup {"WITHHELD_LINKS"}
        /\ m.ai \in {"warning", "no_warning"} => "INSUFFICIENT_EVIDENCE" \notin given
        /\ m.ai \notin {"warning", "no_warning"} => m.s.limits \subseteq given
    BY <1>1 DEF Message!LimitsWithout, Message!Limits
  <2> DEFINE b == Message!Baseline(m)
  <2>8. Message!ValidModel(b) /\ WithEvidence(b, m, Message!Fresh(old))
    <3>1. Message!Fresh(old) \in SUBSET Message!Seen
      BY <1>1 DEF Message!Fresh
    <3>2. Message!ValidModel(b)
      BY <1>1 DEF Message!Valid
    <3> QED BY <1>1, <3>1, <3>2, MessageEvidence DEF Message!Baseline
  <2> HIDE DEF b, ev, given, stale
  <2>9. /\ m.ai = "unavailable" => given \cap Message!Outage # {}
        /\ m.ai = "abstained" => given \cap (Message!Untrusted \cup {"INSUFFICIENT_EVIDENCE"}) # {}
        /\ m.ai = "warning" => Message!Benign \notin m.s.rules
        /\ m.ai \in {"warning", "no_warning"} => given \cap Message!Untrusted = {}
    BY <2>7, <2>8 DEF Message!ValidModel, WithEvidence, Message!Untrusted
  <2>10. SaysModel(rebuilt, m.s.rules, given, Message!Fresh(ev), m.ai)
    BY <1>1, <2>5, <2>7, <2>9, MessageWithModel
  <2>11. Message!Trusted(m.ai, m.s.rules, given, Message!Fresh(ev)) = m.ai
    BY <2>7, <2>9 DEF Message!Trusted
  <2> HIDE DEF rebuilt
  <2>12. WithEvidence(p, rebuilt, ev)
    BY <2>4, <2>10, MessageEvidence DEF SaysModel
  <2> HIDE DEF p
  <2>13. Message!Baseline(p) = rebuilt
    <3>1. WithEvidence(Message!Baseline(p), p, Message!Fresh(ev))
      BY <2>5, <2>12, MessageEvidence DEF Message!Baseline, WithEvidence
    <3>2. WithEvidence(Message!Baseline(p), rebuilt, rebuilt.s.evidence)
      BY <2>10, <2>12, <3>1 DEF WithEvidence, SaysModel
    <3> QED BY <2>10, <3>2, MessageSame DEF SaysModel
  <2>14. Message!Valid(p)
    <3>1. p.s.evidence = ev /\ Message!ValidModel(rebuilt)
      BY <2>10, <2>12 DEF WithEvidence, SaysModel
    <3>2. \A e \in ev : e.outcome = "match" <=> e.freshness \in {"current", "expired"}
      BY <2>4, MessageFresh
    <3> QED BY <2>13, <3>1, <3>2 DEF Message!Valid
  <2>15. p.s.limits # {} /\ given \subseteq p.s.limits
    BY <2>7, <2>10, <2>12 DEF WithEvidence, SaysModel
  <2>16. Message!Good(p)
    BY <2>4, <2>10, <2>12, <2>14, <2>15 DEF Message!Good, WithEvidence, SaysModel
  <2>17. ~Message!Reassures(p)
    BY <2>10, <2>12, <2>15 DEF Message!Reassures, WithEvidence, SaysModel
  <2>18. m.s.limits # {}
    BY <1>1, <1>3, <2>2 DEF Message!Matched, stale
  <2>19. \A e \in p.s.evidence : e.freshness = "current" => Message!Current(e)
    BY <2>5, <2>12 DEF Message!Fresh, WithEvidence
  <2> QED BY <2>1, <2>6, <2>10, <2>11, <2>12, <2>16, <2>17, <2>18, <2>19
          DEF Presented, WithEvidence, SaysModel
<1> QED BY <1>2, <1>3

\* An evaluation without and with the model's part, where the contract asks for it.
LEMMA MessageRuled ==
  ASSUME NEW rules \in Message!RuleSets, NEW given \in SUBSET Message!Limits,
         NEW ev \in SUBSET Message!Seen, NEW ai \in Message!Says,
         v2 \in Message!Messages, v2.version = 1,
         Message!Dated(ev), Message!Fresh(ev) = ev
  PROVE  LET m == [s |-> Message!Rules(rules, given, ev), ai |-> ai] IN
         Message!Good(m) /\ SaysRules(m.s, rules, given, ev)
<1> DEFINE s == Message!Rules(rules, given, ev)
           m == [s |-> s, ai |-> ai]
<1>1. SaysRules(s, rules, given, ev)
  BY MessageRules
<1> HIDE DEF s
<1>2. m \in Message!Sums /\ m.s = s
  BY <1>1 DEF SaysRules, Message!Sums
<1> HIDE DEF m
<1>3. Message!Good(m)
  BY <1>1, <1>2, MessageNew DEF SaysRules
<1> QED BY <1>1, <1>2, <1>3 DEF m, s

\* What the judgement makes of rules, limits, evidence and answer is readable, and of that form.
LEMMA MessageJudged ==
  ASSUME NEW rules \in Message!RuleSets, NEW given \in SUBSET Message!Limits,
         NEW ev \in SUBSET Message!Seen, NEW said \in Message!Says,
         said = "unavailable" => given = {} \/ given \cap Message!Outage # {},
         said = "abstained" =>
           given = {} \/ given \cap (Message!Untrusted \cup {"INSUFFICIENT_EVIDENCE"}) # {},
         said = "warning" => Message!Benign \notin rules,
         v2 \in Message!Messages, v2.version # 1,
         Message!Dated(ev), Message!Fresh(ev) = ev
  PROVE  LET m == Message!WithModel(rules, given, ev, said) IN
         Message!Good(m) /\ SaysModel(m, rules, given, ev, said)
<1> DEFINE m == Message!WithModel(rules, given, ev, said)
<1>1. SaysModel(m, rules, given, ev, said)
  BY MessageWithModel
<1> HIDE DEF m
<1>2. Message!Good(m)
  BY <1>1, MessageNew DEF SaysModel
<1> QED BY <1>1, <1>2 DEF m

\* Without matches whose validity nobody knows, what was said stays readable.
LEMMA MessageHistorical ==
  ASSUME NEW m, v2 \in Message!Messages, v2.version # 3, Message!Good(m)
  PROVE  LET p == Message!Historical(m) IN
         Message!Good(p) /\ (p = m \/ (~Message!Reassures(p) /\ m.s.limits # {}))
<1> DEFINE old == m.s.evidence
           ev == {e \in old : e.outcome # "match"}
           given == Message!LimitsWithout(m)
           all == m.s.limits \cup {"WITHHELD_LINKS"}
<1>1. /\ m \in Message!Sums /\ old \in SUBSET Message!Seen /\ m.s.rules \in Message!RuleSets
      /\ m.s.limits \in SUBSET Message!Limits /\ m.ai \in Message!Says
      /\ Message!Dated(old) /\ Message!Valid(m) /\ (Message!Matched(old) => m.s.limits # {})
  BY DEF Message!Good, Message!Sums, Message!Summaries
<1>2. CASE ev = old
  <2>1. Message!Historical(m) = m
    BY <1>2 DEF Message!Historical
  <2> QED BY <2>1
<1>3. CASE ev # old
  <2>1. m.s.limits # {}
    BY <1>1, <1>3 DEF Message!Matched
  <2>2. /\ ev \in SUBSET Message!Seen /\ Message!Dated(ev) /\ Message!Fresh(ev) = ev
    BY <1>1 DEF Message!Dated, Message!Fresh
  <2>3. /\ given \in SUBSET Message!Limits /\ "WITHHELD_LINKS" \in given
        /\ m.ai \notin {"warning", "no_warning"} => m.s.limits \subseteq given
        /\ all \in SUBSET Message!Limits /\ "WITHHELD_LINKS" \in all
    BY <1>1 DEF Message!LimitsWithout, Message!Limits
  <2>4. CASE v2.version = 1
    <3> DEFINE p == [s |-> Message!Rules(m.s.rules, all, ev), ai |-> m.ai]
    <3>1. Message!Historical(m) = p
      BY <1>3, <2>4 DEF Message!Historical
    <3> HIDE DEF ev, all
    <3>2. Message!Good(p) /\ SaysRules(p.s, m.s.rules, all, ev)
      BY <1>1, <2>2, <2>3, <2>4, MessageRuled
    <3> HIDE DEF p
    <3>3. ~Message!Reassures(p)
      BY <2>3, <3>2 DEF Message!Reassures, SaysRules
    <3> QED BY <2>1, <3>1, <3>2, <3>3
  <2>5. CASE v2.version = 2
    <3> DEFINE p == Message!WithModel(m.s.rules, given, ev, m.ai)
    <3>1. Message!Historical(m) = p
      BY <1>3, <2>5 DEF Message!Historical
    <3>2. Message!ValidModel(m)
      BY <1>1, <2>5 DEF Message!Valid
    <3> HIDE DEF ev, given
    <3>3. /\ m.ai = "unavailable" => given \cap Message!Outage # {}
          /\ m.ai = "abstained" => given \cap (Message!Untrusted \cup {"INSUFFICIENT_EVIDENCE"}) # {}
          /\ m.ai = "warning" => Message!Benign \notin m.s.rules
      BY <2>3, <3>2 DEF Message!ValidModel
    <3>4. Message!Good(p) /\ SaysModel(p, m.s.rules, given, ev, m.ai)
      BY <1>1, <2>2, <2>3, <2>5, <3>3, MessageJudged
    <3> HIDE DEF p
    <3>5. ~Message!Reassures(p)
      BY <2>3, <3>4 DEF Message!Reassures, SaysModel
    <3> QED BY <2>1, <3>1, <3>4, <3>5
  <2>6. v2.version \in 1..3
    BY DEF Message!Messages
  <2> QED BY <2>4, <2>5, <2>6
<1> QED BY <1>2, <1>3

\* A summary that knows of no threat is limited by nothing.
LEMMA MessageClean ==
  ASSUME NEW m, v2 \in Message!Messages, Message!Good(m), Message!Reassures(m) \/ m.s.outcome = "complete"
  PROVE  m.s.limits = {}
<1>1. ASSUME NEW s, Message!ValidRules(s)
      PROVE  /\ s.verdict = "no_known_threat_detected" => s.limits = {}
             /\ s.outcome = "complete" <=> s.limits = {}
  BY <1>1 DEF Message!ValidRules
<1>2. ASSUME NEW n, Message!ValidModel(n)
      PROVE  /\ n.s.verdict = "no_known_threat_detected" => n.s.limits = {}
             /\ n.s.outcome = "complete" <=> n.s.limits = {}
  BY <1>1, <1>2 DEF Message!ValidModel
<1>3. /\ m \in Message!Sums /\ Message!Valid(m) /\ m.s.evidence \in SUBSET Message!Seen
  BY DEF Message!Good, Message!Sums, Message!Summaries
<1>4. CASE v2.version = 1
  BY <1>1, <1>3, <1>4 DEF Message!Valid, Message!Reassures
<1>5. CASE v2.version = 2
  BY <1>2, <1>3, <1>5 DEF Message!Valid, Message!Reassures
<1>6. CASE v2.version = 3
  <2>1. WithEvidence(Message!Baseline(m), m, Message!Fresh(m.s.evidence))
    BY <1>3, MessageFresh, MessageEvidence DEF Message!Baseline
  <2>2. Message!ValidModel(Message!Baseline(m))
    BY <1>3, <1>6 DEF Message!Valid
  <2> QED BY <1>2, <2>1, <2>2 DEF WithEvidence, Message!Reassures
<1>7. v2.version \in 1..3
  BY DEF Message!Messages
<1> QED BY <1>4, <1>5, <1>6, <1>7

\* What a later answer makes of a summary.
Later(p, m) ==
  /\ Message!Good(p) /\ (m.s.limits = {} => p = m)
  /\ Message!Reassures(p) => p = m
  /\ v2.version = 3 => Presented(p, m)

\* A later answer is made of the kept summary that way.
LEMMA MessageProjects ==
  ASSUME NEW m, v2 \in Message!Messages, v1 \in Nat, Message!Good(m)
  PROVE  Later(Message!Projected(m), m)
<1>1. CASE v2.version = 3
  BY <1>1, MessagePresents DEF Message!Projected, Later, Presented
<1>2. CASE v2.version # 3
  <2> DEFINE p == Message!Historical(m)
  <2>1. Message!Good(p) /\ (p = m \/ (~Message!Reassures(p) /\ m.s.limits # {}))
    BY <1>2, MessageHistorical
  <2>2. Message!Projected(m) = p
    BY <1>2 DEF Message!Projected
  <2> HIDE DEF p
  <2>3. Later(p, m)
    BY <1>2, <2>1 DEF Later
  <2> QED BY <2>2, <2>3
<1> QED BY <1>1, <1>2

\* What the third contract says of a summary's rules and of the model's warning.
LEMMA MessageWarns ==
  ASSUME NEW m, v2 \in Message!Messages, v2.version = 3, Message!Good(m)
  PROVE  /\ Message!Demands(m.s.rules) => m.s.verdict = "high_risk"
         /\ Message!Pressure \in m.s.rules \/ m.ai = "warning" => m.s.verdict \in {"high_risk", "suspicious"}
<1> DEFINE b == Message!Baseline(m)
<1>1. m \in Message!Sums /\ m.s.evidence \in SUBSET Message!Seen /\ Message!ValidModel(b)
  BY DEF Message!Good, Message!Sums, Message!Summaries, Message!Valid
<1>2. WithEvidence(b, m, Message!Fresh(m.s.evidence))
  BY <1>1, MessageFresh, MessageEvidence DEF Message!Baseline
<1> HIDE DEF b
<1>3. CASE Message!Independent(b.s.rules, b.s.evidence)
  BY <1>1, <1>2, <1>3 DEF Message!ValidModel, Message!ValidRules, Message!Independent, WithEvidence
<1>4. CASE ~Message!Independent(b.s.rules, b.s.evidence)
  <2>1. m.ai = "warning" => m.s.verdict = "suspicious"
    BY <1>1, <1>2, <1>4 DEF Message!ValidModel, WithEvidence
  <2> QED BY <1>2, <1>4, <2>1 DEF Message!Independent, WithEvidence
<1> QED BY <1>3, <1>4

\* An answer tells of the threat while it is current.
Told(s, r) ==
  /\ Message!Reassures(s.sum) <=> Message!Reassures(r)
  /\ v2.version = 3 =>
       /\ s.sum.s.action = "avoid_link" <=> \E e \in r.s.evidence : e.outcome = "match" /\ s.at < e.until
       /\ Message!Demands(r.s.rules) => s.sum.s.verdict = "high_risk"
       /\ Message!Pressure \in r.s.rules \/ r.ai = "warning" => s.sum.s.verdict \in {"high_risk", "suspicious"}

\* What a replay is told is told of the row that way.
LEMMA MessageTells ==
  ASSUME NEW r, v2 \in Message!Messages, v1 \in Nat, Message!Good(r)
  PROVE  Told([at |-> v1, sum |-> Message!Projected(r)], r)
<1> DEFINE p == Message!Projected(r)
<1>1. Later(p, r)
  BY MessageProjects
<1> HIDE DEF p
<1>2. Message!Reassures(p) <=> Message!Reassures(r)
  BY <1>1, MessageClean DEF Later
<1>3. ASSUME v2.version = 3
      PROVE  /\ p.s.action = "avoid_link" <=> \E e \in r.s.evidence : e.outcome = "match" /\ v1 < e.until
             /\ Message!Demands(r.s.rules) => p.s.verdict = "high_risk"
             /\ Message!Pressure \in r.s.rules \/ r.ai = "warning" => p.s.verdict \in {"high_risk", "suspicious"}
  <2>1. Presented(p, r)
    BY <1>1, <1>3 DEF Later
  <2>2. p.s.action = "avoid_link" <=> Message!Matched(Message!Fresh(p.s.evidence))
    BY <2>1 DEF Presented, Message!Good
  <2> QED BY <1>3, <2>1, <2>2, MessageWarns DEF Presented
<1> DEFINE s == [at |-> v1, sum |-> p]
<1>4. s.at = v1 /\ s.sum = p
  OBVIOUS
<1> HIDE DEF s
<1>5. Told(s, r)
  BY <1>2, <1>3, <1>4 DEF Told
<1> QED BY <1>5 DEF s, p

\* A summary stays good while time passes.
LEMMA MessageKeeps ==
  ASSUME NEW m, Message!Good(m), v2' = v2, v1 \in Nat, v1' \in Nat, v1 <= v1'
  PROVE  Message!Good(m)' /\ (Message!Cleared(m) => Message!Cleared(m)')
<1>1. Message!Valid(m)'
  BY DEF Message!Good, Message!Valid
<1>2. m.s.evidence \in SUBSET Message!Seen
  BY DEF Message!Good, Message!Sums, Message!Summaries
<1>3. Message!Dated(m.s.evidence)'
  <2> SUFFICES ASSUME NEW e \in m.s.evidence
               PROVE  e.at <= v1' /\ (e.freshness = "expired" => v2.version = 3 /\ e.until <= v1')
    BY DEF Message!Dated
  <2>1. e.at \in Nat /\ (e.freshness = "expired" => e.until \in Nat)
    BY <1>2 DEF Message!Seen
  <2>2. e.at <= v1 /\ (e.freshness = "expired" => v2.version = 3 /\ e.until <= v1)
    BY DEF Message!Good, Message!Dated
  <2> QED BY <2>1, <2>2
<1>4. Message!Good(m)'
  BY <1>1, <1>3 DEF Message!Good
<1> QED BY <1>4 DEF Message!Cleared, Message!Known

\* A summary handed on by the evaluator or the consumer.
LEMMA MessageHands ==
  ASSUME Message!IInv, NEW m, Message!Good(m), Message!Cleared(m),
         NEW ph \in {"evaluated", "settle"}, v3' = [phase |-> ph, sum |-> m], v3.phase # "done",
         UNCHANGED <<v1, v2, v4, v5>>
  PROVE  Message!IInv' /\ Message!NeverReassuredLater
<1>1. v1 \in Nat /\ v1 \in Message!Times /\ v2 \in Message!Messages /\ v4 = None /\ v5 = None
  BY MessageAssumed DEF Message!IInv, Message!Times, Message!MessageAssumption
<1>2. Message!Good(m)' /\ Message!Cleared(m)'
  BY <1>1, MessageKeeps
<1>3. v3' \in [phase : {"evaluated", "settle"}, sum : Message!Sums] /\ v3'.sum = m
  BY DEF Message!Good
<1>4. Message!JobInv'
  BY <1>2, <1>3 DEF Message!JobInv
<1> QED BY <1>1, <1>4 DEF Message!IInv, Message!NeverReassuredLater

\* Settled for want of an evaluation.
LEMMA MessageLimited ==
  ASSUME v2 \in Message!Messages, NEW limit \in {"BUDGET_LIMIT", "PROVIDER_UNAVAILABLE"}
  PROVE  Message!Good(Message!Limited({limit})) /\ Message!Cleared(Message!Limited({limit}))
<1> DEFINE m == Message!Limited({limit})
<1>1. /\ {} \in Message!RuleSets /\ {limit} \in SUBSET Message!Limits /\ {} \in SUBSET Message!Seen
      /\ "not_assessed" \in Message!Says /\ Message!Dated({}) /\ Message!Fresh({}) = {}
  BY DEF Message!RuleSets, Message!Limits, Message!Outage, Message!Says, Message!Dated, Message!Fresh
<1>2. Message!Good(m) /\ ~Message!Reassures(m)
  <2>1. CASE v2.version = 1
    <3> DEFINE n == [s |-> Message!Rules({}, {limit}, {}), ai |-> "not_assessed"]
    <3>1. Message!Good(n) /\ SaysRules(n.s, {}, {limit}, {})
      BY <1>1, <2>1, MessageRuled
    <3>2. m = n
      BY <2>1 DEF Message!Limited
    <3> HIDE DEF n, m
    <3> QED BY <3>1, <3>2 DEF SaysRules, Message!Reassures
  <2>2. CASE v2.version # 1
    <3> DEFINE n == Message!WithModel({}, {limit}, {}, "not_assessed")
    <3>1. Message!Good(n) /\ SaysModel(n, {}, {limit}, {}, "not_assessed")
      BY <1>1, <2>2, MessageJudged
    <3>2. m = n
      BY <2>2 DEF Message!Limited
    <3> HIDE DEF n, m
    <3> QED BY <3>1, <3>2 DEF SaysModel, Message!Reassures
  <2> QED BY <2>1, <2>2
<1> HIDE DEF m
<1>3. Message!Cleared(m)
  BY <1>2 DEF Message!Cleared, Message!Reassures
<1> QED BY <1>2, <1>3 DEF m

\* What the rules find in a message.
LEMMA MessageFixed ==
  ASSUME v2 \in Message!Messages
  PROVE  LET f == Message!Fixed IN
         /\ f.rules \in Message!RuleSets /\ f.limits \in SUBSET Message!Limits
         /\ f.rules = {} => "INSUFFICIENT_EVIDENCE" \in f.limits
         /\ f.rules # {} => f.rules = v2.coverage
         /\ v2.hostile => "HOSTILE_INPUT_STOP" \in f.limits
         /\ v2.speaker = "unknown" => "UNKNOWN_SPEAKER" \in f.limits
         /\ v2.withheld => "WITHHELD_LINKS" \in f.limits
<1>1. v2.coverage \in Message!RuleSets /\ {} \in Message!RuleSets
  BY DEF Message!Messages, Message!RuleSets
<1> DEFINE blocked == (IF v2.hostile THEN {"HOSTILE_INPUT_STOP"} ELSE {})
                      \cup (IF v2.speaker = "unknown" THEN {"UNKNOWN_SPEAKER"} ELSE {})
           found == blocked = {} /\ v2.coverage # {}
                    /\ (v2.coverage = {Message!Benign} \/ v2.speaker = "other")
           f == [rules |-> IF found THEN v2.coverage ELSE {},
                 limits |-> blocked \cup (IF found THEN {} ELSE {"INSUFFICIENT_EVIDENCE"})
                            \cup (IF v2.withheld THEN {"WITHHELD_LINKS"} ELSE {})]
<1>2. Message!Fixed = f
  BY DEF Message!Fixed
<1>3. f.rules = (IF found THEN v2.coverage ELSE {})
      /\ f.limits = blocked \cup (IF found THEN {} ELSE {"INSUFFICIENT_EVIDENCE"})
                    \cup (IF v2.withheld THEN {"WITHHELD_LINKS"} ELSE {})
  OBVIOUS
<1>4. /\ v2.hostile => "HOSTILE_INPUT_STOP" \in blocked
      /\ v2.speaker = "unknown" => "UNKNOWN_SPEAKER" \in blocked
      /\ blocked \subseteq {"HOSTILE_INPUT_STOP", "UNKNOWN_SPEAKER"}
  OBVIOUS
<1>5. found => v2.coverage # {}
  OBVIOUS
<1> HIDE DEF f, found, blocked
<1> QED BY <1>1, <1>2, <1>3, <1>4, <1>5 DEF Message!Limits, Message!Untrusted

\* A check begins, with its rules or without time or budget.
LEMMA MessageBegins ==
  ASSUME Message!IInv, Message!Begin
  PROVE  Message!IInv' /\ Message!NeverReassuredLater
<1>1. v2 \in Message!Messages /\ v3.phase # "done" /\ UNCHANGED <<v1, v2, v4, v5>>
  BY DEF Message!IInv, Message!Begin, Message!Idle
<1>2. CASE v3' = [phase |-> "link", rules |-> Message!Fixed.rules, limits |-> Message!Fixed.limits,
                  evidence |-> {}]
  <2>1. /\ v3' \in [phase : {"link", "model"}, rules : Message!RuleSets, limits : SUBSET Message!Limits,
                    evidence : SUBSET Message!Seen]
        /\ v3'.phase = "link" /\ v3'.evidence = {}
        /\ v3'.rules = Message!Fixed.rules /\ v3'.limits = Message!Fixed.limits
    BY <1>1, <1>2, MessageFixed
  <2>2. Message!Found'
    BY <1>1, <2>1, MessageFixed DEF Message!Found, Message!Matched, Message!Dated, Message!Fresh
  <2> QED BY <1>1, <2>1, <2>2 DEF Message!IInv, Message!JobInv, Message!NeverReassuredLater
<1>3. CASE v3' = [phase |-> "settle", sum |-> Message!Limited({"BUDGET_LIMIT"})]
  BY <1>1, <1>3, MessageLimited, MessageHands
<1> QED BY <1>2, <1>3 DEF Message!Begin

\* The reviewed link is assessed, or not to its end.
LEMMA MessageLooks ==
  ASSUME Message!IInv, Message!Lookup
  PROVE  Message!IInv' /\ Message!NeverReassuredLater
<1>1. /\ v1 \in Nat /\ v2 \in Message!Messages /\ UNCHANGED <<v1, v2, v4, v5>> /\ v3.phase = "link"
      /\ v3 \in [phase : {"link", "model"}, rules : Message!RuleSets, limits : SUBSET Message!Limits,
                 evidence : SUBSET Message!Seen]
      /\ Message!Found
  BY MessageAssumed DEF Message!IInv, Message!JobInv, Message!Lookup, Message!Idle, Message!Times,
     Message!MessageAssumption
<1>2. PICK limits, ev :
        /\ Message!Looked(limits, ev) /\ limits \in SUBSET Message!Limits /\ ev \in SUBSET Message!Seen
        /\ Message!Dated(ev) /\ Message!Fresh(ev) = ev
        /\ Message!Matched(ev) => "WITHHELD_LINKS" \in limits
        /\ v2.link # "none" /\ ~v2.rulesOnly =>
             \/ \E e \in ev : e.outcome = "no_match"
             \/ limits \cap {"WITHHELD_LINKS", "PROVIDER_UNAVAILABLE", "BUDGET_LIMIT"} # {}
  <2> DEFINE Found(limits, ev) ==
        /\ Message!Looked(limits, ev) /\ limits \in SUBSET Message!Limits /\ ev \in SUBSET Message!Seen
        /\ Message!Dated(ev) /\ Message!Fresh(ev) = ev
        /\ Message!Matched(ev) => "WITHHELD_LINKS" \in limits
        /\ v2.link # "none" /\ ~v2.rulesOnly =>
             \/ \E e \in ev : e.outcome = "no_match"
             \/ limits \cap {"WITHHELD_LINKS", "PROVIDER_UNAVAILABLE", "BUDGET_LIMIT"} # {}
  <2>1. ASSUME (v2.link = "none" \/ v2.rulesOnly) /\ Message!Looked({}, {})
        PROVE  \E limits, ev : Found(limits, ev)
    <3>1. Found({}, {})
      BY <2>1 DEF Message!Dated, Message!Fresh, Message!Matched
    <3> QED BY <3>1
  <2>2. ASSUME NEW until \in (v1 + 1)..(v1 + 2), Message!Looked({"WITHHELD_LINKS"}, {Message!Match(until)})
        PROVE  \E limits, ev : Found(limits, ev)
    <3> DEFINE e == Message!Match(until)
    <3>1. /\ e \in [outcome : {"match"}, at : Nat, until : Nat, freshness : {"current", "expired"}]
          /\ e.at = v1 /\ e.freshness = "current"
      BY <1>1 DEF Message!Match
    <3>2. Message!Looked({"WITHHELD_LINKS"}, {e})
      BY <2>2
    <3> HIDE DEF e
    <3>3. {e} \in SUBSET Message!Seen /\ Message!Dated({e}) /\ Message!Fresh({e}) = {e}
      BY <1>1, <3>1 DEF Message!Seen, Message!Dated, Message!Fresh
    <3>4. Found({"WITHHELD_LINKS"}, {e})
      BY <3>2, <3>3 DEF Message!Limits
    <3> QED BY <3>4
  <2>3. ASSUME Message!Looked({}, {Message!Clean})
        PROVE  \E limits, ev : Found(limits, ev)
    <3> DEFINE e == Message!Clean
    <3>1. /\ e \in [outcome : {"no_match"}, at : Nat, until : {None}, freshness : {"observation_only"}]
          /\ e.at = v1
      BY <1>1 DEF Message!Clean
    <3>2. Message!Looked({}, {e})
      BY <2>3
    <3> HIDE DEF e
    <3>3. /\ {e} \in SUBSET Message!Seen /\ Message!Dated({e}) /\ Message!Fresh({e}) = {e}
          /\ ~Message!Matched({e}) /\ e.outcome = "no_match"
      BY <1>1, <3>1 DEF Message!Seen, Message!Dated, Message!Fresh, Message!Matched
    <3>4. Found({}, {e})
      BY <3>2, <3>3
    <3> QED BY <3>4
  <2>4. ASSUME NEW limits \in SUBSET {"PROVIDER_UNAVAILABLE", "WITHHELD_LINKS", "BUDGET_LIMIT"},
               limits # {}, Message!Looked(limits, {})
        PROVE  \E ls, ev : Found(ls, ev)
    <3>1. Found(limits, {})
      BY <2>4 DEF Message!Dated, Message!Fresh, Message!Matched, Message!Limits, Message!Outage
    <3> QED BY <3>1
  <2>5. \/ (v2.link = "none" \/ v2.rulesOnly) /\ Message!Looked({}, {})
        \/ \E until \in (v1 + 1)..(v1 + 2) : Message!Looked({"WITHHELD_LINKS"}, {Message!Match(until)})
        \/ Message!Looked({}, {Message!Clean})
        \/ \E limits \in SUBSET {"PROVIDER_UNAVAILABLE", "WITHHELD_LINKS", "BUDGET_LIMIT"} :
             limits # {} /\ Message!Looked(limits, {})
    BY DEF Message!Lookup
  <2> HIDE DEF Found
  <2>6. \E limits, ev : Found(limits, ev)
    <3>1. CASE \E until \in (v1 + 1)..(v1 + 2) : Message!Looked({"WITHHELD_LINKS"}, {Message!Match(until)})
      BY <2>2, <3>1
    <3>2. CASE \E limits \in SUBSET {"PROVIDER_UNAVAILABLE", "WITHHELD_LINKS", "BUDGET_LIMIT"} :
                 limits # {} /\ Message!Looked(limits, {})
      <4>1. PICK limits \in SUBSET {"PROVIDER_UNAVAILABLE", "WITHHELD_LINKS", "BUDGET_LIMIT"} :
              limits # {} /\ Message!Looked(limits, {})
        BY <3>2
      <4> QED BY <2>4, <4>1
    <3> QED BY <2>1, <2>3, <2>5, <3>1, <3>2
  <2> QED BY <2>6 DEF Found
<1>3. /\ v3' \in [phase : {"link", "model"}, rules : Message!RuleSets, limits : SUBSET Message!Limits,
                  evidence : SUBSET Message!Seen]
      /\ v3'.phase = "model" /\ v3'.rules = v3.rules /\ v3'.limits = v3.limits \cup limits
      /\ v3'.evidence = ev
  BY <1>1, <1>2 DEF Message!Looked
<1>4. Message!Found'
  BY <1>1, <1>2, <1>3 DEF Message!Found, Message!Dated
<1> QED BY <1>1, <1>3, <1>4 DEF Message!IInv, Message!JobInv, Message!NeverReassuredLater

\* A decision of the evaluator on what it found: no reassurance but on what it looked at.
LEMMA MessageCleared ==
  ASSUME Message!IInv, v3.phase = "model", NEW m, NEW given,
         Message!Reassures(m) => given = {} /\ (v3.rules = {Message!Benign} \/ m.ai = "no_warning"),
         v3.limits \ {"INSUFFICIENT_EVIDENCE"} \subseteq given,
         ~v2.rulesOnly => m.s.evidence = v3.evidence,
         v2.rulesOnly /\ v2.link # "none" => given # {}
  PROVE  Message!Cleared(m)
<1>1. Message!Found /\ v2 \in Message!Messages
  BY DEF Message!IInv, Message!JobInv, Message!Idle
<1>2. SUFFICES ASSUME Message!Reassures(m)
               PROVE  /\ Message!Known(m.s.evidence)
                      /\ v2.coverage = {Message!Benign} \/ m.ai = "no_warning"
  BY DEF Message!Cleared, Message!Reassures
<1>3. v3.limits \subseteq {"INSUFFICIENT_EVIDENCE"}
  BY <1>2
<1>4. ~v2.hostile /\ v2.speaker # "unknown" /\ ~v2.withheld
  BY <1>1, <1>3 DEF Message!Found
<1>5. v2.link # "none" => \E e \in m.s.evidence : e.outcome = "no_match"
  BY <1>1, <1>2, <1>3 DEF Message!Found
<1>6. v2.coverage = {Message!Benign} \/ m.ai = "no_warning"
  BY <1>1, <1>2 DEF Message!Found
<1> QED BY <1>4, <1>5, <1>6 DEF Message!Known

\* What the evaluator works on when the link is assessed.
LEMMA MessageModel ==
  ASSUME Message!IInv, v3.phase = "model"
  PROVE  /\ v1 \in Nat /\ v2 \in Message!Messages /\ Message!Found
         /\ v3.rules \in Message!RuleSets /\ v3.limits \in SUBSET Message!Limits
         /\ v3.evidence \in SUBSET Message!Seen
         /\ Message!Dated(v3.evidence) /\ Message!Fresh(v3.evidence) = v3.evidence
         /\ v2.rulesOnly => v2.version = 3
BY MessageAssumed DEF Message!IInv, Message!JobInv, Message!Idle, Message!Times,
   Message!MessageAssumption, Message!Found, Message!Messages

\* The limits the model is asked with.
LEMMA MessageBase ==
  ASSUME Message!IInv, v3.phase = "model"
  PROVE  /\ Message!Base \in SUBSET Message!Limits /\ v3.limits \subseteq Message!Base
<1>1. SaysRules(Message!Rules(v3.rules, v3.limits, v3.evidence), v3.rules, v3.limits, v3.evidence)
  BY MessageModel, MessageRules
<1> QED BY <1>1 DEF SaysRules, Message!Base, Message!Summaries

\* Candidate 1 decides by its rules.
LEMMA MessageByRules ==
  ASSUME Message!IInv, Message!DecideByRules
  PROVE  Message!IInv' /\ Message!NeverReassuredLater
<1>1. v3.phase = "model" /\ v2.version = 1
  BY DEF Message!DecideByRules
<1>2. PICK limit \in {{}} \cup {{x} : x \in Message!Outage} :
        Message!Decide([s |-> Message!Rules(v3.rules, v3.limits \cup limit, v3.evidence),
                        ai |-> "not_assessed"])
  BY DEF Message!DecideByRules
<1> DEFINE given == v3.limits \cup limit
           m == [s |-> Message!Rules(v3.rules, given, v3.evidence), ai |-> "not_assessed"]
<1>3. given \in SUBSET Message!Limits /\ "not_assessed" \in Message!Says
  BY <1>1, MessageModel DEF Message!Limits, Message!Says
<1>4. Message!Good(m) /\ SaysRules(m.s, v3.rules, given, v3.evidence)
  <2> HIDE DEF given
  <2> QED BY <1>1, <1>3, MessageModel, MessageRuled
<1>5. Message!Decide(m)
  BY <1>2
<1>6. v3.limits \subseteq given
  OBVIOUS
<1> HIDE DEF m, given
<1>7. Message!Cleared(m)
  <2>1. Message!Reassures(m) => given = {} /\ v3.rules = {Message!Benign}
    BY <1>4 DEF SaysRules, Message!Reassures
  <2>2. m.s.evidence = v3.evidence /\ ~v2.rulesOnly
    BY <1>1, <1>4, MessageModel DEF SaysRules
  <2> QED BY <1>1, <1>6, <2>1, <2>2, MessageCleared
<1>8. v3' = [phase |-> "evaluated", sum |-> m] /\ UNCHANGED <<v1, v2, v4, v5>>
  BY <1>5 DEF Message!Decide
<1> QED BY <1>1, <1>4, <1>7, <1>8, MessageHands

\* What the evaluator makes of a message with the model's part, and its summary handed on.
LEMMA MessageJudges ==
  ASSUME Message!IInv, v3.phase = "model", v2.version # 1,
         NEW rules \in Message!RuleSets, NEW given \in SUBSET Message!Limits,
         NEW ev \in SUBSET Message!Seen, NEW said \in Message!Says,
         said = "unavailable" => given = {} \/ given \cap Message!Outage # {},
         said = "abstained" =>
           given = {} \/ given \cap (Message!Untrusted \cup {"INSUFFICIENT_EVIDENCE"}) # {},
         said = "warning" => Message!Benign \notin rules,
         rules \in {{}, v3.rules}, ev \in {{}, v3.evidence},
         v3.limits \ {"INSUFFICIENT_EVIDENCE"} \subseteq given,
         ~v2.rulesOnly => ev = v3.evidence,
         v2.rulesOnly /\ v2.link # "none" => given # {},
         Message!Decide(Message!WithModel(rules, given, ev, said))
  PROVE  Message!IInv' /\ Message!NeverReassuredLater
<1> DEFINE m == Message!WithModel(rules, given, ev, said)
<1>1. Message!Dated(ev) /\ Message!Fresh(ev) = ev
  BY MessageModel DEF Message!Dated, Message!Fresh
<1>2. Message!Good(m) /\ SaysModel(m, rules, given, ev, said)
  BY <1>1, MessageModel, MessageJudged
<1>3. Message!Decide(m)
  OBVIOUS
<1> HIDE DEF m
<1>4. Message!Cleared(m)
  <2>1. Message!Reassures(m) => given = {} /\ (v3.rules = {Message!Benign} \/ m.ai = "no_warning")
    BY <1>2 DEF SaysModel, Message!Reassures
  <2>2. ~v2.rulesOnly => m.s.evidence = v3.evidence
    BY <1>2 DEF SaysModel
  <2> QED BY <2>1, <2>2, MessageCleared
<1>5. v3' = [phase |-> "evaluated", sum |-> m] /\ UNCHANGED <<v1, v2, v4, v5>>
  BY <1>3 DEF Message!Decide
<1> QED BY <1>2, <1>4, <1>5, MessageHands

\* Candidate 3 without a model.
LEMMA MessageRulesOnly ==
  ASSUME Message!IInv, Message!DecideRulesOnly
  PROVE  Message!IInv' /\ Message!NeverReassuredLater
<1> DEFINE given == v3.limits \cup (IF v2.link # "none" THEN {"INSUFFICIENT_EVIDENCE"} ELSE {})
<1>1. /\ v3.phase = "model" /\ v2.rulesOnly /\ v2.version # 1
      /\ Message!Decide(Message!WithModel(v3.rules, given, {}, "not_assessed"))
  BY MessageModel DEF Message!DecideRulesOnly
<1>2. /\ given \in SUBSET Message!Limits /\ v3.limits \ {"INSUFFICIENT_EVIDENCE"} \subseteq given
      /\ v2.link # "none" => given # {}
  BY <1>1, MessageModel DEF Message!Limits
<1>3. "not_assessed" \in Message!Says /\ {} \in SUBSET Message!Seen /\ v3.rules \in Message!RuleSets
  BY <1>1, MessageModel DEF Message!Says
<1> HIDE DEF given
<1> QED BY <1>1, <1>2, <1>3, MessageJudges

\* The rules suffice, or the speaker or the message forbids to ask the model.
LEMMA MessageUnasked ==
  ASSUME Message!IInv, Message!DecideWithoutModel
  PROVE  Message!IInv' /\ Message!NeverReassuredLater
<1>1. v3.phase = "model" /\ ~v2.rulesOnly /\ v2.version # 1
  BY DEF Message!DecideWithoutModel, Message!Asks
<1>2. /\ {} \in Message!RuleSets /\ v3.rules \in Message!RuleSets /\ v3.evidence \in SUBSET Message!Seen
      /\ "not_assessed" \in Message!Says /\ "abstained" \in Message!Says
      /\ Message!Base \in SUBSET Message!Limits /\ v3.limits \subseteq Message!Base
  BY <1>1, MessageModel, MessageBase DEF Message!Says, Message!RuleSets
<1>3. CASE Message!Decide(Message!WithModel(v3.rules, Message!Base, v3.evidence, "not_assessed"))
  BY <1>1, <1>2, <1>3, MessageJudges
<1>4. CASE /\ v3.rules = {}
           /\ Message!Decide(Message!WithModel({}, Message!Base, v3.evidence, "abstained"))
  <2>1. "INSUFFICIENT_EVIDENCE" \in Message!Base
    BY <1>1, <1>2, <1>4, MessageModel DEF Message!Found
  <2>2. Message!Base \cap (Message!Untrusted \cup {"INSUFFICIENT_EVIDENCE"}) # {}
    BY <2>1
  <2> QED BY <1>1, <1>2, <1>4, <2>2, MessageJudges
<1>5. CASE Message!Decide(Message!WithModel({}, Message!Base \cup {"UNSUPPORTED_CONTENT"}, v3.evidence,
                                            "abstained"))
  <2> DEFINE given == Message!Base \cup {"UNSUPPORTED_CONTENT"}
  <2>1. /\ given \in SUBSET Message!Limits /\ v3.limits \ {"INSUFFICIENT_EVIDENCE"} \subseteq given
        /\ given \cap (Message!Untrusted \cup {"INSUFFICIENT_EVIDENCE"}) # {}
    BY <1>2 DEF Message!Limits, Message!Untrusted
  <2>2. Message!Decide(Message!WithModel({}, given, v3.evidence, "abstained"))
    BY <1>5
  <2> HIDE DEF given
  <2> QED BY <1>1, <1>2, <2>1, <2>2, MessageJudges
<1> QED BY <1>3, <1>4, <1>5 DEF Message!DecideWithoutModel

\* The model answers, abstains or fails.
LEMMA MessageAsks ==
  ASSUME Message!IInv, Message!AskModel
  PROVE  Message!IInv' /\ Message!NeverReassuredLater
<1>1. v3.phase = "model" /\ ~v2.rulesOnly /\ v2.version # 1 /\ v3.rules = {}
  BY DEF Message!AskModel, Message!Asks
<1>2. /\ {} \in Message!RuleSets /\ v3.evidence \in SUBSET Message!Seen /\ Message!Benign \notin {}
      /\ Message!Base \in SUBSET Message!Limits /\ v3.limits \subseteq Message!Base
  BY <1>1, MessageModel, MessageBase DEF Message!RuleSets
<1>3. ASSUME NEW said \in {"warning", "no_warning"},
             Message!Decide(Message!WithModel({}, Message!Base \ {"INSUFFICIENT_EVIDENCE"}, v3.evidence, said))
      PROVE  Message!IInv' /\ Message!NeverReassuredLater
  <2> DEFINE given == Message!Base \ {"INSUFFICIENT_EVIDENCE"}
  <2>1. /\ given \in SUBSET Message!Limits /\ v3.limits \ {"INSUFFICIENT_EVIDENCE"} \subseteq given
        /\ said \in Message!Says /\ said # "abstained" /\ said # "unavailable"
    BY <1>2 DEF Message!Says
  <2>2. Message!Decide(Message!WithModel({}, given, v3.evidence, said))
    BY <1>3
  <2> HIDE DEF given
  <2> QED BY <1>1, <1>2, <2>1, <2>2, MessageJudges
<1>4. ASSUME NEW limit \in {"UNSUPPORTED_CONTENT", "INSUFFICIENT_EVIDENCE"},
             Message!Decide(Message!WithModel({}, Message!Base \cup {limit}, v3.evidence, "abstained"))
      PROVE  Message!IInv' /\ Message!NeverReassuredLater
  <2> DEFINE given == Message!Base \cup {limit}
  <2>1. /\ given \in SUBSET Message!Limits /\ v3.limits \ {"INSUFFICIENT_EVIDENCE"} \subseteq given
        /\ given \cap (Message!Untrusted \cup {"INSUFFICIENT_EVIDENCE"}) # {}
        /\ "abstained" \in Message!Says
    BY <1>2 DEF Message!Limits, Message!Untrusted, Message!Says
  <2>2. Message!Decide(Message!WithModel({}, given, v3.evidence, "abstained"))
    BY <1>4
  <2> HIDE DEF given
  <2> QED BY <1>1, <1>2, <2>1, <2>2, MessageJudges
<1>5. ASSUME NEW limit \in Message!Outage,
             Message!Decide(Message!WithModel({}, Message!Base \cup {limit}, v3.evidence, "unavailable"))
      PROVE  Message!IInv' /\ Message!NeverReassuredLater
  <2> DEFINE given == Message!Base \cup {limit}
  <2>1. /\ given \in SUBSET Message!Limits /\ v3.limits \ {"INSUFFICIENT_EVIDENCE"} \subseteq given
        /\ given \cap Message!Outage # {} /\ "unavailable" \in Message!Says
    BY <1>2 DEF Message!Limits, Message!Says
  <2>2. Message!Decide(Message!WithModel({}, given, v3.evidence, "unavailable"))
    BY <1>5
  <2> HIDE DEF given
  <2> QED BY <1>1, <1>2, <2>1, <2>2, MessageJudges
<1> QED BY <1>3, <1>4, <1>5 DEF Message!AskModel

\* The consumer receives the evaluation, or takes another for it.
LEMMA MessageReceives ==
  ASSUME Message!IInv, Message!Receive
  PROVE  Message!IInv' /\ Message!NeverReassuredLater
<1>1. /\ v3.phase = "evaluated" /\ UNCHANGED <<v1, v2, v4, v5>>
      /\ v1 \in Nat /\ v2 \in Message!Messages /\ Message!Good(v3.sum) /\ Message!Cleared(v3.sum)
  BY MessageAssumed DEF Message!IInv, Message!JobInv, Message!Idle, Message!Times,
     Message!MessageAssumption, Message!Receive
<1>2. PICK lost \in BOOLEAN :
        v3' = [phase |-> "settle",
               sum |-> LET sum == IF lost \/ ~Message!Valid(v3.sum)
                                  THEN Message!Limited({"PROVIDER_UNAVAILABLE"}) ELSE v3.sum
                       IN IF v2.version = 3 THEN Message!Present(sum) ELSE sum]
  BY DEF Message!Receive
<1> DEFINE sum == IF lost \/ ~Message!Valid(v3.sum) THEN Message!Limited({"PROVIDER_UNAVAILABLE"})
                                                    ELSE v3.sum
           m == IF v2.version = 3 THEN Message!Present(sum) ELSE sum
<1>3. Message!Good(sum) /\ Message!Cleared(sum)
  BY <1>1, MessageLimited
<1>4. v3' = [phase |-> "settle", sum |-> m]
  BY <1>2
<1> HIDE DEF sum
<1>5. Message!Good(m) /\ Message!Cleared(m)
  <2>1. CASE v2.version = 3
    <3>1. Presented(Message!Present(sum), sum)
      BY <1>1, <1>3, <2>1, MessagePresents
    <3> QED BY <1>3, <2>1, <3>1 DEF Presented, Message!Cleared, Message!Reassures
  <2>2. CASE v2.version # 3
    BY <1>3, <2>2
  <2> QED BY <2>1, <2>2
<1> HIDE DEF m
<1> QED BY <1>1, <1>4, <1>5, MessageHands

\* A threat that grew old before the settlement is presented again.
LEMMA MessageAgain ==
  ASSUME Message!IInv, Message!PresentAgain
  PROVE  Message!IInv' /\ Message!NeverReassuredLater
<1>1. /\ v3.phase = "settle" /\ UNCHANGED <<v1, v2, v4, v5>> /\ v2.version = 3
      /\ v1 \in Nat /\ v2 \in Message!Messages /\ Message!Good(v3.sum) /\ Message!Cleared(v3.sum)
      /\ v3 \in [phase : {"evaluated", "settle"}, sum : Message!Sums]
  BY MessageAssumed DEF Message!IInv, Message!JobInv, Message!Idle, Message!Times,
     Message!MessageAssumption, Message!PresentAgain, Message!Expired
<1> DEFINE m == Message!Present(v3.sum)
<1>2. Presented(m, v3.sum)
  BY <1>1, MessagePresents
<1>3. v3' = [v3 EXCEPT !.sum = m]
  BY DEF Message!PresentAgain
<1> HIDE DEF m
<1>4. v3' = [phase |-> "settle", sum |-> m]
  BY <1>1, <1>3
<1>5. Message!Good(m) /\ Message!Cleared(m)
  BY <1>1, <1>2 DEF Presented, Message!Cleared, Message!Reassures
<1> QED BY <1>1, <1>4, <1>5, MessageHands

\* What is told is told of the row as it is.
LEMMA MessageShows ==
  ASSUME v2 \in Message!Messages, v1 \in Nat, Message!Good(v4'), v2' = v2,
         v5' = [at |-> v1, sum |-> Message!Projected(v4')]
  PROVE  Message!ThreatWhileCurrent' /\ (Message!Reassures(v5'.sum) <=> Message!Reassures(v4'))
<1>1. Told(v5', v4')
  BY MessageTells
<1> QED BY <1>1 DEF Told, Message!ThreatWhileCurrent

\* Settling writes the summary and shows its projection; nothing was shown before.
LEMMA MessageSettles ==
  ASSUME Message!IInv, Message!Settle
  PROVE  Message!IInv' /\ Message!NeverReassuredLater
<1>1. /\ v3.phase = "settle" /\ UNCHANGED <<v1, v2>> /\ v4' = v3.sum /\ v3' = [phase |-> "done"]
      /\ v1 \in Nat /\ v2 \in Message!Messages /\ Message!Good(v3.sum) /\ Message!Cleared(v3.sum)
      /\ v5 = None
      /\ v5' = [at |-> v1, sum |-> Message!Projected(v4')]
  BY MessageAssumed DEF Message!IInv, Message!JobInv, Message!Idle, Message!Times,
     Message!MessageAssumption, Message!Settle
<1>2. PICK n : n = v3.sum
  OBVIOUS
<1>3. Message!JobInv'
  <2>1. Message!Good(n)' /\ Message!Cleared(n)'
    BY <1>1, <1>2, MessageKeeps
  <2>2. v4' = n
    BY <1>1, <1>2
  <2> QED BY <1>1, <2>1, <2>2 DEF Message!JobInv
<1>4. Message!ThreatWhileCurrent' /\ (Message!Reassures(v5'.sum) <=> Message!Reassures(v4'))
  BY <1>1, MessageShows
<1> QED BY <1>1, <1>3, <1>4 DEF Message!IInv, Message!NeverReassuredLater, Message!Reassures

\* A later answer is made of the row anew.
LEMMA MessageReplays ==
  ASSUME Message!IInv, Message!Replay
  PROVE  Message!IInv' /\ Message!NeverReassuredLater
<1>1. /\ UNCHANGED <<v1, v2, v3, v4>> /\ v4 # None /\ v3.phase = "done"
      /\ v1 \in Nat /\ v2 \in Message!Messages /\ Message!Good(v4) /\ Message!Cleared(v4)
      /\ v3 = [phase |-> "done"] /\ v5' = [at |-> v1, sum |-> Message!Projected(v4)]
  BY MessageAssumed DEF Message!IInv, Message!JobInv, Message!Idle, Message!Times,
     Message!MessageAssumption, Message!Replay
<1>2. PICK n : n = v4
  OBVIOUS
<1>3. Message!JobInv'
  <2>1. Message!Good(n)' /\ Message!Cleared(n)'
    BY <1>1, <1>2, MessageKeeps
  <2> QED BY <1>1, <1>2, <2>1 DEF Message!JobInv
<1>4. Message!ThreatWhileCurrent' /\ (Message!Reassures(v5'.sum) <=> Message!Reassures(v4'))
  BY <1>1, MessageShows
<1>5. Message!NeverReassuredLater
  BY <1>1, <1>4 DEF Message!IInv, Message!NeverReassuredLater, Message!Reassures
<1> QED BY <1>1, <1>3, <1>4, <1>5 DEF Message!IInv

\* Time passes.
LEMMA MessageTicks ==
  ASSUME Message!IInv, Message!Tick
  PROVE  Message!IInv' /\ Message!NeverReassuredLater
<1>1. /\ v1 \in Nat /\ v1' \in Nat /\ v1 <= v1' /\ v1' \in Message!Times /\ v2 \in Message!Messages
      /\ UNCHANGED <<v2, v3, v4, v5>>
  BY MessageAssumed DEF Message!IInv, Message!Times, Message!MessageAssumption, Message!Tick
<1>2. Message!JobInv'
  <2>1. CASE v3 = Message!Idle
    BY <1>1, <2>1 DEF Message!JobInv, Message!Idle
  <2>2. CASE /\ v3 \in [phase : {"link", "model"}, rules : Message!RuleSets,
                        limits : SUBSET Message!Limits, evidence : SUBSET Message!Seen]
             /\ Message!Found
    <3>1. Message!Dated(v3.evidence)'
      <4> SUFFICES ASSUME NEW e \in v3.evidence
                   PROVE  e.at <= v1' /\ (e.freshness = "expired" => v2.version = 3 /\ e.until <= v1')
        BY <1>1 DEF Message!Dated
      <4>1. e.at \in Nat /\ (e.freshness = "expired" => e.until \in Nat)
        BY <2>2 DEF Message!Seen
      <4>2. e.at <= v1 /\ (e.freshness = "expired" => v2.version = 3 /\ e.until <= v1)
        BY <2>2 DEF Message!Found, Message!Dated
      <4> QED BY <1>1, <4>1, <4>2
    <3>2. Message!Found'
      BY <1>1, <2>2, <3>1 DEF Message!Found
    <3> QED BY <1>1, <2>2, <3>2 DEF Message!JobInv
  <2>3. CASE /\ v3 \in [phase : {"evaluated", "settle"}, sum : Message!Sums]
             /\ Message!Good(v3.sum) /\ Message!Cleared(v3.sum)
    <3>1. PICK n : n = v3.sum
      OBVIOUS
    <3>2. Message!Good(n)' /\ Message!Cleared(n)'
      BY <1>1, <2>3, <3>1, MessageKeeps
    <3> QED BY <1>1, <2>3, <3>1, <3>2 DEF Message!JobInv
  <2>4. CASE v3 = [phase |-> "done"] /\ Message!Good(v4) /\ Message!Cleared(v4)
    <3>1. PICK n : n = v4
      OBVIOUS
    <3>2. Message!Good(n)' /\ Message!Cleared(n)'
      BY <1>1, <2>4, <3>1, MessageKeeps
    <3> QED BY <1>1, <2>4, <3>1, <3>2 DEF Message!JobInv
  <2> QED BY <2>1, <2>2, <2>3, <2>4 DEF Message!IInv, Message!JobInv
<1> QED BY <1>1, <1>2 DEF Message!IInv, Message!NeverReassuredLater, Message!ThreatWhileCurrent,
        Message!Reassures

\* Every step of the message check keeps its invariant.
LEMMA MessageStep ==
  ASSUME Message!IInv, Message!Next
  PROVE  Message!IInv' /\ Message!NeverReassuredLater
BY MessageBegins, MessageLooks, MessageByRules, MessageRulesOnly, MessageUnasked, MessageAsks,
   MessageReceives, MessageAgain, MessageSettles, MessageReplays, MessageTicks DEF Message!Next

\* What the invariant says to a reader of the summaries.
LEMMA MessagePromises ==
  ASSUME Message!IInv
  PROVE  /\ Message!TypeOK /\ Message!AlwaysReadable /\ Message!CleanOnlyIfAllKnown
         /\ Message!ThreatWhileCurrent /\ Message!ChargedStaysComplete
<1>1. v1 \in Nat /\ v2 \in Message!Messages
  BY MessageAssumed DEF Message!IInv, Message!Times, Message!MessageAssumption
<1>2. Message!TypeOK
  BY DEF Message!IInv, Message!JobInv, Message!TypeOK, Message!Idle
<1>3. v4 # None => /\ Message!Good(v4) /\ Message!Cleared(v4) /\ Later(Message!Projected(v4), v4)
  BY <1>1, MessageProjects DEF Message!IInv, Message!JobInv, Message!Idle
<1>4. Message!AlwaysReadable
  BY <1>3 DEF Message!AlwaysReadable, Message!IInv, Message!JobInv, Message!Idle, Message!Good, Later
<1>5. v5 # None => /\ Message!ThreatWhileCurrent /\ (Message!Reassures(v5.sum) <=> Message!Reassures(v4))
                   /\ Message!Cleared(v4)
  BY DEF Message!IInv, Message!JobInv, Message!Idle
<1>6. Message!CleanOnlyIfAllKnown
  BY <1>5 DEF Message!CleanOnlyIfAllKnown, Message!Cleared, Message!Known, Message!Reassures
<1>7. Message!ThreatWhileCurrent
  BY <1>5 DEF Message!ThreatWhileCurrent
<1>8. Message!ChargedStaysComplete
  BY <1>1, <1>3, MessageClean DEF Message!ChargedStaysComplete, Later
<1> QED BY <1>2, <1>4, <1>6, <1>7, <1>8

\* The answers about links and messages (link_consumer, message_consumer, message_evaluator,
\* shared_message_contract) promise what AnswersHold says: a link is assessed once and told
\* of truly; what the policies make of a message is readable on every later day, reassures
\* only when all is known, and no later answer reassures more.
THEOREM AnswersSound == Spec => AnswersHold
<1> DEFINE Inv == /\ part = "link" => Link!IInv
                  /\ part = "message" => Message!IInv
<1>1. Init => Inv
  <2>1. ASSUME Link!Init PROVE Link!IInv
    <3>1. /\ v1 = 0 /\ v2 \in {"full_url", "origin_only"} /\ v3 = Link!NotStarted
          /\ v4 = [w \in Workers |-> Link!Idle] /\ v5 = None
      BY <2>1 DEF Link!Init
    <3>2. v1 \in Link!Times
      BY <3>1, LinkAssumed DEF Link!Times, Link!LinkAssumption
    <3>3. Link!RowInv
      BY <3>1, LinkAssumed DEF Link!RowInv, Link!NotStarted, Link!LinkAssumption
    <3>4. \A w \in Workers : v4[w] = Link!Idle /\ v4[w].phase \notin Link!Assessing
      BY <3>1 DEF Link!Idle, Link!Assessing
    <3> QED BY <3>1, <3>2, <3>3, <3>4 DEF Link!IInv, Link!ShownInv, Link!JobInv
  <2>2. ASSUME Message!Init PROVE Message!IInv
    BY <2>2, MessageAssumed DEF Message!Init, Message!IInv, Message!JobInv, Message!Idle, Message!Times,
       Message!MessageAssumption
  <2> QED BY <2>1, <2>2 DEF Init
<1>2. Inv /\ [Next]_vars => Inv'
  <2>1. CASE Next
    BY <2>1, LinkStep, MessageStep DEF Next
  <2>2. CASE UNCHANGED vars
    <3>1. Link!IInv => Link!IInv'
      BY <2>2 DEF vars, Link!IInv, Link!RowInv, Link!ShownInv, Link!JobInv, Link!Keepable, Link!Supported
    <3>2. Message!IInv => Message!IInv'
      BY <2>2 DEF vars, Message!IInv, Message!JobInv, Message!Found, Message!Good, Message!Cleared,
         Message!Valid, Message!Dated, Message!Known, Message!ThreatWhileCurrent, Message!Reassures
    <3> QED BY <2>2, <3>1, <3>2 DEF vars
  <2> QED BY <2>1, <2>2
<1>3. Inv /\ [Next]_vars => /\ [part = "link" => Link!SettledOnce]_vars
                            /\ [part = "message" => Message!NeverReassuredLater]_vars
  BY LinkStep, MessageStep DEF Next
<1>4. Inv => /\ part = "link" => Link!TypeOK /\ Link!EveryResultSupported /\ Link!OneAssessment
                                 /\ Link!ToldWhatIsKnown /\ Link!NoDetour
             /\ part = "message" => /\ Message!TypeOK /\ Message!AlwaysReadable
                                    /\ Message!CleanOnlyIfAllKnown /\ Message!ThreatWhileCurrent
                                    /\ Message!ChargedStaysComplete
  BY LinkPromises, MessagePromises
<1> QED BY <1>1, <1>2, <1>3, <1>4, PTL DEF Spec, AnswersHold

-----------------------------------------------------------------------------
(* OperationsReceipt                                                       *)

\* The clock, the producer and the account move on; the check goes on or ends.
LEMMA ReceiptQuiet ==
  ASSUME Receipt!IInv,
         Receipt!Enter \/ Receipt!GiveUp \/ (\E how \in {"succeeded", "failed"} : Receipt!Complete(how))
         \/ Receipt!RequestDeletion \/ Receipt!Fence \/ Receipt!Toggle \/ Receipt!Tick
  PROVE  Receipt!IInv' /\ Receipt!OnlyGrow
<1> USE DEF Receipt!HasLinkage
<1>1. /\ v4' = v4 /\ v6' = v6 /\ v1 \in Nat /\ v1' \in Nat /\ v1 <= v1'
      /\ v3' \in {"active", "requested", "fenced"}
  <2>1. v1 \in Nat /\ v3 \in {"active", "requested", "fenced"}
    BY DEF Receipt!IInv
  <2>2. CASE Receipt!Enter \/ Receipt!GiveUp
    BY <2>1, <2>2 DEF Receipt!Enter, Receipt!GiveUp
  <2>5. CASE \E how \in {"succeeded", "failed"} : Receipt!Complete(how)
    BY <2>1, <2>5 DEF Receipt!Complete
  <2>3. CASE Receipt!RequestDeletion \/ Receipt!Fence \/ Receipt!Toggle
    BY <2>1, <2>3 DEF Receipt!RequestDeletion, Receipt!Fence, Receipt!Toggle
  <2>4. CASE Receipt!Tick
    BY <2>1, <2>4 DEF Receipt!Tick
  <2> QED BY <2>2, <2>3, <2>4, <2>5
<1>2. /\ (v5' \in Receipt!CheckForms /\ v5'.stage # "prepared") \/ v5' = v5
      /\ v5.stage \in {"finishing", "over"} => v5'.stage \in {"finishing", "over"} /\ v5'.measured = v5.measured
      /\ v5'.stage = "starting" => v5.stage = "starting"
      /\ v5'.ticket \in {"NEW", "ENTERED", "MEASURED"} => v5.ticket \in {"NEW", "ENTERED", "MEASURED"}
  BY DEF Receipt!IInv, Receipt!CheckInv, Receipt!CheckForms, Receipt!Measures, Receipt!Enter, Receipt!GiveUp,
     Receipt!Complete, Receipt!RequestDeletion, Receipt!Fence, Receipt!Toggle, Receipt!Tick
<1>3. Receipt!RowInv' /\ Receipt!CheckInv' /\ Receipt!TicketIsBacked'
  BY <1>1, <1>2 DEF Receipt!IInv, Receipt!RowInv, Receipt!CheckInv, Receipt!TicketIsBacked, Receipt!Facts
<1>4. ASSUME NEW f \in v4.facts, v4 # None PROVE Receipt!Agrees(f)'
  <2>1. Receipt!Agrees(f) /\ f.at \in Nat
    BY <1>4 DEF Receipt!IInv, Receipt!FactsInv, Receipt!RowInv, Receipt!RowForms, Receipt!FactForms
  <2> QED BY <1>1, <1>2, <2>1 DEF Receipt!Agrees, Receipt!Events
<1>5. Receipt!FactsInv'
  BY <1>1, <1>4 DEF Receipt!IInv, Receipt!FactsInv
<1>6. ASSUME NEW c \in Receipt!Callers PROVE Receipt!CaptureInv(c)'
  BY <1>1, <1>2 DEF Receipt!IInv, Receipt!CaptureInv
<1> QED BY <1>1, <1>3, <1>5, <1>6 DEF Receipt!IInv, Receipt!OnlyGrow

\* The admission writes the row once, with a linkage that outlives its lease.
LEMMA ReceiptAdmits ==
  ASSUME Receipt!IInv, Receipt!Admit
  PROVE  Receipt!IInv' /\ Receipt!OnlyGrow
<1> USE ReceiptAssumed DEF Receipt!HasLinkage, Receipt!ReceiptAssumption
<1>1. /\ v4 = None /\ v1' = v1 /\ v3' = v3 /\ v6' = v6 /\ v1 \in Nat
      /\ v5 \in Receipt!CheckForms /\ v5.stage = "prepared" /\ v5.ticket = "none"
      /\ v5' = [v5 EXCEPT !.stage = "admitted"]
  BY DEF Receipt!IInv, Receipt!CheckInv, Receipt!Admit
<1>2. /\ v4'.state = "ADMITTED" /\ v4'.settleBy = v1 + SettleLease /\ v4'.facts = {} /\ v4'.queue = "pending"
      /\ v4'.linkage # None => v4'.settleBy <= v4'.linkage
      /\ v4' \in Receipt!RowForms
  BY <1>1 DEF Receipt!Admit, Receipt!RowForms, Receipt!Outcomes
<1>3. Receipt!RowInv' /\ Receipt!FactsInv'
  BY <1>2 DEF Receipt!RowInv, Receipt!FactsInv
<1>4. v5' \in Receipt!CheckForms /\ v5'.stage = "admitted" /\ v5'.ticket = "none"
  BY <1>1 DEF Receipt!CheckForms
<1>5. ASSUME NEW c \in Receipt!Callers PROVE Receipt!CaptureInv(c)'
  BY <1>1, <1>4 DEF Receipt!IInv, Receipt!CaptureInv
<1> QED BY <1>1, <1>3, <1>4, <1>5 DEF Receipt!IInv, Receipt!OnlyGrow, Receipt!CheckInv, Receipt!TicketIsBacked

\* The facts of a row that settles still agree with it: what was there came before.
LEMMA ReceiptEnds ==
  ASSUME Receipt!IInv,
         Receipt!Recover \/ Receipt!RecoverExpired
         \/ \E o \in {"complete", "failed", "unavailable"} : \E r \in Receipt!Reasons(o) : Receipt!Settle(o, r)
  PROVE  Receipt!IInv' /\ Receipt!OnlyGrow
<1> USE DEF Receipt!HasLinkage
<1>1. /\ v4 # None /\ v4 \in Receipt!RowForms /\ v4.state = "ADMITTED" /\ v1 \in Nat
      /\ v1' = v1 /\ v3' = v3 /\ v6' = v6
  BY DEF Receipt!IInv, Receipt!RowInv, Receipt!Recover, Receipt!RecoverExpired, Receipt!Settle
<1>2. /\ v5' \in Receipt!CheckForms /\ v5'.stage # "prepared"
      /\ v5.stage \in {"finishing", "over"} => v5' = v5
      /\ v5'.stage = "starting" => v5.stage = "starting"
      /\ v5'.ticket = v5.ticket
  BY <1>1 DEF Receipt!IInv, Receipt!CheckInv, Receipt!CheckForms, Receipt!Recover, Receipt!RecoverExpired,
     Receipt!Settle
<1>3. /\ v4' \in Receipt!RowForms /\ v4'.state = "SETTLED" /\ v4'.assessed = v1
      /\ v4'.linkage = v4.linkage /\ v4'.facts = v4.facts /\ v4'.settleBy = v4.settleBy
      /\ v4'.accepted = v4.accepted /\ (v4'.linkage # None => v4'.queue = "due")
  <2>1. CASE Receipt!Recover
    BY <1>1, <2>1 DEF Receipt!Recover, Receipt!RowForms, Receipt!Outcomes
  <2>2. CASE Receipt!RecoverExpired
    BY <1>1, <2>2 DEF Receipt!RecoverExpired, Receipt!Settled, Receipt!RowForms, Receipt!Outcomes
  <2>3. ASSUME NEW o \in {"complete", "failed", "unavailable"}, NEW r \in Receipt!Reasons(o), Receipt!Settle(o, r)
        PROVE <1>3!:
    BY <1>1, <2>3 DEF Receipt!Settle, Receipt!Settled, Receipt!Reasons, Receipt!RowForms, Receipt!Outcomes
  <2> QED BY <2>1, <2>2, <2>3
<1>4. Receipt!RowInv'
  BY <1>1, <1>3 DEF Receipt!IInv, Receipt!RowInv
<1>5. ASSUME NEW f \in v4.facts PROVE Receipt!Agrees(f)'
  <2>1. Receipt!Agrees(f) /\ f.at \in Nat
    BY <1>1, <1>5 DEF Receipt!IInv, Receipt!FactsInv, Receipt!RowForms, Receipt!FactForms
  <2>2. f.type = "terminal" => FALSE
    BY <1>1, <2>1 DEF Receipt!Agrees, Receipt!Events, Receipt!Fact
  <2>3. f.type = "accepted" => f \in Receipt!Events(v4')
    BY <1>1, <1>3, <2>1 DEF Receipt!Agrees, Receipt!Events, Receipt!Fact
  <2> QED BY <1>1, <1>2, <1>3, <2>1, <2>2, <2>3 DEF Receipt!Agrees
<1>6. Receipt!FactsInv' /\ Receipt!TicketIsBacked' /\ Receipt!CheckInv'
  BY <1>1, <1>2, <1>3, <1>5 DEF Receipt!IInv, Receipt!FactsInv, Receipt!TicketIsBacked, Receipt!CheckInv,
     Receipt!Facts
<1>7. ASSUME NEW c \in Receipt!Callers PROVE Receipt!CaptureInv(c)'
  BY <1>1, <1>2 DEF Receipt!IInv, Receipt!CaptureInv
<1> QED BY <1>1, <1>3, <1>4, <1>6, <1>7 DEF Receipt!IInv, Receipt!OnlyGrow

\* A capture begins with what it reads: the receipt as it is, at this time.
LEMMA ReceiptReads ==
  ASSUME Receipt!IInv, Receipt!BeginStart \/ Receipt!BeginFinish \/ Receipt!BeginClient
  PROVE  Receipt!IInv' /\ Receipt!OnlyGrow
<1> USE DEF Receipt!HasLinkage
<1>1. /\ v4 # None /\ v4 \in Receipt!RowForms /\ v4.linkage # None /\ v1 \in Nat
      /\ v1' = v1 /\ v3' = v3 /\ v4' = v4 /\ DOMAIN v6 = Receipt!Callers /\ v5 \in Receipt!CheckForms
  BY DEF Receipt!IInv, Receipt!RowInv, Receipt!CheckInv, Receipt!Readable, Receipt!BeginStart,
     Receipt!BeginFinish, Receipt!BeginClient
<1>2. /\ (v5' \in Receipt!CheckForms /\ v5'.stage # "prepared") \/ v5' = v5
      /\ v5.stage \in {"finishing", "over"} => v5'.stage \in {"finishing", "over"}
      /\ v5'.measured = v5.measured
      /\ v5'.ticket \in {"NEW", "ENTERED", "MEASURED"} => v5.ticket = v5'.ticket
      /\ v5.stage = "finishing" => v5'.stage = "finishing"
  BY <1>1 DEF Receipt!CheckForms, Receipt!BeginStart, Receipt!BeginFinish, Receipt!BeginClient
<1>3. ASSUME NEW f \in v4.facts PROVE Receipt!Agrees(f)'
  BY <1>1, <1>2, <1>3 DEF Receipt!IInv, Receipt!FactsInv, Receipt!Agrees, Receipt!Events
<1>4. Receipt!RowInv' /\ Receipt!FactsInv' /\ Receipt!TicketIsBacked' /\ Receipt!CheckInv'
  BY <1>1, <1>2, <1>3 DEF Receipt!IInv, Receipt!RowInv, Receipt!FactsInv, Receipt!TicketIsBacked,
     Receipt!CheckInv, Receipt!Facts
<1>5. ASSUME NEW c \in Receipt!Callers PROVE Receipt!CaptureInv(c)'
  <2>1. \A f \in v4.facts : f.type = "started" => f.at <= v1
    BY <1>1 DEF Receipt!IInv, Receipt!FactsInv, Receipt!Agrees
  <2>2. Receipt!CaptureInv(c)
    BY DEF Receipt!IInv
  <2>3. CASE Receipt!BeginStart
    <3>1. v6' = [v6 EXCEPT !["check"] = [attempt |-> "start", row |-> v4, at |-> v1]]
          /\ v4.state = "ADMITTED" /\ v5.stage = "admitted" /\ v5'.stage = "starting"
      BY <1>1, <2>3 DEF Receipt!BeginStart, Receipt!Read, Receipt!CheckForms
    <3>2. CASE c = "check"
      BY <1>1, <3>1, <3>2 DEF Receipt!CaptureInv, Receipt!Callers
    <3>3. CASE c = "client"
      BY <1>1, <2>2, <3>1, <3>3 DEF Receipt!CaptureInv, Receipt!Callers
    <3> QED BY <3>2, <3>3 DEF Receipt!Callers
  <2>4. CASE Receipt!BeginFinish
    <3>1. /\ v5.stage = "settled" /\ v5'.stage = "finishing"
          /\ \/ v6' = [v6 EXCEPT !["check"] = [attempt |-> "finish", row |-> v4, at |-> v1]]
             \/ v6' = [v6 EXCEPT !["check"] = [attempt |-> "none", row |-> v4, at |-> v1]]
      BY <1>1, <2>4 DEF Receipt!BeginFinish, Receipt!Read, Receipt!CheckForms
    <3>2. CASE c = "check"
      BY <1>1, <2>1, <3>1, <3>2 DEF Receipt!CaptureInv, Receipt!Callers
    <3>3. CASE c = "client"
      BY <1>1, <2>2, <3>1, <3>3 DEF Receipt!CaptureInv, Receipt!Callers
    <3> QED BY <3>2, <3>3 DEF Receipt!Callers
  <2>5. CASE Receipt!BeginClient
    <3>1. v6' = [v6 EXCEPT !["client"] = [attempt |-> "none", row |-> v4, at |-> v1]] /\ v5' = v5
      BY <1>1, <2>5 DEF Receipt!BeginClient, Receipt!Read
    <3>2. CASE c = "check"
      BY <1>1, <2>2, <3>1, <3>2 DEF Receipt!CaptureInv, Receipt!Callers
    <3>3. CASE c = "client"
      BY <1>1, <3>1, <3>3 DEF Receipt!CaptureInv, Receipt!Callers
    <3> QED BY <3>2, <3>3 DEF Receipt!Callers
  <2> QED BY <2>3, <2>4, <2>5
<1>6. DOMAIN v6' = Receipt!Callers
  BY <1>1 DEF Receipt!BeginStart, Receipt!BeginFinish, Receipt!BeginClient, Receipt!Read
<1> QED BY <1>1, <1>4, <1>5, <1>6 DEF Receipt!IInv, Receipt!OnlyGrow

\* The linkage or the row ends.
LEMMA ReceiptGoes ==
  ASSUME Receipt!IInv, Receipt!Retire \/ Receipt!ExpireReceipt \/ Receipt!Erase
  PROVE  Receipt!IInv' /\ Receipt!OnlyGrow
<1> USE DEF Receipt!HasLinkage
<1>1. /\ v4 # None /\ v4 \in Receipt!RowForms /\ v1' = v1 /\ v3' = v3 /\ v5' = v5 /\ v6' = v6
  BY DEF Receipt!IInv, Receipt!RowInv, Receipt!Retire, Receipt!ExpireReceipt, Receipt!Erase
<1>2. v4' = None \/ (v4' \in Receipt!RowForms /\ v4'.linkage = None /\ v4'.facts = {})
  BY <1>1 DEF Receipt!Retire, Receipt!ExpireReceipt, Receipt!Erase, Receipt!RowForms
<1>3. Receipt!RowInv' /\ Receipt!FactsInv' /\ Receipt!TicketIsBacked' /\ Receipt!CheckInv'
  BY <1>1, <1>2 DEF Receipt!IInv, Receipt!RowInv, Receipt!FactsInv, Receipt!TicketIsBacked, Receipt!CheckInv
<1>4. ASSUME NEW c \in Receipt!Callers PROVE Receipt!CaptureInv(c)'
  BY <1>1 DEF Receipt!IInv, Receipt!CaptureInv
<1>5. Receipt!OnlyGrow
  BY <1>1, <1>2 DEF Receipt!OnlyGrow, Receipt!Erase
<1> QED BY <1>1, <1>3, <1>4, <1>5 DEF Receipt!IInv

\* What a capture writes: what the receipt says now, and the attempts with its own.
LEMMA ReceiptFacts ==
  ASSUME Receipt!IInv, NEW c \in Receipt!Callers, v6[c] # None, v4 = v6[c].row
  PROVE  /\ Receipt!Projection(v6[c]) \in SUBSET Receipt!FactForms
         /\ v4.facts \subseteq Receipt!Projection(v6[c])
         /\ \A f \in Receipt!Projection(v6[c]) :
              /\ f.type \in {"accepted", "terminal"} => f \in Receipt!Events(v4)
              /\ f.type = "started" => f.at <= v1 /\ (v4.state = "SETTLED" => f.at <= v4.assessed)
              /\ f.type = "finished" =>
                   /\ v5.stage \in {"finishing", "over"} /\ f.value = v5.measured
                   /\ \E g \in Receipt!Projection(v6[c]) : g.type = "started" /\ g.at <= f.at
         /\ \A f, g \in Receipt!Projection(v6[c]) : f.type = g.type => f = g
         /\ v6[c].attempt = "start" => \E f \in Receipt!Projection(v6[c]) : f.type = "started"
<1> PICK k : k = v6[c]
  OBVIOUS
<1> PICK p : p = Receipt!Projection(k)
  OBVIOUS
<1> PICK old : old = Receipt!Attempts(v4.facts)
  OBVIOUS
<1>1. /\ v4 # None /\ v4 \in Receipt!RowForms /\ v1 \in Nat
      /\ k.at \in Nat /\ k.at <= v1 /\ k.row = v4 /\ k.attempt \in {"none", "start", "finish"}
      /\ k.attempt = "start" => v4.state = "ADMITTED"
      /\ k.attempt = "finish" => /\ v5.stage \in {"finishing", "over"}
                                 /\ \A f \in v4.facts : f.type = "started" => f.at <= k.at
      /\ v5.measured \in Receipt!Measures
  BY DEF Receipt!IInv, Receipt!RowInv, Receipt!CaptureInv, Receipt!HasLinkage, Receipt!CheckInv, Receipt!CheckForms
<1>2. /\ \A f \in v4.facts : Receipt!Agrees(f) /\ f \in Receipt!FactForms
      /\ \A f, g \in v4.facts : f.type = g.type => f = g
      /\ old = {f \in v4.facts : f.type \in {"started", "finished"}}
  BY <1>1 DEF Receipt!IInv, Receipt!FactsInv, Receipt!RowForms, Receipt!Attempts
<1>3. /\ \A f \in Receipt!Events(v4) : f \in Receipt!FactForms /\ f.type \in {"accepted", "terminal"}
      /\ \A f, g \in Receipt!Events(v4) : f.type = g.type => f = g
  BY <1>1 DEF Receipt!Events, Receipt!Fact, Receipt!FactForms, Receipt!RowForms, Receipt!Outcomes
<1>4. PICK new : /\ p = Receipt!Events(v4) \cup new
                 /\ \/ new = old
                    \/ /\ k.attempt = "start" /\ old = {} /\ new = {Receipt!Fact("started", k.at, "none")}
                    \/ /\ k.attempt = "finish" /\ old # {} /\ \A f \in old : f.type # "finished"
                       /\ new = old \cup {Receipt!Fact("finished", k.at, v5.measured)}
                 /\ k.attempt = "start" => new # {}
  BY <1>1 DEF Receipt!Projection, Receipt!AttemptFacts
<1>5. /\ \A f \in new : f \in Receipt!FactForms /\ f.type \in {"started", "finished"}
      /\ \A f, g \in new : f.type = g.type => f = g
      /\ old \subseteq new
  <2>1. /\ \A f \in old : f \in Receipt!FactForms /\ f.type \in {"started", "finished"}
        /\ \A f, g \in old : f.type = g.type => f = g
    BY <1>2
  <2>2. \A t \in {"started", "finished"}, v \in Receipt!Measures :
          /\ Receipt!Fact(t, k.at, v) \in Receipt!FactForms
          /\ Receipt!Fact(t, k.at, v).type = t
    BY <1>1 DEF Receipt!Fact, Receipt!FactForms
  <2>3. "none" \in Receipt!Measures
    BY DEF Receipt!Measures
  <2> QED BY <1>1, <1>4, <2>1, <2>2, <2>3
<1>6. v4.facts \subseteq p
  <2> SUFFICES ASSUME NEW f \in v4.facts PROVE f \in p
    OBVIOUS
  <2>1. CASE f.type \in {"accepted", "terminal"}
    BY <2>1, <1>2, <1>4 DEF Receipt!Agrees
  <2>2. CASE f.type \in {"started", "finished"}
    BY <2>2, <1>2, <1>4, <1>5
  <2> QED BY <2>1, <2>2, <1>2 DEF Receipt!FactForms
<1>7. \A f, g \in p : f.type = g.type => f = g
  BY <1>3, <1>4, <1>5
<1>8. ASSUME NEW f \in new, f.type = "started"
      PROVE  f.at <= v1 /\ (v4.state = "SETTLED" => f.at <= v4.assessed)
  <2>1. CASE f \in old
    BY <2>1, <1>2, <1>8 DEF Receipt!Agrees
  <2>2. CASE f \notin old
    BY <2>2, <1>1, <1>4, <1>8 DEF Receipt!Fact
  <2> QED BY <2>1, <2>2
<1>9. ASSUME NEW f \in new, f.type = "finished"
      PROVE  /\ v5.stage \in {"finishing", "over"} /\ f.value = v5.measured
             /\ \E g \in new : g.type = "started" /\ g.at <= f.at
  <2>1. CASE f \in old
    BY <2>1, <1>2, <1>5, <1>9 DEF Receipt!Agrees
  <2>2. CASE f \notin old
    <3>1. /\ k.attempt = "finish" /\ old # {} /\ \A g \in old : g.type # "finished"
          /\ f = Receipt!Fact("finished", k.at, v5.measured)
      BY <2>2, <1>4, <1>9 DEF Receipt!Fact
    <3>2. PICK g \in old : g.type = "started"
      BY <3>1, <1>2
    <3> QED BY <3>1, <3>2, <1>1, <1>2, <1>5 DEF Receipt!Fact
  <2> QED BY <2>1, <2>2
<1>10. k.attempt = "start" => \E f \in new : f.type = "started"
  <2> SUFFICES ASSUME k.attempt = "start" PROVE \E f \in new : f.type = "started"
    OBVIOUS
  <2>1. CASE new = old
    <3>1. PICK f \in old : TRUE
      BY <2>1, <1>4
    <3>2. CASE f.type = "finished"
      BY <3>2, <1>2, <1>9, <2>1
    <3> QED BY <3>1, <3>2, <2>1, <1>2
  <2>2. CASE new # old
    BY <2>2, <1>4 DEF Receipt!Fact
  <2> QED BY <2>1, <2>2
<1>11. \A f \in p :
         /\ f.type \in {"accepted", "terminal"} => f \in Receipt!Events(v4)
         /\ f.type = "started" => f.at <= v1 /\ (v4.state = "SETTLED" => f.at <= v4.assessed)
         /\ f.type = "finished" =>
              /\ v5.stage \in {"finishing", "over"} /\ f.value = v5.measured
              /\ \E g \in p : g.type = "started" /\ g.at <= f.at
  BY <1>3, <1>4, <1>5, <1>8, <1>9
<1>12. p \in SUBSET Receipt!FactForms
  BY <1>3, <1>4, <1>5
<1> QED BY <1>4, <1>6, <1>7, <1>10, <1>11, <1>12

\* How the invocation goes on: only a start that was acknowledged makes a ticket.
LEMMA ReceiptTold ==
  ASSUME Receipt!IInv, NEW c \in Receipt!Callers, v6[c] # None, NEW ack \in BOOLEAN,
         v5' = Receipt!Told(c, ack)
  PROVE  /\ v5' \in Receipt!CheckForms /\ v5'.measured = v5.measured
         /\ v5'.stage = "prepared" => v5' = v5
         /\ v5.stage \in {"finishing", "over"} => v5'.stage \in {"finishing", "over"}
         /\ v5'.stage = "starting" => v5' = v5 /\ c # "check"
         /\ v5'.ticket \in {"NEW", "ENTERED", "MEASURED"} =>
              v5.ticket = v5'.ticket \/ (v6[c].attempt = "start" /\ ack)
<1>1. v5 \in Receipt!CheckForms /\ (c = "check" /\ v5.stage = "starting" => v6[c].attempt = "start")
  BY DEF Receipt!IInv, Receipt!CheckInv, Receipt!CaptureInv
<1>2. CASE c # "check"
  BY <1>1, <1>2 DEF Receipt!Told
<1>3. CASE c = "check" /\ v5.stage = "starting"
  <2>1. v5' = [v5 EXCEPT !.stage = "recorded", !.ticket = IF ack THEN "NEW" ELSE "none"]
    BY <1>3 DEF Receipt!Told
  <2>2. CASE ack
    BY <1>1, <1>3, <2>1, <2>2 DEF Receipt!CheckForms
  <2>3. CASE ~ack
    BY <1>1, <1>3, <2>1, <2>3 DEF Receipt!CheckForms
  <2> QED BY <2>2, <2>3
<1>4. CASE c = "check" /\ v5.stage # "starting"
  <2>1. v5' = [v5 EXCEPT !.stage = "over"]
    BY <1>4 DEF Receipt!Told
  <2> QED BY <1>1, <1>4, <2>1 DEF Receipt!CheckForms
<1> QED BY <1>2, <1>3, <1>4

\* A capture that lands, or is given up.
LEMMA ReceiptLands ==
  ASSUME Receipt!IInv, NEW c \in Receipt!Callers,
         Receipt!Skip(c) \/ \E ack \in BOOLEAN : Receipt!Write(c, ack)
  PROVE  Receipt!IInv' /\ Receipt!OnlyGrow
<1> USE DEF Receipt!HasLinkage
<1>1. /\ v6[c] # None /\ v1' = v1 /\ v3' = v3 /\ v1 \in Nat
      /\ DOMAIN v6 = Receipt!Callers /\ v6' = [v6 EXCEPT ![c] = None]
  BY DEF Receipt!IInv, Receipt!Skip, Receipt!Write
<1>2. PICK ack \in BOOLEAN :
        /\ v5' = Receipt!Told(c, ack)
        /\ (v4' = v4 /\ ack = FALSE) \/ Receipt!Write(c, ack)
  BY DEF Receipt!Skip, Receipt!Write
<1>3. /\ v5' \in Receipt!CheckForms /\ v5'.measured = v5.measured
      /\ v5'.stage = "prepared" => v5' = v5
      /\ v5.stage \in {"finishing", "over"} => v5'.stage \in {"finishing", "over"}
      /\ v5'.stage = "starting" => v5' = v5 /\ c # "check"
      /\ v5'.ticket \in {"NEW", "ENTERED", "MEASURED"} =>
           v5.ticket = v5'.ticket \/ (v6[c].attempt = "start" /\ ack)
  BY <1>1, <1>2, ReceiptTold
<1>4. ASSUME NEW d \in Receipt!Callers PROVE Receipt!CaptureInv(d)'
  BY <1>1, <1>3 DEF Receipt!IInv, Receipt!CaptureInv
<1>5. CASE v4' = v4 /\ ack = FALSE
  <2>1. \A f : Receipt!Agrees(f) => Receipt!Agrees(f)'
    BY <1>1, <1>3, <1>5 DEF Receipt!Agrees, Receipt!Events
  <2>2. Receipt!RowInv' /\ Receipt!FactsInv' /\ Receipt!TicketIsBacked' /\ Receipt!CheckInv'
    BY <1>1, <1>3, <1>5, <2>1 DEF Receipt!IInv, Receipt!RowInv, Receipt!FactsInv, Receipt!TicketIsBacked,
       Receipt!CheckInv, Receipt!Facts
  <2> QED BY <1>1, <1>4, <1>5, <2>2 DEF Receipt!IInv, Receipt!OnlyGrow
<1>6. CASE Receipt!Write(c, ack)
  <2>1. /\ v4 = v6[c].row /\ v4 # None /\ v4 \in Receipt!RowForms /\ v4.linkage # None /\ v3 = "active"
        /\ v1 < v4.linkage
        /\ v4.settleBy <= v4.linkage
        /\ v4' = [v4 EXCEPT !.facts = Receipt!Projection(v6[c]),
                            !.queue = IF v4.state = "SETTLED" THEN "due" ELSE "pending"]
    BY <1>1, <1>6 DEF Receipt!Write, Receipt!CanWrite, Receipt!Same, Receipt!IInv, Receipt!CaptureInv, Receipt!RowInv
  <2>p. PICK p : p = Receipt!Projection(v6[c])
    OBVIOUS
  <2>2. /\ p \in SUBSET Receipt!FactForms /\ v4.facts \subseteq p
        /\ \A f \in p :
             /\ f.type \in {"accepted", "terminal"} => f \in Receipt!Events(v4)
             /\ f.type = "started" => f.at <= v1 /\ (v4.state = "SETTLED" => f.at <= v4.assessed)
             /\ f.type = "finished" =>
                  /\ v5.stage \in {"finishing", "over"} /\ f.value = v5.measured
                  /\ \E g \in p : g.type = "started" /\ g.at <= f.at
        /\ \A f, g \in p : f.type = g.type => f = g
        /\ v6[c].attempt = "start" => \E f \in p : f.type = "started"
    BY <1>1, <2>1, <2>p, ReceiptFacts
  <2>3. /\ v4' \in Receipt!RowForms /\ v4'.facts = p
        /\ v4'.state = v4.state /\ v4'.linkage = v4.linkage /\ v4'.settleBy = v4.settleBy
        /\ v4'.accepted = v4.accepted /\ v4'.assessed = v4.assessed /\ v4'.outcome = v4.outcome
        /\ v4'.reason = v4.reason
        /\ v4'.queue = IF v4.state = "ADMITTED" THEN "pending" ELSE "due"
    BY <2>1, <2>2, <2>p DEF Receipt!RowForms
  <2>4. Receipt!Events(v4') = Receipt!Events(v4)
    BY <2>3 DEF Receipt!Events
  <2>5. ASSUME NEW f \in p PROVE Receipt!Agrees(f)'
    BY <1>1, <1>3, <2>2, <2>3, <2>4 DEF Receipt!Agrees
  <2>6. Receipt!RowInv' /\ Receipt!FactsInv'
    BY <2>1, <2>2, <2>3, <2>5 DEF Receipt!RowInv, Receipt!FactsInv
  <2>7. Receipt!TicketIsBacked'
    BY <1>3, <2>1, <2>2, <2>3 DEF Receipt!IInv, Receipt!TicketIsBacked, Receipt!Facts
  <2>8. Receipt!CheckInv'
    BY <1>3, <2>1 DEF Receipt!IInv, Receipt!CheckInv
  <2>9. Receipt!OnlyGrow
    BY <1>1, <2>1, <2>2, <2>3 DEF Receipt!OnlyGrow
  <2> QED BY <1>1, <1>4, <2>6, <2>7, <2>8, <2>9 DEF Receipt!IInv
<1> QED BY <1>2, <1>5, <1>6

\* Every step of the receipt keeps its invariant and what it promises.
LEMMA ReceiptStep ==
  ASSUME Receipt!IInv, Receipt!Next
  PROVE  Receipt!IInv' /\ Receipt!OnlyGrow
BY ReceiptQuiet, ReceiptAdmits, ReceiptEnds, ReceiptReads, ReceiptGoes, ReceiptLands DEF Receipt!Next

\* What the invariant says to a reader of the facts.
LEMMA ReceiptPromises ==
  ASSUME Receipt!IInv
  PROVE  Receipt!TypeOK /\ Receipt!FactsTrue /\ Receipt!TicketIsBacked /\ Receipt!FoundInTime
<1>1. Receipt!TypeOK /\ Receipt!TicketIsBacked
  BY DEF Receipt!IInv, Receipt!TypeOK, Receipt!RowInv, Receipt!RowForms, Receipt!CheckInv, Receipt!CheckForms
<1>2. Receipt!FactsTrue
  <2> SUFFICES ASSUME v4 # None PROVE Receipt!FactsTrue
    BY DEF Receipt!FactsTrue, Receipt!HasLinkage
  <2>1. /\ v4 \in Receipt!RowForms
        /\ \A f \in v4.facts : Receipt!Agrees(f) /\ f.at \in Nat
        /\ \A f, g \in v4.facts : f.type = g.type => f = g
    BY DEF Receipt!IInv, Receipt!RowInv, Receipt!FactsInv, Receipt!RowForms, Receipt!FactForms
  <2>2. \A f \in v4.facts :
          /\ f.type = "accepted" => f.at = v4.accepted
          /\ f.type = "terminal" =>
               v4.state = "SETTLED" /\ f.at = v4.assessed /\ f.value = v4.outcome /\ v4.reason # "none"
    BY <2>1 DEF Receipt!Agrees, Receipt!Events, Receipt!Fact
  <2>3. \A f, g \in v4.facts : f.type = "started" /\ g.type = "terminal" => f.at <= g.at
    BY <2>1, <2>2 DEF Receipt!Agrees
  <2>4. \A f \in v4.facts : f.type = "finished" =>
          f.value = v5.measured /\ \E g \in v4.facts : g.type = "started" /\ g.at <= f.at
    BY <2>1 DEF Receipt!Agrees
  <2> QED BY <2>1, <2>2, <2>3, <2>4 DEF Receipt!FactsTrue, Receipt!Facts
<1>3. Receipt!FoundInTime
  BY DEF Receipt!IInv, Receipt!RowInv, Receipt!RowForms, Receipt!FoundInTime, Receipt!Found, Receipt!HasLinkage
<1> QED BY <1>1, <1>2, <1>3

-----------------------------------------------------------------------------
(* OperationsReport                                                        *)

\* The operators of FiniteSets, seen through the instance.
LEMMA ReportCardinality == \A S : Reports!Cardinality(S) = Cardinality(S) /\ (Reports!IsFiniteSet(S) <=> IsFiniteSet(S))
BY DEF Reports!Cardinality, Reports!IsFiniteSet, Cardinality, IsFiniteSet

\* A finite set in two parts.
LEMMA CountsSplit ==
  ASSUME NEW S, IsFiniteSet(S), NEW A, NEW B, S = A \cup B, A \cap B = {}
  PROVE  /\ Reports!Cardinality(A) \in Nat /\ Reports!Cardinality(B) \in Nat
         /\ Reports!Cardinality(S) = Reports!Cardinality(A) + Reports!Cardinality(B)
<1>1. IsFiniteSet(A) /\ IsFiniteSet(B)
  <2>1. A \subseteq S /\ B \subseteq S
    OBVIOUS
  <2> QED BY <2>1, FS_Subset
<1>2. Cardinality(A) \in Nat /\ Cardinality(B) \in Nat
  BY <1>1, FS_CardinalityType
<1>3. Cardinality(A \cup B) = Cardinality(A) + Cardinality(B) - Cardinality(A \cap B)
  BY <1>1, FS_Union
<1>4. Cardinality(A \cap B) = 0
  BY FS_EmptySet
<1>5. Cardinality(S) = Cardinality(A) + Cardinality(B)
  BY <1>2, <1>3, <1>4
<1> QED BY <1>2, <1>5, ReportCardinality

\* The count of a subset of the checks.
LEMMA CountsSubset ==
  ASSUME NEW T, T \subseteq Reports!Checks
  PROVE  /\ IsFiniteSet(T) /\ Reports!Cardinality(T) \in Nat
         /\ \A S : S \subseteq T => Reports!Cardinality(S) \in Nat /\ Reports!Cardinality(S) <= Reports!Cardinality(T)
<1>1. IsFiniteSet(Reports!Checks)
  BY ReportsAssumed, ReportCardinality DEF Reports!ReportAssumption
<1>2. IsFiniteSet(T)
  BY <1>1, FS_Subset
<1>3. Cardinality(T) \in Nat /\ \A S : S \subseteq T => Cardinality(S) \in Nat /\ Cardinality(S) <= Cardinality(T)
  BY <1>2, FS_Subset, FS_CardinalityType
<1> QED BY <1>2, <1>3, ReportCardinality

\* A report is of these sets of checks: accepted, complete, failed, attempts, succeeded,
\* failed attempts, charged and not charged.
CountsOf(p, acc, com, fai, att, suc, fld, cha, non) ==
  /\ p.accepted = Reports!Cardinality(acc)
  /\ p.settled["complete"] = Reports!Cardinality(com)
  /\ p.settled["failed"] = Reports!Cardinality(fai)
  /\ p.internal.started = Reports!Cardinality(att)
  /\ p.internal.succeeded = Reports!Cardinality(suc)
  /\ p.internal.failed = Reports!Cardinality(fld)
  /\ \A k \in Reports!Classes :
       /\ p.access[k].accepted = Reports!Cardinality(Reports!Of(acc, k))
       /\ p.access[k].complete = Reports!Cardinality(Reports!Of(com, k))
       /\ p.access[k].deducted = Reports!Cardinality(Reports!Of(cha, k))
       /\ p.access[k].noDeduction = Reports!Cardinality(Reports!Of(non, k))

\* One report counts no more than another.
AtMost(p, q) ==
  /\ p.accepted <= q.accepted
  /\ p.settled["complete"] <= q.settled["complete"]
  /\ p.settled["failed"] <= q.settled["failed"]
  /\ p.internal.started <= q.internal.started
  /\ p.internal.succeeded <= q.internal.succeeded
  /\ p.internal.failed <= q.internal.failed
  /\ \A k \in Reports!Classes :
       /\ p.access[k].accepted <= q.access[k].accepted
       /\ p.access[k].complete <= q.access[k].complete
       /\ p.access[k].deducted <= q.access[k].deducted
       /\ p.access[k].noDeduction <= q.access[k].noDeduction

\* The order of the tuples of counts.
LEMMA FactsOrder ==
  ASSUME NEW p, NEW q
  PROVE  (\A n \in 1 .. 14 : Reports!Facts(p)[n] <= Reports!Facts(q)[n]) <=> AtMost(p, q)
<1>1. ASSUME \A n \in 1 .. 14 : Reports!Facts(p)[n] <= Reports!Facts(q)[n]
      PROVE  AtMost(p, q)
  <2>1. \A n \in {1, 2, 3, 4, 5, 6, 7, 8, 9, 10, 11, 12, 13, 14} : Reports!Facts(p)[n] <= Reports!Facts(q)[n]
    BY <1>1
  <2> QED BY <2>1 DEF Reports!Facts, AtMost, Reports!Classes
<1>2. ASSUME AtMost(p, q), NEW n \in 1 .. 14
      PROVE  Reports!Facts(p)[n] <= Reports!Facts(q)[n]
  <2>1. n \in {1, 2, 3, 4, 5, 6} \/ n \in {7, 8, 9, 10} \/ n \in {11, 12, 13, 14}
    OBVIOUS
  <2>2. CASE n \in {1, 2, 3, 4, 5, 6}
    BY <1>2, <2>2 DEF Reports!Facts, AtMost
  <2>3. CASE n \in {7, 8, 9, 10}
    BY <1>2, <2>3 DEF Reports!Facts, AtMost, Reports!Classes
  <2>4. CASE n \in {11, 12, 13, 14}
    BY <1>2, <2>4 DEF Reports!Facts, AtMost, Reports!Classes
  <2> QED BY <2>1, <2>2, <2>3, <2>4
<1> QED BY <1>1, <1>2

\* A report of larger sets counts at least as much.
LEMMA CountsOrder ==
  ASSUME NEW p, NEW acc, NEW com, NEW fai, NEW att, NEW suc, NEW fld, NEW cha, NEW non,
         CountsOf(p, acc, com, fai, att, suc, fld, cha, non),
         NEW q, NEW acc2, NEW com2, NEW fai2, NEW att2, NEW suc2, NEW fld2, NEW cha2, NEW non2,
         CountsOf(q, acc2, com2, fai2, att2, suc2, fld2, cha2, non2),
         acc \subseteq acc2, com \subseteq com2, fai \subseteq fai2, att \subseteq att2,
         suc \subseteq suc2, fld \subseteq fld2, cha \subseteq cha2, non \subseteq non2,
         acc2 \subseteq Reports!Checks, com2 \subseteq Reports!Checks, fai2 \subseteq Reports!Checks,
         att2 \subseteq Reports!Checks, suc2 \subseteq Reports!Checks, fld2 \subseteq Reports!Checks,
         cha2 \subseteq Reports!Checks, non2 \subseteq Reports!Checks
  PROVE  AtMost(p, q)
<1>1. \A S, T : S \subseteq T /\ T \subseteq Reports!Checks => Reports!Cardinality(S) <= Reports!Cardinality(T)
  BY CountsSubset
<1>2. \A S, T, k : S \subseteq T /\ T \subseteq Reports!Checks =>
        Reports!Of(S, k) \subseteq Reports!Of(T, k) /\ Reports!Of(T, k) \subseteq Reports!Checks
  BY DEF Reports!Of
<1>3. \A S, T, k : S \subseteq T /\ T \subseteq Reports!Checks =>
        Reports!Cardinality(Reports!Of(S, k)) <= Reports!Cardinality(Reports!Of(T, k))
  BY <1>1, <1>2
<1> QED BY <1>1, <1>3 DEF CountsOf, AtMost

\* The sets that a report of a scan counts.
Good(s) == {c \in Reports!Finished(s) : v2[c].finished = "succeeded"}
Bad(s) == {c \in Reports!Finished(s) : v2[c].finished = "failed"}
Complete(s) == Reports!With(Reports!Settled(s), "complete")
Failed(s) == Reports!With(Reports!Settled(s), "failed")
Charged(s) == Reports!Charged(Reports!Settled(s))
Kept(s) == Reports!Settled(s) \ Reports!Charged(Reports!Settled(s))

LEMMA ReportCounts ==
  \A s, t : CountsOf(Reports!Report(s, t), Reports!Accepted(s), Complete(s), Failed(s), Reports!Attempts(s),
                     Good(s), Bad(s), Charged(s), Kept(s))
<1> SUFFICES ASSUME NEW s, NEW t
             PROVE  CountsOf(Reports!Report(s, t), Reports!Accepted(s), Complete(s), Failed(s), Reports!Attempts(s),
                             Good(s), Bad(s), Charged(s), Kept(s))
  OBVIOUS
<1> DEFINE C(S) == Reports!Cardinality(S)
           of(S, k) == Reports!Of(S, k)
           A == Reports!Accepted(s)  M == Complete(s)  F == Failed(s)  X == Charged(s)  N == Kept(s)
           S == Reports!Settled(s)  T == Reports!Attempts(s)  D == Reports!Finished(s)  G == Good(s)  B == Bad(s)
           J == {c \in Reports!Checks : "accepted" \notin s[c] /\ s[c] # {}}
<1>1. Reports!Report(s, t) =
        [asOf |-> t, accepted |-> C(A), pending |-> C(A \ S),
         settled |-> [o \in Reports!Outcomes |-> C(Reports!With(S, o))],
         access |-> [k \in Reports!Classes |->
           [accepted |-> C(of(A, k)), complete |-> C(of(M, k)), deducted |-> C(of(X, k)),
            noDeduction |-> C(of(N, k)), unknown |-> C(of(A \ S, k))]],
         internal |-> [started |-> C(T), awaiting |-> C(T \ D), succeeded |-> C(G), failed |-> C(B)],
         gaps |-> C(J)]
  BY DEF Reports!Report, Reports!Access, Good, Bad, Complete, Failed, Charged, Kept
<1>2. Reports!With(S, "complete") = M /\ Reports!With(S, "failed") = F
  BY DEF Complete, Failed
<1>3. "complete" \in Reports!Outcomes /\ "failed" \in Reports!Outcomes
  BY DEF Reports!Outcomes
<1> HIDE DEF C, of, A, M, F, X, N, S, T, D, G, B, J
<1>4. CountsOf(Reports!Report(s, t), A, M, F, T, G, B, X, N)
  BY <1>1, <1>2, <1>3 DEF CountsOf, C, of
<1> QED BY <1>4 DEF A, M, F, X, N, S, T, D, G, B, J

\* What happened to a check, phase by phase.
LEMMA EverythingIs ==
  ASSUME NEW c \in Reports!Checks
  PROVE  /\ "accepted" \in Reports!Everything[c] <=> v2[c].accepted # None
         /\ "terminal" \in Reports!Everything[c] <=> v2[c].terminal # None
         /\ "started" \in Reports!Everything[c] <=> v2[c].started # None
         /\ "finished" \in Reports!Everything[c] <=> v2[c].finished # None
BY DEF Reports!Everything, Reports!Phases

\* A scan reads nothing that did not happen.
Reads(s) == \A c \in Reports!Checks : s[c] \subseteq Reports!Everything[c]

LEMMA ScanReads ==
  ASSUME NEW s \in Reports!Scans
  PROVE  Reads(s)
<1> DEFINE of(d, miss) == [c \in Reports!Checks |->
              {p \in Reports!Phases : v2[c].linked /\ v2[c][p] # None} \ (IF c = d THEN miss ELSE {})]
           M == {{}, {"accepted"}, Reports!Phases}
<1>1. Reports!Scans = {of(d, miss) : d \in Reports!Checks, miss \in M}
  BY DEF Reports!Scans
<1> HIDE DEF of, M
<1>2. PICK d \in Reports!Checks, miss \in M : s = of(d, miss)
  BY <1>1
<1>3. s = [c \in Reports!Checks |->
            {p \in Reports!Phases : v2[c].linked /\ v2[c][p] # None} \ (IF c = d THEN miss ELSE {})]
  BY <1>2 DEF of
<1> QED BY <1>3 DEF Reads, Reports!Everything

\* A scan counts no more than happened.
LEMMA ReportGrows ==
  ASSUME NEW s, Reads(s), NEW t, NEW u
  PROVE  AtMost(Reports!Report(s, t), Reports!Report(Reports!Everything, u))
<1> DEFINE E == Reports!Everything
<1>1. \A c \in Reports!Checks : \A p : p \in s[c] => p \in E[c]
  BY DEF Reads
<1> HIDE DEF E
<1>2. Reports!Accepted(s) \subseteq Reports!Accepted(E) /\ Reports!Accepted(E) \subseteq Reports!Checks
  BY <1>1 DEF Reports!Accepted
<1>3. Reports!Settled(s) \subseteq Reports!Settled(E) /\ Reports!Settled(E) \subseteq Reports!Checks
  BY <1>1, <1>2 DEF Reports!Settled, Reports!Accepted
<1>4. Reports!Attempts(s) \subseteq Reports!Attempts(E) /\ Reports!Attempts(E) \subseteq Reports!Checks
  BY <1>1 DEF Reports!Attempts
<1>5. Reports!Finished(s) \subseteq Reports!Finished(E) /\ Reports!Finished(E) \subseteq Reports!Checks
  BY <1>1, <1>4 DEF Reports!Finished, Reports!Attempts
<1>6. /\ Complete(s) \subseteq Complete(E) /\ Complete(E) \subseteq Reports!Checks
      /\ Failed(s) \subseteq Failed(E) /\ Failed(E) \subseteq Reports!Checks
      /\ Charged(s) \subseteq Charged(E) /\ Charged(E) \subseteq Reports!Checks
      /\ Kept(s) \subseteq Kept(E) /\ Kept(E) \subseteq Reports!Checks
  BY <1>3 DEF Complete, Failed, Charged, Kept, Reports!Charged, Reports!With
<1>7. /\ Good(s) \subseteq Good(E) /\ Good(E) \subseteq Reports!Checks
      /\ Bad(s) \subseteq Bad(E) /\ Bad(E) \subseteq Reports!Checks
  BY <1>5 DEF Good, Bad
<1>8. /\ CountsOf(Reports!Report(s, t), Reports!Accepted(s), Complete(s), Failed(s), Reports!Attempts(s),
                  Good(s), Bad(s), Charged(s), Kept(s))
      /\ CountsOf(Reports!Report(E, u), Reports!Accepted(E), Complete(E), Failed(E), Reports!Attempts(E),
                  Good(E), Bad(E), Charged(E), Kept(E))
  BY ReportCounts
<1>9. AtMost(Reports!Report(s, t), Reports!Report(E, u))
  BY <1>2, <1>4, <1>6, <1>7, <1>8, CountsOrder
<1> QED BY <1>9 DEF E

\* What a report of everything counts.
LEMMA EverythingCounts ==
  CountsOf(Reports!Report(Reports!Everything, v1), Reports!Accepted(Reports!Everything),
           Complete(Reports!Everything), Failed(Reports!Everything), Reports!Attempts(Reports!Everything),
           Good(Reports!Everything), Bad(Reports!Everything), Charged(Reports!Everything), Kept(Reports!Everything))
BY ReportCounts

\* What a report counts is a summary of counts, whatever was read.
LEMMA ReportTyped == \A s : \A t \in Nat : Reports!Report(s, t) \in Reports!Summaries
<1> SUFFICES ASSUME NEW s, NEW t \in Nat
             PROVE  Reports!Report(s, t) \in Reports!Summaries
  OBVIOUS
<1> DEFINE C(S) == Reports!Cardinality(S)
           of(S, k) == Reports!Of(S, k)
           A == Reports!Accepted(s)  M == Complete(s)  X == Charged(s)  N == Kept(s)
           S == Reports!Settled(s)  T == Reports!Attempts(s)  D == Reports!Finished(s)  G == Good(s)  B == Bad(s)
           W(o) == Reports!With(S, o)
           J == {c \in Reports!Checks : "accepted" \notin s[c] /\ s[c] # {}}
           sub(U) == U \subseteq Reports!Checks
<1>1. Reports!Report(s, t) =
        [asOf |-> t, accepted |-> C(A), pending |-> C(A \ S),
         settled |-> [o \in Reports!Outcomes |-> C(W(o))],
         access |-> [k \in Reports!Classes |->
           [accepted |-> C(of(A, k)), complete |-> C(of(M, k)), deducted |-> C(of(X, k)),
            noDeduction |-> C(of(N, k)), unknown |-> C(of(A \ S, k))]],
         internal |-> [started |-> C(T), awaiting |-> C(T \ D), succeeded |-> C(G), failed |-> C(B)],
         gaps |-> C(J)]
  BY DEF Reports!Report, Reports!Access, Good, Bad, Complete, Charged, Kept
<1>2. sub(A) /\ sub(A \ S) /\ sub(S) /\ sub(T) /\ sub(T \ D) /\ sub(D) /\ sub(J)
  BY DEF Reports!Accepted, Reports!Settled, Reports!Attempts, Reports!Finished
<1>3. sub(M) /\ sub(X) /\ sub(N) /\ sub(G) /\ sub(B) /\ \A o : sub(W(o))
  BY <1>2 DEF Complete, Charged, Kept, Good, Bad, Reports!With, Reports!Charged
<1>4. \A U, k : sub(U) => sub(of(U, k))
  BY DEF Reports!Of
<1>5. \A U : sub(U) => C(U) \in Nat
  BY CountsSubset
<1> HIDE DEF C, of, A, M, X, N, S, T, D, G, B, J, W, sub
<1>6. /\ C(A) \in Nat /\ C(A \ S) \in Nat /\ C(T) \in Nat /\ C(T \ D) \in Nat /\ C(G) \in Nat /\ C(B) \in Nat
      /\ C(J) \in Nat /\ \A o : C(W(o)) \in Nat
  BY <1>2, <1>3, <1>5
<1>7. \A k : /\ C(of(A, k)) \in Nat /\ C(of(M, k)) \in Nat /\ C(of(X, k)) \in Nat /\ C(of(N, k)) \in Nat
             /\ C(of(A \ S, k)) \in Nat
  BY <1>2, <1>3, <1>4, <1>5
<1> DEFINE Y == [o \in Reports!Outcomes |-> C(W(o))]
           Z == [k \in Reports!Classes |->
             [accepted |-> C(of(A, k)), complete |-> C(of(M, k)), deducted |-> C(of(X, k)),
              noDeduction |-> C(of(N, k)), unknown |-> C(of(A \ S, k))]]
<1>8. Y \in [Reports!Outcomes -> Nat]
  BY <1>6
<1>9. Z \in [Reports!Classes -> Reports!AccessCounts]
  BY <1>7 DEF Reports!AccessCounts
<1>10. Reports!Report(s, t) =
         [asOf |-> t, accepted |-> C(A), pending |-> C(A \ S), settled |-> Y, access |-> Z,
          internal |-> [started |-> C(T), awaiting |-> C(T \ D), succeeded |-> C(G), failed |-> C(B)],
          gaps |-> C(J)]
  BY <1>1
<1> HIDE DEF Y, Z
<1> QED BY <1>6, <1>8, <1>9, <1>10 DEF Reports!Summaries

LEMMA EverythingTyped == v1 \in Nat => Reports!Report(Reports!Everything, v1) \in Reports!Summaries
BY ReportTyped

\* The counts of a summary are numbers.
LEMMA FactsTyped ==
  ASSUME NEW p \in Reports!Summaries
  PROVE  /\ \A n \in 1 .. 14 : Reports!Facts(p)[n] \in Nat
         /\ DOMAIN Reports!Facts(p) = 1 .. 14 /\ Len(Reports!Facts(p)) = 14
<1>1. /\ p.accepted \in Nat /\ p.settled["complete"] \in Nat /\ p.settled["failed"] \in Nat
      /\ p.internal.started \in Nat /\ p.internal.succeeded \in Nat /\ p.internal.failed \in Nat
  BY DEF Reports!Summaries, Reports!Outcomes
<1>2. p.access["trial"] \in Reports!AccessCounts /\ p.access["complimentary"] \in Reports!AccessCounts
  BY DEF Reports!Summaries, Reports!Classes
<1>3. ASSUME NEW n \in 1 .. 14
      PROVE  Reports!Facts(p)[n] \in Nat
  <2>1. n \in {1, 2, 3, 4, 5, 6} \/ n \in {7, 8, 9, 10} \/ n \in {11, 12, 13, 14}
    OBVIOUS
  <2>2. CASE n \in {1, 2, 3, 4, 5, 6}
    BY <1>1, <2>2 DEF Reports!Facts
  <2>3. CASE n \in {7, 8, 9, 10}
    BY <1>2, <2>3 DEF Reports!Facts, Reports!AccessCounts
  <2>4. CASE n \in {11, 12, 13, 14}
    BY <1>2, <2>4 DEF Reports!Facts, Reports!AccessCounts
  <2> QED BY <2>1, <2>2, <2>3, <2>4
<1>4. DOMAIN Reports!Facts(p) = 1 .. 14 /\ Len(Reports!Facts(p)) = 14
  BY DEF Reports!Facts
<1> QED BY <1>3, <1>4

\* A fact that is there stays as it is.
FactsStay ==
  \A c \in Reports!Checks :
    /\ v2[c].accepted # None => v2'[c].accepted = v2[c].accepted
    /\ v2[c].terminal # None => v2'[c].terminal = v2[c].terminal
    /\ v2[c].started # None => v2'[c].started = v2[c].started
    /\ v2[c].finished # None => v2'[c].finished = v2[c].finished

\* What happened is counted ever after.
LEMMA ReportStays ==
  ASSUME v2 \in [Reports!Checks -> Reports!FactForms], Reports!ReportAssumption, FactsStay
  PROVE  AtMost(Reports!Report(Reports!Everything, v1), Reports!Report(Reports!Everything, v1)')
<1> DEFINE E == Reports!Everything
<1>1. \A c \in Reports!Checks : /\ "accepted" \in E[c] <=> v2[c].accepted # None
                                /\ "terminal" \in E[c] <=> v2[c].terminal # None
                                /\ "started" \in E[c] <=> v2[c].started # None
                                /\ "finished" \in E[c] <=> v2[c].finished # None
  BY EverythingIs
<1>2. \A c \in Reports!Checks : /\ "accepted" \in E'[c] <=> v2'[c].accepted # None
                                /\ "terminal" \in E'[c] <=> v2'[c].terminal # None
                                /\ "started" \in E'[c] <=> v2'[c].started # None
                                /\ "finished" \in E'[c] <=> v2'[c].finished # None
  BY DEF Reports!Everything, Reports!Phases
<1>3. CountsOf(Reports!Report(E, v1), Reports!Accepted(E), Complete(E), Failed(E), Reports!Attempts(E),
               Good(E), Bad(E), Charged(E), Kept(E))
  BY EverythingCounts
<1>4. CountsOf(Reports!Report(E, v1), Reports!Accepted(E), Complete(E), Failed(E), Reports!Attempts(E),
               Good(E), Bad(E), Charged(E), Kept(E))'
  BY EverythingCounts, PTL
<1> HIDE DEF E
<1>5. Reports!Accepted(E) \subseteq Reports!Accepted(E)' /\ Reports!Accepted(E)' \subseteq Reports!Checks
  BY <1>1, <1>2 DEF Reports!Accepted, FactsStay
<1>6. Reports!Settled(E) \subseteq Reports!Settled(E)' /\ Reports!Settled(E)' \subseteq Reports!Checks
  BY <1>1, <1>2, <1>5 DEF Reports!Settled, Reports!Accepted, FactsStay
<1>7. Reports!Attempts(E) \subseteq Reports!Attempts(E)' /\ Reports!Attempts(E)' \subseteq Reports!Checks
  BY <1>1, <1>2 DEF Reports!Attempts, FactsStay
<1>8. Reports!Finished(E) \subseteq Reports!Finished(E)' /\ Reports!Finished(E)' \subseteq Reports!Checks
  BY <1>1, <1>2, <1>7 DEF Reports!Finished, Reports!Attempts, FactsStay
<1>9. \A c \in Reports!Settled(E) : v2[c].terminal = v2'[c].terminal
  BY <1>1 DEF Reports!Settled, Reports!Accepted, FactsStay
<1>10. \A c \in Reports!Finished(E) : v2[c].finished = v2'[c].finished
  BY <1>1 DEF Reports!Finished, Reports!Attempts, FactsStay
<1>11. /\ Complete(E) \subseteq Complete(E)' /\ Complete(E)' \subseteq Reports!Checks
       /\ Failed(E) \subseteq Failed(E)' /\ Failed(E)' \subseteq Reports!Checks
       /\ Charged(E) \subseteq Charged(E)' /\ Charged(E)' \subseteq Reports!Checks
       /\ Kept(E) \subseteq Kept(E)' /\ Kept(E)' \subseteq Reports!Checks
  BY <1>6, <1>9 DEF Complete, Failed, Charged, Kept, Reports!Charged, Reports!With
<1>12. /\ Good(E) \subseteq Good(E)' /\ Good(E)' \subseteq Reports!Checks
       /\ Bad(E) \subseteq Bad(E)' /\ Bad(E)' \subseteq Reports!Checks
  BY <1>8, <1>10 DEF Good, Bad
<1>13. AtMost(Reports!Report(E, v1), Reports!Report(E, v1)')
  BY <1>3, <1>4, <1>5, <1>7, <1>11, <1>12, CountsOrder
<1> QED BY <1>13 DEF E

\* The counts of what happened only grow, so what a report counted has still happened.
LEMMA HappenedStays ==
  ASSUME v2 \in [Reports!Checks -> Reports!FactForms], v1 \in Nat, v1' \in Nat, FactsStay,
         NEW p \in Reports!Summaries, Reports!Happened(p)
  PROVE  \A n \in 1 .. 14 : Reports!Facts(p)[n] <= Reports!Facts(Reports!Report(Reports!Everything, v1)')[n]
<1>1. PICK q : q = Reports!Report(Reports!Everything, v1)
  OBVIOUS
<1>2. PICK w : w = Reports!Report(Reports!Everything, v1)'
  OBVIOUS
<1>3. q \in Reports!Summaries
  BY <1>1, EverythingTyped
<1>4. (v1 \in Nat => Reports!Report(Reports!Everything, v1) \in Reports!Summaries)'
  BY EverythingTyped, PTL
<1>5. w \in Reports!Summaries
  BY <1>2, <1>4
<1>6. AtMost(q, w)
  BY <1>1, <1>2, ReportStays, ReportsAssumed
<1>7. \A n \in 1 .. 14 : Reports!Facts(q)[n] <= Reports!Facts(w)[n]
  BY <1>6, FactsOrder
<1>8. \A n \in 1 .. 14 : Reports!Facts(p)[n] <= Reports!Facts(q)[n]
  BY <1>1 DEF Reports!Happened
<1>9. \A n \in 1 .. 14 : Reports!Facts(p)[n] \in Nat /\ Reports!Facts(q)[n] \in Nat /\ Reports!Facts(w)[n] \in Nat
  BY <1>3, <1>5, FactsTyped
<1>10. ASSUME NEW n \in 1 .. 14
       PROVE  Reports!Facts(p)[n] <= Reports!Facts(w)[n]
  <2> DEFINE a == Reports!Facts(p)[n]  b == Reports!Facts(q)[n]  c == Reports!Facts(w)[n]
  <2>1. a \in Nat /\ b \in Nat /\ c \in Nat /\ a <= b /\ b <= c
    BY <1>7, <1>8, <1>9
  <2> HIDE DEF a, b, c
  <2>2. a <= c
    BY <2>1
  <2> QED BY <2>2 DEF a, c
<1> QED BY <1>2, <1>10

\* The parts of a set of checks: by access class, and by outcome.
LEMMA CountsParts ==
  \A A, B : A \cup B \subseteq Reports!Checks /\ A \cap B = {} =>
    /\ Reports!Cardinality(A) \in Nat /\ Reports!Cardinality(B) \in Nat
    /\ Reports!Cardinality(A \cup B) = Reports!Cardinality(A) + Reports!Cardinality(B)
BY CountsSplit, CountsSubset

LEMMA ClassCounts ==
  ASSUME NEW S, S \subseteq Reports!Checks
  PROVE  /\ Reports!Cardinality(Reports!Of(S, "trial")) \in Nat
         /\ Reports!Cardinality(Reports!Of(S, "complimentary")) \in Nat
         /\ Reports!Cardinality(S)
              = Reports!Cardinality(Reports!Of(S, "trial")) + Reports!Cardinality(Reports!Of(S, "complimentary"))
<1> DEFINE T == Reports!Of(S, "trial")  G == Reports!Of(S, "complimentary")
<1>1. S = T \cup G /\ T \cap G = {}
  BY DEF Reports!Of, Reports!Checks
<1> HIDE DEF T, G
<1>2. Reports!Cardinality(T) \in Nat /\ Reports!Cardinality(G) \in Nat
      /\ Reports!Cardinality(S) = Reports!Cardinality(T) + Reports!Cardinality(G)
  BY <1>1, CountsParts
<1> QED BY <1>2 DEF T, G

\* The denominators of a report of a scan agree, so a day that is over can be stored.
LEMMA ReportValid ==
  ASSUME v2 \in [Reports!Checks -> Reports!FactForms], NEW s, Reads(s), NEW t \in Nat, t >= Reports!End
  PROVE  Reports!Valid(Reports!Report(s, t))
<1> DEFINE C(U) == Reports!Cardinality(U)
           of(U, k) == Reports!Of(U, k)
           A == Reports!Accepted(s)  M == Complete(s)  F == Failed(s)  X == Charged(s)  N == Kept(s)
           S == Reports!Settled(s)  T == Reports!Attempts(s)  D == Reports!Finished(s)  G == Good(s)  B == Bad(s)
           R == A \ S  O == T \ D
           J == {c \in Reports!Checks : "accepted" \notin s[c] /\ s[c] # {}}
           sub(U) == U \subseteq Reports!Checks
<1>1. /\ Reports!Report(s, t) =
           [asOf |-> t, accepted |-> C(A), pending |-> C(R),
            settled |-> [o \in Reports!Outcomes |-> C(Reports!With(S, o))],
            access |-> [k \in Reports!Classes |->
              [accepted |-> C(of(A, k)), complete |-> C(of(M, k)), deducted |-> C(of(X, k)),
               noDeduction |-> C(of(N, k)), unknown |-> C(of(R, k))]],
            internal |-> [started |-> C(T), awaiting |-> C(O), succeeded |-> C(G), failed |-> C(B)],
            gaps |-> C(J)]
      /\ Reports!With(S, "complete") = M /\ Reports!With(S, "failed") = F
  BY DEF Reports!Report, Reports!Access, Good, Bad, Complete, Failed, Charged, Kept
<1>2. \A c \in Reports!Checks : v2[c] \in Reports!FactForms /\ \A p \in s[c] : p \in Reports!Everything[c]
  BY DEF Reads
<1>3. \A c \in S : v2[c].terminal \in {"complete", "failed"}
  BY <1>2, EverythingIs DEF Reports!Settled, Reports!Accepted, Reports!FactForms, Reports!Outcomes
<1>4. \A c \in D : v2[c].finished \in {"succeeded", "failed"}
  BY <1>2, EverythingIs DEF Reports!Finished, Reports!Attempts, Reports!FactForms
<1>5. sub(A) /\ sub(T) /\ S \subseteq A /\ D \subseteq T
  BY DEF Reports!Accepted, Reports!Settled, Reports!Attempts, Reports!Finished
<1>6. A = R \cup S /\ R \cap S = {} /\ T = O \cup D /\ O \cap D = {}
  BY <1>5
<1>7. S = M \cup F /\ M \cap F = {}
  BY <1>3 DEF Complete, Failed, Reports!With
<1>8. D = G \cup B /\ G \cap B = {}
  BY <1>4 DEF Good, Bad
<1>9. S = X \cup N /\ X \cap N = {}
  BY DEF Charged, Kept, Reports!Charged, Reports!With
<1>10. of(X, "complimentary") = {} /\ of(X, "trial") = of(M, "trial")
  <2>1. \A c \in X : c \in M /\ c \in Reports!Checks /\ ~(c \in of(X, "complimentary"))
    BY <1>5 DEF Charged, Complete, Reports!Charged, Reports!With, Reports!Of
  <2>2. \A c \in M : c \in of(M, "trial") => c \in X
    BY DEF Charged, Complete, Reports!Charged, Reports!With, Reports!Of
  <2> QED BY <2>1, <2>2 DEF Reports!Of
<1>11. \A U, V, k : /\ of(U \cup V, k) = of(U, k) \cup of(V, k) /\ (U \cap V = {} => of(U, k) \cap of(V, k) = {})
                    /\ (sub(U) => sub(of(U, k)))
  BY DEF Reports!Of
<1>12. \A U, V : sub(U \cup V) /\ U \cap V = {} => C(U) \in Nat /\ C(V) \in Nat /\ C(U \cup V) = C(U) + C(V)
  BY CountsParts
<1>13. C({}) = 0
  BY FS_EmptySet, ReportCardinality
<1>14. \A U : sub(U) => C(of(U, "trial")) \in Nat /\ C(of(U, "complimentary")) \in Nat
                        /\ C(U) = C(of(U, "trial")) + C(of(U, "complimentary"))
  BY ClassCounts
<1> HIDE DEF C, of, A, M, F, X, N, S, T, D, G, B, R, O, J
<1>15. sub(S) /\ sub(R) /\ sub(M) /\ sub(F) /\ sub(X) /\ sub(N) /\ sub(D) /\ sub(G) /\ sub(B) /\ sub(O)
  BY <1>5, <1>6, <1>7, <1>8, <1>9
<1> HIDE DEF sub
<1>16. /\ C(A) = C(R) + C(S) /\ C(S) = C(M) + C(F) /\ C(T) = C(O) + C(D) /\ C(D) = C(G) + C(B)
       /\ C(R) \in Nat /\ C(M) \in Nat /\ C(F) \in Nat /\ C(O) \in Nat /\ C(G) \in Nat /\ C(B) \in Nat
  BY <1>5, <1>6, <1>7, <1>8, <1>12, <1>15
<1>17. ASSUME NEW k
       PROVE  /\ C(of(A, k)) = C(of(R, k)) + C(of(S, k)) /\ C(of(S, k)) = C(of(M, k)) + C(of(F, k))
              /\ C(of(S, k)) = C(of(X, k)) + C(of(N, k))
              /\ C(of(R, k)) \in Nat /\ C(of(M, k)) \in Nat /\ C(of(F, k)) \in Nat
              /\ C(of(X, k)) \in Nat /\ C(of(N, k)) \in Nat
  <2>1. of(A, k) = of(R, k) \cup of(S, k) /\ of(R, k) \cap of(S, k) = {} /\ sub(of(A, k))
    BY <1>5, <1>6, <1>11
  <2>2. of(S, k) = of(M, k) \cup of(F, k) /\ of(M, k) \cap of(F, k) = {} /\ sub(of(S, k))
    BY <1>7, <1>11, <1>15
  <2>3. of(S, k) = of(X, k) \cup of(N, k) /\ of(X, k) \cap of(N, k) = {} /\ sub(of(S, k))
    BY <1>9, <1>11, <1>15
  <2>4. C(of(R, k)) \in Nat /\ C(of(S, k)) \in Nat /\ C(of(A, k)) = C(of(R, k)) + C(of(S, k))
    BY <2>1, <1>12
  <2>5. C(of(M, k)) \in Nat /\ C(of(F, k)) \in Nat /\ C(of(S, k)) = C(of(M, k)) + C(of(F, k))
    BY <2>2, <1>12
  <2>6. C(of(X, k)) \in Nat /\ C(of(N, k)) \in Nat /\ C(of(S, k)) = C(of(X, k)) + C(of(N, k))
    BY <2>3, <1>12
  <2> QED BY <2>4, <2>5, <2>6
<1>18. /\ C(A) = C(of(A, "trial")) + C(of(A, "complimentary"))
       /\ C(M) = C(of(M, "trial")) + C(of(M, "complimentary"))
       /\ C(R) = C(of(R, "trial")) + C(of(R, "complimentary"))
  BY <1>5, <1>14, <1>15
<1>19. PICK p : p = Reports!Report(s, t)
  OBVIOUS
<1>20. /\ p.asOf = t /\ p.accepted = C(A) /\ p.pending = C(R)
       /\ p.settled["complete"] = C(M) /\ p.settled["failed"] = C(F)
       /\ p.internal.started = C(T) /\ p.internal.awaiting = C(O)
       /\ p.internal.succeeded = C(G) /\ p.internal.failed = C(B)
  BY <1>1, <1>19 DEF Reports!Outcomes
<1>21. ASSUME NEW k \in Reports!Classes
       PROVE  /\ p.access[k].accepted = C(of(A, k)) /\ p.access[k].complete = C(of(M, k))
              /\ p.access[k].deducted = C(of(X, k)) /\ p.access[k].noDeduction = C(of(N, k))
              /\ p.access[k].unknown = C(of(R, k))
  BY <1>1, <1>19
<1>22. /\ Reports!Sum([k \in Reports!Classes |-> p.access[k].accepted]) = p.accepted
       /\ Reports!Sum([k \in Reports!Classes |-> p.access[k].complete]) = p.settled["complete"]
       /\ Reports!Sum([k \in Reports!Classes |-> p.access[k].unknown]) = p.pending
  BY <1>18, <1>20, <1>21 DEF Reports!Sum, Reports!Classes
<1>23. ASSUME NEW k \in Reports!Classes
       PROVE  LET a == p.access[k] IN
              /\ a.accepted = a.deducted + a.noDeduction + a.unknown
              /\ a.deducted = IF k = "complimentary" THEN 0 ELSE a.complete
              /\ a.complete <= a.accepted - a.unknown
  <2>1. k = "trial" \/ k = "complimentary"
    BY DEF Reports!Classes
  <2>2. C(of(X, k)) = IF k = "complimentary" THEN 0 ELSE C(of(M, k))
    BY <1>10, <1>13, <2>1
  <2>3. C(of(A, k)) = C(of(X, k)) + C(of(N, k)) + C(of(R, k)) /\ C(of(M, k)) <= C(of(A, k)) - C(of(R, k))
    BY <1>17
  <2> QED BY <1>21, <2>2, <2>3
<1>24. Reports!Valid(p)
  BY <1>16, <1>20, <1>22, <1>23 DEF Reports!Valid
<1> QED BY <1>19, <1>24

\* Two sequences of numbers joined.
LEMMA Joined ==
  ASSUME NEW m \in Nat, NEW n \in Nat, NEW f \in Seq(Nat), NEW g \in Seq(Nat), Len(f) = m, Len(g) = n
  PROVE  f \o g \in [1 .. m + n -> Nat]
<1>1. f \o g \in Seq(Nat) /\ Len(f \o g) = m + n
  OBVIOUS
<1>2. \A h \in Seq(Nat) : h \in [1 .. Len(h) -> Nat]
  OBVIOUS
<1> QED BY <1>1, <1>2

\* The counts of a summary, and the differences of two of them.
LEMMA CountsTyped ==
  ASSUME NEW p \in Reports!Summaries
  PROVE  Reports!Counts(p) \in [1 .. 19 -> Nat]
<1> DEFINE f == Reports!Facts(p)  g == Reports!Reconciled(p)
<1>1. f \in Seq(Nat) /\ Len(f) = 14
  <2>1. /\ p.accepted \in Nat /\ p.settled["complete"] \in Nat /\ p.settled["failed"] \in Nat
        /\ p.internal.started \in Nat /\ p.internal.succeeded \in Nat /\ p.internal.failed \in Nat
    BY DEF Reports!Summaries, Reports!Outcomes
  <2>2. p.access["trial"] \in Reports!AccessCounts /\ p.access["complimentary"] \in Reports!AccessCounts
    BY DEF Reports!Summaries, Reports!Classes
  <2> QED BY <2>1, <2>2 DEF Reports!Facts, Reports!AccessCounts
<1>2. g \in Seq(Nat) /\ Len(g) = 5
  <2>1. p.pending \in Nat /\ p.internal.awaiting \in Nat /\ p.gaps \in Nat
    BY DEF Reports!Summaries
  <2>2. p.access["trial"].unknown \in Nat /\ p.access["complimentary"].unknown \in Nat
    BY DEF Reports!Summaries, Reports!Classes, Reports!AccessCounts
  <2> QED BY <2>1, <2>2 DEF Reports!Reconciled
<1> HIDE DEF f, g
<1>3. f \o g \in [1 .. 14 + 5 -> Nat]
  BY <1>1, <1>2, Joined
<1>4. 14 + 5 = 19
  OBVIOUS
<1> QED BY <1>3, <1>4 DEF f, g, Reports!Counts

LEMMA DeltaAdds ==
  ASSUME NEW v \in [1 .. 19 -> Nat], NEW w \in [1 .. 19 -> Nat]
  PROVE  Reports!Minus(v, w) \in [1 .. 19 -> Int] /\ Reports!Plus(Reports!Minus(v, w), w) = v
<1> DEFINE d == Reports!Minus(v, w)
<1>1. d = [i \in 1 .. 19 |-> v[i] - w[i]]
  BY DEF Reports!Minus
<1>2. \A i \in 1 .. 19 : v[i] \in Nat /\ w[i] \in Nat /\ v[i] - w[i] \in Int /\ (v[i] - w[i]) + w[i] = v[i]
  OBVIOUS
<1>3. d \in [1 .. 19 -> Int] /\ DOMAIN d = 1 .. 19 /\ \A i \in 1 .. 19 : d[i] = v[i] - w[i]
  BY <1>1, <1>2
<1> HIDE DEF d
<1>4. Reports!Plus(d, w) = [i \in 1 .. 19 |-> d[i] + w[i]]
  BY <1>3 DEF Reports!Plus
<1>5. \A i \in 1 .. 19 : d[i] + w[i] = v[i]
  BY <1>2, <1>3
<1>6. v = [i \in 1 .. 19 |-> v[i]]
  OBVIOUS
<1>7. Reports!Plus(d, w) = v
  BY <1>4, <1>5, <1>6
<1> QED BY <1>3, <1>7 DEF d

\* A revision follows another: what it counts, its day and its time.
Follows(old, v) ==
  /\ \A n \in 1 .. 14 : Reports!Facts(v.report)[n] >= Reports!Facts(old.report)[n]
  /\ Reports!LocalDay(old.generated) < Reports!LocalDay(v.generated)
  /\ old.report.asOf <= v.report.asOf

\* A revision is the next one: its number, the digest it names and its differences.
Extends(i, old, v) ==
  /\ v.revision = i
  /\ v.previous = IF i = 1 THEN None ELSE Reports!Digest(old)
  /\ Reports!Plus(v.delta, IF i = 1 THEN Reports!Zero ELSE Reports!Counts(old.report)) = Reports!Counts(v.report)

\* HEAD names the last revision.
Named ==
  /\ (v4 = None) = (v3 = <<>>)
  /\ v3 # <<>> => v4 = [revision |-> Len(v3), digest |-> Reports!Digest(v3[Len(v3)])]

\* The two properties of the stored revisions, revision by revision.
LEMMA ChainIs ==
  /\ Reports!OneChain <=> Named /\ \A i \in DOMAIN v3 : Extends(i, v3[i - 1], v3[i])
  /\ Reports!NothingLost <=> \A i \in DOMAIN v3 : /\ Reports!Happened(v3[i].report)
                                                  /\ i > 1 => Follows(v3[i - 1], v3[i])
<1>1. Reports!OneChain <=> Named /\ \A i \in DOMAIN v3 : Extends(i, v3[i - 1], v3[i])
  BY DEF Reports!OneChain, Named, Extends
<1>2. \A p : DOMAIN Reports!Facts(p) = 1 .. 14
  BY DEF Reports!Facts
<1>3. DOMAIN Reports!Facts(Reports!Report(Reports!Everything, v1)) = 1 .. 14
  BY <1>2
<1>4. Reports!NothingLost <=> \A i \in DOMAIN v3 : /\ Reports!Happened(v3[i].report)
                                                   /\ i > 1 => Follows(v3[i - 1], v3[i])
  BY <1>3 DEF Reports!NothingLost, Reports!Happened, Follows
<1> QED BY <1>1, <1>4

\* What a revision holds of a report, of the record it was planned of.
Made(old, p, t, v) ==
  /\ v \in Reports!Records /\ v.report = p /\ v.generated = t
  /\ v.revision = IF old = None THEN 1 ELSE old.revision + 1
  /\ v.previous = IF old = None THEN None ELSE Reports!Digest(old)
  /\ Reports!Plus(v.delta, IF old = None THEN Reports!Zero ELSE Reports!Counts(old.report)) = Reports!Counts(p)

\* A revision planned of the record read is well formed, and its differences add up.
LEMMA RevisionTyped ==
  ASSUME NEW old \in Reports!Records \cup {None}, NEW p \in Reports!Summaries, NEW t \in Nat
  PROVE  Made(old, p, t, Reports!Revision(old, p, t))
<1> DEFINE w == IF old = None THEN Reports!Zero ELSE Reports!Counts(old.report)
           d == Reports!Minus(Reports!Counts(p), w)
           v == Reports!Revision(old, p, t)
<1>1. w \in [1 .. 19 -> Nat]
  <2>1. CASE old = None
    BY <2>1 DEF Reports!Zero
  <2>2. CASE old # None
    <3>1. old.report \in Reports!Summaries
      BY <2>2 DEF Reports!Records
    <3> QED BY <2>2, <3>1, CountsTyped
  <2> QED BY <2>1, <2>2
<1>2. Reports!Counts(p) \in [1 .. 19 -> Nat]
  BY CountsTyped
<1> HIDE DEF w
<1>3. d \in [1 .. 19 -> Int] /\ Reports!Plus(d, w) = Reports!Counts(p)
  BY <1>1, <1>2, DeltaAdds
<1> DEFINE a == IF old = None THEN 1 ELSE old.revision + 1
           b == IF old = None THEN None ELSE Reports!Digest(old)
<1>4. v = [revision |-> a, report |-> p, generated |-> t, previous |-> b, delta |-> d]
  BY DEF Reports!Revision, w
<1>5. a \in Nat
  BY DEF Reports!Records
<1>6. b \in Reports!Digests \cup {None}
  BY DEF Reports!Records, Reports!Digest, Reports!Digests
<1> HIDE DEF a, b, d, v
<1>7. v.report = p /\ v.generated = t /\ v.revision = a /\ v.previous = b /\ v.delta = d
  BY <1>4
<1>8. v \in Reports!Records
  BY <1>3, <1>4, <1>5, <1>6 DEF Reports!Records
<1>9. Made(old, p, t, v)
  BY <1>3, <1>7, <1>8 DEF Made, w, a, b
<1> QED BY <1>9 DEF v

\* A step of the facts: none that was there is changed, and they keep their form.
FactStep ==
  /\ v1 \in Nat /\ v1' \in Nat /\ FactsStay
  /\ v2 \in [Reports!Checks -> Reports!FactForms] /\ v2' \in [Reports!Checks -> Reports!FactForms]

\* What a run holds stays right while facts come and go.
LEMMA RunStays ==
  ASSUME FactStep, NEW r \in Workers, Reports!RunInv(r), v5'[r] = v5[r]
  PROVE  Reports!RunInv(r)'
<1>1. \A p \in Reports!Summaries : Reports!Happened(p) => Reports!Happened(p)'
  BY HappenedStays DEF FactStep, Reports!Happened
<1>2. PICK j : j = v5[r]
  OBVIOUS
<1>3. v5'[r] = j
  BY <1>2
<1>4. CASE j = Reports!Idle
  BY <1>3, <1>4 DEF Reports!RunInv
<1>5. CASE j.phase = "aggregated" /\ j.report \in Reports!Summaries /\ Reports!Valid(j.report)
             /\ Reports!Happened(j.report)
  <2>1. Reports!Happened(j.report)'
    BY <1>1, <1>5
  <2> QED BY <1>3, <1>5, <2>1 DEF Reports!RunInv
<1>6. CASE /\ j.phase = "planned" /\ j.old \in Reports!Records \cup {None}
           /\ j.record.report \in Reports!Summaries /\ j.record.generated \in Nat
           /\ j.record = Reports!Revision(j.old, j.record.report, j.record.generated)
           /\ Reports!Creates(j.old, j.record.report, j.record.generated)
           /\ Reports!Happened(j.record.report)
  <2>1. Reports!Happened(j.record.report)'
    BY <1>1, <1>6
  <2> QED BY <1>3, <1>6, <2>1 DEF Reports!RunInv
<1> QED BY <1>2, <1>4, <1>5, <1>6 DEF Reports!RunInv

\* A step that stores no revision keeps the invariant, if the runs it changes do.
LEMMA ReportKeeps ==
  ASSUME Reports!IInv, FactStep, UNCHANGED <<v3, v4>>, DOMAIN v5' = Workers,
         \A r \in Workers : v5'[r] = v5[r] \/ Reports!RunInv(r)'
  PROVE  Reports!IInv' /\ Reports!Immutable
<1>0. \A p \in Reports!Summaries : Reports!Happened(p) => Reports!Happened(p)'
  BY HappenedStays DEF FactStep, Reports!Happened
<1>1. \A r \in Workers : Reports!RunInv(r)'
  BY RunStays DEF Reports!IInv
<1>2. v3 \in Seq(Reports!Records) /\ v3' = v3 /\ v4' = v4
  BY DEF Reports!IInv
<1>3. Named /\ (\A i \in DOMAIN v3 : Extends(i, v3[i - 1], v3[i]))
      /\ \A i \in DOMAIN v3 : Reports!Happened(v3[i].report) /\ (i > 1 => Follows(v3[i - 1], v3[i]))
  BY ChainIs DEF Reports!IInv
<1>4. ASSUME NEW i \in DOMAIN v3
      PROVE  Reports!Happened(v3[i].report)'
  <2>1. PICK p : p = v3[i].report
    OBVIOUS
  <2>2. v3[i] \in Reports!Records
    BY <1>2
  <2>3. p \in Reports!Summaries /\ Reports!Happened(p)
    BY <1>3, <2>1, <2>2 DEF Reports!Records
  <2>4. Reports!Happened(p)'
    BY <1>0, <2>3
  <2> QED BY <1>2, <2>1, <2>4
<1>5. (/\ Reports!OneChain <=> Named /\ \A i \in DOMAIN v3 : Extends(i, v3[i - 1], v3[i])
       /\ Reports!NothingLost <=> \A i \in DOMAIN v3 : /\ Reports!Happened(v3[i].report)
                                                       /\ i > 1 => Follows(v3[i - 1], v3[i]))'
  BY ChainIs, PTL
<1>6. Reports!OneChain'
  BY <1>2, <1>3, <1>5 DEF Named
<1>7. Reports!NothingLost'
  BY <1>2, <1>3, <1>4, <1>5
<1>8. SubSeq(v3', 1, Len(v3)) = v3
  BY <1>2
<1> QED BY <1>1, <1>2, <1>6, <1>7, <1>8 DEF Reports!IInv, Reports!Immutable, FactStep

\* A revision created of a record follows it.
LEMMA CreatesFollows ==
  ASSUME NEW old \in Reports!Records, NEW v \in Reports!Records, old # None,
         Reports!Creates(old, v.report, v.generated)
  PROVE  Follows(old, v)
<1>1. old.report \in Reports!Summaries /\ v.report \in Reports!Summaries /\ old.generated \in Nat /\ v.generated \in Nat
  BY DEF Reports!Records
<1>2. old.report.asOf \in Nat /\ v.report.asOf \in Nat
  BY <1>1 DEF Reports!Summaries
<1>3. /\ ~(v.report.asOf < old.report.asOf) /\ ~(v.generated < old.generated)
      /\ ~Reports!Regresses(old, v.report)
      /\ Reports!LocalDay(old.generated) # Reports!LocalDay(v.generated)
  BY DEF Reports!Creates, Reports!Stale, Reports!Deferred
<1>4. ASSUME NEW n \in 1 .. 14
      PROVE  Reports!Facts(v.report)[n] >= Reports!Facts(old.report)[n]
  <2>1. ~(Reports!Facts(v.report)[n] < Reports!Facts(old.report)[n])
    BY <1>1, <1>3, FactsTyped DEF Reports!Regresses
  <2>2. Reports!Facts(v.report)[n] \in Nat /\ Reports!Facts(old.report)[n] \in Nat
    BY <1>1, FactsTyped
  <2> DEFINE a == Reports!Facts(v.report)[n]  b == Reports!Facts(old.report)[n]
  <2> HIDE DEF a, b
  <2>3. a >= b
    BY <2>1, <2>2 DEF a, b
  <2> QED BY <2>3 DEF a, b
<1>5. Reports!LocalDay(old.generated) < Reports!LocalDay(v.generated)
  <2>1. ReportDay \in Nat \ {0}
    BY ReportsAssumed DEF Reports!ReportAssumption
  <2>2. \A a, b \in Nat, d \in Nat \ {0} : a <= b => a \div d <= b \div d
    OBVIOUS
  <2>3. \A a \in Nat, d \in Nat \ {0} : a \div d \in Int
    OBVIOUS
  <2>4. old.generated <= v.generated
    BY <1>1, <1>3
  <2>5. old.generated \div ReportDay <= v.generated \div ReportDay
    BY <1>1, <2>1, <2>2, <2>4
  <2>6. old.generated \div ReportDay \in Int /\ v.generated \div ReportDay \in Int
    BY <1>1, <2>1, <2>3
  <2> QED BY <1>3, <2>5, <2>6 DEF Reports!LocalDay
<1> QED BY <1>2, <1>3, <1>4, <1>5 DEF Follows

\* A commit extends the chain of the revision it was planned of.
LEMMA ReportCommits ==
  ASSUME Reports!IInv, NEW r \in Workers, Reports!Commit(r)
  PROVE  Reports!IInv' /\ Reports!Immutable
<1>1. PICK v, old : v = v5[r].record /\ old = v5[r].old
  OBVIOUS
<1>2. /\ v5[r].phase = "planned" /\ v1 < Reports!Closed
      /\ v.revision = Len(v3) + 1
      /\ v4 = IF old = None THEN None ELSE [revision |-> old.revision, digest |-> Reports!Digest(old)]
      /\ v3' = Append(v3, v)
      /\ v4' = [revision |-> v.revision, digest |-> Reports!Digest(v)]
      /\ v5' = [v5 EXCEPT ![r] = Reports!Idle]
      /\ v1' = v1 /\ v2' = v2
  BY <1>1 DEF Reports!Commit
<1>3. Reports!RunInv(r) /\ DOMAIN v5 = Workers
  BY DEF Reports!IInv
<1>4. /\ old \in Reports!Records \cup {None} /\ v.report \in Reports!Summaries /\ v.generated \in Nat
      /\ v = Reports!Revision(old, v.report, v.generated) /\ Reports!Creates(old, v.report, v.generated)
      /\ Reports!Happened(v.report)
  BY <1>1, <1>2, <1>3 DEF Reports!RunInv, Reports!Idle
<1>5. /\ v \in Reports!Records
      /\ v.revision = IF old = None THEN 1 ELSE old.revision + 1
      /\ v.previous = IF old = None THEN None ELSE Reports!Digest(old)
      /\ Reports!Plus(v.delta, IF old = None THEN Reports!Zero ELSE Reports!Counts(old.report))
           = Reports!Counts(v.report)
  <2>1. PICK p, t : p = v.report /\ t = v.generated
    OBVIOUS
  <2>2. p \in Reports!Summaries /\ t \in Nat /\ v = Reports!Revision(old, p, t)
    BY <1>4, <2>1
  <2>3. Made(old, p, t, v)
    BY <1>4, <2>2, RevisionTyped
  <2> QED BY <2>1, <2>3 DEF Made
<1>6. /\ v1 \in Nat /\ v2 \in [Reports!Checks -> Reports!FactForms] /\ v3 \in Seq(Reports!Records)
      /\ \A w \in Workers : Reports!RunInv(w)
  BY DEF Reports!IInv
<1>7. Named /\ (\A i \in DOMAIN v3 : Extends(i, v3[i - 1], v3[i]))
      /\ \A i \in DOMAIN v3 : Reports!Happened(v3[i].report) /\ (i > 1 => Follows(v3[i - 1], v3[i]))
  BY ChainIs DEF Reports!IInv
<1>8. PICK m : m = Len(v3)
  OBVIOUS
<1>9. /\ m \in Nat /\ v3' \in Seq(Reports!Records) /\ Len(v3') = m + 1 /\ v3'[m + 1] = v
      /\ \A i \in 1 .. m : v3'[i] = v3[i]
      /\ DOMAIN v3 = 1 .. m /\ DOMAIN v3' = 1 .. m + 1 /\ v3' # <<>>
  BY <1>2, <1>5, <1>6, <1>8
<1>10. Extends(m + 1, v3[m], v) /\ (m + 1 > 1 => Follows(v3[m], v))
  <2>1. CASE old = None
    <3>1. m = 0
      BY <1>2, <1>5, <1>8, <1>9, <2>1
    <3> QED BY <1>5, <2>1, <3>1 DEF Extends
  <2>2. CASE old # None
    <3>1. old \in Reports!Records
      BY <1>4, <2>2
    <3>2. old.revision \in Nat /\ Reports!Digest(old) \in Reports!Digests
      BY <3>1 DEF Reports!Records, Reports!Digest, Reports!Digests
    <3>3. v4 = [revision |-> old.revision, digest |-> Reports!Digest(old)] /\ v4 # None
      <4>1. v4 = [revision |-> old.revision, digest |-> Reports!Digest(old)]
        BY <1>2, <2>2
      <4>2. v4 \in Reports!Heads
        BY <3>2, <4>1 DEF Reports!Heads
      <4> QED BY <4>1, <4>2, ReportsAssumed DEF Reports!ReportAssumption
    <3>4. v3 # <<>> /\ v4 = [revision |-> m, digest |-> Reports!Digest(v3[m])]
      BY <1>7, <1>8, <3>3 DEF Named
    <3>5. old.revision = m /\ Reports!Digest(old) = Reports!Digest(v3[m])
      BY <3>3, <3>4
    <3>6. m # 0 /\ v3[m] \in Reports!Records
      BY <1>6, <1>8, <1>9, <3>4
    <3>7. old.report = v3[m].report /\ old.generated = v3[m].generated
      BY <3>5 DEF Reports!Digest
    <3>8. Follows(old, v)
      BY <1>4, <1>5, <2>2, <3>1, CreatesFollows
    <3>9. Follows(v3[m], v)
      BY <3>7, <3>8 DEF Follows
    <3>10. m + 1 # 1 /\ v.revision = m + 1
      BY <1>2, <1>8, <1>9, <3>6
    <3>11. Extends(m + 1, v3[m], v)
      BY <1>5, <2>2, <3>5, <3>7, <3>10 DEF Extends
    <3> QED BY <3>9, <3>11
  <2> QED BY <2>1, <2>2
<1>11. FactStep
  BY <1>2, <1>6 DEF FactStep, FactsStay
<1>12. \A p \in Reports!Summaries : Reports!Happened(p) => Reports!Happened(p)'
  BY <1>11, HappenedStays DEF FactStep, Reports!Happened
<1>13. ASSUME NEW i \in 1 .. m + 1
       PROVE  /\ Extends(i, v3'[i - 1], v3'[i]) /\ (i > 1 => Follows(v3'[i - 1], v3'[i]))
              /\ \E p \in Reports!Summaries : p = v3'[i].report /\ Reports!Happened(p)
  <2>1. CASE i = m + 1
    <3>1. v3'[i] = v /\ i - 1 = m
      BY <1>9, <2>1
    <3>2. CASE m = 0
      <4>1. i = 1
        BY <2>1, <3>2
      <4>2. Extends(i, v3'[i - 1], v3'[i])
        BY <1>10, <2>1, <3>1, <4>1 DEF Extends
      <4> QED BY <1>4, <3>1, <4>1, <4>2
    <3>3. CASE m # 0
      <4>1. v3'[m] = v3[m]
        BY <1>9, <3>3
      <4> QED BY <1>4, <1>9, <1>10, <2>1, <3>1, <3>3, <4>1
    <3> QED BY <3>2, <3>3
  <2>2. CASE i # m + 1
    <3>1. i \in 1 .. m /\ v3'[i] = v3[i]
      BY <1>9, <2>2
    <3>2. v3[i].report \in Reports!Summaries
      <4>1. v3[i] \in Reports!Records
        BY <1>6, <1>8, <1>9, <3>1
      <4> QED BY <4>1 DEF Reports!Records
    <3>3. CASE i = 1
      <4>1. Extends(i, v3'[i - 1], v3'[i])
        BY <1>7, <1>9, <3>1, <3>3 DEF Extends
      <4> QED BY <1>7, <1>9, <3>1, <3>2, <3>3, <4>1
    <3>4. CASE i # 1
      <4>1. i - 1 \in 1 .. m /\ v3'[i - 1] = v3[i - 1]
        BY <1>9, <3>1, <3>4
      <4> QED BY <1>7, <1>9, <3>1, <3>2, <4>1
    <3> QED BY <3>3, <3>4
  <2> QED BY <2>1, <2>2
<1>14. \A i \in 1 .. m + 1 : Reports!Happened(v3[i].report)'
  BY <1>12, <1>13
<1>15. (/\ Reports!OneChain <=> Named /\ \A i \in DOMAIN v3 : Extends(i, v3[i - 1], v3[i])
        /\ Reports!NothingLost <=> \A i \in DOMAIN v3 : /\ Reports!Happened(v3[i].report)
                                                        /\ i > 1 => Follows(v3[i - 1], v3[i]))'
  BY ChainIs, PTL
<1>16. Named'
  <2>1. v.revision \in Nat /\ Reports!Digest(v) \in Reports!Digests
    BY <1>5 DEF Reports!Records, Reports!Digest, Reports!Digests
  <2>2. v4' \in Reports!Heads /\ v4' # None
    <3>1. v4' \in Reports!Heads
      BY <1>2, <2>1 DEF Reports!Heads
    <3> QED BY <3>1, ReportsAssumed DEF Reports!ReportAssumption
  <2> QED BY <1>2, <1>8, <1>9, <2>2 DEF Named
<1>17. Reports!OneChain' /\ Reports!NothingLost'
  BY <1>9, <1>13, <1>14, <1>15, <1>16
<1>18. \A w \in Workers : Reports!RunInv(w)'
  <2>1. ASSUME NEW w \in Workers
        PROVE  Reports!RunInv(w)'
    <3>1. CASE w = r
      <4>1. v5'[r] = Reports!Idle
        BY <1>2, <1>3
      <4> QED BY <3>1, <4>1 DEF Reports!RunInv
    <3>2. CASE w # r
      <4>1. v5'[w] = v5[w]
        BY <1>2, <1>3, <3>2
      <4> QED BY <1>6, <1>11, <4>1, RunStays
    <3> QED BY <3>1, <3>2
  <2> QED BY <2>1
<1>19. SubSeq(v3', 1, Len(v3)) = v3
  BY <1>2, <1>5, <1>6
<1>20. DOMAIN v5' = Workers
  BY <1>2, <1>3
<1> QED BY <1>2, <1>6, <1>9, <1>17, <1>18, <1>19, <1>20 DEF Reports!IInv, Reports!Immutable

\* A run reads its facts: what it holds happened, and may be stored.
LEMMA ReportAggregates ==
  ASSUME Reports!IInv, NEW r \in Workers, NEW s \in Reports!Scans, Reports!Aggregate(r, s)
  PROVE  Reports!IInv' /\ Reports!Immutable
<1>1. PICK p : p = Reports!Report(s, v1)
  OBVIOUS
<1>2. /\ v1 \in Nat /\ v2 \in [Reports!Checks -> Reports!FactForms] /\ DOMAIN v5 = Workers
  BY DEF Reports!IInv
<1>3. /\ Reports!End <= v1 /\ v1' = v1 /\ v2' = v2 /\ v3' = v3 /\ v4' = v4
      /\ v5' = [v5 EXCEPT ![r] = [phase |-> "aggregated", report |-> p]]
  BY <1>1 DEF Reports!Aggregate
<1>4. Reads(s)
  BY ScanReads
<1>5. p \in Reports!Summaries
  BY <1>1, <1>2, ReportTyped
<1>6. Reports!End \in Nat
  BY ReportsAssumed DEF Reports!ReportAssumption, Reports!End
<1>7. Reports!Valid(p)
  <2>1. v1 >= Reports!End
    BY <1>2, <1>3, <1>6
  <2> QED BY <1>1, <1>2, <1>4, <2>1, ReportValid
<1>8. Reports!Happened(p)
  BY <1>1, <1>4, ReportGrows, FactsOrder DEF Reports!Happened
<1>9. FactStep
  BY <1>2, <1>3 DEF FactStep, FactsStay
<1>10. Reports!Happened(p)'
  BY <1>5, <1>8, <1>9, HappenedStays DEF FactStep, Reports!Happened
<1>11. Reports!RunInv(r)'
  <2>1. v5'[r] = [phase |-> "aggregated", report |-> p]
    BY <1>2, <1>3
  <2>2. v5'[r].phase = "aggregated" /\ v5'[r].report = p
    BY <2>1
  <2> QED BY <1>5, <1>7, <1>10, <2>2 DEF Reports!RunInv
<1>12. DOMAIN v5' = Workers /\ \A w \in Workers : v5'[w] = v5[w] \/ w = r
  BY <1>2, <1>3
<1> QED BY <1>3, <1>9, <1>11, <1>12, ReportKeeps

\* A run plans the revision that follows what HEAD names.
LEMMA ReportPlans ==
  ASSUME Reports!IInv, NEW r \in Workers, Reports!Plan(r)
  PROVE  Reports!IInv' /\ Reports!Immutable
<1>1. PICK p, old : p = v5[r].report /\ old = Reports!Stored
  OBVIOUS
<1>2. PICK v : v = Reports!Revision(old, p, v1)
  OBVIOUS
<1>3. /\ v1 \in Nat /\ v2 \in [Reports!Checks -> Reports!FactForms] /\ DOMAIN v5 = Workers
      /\ Reports!RunInv(r) /\ v3 \in Seq(Reports!Records)
  BY DEF Reports!IInv
<1>4. /\ v5[r].phase = "aggregated" /\ Reports!Creates(old, p, v1)
      /\ v1' = v1 /\ v2' = v2 /\ v3' = v3 /\ v4' = v4
      /\ v5' = [v5 EXCEPT ![r] = [phase |-> "planned", old |-> old, record |-> v]]
  BY <1>1, <1>2 DEF Reports!Plan
<1>5. p \in Reports!Summaries /\ Reports!Happened(p)
  BY <1>1, <1>3, <1>4 DEF Reports!RunInv, Reports!Idle
<1>6. old \in Reports!Records \cup {None}
  <2>1. Named
    BY ChainIs DEF Reports!IInv
  <2>2. CASE v4 = None
    BY <1>1, <2>2 DEF Reports!Stored
  <2>3. CASE v4 # None
    <3>1. v3 # <<>>
      BY <2>1, <2>3 DEF Named
    <3>2. v4 = [revision |-> Len(v3), digest |-> Reports!Digest(v3[Len(v3)])]
      BY <2>1, <3>1 DEF Named
    <3>3. v4.revision = Len(v3)
      BY <3>2
    <3>4. v3[Len(v3)] \in Reports!Records
      BY <1>3, <3>1
    <3> QED BY <1>1, <2>3, <3>3, <3>4 DEF Reports!Stored
  <2> QED BY <2>2, <2>3
<1>7. FactStep
  BY <1>3, <1>4 DEF FactStep, FactsStay
<1>8. Reports!Happened(p)'
  BY <1>5, <1>7, HappenedStays DEF FactStep, Reports!Happened
<1>9. v.report = p /\ v.generated = v1
  BY <1>2, <1>3, <1>5, <1>6, RevisionTyped DEF Made
<1>10. Reports!RunInv(r)'
  <2>1. v5'[r] = [phase |-> "planned", old |-> old, record |-> v]
    BY <1>3, <1>4
  <2>2. v5'[r].phase = "planned" /\ v5'[r].old = old /\ v5'[r].record = v
    BY <2>1
  <2> QED BY <1>2, <1>3, <1>4, <1>5, <1>6, <1>8, <1>9, <2>2 DEF Reports!RunInv
<1>11. DOMAIN v5' = Workers /\ \A w \in Workers : v5'[w] = v5[w] \/ w = r
  BY <1>3, <1>4
<1> QED BY <1>4, <1>7, <1>10, <1>11, ReportKeeps

\* A run stops.
LEMMA ReportStops ==
  ASSUME Reports!IInv, NEW r \in Workers, Reports!Stop(r)
  PROVE  Reports!IInv' /\ Reports!Immutable
<1>1. /\ v1 \in Nat /\ v2 \in [Reports!Checks -> Reports!FactForms] /\ DOMAIN v5 = Workers
  BY DEF Reports!IInv
<1>2. v5' = [v5 EXCEPT ![r] = Reports!Idle] /\ v1' = v1 /\ v2' = v2 /\ v3' = v3 /\ v4' = v4
  BY DEF Reports!Stop
<1>3. FactStep
  BY <1>1, <1>2 DEF FactStep, FactsStay
<1>4. v5'[r] = Reports!Idle
  BY <1>1, <1>2
<1>5. Reports!RunInv(r)'
  BY <1>4 DEF Reports!RunInv
<1>6. DOMAIN v5' = Workers /\ \A w \in Workers : v5'[w] = v5[w] \/ w = r
  BY <1>1, <1>2
<1> QED BY <1>2, <1>3, <1>5, <1>6, ReportKeeps

\* A fact is recorded once, and the time passes.
LEMMA ReportFacts ==
  ASSUME Reports!IInv,
         \/ \E c \in Reports!Checks :
              \/ Reports!Accept(c) \/ Reports!Try(c) \/ Reports!Vanish(c)
              \/ \E how \in {"succeeded", "failed"} : Reports!Finish(c, how)
              \/ \E o \in Reports!Outcomes : Reports!Settle(c, o)
         \/ Reports!Tick
         \/ UNCHANGED Reports!vars
  PROVE  Reports!IInv' /\ Reports!Immutable
<1>1. /\ v1 \in Nat /\ v2 \in [Reports!Checks -> Reports!FactForms] /\ DOMAIN v5 = Workers
  BY DEF Reports!IInv
<1>2. ASSUME FactStep, UNCHANGED <<v3, v4, v5>>
      PROVE  Reports!IInv' /\ Reports!Immutable
  BY <1>1, <1>2, ReportKeeps
<1>3. ASSUME NEW c \in Reports!Checks, Reports!Accept(c)
      PROVE  FactStep /\ UNCHANGED <<v3, v4, v5>>
  BY <1>1, <1>3 DEF Reports!Accept, FactStep, FactsStay, Reports!FactForms
<1>4. ASSUME NEW c \in Reports!Checks, Reports!Try(c)
      PROVE  FactStep /\ UNCHANGED <<v3, v4, v5>>
  BY <1>1, <1>4 DEF Reports!Try, FactStep, FactsStay, Reports!FactForms
<1>5. ASSUME NEW c \in Reports!Checks, Reports!Vanish(c)
      PROVE  FactStep /\ UNCHANGED <<v3, v4, v5>>
  BY <1>1, <1>5 DEF Reports!Vanish, FactStep, FactsStay, Reports!FactForms
<1>6. ASSUME NEW c \in Reports!Checks, NEW how \in {"succeeded", "failed"}, Reports!Finish(c, how)
      PROVE  FactStep /\ UNCHANGED <<v3, v4, v5>>
  BY <1>1, <1>6 DEF Reports!Finish, FactStep, FactsStay, Reports!FactForms
<1>7. ASSUME NEW c \in Reports!Checks, NEW o \in Reports!Outcomes, Reports!Settle(c, o)
      PROVE  FactStep /\ UNCHANGED <<v3, v4, v5>>
  BY <1>1, <1>7 DEF Reports!Settle, FactStep, FactsStay, Reports!FactForms
<1>8. ASSUME Reports!Tick
      PROVE  FactStep /\ UNCHANGED <<v3, v4, v5>>
  BY <1>1, <1>8 DEF Reports!Tick, FactStep, FactsStay
<1>9. ASSUME UNCHANGED Reports!vars
      PROVE  FactStep /\ UNCHANGED <<v3, v4, v5>>
  BY <1>1, <1>9 DEF Reports!vars, FactStep, FactsStay
<1> QED BY <1>2, <1>3, <1>4, <1>5, <1>6, <1>7, <1>8, <1>9

\* Every step of the reports keeps their invariant, and what is stored.
LEMMA ReportStep ==
  ASSUME Reports!IInv, [Reports!Next]_(Reports!vars)
  PROVE  Reports!IInv' /\ Reports!Immutable
BY ReportAggregates, ReportPlans, ReportStops, ReportCommits, ReportFacts DEF Reports!Next

\* The invariant holds at first: nothing has happened and nothing is stored.
LEMMA ReportStarts ==
  ASSUME Reports!Init
  PROVE  Reports!IInv
<1>1. /\ v1 = 0 /\ v2 = [c \in Reports!Checks |-> Reports!Unknown] /\ v3 = <<>> /\ v4 = None
      /\ v5 = [r \in Workers |-> Reports!Idle]
  BY DEF Reports!Init
<1>2. v2 \in [Reports!Checks -> Reports!FactForms]
  BY <1>1 DEF Reports!Unknown, Reports!FactForms
<1>3. Reports!OneChain /\ Reports!NothingLost
  BY <1>1, ChainIs DEF Named
<1>4. DOMAIN v5 = Workers /\ \A r \in Workers : Reports!RunInv(r)
  BY <1>1 DEF Reports!RunInv
<1> QED BY <1>1, <1>2, <1>3, <1>4 DEF Reports!IInv

\* What the invariant says of a report and of the stored ones.
LEMMA ReportPromises ==
  ASSUME Reports!IInv
  PROVE  Reports!AggregatesValid /\ Reports!OneChain /\ Reports!NothingLost
BY DEF Reports!IInv, Reports!RunInv, Reports!Idle, Reports!AggregatesValid

\* However many runs overlap, and whatever their scans miss, every report of a day that
\* is over may be stored, the stored revisions form one chain that loses nothing and
\* stays, and all that they count has happened (operations_reporting).
THEOREM ReportsSound ==
  Reports!Spec => /\ [](Reports!AggregatesValid /\ Reports!OneChain /\ Reports!NothingLost)
                  /\ [][Reports!Immutable]_(Reports!vars)
<1>1. Reports!Init => Reports!IInv
  BY ReportStarts
<1>2. Reports!IInv /\ [Reports!Next]_(Reports!vars) => Reports!IInv'
  BY ReportStep
<1>3. Reports!IInv /\ [Reports!Next]_(Reports!vars) => [Reports!Immutable]_(Reports!vars)
  BY ReportStep
<1>4. Reports!IInv => Reports!AggregatesValid /\ Reports!OneChain /\ Reports!NothingLost
  BY ReportPromises
<1> QED BY <1>1, <1>2, <1>3, <1>4, PTL DEF Reports!Spec

\* The facts captured of a check are true of it and only grow while its linkage lives,
\* its ticket is backed by its row, what it captures is found in time, and the reports
\* of those facts form one chain that loses nothing (shared_operations,
\* operations_reporting).
THEOREM OperationsSound == Spec => OperationsHold
<1> DEFINE Inv == /\ part = "receipt" => Receipt!IInv
                  /\ part \in {"reports", "rivals"} => Reports!IInv
<1>1. Init => Inv
  <2>1. ASSUME Receipt!Init PROVE Receipt!IInv
    BY <2>1, ReceiptAssumed DEF Receipt!Init, Receipt!IInv, Receipt!RowInv, Receipt!FactsInv, Receipt!CheckInv,
       Receipt!CaptureInv, Receipt!CheckForms, Receipt!Measures, Receipt!TicketIsBacked, Receipt!ReceiptAssumption
  <2> QED BY <2>1, ReportStarts DEF Init
<1>2. Inv /\ [Next]_vars => Inv'
  <2>1. CASE Next
    BY <2>1, ReceiptStep, ReportStep DEF Next
  <2>2. CASE UNCHANGED vars
    <3>1. Receipt!IInv => Receipt!IInv'
      BY <2>2 DEF vars, Receipt!IInv, Receipt!RowInv, Receipt!FactsInv, Receipt!CheckInv, Receipt!CaptureInv,
         Receipt!Agrees, Receipt!Facts, Receipt!TicketIsBacked, Receipt!HasLinkage, Receipt!Events
    <3>2. Reports!IInv => Reports!IInv'
      BY <2>2, ReportStep DEF vars, Reports!vars
    <3> QED BY <2>2, <3>1, <3>2 DEF vars
  <2> QED BY <2>1, <2>2
<1>3. Inv /\ [Next]_vars => /\ [part = "receipt" => Receipt!OnlyGrow]_vars
                            /\ [(part \in {"reports", "rivals"}) => Reports!Immutable]_vars
  BY ReceiptStep, ReportStep DEF Next
<1>4. Inv => /\ part = "receipt" => /\ Receipt!TypeOK /\ Receipt!FactsTrue /\ Receipt!TicketIsBacked
                                    /\ Receipt!FoundInTime
             /\ part \in {"reports", "rivals"} =>
                  Reports!AggregatesValid /\ Reports!OneChain /\ Reports!NothingLost
  BY ReceiptPromises, ReportPromises
<1> QED BY <1>1, <1>2, <1>3, <1>4, PTL DEF Spec, OperationsHold
=============================================================================
