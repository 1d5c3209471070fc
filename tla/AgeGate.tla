------------------------------- MODULE AgeGate -------------------------------
(***************************************************************************)
(* The profile of one account from sign-up to its erasure: post_confirmation *)
(* creates it behind the age gate, age_attestation opens the gate, and the *)
(* deletion of the account closes it and removes the rows (account_data_api, *)
(* delete_user_profile_state). An attestation reads without isolation and  *)
(* writes in one transaction; it may be repeated with the same operationId *)
(* by several invocations at once.                                         *)
(***************************************************************************)
EXTENDS Naturals

CONSTANTS
  Operations,  \* operationIds of the clients' attestations
  Workers,     \* invocations under way at once
  Attempts,    \* how often one invocation tries its transaction
  Life,        \* days a receipt is kept
  MaxDay,      \* bound of the clock
  None

VARIABLES
  profile,  \* the PROFILE row: its status and the instant it was attested at
  receipt,  \* the AGE_ATTESTATION rows: the instant answered, the day of expiry
  command,  \* None, or the day the deletion of the account was requested
  erased,   \* the USER_PROFILE component has its receipt
  job,      \* invocations
  told,     \* the instant a client was told of for each operation
  day

vars == <<profile, receipt, command, erased, job, told, day>>

Absent == [status |-> "absent", at |-> None]
Idle == [phase |-> "idle"]
\* An instant is named by the attempt that took it from its clock.
Instants == Operations \X Workers
Profiles == [status : {"absent", "PENDING_AGE_GATE", "ACTIVE", "DELETION_REQUESTED"},
             at : Instants \cup {None}]
Receipts == [at : Instants, until : Nat]

GateAssumption ==
  /\ Attempts \in Nat /\ Life \in Nat /\ MaxDay \in Nat
  /\ None \notin Instants /\ None \notin Receipts /\ None \notin 0..MaxDay

TypeOK ==
  /\ profile \in Profiles
  /\ receipt \in [Operations -> Receipts \cup {None}]
  /\ command \in 0..MaxDay \cup {None}
  /\ erased \in BOOLEAN
  /\ told \in [Operations -> Instants \cup {None}]
  /\ day \in 0..MaxDay

Init ==
  /\ profile = Absent
  /\ receipt = [o \in Operations |-> None]
  /\ command = None /\ erased = FALSE
  /\ job = [w \in Workers |-> Idle]
  /\ told = [o \in Operations |-> None]
  /\ day = 0

\* The trigger of a confirmed sign-up; a repeated one finds the row and leaves it.
SignUp ==
  /\ command = None /\ profile = Absent
  /\ profile' = [Absent EXCEPT !.status = "PENDING_AGE_GATE"]
  /\ UNCHANGED <<receipt, command, erased, job, told, day>>

-----------------------------------------------------------------------------
(* age_attestation. Requests with other fields, subjects without a token and *)
(* phone regions that are not allowed are refused before any row is read.    *)

\* `t` is the day the invocation began: it reads its clock once.
Replaying(o, t) ==
  IF receipt[o].until < t THEN Idle
  ELSE [phase |-> "replay", op |-> o, at |-> receipt[o].at, day |-> t]
Trying(o, n, t) == [phase |-> "read", op |-> o, left |-> n, day |-> t]

Begin(w, o) ==
  /\ job[w] = Idle
  /\ job' = [job EXCEPT ![w] = IF receipt[o] # None THEN Replaying(o, day)
                                                    ELSE Trying(o, Attempts, day)]
  /\ UNCHANGED <<profile, receipt, command, erased, told, day>>

\* An account that is attested already keeps its instant.
Attested(p) == p.status = "ACTIVE"

ReadProfile(w) ==
  /\ job[w].phase = "read"
  /\ job' = [job EXCEPT ![w] =
       IF profile.status \notin {"PENDING_AGE_GATE", "ACTIVE"} THEN Idle
       ELSE [phase |-> "write", op |-> job[w].op, left |-> job[w].left - 1, day |-> job[w].day,
             seen |-> profile,
             at |-> IF Attested(profile) THEN profile.at ELSE <<job[w].op, w>>]]
  /\ UNCHANGED <<profile, receipt, command, erased, told, day>>

\* Mutant: conditions the status to be mutable, not the profile that was read.
MutableOnly(seen) == profile.status \in {"PENDING_AGE_GATE", "ACTIVE"}

\* _profile_snapshot_condition.
Snapshot(seen) == profile = seen

CanAttest(w) ==
  /\ job[w].phase = "write"
  /\ command = None /\ Snapshot(job[w].seen) /\ receipt[job[w].op] = None

Attest(w) ==
  /\ CanAttest(w)
  /\ profile' = IF Attested(job[w].seen) THEN profile ELSE [status |-> "ACTIVE", at |-> job[w].at]
  /\ receipt' = [receipt EXCEPT ![job[w].op] = [at |-> job[w].at, until |-> job[w].day + Life]]
  /\ \/ told' = [told EXCEPT ![job[w].op] = job[w].at]
     \/ UNCHANGED told  \* the answer is lost
  /\ job' = [job EXCEPT ![w] = Idle]
  /\ UNCHANGED <<command, erased, day>>

\* A cancelled transaction: another invocation's receipt is replayed, else the
\* profile is read again.
Cancelled(w) ==
  /\ job[w].phase = "write" /\ ~CanAttest(w)
  /\ LET o == job[w].op IN
     job' = [job EXCEPT ![w] = IF receipt[o] # None THEN Replaying(o, job[w].day)
                               ELSE IF job[w].left > 0 THEN Trying(o, job[w].left, job[w].day)
                               ELSE Idle]
  /\ UNCHANGED <<profile, receipt, command, erased, told, day>>

\* The fence, the profile and the receipt are conditioned together before a stored
\* answer is given again.
Replay(w) ==
  /\ job[w].phase = "replay"
  /\ LET stored == receipt[job[w].op] IN
     told' = IF /\ command = None
                /\ profile = [status |-> "ACTIVE", at |-> job[w].at]
                /\ stored # None /\ (stored # None => stored.until >= job[w].day)
             THEN [told EXCEPT ![job[w].op] = job[w].at] ELSE told
  /\ job' = [job EXCEPT ![w] = Idle]
  /\ UNCHANGED <<profile, receipt, command, erased, day>>

Crash(w) ==
  /\ job[w] # Idle
  /\ job' = [job EXCEPT ![w] = Idle]
  /\ UNCHANGED <<profile, receipt, command, erased, told, day>>

-----------------------------------------------------------------------------
(* The deletion of the account *)

RequestDeletion ==
  /\ command = None
  /\ profile.status \in {"PENDING_AGE_GATE", "ACTIVE"}
  /\ profile' = [profile EXCEPT !.status = "DELETION_REQUESTED"]
  /\ command' = day
  /\ UNCHANGED <<receipt, erased, job, told, day>>

\* delete_user_profile_state reads the partition in the order of its keys, where the
\* receipts of attestations come first. It has no case for them and raises.
Erasable == command # None /\ ~erased /\ \A o \in Operations : receipt[o] = None

EraseProfile ==
  /\ Erasable /\ profile # Absent
  /\ profile' = Absent
  /\ UNCHANGED <<receipt, command, erased, job, told, day>>

FinishErasure ==
  /\ Erasable /\ profile = Absent
  /\ erased' = TRUE
  /\ UNCHANGED <<profile, receipt, command, job, told, day>>

\* The table drops a receipt some time after its expiry.
Expire(o) ==
  /\ receipt[o] # None /\ (receipt[o] # None => receipt[o].until < day)
  /\ receipt' = [receipt EXCEPT ![o] = None]
  /\ UNCHANGED <<profile, command, erased, job, told, day>>

Tick ==
  /\ day < MaxDay
  /\ day' = day + 1
  /\ UNCHANGED <<profile, receipt, command, erased, job, told>>

Work ==
  \/ SignUp \/ RequestDeletion \/ EraseProfile \/ FinishErasure
  \/ \E o \in Operations : Expire(o)
  \/ \E w \in Workers :
       \/ \E o \in Operations : Begin(w, o)
       \/ ReadProfile(w) \/ Attest(w) \/ Cancelled(w) \/ Replay(w) \/ Crash(w)

Next == Work \/ Tick

Spec == Init /\ [][Next]_vars

-----------------------------------------------------------------------------
(* The invariant the properties are proved from (ServicesProofs) *)

\* An attempt names the instant of the profile it read, if that has one.
JobInv(w) ==
  LET j == job[w] IN
  \/ j = Idle
  \/ j.phase = "read" /\ j.op \in Operations /\ j.day \in 0..MaxDay
  \/ /\ j.phase = "write" /\ j.op \in Operations /\ j.day \in 0..MaxDay
     /\ j.seen.status \in {"PENDING_AGE_GATE", "ACTIVE"} /\ j.at \in Instants
     /\ Attested(j.seen) => j.at = j.seen.at
  \/ j.phase = "replay" /\ j.op \in Operations /\ j.at \in Instants

\* What clients were told and receipts say is the instant of the profile, until the
\* deletion removes that; nothing is said before the gate was opened.
Recorded ==
  /\ profile.status = "ACTIVE" => profile.at \in Instants
  /\ profile.status \in {"absent", "PENDING_AGE_GATE"} => profile.at = None
  /\ command # None => profile.status \in {"DELETION_REQUESTED", "absent"}
  /\ \E a \in Instants \cup {None} :
       /\ profile.at \in {a, None}
       /\ command = None => a = profile.at
       /\ \A o \in Operations : told[o] \in {a, None}
                              /\ (receipt[o] # None => receipt[o].at = a)
  /\ erased => command # None /\ profile = Absent

IInv == TypeOK /\ DOMAIN job = Workers /\ (\A w \in Workers : JobInv(w)) /\ Recorded

-----------------------------------------------------------------------------
(* Properties *)

\* The account is attested once: however often and under whatever operationIds clients
\* ask, at the same time or after lost answers, every answer, every stored receipt and
\* the profile name one instant.
AttestedOnce ==
  LET named == {told[o] : o \in Operations}
               \cup {receipt[o].at : o \in {q \in Operations : receipt[q] # None}}
               \cup {profile.at}
  IN \A a, b \in named \ {None} : a = b

\* Behind the deletion's fence no row is written and nobody is told of an
\* attestation, also by invocations that read before it; an erased profile stays so.
ClosedForGood ==
  /\ command # None => /\ told' = told
                       /\ profile' \in {profile, Absent}
                       /\ \A o \in Operations : receipt'[o] \in {receipt[o], None}
  /\ erased => profile' = Absent
=============================================================================
