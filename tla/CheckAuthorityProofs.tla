------------------------ MODULE CheckAuthorityProofs ------------------------
(***************************************************************************)
(* Theorems about CheckAuthority, for any number of clients, proofs,       *)
(* consumers, sweeps and devices and any settings SettingsValid allows.    *)
(*                                                                         *)
(* The argument is one inductive invariant, IInv.  TokenInv, AdmissionInv, *)
(* ChargeInv and ToldInv tell the life of one proof: in particular a proof *)
(* that was admitted and has no CHECK row any more is so old that its      *)
(* retention is over.  PrepInv dates a PREPARE row by its proof.  JobInv   *)
(* says what an invocation may still assume when its transaction arrives:  *)
(* it read its rows at a time "at", an InvocationLimit ago at most, and    *)
(* what it read then bounds what can have happened since.  Accounting      *)
(* ties the counters to the receipts.  Only together are they inductive:   *)
(* that a proof is admitted once needs the dates, that the counters fit    *)
(* needs single admission.  The last section proves the refinement.        *)
(***************************************************************************)
EXTENDS CheckAuthority, FiniteSetTheorems, TLAPS

Minted(p) == token[p].client \in Clients

\* The time from which the receipt of proof p may be gone: it was minted
\* Validity before it expires, and its receipt is kept for Retention after that.
ForgetAt(p) == token[p].expiry - Validity + Retention

TokenInv(p) ==
  \/ token[p] = NoToken
  \/ Minted(p) /\ token[p].expiry - Validity <= now

AdmissionInv(p) ==
  /\ admissions[p] \in {0, 1}
  /\ admissions[p] = 0 => check[p] = NoCheck /\ p \notin charged
  /\ admissions[p] = 1 => Minted(p)
  /\ check[p].state = "NONE" => check[p] = NoCheck
  /\ check[p].state # "NONE" => admissions[p] = 1 /\ check[p].retention >= ForgetAt(p)
  /\ admissions[p] = 1 /\ check[p].state = "NONE" => now >= ForgetAt(p)

ChargeInv(p) ==
  /\ check[p].state = "ADMITTED" => p \notin charged
  /\ check[p].state = "SETTLED" => (check[p].charge = 1 <=> p \in charged)

ToldInv(p) ==
  /\ "not_started" \in told[p] =>
       /\ admissions[p] = 0
       /\ Minted(p)
       /\ \A c \in Clients : prep[c].proof = p => ~prep[c].open
  /\ "one" \in told[p] => p \in charged
  /\ "zero" \in told[p] => /\ admissions[p] = 1
                           /\ p \notin charged
                           /\ check[p].state # "ADMITTED"

PrepInv(c) ==
  \/ prep[c] = NoPrep
  \/ /\ prep[c].proof \in Proofs
     /\ token[prep[c].proof].client = c
     /\ prep[c].expiresAt = ForgetAt(prep[c].proof)

AdmitInv(j) ==
  j.op = "admit" =>
    /\ j.proof \in Proofs /\ j.client \in Clients
    /\ token[j.proof].client = j.client
    /\ j.at < token[j.proof].expiry /\ token[j.proof].expiry - Validity <= j.at
    /\ j.revision <= access.revision
    /\ j.revision = access.revision /\ access.basis = "trial" =>
         j.period.used + j.period.reserved < TrialLimit

CloseInv(j) ==
  j.op = "close" =>
    /\ j.proof \in Proofs /\ j.client \in Clients
    /\ token[j.proof].client = j.client
    /\ admissions[j.proof] = 1 =>
         LET gone == j.at - InvocationLimit + Retention IN
         IF check[j.proof].state = "NONE" THEN now >= gone
         ELSE check[j.proof].retention >= gone

SettleInv(j) ==
  j.op \in {"settle", "recover", "lease"} =>
    /\ j.proof \in Proofs
    /\ admissions[j.proof] = 1
    /\ token[j.proof].expiry - Validity <= j.at
    /\ j.charge = 1 => j.op = "settle" /\ (check[j.proof].state = "ADMITTED" => check[j.proof].metered)

\* "phase" is not mentioned: what holds before the transaction is submitted
\* still holds when its outcome is in doubt.
JobInv(j) ==
  /\ j.at <= now
  /\ j.op = "prepare" => j.client \in Clients
  /\ AdmitInv(j)
  /\ CloseInv(j)
  /\ SettleInv(j)
  /\ j.op = "expire_check" => j.proof \in Proofs /\ j.expiry <= j.at
  /\ j.op = "expire_prepare" => j.client \in Clients

IInv ==
  /\ TypeOK
  /\ \A p \in Proofs : TokenInv(p) /\ AdmissionInv(p) /\ ChargeInv(p) /\ ToldInv(p)
  /\ \A c \in Clients : PrepInv(c)
  /\ \A w \in Workers \cup Sweepers : JobInv(job[w])
  /\ Accounting

-----------------------------------------------------------------------------
(* Type correctness *)

\* What Settings.validate gives the proofs as arithmetic.
LEMMA ConstantFacts ==
  /\ Validity \in Nat /\ Settlement \in Nat /\ Retention \in Nat
  /\ TrialLimit \in Nat /\ MaxInflight \in Nat /\ InvocationLimit \in Nat
  /\ TrialEnd \in Nat /\ Horizon \in Nat /\ MaxRevision \in Nat
  /\ Validity + InvocationLimit <= Retention
  /\ 2 * InvocationLimit < Retention
BY SettingsAssumption DEF SettingsValid

\* An idle invocation is a job.
LEMMA IdleIsJob == Idle \in Jobs
BY DEF Idle, Jobs, Periods, Times, AccessStates, Operations

\* So are the values an absent PREPARE, CHECK or proof stands for.
LEMMA EmptyRows ==
  /\ NoPrep \in PrepRows
  /\ NoToken \in Tokens
  /\ NoCheck \in CheckRows
BY DEF NoPrep, PrepRows, NoToken, Tokens, NoCheck, CheckRows, Times

\* A new account's rows have their types.
LEMMA InitTypeOK == Init => TypeOK
<1> SUFFICES ASSUME Init PROVE TypeOK
  OBVIOUS
<1>1. access \in [state : AccessStates, basis : Bases, revision : Nat] /\ period \in Periods
  BY DEF Init, AccessStates, Bases, Periods
<1>2. /\ prep \in [Clients -> PrepRows]
      /\ token \in [Proofs -> Tokens]
      /\ check \in [Proofs -> CheckRows]
      /\ job \in [Workers \cup Sweepers -> Jobs]
  BY EmptyRows, IdleIsJob DEF Init
<1> QED BY <1>1, <1>2 DEF Init, TypeOK

\* An invocation that ends is idle.
LEMMA FinishType ==
  ASSUME TypeOK, NEW w \in Workers \cup Sweepers, Finish(w)
  PROVE  job' \in [Workers \cup Sweepers -> Jobs]
BY IdleIsJob DEF TypeOK, Finish

\* After an exception of _transact a job only changes its phase.
LEMMA UncertainType ==
  ASSUME TypeOK, NEW w \in Workers \cup Sweepers, Uncertain(w)
  PROVE  job' \in [Workers \cup Sweepers -> Jobs]
<1>1. [job[w] EXCEPT !.phase = "reread"] \in Jobs
  BY DEF TypeOK, Jobs
<1> QED BY <1>1 DEF TypeOK, Uncertain

\* An answer is told to one client.
LEMMA TellType ==
  ASSUME TypeOK, NEW p \in Proofs, NEW A \in SUBSET Answers, Tell(p, A)
  PROVE  told' \in [Proofs -> SUBSET Answers]
BY DEF TypeOK, Tell

\* The transaction of _settle and of Recovery.expire writes typed rows.
LEMMA SettleType ==
  ASSUME TypeOK, NEW p \in Proofs, NEW charge \in {0, 1}, NEW retention \in Times,
         Settle(p, charge, retention)
  PROVE  /\ period' \in Periods
         /\ inflight' \in Nat
         /\ check' \in [Proofs -> CheckRows]
         /\ charged' \subseteq Proofs
<1>1. period' \in Periods
  BY DEF TypeOK, Settle, Periods, CheckRows
<1>2. inflight' \in Nat
  BY DEF TypeOK, Settle
<1>3. check' \in [Proofs -> CheckRows]
  <2>1. check[p] \in CheckRows
    BY DEF TypeOK
  <2>2. [check[p] EXCEPT !.state = "SETTLED", !.charge = charge, !.retention = retention]
           \in CheckRows
    BY <2>1 DEF CheckRows, Times
  <2> QED BY <2>2 DEF TypeOK, Settle
<1>4. charged' \subseteq Proofs
  BY DEF TypeOK, Settle
<1> QED BY <1>1, <1>2, <1>3, <1>4

\* What a Begin action writes: an Idle record with some fields replaced.
LEMMA BeginType ==
  ASSUME TypeOK, NEW w \in Workers \cup Sweepers, NEW j \in Jobs, Begin(w, j)
  PROVE  job' \in [Workers \cup Sweepers -> Jobs]
BY DEF TypeOK, Begin

\* _receipt_public answers from a fixed set.
LEMMA ReceiptAnswerType == \A p \in Proofs : ReceiptAnswer(p) \in SUBSET Answers
BY DEF ReceiptAnswer, Answers

\* prepare, admit, reconcile, settle and recover_expired keep the types.
LEMMA ConsumerTypeOK ==
  ASSUME TypeOK, \A p \in Proofs : TokenInv(p), NEW w \in Workers, JobInv(job[w]), Consumer(w)
  PROVE  TypeOK'
<1> w \in Workers \cup Sweepers
  OBVIOUS
<1> USE DEF rows, history
<1>1. ASSUME NEW c \in Clients, NEW d \in Devices, BeginPrepare(w, c, d)
      PROVE  TypeOK'
  <2>1. now \in Int /\ access.revision \in Nat
    BY DEF TypeOK
  <2>2. [Idle EXCEPT !.op = "prepare", !.phase = "commit", !.client = c,
                     !.device = d, !.at = now, !.revision = access.revision] \in Jobs
    BY <2>1, IdleIsJob DEF Jobs, Operations, Times
  <2>3. job' \in [Workers \cup Sweepers -> Jobs]
    BY <1>1, <2>2, BeginType DEF BeginPrepare
  <2> QED BY <1>1, <2>3 DEF BeginPrepare, TypeOK
<1>2. ASSUME NEW p \in Proofs, CommitPrepare(w, p)
      PROVE  TypeOK'
  <2>1. job' \in [Workers \cup Sweepers -> Jobs]
    BY <1>2, FinishType DEF CommitPrepare
  <2>2. job[w].at \in Int /\ job[w].client \in Clients \cup {Nil}
    BY DEF TypeOK, Jobs, Times
  <2>3. [client |-> job[w].client, expiry |-> job[w].at + Validity] \in Tokens
    BY <2>2, ConstantFacts DEF Tokens, Times
  <2>4. token' \in [Proofs -> Tokens]
    BY <1>2, <2>3 DEF CommitPrepare, TypeOK
  <2>5. [proof |-> p, open |-> TRUE, expiresAt |-> job[w].at + Retention] \in PrepRows
    BY <2>2, ConstantFacts DEF PrepRows, Times
  <2>6. prep' \in [Clients -> PrepRows]
    BY <1>2, <2>5 DEF CommitPrepare, TypeOK
  <2> QED BY <1>2, <2>1, <2>4, <2>6 DEF CommitPrepare, TypeOK
<1>3. ASSUME NEW p \in Proofs, NEW d \in Devices, BeginAdmit(w, p, d)
      PROVE  TypeOK'
  <2>1. /\ now \in Int /\ access.revision \in Nat /\ period \in Periods
        /\ token[p].client \in Clients \cup {Nil}
    BY DEF TypeOK, Tokens
  <2>2. [Idle EXCEPT !.op = "admit", !.phase = "commit", !.proof = p,
                     !.client = token[p].client, !.device = d, !.at = now,
                     !.revision = access.revision, !.period = period] \in Jobs
    BY <2>1, IdleIsJob DEF Jobs, Operations, Times
  <2>3. job' \in [Workers \cup Sweepers -> Jobs]
    BY <1>3, <2>2, BeginType DEF BeginAdmit
  <2> QED BY <1>3, <2>3 DEF BeginAdmit, TypeOK
<1>4. ASSUME CommitAdmit(w)
      PROVE  TypeOK'
  <2>1. job' \in [Workers \cup Sweepers -> Jobs]
    BY <1>4, FinishType, UncertainType DEF CommitAdmit
  <2>2. period' \in Periods
    <3>1. period \in Periods /\ [period EXCEPT !.reserved = @ + 1] \in Periods
      BY DEF TypeOK, Periods
    <3> QED BY <1>4, <3>1 DEF CommitAdmit
  <2>3. job[w].at \in Int
    BY DEF TypeOK, Jobs, Times
  <2>4. ASSUME NEW metered \in BOOLEAN
        PROVE  [state |-> "ADMITTED", metered |-> metered, charge |-> 0,
                settleBy |-> job[w].at + Settlement,
                retention |-> job[w].at + Retention] \in CheckRows
    BY <2>3, ConstantFacts DEF CheckRows, Times
  <2>5. check' \in [Proofs -> CheckRows]
    BY <1>4, <2>4 DEF CommitAdmit, TypeOK
  <2>6. inflight' \in Nat /\ held' \subseteq Proofs /\ admissions' \in [Proofs -> Nat]
    BY <1>4 DEF CommitAdmit, TypeOK, Submitting, JobInv, AdmitInv
  <2> QED BY <1>4, <2>1, <2>2, <2>5, <2>6 DEF CommitAdmit, TypeOK
<1>5. ASSUME NEW p \in Proofs, BeginClose(w, p)
      PROVE  TypeOK'
  <2>1. /\ now \in Int
        /\ token[p].client \in Clients
        /\ prep[token[p].client].open \in BOOLEAN
    BY <1>5 DEF BeginClose, TypeOK, Tokens, PrepRows, TokenInv, Minted
  <2>2. [Idle EXCEPT !.op = "close", !.phase = "commit", !.proof = p,
                     !.client = token[p].client, !.at = now,
                     !.open = prep[token[p].client].open] \in Jobs
    BY <2>1, IdleIsJob DEF Jobs, Operations, Times
  <2>3. job' \in [Workers \cup Sweepers -> Jobs]
    BY <1>5, <2>2, BeginType DEF BeginClose
  <2> QED BY <1>5, <2>3 DEF BeginClose, TypeOK
<1>6. ASSUME CommitClose(w)
      PROVE  TypeOK'
  <2>1. job' \in [Workers \cup Sweepers -> Jobs]
    BY <1>6, FinishType, UncertainType DEF CommitClose
  <2>2. prep' \in [Clients -> PrepRows]
    <3>1. prep \in [Clients -> PrepRows] /\ \E c : prep' = [prep EXCEPT ![c].open = FALSE]
      BY <1>6 DEF CommitClose, TypeOK
    <3> QED BY <3>1 DEF PrepRows
  <2>3. told' \in [Proofs -> SUBSET Answers]
    <3>1. job[w].proof \in Proofs
      BY <1>6 DEF CommitClose, Submitting, JobInv, CloseInv
    <3>2. {"not_started"} \in SUBSET Answers
      BY DEF Answers
    <3>3. told' = told \/ Tell(job[w].proof, {"not_started"})
      BY <1>6 DEF CommitClose
    <3> QED BY <3>1, <3>2, <3>3, TellType DEF TypeOK
  <2> QED BY <1>6, <2>1, <2>2, <2>3 DEF CommitClose, TypeOK
<1>7. ASSUME NEW p \in Proofs, NEW outcome \in {"complete", "failed"}, BeginSettle(w, p, outcome)
      PROVE  TypeOK'
  <2>1. now \in Int /\ ChargeOf(p, outcome) \in {0, 1}
    BY DEF TypeOK, ChargeOf
  <2>2. [Idle EXCEPT !.op = "settle", !.phase = "commit", !.proof = p,
                     !.at = now, !.charge = ChargeOf(p, outcome)] \in Jobs
    BY <2>1, IdleIsJob DEF Jobs, Operations, Times
  <2>3. job' \in [Workers \cup Sweepers -> Jobs]
    BY <1>7, <2>2, BeginType DEF BeginSettle
  <2> QED BY <1>7, <2>3 DEF BeginSettle, TypeOK
<1>8. ASSUME NEW p \in Proofs, BeginRecover(w, p)
      PROVE  TypeOK'
  <2>1. now \in Int
    BY DEF TypeOK
  <2>2. [Idle EXCEPT !.op = "recover", !.phase = "commit", !.proof = p, !.at = now] \in Jobs
    BY <2>1, IdleIsJob DEF Jobs, Operations, Times
  <2>3. job' \in [Workers \cup Sweepers -> Jobs]
    BY <1>8, <2>2, BeginType DEF BeginRecover
  <2> QED BY <1>8, <2>3 DEF BeginRecover, TypeOK
<1>9. ASSUME NEW op \in {"settle", "recover"}, CommitSettle(w, op)
      PROVE  TypeOK'
  <2>1. job' \in [Workers \cup Sweepers -> Jobs]
    BY <1>9, UncertainType DEF CommitSettle
  <2>2. /\ job[w].proof \in Proofs /\ job[w].charge \in {0, 1} /\ job[w].at \in Int
    BY <1>9 DEF CommitSettle, Submitting, JobInv, SettleInv, TypeOK, Jobs, Times
  <2>3. PICK retention \in {check[job[w].proof].retention}
                             \cup (IF GovernedHistory THEN {job[w].at + Retention} ELSE {}) :
           Settle(job[w].proof, job[w].charge, retention)
    BY <1>9 DEF CommitSettle
  <2>4. retention \in Times
    BY <2>2, ConstantFacts DEF TypeOK, CheckRows, Times
  <2>5. period' \in Periods /\ inflight' \in Nat /\ check' \in [Proofs -> CheckRows]
          /\ charged' \subseteq Proofs
    BY <2>2, <2>3, <2>4, SettleType
  <2> QED BY <1>9, <2>1, <2>5 DEF CommitSettle, TypeOK
<1> QED BY <1>1, <1>2, <1>3, <1>4, <1>5, <1>6, <1>7, <1>8, <1>9 DEF Consumer

\* So do Recovery.expire and Expiry.expire.
LEMMA SweepTypeOK ==
  ASSUME TypeOK, NEW s \in Sweepers, JobInv(job[s]), Sweep(s)
  PROVE  TypeOK'
<1> s \in Workers \cup Sweepers
  OBVIOUS
<1> USE DEF rows, history
<1>0. /\ now \in Int /\ access.state \in AccessStates
      /\ \A p \in Proofs : check[p].retention \in Int
      /\ \A c \in Clients : prep[c].expiresAt \in Int
  BY DEF TypeOK, CheckRows, PrepRows, Times
<1>1. ASSUME NEW p \in Proofs, BeginLease(s, p)
      PROVE  TypeOK'
  <2>1. [Idle EXCEPT !.op = "lease", !.phase = "commit", !.proof = p, !.at = now] \in Jobs
    BY <1>0, IdleIsJob DEF Jobs, Operations, Times
  <2>2. job' \in [Workers \cup Sweepers -> Jobs]
    BY <1>1, <2>1, BeginType DEF BeginLease
  <2> QED BY <1>1, <2>2 DEF BeginLease, TypeOK
<1>2. ASSUME CommitLease(s)
      PROVE  TypeOK'
  <2>1. job' \in [Workers \cup Sweepers -> Jobs]
    BY <1>2, FinishType DEF CommitLease
  <2>2. job[s].proof \in Proofs
    BY <1>2 DEF CommitLease, Submitting, JobInv, SettleInv
  <2>3. period' \in Periods /\ inflight' \in Nat /\ check' \in [Proofs -> CheckRows]
          /\ charged' \subseteq Proofs
    BY <1>0, <1>2, <2>2, SettleType DEF CommitLease, Times
  <2> QED BY <1>2, <2>1, <2>3 DEF CommitLease, TypeOK
<1>3. ASSUME NEW c \in Clients, BeginExpirePrepare(s, c)
      PROVE  TypeOK'
  <2>1. [Idle EXCEPT !.op = "expire_prepare", !.phase = "commit", !.client = c,
                     !.at = now, !.expiry = prep[c].expiresAt,
                     !.access = access.state] \in Jobs
    BY <1>0, IdleIsJob DEF Jobs, Operations, Times
  <2>2. job' \in [Workers \cup Sweepers -> Jobs]
    BY <1>3, <2>1, BeginType DEF BeginExpirePrepare
  <2> QED BY <1>3, <2>2 DEF BeginExpirePrepare, TypeOK
<1>4. ASSUME CommitExpirePrepare(s)
      PROVE  TypeOK'
  <2>1. job' \in [Workers \cup Sweepers -> Jobs]
    BY <1>4, FinishType DEF CommitExpirePrepare
  <2>2. prep' \in [Clients -> PrepRows]
    BY <1>4, EmptyRows DEF CommitExpirePrepare, TypeOK
  <2> QED BY <1>4, <2>1, <2>2 DEF CommitExpirePrepare, TypeOK
<1>5. ASSUME NEW p \in Proofs, BeginExpireCheck(s, p)
      PROVE  TypeOK'
  <2>1. [Idle EXCEPT !.op = "expire_check", !.phase = "commit", !.proof = p,
                     !.at = now, !.expiry = check[p].retention,
                     !.access = access.state] \in Jobs
    BY <1>0, IdleIsJob DEF Jobs, Operations, Times
  <2>2. job' \in [Workers \cup Sweepers -> Jobs]
    BY <1>5, <2>1, BeginType DEF BeginExpireCheck
  <2> QED BY <1>5, <2>2 DEF BeginExpireCheck, TypeOK
<1>6. ASSUME CommitExpireCheck(s)
      PROVE  TypeOK'
  <2>1. job' \in [Workers \cup Sweepers -> Jobs]
    BY <1>6, FinishType DEF CommitExpireCheck
  <2>2. check' \in [Proofs -> CheckRows]
    BY <1>6, EmptyRows DEF CommitExpireCheck, TypeOK
  <2> QED BY <1>6, <2>1, <2>2 DEF CommitExpireCheck, TypeOK
<1> QED BY <1>1, <1>2, <1>3, <1>4, <1>5, <1>6 DEF Sweep

\* So do refusals, re-reads and crashes.
LEMMA ExceptionTypeOK ==
  ASSUME TypeOK, NEW w \in Workers \cup Sweepers, JobInv(job[w]),
         Refused(w) \/ Reread(w) \/ Crash(w)
  PROVE  TypeOK'
<1> USE DEF rows, history
<1>1. CASE Refused(w)
  BY <1>1, UncertainType DEF Refused, TypeOK
<1>2. CASE Reread(w)
  <2>1. job' \in [Workers \cup Sweepers -> Jobs]
    BY <1>2, FinishType DEF Reread
  <2>2. told' \in [Proofs -> SUBSET Answers]
    <3>1. CASE told' = told
      BY <3>1 DEF TypeOK
    <3>2. CASE told' # told
      <4>1. /\ job[w].op \in {"admit", "close", "settle", "recover"}
            /\ Tell(job[w].proof, ReceiptAnswer(job[w].proof))
        BY <1>2, <3>2 DEF Reread
      <4>2. job[w].proof \in Proofs
        BY <4>1 DEF JobInv, AdmitInv, CloseInv, SettleInv
      <4> QED BY <4>1, <4>2, TellType, ReceiptAnswerType
    <3> QED BY <3>1, <3>2
  <2> QED BY <1>2, <2>1, <2>2 DEF Reread, TypeOK
<1>3. CASE Crash(w)
  BY <1>3, FinishType DEF Crash, TypeOK
<1> QED BY <1>1, <1>2, <1>3

\* So do the clock, the grants, device registration and deletion.
LEMMA EnvironmentTypeOK ==
  ASSUME TypeOK, Environment
  PROVE  TypeOK'
<1> USE DEF rows, history
<1>1. CASE Tick
  BY <1>1 DEF Tick, TypeOK
<1>2. ASSUME NEW complimentary \in BOOLEAN, WriteAccess(complimentary)
      PROVE  TypeOK'
  BY <1>2 DEF WriteAccess, TypeOK, AccessStates, Bases
<1>3. ASSUME NEW d \in Devices, SwitchDevice(d)
      PROVE  TypeOK'
  BY <1>3 DEF SwitchDevice, TypeOK
<1>4. CASE RequestDeletion
  BY <1>4 DEF RequestDeletion, TypeOK
<1>5. CASE FencePartition
  BY <1>5 DEF FencePartition, TypeOK, AccessStates, Bases
<1> QED BY <1>1, <1>2, <1>3, <1>4, <1>5 DEF Environment

\* TypeOK is inductive on its own.
LEMMA NextTypeOK ==
  ASSUME TypeOK, \A p \in Proofs : TokenInv(p),
         \A w \in Workers \cup Sweepers : JobInv(job[w]), [Next]_vars
  PROVE  TypeOK'
<1> USE DEF rows, history
<1>1. CASE \E w \in Workers : Consumer(w)
  BY <1>1, ConsumerTypeOK
<1>2. CASE \E s \in Sweepers : Sweep(s)
  BY <1>2, SweepTypeOK
<1>3. CASE \E w \in Workers \cup Sweepers : Refused(w) \/ Reread(w) \/ Crash(w)
  BY <1>3, ExceptionTypeOK
<1>4. CASE \E p \in Proofs : ReadReceipt(p)
  <2>1. PICK p \in Proofs : ReadReceipt(p)
    BY <1>4
  <2>2. told' \in [Proofs -> SUBSET Answers]
    BY <2>1, TellType, ReceiptAnswerType DEF ReadReceipt
  <2> QED BY <2>1, <2>2 DEF ReadReceipt, TypeOK
<1>5. CASE Environment
  BY <1>5, EnvironmentTypeOK
<1>6. CASE UNCHANGED vars
  BY <1>6 DEF vars, TypeOK
<1> QED BY <1>1, <1>2, <1>3, <1>4, <1>5, <1>6 DEF Next

-----------------------------------------------------------------------------
(* The invariant holds initially, and steps that only change a job keep it *)

\* A new account satisfies the invariant.
LEMMA InitIInv == Init => IInv
<1> SUFFICES ASSUME Init PROVE IInv
  OBVIOUS
<1>1. TypeOK
  BY InitTypeOK
<1>2. \A p \in Proofs : TokenInv(p) /\ AdmissionInv(p) /\ ChargeInv(p) /\ ToldInv(p)
  BY DEF Init, TokenInv, AdmissionInv, ChargeInv, ToldInv, NoCheck
<1>3. \A c \in Clients : PrepInv(c)
  BY DEF Init, PrepInv
<1>4. \A w \in Workers \cup Sweepers : JobInv(job[w])
  BY DEF Init, JobInv, AdmitInv, CloseInv, SettleInv, Idle
<1>5. Admitted = {} /\ Reserving = {}
  BY DEF Init, Admitted, Reserving, NoCheck
<1>6. Accounting
  BY <1>5, FS_EmptySet, ConstantFacts DEF Init, Accounting, AllowanceConserved, InflightConserved
<1> QED BY <1>1, <1>2, <1>3, <1>4, <1>6 DEF IInv

\* What the invariant says of rows holds while they and the clock are unchanged.
LEMMA RowsFrame ==
  ASSUME IInv, UNCHANGED <<now, period, inflight, prep, token, check, admissions, charged, told>>
  PROVE  /\ \A p \in Proofs : (TokenInv(p) /\ AdmissionInv(p) /\ ChargeInv(p) /\ ToldInv(p))'
         /\ \A c \in Clients : PrepInv(c)'
         /\ Accounting'
BY DEF IInv, TokenInv, AdmissionInv, ChargeInv, ToldInv, PrepInv, Minted, ForgetAt,
       Accounting, AllowanceConserved, InflightConserved, Admitted, Reserving

\* So does what it says of a job.
LEMMA JobFrame ==
  ASSUME UNCHANGED <<now, access, token, check, admissions>>, NEW j, JobInv(j)
  PROVE  JobInv(j)'
BY DEF JobInv, AdmitInv, CloseInv, SettleInv

\* If whatever a job may assume is kept by the step for every possible job, the
\* jobs of all invocations are as good after it as before.
LEMMA JobsTransfer ==
  ASSUME TypeOK, \A v \in Workers \cup Sweepers : JobInv(job[v]),
         NEW w \in Workers \cup Sweepers, NEW k,
         job' = [job EXCEPT ![w] = k],
         JobInv(k)',
         \A j \in Jobs : JobInv(j) => JobInv(j)'
  PROVE  \A v \in Workers \cup Sweepers : JobInv(job[v])'
<1> SUFFICES ASSUME NEW v \in Workers \cup Sweepers PROVE JobInv(job[v])'
  OBVIOUS
<1>1. CASE v = w
  <2>1. job'[v] = k
    BY <1>1 DEF TypeOK
  <2> QED BY <2>1 DEF JobInv, AdmitInv, CloseInv, SettleInv
<1>2. CASE v # w
  <2>1. job'[v] = job[v] /\ job[v] \in Jobs
    BY <1>2 DEF TypeOK
  <2> QED BY <2>1 DEF JobInv, AdmitInv, CloseInv, SettleInv
<1> QED BY <1>1, <1>2

\* An idle invocation assumes nothing.
LEMMA IdleJobInv == TypeOK => JobInv(Idle)
BY DEF TypeOK, JobInv, AdmitInv, CloseInv, SettleInv, Idle

\* An invocation that will only re-read assumes no more than before.
LEMMA UncertainJobInv ==
  ASSUME TypeOK, NEW w \in Workers \cup Sweepers, JobInv(job[w])
  PROVE  JobInv([job[w] EXCEPT !.phase = "reread"])
<1>1. job[w] \in Jobs
  BY DEF TypeOK
<1> DEFINE k == [job[w] EXCEPT !.phase = "reread"]
<1>2. /\ k.op = job[w].op /\ k.client = job[w].client /\ k.proof = job[w].proof
      /\ k.at = job[w].at /\ k.revision = job[w].revision /\ k.charge = job[w].charge
      /\ k.period = job[w].period /\ k.expiry = job[w].expiry
  BY <1>1 DEF Jobs
<1> QED BY <1>2 DEF JobInv, AdmitInv, CloseInv, SettleInv

\* A step that leaves the rows alone and gives one invocation a good job.
LEMMA JobStep ==
  ASSUME IInv, TypeOK', UNCHANGED <<now, ledger, rows, held, history>>,
         NEW w \in Workers \cup Sweepers, NEW k, job' = [job EXCEPT ![w] = k], JobInv(k)
  PROVE  IInv'
<1> USE DEF rows, history
<1>1. /\ \A p \in Proofs : (TokenInv(p) /\ AdmissionInv(p) /\ ChargeInv(p) /\ ToldInv(p))'
      /\ \A c \in Clients : PrepInv(c)'
      /\ Accounting'
  BY RowsFrame
<1>2. JobInv(k)' /\ \A j \in Jobs : JobInv(j) => JobInv(j)'
  BY JobFrame
<1>3. \A v \in Workers \cup Sweepers : JobInv(job[v])'
  BY <1>2, JobsTransfer DEF IInv
<1> QED BY <1>1, <1>3 DEF IInv

\* prepare's reads of the account, the device and the grant.
LEMMA BeginPrepareIInv ==
  ASSUME IInv, TypeOK', NEW w \in Workers \cup Sweepers, NEW c \in Clients, NEW d \in Devices,
         BeginPrepare(w, c, d)
  PROVE  IInv'
<1> DEFINE k == [Idle EXCEPT !.op = "prepare", !.phase = "commit", !.client = c,
                             !.device = d, !.at = now, !.revision = access.revision]
<1>1. JobInv(k)
  BY DEF JobInv, AdmitInv, CloseInv, SettleInv, Idle, IInv, TypeOK
<1> QED BY <1>1, JobStep DEF BeginPrepare, Begin

\* admit's reads: the proof has not expired, so its receipt cannot be gone.
LEMMA BeginAdmitIInv ==
  ASSUME IInv, TypeOK', NEW w \in Workers \cup Sweepers, NEW p \in Proofs, NEW d \in Devices,
         BeginAdmit(w, p, d)
  PROVE  IInv'
<1> DEFINE k == [Idle EXCEPT !.op = "admit", !.phase = "commit", !.proof = p,
                             !.client = token[p].client, !.device = d, !.at = now,
                             !.revision = access.revision, !.period = period]
<1>1. token[p].client \in Clients /\ token[p].expiry - Validity <= now
  BY DEF BeginAdmit, IInv, TokenInv, Minted
<1>2. AdmitInv(k)
  BY <1>1 DEF AdmitInv, Idle, BeginAdmit, Grantable, IInv, TypeOK
<1>3. JobInv(k)
  BY <1>2 DEF JobInv, CloseInv, SettleInv, Idle, IInv, TypeOK
<1> QED BY <1>3, JobStep DEF BeginAdmit, Begin

\* A preparation that has not expired belongs to a proof whose receipt, had
\* there been one, could not be gone yet: with no receipt, nothing was admitted.
LEMMA BeginCloseIInv ==
  ASSUME IInv, TypeOK', NEW w \in Workers \cup Sweepers, NEW p \in Proofs, BeginClose(w, p)
  PROVE  IInv'
<1> DEFINE c == token[p].client
<1> DEFINE k == [Idle EXCEPT !.op = "close", !.phase = "commit", !.proof = p,
                             !.client = c, !.at = now, !.open = prep[c].open]
<1>1. c \in Clients
  BY DEF BeginClose, IInv, TokenInv, Minted
<1>2. prep[c].expiresAt = ForgetAt(p)
  BY <1>1, IdentityAssumption DEF BeginClose, IInv, PrepInv, NoPrep
<1>3. admissions[p] # 1
  BY <1>2, ConstantFacts DEF BeginClose, IInv, AdmissionInv, NoCheck, TypeOK, ForgetAt, Tokens, Times
<1>4. CloseInv(k)
  BY <1>1, <1>3 DEF CloseInv, Idle
<1>5. JobInv(k)
  BY <1>4 DEF JobInv, AdmitInv, SettleInv, Idle, IInv, TypeOK
<1> QED BY <1>5, JobStep DEF BeginClose, Begin

\* A receipt that is still ADMITTED was admitted exactly once.
LEMMA AdmittedFacts ==
  ASSUME IInv, NEW p \in Proofs, check[p].state = "ADMITTED"
  PROVE  /\ admissions[p] = 1
         /\ token[p].client \in Clients
         /\ token[p].expiry - Validity <= now
         /\ p \notin charged
         /\ check[p].retention >= ForgetAt(p)
<1>1. admissions[p] = 1 /\ token[p].client \in Clients /\ check[p].retention >= ForgetAt(p)
  BY DEF IInv, AdmissionInv, Minted
<1>2. token[p] # NoToken
  BY <1>1, IdentityAssumption DEF NoToken
<1> QED BY <1>1, <1>2 DEF IInv, TokenInv, ChargeInv

\* settle's read of the receipt.
LEMMA BeginSettleIInv ==
  ASSUME IInv, TypeOK', NEW w \in Workers \cup Sweepers, NEW p \in Proofs,
         NEW outcome \in {"complete", "failed"}, BeginSettle(w, p, outcome)
  PROVE  IInv'
<1> DEFINE k == [Idle EXCEPT !.op = "settle", !.phase = "commit", !.proof = p,
                             !.at = now, !.charge = ChargeOf(p, outcome)]
<1>1. SettleInv(k)
  BY AdmittedFacts DEF BeginSettle, SettleInv, Idle, ChargeOf
<1>2. JobInv(k)
  BY <1>1 DEF JobInv, AdmitInv, CloseInv, Idle, IInv, TypeOK
<1> QED BY <1>2, JobStep DEF BeginSettle, Begin

\* recover_expired's read of the receipt.
LEMMA BeginRecoverIInv ==
  ASSUME IInv, TypeOK', NEW w \in Workers \cup Sweepers, NEW p \in Proofs, BeginRecover(w, p)
  PROVE  IInv'
<1> DEFINE k == [Idle EXCEPT !.op = "recover", !.phase = "commit", !.proof = p, !.at = now]
<1>1. SettleInv(k)
  BY AdmittedFacts DEF BeginRecover, SettleInv, Idle
<1>2. JobInv(k)
  BY <1>1 DEF JobInv, AdmitInv, CloseInv, Idle, IInv, TypeOK
<1> QED BY <1>2, JobStep DEF BeginRecover, Begin

\* Recovery.expire's read of the receipt.
LEMMA BeginLeaseIInv ==
  ASSUME IInv, TypeOK', NEW s \in Workers \cup Sweepers, NEW p \in Proofs, BeginLease(s, p)
  PROVE  IInv'
<1> DEFINE k == [Idle EXCEPT !.op = "lease", !.phase = "commit", !.proof = p, !.at = now]
<1>1. SettleInv(k)
  BY AdmittedFacts DEF BeginLease, SettleInv, Idle
<1>2. JobInv(k)
  BY <1>1 DEF JobInv, AdmitInv, CloseInv, Idle, IInv, TypeOK
<1> QED BY <1>2, JobStep DEF BeginLease, Begin

\* Expiry.expire's reads of a PREPARE or a CHECK row.
LEMMA BeginExpireIInv ==
  ASSUME IInv, TypeOK', NEW s \in Workers \cup Sweepers,
         \/ \E c \in Clients : BeginExpirePrepare(s, c)
         \/ \E p \in Proofs : BeginExpireCheck(s, p)
  PROVE  IInv'
<1>1. ASSUME NEW c \in Clients, BeginExpirePrepare(s, c)
      PROVE  IInv'
  <2> DEFINE k == [Idle EXCEPT !.op = "expire_prepare", !.phase = "commit", !.client = c,
                               !.at = now, !.expiry = prep[c].expiresAt,
                               !.access = access.state]
  <2>1. JobInv(k)
    BY DEF JobInv, AdmitInv, CloseInv, SettleInv, Idle, IInv, TypeOK
  <2> QED BY <1>1, <2>1, JobStep DEF BeginExpirePrepare, Begin
<1>2. ASSUME NEW p \in Proofs, BeginExpireCheck(s, p)
      PROVE  IInv'
  <2> DEFINE k == [Idle EXCEPT !.op = "expire_check", !.phase = "commit", !.proof = p,
                               !.at = now, !.expiry = check[p].retention,
                               !.access = access.state]
  <2>1. k.op = "expire_check" /\ k.proof = p /\ k.expiry = check[p].retention /\ k.at = now
    <3>1. k.op = "expire_check"
      BY DEF Idle
    <3>2. k.proof = p
      BY DEF Idle
    <3>3. k.expiry = check[p].retention
      BY DEF Idle
    <3>4. k.at = now
      BY DEF Idle
    <3> QED BY <3>1, <3>2, <3>3, <3>4
  <2>2. check[p].retention <= now
    <3> HIDE DEF k
    <3> QED BY <1>2 DEF BeginExpireCheck
  <2>3. now \in Int
    BY DEF IInv, TypeOK
  <2>4. JobInv(k)
    <3> HIDE DEF k
    <3> QED BY <2>1, <2>2, <2>3 DEF JobInv, AdmitInv, CloseInv, SettleInv
  <2> QED BY <1>2, <2>4, JobStep DEF BeginExpireCheck, Begin
<1> QED BY <1>1, <1>2

\* After an exception the invocation re-reads, answers and ends; it may also die.
LEMMA ExceptionIInv ==
  ASSUME IInv, TypeOK', NEW w \in Workers \cup Sweepers, Refused(w) \/ Crash(w)
  PROVE  IInv'
<1>1. CASE Refused(w)
  <2>1. job' = [job EXCEPT ![w] = [job[w] EXCEPT !.phase = "reread"]]
    BY <1>1 DEF Refused, Uncertain
  <2> QED BY <1>1, <2>1, UncertainJobInv, JobStep DEF Refused, IInv
<1>2. CASE Crash(w)
  BY <1>2, IdleJobInv, JobStep DEF Crash, Finish, IInv
<1> QED BY <1>1, <1>2

\* A receipt is told as it is written, by whoever reads it.
LEMMA TellReceipt ==
  ASSUME IInv, NEW p \in Proofs, Tell(p, ReceiptAnswer(p)),
         UNCHANGED <<now, ledger, rows, held, admissions, charged>>
  PROVE  /\ \A q \in Proofs : (TokenInv(q) /\ AdmissionInv(q) /\ ChargeInv(q) /\ ToldInv(q))'
         /\ \A c \in Clients : PrepInv(c)'
         /\ Accounting'
<1> USE DEF rows
<1>1. /\ \A q \in Proofs : (TokenInv(q) /\ AdmissionInv(q) /\ ChargeInv(q))'
      /\ \A c \in Clients : PrepInv(c)'
      /\ Accounting'
  BY DEF IInv, TokenInv, AdmissionInv, ChargeInv, PrepInv, Minted, ForgetAt,
         Accounting, AllowanceConserved, InflightConserved, Admitted, Reserving
<1>2. told' = [told EXCEPT ![p] = told[p] \cup ReceiptAnswer(p)]
  BY DEF Tell
<1>3. ASSUME NEW q \in Proofs PROVE ToldInv(q)'
  <2>1. CASE q # p
    <3>1. told'[q] = told[q]
      BY <1>2, <2>1 DEF IInv, TypeOK
    <3> QED BY <3>1 DEF IInv, ToldInv, Minted
  <2>2. CASE q = p
    <3>1. told'[p] = told[p] \cup ReceiptAnswer(p)
      BY <1>2 DEF IInv, TypeOK
    <3>2. "not_started" \notin ReceiptAnswer(p)
      BY DEF ReceiptAnswer
    <3>3. "one" \in ReceiptAnswer(p) => p \in charged
      BY DEF ReceiptAnswer, IInv, ChargeInv
    <3>4. "zero" \in ReceiptAnswer(p) =>
            admissions[p] = 1 /\ p \notin charged /\ check[p].state # "ADMITTED"
      BY DEF ReceiptAnswer, IInv, ChargeInv, AdmissionInv
    <3> QED BY <2>2, <3>1, <3>2, <3>3, <3>4 DEF IInv, ToldInv, Minted
  <2> QED BY <2>1, <2>2
<1> QED BY <1>1, <1>3

\* When a step ends the job of w or leaves its outcome in doubt, and keeps what
\* any job may assume, every job is good after it.
LEMMA EndJob ==
  ASSUME IInv, TypeOK', NEW w \in Workers \cup Sweepers, Finish(w) \/ Uncertain(w),
         \A j \in Jobs : JobInv(j) => JobInv(j)'
  PROVE  \A v \in Workers \cup Sweepers : JobInv(job[v])'
<1>0. TypeOK /\ \A v \in Workers \cup Sweepers : JobInv(job[v])
  BY DEF IInv
<1>1. CASE Finish(w)
  <2>1. JobInv(Idle)'
    BY <1>0, IdleIsJob, IdleJobInv
  <2> QED BY <1>0, <1>1, <2>1, JobsTransfer DEF Finish
<1>2. CASE Uncertain(w)
  <2>0. PICK k : k = [job[w] EXCEPT !.phase = "reread"]
    OBVIOUS
  <2>1. k \in Jobs
    BY <1>0, <2>0 DEF TypeOK, Jobs
  <2>2. JobInv(k)
    BY <1>0, <2>0, UncertainJobInv
  <2>3. JobInv(k)'
    BY <2>1, <2>2
  <2>4. job' = [job EXCEPT ![w] = k]
    BY <1>2, <2>0 DEF Uncertain
  <2> QED BY <1>0, <2>3, <2>4, JobsTransfer
<1> QED BY <1>1, <1>2

\* The same-ID read that follows an uncertain transaction.
LEMMA RereadIInv ==
  ASSUME IInv, TypeOK', NEW w \in Workers \cup Sweepers, Reread(w)
  PROVE  IInv'
<1> USE DEF rows
<1>1. \A v \in Workers \cup Sweepers : JobInv(job[v])'
  <2>1. \A j \in Jobs : JobInv(j) => JobInv(j)'
    BY JobFrame DEF Reread
  <2> QED BY <2>1, EndJob DEF Reread
<1>2. /\ \A q \in Proofs : (TokenInv(q) /\ AdmissionInv(q) /\ ChargeInv(q) /\ ToldInv(q))'
      /\ \A c \in Clients : PrepInv(c)'
      /\ Accounting'
  <2>1. CASE told' = told
    BY <2>1, RowsFrame DEF Reread
  <2>2. CASE told' # told
    <3>1. /\ job[w].op \in {"admit", "close", "settle", "recover"}
          /\ Tell(job[w].proof, ReceiptAnswer(job[w].proof))
      BY <2>2 DEF Reread
    <3>2. job[w].proof \in Proofs
      BY <3>1 DEF IInv, JobInv, AdmitInv, CloseInv, SettleInv
    <3> QED BY <3>1, <3>2, TellReceipt DEF Reread
  <2> QED BY <2>1, <2>2
<1> QED BY <1>1, <1>2 DEF IInv

\* The receipt branch of reconcile, admit and settle.
LEMMA ReadReceiptIInv ==
  ASSUME IInv, TypeOK', NEW p \in Proofs, ReadReceipt(p)
  PROVE  IInv'
<1> USE DEF rows
<1>1. \A v \in Workers \cup Sweepers : JobInv(job[v])'
  BY DEF ReadReceipt, IInv, JobInv, AdmitInv, CloseInv, SettleInv
<1>2. /\ \A q \in Proofs : (TokenInv(q) /\ AdmissionInv(q) /\ ChargeInv(q) /\ ToldInv(q))'
      /\ \A c \in Clients : PrepInv(c)'
      /\ Accounting'
  BY TellReceipt DEF ReadReceipt
<1> QED BY <1>1, <1>2 DEF IInv

-----------------------------------------------------------------------------
(* Each transaction keeps the invariant *)

\* The proof a preparation mints is new, so nothing is known about it yet.
LEMMA CommitPrepareIInv ==
  ASSUME IInv, TypeOK', NEW w \in Workers \cup Sweepers, NEW p \in Proofs, CommitPrepare(w, p)
  PROVE  IInv'
<1> DEFINE j == job[w]
<1>1. /\ j.client \in Clients /\ j.at \in Int /\ j.at <= now /\ now \in Int
      /\ token[p] = NoToken
  BY DEF CommitPrepare, Submitting, IInv, TypeOK, Jobs, Times, JobInv
<1>2. ~Minted(p)
  BY <1>1, IdentityAssumption DEF Minted, NoToken
<1>3. admissions[p] = 0 /\ check[p] = NoCheck /\ p \notin charged
  BY <1>2 DEF IInv, AdmissionInv
<1>4. told[p] = {}
  BY <1>2, <1>3 DEF IInv, ToldInv, TypeOK, Answers
<1>5. /\ token' = [token EXCEPT ![p] = [client |-> j.client, expiry |-> j.at + Validity]]
      /\ prep' = [prep EXCEPT ![j.client] =
                    [proof |-> p, open |-> TRUE, expiresAt |-> j.at + Retention]]
      /\ UNCHANGED <<now, access, period, inflight, check, admissions, charged, told>>
  BY DEF CommitPrepare, history
<1>6. \A q \in Proofs : q # p => token'[q] = token[q]
  BY <1>5 DEF IInv, TypeOK
<1>7. token'[p].client = j.client /\ token'[p].expiry = j.at + Validity
  BY <1>5 DEF IInv, TypeOK
<1>8. ASSUME NEW q \in Proofs
      PROVE  (TokenInv(q) /\ AdmissionInv(q) /\ ChargeInv(q) /\ ToldInv(q))'
  <2>1. CASE q = p
    <3>1. TokenInv(p)'
      BY <1>1, <1>5, <1>7, ConstantFacts DEF TokenInv, Minted
    <3>2. AdmissionInv(p)' /\ ChargeInv(p)' /\ ToldInv(p)'
      BY <1>3, <1>4, <1>5 DEF AdmissionInv, ChargeInv, ToldInv, NoCheck
    <3> QED BY <2>1, <3>1, <3>2
  <2>2. CASE q # p
    <3>1. TokenInv(q)' /\ AdmissionInv(q)' /\ ChargeInv(q)'
      BY <1>5, <1>6, <2>2 DEF IInv, TokenInv, AdmissionInv, ChargeInv, Minted, ForgetAt
    <3>2. \A c \in Clients : prep'[c].proof = q => prep'[c] = prep[c]
      BY <1>5, <2>2 DEF IInv, TypeOK
    <3>3. ToldInv(q)'
      BY <1>5, <1>6, <2>2, <3>2 DEF IInv, ToldInv, Minted
    <3> QED BY <3>1, <3>3
  <2> QED BY <2>1, <2>2
<1>9. ASSUME NEW c \in Clients PROVE PrepInv(c)'
  <2>1. CASE c = j.client
    <3>1. prep'[c] = [proof |-> p, open |-> TRUE, expiresAt |-> j.at + Retention]
      BY <1>5, <2>1 DEF IInv, TypeOK
    <3> QED BY <1>1, <1>7, <2>1, <3>1, ConstantFacts DEF PrepInv, ForgetAt
  <2>2. CASE c # j.client
    <3>1. prep'[c] = prep[c]
      BY <1>5, <2>2 DEF IInv, TypeOK
    <3>2. prep[c] = NoPrep \/ prep[c].proof # p
      BY <1>2 DEF IInv, PrepInv, Minted
    <3> QED BY <1>6, <3>1, <3>2 DEF IInv, PrepInv, ForgetAt
  <2> QED BY <2>1, <2>2
<1>10. Accounting'
  BY <1>5 DEF IInv, Accounting, AllowanceConserved, InflightConserved, Admitted, Reserving
<1>11. ASSUME NEW k \in Jobs, JobInv(k) PROVE JobInv(k)'
  <2>1. k.op \in {"admit", "close", "settle", "recover", "lease"} => k.proof # p
    BY <1>2, <1>3, <1>11 DEF JobInv, AdmitInv, CloseInv, SettleInv, Minted
  <2> QED BY <1>5, <1>6, <1>11, <2>1 DEF JobInv, AdmitInv, CloseInv, SettleInv
<1>12. \A v \in Workers \cup Sweepers : JobInv(job[v])'
  BY <1>11, EndJob DEF CommitPrepare
<1> QED BY <1>8, <1>9, <1>10, <1>12 DEF IInv

\* What the transaction of an admission finds: nobody was told the proof was
\* closed, and it was never admitted, since its receipt could not be gone yet.
LEMMA AdmitFinds ==
  ASSUME IInv, NEW w \in Workers \cup Sweepers, CommitAdmit(w), NEW p, p = job[w].proof
  PROVE  /\ p \in Proofs
         /\ check[p] = NoCheck /\ admissions[p] = 0 /\ p \notin charged
         /\ Minted(p)
         /\ token[p].expiry - Validity <= job[w].at
         /\ told[p] = {}
<1> DEFINE j == job[w]
<1>1. /\ j.at \in Int /\ now \in Int /\ now <= j.at + InvocationLimit
      /\ j.op = "admit" /\ check[p] = NoCheck
  BY DEF CommitAdmit, Submitting, IInv, TypeOK, Jobs, Times
<1>2. /\ p \in Proofs /\ j.client \in Clients /\ token[p].client = j.client
      /\ j.at < token[p].expiry /\ token[p].expiry - Validity <= j.at
  BY <1>1 DEF IInv, JobInv, AdmitInv
<1>3. token[p].expiry \in Int
  BY <1>2 DEF IInv, TypeOK, Tokens, Times
<1>4. admissions[p] # 1
  BY <1>1, <1>2, <1>3, ConstantFacts DEF IInv, AdmissionInv, ForgetAt, NoCheck
<1>5. admissions[p] = 0 /\ p \notin charged
  BY <1>2, <1>4 DEF IInv, AdmissionInv
<1>6. prep[j.client].proof = p /\ prep[j.client].open
  BY DEF CommitAdmit, PreparationOpen
<1>7. told[p] = {}
  BY <1>2, <1>5, <1>6 DEF IInv, ToldInv, TypeOK, Answers
<1> QED BY <1>1, <1>2, <1>5, <1>7 DEF Minted

\* There are finitely many receipts, so they can be counted.
LEMMA AdmittedFinite == IsFiniteSet(Admitted) /\ IsFiniteSet(Reserving)
BY IdentityAssumption, FS_Subset DEF Admitted, Reserving

\* A reservation fits: the counters the job read are those it is added to.
LEMMA AdmitAccounting ==
  ASSUME IInv, NEW w \in Workers \cup Sweepers, CommitAdmit(w)
  PROVE  Accounting'
<1> DEFINE j == job[w]
<1>0. PICK p : p = j.proof
  OBVIOUS
<1>1. /\ p \in Proofs /\ check[p] = NoCheck
  BY <1>0, AdmitFinds
<1>2. /\ check'[p].state = "ADMITTED" /\ (check'[p].metered <=> access.basis = "trial")
      /\ \A q \in Proofs : q # p => check'[q] = check[q]
  <2>1. check' = [check EXCEPT ![p] =
                    [state |-> "ADMITTED", metered |-> access.basis = "trial", charge |-> 0,
                     settleBy |-> j.at + Settlement, retention |-> j.at + Retention]]
    BY <1>0 DEF CommitAdmit
  <2> QED BY <1>1, <2>1 DEF IInv, TypeOK
<1>3. p \notin Admitted /\ p \notin Reserving
  BY <1>1 DEF Admitted, Reserving, NoCheck
<1>4. Admitted' = Admitted \cup {p}
  BY <1>1, <1>2 DEF Admitted
<1>5. Cardinality(Admitted') = Cardinality(Admitted) + 1
  BY <1>3, <1>4, AdmittedFinite, FS_AddElement
<1>6. /\ inflight' = inflight + 1 /\ inflight < MaxInflight /\ charged' = charged
      /\ inflight = Cardinality(Admitted) /\ inflight \in Nat
  BY DEF CommitAdmit, IInv, Accounting, InflightConserved, TypeOK
<1>7. InflightConserved'
  BY <1>5, <1>6, ConstantFacts DEF InflightConserved
<1>8. /\ period \in Periods /\ period.reserved = Cardinality(Reserving)
      /\ period.used = Cardinality(charged) /\ period.used + period.reserved <= TrialLimit
  BY DEF IInv, Accounting, AllowanceConserved, TypeOK
<1>9. CASE access.basis = "trial"
  <2>1. Reserving' = Reserving \cup {p}
    BY <1>1, <1>2, <1>4, <1>9 DEF Reserving, Admitted
  <2>2. Cardinality(Reserving') = Cardinality(Reserving) + 1
    BY <1>3, <2>1, AdmittedFinite, FS_AddElement
  <2>3. period = j.period /\ period' = [period EXCEPT !.reserved = @ + 1]
    BY <1>9 DEF CommitAdmit
  <2>4. period'.used = period.used /\ period'.reserved = period.reserved + 1
    BY <1>8, <2>3 DEF Periods
  <2>5. period.used + period.reserved < TrialLimit
    BY <1>9, <2>3 DEF CommitAdmit, Submitting, AuthorityUnchanged, IInv, JobInv, AdmitInv
  <2>6. AllowanceConserved'
    BY <1>6, <1>8, <2>2, <2>4, <2>5, ConstantFacts DEF AllowanceConserved, Periods
  <2> QED BY <1>7, <2>6 DEF Accounting
<1>10. CASE access.basis # "trial"
  <2>1. Reserving' = Reserving
    BY <1>1, <1>2, <1>3, <1>4, <1>10 DEF Reserving, Admitted
  <2>2. period' = period
    BY <1>10 DEF CommitAdmit
  <2> QED BY <1>6, <1>7, <1>8, <2>1, <2>2 DEF Accounting, AllowanceConserved
<1> QED BY <1>9, <1>10

\* admit's transaction writes the first receipt of its proof.
LEMMA CommitAdmitIInv ==
  ASSUME IInv, TypeOK', NEW w \in Workers \cup Sweepers, CommitAdmit(w)
  PROVE  IInv'
<1>0. PICK p, at : p = job[w].proof /\ at = job[w].at
  OBVIOUS
<1>1. /\ p \in Proofs
      /\ check[p] = NoCheck /\ admissions[p] = 0 /\ p \notin charged
      /\ Minted(p) /\ token[p].expiry - Validity <= at
      /\ told[p] = {}
  BY <1>0, AdmitFinds
<1>2. /\ at \in Int /\ now \in Int /\ at <= now /\ now <= at + InvocationLimit
      /\ token[p].expiry \in Int
  BY <1>0, <1>1 DEF CommitAdmit, Submitting, IInv, TypeOK, Jobs, Tokens, Times, JobInv
<1>3. /\ check'[p].state = "ADMITTED" /\ check'[p].retention = at + Retention
      /\ admissions'[p] = 1
      /\ \A q \in Proofs : q # p => check'[q] = check[q] /\ admissions'[q] = admissions[q]
  <2>1. check' = [check EXCEPT ![p] =
                    [state |-> "ADMITTED", metered |-> access.basis = "trial", charge |-> 0,
                     settleBy |-> at + Settlement, retention |-> at + Retention]]
    BY <1>0 DEF CommitAdmit
  <2>2. admissions' = [admissions EXCEPT ![p] = @ + 1]
    BY <1>0 DEF CommitAdmit
  <2> QED BY <1>1, <2>1, <2>2 DEF IInv, TypeOK
<1>4. UNCHANGED <<now, access, prep, token, charged, told>>
  BY DEF CommitAdmit
<1>5. ASSUME NEW q \in Proofs
      PROVE  (TokenInv(q) /\ AdmissionInv(q) /\ ChargeInv(q) /\ ToldInv(q))'
  <2>1. CASE q = p
    <3>1. TokenInv(p)' /\ ChargeInv(p)' /\ ToldInv(p)'
      BY <1>1, <1>3, <1>4 DEF IInv, TokenInv, ChargeInv, ToldInv, Minted
    <3>2. AdmissionInv(p)'
      BY <1>1, <1>2, <1>3, <1>4, ConstantFacts DEF AdmissionInv, Minted, ForgetAt
    <3> QED BY <2>1, <3>1, <3>2
  <2>2. CASE q # p
    BY <1>3, <1>4, <2>2
    DEF IInv, TokenInv, AdmissionInv, ChargeInv, ToldInv, Minted, ForgetAt
  <2> QED BY <2>1, <2>2
<1>6. \A c \in Clients : PrepInv(c)'
  BY <1>4 DEF IInv, PrepInv, ForgetAt
<1>7. ASSUME NEW k \in Jobs, JobInv(k) PROVE JobInv(k)'
  <2>1. AdmitInv(k)'
    BY <1>4, <1>7 DEF JobInv, AdmitInv
  <2>2. CloseInv(k)'
    <3>1. k.at \in Int /\ k.at <= now
      BY <1>7 DEF JobInv, Jobs, Times
    <3>2. CASE k.proof = p
      BY <1>2, <1>3, <1>4, <1>7, <3>1, <3>2, ConstantFacts DEF JobInv, CloseInv
    <3>3. CASE k.proof # p
      BY <1>3, <1>4, <1>7, <3>3 DEF JobInv, CloseInv
    <3> QED BY <3>2, <3>3
  <2>3. SettleInv(k)'
    BY <1>1, <1>3, <1>4, <1>7 DEF JobInv, SettleInv
  <2> QED BY <1>4, <1>7, <2>1, <2>2, <2>3 DEF JobInv
<1>8. \A v \in Workers \cup Sweepers : JobInv(job[v])'
  BY <1>7, EndJob DEF CommitAdmit
<1> QED BY <1>5, <1>6, <1>8, AdmitAccounting DEF IInv

\* NOT_STARTED is only said when no receipt exists, was deleted or can appear:
\* an admission was either still open to the transaction's condition or so long
\* ago that this invocation, which found the receipt missing, would be over.
LEMMA CommitCloseIInv ==
  ASSUME IInv, TypeOK', NEW w \in Workers \cup Sweepers, CommitClose(w)
  PROVE  IInv'
<1>0. PICK p, at, c : p = job[w].proof /\ at = job[w].at /\ c = job[w].client
  OBVIOUS
<1>1. /\ p \in Proofs /\ c \in Clients /\ token[p].client = c
      /\ at \in Int /\ now \in Int /\ now <= at + InvocationLimit
      /\ check[p] = NoCheck
  BY <1>0 DEF CommitClose, Submitting, IInv, TypeOK, Jobs, Times, JobInv, CloseInv
<1>2. admissions[p] = 0
  <2>1. admissions[p] = 1 => now >= at - InvocationLimit + Retention
    BY <1>0, <1>1 DEF CommitClose, Submitting, IInv, JobInv, CloseInv, NoCheck
  <2> QED BY <1>1, <2>1, ConstantFacts DEF IInv, AdmissionInv
<1>3. /\ UNCHANGED <<now, access, period, inflight, token, check, admissions, charged>>
      /\ prep' = [prep EXCEPT ![c].open = FALSE]
      /\ told' = told \/ told' = [told EXCEPT ![p] = told[p] \cup {"not_started"}]
  BY <1>0 DEF CommitClose, Tell
<1>4. /\ prep'[c].proof = prep[c].proof /\ prep'[c].expiresAt = prep[c].expiresAt
      /\ prep'[c].open = FALSE
      /\ \A d \in Clients : d # c => prep'[d] = prep[d]
  BY <1>1, <1>3 DEF IInv, TypeOK, PrepRows
<1>5. ASSUME NEW d \in Clients PROVE PrepInv(d)'
  <2>1. CASE d # c
    BY <1>3, <1>4, <2>1 DEF IInv, PrepInv, ForgetAt
  <2>2. CASE d = c
    <3>1. prep[c] # NoPrep
      BY <1>0, <1>1, IdentityAssumption DEF CommitClose, NoPrep
    <3> QED BY <1>1, <1>3, <1>4, <2>2, <3>1 DEF IInv, PrepInv, ForgetAt
  <2> QED BY <2>1, <2>2
<1>6. ASSUME NEW q \in Proofs
      PROVE  (TokenInv(q) /\ AdmissionInv(q) /\ ChargeInv(q) /\ ToldInv(q))'
  <2>1. TokenInv(q)' /\ AdmissionInv(q)' /\ ChargeInv(q)'
    BY <1>3 DEF IInv, TokenInv, AdmissionInv, ChargeInv, Minted, ForgetAt
  <2>2. CASE q # p
    <3>1. told'[q] = told[q]
      BY <1>1, <1>3, <2>2 DEF IInv, TypeOK
    <3> QED BY <1>3, <1>4, <2>1, <3>1 DEF IInv, ToldInv, Minted
  <2>3. CASE q = p
    <3>1. \A d \in Clients : prep'[d].proof = p => d = c
      BY <1>1, <1>3, <1>4, <1>5, IdentityAssumption DEF PrepInv, NoPrep
    <3>2. told'[p] \subseteq told[p] \cup {"not_started"}
      BY <1>1, <1>3 DEF IInv, TypeOK
    <3> QED BY <1>1, <1>2, <1>3, <1>4, <2>1, <2>3, <3>1, <3>2 DEF IInv, ToldInv, Minted
  <2> QED BY <2>2, <2>3
<1>7. Accounting'
  BY <1>3 DEF IInv, Accounting, AllowanceConserved, InflightConserved, Admitted, Reserving
<1>8. \A k \in Jobs : JobInv(k) => JobInv(k)'
  BY <1>3 DEF JobInv, AdmitInv, CloseInv, SettleInv
<1>9. \A v \in Workers \cup Sweepers : JobInv(job[v])'
  BY <1>8, EndJob DEF CommitClose
<1> QED BY <1>5, <1>6, <1>7, <1>9 DEF IInv

\* Ending a reservation frees exactly what its admission took, and a charge is
\* paid with the reservation it replaces.
LEMMA SettleAccounting ==
  ASSUME IInv, NEW p \in Proofs, NEW charge \in {0, 1}, NEW retention,
         Settle(p, charge, retention), charge = 1 => check[p].metered
  PROVE  Accounting'
<1>1. /\ check[p].state = "ADMITTED" /\ p \notin charged /\ check[p].metered \in BOOLEAN
      /\ charged' = IF charge = 1 THEN charged \cup {p} ELSE charged
      /\ inflight' = inflight - 1
  BY AdmittedFacts DEF Settle, IInv, TypeOK, CheckRows
<1>2. /\ check'[p].state = "SETTLED"
      /\ \A q \in Proofs : q # p => check'[q] = check[q]
  BY DEF Settle, IInv, TypeOK, CheckRows
<1>3. p \in Admitted /\ Admitted' = Admitted \ {p}
  BY <1>1, <1>2 DEF Admitted
<1>4. Cardinality(Admitted') = Cardinality(Admitted) - 1
  BY <1>3, AdmittedFinite, FS_RemoveElement
<1>5. inflight = Cardinality(Admitted) /\ inflight <= MaxInflight /\ inflight \in Nat
  BY DEF IInv, Accounting, InflightConserved, TypeOK
<1>6. InflightConserved'
  BY <1>1, <1>4, <1>5, ConstantFacts DEF InflightConserved
<1>7. /\ period.used \in Nat /\ period.reserved \in Nat
      /\ period.reserved = Cardinality(Reserving)
      /\ period.used = Cardinality(charged) /\ period.used + period.reserved <= TrialLimit
  BY DEF IInv, Accounting, AllowanceConserved, TypeOK, Periods
<1>8. CASE check[p].metered
  <2>1. p \in Reserving /\ Reserving' = Reserving \ {p}
    BY <1>2, <1>3, <1>8 DEF Reserving, Admitted
  <2>2. Cardinality(Reserving') = Cardinality(Reserving) - 1
    BY <2>1, AdmittedFinite, FS_RemoveElement
  <2>3. Cardinality(charged') = Cardinality(charged) + charge
    <3>1. IsFiniteSet(charged)
      BY IdentityAssumption, FS_Subset DEF IInv, TypeOK
    <3>2. CASE charge = 1
      <4>1. charged' = charged \cup {p}
        BY <1>1, <3>2
      <4>2. Cardinality(charged \cup {p}) = Cardinality(charged) + 1
        BY <1>1, <3>1, FS_AddElement
      <4> QED BY <3>2, <4>1, <4>2
    <3>3. CASE charge = 0
      <4>1. charged' = charged
        BY <1>1, <3>3
      <4> QED BY <1>7, <3>3, <4>1
    <3> QED BY <3>2, <3>3
  <2>4. period' = [used |-> period.used + charge, reserved |-> period.reserved - 1]
    BY <1>8 DEF Settle
  <2>5. period'.used = period.used + charge /\ period'.reserved = period.reserved - 1
    BY <2>4
  <2>6. AllowanceConserved'
    BY <1>7, <2>2, <2>3, <2>5, ConstantFacts DEF AllowanceConserved
  <2> QED BY <1>6, <2>6 DEF Accounting
<1>9. CASE ~check[p].metered
  <2>1. Reserving' = Reserving
    BY <1>2, <1>3, <1>9 DEF Reserving, Admitted
  <2>2. period' = period /\ charged' = charged
    BY <1>1, <1>9 DEF Settle
  <2> QED BY <1>6, <1>7, <2>1, <2>2 DEF Accounting, AllowanceConserved
<1> QED BY <1>1, <1>8, <1>9

\* settle, recover_expired and the sweep write the same receipt; the retention
\* they give it is the row's own or counted from their own clock.
LEMMA SettleIInv ==
  ASSUME IInv, TypeOK', NEW w \in Workers \cup Sweepers,
         job[w].op \in {"settle", "recover", "lease"},
         now <= job[w].at + InvocationLimit,
         NEW p, p = job[w].proof, NEW charge \in {0, 1}, charge = 1 => job[w].charge = 1,
         NEW retention, retention \in {check[p].retention, job[w].at + Retention},
         Settle(p, charge, retention),
         Finish(w) \/ Uncertain(w),
         UNCHANGED <<now, access, prep, token, admissions, told>>
  PROVE  IInv'
<1>1. /\ p \in Proofs /\ check[p].state = "ADMITTED"
      /\ charge = 1 => check[p].metered
      /\ token[p].expiry - Validity <= job[w].at
  BY DEF IInv, JobInv, SettleInv, Settle
<1>2. /\ job[w].at \in Int /\ now \in Int /\ token[p].expiry \in Int
      /\ check[p].retention \in Int /\ check[p].retention >= ForgetAt(p)
      /\ admissions[p] = 1 /\ Minted(p) /\ p \notin charged
  BY <1>1, AdmittedFacts DEF IInv, TypeOK, Jobs, Tokens, CheckRows, Times, Minted
<1>3. retention >= ForgetAt(p) /\ retention \in Int
  BY <1>1, <1>2, ConstantFacts DEF ForgetAt
<1>4. /\ check'[p].state = "SETTLED" /\ check'[p].charge = charge
      /\ check'[p].retention = retention /\ check'[p].metered = check[p].metered
      /\ \A q \in Proofs : q # p => check'[q] = check[q]
      /\ charged' = IF charge = 1 THEN charged \cup {p} ELSE charged
  BY <1>1 DEF Settle, IInv, TypeOK, CheckRows
<1>5. ASSUME NEW q \in Proofs
      PROVE  (TokenInv(q) /\ AdmissionInv(q) /\ ChargeInv(q) /\ ToldInv(q))'
  <2>1. CASE q = p
    <3>1. TokenInv(p)' /\ ChargeInv(p)'
      BY <1>1, <1>2, <1>4 DEF IInv, TokenInv, ChargeInv, Minted
    <3>2. AdmissionInv(p)'
      BY <1>2, <1>3, <1>4 DEF AdmissionInv, Minted, ForgetAt
    <3>3. "one" \notin told[p] /\ "not_started" \notin told[p] /\ "zero" \notin told[p]
      BY <1>1, <1>2 DEF IInv, ToldInv
    <3>4. ToldInv(p)'
      BY <3>3 DEF ToldInv
    <3> QED BY <2>1, <3>1, <3>2, <3>4
  <2>2. CASE q # p
    <3>1. q \in charged' <=> q \in charged
      BY <1>4, <2>2
    <3>2. TokenInv(q)' /\ ChargeInv(q)' /\ ToldInv(q)'
      BY <1>4, <2>2, <3>1 DEF IInv, TokenInv, ChargeInv, ToldInv, Minted
    <3>3. AdmissionInv(q)'
      BY <1>4, <2>2, <3>1 DEF IInv, AdmissionInv, Minted, ForgetAt
    <3> QED BY <3>2, <3>3
  <2> QED BY <2>1, <2>2
<1>6. \A c \in Clients : PrepInv(c)'
  BY DEF IInv, PrepInv, ForgetAt
<1>7. ASSUME NEW k \in Jobs, JobInv(k) PROVE JobInv(k)'
  <2>1. AdmitInv(k)'
    BY <1>7 DEF JobInv, AdmitInv
  <2>2. CloseInv(k)'
    <3>1. k.at \in Int /\ k.at <= now
      BY <1>7 DEF JobInv, Jobs, Times
    <3>2. CASE k.proof = p
      BY <1>1, <1>2, <1>4, <1>7, <3>1, <3>2, ConstantFacts DEF JobInv, CloseInv
    <3>3. CASE k.proof # p
      BY <1>4, <1>7, <3>3 DEF JobInv, CloseInv
    <3> QED BY <3>2, <3>3
  <2>3. SettleInv(k)'
    <3>1. CASE k.proof = p
      BY <1>4, <1>7, <3>1 DEF JobInv, SettleInv
    <3>2. CASE k.proof # p
      BY <1>4, <1>7, <3>2 DEF JobInv, SettleInv
    <3> QED BY <3>1, <3>2
  <2> QED BY <1>7, <2>1, <2>2, <2>3 DEF JobInv
<1>8. \A v \in Workers \cup Sweepers : JobInv(job[v])'
  BY <1>7, EndJob
<1>9. Accounting'
  BY <1>1, SettleAccounting
<1> QED BY <1>5, <1>6, <1>8, <1>9 DEF IInv

\* The transactions of settle and recover_expired end one reservation.
LEMMA CommitSettleIInv ==
  ASSUME IInv, TypeOK', NEW w \in Workers \cup Sweepers, NEW op \in {"settle", "recover"},
         CommitSettle(w, op)
  PROVE  IInv'
<1>1. PICK p, charge : p = job[w].proof /\ charge = job[w].charge
  OBVIOUS
<1>2. charge \in {0, 1}
  BY <1>1 DEF IInv, TypeOK, Jobs
<1>3. PICK retention \in {check[p].retention, job[w].at + Retention} :
         Settle(p, charge, retention)
  BY <1>1 DEF CommitSettle
<1> QED BY <1>1, <1>2, <1>3, SettleIInv DEF CommitSettle, Submitting

\* Recovery.expire's transaction ends one reservation and charges nothing.
LEMMA CommitLeaseIInv ==
  ASSUME IInv, TypeOK', NEW s \in Workers \cup Sweepers, CommitLease(s)
  PROVE  IInv'
<1>1. PICK p : p = job[s].proof
  OBVIOUS
<1>2. PICK retention : retention = check[p].retention
  OBVIOUS
<1>3. Settle(p, 0, retention)
  BY <1>1, <1>2 DEF CommitLease
<1> QED BY <1>1, <1>2, <1>3, SettleIInv DEF CommitLease, Submitting

\* Expiry.expire deletes a PREPARE row, of which nothing is remembered.
LEMMA CommitExpirePrepareIInv ==
  ASSUME IInv, TypeOK', NEW s \in Workers \cup Sweepers, CommitExpirePrepare(s)
  PROVE  IInv'
<1>0. PICK c : c = job[s].client
  OBVIOUS
<1>1. c \in Clients
  BY <1>0 DEF CommitExpirePrepare, Submitting, IInv, JobInv
<1>2. /\ UNCHANGED <<now, access, period, inflight, token, check, admissions, charged, told>>
      /\ prep' = [prep EXCEPT ![c] = NoPrep]
  BY <1>0 DEF CommitExpirePrepare, history
<1>3. prep'[c] = NoPrep /\ \A d \in Clients : d # c => prep'[d] = prep[d]
  BY <1>1, <1>2 DEF IInv, TypeOK
<1>4. ASSUME NEW q \in Proofs
      PROVE  (TokenInv(q) /\ AdmissionInv(q) /\ ChargeInv(q) /\ ToldInv(q))'
  <2>1. TokenInv(q)' /\ AdmissionInv(q)' /\ ChargeInv(q)'
    BY <1>2 DEF IInv, TokenInv, AdmissionInv, ChargeInv, Minted, ForgetAt
  <2>2. ToldInv(q)'
    BY <1>2, <1>3 DEF IInv, ToldInv, Minted, NoPrep
  <2> QED BY <2>1, <2>2
<1>5. \A d \in Clients : PrepInv(d)'
  BY <1>2, <1>3 DEF IInv, PrepInv, ForgetAt
<1>6. Accounting'
  BY <1>2 DEF IInv, Accounting, AllowanceConserved, InflightConserved, Admitted, Reserving
<1>7. \A k \in Jobs : JobInv(k) => JobInv(k)'
  BY <1>2 DEF JobInv, AdmitInv, CloseInv, SettleInv
<1>8. \A v \in Workers \cup Sweepers : JobInv(job[v])'
  BY <1>7, EndJob DEF CommitExpirePrepare
<1> QED BY <1>4, <1>5, <1>6, <1>8 DEF IInv

\* A receipt is deleted only when its retention is over: the row still carries
\* the retention the sweep found to have passed.
LEMMA CommitExpireCheckIInv ==
  ASSUME IInv, TypeOK', NEW s \in Workers \cup Sweepers, CommitExpireCheck(s)
  PROVE  IInv'
<1>0. PICK p : p = job[s].proof
  OBVIOUS
<1>1. /\ p \in Proofs /\ check[p].state = "SETTLED" /\ check[p].retention <= now
      /\ now \in Int /\ check[p].retention \in Int
  <2>1. /\ p \in Proofs /\ check[p].state = "SETTLED"
        /\ check[p].retention = job[s].expiry /\ job[s].expiry <= job[s].at /\ job[s].at <= now
    BY <1>0 DEF CommitExpireCheck, Submitting, IInv, JobInv
  <2>2. now \in Int /\ job[s].expiry \in Int /\ job[s].at \in Int
    BY DEF IInv, TypeOK, Jobs, Times
  <2> QED BY <2>1, <2>2
<1>2. /\ UNCHANGED <<now, access, period, inflight, prep, token, admissions, charged, told>>
      /\ check' = [check EXCEPT ![p] = NoCheck]
  BY <1>0 DEF CommitExpireCheck, history
<1>3. check'[p] = NoCheck /\ \A q \in Proofs : q # p => check'[q] = check[q]
  BY <1>1, <1>2 DEF IInv, TypeOK
<1>4. /\ admissions[p] = 1 /\ Minted(p) /\ check[p].retention >= ForgetAt(p)
      /\ token[p].expiry \in Int
  BY <1>1 DEF IInv, AdmissionInv, TypeOK, Tokens, Times
<1>5. now >= ForgetAt(p)
  BY <1>1, <1>4, ConstantFacts DEF ForgetAt
<1>6. ASSUME NEW q \in Proofs
      PROVE  (TokenInv(q) /\ AdmissionInv(q) /\ ChargeInv(q) /\ ToldInv(q))'
  <2>1. TokenInv(q)' /\ ToldInv(q)'
    BY <1>2, <1>3 DEF IInv, TokenInv, ToldInv, Minted, NoCheck
  <2>2. AdmissionInv(q)' /\ ChargeInv(q)'
    <3>1. CASE q = p
      BY <1>2, <1>3, <1>4, <1>5, <3>1 DEF AdmissionInv, ChargeInv, Minted, ForgetAt, NoCheck
    <3>2. CASE q # p
      BY <1>2, <1>3, <3>2 DEF IInv, AdmissionInv, ChargeInv, Minted, ForgetAt
    <3> QED BY <3>1, <3>2
  <2> QED BY <2>1, <2>2
<1>7. \A c \in Clients : PrepInv(c)'
  BY <1>2 DEF IInv, PrepInv, ForgetAt
<1>8. Accounting'
  <2>1. Admitted' = Admitted /\ Reserving' = Reserving
    BY <1>1, <1>3 DEF Admitted, Reserving, NoCheck
  <2> QED BY <1>2, <2>1 DEF IInv, Accounting, AllowanceConserved, InflightConserved
<1>9. ASSUME NEW k \in Jobs, JobInv(k) PROVE JobInv(k)'
  <2>1. AdmitInv(k)'
    BY <1>2, <1>9 DEF JobInv, AdmitInv
  <2>2. CloseInv(k)'
    <3>1. k.at \in Int
      BY <1>9 DEF Jobs, Times
    <3>2. CASE k.proof = p
      BY <1>1, <1>2, <1>3, <1>9, <3>1, <3>2, ConstantFacts DEF JobInv, CloseInv, NoCheck
    <3>3. CASE k.proof # p
      BY <1>2, <1>3, <1>9, <3>3 DEF JobInv, CloseInv
    <3> QED BY <3>2, <3>3
  <2>3. SettleInv(k)'
    BY <1>2, <1>3, <1>9 DEF JobInv, SettleInv, NoCheck
  <2> QED BY <1>2, <1>9, <2>1, <2>2, <2>3 DEF JobInv
<1>10. \A v \in Workers \cup Sweepers : JobInv(job[v])'
  BY <1>9, EndJob DEF CommitExpireCheck
<1> QED BY <1>6, <1>7, <1>8, <1>10 DEF IInv

\* Around the authority time passes, the account's device and access change and
\* its deletion begins.
LEMMA EnvironmentIInv ==
  ASSUME IInv, TypeOK', Environment
  PROVE  IInv'
<1> USE DEF rows, history
<1>1. CASE Tick
  <2>1. now \in Int /\ now' = now + 1
    BY <1>1 DEF Tick, IInv, TypeOK
  <2>2. UNCHANGED <<access, period, inflight, prep, token, check, job, admissions, charged, told>>
    BY <1>1 DEF Tick
  <2>3. ASSUME NEW q \in Proofs
        PROVE  (TokenInv(q) /\ AdmissionInv(q) /\ ChargeInv(q) /\ ToldInv(q))'
    <3>1. token[q].expiry \in Int
      BY DEF IInv, TypeOK, Tokens, Times
    <3>2. TokenInv(q)' /\ AdmissionInv(q)'
      BY <2>1, <2>2, <3>1, ConstantFacts DEF IInv, TokenInv, AdmissionInv, Minted, ForgetAt
    <3>3. ChargeInv(q)' /\ ToldInv(q)'
      BY <2>2 DEF IInv, ChargeInv, ToldInv, Minted
    <3> QED BY <3>2, <3>3
  <2>4. \A c \in Clients : PrepInv(c)'
    BY <2>2 DEF IInv, PrepInv, ForgetAt
  <2>5. ASSUME NEW v \in Workers \cup Sweepers PROVE JobInv(job[v])'
    <3>1. JobInv(job[v]) /\ job[v].at \in Int
      BY DEF IInv, TypeOK, Jobs, Times
    <3>2. AdmitInv(job[v])' /\ SettleInv(job[v])'
      BY <2>2, <3>1 DEF JobInv, AdmitInv, SettleInv
    <3>3. CloseInv(job[v])'
      BY <2>1, <2>2, <3>1, ConstantFacts DEF JobInv, CloseInv
    <3> QED BY <2>1, <2>2, <3>1, <3>2, <3>3 DEF JobInv
  <2>6. Accounting'
    BY <2>2 DEF IInv, Accounting, AllowanceConserved, InflightConserved, Admitted, Reserving
  <2> QED BY <2>3, <2>4, <2>5, <2>6 DEF IInv
<1>2. ASSUME \/ \E complimentary \in BOOLEAN : WriteAccess(complimentary)
             \/ \E d \in Devices : SwitchDevice(d)
             \/ RequestDeletion
             \/ FencePartition
      PROVE  IInv'
  <2>1. UNCHANGED <<now, period, inflight, prep, token, check, job, admissions, charged, told>>
    BY <1>2 DEF WriteAccess, SwitchDevice, RequestDeletion, FencePartition
  <2>2. \/ access'.revision = access.revision /\ access'.basis = access.basis
        \/ access'.revision = access.revision + 1
    BY <1>2 DEF WriteAccess, SwitchDevice, RequestDeletion, FencePartition, IInv, TypeOK
  <2>3. ASSUME NEW v \in Workers \cup Sweepers PROVE JobInv(job[v])'
    <3>1. JobInv(job[v]) /\ job[v].revision \in Int /\ access.revision \in Int
      BY DEF IInv, TypeOK, Jobs
    <3>2. AdmitInv(job[v])'
      BY <2>1, <2>2, <3>1 DEF JobInv, AdmitInv
    <3> QED BY <2>1, <3>1, <3>2 DEF JobInv, CloseInv, SettleInv
  <2> QED BY <2>1, <2>3, RowsFrame DEF IInv
<1> QED BY <1>1, <1>2 DEF Environment

-----------------------------------------------------------------------------
(* The theorems *)

\* Every operation of the authority keeps the invariant.
LEMMA NextIInv == IInv /\ [Next]_vars => IInv'
<1> SUFFICES ASSUME IInv, [Next]_vars PROVE IInv'
  OBVIOUS
<1>1. TypeOK'
  BY NextTypeOK DEF IInv
<1>2. ASSUME NEW w \in Workers, Consumer(w) PROVE IInv'
  BY <1>1, <1>2, BeginPrepareIInv, CommitPrepareIInv, BeginAdmitIInv, CommitAdmitIInv,
     BeginCloseIInv, CommitCloseIInv, BeginSettleIInv, BeginRecoverIInv, CommitSettleIInv
  DEF Consumer
<1>3. ASSUME NEW s \in Sweepers, Sweep(s) PROVE IInv'
  BY <1>1, <1>3, BeginLeaseIInv, CommitLeaseIInv, BeginExpireIInv, CommitExpirePrepareIInv,
     CommitExpireCheckIInv
  DEF Sweep
<1>4. ASSUME NEW w \in Workers \cup Sweepers, Refused(w) \/ Reread(w) \/ Crash(w) PROVE IInv'
  BY <1>1, <1>4, ExceptionIInv, RereadIInv
<1>5. ASSUME NEW p \in Proofs, ReadReceipt(p) PROVE IInv'
  BY <1>1, <1>5, ReadReceiptIInv
<1>6. CASE Environment
  BY <1>1, <1>6, EnvironmentIInv
<1>7. CASE UNCHANGED vars
  <2>1. UNCHANGED <<now, access, period, inflight, prep, token, check, job,
                    admissions, charged, told>>
    BY <1>7 DEF vars, rows, history
  <2>2. \A v \in Workers \cup Sweepers : JobInv(job[v])'
    BY <2>1 DEF IInv, JobInv, AdmitInv, CloseInv, SettleInv
  <2> QED BY <1>1, <2>1, <2>2, RowsFrame DEF IInv
<1> QED BY <1>2, <1>3, <1>4, <1>5, <1>6, <1>7 DEF Next

\* The inductive invariant holds of every execution of prepare, admit, reconcile,
\* settle, recover_expired, Recovery.sweep and Expiry.expire.
THEOREM Invariance == Spec => []IInv
<1>1. Init => IInv
  BY InitIInv
<1>2. IInv /\ [Next]_vars => IInv'
  BY NextIInv
<1> QED BY <1>1, <1>2, PTL DEF Spec

\* Rows, jobs and counters hold only what the code writes (TypeOK), whatever
\* transactions of prepare, admit, close, settle and the sweeps interleave.
THEOREM TypeCorrect == Spec => []TypeOK
BY Invariance, PTL DEF IInv

\* The counters prepare, admit, settle and the lease sweep change agree with the
\* receipts, and the trial's limit and the in-flight limit are never exceeded.
THEOREM CountersConserved == Spec => []Accounting
<1>1. IInv => Accounting
  BY DEF IInv
<1> QED BY <1>1, Invariance, PTL

\* A proof the reconciliation closed is never admitted, before or after its rows
\* expire; and what settle, recover_expired, reconcile and a repeated admit tell a
\* client of its charge is the charge made.
THEOREM ToldTruth == Spec => []ClientsToldTruth
<1>1. IInv => NotStartedIsFinal
  BY DEF IInv, ToldInv, NotStartedIsFinal
<1>2. IInv => ToldTheCharge
  BY DEF IInv, ToldInv, ToldTheCharge
<1>3. IInv => ClientsToldTruth
  BY <1>1, <1>2 DEF ClientsToldTruth
<1> QED BY <1>3, Invariance, PTL

\* No proof gets a second CHECK row, and so a second execution token, not even
\* after expiry deleted the first.
THEOREM SingleAdmission == Spec => []AdmittedOnce
<1>1. IInv => AdmittedOnce
  BY DEF IInv, AdmissionInv, AdmittedOnce
<1> QED BY <1>1, Invariance, PTL

-----------------------------------------------------------------------------
(* What an invocation's age may not change: authorization and the fence *)

\* Only the transaction of an admission makes a new CHECK row.
LEMMA OnlyAdmitAdmits ==
  ASSUME IInv, Next, NEW p \in Proofs, admissions'[p] > admissions[p]
  PROVE  \E w \in Workers : CommitAdmit(w) /\ job[w].proof = p
<1>1. admissions' # admissions
  <2>1. admissions[p] \in Nat
    BY DEF IInv, TypeOK
  <2> QED BY <2>1
<1>2. PICK w \in Workers : CommitAdmit(w)
  BY <1>1 DEF Next, Consumer, Sweep, Environment, history, BeginPrepare, CommitPrepare,
     BeginAdmit, BeginClose, CommitClose, BeginSettle, BeginRecover, CommitSettle, BeginLease,
     CommitLease, BeginExpirePrepare, CommitExpirePrepare, BeginExpireCheck, CommitExpireCheck,
     Refused, Reread, Crash, ReadReceipt, Tick, WriteAccess, SwitchDevice, RequestDeletion,
     FencePartition
<1>3. job[w].proof = p
  <2>1. admissions' = [admissions EXCEPT ![job[w].proof] = @ + 1]
    BY <1>2 DEF CommitAdmit
  <2>2. job[w].proof # p => admissions'[p] = admissions[p]
    BY <2>1 DEF IInv, TypeOK
  <2>3. admissions[p] \in Nat
    BY DEF IInv, TypeOK
  <2> QED BY <2>2, <2>3
<1> QED BY <1>2, <1>3

\* Between the reads of an admission and its transaction the account may be
\* deleted, its device replaced, its grant withdrawn and its trial run out; the
\* conditions of _authority_conditions catch each.
THEOREM Authorized == Spec => AdmissionAuthorized
<1> DEFINE A == \A p \in Proofs : admissions'[p] > admissions[p] =>
                  /\ ~ledger
                  /\ access.state = "ACTIVE"
                  /\ \E w \in Workers : job[w].proof = p /\ job[w].device = binding
                  /\ check'[p].metered => now < TrialEnd + InvocationLimit
<1>1. IInv /\ [Next]_vars => [A]_vars
  <2> SUFFICES ASSUME IInv, Next, NEW p \in Proofs, admissions'[p] > admissions[p]
               PROVE  /\ ~ledger
                      /\ access.state = "ACTIVE"
                      /\ \E w \in Workers : job[w].proof = p /\ job[w].device = binding
                      /\ check'[p].metered => now < TrialEnd + InvocationLimit
    OBVIOUS
  <2>1. PICK w \in Workers : CommitAdmit(w) /\ job[w].proof = p
    BY OnlyAdmitAdmits
  <2>2. ~ledger /\ access.state = "ACTIVE" /\ job[w].device = binding
    BY <2>1 DEF CommitAdmit, AuthorityUnchanged, Available
  <2>3. ASSUME check'[p].metered PROVE now < TrialEnd + InvocationLimit
    <3>1. check' = [check EXCEPT ![p] =
                      [state |-> "ADMITTED", metered |-> access.basis = "trial", charge |-> 0,
                       settleBy |-> job[w].at + Settlement,
                       retention |-> job[w].at + Retention]]
      BY <2>1 DEF CommitAdmit
    <3>2. access.basis = "trial"
      BY <2>3, <3>1 DEF IInv, TypeOK
    <3>3. job[w].at < TrialEnd /\ now <= job[w].at + InvocationLimit
      BY <2>1, <3>2 DEF CommitAdmit, AuthorityUnchanged, Submitting
    <3>4. now \in Int /\ job[w].at \in Int
      BY DEF IInv, TypeOK, Jobs, Times
    <3> QED BY <3>3, <3>4, ConstantFacts
  <2> QED BY <2>1, <2>2, <2>3
<1> QED BY <1>1, Invariance, PTL DEF Spec, AdmissionAuthorized

\* The fence is raised only over an account whose ledger row exists, and no
\* expiry was begun by an invocation that already saw it.
FenceInv ==
  /\ access.state = "DELETING" => ledger
  /\ \A w \in Workers \cup Sweepers :
       job[w].op \in {"expire_prepare", "expire_check"} => job[w].access # "DELETING"

\* No invocation has begun.
LEMMA InitFenceInv == Init => FenceInv
BY DEF Init, FenceInv, Idle

ExpiryOps == {"expire_prepare", "expire_check"}

\* An expiry job keeps knowing the ACCESS state it read.
LEMMA FenceJobs ==
  ASSUME TypeOK, FenceInv, NEW w \in Workers \cup Sweepers, UNCHANGED <<ledger, access>>,
         \/ Finish(w)
         \/ Uncertain(w)
         \/ \E k : Begin(w, k) /\ (k.op \in ExpiryOps => k.access # "DELETING")
  PROVE  FenceInv'
<1>1. PICK k : job' = [job EXCEPT ![w] = k] /\ (k.op \in ExpiryOps => k.access # "DELETING")
  <2>1. CASE Finish(w)
    <3>1. Idle.op \notin ExpiryOps
      BY DEF Idle, ExpiryOps
    <3> QED BY <2>1, <3>1 DEF Finish
  <2>2. CASE Uncertain(w)
    <3>1. PICK k : k = [job[w] EXCEPT !.phase = "reread"]
      OBVIOUS
    <3>2. k.op = job[w].op /\ k.access = job[w].access
      BY <3>1 DEF TypeOK, Jobs
    <3>3. job' = [job EXCEPT ![w] = k]
      BY <2>2, <3>1 DEF Uncertain
    <3> QED BY <3>2, <3>3 DEF FenceInv, ExpiryOps
  <2>3. CASE \E k : Begin(w, k) /\ (k.op \in ExpiryOps => k.access # "DELETING")
    BY <2>3 DEF Begin
  <2> QED BY <2>1, <2>2, <2>3
<1>2. ASSUME NEW v \in Workers \cup Sweepers, job'[v].op \in ExpiryOps
      PROVE  job'[v].access # "DELETING"
  <2>1. CASE v = w
    BY <1>1, <1>2, <2>1 DEF TypeOK
  <2>2. CASE v # w
    BY <1>1, <1>2, <2>2 DEF TypeOK, FenceInv, ExpiryOps
  <2> QED BY <2>1, <2>2
<1> QED BY <1>2 DEF FenceInv, ExpiryOps

\* Expiry.expire begins only when it does not read the fence.
LEMMA BeginFence ==
  ASSUME TypeOK, FenceInv, NEW w \in Workers \cup Sweepers,
         \/ \E c \in Clients, d \in Devices : BeginPrepare(w, c, d)
         \/ \E p \in Proofs, d \in Devices : BeginAdmit(w, p, d)
         \/ \E p \in Proofs : BeginClose(w, p)
         \/ \E p \in Proofs, outcome \in {"complete", "failed"} : BeginSettle(w, p, outcome)
         \/ \E p \in Proofs : BeginRecover(w, p)
         \/ \E p \in Proofs : BeginLease(w, p)
         \/ \E c \in Clients : BeginExpirePrepare(w, c)
         \/ \E p \in Proofs : BeginExpireCheck(w, p)
  PROVE  FenceInv'
<1> USE DEF rows
<1>1. ASSUME NEW c \in Clients, NEW d \in Devices, BeginPrepare(w, c, d) PROVE FenceInv'
  <2> DEFINE k == [Idle EXCEPT !.op = "prepare", !.phase = "commit", !.client = c,
                               !.device = d, !.at = now, !.revision = access.revision]
  <2>1. k.op = "prepare"
    BY DEF Idle
  <2>2. Begin(w, k)
    BY <1>1 DEF BeginPrepare
  <2> HIDE DEF k
  <2> QED BY <1>1, <2>1, <2>2, FenceJobs DEF BeginPrepare, ExpiryOps
<1>2. ASSUME NEW p \in Proofs, NEW d \in Devices, BeginAdmit(w, p, d) PROVE FenceInv'
  <2> DEFINE k == [Idle EXCEPT !.op = "admit", !.phase = "commit", !.proof = p,
                               !.client = token[p].client, !.device = d, !.at = now,
                               !.revision = access.revision, !.period = period]
  <2>1. k.op = "admit"
    BY DEF Idle
  <2>2. Begin(w, k)
    BY <1>2 DEF BeginAdmit
  <2> HIDE DEF k
  <2> QED BY <1>2, <2>1, <2>2, FenceJobs DEF BeginAdmit, ExpiryOps
<1>3. ASSUME NEW p \in Proofs, BeginClose(w, p) PROVE FenceInv'
  <2> DEFINE k == [Idle EXCEPT !.op = "close", !.phase = "commit", !.proof = p,
                               !.client = token[p].client, !.at = now,
                               !.open = prep[token[p].client].open]
  <2>1. k.op = "close"
    BY DEF Idle
  <2>2. Begin(w, k)
    BY <1>3 DEF BeginClose
  <2> HIDE DEF k
  <2> QED BY <1>3, <2>1, <2>2, FenceJobs DEF BeginClose, ExpiryOps
<1>4. ASSUME NEW p \in Proofs, NEW outcome \in {"complete", "failed"},
             BeginSettle(w, p, outcome)
      PROVE  FenceInv'
  <2> DEFINE k == [Idle EXCEPT !.op = "settle", !.phase = "commit", !.proof = p,
                               !.at = now, !.charge = ChargeOf(p, outcome)]
  <2>1. k.op = "settle"
    BY DEF Idle
  <2>2. Begin(w, k)
    BY <1>4 DEF BeginSettle
  <2> HIDE DEF k
  <2> QED BY <1>4, <2>1, <2>2, FenceJobs DEF BeginSettle, ExpiryOps
<1>5. ASSUME NEW p \in Proofs, BeginRecover(w, p) PROVE FenceInv'
  <2> DEFINE k == [Idle EXCEPT !.op = "recover", !.phase = "commit", !.proof = p,
                               !.at = now]
  <2>1. k.op = "recover"
    BY DEF Idle
  <2>2. Begin(w, k)
    BY <1>5 DEF BeginRecover
  <2> HIDE DEF k
  <2> QED BY <1>5, <2>1, <2>2, FenceJobs DEF BeginRecover, ExpiryOps
<1>6. ASSUME NEW p \in Proofs, BeginLease(w, p) PROVE FenceInv'
  <2> DEFINE k == [Idle EXCEPT !.op = "lease", !.phase = "commit", !.proof = p, !.at = now]
  <2>1. k.op = "lease"
    BY DEF Idle
  <2>2. Begin(w, k)
    BY <1>6 DEF BeginLease
  <2> HIDE DEF k
  <2> QED BY <1>6, <2>1, <2>2, FenceJobs DEF BeginLease, ExpiryOps
<1>7. ASSUME NEW c \in Clients, BeginExpirePrepare(w, c) PROVE FenceInv'
  <2> DEFINE k == [Idle EXCEPT !.op = "expire_prepare", !.phase = "commit", !.client = c,
                               !.at = now, !.expiry = prep[c].expiresAt,
                               !.access = access.state]
  <2>1. k.access = access.state
    BY DEF Idle
  <2>2. Begin(w, k)
    BY <1>7 DEF BeginExpirePrepare
  <2> HIDE DEF k
  <2> QED BY <1>7, <2>1, <2>2, FenceJobs DEF BeginExpirePrepare
<1>8. ASSUME NEW p \in Proofs, BeginExpireCheck(w, p) PROVE FenceInv'
  <2> DEFINE k == [Idle EXCEPT !.op = "expire_check", !.phase = "commit", !.proof = p,
                               !.at = now, !.expiry = check[p].retention,
                               !.access = access.state]
  <2>1. k.access = access.state
    BY DEF Idle
  <2>2. Begin(w, k)
    BY <1>8 DEF BeginExpireCheck
  <2> HIDE DEF k
  <2> QED BY <1>8, <2>1, <2>2, FenceJobs DEF BeginExpireCheck
<1> QED BY <1>1, <1>2, <1>3, <1>4, <1>5, <1>6, <1>7, <1>8

\* Every step keeps FenceInv.
LEMMA NextFenceInv ==
  ASSUME TypeOK, FenceInv, [Next]_vars
  PROVE  FenceInv'
<1>1. ASSUME NEW w \in Workers, Consumer(w) PROVE FenceInv'
  <2>1. CASE \/ \E p \in Proofs : CommitPrepare(w, p)
             \/ CommitAdmit(w)
             \/ CommitClose(w)
             \/ \E op \in {"settle", "recover"} : CommitSettle(w, op)
    BY <2>1, FenceJobs DEF CommitPrepare, CommitAdmit, CommitClose, CommitSettle
  <2> QED BY <1>1, <2>1, BeginFence DEF Consumer
<1>2. ASSUME NEW s \in Sweepers, Sweep(s) PROVE FenceInv'
  <2>1. CASE CommitLease(s) \/ CommitExpirePrepare(s) \/ CommitExpireCheck(s)
    BY <2>1, FenceJobs DEF CommitLease, CommitExpirePrepare, CommitExpireCheck
  <2> QED BY <1>2, <2>1, BeginFence DEF Sweep
<1>3. ASSUME NEW w \in Workers \cup Sweepers, Refused(w) \/ Reread(w) \/ Crash(w) PROVE FenceInv'
  BY <1>3, FenceJobs DEF Refused, Reread, Crash, rows
<1>4. ASSUME NEW p \in Proofs, ReadReceipt(p) PROVE FenceInv'
  BY <1>4 DEF ReadReceipt, FenceInv, rows
<1>5. CASE Environment
  BY <1>5 DEF Environment, Tick, WriteAccess, SwitchDevice, RequestDeletion, FencePartition,
     FenceInv, Available, TypeOK, rows
<1>6. CASE UNCHANGED vars
  BY <1>6 DEF vars, rows, FenceInv
<1> QED BY <1>1, <1>2, <1>3, <1>4, <1>5, <1>6 DEF Next

\* An expiry transaction under way was built from an ACCESS row that was not the
\* fence, which is what it conditions on.
THEOREM Fence == Spec => []FenceInv
<1>1. TypeOK /\ FenceInv /\ [Next]_vars => FenceInv'
  BY NextFenceInv
<1> QED BY <1>1, InitFenceInv, TypeCorrect, PTL DEF Spec

\* The fence the account deletion raises stops every other writer: consumers by
\* the ledger row, the lease sweep by its condition on ACCESS, the expiry sweep
\* by the ACCESS state it read.
THEOREM Frozen == Spec => FencedRowsFrozen
<1>1. TypeOK /\ FenceInv /\ [Next]_vars => [access.state = "DELETING" => UNCHANGED rows]_vars
  <2> SUFFICES ASSUME FenceInv, Next, access.state = "DELETING"
               PROVE  UNCHANGED rows
    OBVIOUS
  <2>0. ledger
    BY DEF FenceInv
  <2>1. ASSUME NEW w \in Workers, Consumer(w) PROVE UNCHANGED rows
    BY <2>0, <2>1 DEF Consumer, BeginPrepare, CommitPrepare, BeginAdmit, CommitAdmit, BeginClose,
       CommitClose, BeginSettle, BeginRecover, CommitSettle, AuthorityUnchanged, Available
  <2>2. ASSUME NEW s \in Sweepers, Sweep(s) PROVE UNCHANGED rows
    BY <2>2 DEF Sweep, BeginLease, CommitLease, BeginExpirePrepare, CommitExpirePrepare,
       BeginExpireCheck, CommitExpireCheck, Submitting, FenceInv
  <2>3. ASSUME NEW w \in Workers \cup Sweepers, Refused(w) \/ Reread(w) \/ Crash(w)
        PROVE  UNCHANGED rows
    BY <2>3 DEF Refused, Reread, Crash
  <2>4. CASE Environment
    BY <2>0, <2>4 DEF Environment, Tick, WriteAccess, SwitchDevice, RequestDeletion,
       FencePartition, Available
  <2> QED BY <2>1, <2>2, <2>3, <2>4 DEF Next, ReadReceipt
<1> QED BY <1>1, Fence, TypeCorrect, PTL DEF Spec, FencedRowsFrozen

-----------------------------------------------------------------------------
(* CheckAuthority implements CheckPromise: every transaction, re-read,     *)
(* crash or lost reply is, seen from outside, one step in the life of one  *)
(* proof or no step at all.  The invariant supplies what the abstract      *)
(* steps ask: an admission finds its proof fresh, a charge replaces a      *)
(* metered reservation, a deleted receipt leaves its proof released or     *)
(* charged for good.                                                       *)

\* A new account has promised nothing.
LEMMA InitPromise == Init => Promise!Init
BY DEF Init, Promise!Init, FateOf, Reserving, Admitted, NoCheck

\* The instance counts as this module does.
LEMMA SameCardinality == \A S : Promise!Cardinality(S) = Cardinality(S)
BY DEF Promise!Cardinality, Cardinality

\* A step that neither charges, reserves nor closes is no step of the promise.
LEMMA Stutter ==
  ASSUME UNCHANGED charged, Reserving' = Reserving,
         \A q \in Proofs : FateOf(q)' = FateOf(q)
  PROVE  UNCHANGED Promise!vars
BY DEF Promise!vars

\* One proof moves, the others stay.
LEMMA Moves ==
  ASSUME NEW p \in Proofs, NEW from, NEW to, FateOf(p) = from, FateOf(p)' = to,
         \A q \in Proofs \ {p} : FateOf(q)' = FateOf(q)
  PROVE  Promise!Become(p, from, to)
BY DEF Promise!Become

\* The promise counts the charges and the open reservations of the trial.
LEMMA MeteredCount ==
  ASSUME IInv
  PROVE  /\ IsFiniteSet(charged \cup Reserving)
         /\ Cardinality(charged \cup Reserving) = period.used + period.reserved
<1>1. IsFiniteSet(charged) /\ IsFiniteSet(Reserving)
  BY IdentityAssumption, FS_Subset, AdmittedFinite DEF IInv, TypeOK
<1>2. charged \cap Reserving = {}
  BY DEF IInv, ChargeInv, Reserving, Admitted
<1>3. IsFiniteSet(charged \cup Reserving)
  BY <1>1, FS_Union
<1>4. Cardinality(charged \cup Reserving) = Cardinality(charged) + Cardinality(Reserving)
  <2>1. Cardinality(charged \cup Reserving) =
          Cardinality(charged) + Cardinality(Reserving) - Cardinality(charged \cap Reserving)
    BY <1>1, FS_Union
  <2>2. Cardinality(charged \cap Reserving) = 0
    BY <1>2, FS_EmptySet
  <2>3. Cardinality(charged) \in Nat /\ Cardinality(Reserving) \in Nat
    BY <1>1, FS_CardinalityType
  <2> QED BY <2>1, <2>2, <2>3
<1> QED BY <1>3, <1>4 DEF IInv, Accounting, AllowanceConserved

\* admit reserves a fresh proof, within the limit if the check is metered.
LEMMA AdmitReserves ==
  ASSUME IInv, NEW w \in Workers, CommitAdmit(w)
  PROVE  \E p \in Proofs : Promise!Reserve(p)
<1>0. PICK p : p = job[w].proof
  OBVIOUS
<1>1. /\ p \in Proofs /\ check[p] = NoCheck /\ admissions[p] = 0 /\ p \notin charged
      /\ told[p] = {}
  BY <1>0, AdmitFinds
<1>2. /\ check'[p].state = "ADMITTED" /\ (check'[p].metered <=> access.basis = "trial")
      /\ \A q \in Proofs \ {p} : check'[q] = check[q] /\ admissions'[q] = admissions[q]
      /\ charged' = charged /\ told' = told
  <2>1. check' = [check EXCEPT ![p] =
                    [state |-> "ADMITTED", metered |-> access.basis = "trial", charge |-> 0,
                     settleBy |-> job[w].at + Settlement, retention |-> job[w].at + Retention]]
    BY <1>0 DEF CommitAdmit
  <2>2. admissions' = [admissions EXCEPT ![p] = @ + 1]
    BY <1>0 DEF CommitAdmit
  <2>3. charged' = charged /\ told' = told
    BY DEF CommitAdmit
  <2> QED BY <1>1, <2>1, <2>2, <2>3 DEF IInv, TypeOK
<1>3. Promise!Become(p, "fresh", "reserved")
  <2>1. FateOf(p) = "fresh" /\ FateOf(p)' = "reserved"
    BY <1>1, <1>2 DEF FateOf, NoCheck
  <2>2. \A q \in Proofs \ {p} : FateOf(q)' = FateOf(q)
    BY <1>2 DEF FateOf
  <2> QED BY <1>1, <2>1, <2>2, Moves
<1>4. CASE access.basis = "trial"
  <2>1. (charged \cup Reserving)' = (charged \cup Reserving) \cup {p}
    BY <1>1, <1>2, <1>4 DEF Reserving, Admitted
  <2>2. period.used + period.reserved < TrialLimit
    BY <1>4 DEF CommitAdmit, Submitting, AuthorityUnchanged, IInv, JobInv, AdmitInv
  <2>3. Cardinality(charged \cup Reserving) < TrialLimit
    BY <2>2, MeteredCount
  <2> QED BY <1>1, <1>3, <2>1, <2>3, SameCardinality DEF Promise!Reserve
<1>5. CASE access.basis # "trial"
  <2>1. Reserving' = Reserving
    BY <1>1, <1>2, <1>5 DEF Reserving, Admitted, NoCheck
  <2> QED BY <1>1, <1>2, <1>3, <2>1 DEF Promise!Reserve
<1> QED BY <1>4, <1>5

\* Any settlement ends one reservation, with a charge or without.
LEMMA SettleEnds ==
  ASSUME IInv, NEW p \in Proofs, NEW charge \in {0, 1}, NEW retention,
         Settle(p, charge, retention), charge = 1 => check[p].metered,
         UNCHANGED <<admissions, told>>
  PROVE  Promise!Charge(p) \/ Promise!Release(p)
<1>1. /\ check[p].state = "ADMITTED" /\ p \notin charged /\ admissions[p] = 1
      /\ charged' = IF charge = 1 THEN charged \cup {p} ELSE charged
  BY AdmittedFacts DEF Settle
<1>2. /\ check'[p].state = "SETTLED"
      /\ \A q \in Proofs \ {p} : check'[q] = check[q]
  BY DEF Settle, IInv, TypeOK, CheckRows
<1>3. \A q \in Proofs \ {p} : FateOf(q)' = FateOf(q)
  BY <1>1, <1>2 DEF FateOf
<1>4. FateOf(p) = "reserved"
  BY <1>1 DEF FateOf
<1>5. Reserving' = Reserving \ {p}
  BY <1>1, <1>2 DEF Reserving, Admitted
<1>6. CASE charge = 1
  <2>1. FateOf(p)' = "charged"
    BY <1>1, <1>6 DEF FateOf
  <2>2. Promise!Become(p, "reserved", "charged")
    BY <1>3, <1>4, <2>1, Moves
  <2>3. p \in Reserving
    BY <1>1, <1>6 DEF Reserving, Admitted
  <2>4. (charged \cup Reserving)' = charged \cup Reserving
    BY <1>1, <1>5, <1>6, <2>3
  <2> QED BY <2>2, <2>3, <2>4 DEF Promise!Charge
<1>7. CASE charge = 0
  <2>1. FateOf(p)' = "released"
    BY <1>1, <1>2, <1>7 DEF FateOf
  <2>2. Promise!Become(p, "reserved", "released")
    BY <1>3, <1>4, <2>1, Moves
  <2>3. (charged \cup Reserving)' = (charged \cup Reserving) \ {p}
    BY <1>1, <1>5, <1>7
  <2> QED BY <2>2, <2>3 DEF Promise!Release
<1> QED BY <1>6, <1>7

\* Closing a proof is a step the first time its client is told.
LEMMA CloseCloses ==
  ASSUME IInv, IInv', NEW w \in Workers, CommitClose(w)
  PROVE  (\E p \in Proofs : Promise!Close(p)) \/ UNCHANGED Promise!vars
<1>0. PICK p : p = job[w].proof
  OBVIOUS
<1>1. p \in Proofs /\ check[p] = NoCheck
  BY <1>0 DEF CommitClose, Submitting, IInv, JobInv, CloseInv
<1>2. UNCHANGED <<check, admissions, charged>>
  BY DEF CommitClose
<1>3. Reserving' = Reserving
  BY <1>2 DEF Reserving, Admitted
<1>4. told' = told \/ told' = [told EXCEPT ![p] = told[p] \cup {"not_started"}]
  BY <1>0 DEF CommitClose, Tell
<1>5. \A q \in Proofs \ {p} : FateOf(q)' = FateOf(q)
  BY <1>1, <1>2, <1>4 DEF FateOf, IInv, TypeOK
<1>6. CASE told'[p] = told[p]
  <2>1. FateOf(p)' = FateOf(p)
    BY <1>2, <1>6 DEF FateOf
  <2> QED BY <1>2, <1>3, <1>5, <2>1, Stutter
<1>7. CASE told'[p] # told[p]
  <2>1. "not_started" \in told'[p] /\ "not_started" \notin told[p]
    <3>1. told \in [Proofs -> SUBSET Answers]
      BY DEF IInv, TypeOK
    <3>2. told'[p] = told[p] \cup {"not_started"}
      BY <1>1, <1>4, <1>7, <3>1
    <3> QED BY <1>7, <3>2
  <2>2. admissions[p] = 0
    BY <1>1, <1>2, <2>1 DEF IInv, ToldInv
  <2>3. p \notin charged
    BY <1>1, <2>2 DEF IInv, AdmissionInv
  <2>4. FateOf(p) = "fresh" /\ FateOf(p)' = "closed"
    BY <1>1, <1>2, <2>1, <2>2, <2>3 DEF FateOf, NoCheck
  <2>5. Promise!Become(p, "fresh", "closed")
    BY <1>1, <1>5, <2>4, Moves
  <2> QED BY <1>1, <1>2, <1>3, <2>5 DEF Promise!Close
<1> QED BY <1>6, <1>7

\* Deleting a receipt changes nothing a client was promised.
LEMMA ExpiryStutters ==
  ASSUME IInv, NEW s \in Sweepers, CommitExpireCheck(s)
  PROVE  UNCHANGED Promise!vars
<1>0. PICK p : p = job[s].proof
  OBVIOUS
<1>1. /\ p \in Proofs /\ check[p].state = "SETTLED" /\ admissions[p] = 1
      /\ UNCHANGED <<admissions, charged, told>>
      /\ check' = [check EXCEPT ![p] = NoCheck]
  BY <1>0 DEF CommitExpireCheck, Submitting, IInv, JobInv, AdmissionInv, history
<1>2. check'[p] = NoCheck /\ \A q \in Proofs \ {p} : check'[q] = check[q]
  BY <1>1 DEF IInv, TypeOK
<1>3. Reserving' = Reserving
  BY <1>1, <1>2 DEF Reserving, Admitted, NoCheck
<1>4. \A q \in Proofs : FateOf(q)' = FateOf(q)
  BY <1>1, <1>2 DEF FateOf, NoCheck
<1> QED BY <1>1, <1>3, <1>4, Stutter

\* What a receipt tells is never "not_started", so telling it is no step.
LEMMA TellingStutters ==
  ASSUME IInv, NEW p \in Proofs, Tell(p, ReceiptAnswer(p)),
         UNCHANGED <<check, admissions, charged>>
  PROVE  UNCHANGED Promise!vars
<1>1. "not_started" \notin ReceiptAnswer(p)
  BY DEF ReceiptAnswer
<1>2. ASSUME NEW q \in Proofs PROVE "not_started" \in told'[q] <=> "not_started" \in told[q]
  BY <1>1 DEF Tell, IInv, TypeOK
<1>3. \A q \in Proofs : FateOf(q)' = FateOf(q)
  BY <1>2 DEF FateOf
<1>4. Reserving' = Reserving
  BY DEF Reserving, Admitted
<1> QED BY <1>3, <1>4, Stutter

\* A step that leaves the receipts and the histories alone.
LEMMA QuietStutters ==
  ASSUME UNCHANGED <<check, admissions, charged, told>>
  PROVE  UNCHANGED Promise!vars
<1>1. Reserving' = Reserving /\ \A q \in Proofs : FateOf(q)' = FateOf(q)
  BY DEF Reserving, Admitted, FateOf
<1> QED BY <1>1, Stutter

\* Every step of the authority is a step of the promise, or none.
LEMMA StepPromise ==
  ASSUME IInv, IInv', [Next]_vars
  PROVE  Promise!Next \/ UNCHANGED Promise!vars
<1> USE DEF rows, history
<1>1. ASSUME NEW w \in Workers, Consumer(w) PROVE Promise!Next \/ UNCHANGED Promise!vars
  <2>1. CASE CommitAdmit(w)
    BY <2>1, AdmitReserves DEF Promise!Next
  <2>2. CASE CommitClose(w)
    BY <2>2, CloseCloses DEF Promise!Next
  <2>3. ASSUME NEW op \in {"settle", "recover"}, CommitSettle(w, op)
        PROVE  Promise!Next \/ UNCHANGED Promise!vars
    <3>1. PICK p, charge : p = job[w].proof /\ charge = job[w].charge
      OBVIOUS
    <3>2. charge \in {0, 1}
      BY <3>1 DEF IInv, TypeOK, Jobs
    <3>3. PICK retention : Settle(p, charge, retention)
      BY <2>3, <3>1 DEF CommitSettle
    <3>4. p \in Proofs /\ (charge = 1 => check[p].metered)
      BY <2>3, <3>1, <3>3 DEF CommitSettle, Submitting, IInv, JobInv, SettleInv, Settle
    <3>5. UNCHANGED <<admissions, told>>
      BY <2>3 DEF CommitSettle
    <3> QED BY <3>2, <3>3, <3>4, <3>5, SettleEnds DEF Promise!Next
  <2>4. CASE UNCHANGED <<check, admissions, charged, told>>
    BY <2>4, QuietStutters
  <2> QED BY <1>1, <2>1, <2>2, <2>3, <2>4 DEF Consumer, BeginPrepare, CommitPrepare, BeginAdmit,
          BeginClose, BeginSettle, BeginRecover
<1>2. ASSUME NEW s \in Sweepers, Sweep(s) PROVE Promise!Next \/ UNCHANGED Promise!vars
  <2>1. CASE CommitLease(s)
    <3>1. PICK p, retention : p = job[s].proof /\ Settle(p, 0, retention)
      BY <2>1 DEF CommitLease
    <3>2. p \in Proofs
      BY <2>1, <3>1 DEF CommitLease, Submitting, IInv, JobInv, SettleInv
    <3>3. UNCHANGED <<admissions, told>>
      BY <2>1 DEF CommitLease
    <3> QED BY <3>1, <3>2, <3>3, SettleEnds DEF Promise!Next
  <2>2. CASE CommitExpireCheck(s)
    BY <2>2, ExpiryStutters
  <2>3. CASE UNCHANGED <<check, admissions, charged, told>>
    BY <2>3, QuietStutters
  <2> QED BY <1>2, <2>1, <2>2, <2>3 DEF Sweep, BeginLease, BeginExpirePrepare,
          CommitExpirePrepare, BeginExpireCheck
<1>3. ASSUME NEW w \in Workers \cup Sweepers, Refused(w) \/ Reread(w) \/ Crash(w)
      PROVE  UNCHANGED Promise!vars
  <2>1. CASE told' = told
    BY <1>3, <2>1, QuietStutters DEF Refused, Reread, Crash
  <2>2. CASE told' # told
    <3>1. /\ Reread(w) /\ job[w].op \in {"admit", "close", "settle", "recover"}
          /\ Tell(job[w].proof, ReceiptAnswer(job[w].proof))
      BY <1>3, <2>2 DEF Refused, Reread, Crash
    <3>2. job[w].proof \in Proofs
      BY <3>1 DEF IInv, JobInv, AdmitInv, CloseInv, SettleInv
    <3> QED BY <3>1, <3>2, TellingStutters DEF Reread
  <2> QED BY <2>1, <2>2
<1>4. ASSUME NEW p \in Proofs, ReadReceipt(p) PROVE UNCHANGED Promise!vars
  BY <1>4, TellingStutters DEF ReadReceipt
<1>5. CASE Environment
  <2>1. UNCHANGED <<check, admissions, charged, told>>
    BY <1>5 DEF Environment, Tick, WriteAccess, SwitchDevice, RequestDeletion, FencePartition
  <2> QED BY <2>1, QuietStutters
<1>6. CASE UNCHANGED vars
  BY <1>6, QuietStutters DEF vars
<1> QED BY <1>1, <1>2, <1>3, <1>4, <1>5, <1>6 DEF Next

\* The check authority with its leases, clocks, lost replies and sweeps does to a
\* proof only what CheckPromise allows.
THEOREM Implements == Spec => PromiseKept
<1>1. Init => Promise!Init
  BY InitPromise
<1>2. IInv /\ IInv' /\ [Next]_vars => [Promise!Next]_(Promise!vars)
  BY StepPromise
<1> QED BY <1>1, <1>2, Invariance, PTL DEF Spec, PromiseKept, Promise!Spec
=============================================================================
