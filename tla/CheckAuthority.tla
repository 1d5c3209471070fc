--------------------------- MODULE CheckAuthority ---------------------------
(***************************************************************************)
(* shared_check_authority: transactional admission, settlement, lease      *)
(* recovery and row expiry for one account whose allowance is a trial      *)
(* period, with complimentary access switched on and off over it.          *)
(*                                                                         *)
(* Every operation is a Lambda invocation that reads DynamoDB, builds one  *)
(* transaction from what it read and when it read it, and submits that     *)
(* transaction later.  A worker's job is this local state.  Submitting has *)
(* three outcomes: committed and acknowledged, committed with the reply    *)
(* lost, or refused; on an exception the code re-reads one row.  Every row *)
(* a job reads is conditioned again by its transaction, so one atomic read *)
(* step loses nothing but the age of its clock, which the job keeps in     *)
(* "at".  An invocation can die at any moment.                             *)
(***************************************************************************)
EXTENDS Integers, FiniteSets

CONSTANTS
  Clients,          \* clientCheckIds, each bound to one validated payload
  Proofs,           \* operation proofs the authority can mint
  Workers,          \* consumer invocations
  Sweepers,         \* recovery and expiry sweep invocations
  Devices,          \* device bindings of the account
  Nil,              \* no client, proof or device
  TrialLimit,       \* TRIAL_COMPLETED_CHECKS
  MaxInflight,      \* max_inflight
  Validity,         \* operation_validity_seconds
  Settlement,       \* worker_settlement_seconds
  Reconciliation,   \* reconciliation_seconds
  Retention,        \* receipt_retention_seconds
  GovernedHistory,  \* governed_history_settlement_enabled
  InvocationLimit,  \* longest life of a Lambda invocation
  TrialEnd,         \* end of the trial period
  Horizon,          \* bound: the clock stops here
  MaxRevision       \* bound: writes of the ACCESS row

\* Settings.validate, plus what the deployment provides and the code relies on:
\* invocations (29 seconds at most) are short against a receipt's retention
\* (days), so a transaction built before a proof expired is not still on its way
\* when the receipt of that proof is deleted.
SettingsValid ==
  /\ {Validity, Settlement, Reconciliation, Retention} \subseteq Nat \ {0}
  /\ {TrialLimit, MaxInflight} \subseteq Nat \ {0}
  /\ Retention >= Validity + Settlement + Reconciliation
  /\ GovernedHistory \in BOOLEAN
  /\ InvocationLimit \in Nat
  /\ Validity + InvocationLimit <= Retention
  /\ 2 * InvocationLimit < Retention
  /\ TrialEnd \in Nat /\ Horizon \in Nat /\ MaxRevision \in Nat

ASSUME SettingsAssumption == SettingsValid

ASSUME IdentityAssumption ==
  /\ IsFiniteSet(Proofs)
  /\ Workers \cap Sweepers = {}
  /\ Nil \notin Clients \cup Proofs \cup Devices

VARIABLES
  now,         \* epoch seconds
  ledger,      \* the ACCOUNT_DELETION row exists
  access,      \* ACCESS row: [state, basis, revision]
  binding,     \* device the ACTIVE_BINDING pointer names
  period,      \* trial PERIOD row: [used, reserved]
  inflight,    \* activeCount of the INFLIGHT row
  prep,        \* PREPARE row of each client
  token,       \* what each minted proof is signed over: [client, expiry]
  check,       \* CHECK row of each proof
  held,        \* proofs whose executionToken reached a consumer
  job,         \* local state of each invocation
  admissions,  \* history: CHECK rows ever written for each proof
  charged,     \* history: proofs a settlement charged
  told         \* history: final answers clients were given for each proof

rows == <<access, binding, period, inflight, prep, token, check>>
history == <<admissions, charged, told>>
vars == <<now, ledger, rows, held, job, history>>

-----------------------------------------------------------------------------
(* Rows and jobs *)

Times == Int

NoPrep == [proof |-> Nil, open |-> FALSE, expiresAt |-> 0]
NoCheck == [state |-> "NONE", metered |-> FALSE, charge |-> 0,
            settleBy |-> 0, retention |-> 0]
NoToken == [client |-> Nil, expiry |-> 0]

PrepRows == [proof : Proofs \cup {Nil}, open : BOOLEAN, expiresAt : Times]
CheckRows == [state : {"NONE", "ADMITTED", "SETTLED"}, metered : BOOLEAN,
              charge : {0, 1}, settleBy : Times, retention : Times]
Tokens == [client : Clients \cup {Nil}, expiry : Times]
AccessStates == {"ACTIVE", "INACTIVE", "DELETING"}
Bases == {"trial", "complimentary"}
Periods == [used : Nat, reserved : Nat]
Answers == {"not_started", "zero", "one"}

Operations == {"prepare", "admit", "close", "settle", "recover",
               "lease", "expire_prepare", "expire_check"}

\* "seen" holds whatever the transaction compares for equality: the period's
\* counters, the PREPARE row's admissionState, or the row's expiry and state.
Idle == [op |-> "idle", phase |-> "none", client |-> Nil, proof |-> Nil,
         device |-> Nil, at |-> 0, revision |-> 0, charge |-> 0,
         period |-> [used |-> 0, reserved |-> 0], open |-> FALSE,
         expiry |-> 0, access |-> "ACTIVE"]

Jobs == [op : Operations \cup {"idle"}, phase : {"none", "commit", "reread"},
         client : Clients \cup {Nil}, proof : Proofs \cup {Nil},
         device : Devices \cup {Nil}, at : Times, revision : Nat,
         charge : {0, 1}, period : Periods, open : BOOLEAN,
         expiry : Times, access : AccessStates]

Begin(w, j) ==
  /\ job[w] = Idle
  /\ job' = [job EXCEPT ![w] = j]

Submitting(w, op) ==
  /\ job[w].op = op
  /\ job[w].phase = "commit"
  /\ now <= job[w].at + InvocationLimit

Finish(w) == job' = [job EXCEPT ![w] = Idle]
Uncertain(w) == job' = [job EXCEPT ![w].phase = "reread"]

Init ==
  /\ now = 0
  /\ ledger = FALSE
  /\ access = [state |-> "ACTIVE", basis |-> "trial", revision |-> 1]
  /\ binding \in Devices
  /\ period = [used |-> 0, reserved |-> 0]
  /\ inflight = 0
  /\ prep = [c \in Clients |-> NoPrep]
  /\ token = [p \in Proofs |-> NoToken]
  /\ check = [p \in Proofs |-> NoCheck]
  /\ held = {}
  /\ job = [w \in Workers \cup Sweepers |-> Idle]
  /\ admissions = [p \in Proofs |-> 0]
  /\ charged = {}
  /\ told = [p \in Proofs |-> {}]

-----------------------------------------------------------------------------
(* Conditions shared by the operations *)

\* _assert_account, and _account_conditions when a transaction evaluates it.
Available == ~ledger

\* _grant at time t: an effective grant with allowance left.
Grantable(t) ==
  /\ access.state = "ACTIVE"
  /\ access.basis = "trial" =>
       /\ t < TrialEnd
       /\ period.used + period.reserved < TrialLimit

\* Mutant: the device read before the transaction is not conditioned in it.
AuthorityUnchangedAnyDevice(j) ==
  /\ Available
  /\ access.state = "ACTIVE"
  /\ access.revision = j.revision
  /\ access.basis = "trial" => j.at < TrialEnd

\* _authority_conditions: the device and the grant are those that j read.
AuthorityUnchanged(j) ==
  /\ Available
  /\ binding = j.device
  /\ access.state = "ACTIVE"
  /\ access.revision = j.revision
  /\ access.basis = "trial" => j.at < TrialEnd

\* What _receipt_public of an existing CHECK row tells its client.
ReceiptAnswer(p) ==
  IF check[p].state # "SETTLED" THEN {}
  ELSE IF check[p].charge = 1 THEN {"one"} ELSE {"zero"}

Tell(p, answers) == told' = [told EXCEPT ![p] = @ \cup answers]

-----------------------------------------------------------------------------
(* prepare: mint a proof and keep it in the client's PREPARE row *)

BeginPrepare(w, c, d) ==
  /\ Available
  /\ d = binding
  /\ Grantable(now)
  /\ prep[c] = NoPrep
  /\ Begin(w, [Idle EXCEPT !.op = "prepare", !.phase = "commit", !.client = c,
                           !.device = d, !.at = now, !.revision = access.revision])
  /\ UNCHANGED <<now, ledger, rows, held, history>>

\* A lost reply needs no state of its own: the re-read returns the same proof.
CommitPrepare(w, p) ==
  LET j == job[w] IN
  /\ Submitting(w, "prepare")
  /\ AuthorityUnchanged(j)
  /\ prep[j.client] = NoPrep
  /\ token[p] = NoToken
  /\ token' = [token EXCEPT ![p] = [client |-> j.client, expiry |-> j.at + Validity]]
  /\ prep' = [prep EXCEPT ![j.client] =
                [proof |-> p, open |-> TRUE, expiresAt |-> j.at + Retention]]
  /\ Finish(w)
  /\ UNCHANGED <<now, ledger, access, binding, period, inflight, check, held, history>>

-----------------------------------------------------------------------------
(* admit: reserve the allowance, count the check in flight, write its row *)

BeginAdmit(w, p, d) ==
  /\ Available
  /\ token[p] # NoToken
  /\ token[p].expiry > now
  /\ check[p] = NoCheck
  /\ d = binding
  /\ Grantable(now)
  /\ now + Settlement <= Horizon
  /\ Begin(w, [Idle EXCEPT !.op = "admit", !.phase = "commit", !.proof = p,
                           !.client = token[p].client, !.device = d, !.at = now,
                           !.revision = access.revision, !.period = period])
  /\ UNCHANGED <<now, ledger, rows, held, history>>

\* Mutant: the transaction does not ask whether the preparation was closed.
PreparationPresent(j) ==
  /\ prep[j.client].proof = j.proof
  /\ prep[j.client].expiresAt > j.at

PreparationOpen(j) ==
  /\ prep[j.client].proof = j.proof
  /\ prep[j.client].open
  /\ prep[j.client].expiresAt > j.at

\* Mutant: the counters read are not compared, the reservation is a blind ADD.
CommitAdmitBlind(w) ==
  LET j == job[w]
      metered == access.basis = "trial"
  IN
  /\ Submitting(w, "admit")
  /\ AuthorityUnchanged(j)
  /\ PreparationOpen(j)
  /\ inflight < MaxInflight
  /\ check[j.proof] = NoCheck
  /\ period' = IF metered THEN [period EXCEPT !.reserved = @ + 1] ELSE period
  /\ inflight' = inflight + 1
  /\ check' = [check EXCEPT ![j.proof] =
                 [state |-> "ADMITTED", metered |-> metered, charge |-> 0,
                  settleBy |-> j.at + Settlement, retention |-> j.at + Retention]]
  /\ admissions' = [admissions EXCEPT ![j.proof] = @ + 1]
  /\ \/ held' = held \cup {j.proof} /\ Finish(w)
     \/ held' = held /\ Uncertain(w)
  /\ UNCHANGED <<now, ledger, access, binding, prep, token, charged, told>>

\* Mutant: the CHECK row is put without attribute_not_exists(PK).
CommitAdmitOverwrite(w) ==
  LET j == job[w]
      metered == access.basis = "trial"
  IN
  /\ Submitting(w, "admit")
  /\ AuthorityUnchanged(j)
  /\ PreparationOpen(j)
  /\ metered => period = j.period
  /\ inflight < MaxInflight
  /\ period' = IF metered THEN [period EXCEPT !.reserved = @ + 1] ELSE period
  /\ inflight' = inflight + 1
  /\ check' = [check EXCEPT ![j.proof] =
                 [state |-> "ADMITTED", metered |-> metered, charge |-> 0,
                  settleBy |-> j.at + Settlement, retention |-> j.at + Retention]]
  /\ admissions' = [admissions EXCEPT ![j.proof] = @ + 1]
  /\ \/ held' = held \cup {j.proof} /\ Finish(w)
     \/ held' = held /\ Uncertain(w)
  /\ UNCHANGED <<now, ledger, access, binding, prep, token, charged, told>>

CommitAdmit(w) ==
  LET j == job[w]
      metered == access.basis = "trial"
  IN
  /\ Submitting(w, "admit")
  /\ AuthorityUnchanged(j)
  /\ PreparationOpen(j)
  /\ metered => period = j.period
  /\ inflight < MaxInflight
  /\ check[j.proof] = NoCheck
  /\ period' = IF metered THEN [period EXCEPT !.reserved = @ + 1] ELSE period
  /\ inflight' = inflight + 1
  /\ check' = [check EXCEPT ![j.proof] =
                 [state |-> "ADMITTED", metered |-> metered, charge |-> 0,
                  settleBy |-> j.at + Settlement, retention |-> j.at + Retention]]
  /\ admissions' = [admissions EXCEPT ![j.proof] = @ + 1]
  /\ \/ held' = held \cup {j.proof} /\ Finish(w)
     \/ held' = held /\ Uncertain(w)
  /\ UNCHANGED <<now, ledger, access, binding, prep, token, charged, told>>

-----------------------------------------------------------------------------
(* reconcile: read the receipt, or close a proof that was never admitted *)

\* The branch of reconcile, admit and settle that finds the CHECK row.
ReadReceipt(p) ==
  /\ Available
  /\ check[p].state = "SETTLED"
  /\ check[p].retention > now
  /\ Tell(p, ReceiptAnswer(p))
  /\ UNCHANGED <<now, ledger, rows, held, job, admissions, charged>>

BeginClose(w, p) ==
  LET c == token[p].client IN
  /\ Available
  /\ token[p] # NoToken
  /\ check[p] = NoCheck
  /\ token[p].expiry <= now
  /\ prep[c].proof = p
  /\ prep[c].expiresAt > now
  /\ Begin(w, [Idle EXCEPT !.op = "close", !.phase = "commit", !.proof = p,
                           !.client = c, !.at = now, !.open = prep[c].open])
  /\ UNCHANGED <<now, ledger, rows, held, history>>

\* Only an acknowledged transaction lets the code answer NOT_STARTED.
CommitClose(w) ==
  LET j == job[w] IN
  /\ Submitting(w, "close")
  /\ Available
  /\ check[j.proof] = NoCheck
  /\ prep[j.client].proof = j.proof
  /\ prep[j.client].open = j.open
  /\ prep[j.client].expiresAt > j.at
  /\ prep' = [prep EXCEPT ![j.client].open = FALSE]
  /\ \/ Tell(j.proof, {"not_started"}) /\ Finish(w)
     \/ told' = told /\ Uncertain(w)
  /\ UNCHANGED <<now, ledger, access, binding, period, inflight, token, check,
                 held, admissions, charged>>

-----------------------------------------------------------------------------
(* settle and recover_expired: end the reservation, charging or not *)

\* Release the reservation of p and write its receipt.
Settle(p, charge, retention) ==
  /\ check[p].state = "ADMITTED"
  /\ check[p].metered => period.reserved >= 1
  /\ inflight >= 1
  /\ period' = IF check[p].metered
               THEN [used |-> period.used + charge, reserved |-> period.reserved - 1]
               ELSE period
  /\ inflight' = inflight - 1
  /\ check' = [check EXCEPT ![p] = [@ EXCEPT !.state = "SETTLED", !.charge = charge,
                                             !.retention = retention]]
  /\ charged' = IF charge = 1 THEN charged \cup {p} ELSE charged

\* CHARGEABLE_OUTCOMES, and complimentary checks are never charged.
ChargeOf(p, outcome) == IF outcome = "complete" /\ check[p].metered THEN 1 ELSE 0

BeginSettle(w, p, outcome) ==
  /\ Available
  /\ p \in held
  /\ check[p].state = "ADMITTED"
  /\ check[p].retention > now
  /\ check[p].settleBy > now
  /\ Begin(w, [Idle EXCEPT !.op = "settle", !.phase = "commit", !.proof = p,
                           !.at = now, !.charge = ChargeOf(p, outcome)])
  /\ UNCHANGED <<now, ledger, rows, held, history>>

BeginRecover(w, p) ==
  /\ Available
  /\ check[p].state = "ADMITTED"
  /\ check[p].retention > now
  /\ check[p].settleBy <= now
  /\ Begin(w, [Idle EXCEPT !.op = "recover", !.phase = "commit", !.proof = p,
                           !.at = now])
  /\ UNCHANGED <<now, ledger, rows, held, history>>

\* Acknowledged or not, the code answers from a fresh read of the row.
CommitSettle(w, op) ==
  LET j == job[w]
      p == j.proof
  IN
  /\ Submitting(w, op)
  /\ Available
  /\ IF op = "settle" THEN check[p].settleBy > j.at ELSE check[p].settleBy <= j.at
  /\ \E retention \in {check[p].retention}
                        \cup (IF GovernedHistory THEN {j.at + Retention} ELSE {}) :
        Settle(p, j.charge, retention)
  /\ Uncertain(w)
  /\ UNCHANGED <<now, ledger, access, binding, prep, token, held, admissions, told>>

-----------------------------------------------------------------------------
(* What follows an exception *)

\* The service refuses the transaction, or the request never reaches it.
Refused(w) ==
  /\ job[w].phase = "commit"
  /\ Uncertain(w)
  /\ UNCHANGED <<now, ledger, rows, held, history>>

\* The same-ID read: a receipt found is returned, otherwise the error is.
Reread(w) ==
  LET j == job[w] IN
  /\ j.phase = "reread"
  /\ IF /\ j.op \in {"admit", "close", "settle", "recover"}
        /\ j.op = "close" => check[j.proof].retention > now
     THEN Tell(j.proof, ReceiptAnswer(j.proof))
     ELSE told' = told
  /\ Finish(w)
  /\ UNCHANGED <<now, ledger, rows, held, admissions, charged>>

Crash(w) ==
  /\ job[w] # Idle
  /\ Finish(w)
  /\ UNCHANGED <<now, ledger, rows, held, history>>

-----------------------------------------------------------------------------
(* Recovery.expire: the sweep ends leases whose consumer never settled *)

BeginLease(s, p) ==
  /\ check[p].state = "ADMITTED"
  /\ check[p].settleBy <= now
  /\ Begin(s, [Idle EXCEPT !.op = "lease", !.phase = "commit", !.proof = p, !.at = now])
  /\ UNCHANGED <<now, ledger, rows, held, history>>

\* Mutant: the sweep does not condition the ACCESS row.
CommitLeaseUnfenced(s) ==
  LET p == job[s].proof IN
  /\ Submitting(s, "lease")
  /\ check[p].settleBy <= job[s].at
  /\ Settle(p, 0, check[p].retention)
  /\ Finish(s)
  /\ UNCHANGED <<now, ledger, access, binding, prep, token, held, admissions, told>>

\* Mutant: the sweep conditions the account as the consumers do.
CommitLeaseAccount(s) ==
  LET p == job[s].proof IN
  /\ Submitting(s, "lease")
  /\ Available
  /\ access.state # "DELETING"
  /\ check[p].settleBy <= job[s].at
  /\ Settle(p, 0, check[p].retention)
  /\ Finish(s)
  /\ UNCHANGED <<now, ledger, access, binding, prep, token, held, admissions, told>>

CommitLease(s) ==
  LET p == job[s].proof IN
  /\ Submitting(s, "lease")
  /\ access.state # "DELETING"
  /\ check[p].settleBy <= job[s].at
  /\ Settle(p, 0, check[p].retention)
  /\ Finish(s)
  /\ UNCHANGED <<now, ledger, access, binding, prep, token, held, admissions, told>>

-----------------------------------------------------------------------------
(* Expiry.expire: rows past their retention are deleted *)

BeginExpirePrepare(s, c) ==
  /\ prep[c] # NoPrep
  /\ prep[c].expiresAt <= now
  /\ access.state # "DELETING"
  /\ Begin(s, [Idle EXCEPT !.op = "expire_prepare", !.phase = "commit", !.client = c,
                           !.at = now, !.expiry = prep[c].expiresAt,
                           !.access = access.state])
  /\ UNCHANGED <<now, ledger, rows, held, history>>

CommitExpirePrepare(s) ==
  LET j == job[s] IN
  /\ Submitting(s, "expire_prepare")
  /\ access.state = j.access
  /\ prep[j.client] # NoPrep
  /\ prep[j.client].expiresAt = j.expiry
  /\ prep' = [prep EXCEPT ![j.client] = NoPrep]
  /\ Finish(s)
  /\ UNCHANGED <<now, ledger, access, binding, period, inflight, token, check, held, history>>

\* Mutant: settled receipts are deleted before their retention deadline.
BeginExpireCheckEarly(s, p) ==
  /\ check[p].state = "SETTLED"
  /\ access.state # "DELETING"
  /\ Begin(s, [Idle EXCEPT !.op = "expire_check", !.phase = "commit", !.proof = p,
                           !.at = now, !.expiry = check[p].retention,
                           !.access = access.state])
  /\ UNCHANGED <<now, ledger, rows, held, history>>

BeginExpireCheck(s, p) ==
  /\ check[p].state = "SETTLED"
  /\ check[p].retention <= now
  /\ access.state # "DELETING"
  /\ Begin(s, [Idle EXCEPT !.op = "expire_check", !.phase = "commit", !.proof = p,
                           !.at = now, !.expiry = check[p].retention,
                           !.access = access.state])
  /\ UNCHANGED <<now, ledger, rows, held, history>>

CommitExpireCheck(s) ==
  LET j == job[s] IN
  /\ Submitting(s, "expire_check")
  /\ access.state = j.access
  /\ check[j.proof].state = "SETTLED"
  /\ check[j.proof].retention = j.expiry
  /\ check' = [check EXCEPT ![j.proof] = NoCheck]
  /\ Finish(s)
  /\ UNCHANGED <<now, ledger, access, binding, period, inflight, prep, token, held, history>>

-----------------------------------------------------------------------------
(* The account around the authority *)

Tick ==
  /\ now < Horizon
  /\ now' = now + 1
  /\ UNCHANGED <<ledger, rows, held, job, history>>

\* EntitlementWriter: complimentary access is granted or withdrawn, or an
\* expired overlay is recomputed; every write takes the next revision.
WriteAccess(complimentary) ==
  /\ Available
  /\ access.state # "DELETING"
  /\ access.revision < MaxRevision
  /\ access' = [state |-> IF complimentary \/ now < TrialEnd THEN "ACTIVE" ELSE "INACTIVE",
                basis |-> IF complimentary THEN "complimentary" ELSE "trial",
                revision |-> access.revision + 1]
  /\ UNCHANGED <<now, ledger, binding, period, inflight, prep, token, check, held, job, history>>

\* register_device: another device becomes the account's active binding.
SwitchDevice(d) ==
  /\ Available
  /\ d # binding
  /\ binding' = d
  /\ UNCHANGED <<now, ledger, access, period, inflight, prep, token, check, held, job, history>>

\* AccountDeletionService.request writes the ledger row and blocks the profile.
RequestDeletion ==
  /\ Available
  /\ ledger' = TRUE
  /\ UNCHANGED <<now, rows, held, job, history>>

\* AuthorityDeletion.delete_batch fences the partition before it deletes from
\* it; what it deletes afterwards is module AuthorityDeletion's concern.
FencePartition ==
  /\ ledger
  /\ access.state # "DELETING"
  /\ access' = [access EXCEPT !.state = "DELETING"]
  /\ UNCHANGED <<now, ledger, binding, period, inflight, prep, token, check, held, job, history>>

-----------------------------------------------------------------------------

Consumer(w) ==
  \/ \E c \in Clients, d \in Devices : BeginPrepare(w, c, d)
  \/ \E p \in Proofs : CommitPrepare(w, p)
  \/ \E p \in Proofs, d \in Devices : BeginAdmit(w, p, d)
  \/ CommitAdmit(w)
  \/ \E p \in Proofs : BeginClose(w, p)
  \/ CommitClose(w)
  \/ \E p \in Proofs, outcome \in {"complete", "failed"} : BeginSettle(w, p, outcome)
  \/ \E p \in Proofs : BeginRecover(w, p)
  \/ \E op \in {"settle", "recover"} : CommitSettle(w, op)

Sweep(s) ==
  \/ \E p \in Proofs : BeginLease(s, p)
  \/ CommitLease(s)
  \/ \E c \in Clients : BeginExpirePrepare(s, c)
  \/ CommitExpirePrepare(s)
  \/ \E p \in Proofs : BeginExpireCheck(s, p)
  \/ CommitExpireCheck(s)

Environment ==
  \/ Tick
  \/ \E complimentary \in BOOLEAN : WriteAccess(complimentary)
  \/ \E d \in Devices : SwitchDevice(d)
  \/ RequestDeletion
  \/ FencePartition

Next ==
  \/ \E w \in Workers : Consumer(w)
  \/ \E s \in Sweepers : Sweep(s)
  \/ \E w \in Workers \cup Sweepers : Refused(w) \/ Reread(w) \/ Crash(w)
  \/ \E p \in Proofs : ReadReceipt(p)
  \/ Environment

Spec == Init /\ [][Next]_vars

\* The scheduled sweep keeps running, finds every overdue lease, and is not
\* refused by the service every time it tries; the clock advances.
Fairness ==
  /\ WF_now(Tick)
  /\ \A s \in Sweepers :
       /\ WF_job(Refused(s) \/ Reread(s) \/ Crash(s))
       /\ SF_vars(CommitLease(s))
       /\ \A p \in Proofs : SF_vars(BeginLease(s, p))

FairSpec == Spec /\ Fairness

-----------------------------------------------------------------------------
(* Properties *)

\* Every row and job holds values of the fields the code writes.
TypeOK ==
  /\ now \in Nat
  /\ ledger \in BOOLEAN
  /\ access \in [state : AccessStates, basis : Bases, revision : Nat]
  /\ binding \in Devices
  /\ period \in Periods
  /\ inflight \in Nat
  /\ prep \in [Clients -> PrepRows]
  /\ token \in [Proofs -> Tokens]
  /\ check \in [Proofs -> CheckRows]
  /\ held \subseteq Proofs
  /\ job \in [Workers \cup Sweepers -> Jobs]
  /\ admissions \in [Proofs -> Nat]
  /\ charged \subseteq Proofs
  /\ told \in [Proofs -> SUBSET Answers]

Admitted == {p \in Proofs : check[p].state = "ADMITTED"}
Reserving == {p \in Admitted : check[p].metered}

\* The counters that admit, settle, recover_expired and the lease sweep each
\* change by a blind ADD agree with the receipts, whatever interleaving, lost
\* reply or crash: reservedChecks counts the open metered receipts, usedChecks
\* the charges made, and together they never exceed the period's limit.
AllowanceConserved ==
  /\ period.reserved = Cardinality(Reserving)
  /\ period.used = Cardinality(charged)
  /\ period.used + period.reserved <= TrialLimit

\* INFLIGHT.activeCount counts the open receipts, so an abandoned check never
\* keeps its slot and a settled one never frees it twice.
InflightConserved ==
  /\ inflight = Cardinality(Admitted)
  /\ inflight <= MaxInflight

\* The two kinds of counter are moved by the same transactions, each with
\* conditions of its own, and agree with the same receipts.
Accounting == AllowanceConserved /\ InflightConserved

\* A client told NOT_STARTED (charged 0) is never charged for that proof, nor
\* is its provider ever called: not by an admit that was already under way, not
\* by one that starts after the PREPARE or CHECK rows expired.
NotStartedIsFinal ==
  \A p \in Proofs : "not_started" \in told[p] => admissions[p] = 0

\* The charge a client was told is the charge that was made, and stays so: the
\* consumer, recover_expired and the sweep race to settle, and every reply is
\* taken from a re-read.
ToldTheCharge ==
  \A p \in Proofs : /\ "one" \in told[p] => p \in charged
                    /\ "zero" \in told[p] => p \notin charged

\* No client is told anything of a proof that is not, or does not stay, true.
ClientsToldTruth == NotStartedIsFinal /\ ToldTheCharge

\* A proof is admitted at most once over all time, also after its receipt has
\* been deleted, so its execution token is never issued twice.
AdmittedOnce == \A p \in Proofs : admissions[p] <= 1

\* Whatever the admitting invocation read long before, at the moment a check is
\* admitted the account is not being deleted, the request's device is still the
\* active one, a grant is in force, and a check on the trial was asked for while
\* the trial lasted, an invocation's life ago at most.
AdmissionAuthorized ==
  [][\A p \in Proofs : admissions'[p] > admissions[p] =>
       /\ ~ledger
       /\ access.state = "ACTIVE"
       /\ \E w \in Workers : job[w].proof = p /\ job[w].device = binding
       /\ check'[p].metered => now < TrialEnd + InvocationLimit]_vars

\* Once the deletion worker has fenced the partition nothing but that worker
\* changes a row of it: no consumer, sweep or expiry in flight still commits.
FencedRowsFrozen ==
  [][access.state = "DELETING" => UNCHANGED rows]_vars

\* A reservation is not held for ever: every admitted check is settled by its
\* consumer, by the client's reconciliation or by the sweep, unless deletion
\* takes the partition first.
LeaseEnds ==
  \A p \in Proofs : check[p].state = "ADMITTED"
                      ~> (check[p].state # "ADMITTED" \/ access.state = "DELETING")

-----------------------------------------------------------------------------
(* The promise this module implements *)

FateOf(p) ==
  IF p \in charged THEN "charged"
  ELSE IF check[p].state = "ADMITTED" THEN "reserved"
  ELSE IF admissions[p] > 0 THEN "released"
  ELSE IF "not_started" \in told[p] THEN "closed"
  ELSE "fresh"

Promise == INSTANCE CheckPromise WITH
  Limit <- TrialLimit,
  fate <- [p \in Proofs |-> FateOf(p)],
  metered <- charged \cup Reserving

PromiseKept == Promise!Spec
=============================================================================
