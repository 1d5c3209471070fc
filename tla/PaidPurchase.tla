---------------------------- MODULE PaidPurchase ----------------------------
(***************************************************************************)
(* One Play subscription and the accounts that own it in turn.             *)
(*                                                                         *)
(* v1_play_handoff (a client's purchase or restore) and                    *)
(* shared_play_lifecycle (notifications and the schedule) both capture the *)
(* ownership lock and the ACCESS row, then ask the store, then submit one  *)
(* transaction that conditions what was captured and moves the lock, the   *)
(* paid source, the funded period of the account, the usage row that every *)
(* owner shares, and the retained proof together.  Checks are reserved and *)
(* settled against period and usage at once (purchase_usage.py).           *)
(*                                                                         *)
(* The usage row of a funded period outlives the account: an owner that    *)
(* has asked for deletion loses the lock, and the next account restores    *)
(* what is left of the allowance.  It goes at the deadline, seven days     *)
(* behind the access window, and the store may move that window.           *)
(***************************************************************************)
EXTENDS Integers, FiniteSets

CONSTANTS
  Accounts,    \* accounts that may present the purchase token
  Buyer,       \* the account the purchase was made for (obfuscatedAccountId)
  Nil,         \* no account
  Workers,     \* invocations of handoff and lifecycle
  Limit,       \* PAID_COMPLETED_CHECKS
  Length,      \* length of a funded period
  Retention,   \* RETENTION_SECONDS
  MaxAge,      \* verification_max_age
  MaxOrder,    \* bound: funded periods
  MaxEdition,  \* bound: changes of the store's record
  Horizon      \* bound: the clock stops here

ASSUME PurchaseAssumption ==
  /\ IsFiniteSet(Accounts)
  /\ Buyer \in Accounts /\ Nil \notin Accounts
  /\ {Limit, Length, Retention, MaxOrder} \subseteq Nat \ {0}
  /\ {MaxAge, MaxEdition, Horizon} \subseteq Nat

VARIABLES
  now,       \* epoch seconds
  store,     \* what the provider answers: [active, order, until, edition]
  account,   \* state of each account: deletion fences it, erasure empties it
  owner,     \* account of the TOKEN#/IDEMPOTENCY lock and its locator
  source,    \* paid source of each account's ACCESS row
  retained,  \* access window of each account's PLAY_TOKEN row, or NoProof
  usage,     \* V1#PURCHASE_USAGE row of each funded period
  period,    \* PERIOD row of each account and funded period
  pending,   \* CHECK rows in state ADMITTED, by account and funded period
  job,       \* local state of each invocation
  charged,   \* history: checks ever charged in a funded period
  granted    \* history: edition of the proof each account's source is from

rows == <<owner, source, retained, usage, period, pending>>
vars == <<now, store, account, rows, job, charged, granted>>

-----------------------------------------------------------------------------
(* Rows *)

Orders == 1 .. MaxOrder
Start(o) == (o - 1) * Length
End(o) == o * Length

Counters == {r \in [used : 0 .. Limit, reserved : 0 .. Limit, until : Nat \cup {-1}] :
               r.used + r.reserved <= Limit}
NoRow == [used |-> 0, reserved |-> 0, until |-> -1]
Sources == [active : BOOLEAN, order : Orders \cup {0}, until : Int]
NoSource == [active |-> FALSE, order |-> 0, until |-> 0]
NoProof == -1
StoreRecords == [active : BOOLEAN, order : Orders, until : Int, edition : Nat]

\* usage_deadline
Deadline(r) == r.until + Retention

Operations == {"handoff", "refresh"}

\* The purchase as it was made.
Purchased == [active |-> TRUE, order |-> 1, until |-> End(1), edition |-> 0]

Idle == [op |-> "handoff", phase |-> "idle", account |-> Buyer, owner |-> Nil,
         fresh |-> FALSE, proof |-> Purchased, at |-> 0]

Jobs == [op : Operations, phase : {"idle", "prove", "commit"},
         account : Accounts, owner : Accounts \cup {Nil}, fresh : BOOLEAN,
         proof : StoreRecords, at : Nat]

Init ==
  /\ now = 0
  /\ store = Purchased
  /\ account = [a \in Accounts |-> "active"]
  /\ owner = Nil
  /\ source = [a \in Accounts |-> NoSource]
  /\ retained = [a \in Accounts |-> NoProof]
  /\ usage = [o \in Orders |-> NoRow]
  /\ period = [a \in Accounts |-> [o \in Orders |-> NoRow]]
  /\ pending = [a \in Accounts |-> [o \in Orders |-> 0]]
  /\ job = [w \in Workers |-> Idle]
  /\ charged = [o \in Orders |-> 0]
  /\ granted = [a \in Accounts |-> 0]

-----------------------------------------------------------------------------
(* Invocations *)

Set(w, j) == job' = [job EXCEPT ![w] = j]
Finish(w) == Set(w, Idle)

\* A transaction that writes the ACCESS row of a moves its revision: what other
\* invocations captured of it is no longer there.
Commit(w, a) ==
  job' = [v \in Workers |->
            IF v = w THEN Idle
            ELSE IF job[v].account = a THEN [job[v] EXCEPT !.fresh = FALSE] ELSE job[v]]

\* Handoff.handle up to observe_claim: the lock is free or the caller's own.
BeginHandoff(w, a) ==
  /\ job[w].phase = "idle"
  /\ account[a] = "active"
  /\ owner \in {Nil, a}
  /\ Set(w, [Idle EXCEPT !.phase = "prove", !.account = a, !.owner = owner, !.fresh = TRUE])
  /\ UNCHANGED <<now, store, account, rows, charged, granted>>

\* Reconciler.refresh up to observe_claim: of an owned head with a source, or of a
\* first purchase whose account had prepared its binding.
BeginRefresh(w, a) ==
  /\ job[w].phase = "idle"
  /\ account[a] = "active"
  /\ \/ owner = a /\ source[a] # NoSource
     \/ owner = Nil /\ source[a] = NoSource /\ a = Buyer
  /\ Set(w, [Idle EXCEPT !.op = "refresh", !.phase = "prove", !.account = a,
                          !.owner = owner, !.fresh = TRUE])
  /\ UNCHANGED <<now, store, account, rows, charged, granted>>

\* verify: an active purchase must be within its access window, and that must
\* reach the end of the funded period.
Provable ==
  store.active => /\ Start(store.order) <= now /\ now < store.until
                  /\ End(store.order) <= store.until

Prove(w) ==
  /\ job[w].phase = "prove"
  /\ Provable
  /\ Set(w, [job[w] EXCEPT !.phase = "commit", !.proof = store, !.at = now])
  /\ UNCHANGED <<now, store, account, rows, charged, granted>>

\* Mutant: the revision of ACCESS is not conditioned.
CapturedBefore(j, t) ==
  /\ account[j.account] = "active"
  /\ owner = j.owner
  /\ t \in j.at .. now
  /\ t <= j.at + MaxAge

\* The transaction finds what the invocation captured, and the clock t that the
\* code had read is one the proof was recent at.
Captured(j, t) ==
  /\ account[j.account] = "active"
  /\ j.fresh
  /\ owner = j.owner
  /\ t \in j.at .. now
  /\ t <= j.at + MaxAge

-----------------------------------------------------------------------------
(* _commit_paid of an active decision *)

\* require_existing_usage: an account that restores another's purchase may not
\* open the funded period anew.
MustExist(j) ==
  /\ j.op = "handoff" /\ j.account # Buyer
  /\ j.owner = Nil \/ source[j.account] = NoSource

\* funding_actions with the window of a new, or an unexpired usage row.
Fundable(p, t, mustExist) ==
  LET u == usage[p.order] IN
  /\ Start(p.order) <= t /\ t < p.until
  /\ u = NoRow => ~mustExist /\ p.until = End(p.order)
  /\ u # NoRow => t < Deadline(u)

Seed(o) == IF usage[o] = NoRow THEN [used |-> 0, reserved |-> 0, until |-> End(o)] ELSE usage[o]

\* An existing period has the counters of the usage row; a first one takes them
\* over when nothing is reserved, behind the period before it.
PeriodAgrees(a, o) ==
  IF period[a][o] = NoRow
  THEN /\ Seed(o).reserved = 0
       /\ source[a] # NoSource => End(source[a].order) <= Start(o)
  ELSE /\ usage[o] # NoRow
       /\ period[a][o].used = usage[o].used /\ period[a][o].reserved = usage[o].reserved

Fund(a, p) ==
  LET row == [Seed(p.order) EXCEPT !.until = p.until] IN
  /\ usage' = [usage EXCEPT ![p.order] = row]
  /\ period' = [period EXCEPT ![a][p.order] = row]
  /\ source' = [source EXCEPT ![a] = [active |-> TRUE, order |-> p.order, until |-> p.until]]
  /\ retained' = [retained EXCEPT ![a] = p.until]

\* commit_verified_paid, commit_background_initial_paid and commit_background_paid.
CommitFund(w, t) ==
  LET j == job[w]  a == j.account IN
  /\ j.phase = "commit" /\ j.proof.active
  /\ Captured(j, t)
  /\ Fundable(j.proof, t, MustExist(j))
  /\ PeriodAgrees(a, j.proof.order)
  /\ Fund(a, j.proof)
  /\ owner' = a
  /\ granted' = [granted EXCEPT ![a] = j.proof.edition]
  /\ Commit(w, a)
  /\ UNCHANGED <<now, store, account, pending, charged>>

-----------------------------------------------------------------------------
(* _commit_paid of an inactive decision *)

Mirrors(a, o) == usage[o] # NoRow /\ period[a][o] = usage[o]

Due(until, t) == until + Retention <= t

\* due_reservation_actions: every reservation of the period is closed without
\* charge, and the usage row goes.
CloseReservations(a, o, until) ==
  /\ pending[a][o] = period[a][o].reserved
  /\ usage' = [usage EXCEPT ![o] = NoRow]
  /\ period' = [period EXCEPT ![a][o].until = until, ![a][o].reserved = 0]
  /\ pending' = [pending EXCEPT ![a][o] = 0]

\* access_window_actions.
MoveWindow(a, o, until, t) ==
  /\ usage[o].until < until => t < Deadline(usage[o])
  /\ usage' = [usage EXCEPT ![o] = IF Due(until, t) THEN NoRow ELSE [@ EXCEPT !.until = until]]
  /\ period' = [period EXCEPT ![a][o].until = until]
  /\ UNCHANGED pending

\* Mutant: the window of a period without a usage row may move anywhere.
UsageGoneAnywhere(a, o, until, t) ==
  /\ usage[o] = NoRow
  /\ period' = [period EXCEPT ![a][o].until = until]
  /\ UNCHANGED <<usage, pending>>

\* The usage row has expired already, and the window stays behind its deadline.
UsageGone(a, o, until, t) ==
  /\ usage[o] = NoRow
  /\ Deadline(period[a][o]) <= t /\ Due(until, t)
  /\ period[a][o].reserved = 0
  /\ period' = [period EXCEPT ![a][o].until = until]
  /\ UNCHANGED <<usage, pending>>

CloseWindow(a, o, until, t) ==
  \/ UsageGone(a, o, until, t)
  \/ /\ Mirrors(a, o)
     /\ IF Due(until, t) /\ period[a][o].reserved > 0
        THEN CloseReservations(a, o, until)
        ELSE MoveWindow(a, o, until, t)

\* commit_background_paid; a handoff is answered not_granted instead.
CommitInactive(w, t) ==
  LET j == job[w]  a == j.account  s == source[a] IN
  /\ j.phase = "commit" /\ ~j.proof.active
  /\ j.op = "refresh" /\ j.owner = a
  /\ Captured(j, t)
  /\ Start(s.order) <= j.proof.until
  /\ CloseWindow(a, s.order, j.proof.until, t)
  /\ source' = [source EXCEPT ![a] = [@ EXCEPT !.active = FALSE, !.until = j.proof.until]]
  /\ retained' = [retained EXCEPT ![a] = IF Due(j.proof.until, t) THEN NoProof ELSE j.proof.until]
  /\ granted' = [granted EXCEPT ![a] = j.proof.edition]
  /\ Commit(w, a)
  /\ UNCHANGED <<now, store, account, owner, charged>>

\* An answer that commits nothing (a replay, a refusal), an error, a death.
Stop(w) ==
  /\ job[w].phase # "idle"
  /\ Finish(w)
  /\ UNCHANGED <<now, store, account, rows, charged, granted>>

-----------------------------------------------------------------------------
(* Checks on the funded period *)

Change(row, reserved, used) == [row EXCEPT !.reserved = @ + reserved, !.used = @ + used]

\* counter_action, and the check of the allowance in _grant.
Countable(row, reserved, used) ==
  /\ row.reserved + reserved >= 0
  /\ row.used + used + row.reserved + reserved <= Limit

\* Mutant: the account's period alone is counted.
PairedLocal(a, o, reserved, used) ==
  /\ period' = [period EXCEPT ![a][o] = Change(@, reserved, used)]
  /\ UNCHANGED usage

\* paired_counter_actions before the deadline: both rows, which agree.
Paired(a, o, reserved, used) ==
  /\ Mirrors(a, o) /\ now < Deadline(usage[o])
  /\ Countable(usage[o], reserved, used)
  /\ period' = [period EXCEPT ![a][o] = Change(@, reserved, used)]
  /\ usage' = [usage EXCEPT ![o] = Change(@, reserved, used)]

\* global_for_period with allow_expired: behind the deadline the usage row is of
\* no further consequence, whether it is still there or not.
LocalOnly(a, o, reserved) ==
  /\ Deadline(period[a][o]) <= now
  /\ period[a][o].reserved + reserved >= 0
  /\ period' = [period EXCEPT ![a][o] = Change(@, reserved, 0)]
  /\ UNCHANGED usage

\* _grant and admit, on paid access.
Admit(a) ==
  LET s == source[a]  o == s.order IN
  /\ account[a] = "active"
  /\ s.active /\ Start(o) <= now /\ now < s.until
  /\ now < period[a][o].until
  /\ Paired(a, o, 1, 0)
  /\ pending' = [pending EXCEPT ![a][o] = @ + 1]
  /\ UNCHANGED <<now, store, account, owner, source, retained, job, charged, granted>>

\* _settle, with the charge of its outcome.
Settle(a, o, charge) ==
  /\ account[a] = "active"
  /\ pending[a][o] > 0
  /\ Paired(a, o, -1, charge)
  /\ pending' = [pending EXCEPT ![a][o] = @ - 1]
  /\ charged' = [charged EXCEPT ![o] = @ + charge]
  /\ UNCHANGED <<now, store, account, owner, source, retained, job, granted>>

\* Recovery.expire; _purchase_releases of an account that is being erased.
Release(a, o) ==
  /\ account[a] # "erased"
  /\ pending[a][o] > 0
  /\ IF Deadline(period[a][o]) <= now THEN LocalOnly(a, o, -1) ELSE Paired(a, o, -1, 0)
  /\ pending' = [pending EXCEPT ![a][o] = @ - 1]
  /\ UNCHANGED <<now, store, account, owner, source, retained, job, charged, granted>>

\* _expire_purchase_usage, abandoned reservations or not.
ExpireUsage(o) ==
  /\ usage[o] # NoRow
  /\ Deadline(usage[o]) <= now
  /\ usage' = [usage EXCEPT ![o] = NoRow]
  /\ UNCHANGED <<now, store, account, owner, source, retained, period, pending,
                 job, charged, granted>>

\* The lifecycle worker deletes a proof at its deadline.
ExpireProof(a) ==
  /\ retained[a] # NoProof
  /\ retained[a] + Retention <= now
  /\ retained' = [retained EXCEPT ![a] = NoProof]
  /\ UNCHANGED <<now, store, account, owner, source, usage, period, pending,
                 job, charged, granted>>

-----------------------------------------------------------------------------
(* Erasure of an account *)

RequestDeletion(a) ==
  /\ account[a] = "active"
  /\ account' = [account EXCEPT ![a] = "deleting"]
  /\ UNCHANGED <<now, store, rows, job, charged, granted>>

\* Mutant: the lock of any account may be erased.
EraseAnyLock(a) ==
  /\ owner = a
  /\ owner' = Nil
  /\ UNCHANGED <<now, store, account, source, retained, usage, period, pending,
                 job, charged, granted>>

\* delete_owned_batch.
EraseLock(a) ==
  /\ account[a] = "deleting"
  /\ owner = a
  /\ owner' = Nil
  /\ UNCHANGED <<now, store, account, source, retained, usage, period, pending,
                 job, charged, granted>>

\* TokenDeletion.delete_batch.
EraseProof(a) ==
  /\ account[a] = "deleting"
  /\ retained[a] # NoProof
  /\ retained' = [retained EXCEPT ![a] = NoProof]
  /\ UNCHANGED <<now, store, account, owner, source, usage, period, pending,
                 job, charged, granted>>

\* AuthorityDeletion.delete_batch, behind the last release: a period with nothing
\* reserved is erased without the usage row.
EraseAuthority(a) ==
  /\ account[a] = "deleting"
  /\ \A o \in Orders : pending[a][o] = 0 /\ period[a][o].reserved = 0
  /\ account' = [account EXCEPT ![a] = "erased"]
  /\ source' = [source EXCEPT ![a] = NoSource]
  /\ period' = [period EXCEPT ![a] = [o \in Orders |-> NoRow]]
  /\ UNCHANGED <<now, store, owner, retained, usage, pending, job, charged, granted>>

-----------------------------------------------------------------------------
(* The store *)

Tick ==
  /\ now < Horizon
  /\ now' = now + 1
  /\ UNCHANGED <<store, account, rows, job, charged, granted>>

\* The next order is paid.
Renew ==
  /\ store.order < MaxOrder /\ store.edition < MaxEdition
  /\ store' = [active |-> TRUE, order |-> store.order + 1, until |-> End(store.order + 1),
               edition |-> store.edition + 1]
  /\ UNCHANGED <<now, account, rows, job, charged, granted>>

\* Revoked now, on hold or expired; or active again, also beyond the funded
\* period (grace, deferral).
Amend ==
  /\ store.edition < MaxEdition
  /\ \E r \in [active : {TRUE}, until : {End(store.order), End(store.order) + 1}]
              \cup [active : {FALSE}, until : {now, store.until}] :
       store' = [store EXCEPT !.active = r.active, !.until = r.until, !.edition = @ + 1]
  /\ UNCHANGED <<now, account, rows, job, charged, granted>>

Next ==
  \/ \E w \in Workers :
       \/ \E a \in Accounts : BeginHandoff(w, a) \/ BeginRefresh(w, a)
       \/ Prove(w)
       \/ \E t \in 0 .. now : CommitFund(w, t) \/ CommitInactive(w, t)
       \/ Stop(w)
  \/ \E a \in Accounts :
       \/ Admit(a) \/ ExpireProof(a)
       \/ \E o \in Orders : Release(a, o) \/ \E c \in {0, 1} : Settle(a, o, c)
       \/ RequestDeletion(a) \/ EraseLock(a) \/ EraseProof(a) \/ EraseAuthority(a)
  \/ \E o \in Orders : ExpireUsage(o)
  \/ Tick
  \/ Renew
  \/ Amend

Spec == Init /\ [][Next]_vars

-----------------------------------------------------------------------------
(* Properties *)

\* Every row and job holds values the code writes.
TypeOK ==
  /\ now \in Nat
  /\ store \in StoreRecords
  /\ account \in [Accounts -> {"active", "deleting", "erased"}]
  /\ owner \in Accounts \cup {Nil}
  /\ source \in [Accounts -> Sources]
  /\ retained \in [Accounts -> Int]
  /\ usage \in [Orders -> Counters]
  /\ period \in [Accounts -> [Orders -> Counters]]
  /\ pending \in [Accounts -> [Orders -> Nat]]
  /\ job \in [Workers -> Jobs]
  /\ charged \in [Orders -> Nat]
  /\ granted \in [Accounts -> Nat]

\* What all owners together are charged, or may still be charged, in one funded
\* period never exceeds its allowance: neither a change of owner, nor the end of
\* the usage row, nor a store that revokes and restores the purchase renews it.
\* (Checked for one invocation at a time: the README says what two can do.)
AllowanceNotRenewed ==
  \A o \in Orders, a \in Accounts : charged[o] + pending[a][o] <= Limit

\* Two accounts never hold reservations of one funded period.
SpendInTurn ==
  \A o \in Orders, a, b \in Accounts : a = b \/ pending[a][o] = 0 \/ pending[b][o] = 0

\* Until its deadline the usage row counts the checks of every owner, and accounts
\* hold reservations of it in turn.
UsageCountsEveryOwner ==
  /\ SpendInTurn
  /\ \A o \in Orders : usage[o] # NoRow /\ now < Deadline(usage[o]) =>
       /\ usage[o].used = charged[o]
       /\ \A a \in Accounts : pending[a][o] \in {0, usage[o].reserved}
       /\ usage[o].reserved # 0 => \E a \in Accounts : pending[a][o] # 0

\* A reservation can always be given back, so that its lease and its account can
\* end: the period is behind its deadline, or it agrees with the usage row.
NoReservationStranded ==
  \A o \in Orders, a \in Accounts : pending[a][o] # 0 =>
    /\ period[a][o].reserved = pending[a][o]
    /\ Deadline(period[a][o]) <= now \/ (Mirrors(a, o) /\ now < Deadline(usage[o]))

\* Paid access is the lock owner's, and nobody else's.
PaidIsOwned ==
  \A a \in Accounts : account[a] = "active" /\ source[a] # NoSource => owner = a

\* An account's paid source, its period and its retained proof speak of one
\* window, and the usage row of it goes when that window is behind its deadline.
WindowsAgree ==
  \A a \in Accounts : account[a] = "active" /\ source[a] # NoSource =>
    LET s == source[a] IN
    /\ period[a][s.order].until = s.until
    /\ retained[a] = s.until \/ s.until + Retention <= now
    /\ usage[s.order].until = s.until \/ s.until + Retention <= now

\* No decision is replaced by one whose proof is older.
ProofsInOrder ==
  [][\A a \in Accounts : granted[a] <= granted'[a]]_vars
=============================================================================
