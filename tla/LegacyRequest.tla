---------------------------- MODULE LegacyRequest ----------------------------
(***************************************************************************)
(* The legacy analysis (conversation_analysis): a request holds a lease    *)
(* while a model is asked, keeps its answer before anything is charged,    *)
(* and is completed and charged in one transaction with the account's      *)
(* allowance. The endpoint itself only replays what was completed.         *)
(* What the answer becomes in the History is module History.               *)
(***************************************************************************)
EXTENDS Naturals, FiniteSets

CONSTANTS
  Requests,  \* request identifiers of the account
  Payloads,  \* contents a client can send under one of them
  Workers,   \* invocations at work at once
  Lease,     \* PROCESSING_LEASE_SECONDS
  Ttl,       \* REQUEST_ID_TTL_SECONDS
  Monthly, Credits, \* the allowance to begin with
  MaxRate,   \* scans in one window of time
  MaxTime,   \* bound of the clock
  None

\* What the configuration gives: lengths of time, amounts, and names that are not None.
RequestAssumption ==
  /\ {Lease, Ttl, Monthly, Credits, MaxRate, MaxTime} \subseteq Nat
  /\ None \notin Requests \cup Payloads

VARIABLES
  now,
  account,  \* "ACTIVE", "DELETING" or "ERASED"; and the device the client speaks from
  row,      \* ANALYSIS#REQUEST rows
  consumed, \* ANALYSIS#CONSUMPTION rows: when they expire
  allowance,\* the entitlement row
  rate,     \* scans of the current window
  job,      \* invocations
  charges   \* ghost: charges of a request since its row was created

vars == <<now, account, row, consumed, allowance, rate, job, charges>>

Idle == [phase |-> "idle"]

TypeOK ==
  /\ now \in 0..MaxTime
  /\ account \in [state : {"ACTIVE", "DELETING", "ERASED"}, device : {"bound", "replaced"}]
  /\ \A q \in Requests : row[q] # None =>
       row[q].status \in {"PROCESSING", "RESULT_READY", "COMPLETED"} /\ row[q].hash \in Payloads
  /\ allowance.monthly \in 0..Monthly /\ allowance.credits \in 0..Credits
  /\ rate \in 0..MaxRate

Init ==
  /\ now = 0
  /\ account = [state |-> "ACTIVE", device |-> "bound"]
  /\ row = [q \in Requests |-> None]
  /\ consumed = [q \in Requests |-> None]
  /\ allowance = [monthly |-> Monthly, credits |-> Credits, last |-> None, version |-> 0]
  /\ rate = 0
  /\ job = [w \in Workers |-> Idle]
  /\ charges = [q \in Requests |-> 0]

\* append_account_authority_checks: in every transaction of the pipeline.
Active == account.state = "ACTIVE"

\* How long a row lives; a stale one is there until the table's own clock takes it.
Live(q) == row[q] # None /\ row[q].expires > now

Go(w, next) == job' = [job EXCEPT ![w] = next]

Leased(h, w) == [status |-> "PROCESSING", hash |-> h, token |-> w, until |-> now + Lease,
                 expires |-> now + Ttl, answer |-> None]

-----------------------------------------------------------------------------
(* check_or_lock_request *)

\* The row is new, or replaces an expired one, whatever that was bound to; an answer
\* that was never charged stays.
LockNew(w, q, h) ==
  /\ row[q] # None => ~Live(q) /\ row[q].status # "RESULT_READY"
  /\ row' = [row EXCEPT ![q] = Leased(h, w)]
  /\ charges' = [charges EXCEPT ![q] = 0]
  /\ Go(w, [phase |-> "prepare", request |-> q, hash |-> h])

\* A lease that ended is taken over.
LeaseOver(q) == row[q].until <= now

TakeOver(w, q, h) ==
  /\ Live(q) /\ row[q].hash = h /\ row[q].status = "PROCESSING" /\ LeaseOver(q)
  /\ row' = [row EXCEPT ![q] = Leased(h, w)]
  /\ Go(w, [phase |-> "prepare", request |-> q, hash |-> h])
  /\ UNCHANGED charges

Lock(w, q, h) ==
  /\ job[w] = Idle /\ Active
  /\ LockNew(w, q, h) \/ TakeOver(w, q, h)
  /\ UNCHANGED <<now, account, consumed, allowance, rate>>

\* The request was completed: nothing is left to do.
Return(w, q, h) ==
  /\ job[w] = Idle /\ Active /\ Live(q) /\ row[q].status = "COMPLETED" /\ row[q].hash = h
  /\ Go(w, [phase |-> "told", request |-> q, hash |-> h, answer |-> row[q].answer])
  /\ UNCHANGED <<now, account, row, consumed, allowance, rate, charges>>

\* The answer of an earlier invocation is there: only the commit is left. Of an expired
\* row the content is not compared here.
Resume(w, q, h) ==
  /\ job[w] = Idle /\ row[q] # None /\ row[q].status = "RESULT_READY"
  /\ Live(q) => row[q].hash = h
  /\ Go(w, [phase |-> "resume", request |-> q, hash |-> h])
  /\ UNCHANGED <<now, account, row, consumed, allowance, rate, charges>>

-----------------------------------------------------------------------------
(* handle_analysis_request *)

\* prepare_scan_access: the window counts, then the allowance is read.
Prepare(w) ==
  LET j == job[w] IN
  /\ j.phase \in {"prepare", "resume"} /\ Active /\ rate < MaxRate
  /\ allowance.monthly + allowance.credits > 0
  /\ rate' = rate + 1
  /\ Go(w, [phase |-> IF j.phase = "resume" THEN "commit" ELSE "model",
            request |-> j.request, hash |-> j.hash, seen |-> allowance])
  /\ UNCHANGED <<now, account, row, consumed, allowance, charges>>

\* release_request: the lease's own row is deleted, unless another holds it by now.
Release(w) ==
  LET j == job[w]
      mine == row[j.request] # None /\ row[j.request].status = "PROCESSING" /\ row[j.request].token = w
  IN
  /\ j.phase \in {"prepare", "model"}
  /\ row' = IF mine THEN [row EXCEPT ![j.request] = None] ELSE row
  /\ Go(w, Idle)
  /\ UNCHANGED <<now, account, consumed, allowance, rate, charges>>

\* store_result: only by the holder of the lease.
StoreResult(w) ==
  LET j == job[w] IN
  /\ j.phase = "model" /\ Active
  /\ row[j.request] # None /\ row[j.request].status = "PROCESSING"
  /\ row[j.request].hash = j.hash /\ row[j.request].token = w
  /\ row' = [row EXCEPT ![j.request] =
       [@ EXCEPT !.status = "RESULT_READY", !.token = None, !.answer = j.hash, !.expires = now + Ttl]]
  /\ Go(w, [j EXCEPT !.phase = "commit"])
  /\ UNCHANGED <<now, account, consumed, allowance, rate, charges>>

\* _build_consumed_entitlement: the account's last scan is not charged again.
Consume(seen, q) ==
  IF seen.last = q THEN seen
  ELSE [monthly |-> IF seen.monthly > 0 THEN seen.monthly - 1 ELSE 0,
        credits |-> IF seen.monthly > 0 THEN seen.credits ELSE seen.credits - 1,
        last |-> q, version |-> seen.version + 1]

\* Mutant: any allowance is replaced.
AnyAllowance(seen) == TRUE

\* The allowance is replaced only as it was read.
SameAllowance(seen) == allowance = seen

\* commit_scan_and_request.
Commit(w) ==
  LET j == job[w]
      q == j.request
  IN
  /\ j.phase = "commit" /\ Active
  /\ row[q] # None /\ row[q].status = "RESULT_READY" /\ row[q].hash = j.hash
  /\ consumed[q] = None /\ SameAllowance(j.seen)
  /\ row' = [row EXCEPT ![q] = [@ EXCEPT !.status = "COMPLETED", !.expires = now + Ttl]]
  /\ consumed' = [consumed EXCEPT ![q] = now + Ttl]
  /\ allowance' = Consume(j.seen, q)
  /\ charges' = [charges EXCEPT ![q] = IF j.seen.last = q THEN @ ELSE @ + 1]
  /\ Go(w, [phase |-> "told", request |-> q, hash |-> j.hash, answer |-> row[q].answer])
  /\ UNCHANGED <<now, account, rate>>

\* The transaction is refused, the account is none any more, the invocation dies.
GiveUp(w) ==
  /\ job[w] # Idle
  /\ Go(w, Idle)
  /\ UNCHANGED <<now, account, row, consumed, allowance, rate, charges>>

-----------------------------------------------------------------------------
(* LegacyReplay *)

\* authority: the account is active and the client's device is the bound one.
Authority == Active /\ account.device = "bound"

\* The request and its consumption, as the client may have them again.
Replayable(q, h) ==
  /\ Live(q) /\ row[q].status = "COMPLETED" /\ row[q].hash = h
  /\ consumed[q] = row[q].expires

ReplayRead(w, q, h) ==
  /\ job[w] = Idle /\ Authority /\ Replayable(q, h)
  /\ Go(w, [phase |-> "replay", request |-> q, hash |-> h, row |-> row[q]])
  /\ UNCHANGED <<now, account, row, consumed, allowance, rate, charges>>

\* "Strong before/after reads catch intervening cleanup and binding change."
ReplayAgain(w) ==
  LET j == job[w] IN
  /\ j.phase = "replay" /\ row[j.request] = j.row /\ consumed[j.request] = j.row.expires
  /\ Go(w, [j EXCEPT !.phase = "authority"])
  /\ UNCHANGED <<now, account, row, consumed, allowance, rate, charges>>

ReplayTell(w) ==
  LET j == job[w] IN
  /\ j.phase = "authority" /\ Authority /\ now < j.row.expires
  /\ Go(w, [phase |-> "told", request |-> j.request, hash |-> j.hash, answer |-> j.row.answer])
  /\ UNCHANGED <<now, account, row, consumed, allowance, rate, charges>>

-----------------------------------------------------------------------------
(* Around it *)

Delete ==
  /\ account.state = "ACTIVE" /\ account' = [account EXCEPT !.state = "DELETING"]
  /\ UNCHANGED <<now, row, consumed, allowance, rate, job, charges>>

\* delete_analysis_abuse_control: the account's rows.
Erase ==
  /\ account.state = "DELETING" /\ account' = [account EXCEPT !.state = "ERASED"]
  /\ row' = [q \in Requests |-> None] /\ consumed' = [q \in Requests |-> None]
  /\ UNCHANGED <<now, allowance, rate, job, charges>>

ReplaceDevice ==
  /\ account.device = "bound" /\ account' = [account EXCEPT !.device = "replaced"]
  /\ UNCHANGED <<now, row, consumed, allowance, rate, job, charges>>

\* The tables' own expiry, in its own time.
Expire(q) ==
  /\ \/ row[q] # None /\ ~Live(q) /\ row' = [row EXCEPT ![q] = None] /\ UNCHANGED consumed
     \/ consumed[q] # None /\ consumed[q] <= now /\ consumed' = [consumed EXCEPT ![q] = None]
        /\ UNCHANGED row
  /\ UNCHANGED <<now, account, allowance, rate, job, charges>>

Tick ==
  /\ now < MaxTime /\ now' = now + 1 /\ rate' = 0
  /\ UNCHANGED <<account, row, consumed, allowance, job, charges>>

Next ==
  \/ \E w \in Workers :
       \/ \E q \in Requests, h \in Payloads : Lock(w, q, h) \/ Resume(w, q, h) \/ Return(w, q, h)
                                          \/ ReplayRead(w, q, h)
       \/ Prepare(w) \/ Release(w) \/ StoreResult(w) \/ Commit(w) \/ GiveUp(w)
       \/ ReplayAgain(w) \/ ReplayTell(w)
  \/ \E q \in Requests : Expire(q)
  \/ Delete \/ Erase \/ ReplaceDevice \/ Tick

Spec == Init /\ [][Next]_vars

-----------------------------------------------------------------------------
(* Properties *)

\* A completed request was charged once, unless it was the account's last scan already.
ChargedOnce ==
  \A q \in Requests : charges[q] <= 1 /\ (row[q] # None /\ row[q].status # "COMPLETED" => charges[q] = 0)

\* However many invocations charge at once, no charge takes back another: a scan costs
\* one of the month's or one credit, and never both or none.
ChargesAddUp ==
  allowance # allowance' =>
    /\ allowance.monthly + allowance.credits = allowance'.monthly + allowance'.credits + 1
    /\ allowance'.credits < allowance.credits => allowance.monthly = 0

\* What a client is told is the answer to what it sent, and is told only behind the
\* charge; a replay, only of an account that is active and on the device it is bound to.
ToldBehindCharge ==
  \A w \in Workers : job'[w].phase = "told" /\ job[w].phase # "told" =>
    /\ job'[w].answer = job'[w].hash
    /\ account.state = "ACTIVE"
    /\ job[w].phase = "authority" => account.device = "bound" /\ now < job[w].row.expires

-----------------------------------------------------------------------------
(* The invariant the properties are proved from (AccountRecordsProofs) *)

Rows == [status : {"PROCESSING", "RESULT_READY", "COMPLETED"}, hash : Payloads, token : Workers \cup {None},
         until : Nat, expires : Nat, answer : Payloads \cup {None}]

Allowances == [monthly : 0..Monthly, credits : 0..Credits, last : Requests \cup {None}, version : Nat]

\* A row's answer is to its content, and nothing was charged for one that is not completed.
RowInv(q) ==
  row[q] # None =>
    /\ row[q] \in Rows
    /\ row[q].status = "COMPLETED" \/ charges[q] = 0
    /\ row[q].status # "PROCESSING" => row[q].answer = row[q].hash

\* An invocation saw an allowance that is left, or a row that has the answer to its content.
JobInv(w) ==
  LET j == job[w] IN
  \/ j = Idle
  \/ j \in [phase : {"prepare", "resume"}, request : Requests, hash : Payloads]
  \/ /\ j \in [phase : {"model", "commit"}, request : Requests, hash : Payloads, seen : Allowances]
     /\ j.seen.monthly + j.seen.credits > 0
  \/ /\ j \in [phase : {"replay", "authority"}, request : Requests, hash : Payloads, row : Rows]
     /\ j.row.answer = j.hash
  \/ j \in [phase : {"told"}, request : Requests, hash : Payloads, answer : Payloads]

IInv ==
  /\ now \in 0..MaxTime /\ rate \in 0..MaxRate /\ allowance \in Allowances
  /\ account \in [state : {"ACTIVE", "DELETING", "ERASED"}, device : {"bound", "replaced"}]
  /\ DOMAIN row = Requests /\ DOMAIN charges = Requests /\ DOMAIN job = Workers
  /\ \A q \in Requests : charges[q] \in {0, 1} /\ RowInv(q)
  /\ \A w \in Workers : JobInv(w)
=============================================================================
