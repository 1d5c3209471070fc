------------------------- MODULE OperationsReceipt -------------------------
(***************************************************************************)
(* What one check leaves for operations reporting: a linkage minted with   *)
(* the admission, with a deadline of its own, and the facts captured from  *)
(* the receipt while it lives (shared_operations, operations_ingestion,    *)
(* operations_retirement, operations_callers).  A capture reads the whole  *)
(* receipt and writes it back only if nothing of it has changed; the       *)
(* invocation of the check, a client that reconciles, lease recovery and   *)
(* the expiry sweep all do so with no lock between them, and nothing about *)
(* the check itself may depend on it.                                      *)
(***************************************************************************)
EXTENDS Naturals, FiniteSets

CONSTANTS
  Lease,    \* worker_settlement_seconds
  Linked,   \* RETENTION_SECONDS of the linkage
  Retain,   \* receipt_retention_seconds
  MaxTime,  \* bound: the clock stops here
  None

\* A linkage outlives the lease: Settings.validate asks it of the retention, and
\* RETENTION_SECONDS are seven days.
ReceiptAssumption ==
  /\ {Lease, Linked, Retain, MaxTime} \subseteq Nat
  /\ Lease <= Linked /\ Lease <= Retain

VARIABLES
  now,
  producer,  \* operations_producer_enabled, which may be paused
  account,   \* the account: active, requested (deletion), fenced (ACCESS DELETING)
  row,       \* the CHECK row, or None
  check,     \* the invocation that admitted the check
  capture    \* captures in flight: of that invocation, of a client's other calls

vars == <<now, producer, account, row, check, capture>>

Callers == {"check", "client"}
NoFact == [type |-> "none", at |-> 0, value |-> "none"]

Init ==
  /\ now = 0
  /\ producer = TRUE
  /\ account = "active"
  /\ row = None
  /\ check = [stage |-> "prepared", ticket |-> "none", measured |-> "none"]
  /\ capture = [c \in Callers |-> None]

-----------------------------------------------------------------------------
(* The facts of a receipt *)

\* retirement_metadata: the linkage, which is the deadline of it.
HasLinkage(r) == r # None /\ r.linkage # None

Fact(type, at, value) == [type |-> type, at |-> at, value |-> value]
Attempts(facts) == {f \in facts : f.type \in {"started", "finished"}}

\* receipt_events: the acceptance, and of a settled check how it ended, unless the
\* cause was not recorded (settled while the producer was paused, or ambiguous).
Events(r) ==
  {Fact("accepted", r.accepted, "none")} \cup
  (IF r.state = "SETTLED" /\ r.reason # "none" THEN {Fact("terminal", r.assessed, r.outcome)} ELSE {})

\* settlement_fields: a cause that the outcome alone does not tell is passed by the
\* consumer (consumer_terminal_reason), or stays unknown.
Reasons(outcome) ==
  IF outcome = "complete" THEN {"NONE"}
  ELSE IF outcome = "failed" THEN {"SETTLED_FAILED"}
  ELSE {"PROVIDER_UNAVAILABLE", "none"}

-----------------------------------------------------------------------------
(* The check *)

\* admit, with admission_fields while the producer is enabled.
Admit ==
  /\ check.stage = "prepared" /\ account = "active"
  /\ row' = [state |-> "ADMITTED", accepted |-> now, settleBy |-> now + Lease,
             expires |-> now + Retain,
             linkage |-> IF producer THEN now + (IF Retain < Linked THEN Retain ELSE Linked) ELSE None,
             outcome |-> "none", reason |-> "none", assessed |-> 0,
             facts |-> {}, queue |-> "pending"]
  /\ check' = [check EXCEPT !.stage = "admitted"]
  /\ UNCHANGED <<now, producer, account, capture>>

\* enter_internal_attempt and complete_internal_attempt: the ticket of a start that was
\* acknowledged goes through its states once, in order, around the provider call.
Enter ==
  /\ check.stage \in {"admitted", "recorded"}
  /\ check' = [check EXCEPT !.stage = "calling",
                            !.ticket = IF @ = "NEW" THEN "ENTERED" ELSE "none"]
  /\ UNCHANGED <<now, producer, account, row, capture>>

Complete(how) ==
  /\ check.stage = "calling"
  /\ check' = [check EXCEPT !.stage = "evaluated",
                            !.ticket = IF @ = "ENTERED" THEN "MEASURED" ELSE "none",
                            !.measured = how]
  /\ UNCHANGED <<now, producer, account, row, capture>>

\* What settlement writes besides the facts: the cause while the producer is enabled,
\* and the earlier of the two deadlines for the expiry queue.
Settled(r, outcome, reason) ==
  [r EXCEPT !.state = "SETTLED", !.outcome = outcome, !.assessed = now,
            !.reason = IF producer /\ r.linkage # None THEN reason ELSE "none",
            !.queue = IF r.linkage # None THEN "due" ELSE "full"]

\* Authority.settle, by the invocation that holds the execution token.
Settle(outcome, reason) ==
  /\ check.stage = "evaluated"
  /\ row # None /\ row.state = "ADMITTED" /\ now < row.settleBy
  /\ account = "active"
  /\ outcome # "failed" => check.measured = "succeeded"
  /\ reason \in Reasons(outcome)
  /\ row' = Settled(row, outcome, reason)
  /\ check' = [check EXCEPT !.stage = "settled"]
  /\ UNCHANGED <<now, producer, account, capture>>

\* The lease has passed, or the account is closing: the invocation ends without an
\* answer of its own.  So does one that times out; a capture it sent may still land.
GiveUp ==
  /\ check.stage \notin {"prepared", "over"}
  /\ check' = [check EXCEPT !.stage = "over"]
  /\ UNCHANGED <<now, producer, account, row, capture>>

\* Recovery.expire; it records the cause whether or not the producer is paused.
Recover ==
  /\ row # None /\ row.state = "ADMITTED" /\ row.settleBy <= now
  /\ account # "fenced"
  /\ row' = [row EXCEPT !.state = "SETTLED", !.outcome = "failed",
                        !.reason = IF HasLinkage(row) /\ now < row.linkage THEN "OPERATION_EXPIRED" ELSE "none",
                        !.assessed = now,
                        !.queue = IF HasLinkage(row) THEN "due" ELSE "full"]
  /\ UNCHANGED <<now, producer, account, check, capture>>

\* recover_expired, when a client reconciles: _settle on behalf of the lost invocation.
RecoverExpired ==
  /\ row # None /\ row.state = "ADMITTED" /\ row.settleBy <= now /\ now < row.expires
  /\ account = "active"
  /\ row' = Settled(row, "failed", "OPERATION_EXPIRED")
  /\ UNCHANGED <<now, producer, account, check, capture>>

-----------------------------------------------------------------------------
(* Captures *)

\* _capture up to the projection: the clock, the receipt, its linkage.
Readable == HasLinkage(row) /\ producer /\ now < row.linkage

Read(c, attempt) ==
  capture' = [capture EXCEPT ![c] = [attempt |-> attempt, row |-> row, at |-> now]]

\* begin_authenticated_attempt, when the request has time to spare.
BeginStart ==
  /\ check.stage = "admitted" /\ check.ticket = "none" /\ capture["check"] = None
  /\ Readable /\ row.state = "ADMITTED"
  /\ Read("check", "start")
  /\ check' = [check EXCEPT !.stage = "starting"]
  /\ UNCHANGED <<now, producer, account, row>>

\* capture_authenticated behind the answer, with the ticket's one use if it has one.
BeginFinish ==
  /\ check.stage = "settled" /\ capture["check"] = None
  /\ Readable
  /\ Read("check", IF check.ticket = "MEASURED" THEN "finish" ELSE "none")
  /\ check' = [check EXCEPT !.stage = "finishing",
                            !.ticket = IF @ = "MEASURED" THEN "CONSUMED" ELSE @]
  /\ UNCHANGED <<now, producer, account, row>>

\* A client that prepares or reconciles the same check.
BeginClient ==
  /\ capture["client"] = None /\ account # "fenced"
  /\ Readable
  /\ Read("client", "none")
  /\ UNCHANGED <<now, producer, account, row, check>>

\* _attempt_projection: the first start stays, a finish needs its start.
AttemptFacts(c) ==
  LET prior == Attempts(c.row.facts) IN
  IF c.attempt = "start" /\ prior = {} THEN {Fact("started", c.at, "none")}
  ELSE IF c.attempt = "finish" /\ prior # {} /\ \A f \in prior : f.type # "finished"
       THEN prior \cup {Fact("finished", c.at, check.measured)}
  ELSE prior

Projection(c) == Events(c.row) \cup AttemptFacts(c)

\* Mutant: the row is conditioned on what it held, not on what it lacked.
SamePresent(c) ==
  LET r == c.row IN
  /\ row # None
  /\ row.state = r.state /\ row.linkage = r.linkage /\ row.queue = r.queue
  /\ r.facts # {} => row.facts = r.facts

\* exact_condition and the absences: the receipt is what was read.
Same(c) == row = c.row

\* The transaction: the deadline by the clock read before it, the access row and the
\* profile live, no deletion command, the receipt unchanged.
CanWrite(c) ==
  /\ account = "active"
  /\ Same(c)
  /\ now < c.row.linkage
  /\ c.attempt = "start" => now < c.row.settleBy

\* How the invocation goes on.  A start that is not acknowledged is no ticket.
Told(c, acknowledged) ==
  IF c # "check" THEN check
  ELSE IF check.stage = "starting"
       THEN [check EXCEPT !.stage = "recorded", !.ticket = IF acknowledged THEN "NEW" ELSE "none"]
       ELSE [check EXCEPT !.stage = "over"]

\* The capture commits; its acknowledgement may be lost.  Receipts that settled with
\* the later deadline in the queue are moved to the earlier one.
Write(caller, acknowledged) ==
  LET c == capture[caller] IN
  /\ c # None
  /\ CanWrite(c)
  /\ row' = [row EXCEPT !.facts = Projection(c),
                        !.queue = IF row.state = "SETTLED" THEN "due" ELSE "pending"]
  /\ check' = Told(caller, acknowledged)
  /\ capture' = [capture EXCEPT ![caller] = None]
  /\ UNCHANGED <<now, producer, account>>

\* A conflict, a refusal, no time left: nothing is written.
Skip(caller) ==
  /\ capture[caller] # None
  /\ check' = Told(caller, FALSE)
  /\ capture' = [capture EXCEPT ![caller] = None]
  /\ UNCHANGED <<now, producer, account, row>>

-----------------------------------------------------------------------------
(* The end of the linkage and of the receipt *)

\* What the sweeps find: the pending queue by lease, the expiring one by its deadline.
Found ==
  /\ row # None
  /\ \/ row.queue = "pending" /\ row.settleBy <= now
     \/ row.queue = "due" /\ HasLinkage(row) /\ row.linkage <= now
     \/ row.queue = "full" /\ row.expires <= now

\* OperationsRetirement.retire, from either sweep or from a capture that comes late.
Retire ==
  /\ HasLinkage(row) /\ row.linkage <= now
  /\ Found
  /\ row' = [row EXCEPT !.linkage = None, !.reason = "none", !.facts = {},
                        !.queue = IF row.state = "SETTLED" THEN "full" ELSE "pending"]
  /\ UNCHANGED <<now, producer, account, check, capture>>

\* Expiry.expire at the receipt's own deadline; the erasure worker owns a fenced one.
ExpireReceipt ==
  /\ row # None /\ row.state = "SETTLED" /\ row.expires <= now
  /\ Found /\ account # "fenced"
  /\ row' = None
  /\ UNCHANGED <<now, producer, account, check, capture>>

\* AccountDeletionService.request, AuthorityDeletion.fence and its erasure.
RequestDeletion ==
  /\ account = "active"
  /\ account' = "requested"
  /\ UNCHANGED <<now, producer, row, check, capture>>

Fence ==
  /\ account = "requested"
  /\ account' = "fenced"
  /\ UNCHANGED <<now, producer, row, check, capture>>

Erase ==
  /\ account = "fenced" /\ row # None
  /\ row' = None
  /\ UNCHANGED <<now, producer, account, check, capture>>

\* A release pauses or resumes the producer.
Toggle ==
  /\ producer' = ~producer
  /\ UNCHANGED <<now, account, row, check, capture>>

Tick ==
  /\ now < MaxTime
  /\ now' = now + 1
  /\ UNCHANGED <<producer, account, row, check, capture>>

Next ==
  \/ Admit \/ Enter \/ GiveUp \/ Recover \/ RecoverExpired
  \/ \E how \in {"succeeded", "failed"} : Complete(how)
  \/ \E o \in {"complete", "failed", "unavailable"} : \E r \in Reasons(o) : Settle(o, r)
  \/ BeginStart \/ BeginFinish \/ BeginClient
  \/ \E c \in Callers : Skip(c) \/ \E ack \in BOOLEAN : Write(c, ack)
  \/ Retire \/ ExpireReceipt \/ RequestDeletion \/ Fence \/ Erase \/ Toggle \/ Tick

Spec == Init /\ [][Next]_vars

-----------------------------------------------------------------------------
(* Properties *)

Facts == row.facts

\* Rows, tickets and captures hold what the code writes.
TypeOK ==
  /\ row # None => row.state \in {"ADMITTED", "SETTLED"} /\ row.queue \in {"pending", "due", "full"}
  /\ check.ticket \in {"none", "NEW", "ENTERED", "MEASURED", "CONSUMED"}

\* What is captured is true of the check and tells one story: it was accepted when it
\* was, it ended as it did, it was tried once, and a try that ended had begun.
FactsTrue ==
  HasLinkage(row) =>
    /\ \A f \in Facts : f.type = "accepted" => f.at = row.accepted
    /\ \A f \in Facts : f.type = "terminal" =>
         row.state = "SETTLED" /\ f.at = row.assessed /\ f.value = row.outcome /\ row.reason # "none"
    /\ \A f, g \in Facts : f.type = g.type => f = g
    /\ \A f \in Facts : f.type = "finished" =>
         f.value = check.measured /\ \E g \in Facts : g.type = "started" /\ g.at <= f.at
    /\ \A f, g \in Facts : f.type = "started" /\ g.type = "terminal" => f.at <= g.at

\* An invocation that holds a ticket finds its start recorded: the measurement it makes
\* will have something to belong to.
TicketIsBacked ==
  check.ticket \in {"NEW", "ENTERED", "MEASURED"} /\ HasLinkage(row) =>
    \E f \in Facts : f.type = "started"

\* Whoever holds the linkage past its deadline is found by a sweep, so that it ends then
\* and not with the receipt.
FoundInTime ==
  HasLinkage(row) => (row.linkage <= now => Found)

\* Captured facts are only added to while the linkage lives; none is added once the
\* account has asked for deletion or the linkage is past its deadline, and a linkage
\* that ended does not come back.
OnlyGrow ==
  /\ HasLinkage(row) /\ HasLinkage(row') => row.facts \subseteq row'.facts
  /\ HasLinkage(row') /\ row # None /\ row'.facts # row.facts =>
       account = "active" /\ now < row'.linkage
  /\ row # None /\ ~HasLinkage(row) => ~HasLinkage(row')

-----------------------------------------------------------------------------
(* The invariant the properties are proved from (ServicesProofs) *)

Outcomes == {"none", "complete", "failed", "unavailable"}
Measures == {"none", "succeeded", "failed"}
FactForms ==
  [type : {"accepted", "terminal", "started", "finished"}, at : Nat, value : Outcomes \cup Measures]

RowForms ==
  [state : {"ADMITTED", "SETTLED"}, accepted : Nat, settleBy : Nat, expires : Nat,
   linkage : Nat \cup {None}, outcome : Outcomes,
   reason : {"none", "NONE", "SETTLED_FAILED", "PROVIDER_UNAVAILABLE", "OPERATION_EXPIRED"},
   assessed : Nat, facts : SUBSET FactForms, queue : {"pending", "due", "full"}]

CheckForms ==
  [stage : {"prepared", "admitted", "starting", "recorded", "calling", "evaluated", "settled",
            "finishing", "over"},
   ticket : {"none", "NEW", "ENTERED", "MEASURED", "CONSUMED"}, measured : Measures]

\* A receipt with a linkage is queued so that it is found in time.
RowInv ==
  row # None =>
    /\ row \in RowForms
    /\ row.linkage # None =>
         /\ row.settleBy <= row.linkage
         /\ row.queue = IF row.state = "ADMITTED" THEN "pending" ELSE "due"

\* What a fact says is what the receipt, the check and the other facts say.
Agrees(f) ==
  /\ f.type \in {"accepted", "terminal"} => f \in Events(row)
  /\ f.type = "started" => f.at <= now /\ (row.state = "SETTLED" => f.at <= row.assessed)
  /\ f.type = "finished" =>
       /\ check.stage \in {"finishing", "over"} /\ f.value = check.measured
       /\ \E g \in row.facts : g.type = "started" /\ g.at <= f.at

FactsInv ==
  row # None =>
    /\ \A f \in row.facts : Agrees(f)
    /\ \A f, g \in row.facts : f.type = g.type => f = g

CheckInv ==
  /\ check \in CheckForms
  /\ check.stage = "prepared" => row = None /\ check.ticket = "none"

\* A capture knows a receipt with a linkage; a start, one that was admitted, and a finish,
\* starts from before.
CaptureInv(c) ==
  LET k == capture[c] IN
  k # None =>
    /\ k.at \in Nat /\ k.at <= now /\ HasLinkage(k.row) /\ k.attempt \in {"none", "start", "finish"}
    /\ c = "client" => k.attempt = "none"
    /\ k.attempt = "start" => k.row.state = "ADMITTED"
    /\ k.attempt = "finish" =>
         /\ check.stage \in {"finishing", "over"}
         /\ \A f \in k.row.facts : f.type = "started" => f.at <= k.at
    /\ c = "check" /\ check.stage = "starting" => k.attempt = "start"

IInv ==
  /\ now \in Nat /\ account \in {"active", "requested", "fenced"}
  /\ DOMAIN capture = Callers
  /\ RowInv /\ FactsInv /\ CheckInv /\ TicketIsBacked
  /\ \A c \in Callers : CaptureInv(c)
=============================================================================
