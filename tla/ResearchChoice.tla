--------------------------- MODULE ResearchChoice ---------------------------
(***************************************************************************)
(* The choices of one account about research: the demographic profile      *)
(* (demographic_research) or the participation in campaigns                *)
(* (campaign_participation), and their erasure with the account. A client  *)
(* reviews a version of the state and sends an operation against it; the   *)
(* answer may be lost and the operation sent again, also with other fields.*)
(***************************************************************************)
EXTENDS Naturals, FiniteSets

CONSTANTS
  Operations,  \* operationIds
  Workers,     \* requests under way at once
  Values,      \* what a demographic profile says
  MaxVersion,  \* bound of the state's version, per service
  None,
  AnyVersion          \* a first-version withdrawal names no expected version

VARIABLES
  kind,       \* which of the two services
  current,    \* the state row
  authority,  \* its copy in the ledger; demographic only
  receipt,    \* the operations' rows
  commands,   \* withdrawals in the ledger, by operation: rows that do not expire; campaigns only
  fenced,     \* the deletion of the account was requested
  erased,     \* the USER_PROFILE component has its receipt
  job,        \* requests between their reads and their transaction
  applied,    \* what was committed since the state row was created, or has outlived it
  told,       \* what clients were told was applied
  outlived    \* operations whose receipt outlived the state row

rows == <<current, authority, receipt>>
answers == <<applied, told>>
vars == <<kind, rows, commands, fenced, erased, job, answers, outlived>>

Kinds == {"demographic", "campaign"}
Versions == 0..MaxVersion[kind]
NotEnrolled == [state |-> "not_enrolled", version |-> 0, op |-> None, value |-> None, live |-> TRUE]
Idle == [op |-> None]
States == {"not_enrolled", "enrolled", "withdrawal_pending", "withdrawn"}
StateRows == [state : States, version : Versions, op : Operations \cup {None},
              value : Values \cup {None}, live : BOOLEAN]

\* The requests the parsers let through; other fields are refused before any read.
Requests ==
  IF kind = "demographic"
  THEN [action : {"join", "update"}, expected : Versions, value : Values]
       \cup [action : {"withdraw"}, expected : Versions, value : {None}]
  ELSE [action : {"join"}, expected : Versions, value : {None}]
       \cup [action : {"withdraw"}, expected : Versions \cup {AnyVersion}, value : {None}]

\* What an operation's row keeps.
Kept == [request : Requests, live : BOOLEAN]

ChoiceAssumption ==
  /\ MaxVersion \in [Kinds -> Nat] /\ AnyVersion \notin Nat /\ None \notin Operations
  /\ None \notin [request : [action : {"join", "update", "withdraw"}, expected : Nat \cup {AnyVersion},
                            value : Values \cup {None}], live : BOOLEAN]

Init ==
  /\ kind \in Kinds
  /\ current = NotEnrolled /\ authority = NotEnrolled
  /\ receipt = [o \in Operations |-> None] /\ commands = {}
  /\ fenced = FALSE /\ erased = FALSE
  /\ job = [w \in Workers |-> Idle]
  /\ applied = {} /\ told = {} /\ outlived = {}

-----------------------------------------------------------------------------
(* update_profile, update_participation *)

\* _assert_account_active, _account_authority_checks: no deletion command.
Open == ~fenced

\* A receipt is read as absent from its expiry on; its row may still be there.
Readable(o) == receipt[o] # None /\ (receipt[o] # None => receipt[o].live)

\* _assert_replay, _assert_replay_action: the whole request must be the same.
Replays(o, r) == Readable(o) /\ (Readable(o) => receipt[o].request = r)

\* What the account sees: a profile whose validity has passed must be reviewed.
Enrolled(c) == c.state = "enrolled" /\ c.live

Allowed(c, r) ==
  CASE r.action = "join" -> ~Enrolled(c) /\ c.state # "withdrawal_pending"
    [] r.action = "update" -> Enrolled(c)
    [] r.action = "withdraw" -> c.state = "enrolled"

\* _assert_authority: a state without its copy was restored from a backup.
Backed == kind = "campaign" \/ authority = current

Replay(w, o, r) ==
  /\ job[w] = Idle /\ Open /\ Replays(o, r)
  /\ told' = told \cup {<<o, r>>}
  /\ UNCHANGED <<kind, rows, commands, fenced, erased, job, applied, outlived>>

Begin(w, o, r) ==
  /\ job[w] = Idle /\ Open /\ ~Readable(o)
  /\ Backed
  /\ kind = "demographic" => current.op # o
  /\ r.expected \in {current.version, AnyVersion} /\ current.version < MaxVersion[kind]
  /\ Allowed(current, r)
  /\ job' = [job EXCEPT ![w] = [op |-> o, request |-> r, seen |-> current]]
  /\ UNCHANGED <<kind, rows, commands, fenced, erased, answers, outlived>>

Result(j) ==
  [state |-> IF j.request.action # "withdraw" THEN "enrolled"
             ELSE IF kind = "demographic" THEN "withdrawn" ELSE "withdrawal_pending",
   version |-> j.seen.version + 1, op |-> j.op, value |-> j.request.value, live |-> TRUE]

\* _current_write, _authority_write, _participation_write: the row is the one that was
\* read. An update keeps the day until which the profile is valid.
Unmoved(row, seen) == row.version = seen.version /\ row.op = seen.op

\* Mutant: the transaction leaves the receipt of the operation before.
KeepFormer(j) == [receipt EXCEPT ![j.op] = [request |-> j.request, live |-> TRUE]]

\* A demographic transaction removes the receipt of the operation before it, which
\* holds the values of then.
Receipts(j) ==
  [o \in Operations |->
     IF o = j.op THEN [request |-> j.request, live |-> TRUE]
     ELSE IF kind = "demographic" /\ o = j.seen.op THEN None ELSE receipt[o]]

\* The withdrawal of a campaign is a command in the ledger, put where there is none.
Commands(j) == IF kind = "campaign" /\ j.request.action = "withdraw" THEN {j.op} ELSE {}

CanCommit(w) ==
  /\ job[w] # Idle /\ Open
  /\ Unmoved(current, job[w].seen)
  /\ kind = "demographic" => Unmoved(authority, job[w].seen)
  /\ receipt[job[w].op] = None /\ Commands(job[w]) \cap commands = {}

Commit(w) ==
  LET j == job[w] IN
  /\ CanCommit(w)
  /\ current' = Result(j)
  /\ authority' = IF kind = "demographic" THEN Result(j) ELSE authority
  /\ receipt' = Receipts(j) /\ commands' = commands \cup Commands(j)
  /\ applied' = applied \cup {<<j.op, j.request>>}
  /\ \/ told' = told \cup {<<j.op, j.request>>}
     \/ UNCHANGED told  \* the answer is lost
  /\ job' = [job EXCEPT ![w] = Idle]
  /\ UNCHANGED <<kind, fenced, erased, outlived>>

\* A cancelled transaction reads the operation's receipt again.
Cancelled(w) ==
  LET j == job[w] IN
  /\ j # Idle /\ ~CanCommit(w)
  /\ told' = IF Replays(j.op, j.request) /\ Open THEN told \cup {<<j.op, j.request>>} ELSE told
  /\ job' = [job EXCEPT ![w] = Idle]
  /\ UNCHANGED <<kind, rows, commands, fenced, erased, applied, outlived>>

Crash(w) ==
  /\ job[w] # Idle
  /\ job' = [job EXCEPT ![w] = Idle]
  /\ UNCHANGED <<kind, rows, commands, fenced, erased, answers, outlived>>

\* The campaign deletion bridge completes a withdrawal.
CompleteWithdrawal ==
  /\ ~erased /\ current.state = "withdrawal_pending" /\ current.version < MaxVersion[kind]
  /\ current' = [current EXCEPT !.state = "withdrawn", !.version = @ + 1]
  /\ UNCHANGED <<kind, authority, receipt, commands, fenced, erased, job, answers, outlived>>

-----------------------------------------------------------------------------
(* Expiry: a receipt after 7 days, a state and its copy 400 days after the   *)
(* profile was made or withdrawn, each at a time of its own. No request is   *)
(* under way for days.                                                       *)

\* Only an update of the last days leaves a receipt behind.
Lapse ==
  /\ kind = "demographic" /\ current # NotEnrolled /\ current.live
  /\ \A o \in Operations : Readable(o) => receipt[o].request.action = "update"
  /\ \A w \in Workers : job[w] = Idle
  /\ current' = [current EXCEPT !.live = FALSE]
  /\ authority' = IF authority = NotEnrolled THEN authority ELSE [authority EXCEPT !.live = FALSE]
  /\ UNCHANGED <<kind, receipt, commands, fenced, erased, job, answers, outlived>>

Of(pairs, operations) == {a \in pairs : a[1] \in operations}

DropState ==
  /\ ~current.live
  /\ \A w \in Workers : job[w] = Idle
  /\ current' = NotEnrolled
  /\ outlived' = {o \in Operations : receipt[o] # None}
  /\ applied' = Of(applied, outlived') /\ told' = Of(told, outlived')
  /\ UNCHANGED <<kind, authority, receipt, commands, fenced, erased, job>>

DropAuthority ==
  /\ ~authority.live
  /\ authority' = NotEnrolled
  /\ UNCHANGED <<kind, current, receipt, commands, fenced, erased, job, answers, outlived>>

ExpireReceipt(o) ==
  /\ Readable(o)
  /\ \A w \in Workers : job[w] = Idle
  /\ receipt' = [receipt EXCEPT ![o].live = FALSE]
  /\ UNCHANGED <<kind, current, authority, commands, fenced, erased, job, answers, outlived>>

DropReceipt(o) ==
  /\ receipt[o] # None /\ ~Readable(o)
  /\ receipt' = [receipt EXCEPT ![o] = None]
  /\ outlived' = outlived \ {o}
  /\ applied' = applied \ Of(applied, outlived \cap {o})
  /\ told' = told \ Of(told, outlived \cap {o})
  /\ UNCHANGED <<kind, current, authority, commands, fenced, erased, job>>

-----------------------------------------------------------------------------
(* The deletion of the account: delete_user_profile_state *)

RequestDeletion ==
  /\ ~fenced /\ fenced' = TRUE
  /\ UNCHANGED <<kind, rows, commands, erased, job, answers, outlived>>

EraseReceipt(o) ==
  /\ fenced /\ receipt[o] # None
  /\ receipt' = [receipt EXCEPT ![o] = None]
  /\ UNCHANGED <<kind, current, authority, commands, fenced, erased, job, answers, outlived>>

EraseState ==
  /\ fenced /\ current # NotEnrolled
  /\ \A o \in Operations : receipt[o] = None
  /\ current' = NotEnrolled
  /\ UNCHANGED <<kind, authority, receipt, commands, fenced, erased, job, answers, outlived>>

\* _delete_demographic_authority, when the partition has been passed.
EraseAuthority ==
  /\ fenced /\ current = NotEnrolled /\ authority # NotEnrolled
  /\ \A o \in Operations : receipt[o] = None
  /\ authority' = NotEnrolled
  /\ UNCHANGED <<kind, current, receipt, commands, fenced, erased, job, answers, outlived>>

FinishErasure ==
  /\ fenced /\ ~erased /\ current = NotEnrolled /\ authority = NotEnrolled
  /\ \A o \in Operations : receipt[o] = None
  /\ erased' = TRUE
  /\ UNCHANGED <<kind, rows, commands, fenced, job, answers, outlived>>

Next ==
  \/ \E w \in Workers :
       \/ \E o \in Operations, r \in Requests : Replay(w, o, r) \/ Begin(w, o, r)
       \/ Commit(w) \/ Cancelled(w) \/ Crash(w)
  \/ CompleteWithdrawal \/ Lapse \/ DropState \/ DropAuthority
  \/ \E o \in Operations : ExpireReceipt(o) \/ DropReceipt(o) \/ EraseReceipt(o)
  \/ RequestDeletion \/ EraseState \/ EraseAuthority \/ FinishErasure

Spec == Init /\ [][Next]_vars

-----------------------------------------------------------------------------
(* Properties *)

TypeOK ==
  /\ current.version \in Versions /\ authority.version \in Versions
  /\ \A o \in Operations : receipt[o] = None \/ receipt[o].request \in Requests

Since == Of(applied, Operations \ outlived)
Withdrawals == {a \in Since : a[2].action = "withdraw"}

\* Every step of the version is one operation of a client, applied once, or the
\* completion of a withdrawal: no request is applied twice, whatever else its
\* operationId was sent with, also after its receipt has expired.
AppliedOnce ==
  current # NotEnrolled /\ ~fenced =>
    current.version = Cardinality(Since)
      + (IF kind = "demographic" THEN 0
         ELSE Cardinality(Withdrawals) - (IF current.state = "withdrawal_pending" THEN 1 ELSE 0))

\* A client is told that its request was applied only if that request was.
ToldTruth == told \subseteq applied

\* No row holds values of a profile but the state in force and the operation that
\* wrote it: a withdrawal or an update leaves none behind, however requests race. (A
\* receipt that outlives the row it was written with is found by no later operation.)
ValuesInForceOnly ==
  \A o \in Operations \ outlived :
    receipt[o] # None /\ (receipt[o] # None => receipt[o].request.value # None) =>
      fenced \/ (current.op = o /\ current.state = "enrolled")

\* Behind the fence nothing is applied or told, and what is erased stays erased.
FenceHolds ==
  /\ fenced => /\ applied' \subseteq applied /\ told' \subseteq told
               /\ \A o \in Operations : receipt[o] = None => receipt'[o] = None
  /\ erased => UNCHANGED rows

-----------------------------------------------------------------------------
(* The invariants the properties are proved from (ServicesProofs) *)

RowsInv ==
  /\ kind \in Kinds /\ fenced \in BOOLEAN /\ erased \in BOOLEAN
  /\ current \in StateRows /\ authority \in StateRows
  /\ receipt \in [Operations -> Kept \cup {None}]
  /\ current.state = "withdrawal_pending" => kind = "campaign"
  /\ outlived \subseteq Operations /\ DOMAIN job = Workers
  /\ erased => fenced /\ current = NotEnrolled /\ authority = NotEnrolled
                 /\ \A o \in Operations : receipt[o] = None

\* While a request is between its reads and its transaction the version only grows:
\* where it is still the one read, so is the row.
JobInv(w) ==
  LET j == job[w] IN
  \/ j = Idle
  \/ /\ j \in [op : Operations, request : Requests, seen : StateRows]
     /\ j.request.expected \in {j.seen.version, AnyVersion}
     /\ Allowed(j.seen, j.request) /\ j.seen.version < MaxVersion[kind]
     /\ fenced \/ j.seen.version < current.version \/ j.seen = current

\* What outlived a state row is kept apart from what was applied to the present one,
\* and no request applied to it could be again: the version it names is over, or the
\* ledger has its command.
AppliedInv ==
  /\ applied \subseteq Operations \X Requests /\ IsFiniteSet(applied) /\ told \subseteq applied
  /\ \A o \in Operations : receipt[o] # None => <<o, receipt[o].request>> \in applied
  /\ fenced \/ /\ \A o \in outlived : receipt[o] # None /\ current.op # o
               /\ \A a \in Since : IF a[2].expected = AnyVersion THEN a[1] \in commands
                                                               ELSE a[2].expected < current.version
               /\ current = NotEnrolled => Since = {}

Counted ==
  fenced \/ current.version = Cardinality(Since)
             + (IF kind = "demographic" THEN 0
                ELSE Cardinality(Withdrawals) - (IF current.state = "withdrawal_pending" THEN 1 ELSE 0))

IInv == RowsInv /\ (\A w \in Workers : JobInv(w)) /\ AppliedInv /\ Counted /\ ValuesInForceOnly
=============================================================================
