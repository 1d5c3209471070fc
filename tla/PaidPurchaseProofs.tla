------------------------ MODULE PaidPurchaseProofs ------------------------
(***************************************************************************)
(* Theorems about PaidPurchase, for any number of accounts, invocations,   *)
(* funded periods and changes of the store's record.                       *)
(*                                                                         *)
(* PaidIsOwned carries the rest: while an account is active on paid access *)
(* no transaction of another one can move its windows, because it would    *)
(* have to find the lock free or its own.  What an invocation captured is  *)
(* right as long as nothing was committed for its account since.           *)
(*                                                                         *)
(* When the invocations come one after the other, the allowance too is     *)
(* right: what the store says only moves ahead of what the account's       *)
(* source and an invocation's proof say, so a period is opened once, by    *)
(* its buyer first, and what is used of it goes where the period goes.     *)
(***************************************************************************)
EXTENDS MCPaidPurchase, TLAPS

\* A paid source names the period it was funded for.
SourceInv == \A a \in Accounts : source[a] = NoSource \/ source[a].order \in Orders

\* No account was granted from a record the store has not had.
GrantInv == \A a \in Accounts : granted[a] <= store.edition

\* What an invocation under way knows.
JobInv(j) == j.phase # "idle" =>
  /\ j.owner \in {Nil, j.account}
  /\ j.fresh /\ j.op = "refresh" /\ j.owner = j.account /\ account[j.account] = "active"
       => source[j.account] # NoSource
  /\ j.phase = "commit" => j.proof.edition <= store.edition
  /\ j.phase = "commit" /\ j.fresh => granted[j.account] <= j.proof.edition

IInv ==
  /\ TypeOK
  /\ SourceInv
  /\ PaidIsOwned
  /\ WindowsAgree
  /\ GrantInv
  /\ \A w \in Workers : JobInv(job[w])

-----------------------------------------------------------------------------

\* The bounds of a funded period are times.
LEMMA PeriodBounds == \A o \in Orders : Start(o) \in Nat /\ End(o) \in Nat
  BY PurchaseAssumption DEF Orders, Start, End

\* Rows that are not there have the shape of rows, and so does the first record.
LEMMA RowFacts ==
  /\ NoRow \in Counters /\ NoSource \in Sources /\ NoProof \in Int
  /\ Purchased \in StoreRecords /\ 1 \in Orders
<1>1. 1 \in Orders
  BY PurchaseAssumption DEF Orders
<1>2. End(1) \in Nat
  BY <1>1, PeriodBounds
<1>3. NoRow \in Counters
  BY PurchaseAssumption DEF NoRow, Counters
<1> QED
  BY <1>1, <1>2, <1>3 DEF NoSource, Sources, NoProof, Purchased, StoreRecords

\* An invocation between requests knows nothing.
LEMMA IdleFacts == Idle \in Jobs /\ JobInv(Idle) /\ JobInv(Idle)'
  BY PurchaseAssumption, RowFacts DEF Idle, Jobs, JobInv, Operations

\* Nobody has bought anything yet.
LEMMA InitIInv == Init => IInv
<1> SUFFICES ASSUME Init PROVE IInv
  OBVIOUS
<1>1. TypeOK
  <2>1. usage \in [Orders -> Counters] /\ period \in [Accounts -> [Orders -> Counters]]
    BY RowFacts DEF Init
  <2>2. source \in [Accounts -> Sources] /\ retained \in [Accounts -> Int] /\ store \in StoreRecords
    BY RowFacts DEF Init
  <2>3. job \in [Workers -> Jobs]
    BY IdleFacts DEF Init
  <2> QED
    BY <2>1, <2>2, <2>3 DEF Init, TypeOK
<1>2. SourceInv /\ PaidIsOwned /\ WindowsAgree
  BY DEF Init, SourceInv, PaidIsOwned, WindowsAgree
<1>3. GrantInv
  BY DEF Init, GrantInv, Purchased
<1>4. \A w \in Workers : JobInv(job[w])
  BY IdleFacts DEF Init
<1> QED
  BY <1>1, <1>2, <1>3, <1>4 DEF IInv

-----------------------------------------------------------------------------
(* Steps of an invocation that write no row *)

\* A step that changes one invocation's knowledge alone.
LEMMA JobOnly ==
  ASSUME IInv, NEW w \in Workers, NEW j \in Jobs, JobInv(j), Set(w, j),
         UNCHANGED <<now, store, account, rows, charged, granted>>
  PROVE  IInv'
<1> USE DEF rows
<1>1. TypeOK'
  BY DEF IInv, TypeOK, Set
<1>2. SourceInv' /\ PaidIsOwned' /\ WindowsAgree' /\ GrantInv'
  BY DEF IInv, SourceInv, PaidIsOwned, WindowsAgree, GrantInv
<1>3. (\A v \in Workers : JobInv(job[v]))'
  <2> SUFFICES ASSUME NEW v \in Workers PROVE JobInv(job[v])'
    OBVIOUS
  <2>1. job'[v] = IF v = w THEN j ELSE job[v]
    BY DEF IInv, TypeOK, Set
  <2> QED
    BY <2>1 DEF IInv, JobInv
<1> QED
  BY <1>1, <1>2, <1>3 DEF IInv

\* The steps before a transaction, and the end of an invocation.
LEMMA BeforeCommit ==
  ASSUME IInv, NEW w \in Workers, NEW a \in Accounts,
         BeginHandoff(w, a) \/ BeginRefresh(w, a) \/ Prove(w) \/ Stop(w)
  PROVE  IInv'
<1> USE PurchaseAssumption
<1>0. Idle \in Jobs /\ job[w] \in Jobs /\ JobInv(job[w]) /\ store \in StoreRecords /\ now \in Nat
  BY IdleFacts DEF IInv, TypeOK
<1>1. CASE BeginHandoff(w, a)
  <2> DEFINE k == [Idle EXCEPT !.phase = "prove", !.account = a, !.owner = owner, !.fresh = TRUE]
  <2>1. owner \in Accounts \cup {Nil}
    BY DEF IInv, TypeOK
  <2>2. k \in Jobs
    BY <1>0, <2>1 DEF Jobs, Idle, Operations
  <2>3. JobInv(k)
    BY <1>1 DEF JobInv, Idle, BeginHandoff
  <2>4. Set(w, k)
    BY <1>1 DEF BeginHandoff
  <2> HIDE DEF k
  <2> QED
    BY <1>1, <2>2, <2>3, <2>4, JobOnly DEF BeginHandoff
<1>2. CASE BeginRefresh(w, a)
  <2> DEFINE k == [Idle EXCEPT !.op = "refresh", !.phase = "prove", !.account = a,
                               !.owner = owner, !.fresh = TRUE]
  <2>1. owner \in Accounts \cup {Nil}
    BY DEF IInv, TypeOK
  <2>2. k \in Jobs
    BY <1>0, <2>1 DEF Jobs, Idle, Operations
  <2>3. JobInv(k)
    BY <1>2 DEF JobInv, Idle, BeginRefresh
  <2>4. Set(w, k)
    BY <1>2 DEF BeginRefresh
  <2> HIDE DEF k
  <2> QED
    BY <1>2, <2>2, <2>3, <2>4, JobOnly DEF BeginRefresh
<1>3. CASE Prove(w)
  <2> DEFINE k == [job[w] EXCEPT !.phase = "commit", !.proof = store, !.at = now]
  <2>1. k \in Jobs
    BY <1>0 DEF Jobs
  <2>2. JobInv(k)
    <3>1. /\ k.proof = store /\ k.phase = "commit" /\ k.account = job[w].account
          /\ k.owner = job[w].owner /\ k.fresh = job[w].fresh /\ k.op = job[w].op
      BY <1>0 DEF Jobs
    <3>2. store.edition \in Nat /\ job[w].account \in Accounts
      BY <1>0 DEF StoreRecords, Jobs
    <3>3. granted[job[w].account] <= store.edition
      BY <3>2 DEF IInv, GrantInv
    <3>4. job[w].phase # "idle"
      BY <1>3 DEF Prove
    <3> HIDE DEF k
    <3> QED
      BY <1>0, <3>1, <3>2, <3>3, <3>4 DEF JobInv
  <2>3. Set(w, k)
    BY <1>3 DEF Prove
  <2> HIDE DEF k
  <2> QED
    BY <1>3, <2>1, <2>2, <2>3, JobOnly DEF Prove
<1>4. CASE Stop(w)
  BY <1>0, <1>4, IdleFacts, JobOnly DEF Stop, Finish
<1> QED
  BY <1>1, <1>2, <1>3, <1>4

-----------------------------------------------------------------------------
(* Steps that write rows of the funded periods *)

\* Knowledge of invocations survives what leaves sources, grants and accounts alone.
LEMMA KnowledgeKept ==
  ASSUME IInv, UNCHANGED <<account, source, granted, job>>,
         UNCHANGED store \/ (store'.edition \in Nat /\ store.edition <= store'.edition)
  PROVE  (\A v \in Workers : JobInv(job[v]))'
  BY DEF IInv, TypeOK, Jobs, StoreRecords, JobInv

\* Counting leaves a row with its window.
LEMMA ChangeFacts ==
  ASSUME NEW r \in Counters, NEW reserved \in Int, NEW used \in Nat, Countable(r, reserved, used)
  PROVE  /\ Change(r, reserved, used) \in Counters
         /\ Change(r, reserved, used).until = r.until
         /\ Change(r, reserved, used).used = r.used + used
         /\ Change(r, reserved, used).reserved = r.reserved + reserved
<1>0. Limit \in Nat
  BY PurchaseAssumption
<1>1. /\ r = [used |-> r.used, reserved |-> r.reserved, until |-> r.until]
      /\ r.used \in Nat /\ r.reserved \in Nat /\ r.until \in Nat \cup {-1}
  <2>1. r \in [used : 0 .. Limit, reserved : 0 .. Limit, until : Nat \cup {-1}]
    BY DEF Counters
  <2> QED
    BY <1>0, <2>1
<1>2. Change(r, reserved, used)
        = [used |-> r.used + used, reserved |-> r.reserved + reserved, until |-> r.until]
  <2>1. PICK x \in Int, y \in Int : x = r.used + used /\ y = r.reserved + reserved
    BY <1>1
  <2>2. Change(r, reserved, used) = [r EXCEPT !.reserved = y, !.used = x]
    BY <2>1 DEF Change
  <2>3. [r EXCEPT !.reserved = y] = [used |-> r.used, reserved |-> y, until |-> r.until]
    BY <1>1
  <2>4. [[r EXCEPT !.reserved = y] EXCEPT !.used = x]
          = [used |-> x, reserved |-> y, until |-> r.until]
    <3>1. PICK q : q = [used |-> r.used, reserved |-> y, until |-> r.until]
      OBVIOUS
    <3>2. [q EXCEPT !.used = x] = [used |-> x, reserved |-> y, until |-> r.until]
      BY <3>1
    <3> QED
      BY <2>3, <3>1, <3>2
  <2> QED
    BY <2>1, <2>2, <2>4
<1>3. r.used + used \in 0 .. Limit /\ r.reserved + reserved \in 0 .. Limit
      /\ r.used + used + r.reserved + reserved <= Limit
  BY <1>0, <1>1 DEF Countable
<1>4. [used |-> r.used + used, reserved |-> r.reserved + reserved, until |-> r.until] \in Counters
  BY <1>1, <1>3 DEF Counters
<1> QED
  BY <1>2, <1>4

\* The window of a row moves without its counters, and a reservation is closed.
LEMMA MoveFacts ==
  ASSUME NEW r \in Counters, NEW x \in Nat
  PROVE  /\ [r EXCEPT !.until = x] \in Counters /\ [r EXCEPT !.until = x].until = x
         /\ [r EXCEPT !.until = x, !.reserved = 0] \in Counters
         /\ [r EXCEPT !.until = x, !.reserved = 0].until = x
<1>0. Limit \in Nat
  BY PurchaseAssumption
<1>1. r \in [used : 0 .. Limit, reserved : 0 .. Limit, until : Nat \cup {-1}]
      /\ r.used + r.reserved <= Limit
  BY DEF Counters
<1>2. PICK q : q = [r EXCEPT !.until = x]
  OBVIOUS
<1>3. q \in [used : 0 .. Limit, reserved : 0 .. Limit, until : Nat \cup {-1}]
      /\ q.used = r.used /\ q.reserved = r.reserved /\ q.until = x
  BY <1>1, <1>2
<1>4. PICK k : k = [q EXCEPT !.reserved = 0]
  OBVIOUS
<1>5. k \in [used : 0 .. Limit, reserved : 0 .. Limit, until : Nat \cup {-1}]
      /\ k.used = r.used /\ k.reserved = 0 /\ k.until = x
  BY <1>0, <1>3, <1>4
<1>6. q \in Counters
  BY <1>1, <1>3 DEF Counters
<1>7. k.used + k.reserved <= Limit
  BY <1>0, <1>1, <1>5
<1>8. k \in Counters
  BY <1>5, <1>7 DEF Counters
<1>9. k = [r EXCEPT !.until = x, !.reserved = 0]
  BY <1>2, <1>4
<1> QED
  BY <1>2, <1>3, <1>5, <1>6, <1>8, <1>9

\* Counting a check in both rows, or in the period alone, moves no window.
LEMMA PairedRows ==
  ASSUME IInv, NEW a \in Accounts, NEW o \in Orders, NEW reserved \in Int, NEW used \in Nat,
         Paired(a, o, reserved, used) \/ (used = 0 /\ reserved <= 0 /\ LocalOnly(a, o, reserved))
  PROVE  /\ usage' \in [Orders -> Counters] /\ period' \in [Accounts -> [Orders -> Counters]]
         /\ \A p \in Orders : usage'[p].until = usage[p].until
         /\ \A b \in Accounts, p \in Orders : period'[b][p].until = period[b][p].until
<1> USE PurchaseAssumption
<1>0. usage \in [Orders -> Counters] /\ period \in [Accounts -> [Orders -> Counters]]
      /\ now \in Nat /\ usage[o] \in Counters /\ period[a][o] \in Counters
  BY DEF IInv, TypeOK
<1>1. Countable(period[a][o], reserved, used)
  <2>1. CASE Paired(a, o, reserved, used)
    BY <2>1 DEF Paired, Mirrors
  <2>2. CASE used = 0 /\ reserved <= 0 /\ LocalOnly(a, o, reserved)
    BY <1>0, <2>2 DEF LocalOnly, Countable, Counters
  <2> QED
    BY <2>1, <2>2
<1>2. PICK q \in Counters : q = Change(period[a][o], reserved, used) /\ q.until = period[a][o].until
  BY <1>0, <1>1, ChangeFacts
<1>3. period' = [period EXCEPT ![a][o] = q]
  BY <1>0, <1>2 DEF Paired, LocalOnly, Change
<1>4. period' \in [Accounts -> [Orders -> Counters]]
      /\ \A b \in Accounts, p \in Orders : period'[b][p].until = period[b][p].until
  BY <1>0, <1>2, <1>3
<1>5. usage' \in [Orders -> Counters] /\ \A p \in Orders : usage'[p].until = usage[p].until
  <2>1. CASE Paired(a, o, reserved, used)
    <3>1. Change(usage[o], reserved, used) \in Counters
          /\ Change(usage[o], reserved, used).until = usage[o].until
      BY <1>0, <2>1, ChangeFacts DEF Paired
    <3>2. usage' = [usage EXCEPT ![o] = Change(usage[o], reserved, used)]
      BY <2>1 DEF Paired
    <3> QED
      BY <1>0, <3>1, <3>2
  <2>2. CASE LocalOnly(a, o, reserved)
    BY <1>0, <2>2 DEF LocalOnly
  <2> QED
    BY <2>1, <2>2
<1> QED
  BY <1>4, <1>5

\* A step that moves counters and no window.
LEMMA Counted ==
  ASSUME IInv, usage' \in [Orders -> Counters], period' \in [Accounts -> [Orders -> Counters]],
         \A p \in Orders : usage'[p].until = usage[p].until,
         \A b \in Accounts, p \in Orders : period'[b][p].until = period[b][p].until,
         UNCHANGED <<now, store, account, owner, source, retained, job, granted>>,
         pending' \in [Accounts -> [Orders -> Nat]], charged' \in [Orders -> Nat]
  PROVE  IInv'
<1>1. TypeOK'
  BY DEF IInv, TypeOK
<1>2. SourceInv' /\ PaidIsOwned' /\ GrantInv'
  BY DEF IInv, SourceInv, PaidIsOwned, GrantInv
<1>3. WindowsAgree'
  BY DEF IInv, WindowsAgree, SourceInv
<1> QED
  BY <1>1, <1>2, <1>3, KnowledgeKept DEF IInv

\* Checks.
LEMMA Checks ==
  ASSUME IInv, NEW a \in Accounts, NEW o \in Orders, NEW c \in {0, 1},
         Admit(a) \/ Settle(a, o, c) \/ Release(a, o)
  PROVE  IInv'
<1>0. pending \in [Accounts -> [Orders -> Nat]] /\ charged \in [Orders -> Nat]
  BY DEF IInv, TypeOK
<1>1. PICK p \in Orders, m \in Int, n \in Nat :
        Paired(a, p, m, n) \/ (n = 0 /\ m <= 0 /\ LocalOnly(a, p, m))
  <2>1. CASE Admit(a)
    <3>1. source[a].order \in Orders
      BY <2>1 DEF Admit, IInv, SourceInv, NoSource
    <3>2. PICK p \in Orders : p = source[a].order
      BY <3>1
    <3>3. Paired(a, p, 1, 0)
      BY <2>1, <3>2 DEF Admit
    <3> QED
      BY <3>3
  <2>2. CASE Settle(a, o, c)
    BY <2>2 DEF Settle
  <2>3. CASE Release(a, o)
    BY <2>3 DEF Release
  <2> QED
    BY <2>1, <2>2, <2>3
<1>2. pending' \in [Accounts -> [Orders -> Nat]] /\ charged' \in [Orders -> Nat]
  <2>1. CASE Admit(a)
    BY <1>0, <2>1 DEF Admit, IInv, SourceInv, NoSource
  <2>2. CASE Settle(a, o, c)
    BY <1>0, <2>2 DEF Settle
  <2>3. CASE Release(a, o)
    BY <1>0, <2>3 DEF Release
  <2> QED
    BY <2>1, <2>2, <2>3
<1>3. UNCHANGED <<now, store, account, owner, source, retained, job, granted>>
  BY DEF Admit, Settle, Release
<1>4. /\ usage' \in [Orders -> Counters] /\ period' \in [Accounts -> [Orders -> Counters]]
      /\ \A q \in Orders : usage'[q].until = usage[q].until
      /\ \A b \in Accounts, q \in Orders : period'[b][q].until = period[b][q].until
  BY <1>1, PairedRows
<1> QED
  BY <1>2, <1>3, <1>4, Counted

\* Rows go at their deadlines.
LEMMA Expiries ==
  ASSUME IInv, NEW a \in Accounts, NEW o \in Orders, ExpireUsage(o) \/ ExpireProof(a)
  PROVE  IInv'
<1> USE PurchaseAssumption, RowFacts
<1>1. CASE ExpireUsage(o)
  <2>1. TypeOK'
    BY <1>1 DEF ExpireUsage, IInv, TypeOK
  <2>2. SourceInv' /\ PaidIsOwned' /\ GrantInv'
    BY <1>1 DEF ExpireUsage, IInv, SourceInv, PaidIsOwned, GrantInv
  <2>3. WindowsAgree'
    BY <1>1 DEF ExpireUsage, IInv, TypeOK, WindowsAgree, Deadline, Counters, SourceInv
  <2> QED
    BY <1>1, <2>1, <2>2, <2>3, KnowledgeKept DEF ExpireUsage, IInv
<1>2. CASE ExpireProof(a)
  <2>1. TypeOK'
    BY <1>2 DEF ExpireProof, IInv, TypeOK
  <2>2. SourceInv' /\ PaidIsOwned' /\ GrantInv'
    BY <1>2 DEF ExpireProof, IInv, SourceInv, PaidIsOwned, GrantInv
  <2>3. WindowsAgree'
    BY <1>2 DEF ExpireProof, IInv, TypeOK, WindowsAgree
  <2> QED
    BY <1>2, <2>1, <2>2, <2>3, KnowledgeKept DEF ExpireProof, IInv
<1> QED
  BY <1>1, <1>2

\* Erasure of an account.
LEMMA Erasures ==
  ASSUME IInv, NEW a \in Accounts,
         RequestDeletion(a) \/ EraseLock(a) \/ EraseProof(a) \/ EraseAuthority(a)
  PROVE  IInv'
<1> USE PurchaseAssumption, RowFacts
<1>1. CASE RequestDeletion(a)
  <2>1. TypeOK'
    BY <1>1 DEF RequestDeletion, rows, IInv, TypeOK
  <2>2. SourceInv' /\ PaidIsOwned' /\ GrantInv' /\ WindowsAgree'
    BY <1>1 DEF RequestDeletion, rows, IInv, TypeOK, SourceInv, PaidIsOwned, GrantInv, WindowsAgree
  <2>3. (\A w \in Workers : JobInv(job[w]))'
    BY <1>1 DEF RequestDeletion, rows, IInv, TypeOK, JobInv
  <2> QED
    BY <2>1, <2>2, <2>3 DEF IInv
<1>2. CASE EraseLock(a)
  <2>1. TypeOK'
    BY <1>2 DEF EraseLock, IInv, TypeOK
  <2>2. SourceInv' /\ PaidIsOwned' /\ GrantInv' /\ WindowsAgree'
    BY <1>2 DEF EraseLock, IInv, SourceInv, PaidIsOwned, GrantInv, WindowsAgree
  <2> QED
    BY <1>2, <2>1, <2>2, KnowledgeKept DEF EraseLock, IInv
<1>3. CASE EraseProof(a)
  <2>1. TypeOK'
    BY <1>3 DEF EraseProof, IInv, TypeOK
  <2>2. SourceInv' /\ PaidIsOwned' /\ GrantInv'
    BY <1>3 DEF EraseProof, IInv, SourceInv, PaidIsOwned, GrantInv
  <2>3. WindowsAgree'
    BY <1>3 DEF EraseProof, IInv, TypeOK, WindowsAgree
  <2> QED
    BY <1>3, <2>1, <2>2, <2>3, KnowledgeKept DEF EraseProof, IInv
<1>4. CASE EraseAuthority(a)
  <2>1. TypeOK'
    BY <1>4 DEF EraseAuthority, IInv, TypeOK
  <2>2. SourceInv' /\ PaidIsOwned' /\ GrantInv' /\ WindowsAgree'
    BY <1>4 DEF EraseAuthority, IInv, TypeOK, SourceInv, PaidIsOwned, GrantInv, WindowsAgree
  <2>3. (\A w \in Workers : JobInv(job[w]))'
    <3> SUFFICES ASSUME NEW w \in Workers PROVE JobInv(job[w])'
      OBVIOUS
    <3>1. JobInv(job[w]) /\ job[w] \in Jobs
      BY DEF IInv, TypeOK
    <3> QED
      BY <1>4, <3>1 DEF EraseAuthority, IInv, TypeOK, JobInv, Jobs
  <2> QED
    BY <2>1, <2>2, <2>3 DEF IInv
<1> QED
  BY <1>1, <1>2, <1>3, <1>4

\* The clock and the store.
LEMMA World ==
  ASSUME IInv, Tick \/ Renew \/ Amend
  PROVE  IInv'
<1> USE PurchaseAssumption DEF rows
<1>0. store \in StoreRecords /\ now \in Nat
  BY DEF IInv, TypeOK
<1>1. store' \in StoreRecords /\ store.edition <= store'.edition /\ now' \in Nat /\ now <= now'
  <2>1. CASE Tick
    BY <1>0, <2>1 DEF Tick, StoreRecords
  <2>2. CASE Renew
    <3>1. store.order + 1 \in Orders
      BY <1>0, <2>2 DEF Renew, StoreRecords, Orders
    <3>2. End(store.order + 1) \in Nat
      BY <3>1, PeriodBounds
    <3> QED
      BY <1>0, <2>2, <3>1, <3>2 DEF Renew, StoreRecords
  <2>3. CASE Amend
    <3>1. End(store.order) \in Nat
      BY <1>0, PeriodBounds DEF StoreRecords
    <3>2. PICK r \in [active : {TRUE}, until : {End(store.order), End(store.order) + 1}]
                \cup [active : {FALSE}, until : {now, store.until}] :
            store' = [store EXCEPT !.active = r.active, !.until = r.until, !.edition = @ + 1]
      BY <2>3 DEF Amend
    <3>3. r.active \in BOOLEAN /\ r.until \in Int
      <4>1. store.until \in Int /\ now \in Int /\ End(store.order) + 1 \in Int
        BY <1>0, <3>1 DEF StoreRecords
      <4>2. CASE r \in [active : {TRUE}, until : {End(store.order), End(store.order) + 1}]
        <5>1. r.active \in {TRUE} /\ r.until \in {End(store.order), End(store.order) + 1}
          BY <4>2
        <5>2. r.active \in BOOLEAN
          BY <5>1
        <5>3. r.until \in Int
          <6>1. r.until = End(store.order) \/ r.until = End(store.order) + 1
            BY <5>1
          <6> QED
            BY <3>1, <4>1, <6>1
        <5> QED
          BY <5>2, <5>3
      <4>3. CASE r \in [active : {FALSE}, until : {now, store.until}]
        BY <4>1, <4>3
      <4> QED
        BY <4>2, <4>3
    <3>4. PICK b \in BOOLEAN, u \in Int : b = r.active /\ u = r.until
      BY <3>3
    <3>5. store' = [store EXCEPT !.active = b, !.until = u, !.edition = @ + 1]
      BY <3>2, <3>4
    <3>6. store.edition + 1 \in Nat /\ store.edition <= store.edition + 1
      BY <1>0 DEF StoreRecords
    <3>7. store' \in StoreRecords /\ store'.edition = store.edition + 1
      BY <1>0, <3>5, <3>6 DEF StoreRecords
    <3>8. now' = now
      BY <2>3 DEF Amend
    <3> QED
      BY <1>0, <3>6, <3>7, <3>8
  <2> QED
    BY <2>1, <2>2, <2>3
<1>2. UNCHANGED <<account, owner, source, retained, usage, period, pending, job, charged, granted>>
  BY DEF Tick, Renew, Amend
<1>3. TypeOK'
  BY <1>1, <1>2 DEF IInv, TypeOK
<1>4. SourceInv' /\ PaidIsOwned'
  BY <1>2 DEF IInv, SourceInv, PaidIsOwned
<1>5. GrantInv'
  BY <1>0, <1>1, <1>2 DEF IInv, TypeOK, GrantInv, StoreRecords
<1>6. WindowsAgree'
  <2>1. Retention \in Nat /\ \A a \in Accounts : source[a].until \in Int
    BY DEF IInv, TypeOK, Sources
  <2>2. \A x \in Int : x + Retention <= now => x + Retention <= now'
    BY <1>0, <1>1, <2>1
  <2> QED
    BY <1>2, <2>1, <2>2 DEF IInv, WindowsAgree
<1>7. store'.edition \in Nat
  BY <1>1 DEF StoreRecords
<1> QED
  BY <1>1, <1>2, <1>3, <1>4, <1>5, <1>6, <1>7, KnowledgeKept DEF IInv

-----------------------------------------------------------------------------
(* Transactions *)

\* What a transaction finds: nobody but the account it is for can be an active
\* account on paid access, and its proof is at least as recent as the one before.
LEMMA Found ==
  ASSUME IInv, NEW w \in Workers, NEW t, CommitFund(w, t) \/ CommitInactive(w, t),
         NEW a \in Accounts, a = job[w].account
  PROVE  /\ account[a] = "active" /\ owner \in {Nil, a}
         /\ t <= now
         /\ granted[a] <= job[w].proof.edition /\ job[w].proof.edition <= store.edition
         /\ \A b \in Accounts \ {a} : account[b] = "active" => source[b] = NoSource
<1>1. JobInv(job[w]) /\ job[w] \in Jobs /\ now \in Nat
  BY DEF IInv, TypeOK
<1>2. job[w].phase = "commit" /\ Captured(job[w], t)
  BY DEF CommitFund, CommitInactive
<1>3. t \in job[w].at .. now /\ job[w].at \in Nat
  BY <1>1, <1>2 DEF Captured, Jobs
<1>4. owner \in {Nil, a}
  BY <1>1, <1>2 DEF Captured, JobInv
<1>5. \A b \in Accounts \ {a} : account[b] = "active" => source[b] = NoSource
  BY <1>4, PurchaseAssumption DEF IInv, PaidIsOwned
<1> QED
  BY <1>1, <1>2, <1>3, <1>4, <1>5 DEF Captured, JobInv

\* A transaction ends its invocation, and what others captured of its account.
LEMMA Forgotten ==
  ASSUME IInv, NEW w \in Workers, NEW a \in Accounts, Commit(w, a),
         UNCHANGED <<account, store>>,
         \A b \in Accounts \ {a} : source'[b] = source[b] /\ granted'[b] = granted[b]
  PROVE  job' \in [Workers -> Jobs] /\ (\A v \in Workers : JobInv(job[v]))'
<1>1. ASSUME NEW v \in Workers PROVE job'[v] \in Jobs /\ JobInv(job[v])'
  <2>1. job[v] \in Jobs /\ JobInv(job[v])
    BY DEF IInv, TypeOK
  <2>2. CASE v = w
    <3>1. job'[v] = Idle
      BY <2>2 DEF Commit
    <3> QED
      BY <3>1, IdleFacts, PurchaseAssumption DEF JobInv, Idle
  <2>3. CASE v # w /\ job[v].account = a
    <3>1. job'[v] = [job[v] EXCEPT !.fresh = FALSE]
      BY <2>3 DEF Commit
    <3>2. job'[v] \in Jobs
      BY <2>1, <3>1 DEF Jobs
    <3>3. /\ ~job'[v].fresh /\ job'[v].phase = job[v].phase /\ job'[v].owner = job[v].owner
          /\ job'[v].account = job[v].account /\ job'[v].proof = job[v].proof
      BY <2>1, <3>1 DEF Jobs
    <3> QED
      BY <2>1, <3>2, <3>3 DEF JobInv
  <2>4. CASE v # w /\ job[v].account # a
    <3>1. job'[v] = job[v]
      BY <2>4 DEF Commit
    <3>2. job[v].account \in Accounts \ {a}
      BY <2>1, <2>4 DEF Jobs
    <3> QED
      BY <2>1, <3>1, <3>2 DEF JobInv
  <2> QED
    BY <2>2, <2>3, <2>4
<1>2. job' = [v \in Workers |-> job'[v]]
  BY DEF Commit
<1> QED
  BY <1>1, <1>2

\* A transaction writes the rows of one account and one funded period.
LEMMA Written ==
  ASSUME IInv, NEW w \in Workers, NEW t, CommitFund(w, t) \/ CommitInactive(w, t),
         NEW a \in Accounts, a = job[w].account,
         NEW o \in Orders, NEW s \in Sources, NEW x \in Int, s.order = o, owner' = a,
         source' = [source EXCEPT ![a] = s], retained' = [retained EXCEPT ![a] = x],
         usage' \in [Orders -> Counters], period' \in [Accounts -> [Orders -> Counters]],
         pending' \in [Accounts -> [Orders -> Nat]],
         period'[a][o].until = s.until,
         x = s.until \/ s.until + Retention <= now,
         usage'[o].until = s.until \/ s.until + Retention <= now
  PROVE  IInv'
<1>1. /\ account[a] = "active"
      /\ job[w].proof.edition <= store.edition
      /\ \A b \in Accounts \ {a} : account[b] = "active" => source[b] = NoSource
  BY Found
<1>2. /\ granted' = [granted EXCEPT ![a] = job[w].proof.edition]
      /\ UNCHANGED <<now, store, account, charged>> /\ Commit(w, a)
  BY DEF CommitFund, CommitInactive
<1>3. job[w].proof.edition \in Nat
  BY DEF IInv, TypeOK, Jobs, StoreRecords
<1>4. /\ source \in [Accounts -> Sources] /\ retained \in [Accounts -> Int]
      /\ granted \in [Accounts -> Nat]
  BY DEF IInv, TypeOK
<1>5. \A b \in Accounts \ {a} : source'[b] = source[b] /\ granted'[b] = granted[b]
  BY <1>2, <1>4
<1>6. source'[a] = s /\ retained'[a] = x /\ granted'[a] = job[w].proof.edition
  BY <1>2, <1>4
<1>7. job' \in [Workers -> Jobs] /\ (\A v \in Workers : JobInv(job[v]))'
  BY <1>2, <1>5, Forgotten
<1>8. TypeOK'
  BY <1>2, <1>3, <1>4, <1>7 DEF IInv, TypeOK
<1>9. SourceInv' /\ PaidIsOwned'
  BY <1>1, <1>2, <1>5, <1>6 DEF IInv, SourceInv, PaidIsOwned
<1>10. GrantInv'
  BY <1>1, <1>2, <1>5, <1>6 DEF IInv, GrantInv
<1>11. WindowsAgree'
  BY <1>1, <1>2, <1>5, <1>6 DEF WindowsAgree
<1> QED
  BY <1>7, <1>8, <1>9, <1>10, <1>11 DEF IInv

\* The purchase is found active.
LEMMA Funds ==
  ASSUME IInv, NEW w \in Workers, NEW t \in Nat, CommitFund(w, t)
  PROVE  IInv'
<1> USE PurchaseAssumption
<1>1. PICK a \in Accounts, p \in StoreRecords : a = job[w].account /\ p = job[w].proof
  BY DEF IInv, TypeOK, Jobs
<1>2. Fund(a, p) /\ owner' = a /\ UNCHANGED pending
  BY <1>1 DEF CommitFund
<1>3. PICK o \in Orders : o = p.order
  BY DEF StoreRecords
<1>4. Start(o) <= t /\ t < p.until
  BY <1>1, <1>3 DEF CommitFund, Fundable
<1>5. PICK x \in Nat : x = p.until
  BY <1>4 DEF StoreRecords
<1>6. PICK r \in Counters : r = Seed(o)
  <2>1. usage[o] \in Counters
    BY DEF IInv, TypeOK
  <2>2. End(o) \in Nat /\ 0 \in 0 .. Limit /\ 0 + 0 <= Limit
    BY PeriodBounds
  <2>3. [used |-> 0, reserved |-> 0, until |-> End(o)] \in Counters
    BY <2>2 DEF Counters
  <2> QED
    BY <2>1, <2>3 DEF Seed
<1>7. PICK q \in Counters : q = [r EXCEPT !.until = x] /\ q.until = x
  BY MoveFacts
<1>8. usage' = [usage EXCEPT ![o] = q] /\ period' = [period EXCEPT ![a][o] = q]
  BY <1>2, <1>3, <1>5, <1>6, <1>7 DEF Fund
<1>9. /\ usage' \in [Orders -> Counters] /\ period' \in [Accounts -> [Orders -> Counters]]
      /\ usage'[o].until = x /\ period'[a][o].until = x
  BY <1>7, <1>8 DEF IInv, TypeOK
<1>10. PICK s \in Sources : s = [active |-> TRUE, order |-> o, until |-> x]
                            /\ s.order = o /\ s.until = x
  <2>1. [active |-> TRUE, order |-> o, until |-> x] \in Sources
    BY DEF Sources
  <2> QED
    BY <2>1
<1>11. source' = [source EXCEPT ![a] = s] /\ retained' = [retained EXCEPT ![a] = x]
  BY <1>2, <1>3, <1>5, <1>10 DEF Fund
<1>12. pending' \in [Accounts -> [Orders -> Nat]] /\ x \in Int
  BY <1>2 DEF IInv, TypeOK
<1> QED
  BY <1>1, <1>2, <1>9, <1>10, <1>11, <1>12, Written

\* The rows of a window that ends or moves: typed, at the new end, and the usage
\* row gone only when that end is behind its deadline.
LEMMA Closed ==
  ASSUME IInv, NEW a \in Accounts, NEW o \in Orders, NEW x \in Nat, NEW t \in Int, t <= now,
         CloseWindow(a, o, x, t)
  PROVE  /\ usage' \in [Orders -> Counters] /\ period' \in [Accounts -> [Orders -> Counters]]
         /\ pending' \in [Accounts -> [Orders -> Nat]]
         /\ period'[a][o].until = x
         /\ usage'[o].until = x \/ x + Retention <= now
<1> USE PurchaseAssumption
<1>1. /\ usage \in [Orders -> Counters] /\ period \in [Accounts -> [Orders -> Counters]]
      /\ pending \in [Accounts -> [Orders -> Nat]] /\ now \in Nat
      /\ usage[o] \in Counters /\ period[a][o] \in Counters
  BY DEF IInv, TypeOK
<1>2. Due(x, t) => x + Retention <= now
  BY <1>1 DEF Due
<1>3. PICK m \in Counters : m = [period[a][o] EXCEPT !.until = x] /\ m.until = x
  BY <1>1, MoveFacts
<1>4. PICK c \in Counters : c = [period[a][o] EXCEPT !.until = x, !.reserved = 0] /\ c.until = x
  BY <1>1, MoveFacts
<1>5. PICK u \in Counters : u = [usage[o] EXCEPT !.until = x] /\ u.until = x
  BY <1>1, MoveFacts
<1>6. CASE UsageGone(a, o, x, t)
  <2>1. period' = [period EXCEPT ![a][o] = m]
    BY <1>1, <1>3, <1>6 DEF UsageGone
  <2> QED
    BY <1>1, <1>2, <1>3, <1>6, <2>1 DEF UsageGone
<1>7. CASE Due(x, t) /\ CloseReservations(a, o, x)
  <2>1. period' = [period EXCEPT ![a][o] = c]
    BY <1>1, <1>4, <1>7 DEF CloseReservations
  <2>2. usage' \in [Orders -> Counters] /\ pending' \in [Accounts -> [Orders -> Nat]]
    BY <1>1, <1>7, RowFacts DEF CloseReservations
  <2> QED
    BY <1>1, <1>2, <1>4, <1>7, <2>1, <2>2
<1>8. CASE MoveWindow(a, o, x, t)
  <2>1. period' = [period EXCEPT ![a][o] = m]
    BY <1>1, <1>3, <1>8 DEF MoveWindow
  <2>2. CASE Due(x, t)
    <3>1. usage' = [usage EXCEPT ![o] = NoRow]
      BY <1>8, <2>2 DEF MoveWindow
    <3> QED
      BY <1>1, <1>2, <1>3, <1>8, <2>1, <2>2, <3>1, RowFacts DEF MoveWindow
  <2>3. CASE ~Due(x, t)
    <3>1. usage' = [usage EXCEPT ![o] = u]
      BY <1>5, <1>8, <2>3 DEF MoveWindow
    <3> QED
      <4>1. usage' \in [Orders -> Counters] /\ usage'[o].until = x
        BY <1>1, <1>5, <3>1
      <4>2. period' \in [Accounts -> [Orders -> Counters]] /\ period'[a][o].until = x
        BY <1>1, <1>3, <2>1
      <4>3. pending' = pending
        BY <1>8 DEF MoveWindow
      <4> QED
        BY <1>1, <4>1, <4>2, <4>3
  <2> QED
    BY <2>2, <2>3
<1> QED
  BY <1>6, <1>7, <1>8 DEF CloseWindow

\* The purchase is found inactive.
LEMMA Closes ==
  ASSUME IInv, NEW w \in Workers, NEW t \in Nat, CommitInactive(w, t)
  PROVE  IInv'
<1> USE PurchaseAssumption
<1>1. PICK a \in Accounts, p \in StoreRecords : a = job[w].account /\ p = job[w].proof
  BY DEF IInv, TypeOK, Jobs
<1>2. JobInv(job[w]) /\ source[a] \in Sources
  BY DEF IInv, TypeOK
<1>3. account[a] = "active" /\ t <= now
  BY <1>1, Found
<1>4. source[a] # NoSource
  BY <1>1, <1>2, <1>3 DEF CommitInactive, Captured, JobInv
<1>5. PICK o \in Orders : o = source[a].order
  BY <1>4 DEF IInv, SourceInv
<1>6. PICK x \in Nat : x = p.until
  <2>1. Start(o) <= p.until /\ Start(o) \in Nat /\ p.until \in Int
    BY <1>1, <1>5, PeriodBounds DEF CommitInactive, StoreRecords
  <2> QED
    BY <2>1
<1>7. CloseWindow(a, o, x, t)
  BY <1>1, <1>5, <1>6 DEF CommitInactive
<1>8. t \in Int
  OBVIOUS
<1>9. /\ usage' \in [Orders -> Counters] /\ period' \in [Accounts -> [Orders -> Counters]]
      /\ pending' \in [Accounts -> [Orders -> Nat]]
      /\ period'[a][o].until = x
      /\ usage'[o].until = x \/ x + Retention <= now
  BY <1>3, <1>7, <1>8, Closed
<1>10. PICK s \in Sources : s = [source[a] EXCEPT !.active = FALSE, !.until = x]
                             /\ s.order = o /\ s.until = x
  <2>1. PICK k : k = [source[a] EXCEPT !.active = FALSE]
    OBVIOUS
  <2>2. k \in Sources /\ k.order = o
    BY <1>2, <1>5, <2>1 DEF Sources
  <2>3. PICK s : s = [k EXCEPT !.until = x]
    OBVIOUS
  <2>4. s \in Sources /\ s.order = o /\ s.until = x
    BY <2>2, <2>3 DEF Sources
  <2> QED
    BY <2>1, <2>3, <2>4
<1>11. source' = [source EXCEPT ![a] = s]
  BY <1>1, <1>6, <1>10 DEF CommitInactive, IInv, TypeOK
<1>12. PICK y \in Int : y = (IF Due(x, t) THEN NoProof ELSE x)
  BY DEF NoProof
<1>13. retained' = [retained EXCEPT ![a] = y]
  BY <1>1, <1>6, <1>12 DEF CommitInactive
<1>14. y = x \/ x + Retention <= now
  BY <1>3, <1>12 DEF Due, IInv, TypeOK
<1>15. owner' = a
  BY <1>1 DEF CommitInactive, Captured
<1> QED
  BY <1>1, <1>9, <1>10, <1>11, <1>13, <1>14, <1>15, Written

-----------------------------------------------------------------------------
(* Theorems *)

\* The invariant is inductive.
LEMMA NextIInv == IInv /\ [Next]_vars => IInv'
<1> SUFFICES ASSUME IInv, [Next]_vars PROVE IInv'
  OBVIOUS
<1> USE PurchaseAssumption
<1>1. ASSUME NEW w \in Workers, NEW a \in Accounts,
             BeginHandoff(w, a) \/ BeginRefresh(w, a) \/ Prove(w) \/ Stop(w)
      PROVE  IInv'
  BY <1>1, BeforeCommit
<1>2. ASSUME NEW w \in Workers, NEW t \in 0 .. now, CommitFund(w, t) \/ CommitInactive(w, t)
      PROVE  IInv'
  <2>1. t \in Nat
    BY DEF IInv, TypeOK
  <2> QED
    BY <1>2, <2>1, Funds, Closes
<1>3. ASSUME NEW a \in Accounts, NEW o \in Orders, NEW c \in {0, 1},
             Admit(a) \/ Settle(a, o, c) \/ Release(a, o)
      PROVE  IInv'
  BY <1>3, Checks
<1>4. ASSUME NEW a \in Accounts, NEW o \in Orders, ExpireUsage(o) \/ ExpireProof(a)
      PROVE  IInv'
  BY <1>4, Expiries
<1>5. ASSUME NEW a \in Accounts,
             RequestDeletion(a) \/ EraseLock(a) \/ EraseProof(a) \/ EraseAuthority(a)
      PROVE  IInv'
  BY <1>5, Erasures
<1>6. CASE Tick \/ Renew \/ Amend
  BY <1>6, World
<1>7. CASE UNCHANGED vars
  <2>1. TypeOK'
    BY <1>7 DEF vars, rows, IInv, TypeOK
  <2>2. SourceInv' /\ PaidIsOwned' /\ WindowsAgree' /\ GrantInv'
    BY <1>7 DEF vars, rows, IInv, SourceInv, PaidIsOwned, WindowsAgree, GrantInv
  <2>3. UNCHANGED <<account, source, granted, job, store>>
    BY <1>7 DEF vars, rows
  <2> QED
    BY <2>1, <2>2, <2>3, KnowledgeKept DEF IInv
<1> QED
  BY <1>1, <1>2, <1>3, <1>4, <1>5, <1>6, <1>7, RowFacts DEF Next

\* Every reachable state satisfies the invariant.
THEOREM Inductive == Spec => []IInv
<1>1. Init => IInv
  BY InitIInv
<1>2. IInv /\ [Next]_vars => IInv'
  BY NextIInv
<1> QED
  BY <1>1, <1>2, PTL DEF Spec

\* Every row and every job holds values the code writes.
THEOREM TypeCorrect == Spec => []TypeOK
<1>1. IInv => TypeOK
  BY DEF IInv
<1> QED
  BY <1>1, Inductive, PTL

\* Paid access is the lock owner's: no interleaving of purchases, restores,
\* notifications and deletions leaves two active accounts with one purchase.
THEOREM Owned == Spec => []PaidIsOwned
<1>1. IInv => PaidIsOwned
  BY DEF IInv
<1> QED
  BY <1>1, Inductive, PTL

\* The three rows an account is read by speak of one window.
THEOREM Windows == Spec => []WindowsAgree
<1>1. IInv => WindowsAgree
  BY DEF IInv
<1> QED
  BY <1>1, Inductive, PTL

\* A step that grants does so from a proof that is not older.
LEMMA StepInOrder ==
  ASSUME IInv, [Next]_vars
  PROVE  [\A a \in Accounts : granted[a] <= granted'[a]]_vars
<1> SUFFICES ASSUME NEW a \in Accounts, Next PROVE granted[a] <= granted'[a]
  BY DEF vars
<1>1. granted \in [Accounts -> Nat]
  BY DEF IInv, TypeOK
<1>2. CASE \E w \in Workers, t \in 0 .. now : CommitFund(w, t) \/ CommitInactive(w, t)
  <2>1. PICK w \in Workers, t \in 0 .. now : CommitFund(w, t) \/ CommitInactive(w, t)
    BY <1>2
  <2>2. PICK b \in Accounts : b = job[w].account
    BY DEF IInv, TypeOK, Jobs
  <2>3. granted[b] <= job[w].proof.edition
    BY <2>1, <2>2, Found
  <2>4. granted' = [granted EXCEPT ![b] = job[w].proof.edition]
    BY <2>1, <2>2 DEF CommitFund, CommitInactive
  <2> QED
    BY <1>1, <2>3, <2>4
<1>3. CASE ~\E w \in Workers, t \in 0 .. now : CommitFund(w, t) \/ CommitInactive(w, t)
  <2>1. granted' = granted
    BY <1>3 DEF Next, BeginHandoff, BeginRefresh, Prove, Stop, Admit, ExpireProof, Release, Settle,
                RequestDeletion, EraseLock, EraseProof, EraseAuthority, ExpireUsage, Tick, Renew, Amend
  <2> QED
    BY <1>1, <2>1
<1> QED
  BY <1>2, <1>3

\* A decision is never replaced by one whose proof is older.
THEOREM InOrder == Spec => ProofsInOrder
<1>1. IInv /\ [Next]_vars => [\A a \in Accounts : granted[a] <= granted'[a]]_vars
  BY StepInOrder
<1> QED
  BY <1>1, Inductive, PTL DEF Spec, ProofsInOrder
-----------------------------------------------------------------------------
(* Usage, while one invocation works at a time *)

Working(w) == job[w].phase # "idle"
OneAtATime == \A v, w \in Workers : Working(v) /\ Working(w) => v = w

\* Nothing was charged, reserved or kept of this funded period, by any account.
Unopened(o) ==
  /\ usage[o] = NoRow /\ charged[o] = 0
  /\ \A a \in Accounts : pending[a][o] = 0 /\ period[a][o] = NoRow

\* Periods behind the one that the store, a proof under way or an active source is
\* in have not been opened: each is opened once, and in the order they are paid.
StoreAhead == \A o \in Orders : store.order < o => Unopened(o)
ProofAhead ==
  \A w \in Workers : job[w].phase = "commit" =>
    /\ job[w].proof.order <= store.order
    /\ \A o \in Orders : job[w].proof.order < o => Unopened(o)
SourceAhead ==
  \A a \in Accounts : account[a] = "active" /\ source[a] # NoSource =>
    \A o \in Orders : source[a].order < o => Unopened(o)

\* Nobody is on paid access before the buyer was.
BuyerFirst ==
  account[Buyer] = "active" /\ source[Buyer] = NoSource =>
    /\ \A o \in Orders : Unopened(o)
    /\ \A a \in Accounts : source[a] = NoSource

\* A refresh is of an owned head, or the buyer's first purchase.
RefreshKnows ==
  \A w \in Workers : Working(w) /\ job[w].op = "refresh" =>
    job[w].owner = job[w].account \/ job[w].account = Buyer

\* A reservation of an account is counted in the usage row, alone, as long as that
\* row is there; it is past its deadline when the row is not.
Backed(a, o) ==
  /\ usage[o] # NoRow =>
       /\ pending[a][o] <= usage[o].reserved
       /\ pending[a][o] # 0 =>
            /\ period[a][o].until = usage[o].until /\ period[a][o].used = usage[o].used
            /\ pending[a][o] = usage[o].reserved \/ Deadline(usage[o]) <= now
  /\ usage[o] = NoRow /\ pending[a][o] # 0 => Deadline(period[a][o]) <= now

RowsCount(o) ==
  /\ \A a \in Accounts : period[a][o].reserved = pending[a][o]
  /\ \A a, b \in Accounts : a = b \/ pending[a][o] = 0 \/ pending[b][o] = 0
  /\ \A a \in Accounts : charged[o] + pending[a][o] <= Limit
  /\ usage[o] # NoRow =>
       /\ usage[o].until \in Nat
       /\ usage[o].used = charged[o]
       /\ usage[o].reserved # 0 =>
            Deadline(usage[o]) <= now \/ \E a \in Accounts : pending[a][o] # 0
  /\ \A a \in Accounts : Backed(a, o)

Opening == StoreAhead /\ ProofAhead /\ SourceAhead /\ BuyerFirst

Funded == \A a \in Accounts : source[a] = NoSource \/ source[a].until \in Nat

TurnInv ==
  /\ OneAtATime
  /\ RefreshKnows
  /\ Funded
  /\ Opening
  /\ \A o \in Orders : RowsCount(o)

\* The fields of what is typed, as numbers.
LEMMA Numbers ==
  ASSUME IInv, NEW a \in Accounts, NEW o \in Orders
  PROVE  /\ usage[o] \in Counters /\ period[a][o] \in Counters
         /\ usage[o].used \in Nat /\ usage[o].reserved \in Nat /\ usage[o].until \in Int
         /\ period[a][o].used \in Nat /\ period[a][o].reserved \in Nat
         /\ period[a][o].until \in Int
         /\ usage[o].used + usage[o].reserved <= Limit
         /\ pending[a][o] \in Nat /\ charged[o] \in Nat /\ now \in Nat
         /\ Limit \in Nat /\ Retention \in Nat
<1>1. usage[o] \in Counters /\ period[a][o] \in Counters
  BY DEF IInv, TypeOK
<1>2. pending[a][o] \in Nat /\ charged[o] \in Nat /\ now \in Nat
  BY DEF IInv, TypeOK
<1> QED
  BY <1>1, <1>2, PurchaseAssumption DEF Counters

\* An account whose reservations are all that the usage row counts is the only one
\* to have any.
LEMMA OthersNone ==
  ASSUME IInv, NEW o \in Orders, RowsCount(o), NEW a \in Accounts, usage[o] # NoRow,
         period[a][o].reserved = usage[o].reserved
  PROVE  /\ pending[a][o] = usage[o].reserved
         /\ \A b \in Accounts \ {a} : pending[b][o] = 0
<1>1. pending[a][o] = usage[o].reserved
  BY DEF RowsCount
<1>2. ASSUME NEW b \in Accounts \ {a} PROVE pending[b][o] = 0
  <2>1. pending[b][o] \in Nat /\ pending[b][o] <= usage[o].reserved
    BY Numbers DEF RowsCount, Backed
  <2>2. pending[a][o] = 0 \/ pending[b][o] = 0
    BY DEF RowsCount
  <2> QED
    BY <1>1, <2>1, <2>2
<1> QED
  BY <1>1, <1>2

\* The rows of a period that a step leaves alone.
LEMMA Untouched ==
  ASSUME IInv, NEW o \in Orders, RowsCount(o), now' \in Nat, now <= now',
         usage'[o] = usage[o], charged'[o] = charged[o],
         \A a \in Accounts : pending'[a][o] = pending[a][o] /\ period'[a][o] = period[a][o]
  PROVE  RowsCount(o)' /\ (Unopened(o) => Unopened(o)')
<1>1. \A x \in Int : x + Retention <= now => x + Retention <= now'
  BY PurchaseAssumption DEF IInv, TypeOK
<1>2. usage[o].until \in Int /\ \A a \in Accounts : period[a][o].until \in Int
  <2>1. usage[o] \in Counters /\ \A a \in Accounts : period[a][o] \in Counters
    BY DEF IInv, TypeOK
  <2> QED
    BY <2>1 DEF Counters
<1>3. \A a \in Accounts : Backed(a, o)'
  BY <1>1, <1>2 DEF RowsCount, Backed, Deadline
<1>4. RowsCount(o)'
  BY <1>1, <1>2, <1>3 DEF RowsCount, Deadline
<1> QED
  BY <1>4 DEF Unopened

\* Counting in both rows.
LEMMA PairedFields ==
  ASSUME IInv, NEW a \in Accounts, NEW o \in Orders, NEW m \in Int, NEW n \in Nat,
         Paired(a, o, m, n)
  PROVE  /\ usage'[o].used = usage[o].used + n /\ usage'[o].reserved = usage[o].reserved + m
         /\ usage'[o].until = usage[o].until
         /\ period'[a][o].used = usage[o].used + n
         /\ period'[a][o].reserved = usage[o].reserved + m
         /\ period'[a][o].until = usage[o].until
         /\ \A q \in Orders \ {o} : usage'[q] = usage[q]
         /\ \A b \in Accounts, q \in Orders :
              b # a \/ q # o => period'[b][q] = period[b][q]
<1>1. /\ usage \in [Orders -> Counters] /\ period \in [Accounts -> [Orders -> Counters]]
      /\ usage[o] \in Counters
  BY DEF IInv, TypeOK
<1>2. period[a][o] = usage[o] /\ Countable(usage[o], m, n)
  BY DEF Paired, Mirrors
<1>3. PICK r \in Counters :
        /\ r = Change(usage[o], m, n) /\ r.until = usage[o].until
        /\ r.used = usage[o].used + n /\ r.reserved = usage[o].reserved + m
  BY <1>1, <1>2, ChangeFacts
<1>4. usage' = [usage EXCEPT ![o] = r]
  BY <1>3 DEF Paired
<1>5. period' = [period EXCEPT ![a][o] = r]
  BY <1>1, <1>2, <1>3 DEF Paired, Change
<1>6. usage'[o] = r /\ \A q \in Orders \ {o} : usage'[q] = usage[q]
  BY <1>1, <1>4
<1>7. /\ period'[a][o] = r
      /\ \A b \in Accounts, q \in Orders : b # a \/ q # o => period'[b][q] = period[b][q]
  BY <1>1, <1>5
<1> QED
  BY <1>3, <1>6, <1>7

\* A check that is counted before the deadline.
LEMMA PairedKeeps ==
  ASSUME IInv, NEW a \in Accounts, NEW o \in Orders, NEW m \in {1, -1}, NEW n \in Nat,
         \A q \in Orders : RowsCount(q),
         Paired(a, o, m, n), m = 1 \/ pending[a][o] > 0, UNCHANGED now,
         pending' = [pending EXCEPT ![a][o] = @ + m], charged' = [charged EXCEPT ![o] = @ + n]
  PROVE  \A q \in Orders : RowsCount(q)' /\ (Unopened(q) => Unopened(q)')
<1>0. pending \in [Accounts -> [Orders -> Nat]] /\ charged \in [Orders -> Nat] /\ now \in Nat
  BY DEF IInv, TypeOK
<1>1. /\ pending'[a][o] = pending[a][o] + m /\ charged'[o] = charged[o] + n
      /\ \A q \in Orders \ {o} : charged'[q] = charged[q]
      /\ \A b \in Accounts, q \in Orders : b # a \/ q # o => pending'[b][q] = pending[b][q]
  BY <1>0
<1>2. m \in Int
  OBVIOUS
<1>3. /\ usage'[o].used = usage[o].used + n /\ usage'[o].reserved = usage[o].reserved + m
      /\ usage'[o].until = usage[o].until
      /\ period'[a][o].used = usage[o].used + n
      /\ period'[a][o].reserved = usage[o].reserved + m
      /\ period'[a][o].until = usage[o].until
      /\ \A q \in Orders \ {o} : usage'[q] = usage[q]
      /\ \A b \in Accounts, q \in Orders : b # a \/ q # o => period'[b][q] = period[b][q]
  BY <1>2, PairedFields
<1>4. usage[o] # NoRow /\ period[a][o] = usage[o] /\ Countable(usage[o], m, n)
  BY DEF Paired, Mirrors
<1>5. pending[a][o] = usage[o].reserved /\ \A b \in Accounts \ {a} : pending[b][o] = 0
  BY <1>4, OthersNone
<1>6. ASSUME NEW q \in Orders \ {o} PROVE RowsCount(q)' /\ (Unopened(q) => Unopened(q)')
  <2>1. \A b \in Accounts : pending'[b][q] = pending[b][q] /\ period'[b][q] = period[b][q]
    BY <1>1, <1>3
  <2> QED
    BY <1>0, <1>1, <1>3, <2>1, Untouched
<1>7. ~Unopened(o)
  BY <1>4 DEF Unopened
<1>8. RowsCount(o)'
  <2>1. /\ usage[o].used = charged[o] /\ usage[o].until \in Nat
        /\ \A b \in Accounts : period[b][o].reserved = pending[b][o]
    BY <1>4 DEF RowsCount
  <2>2. \A b \in Accounts \ {a} : pending'[b][o] = 0 /\ period'[b][o].reserved = 0
    BY <1>1, <1>3, <1>5, <2>1
  <2>3. pending'[a][o] = usage'[o].reserved /\ period'[a][o].reserved = pending'[a][o]
    BY <1>1, <1>3, <1>5
  <2>4. charged[o] \in Nat /\ pending[a][o] \in Nat /\ Limit \in Nat
    BY Numbers
  <2>5. /\ usage'[o].used = charged'[o] /\ charged'[o] \in Nat
        /\ charged'[o] + pending'[a][o] <= Limit
    BY <1>1, <1>2, <1>3, <1>4, <1>5, <2>1, <2>4 DEF Countable
  <2>6. \A b \in Accounts : charged'[o] + pending'[b][o] <= Limit
    <3>1. ASSUME NEW b \in Accounts \ {a} PROVE charged'[o] + pending'[b][o] <= Limit
      <4>1. pending'[b][o] = 0 /\ pending'[a][o] >= 0
        <5>1. usage[o].reserved + m >= 0
          BY <1>4 DEF Countable
        <5> QED
          BY <1>3, <2>2, <2>3, <5>1
      <4> QED
        BY <1>1, <1>2, <2>4, <2>5, <4>1
    <3> QED
      BY <2>5, <3>1
  <2>7. pending'[a][o] \in Nat
    <3>1. usage[o].reserved + m >= 0 /\ usage[o].reserved \in Nat
      BY <1>4, Numbers DEF Countable
    <3> QED
      BY <1>2, <1>3, <2>3, <3>1
  <2>8. \A b \in Accounts : Backed(b, o)'
    BY <1>0, <1>3, <2>1, <2>2, <2>3, <2>7, PurchaseAssumption DEF Backed, NoRow
  <2>9. usage'[o].reserved # 0 => \E b \in Accounts : pending'[b][o] # 0
    BY <2>3
  <2>10. \A b, c \in Accounts : b = c \/ pending'[b][o] = 0 \/ pending'[c][o] = 0
    BY <2>2
  <2>11. \A b \in Accounts : period'[b][o].reserved = pending'[b][o]
    BY <2>2, <2>3
  <2> QED
    BY <1>3, <2>1, <2>5, <2>6, <2>8, <2>9, <2>10, <2>11 DEF RowsCount
<1> QED
  BY <1>6, <1>7, <1>8

\* A reservation given back behind the deadline.
LEMMA LocalKeeps ==
  ASSUME IInv, NEW a \in Accounts, NEW o \in Orders, \A q \in Orders : RowsCount(q),
         LocalOnly(a, o, -1), pending[a][o] > 0, UNCHANGED <<now, charged>>,
         pending' = [pending EXCEPT ![a][o] = @ - 1]
  PROVE  \A q \in Orders : RowsCount(q)' /\ (Unopened(q) => Unopened(q)')
<1>0. pending \in [Accounts -> [Orders -> Nat]] /\ now \in Nat
      /\ period \in [Accounts -> [Orders -> Counters]] /\ period[a][o] \in Counters
  BY DEF IInv, TypeOK
<1>1. /\ pending'[a][o] = pending[a][o] - 1
      /\ \A b \in Accounts, q \in Orders : b # a \/ q # o => pending'[b][q] = pending[b][q]
  BY <1>0
<1>2. period[a][o].reserved = pending[a][o] /\ pending[a][o] - 1 \in Nat
  BY <1>0 DEF RowsCount
<1>3. Countable(period[a][o], -1, 0)
  BY <1>0, <1>2, Numbers DEF Countable, Counters
<1>4. PICK r \in Counters :
        /\ r = Change(period[a][o], -1, 0) /\ r.until = period[a][o].until
        /\ r.used = period[a][o].used /\ r.reserved = pending[a][o] - 1
  <2>1. period[a][o].used + 0 = period[a][o].used
    BY Numbers
  <2>2. Change(period[a][o], -1, 0) \in Counters
        /\ Change(period[a][o], -1, 0).until = period[a][o].until
        /\ Change(period[a][o], -1, 0).used = period[a][o].used + 0
        /\ Change(period[a][o], -1, 0).reserved = period[a][o].reserved + (-1)
    BY <1>0, <1>3, ChangeFacts
  <2> QED
    BY <1>2, <2>1, <2>2
<1>5. period' = [period EXCEPT ![a][o] = r]
  BY <1>0, <1>4 DEF LocalOnly, Change
<1>6. /\ period'[a][o] = r
      /\ \A b \in Accounts, q \in Orders : b # a \/ q # o => period'[b][q] = period[b][q]
  BY <1>0, <1>5
<1>7. usage' = usage /\ Deadline(period[a][o]) <= now
  BY DEF LocalOnly
<1>8. ASSUME NEW q \in Orders \ {o} PROVE RowsCount(q)' /\ (Unopened(q) => Unopened(q)')
  <2>1. \A b \in Accounts : pending'[b][q] = pending[b][q] /\ period'[b][q] = period[b][q]
    BY <1>1, <1>6
  <2> QED
    BY <1>0, <1>7, <2>1, Untouched
<1>9. ~Unopened(o)
  BY DEF Unopened
<1>10. RowsCount(o)'
  <2>1. \A b \in Accounts \ {a} : pending[b][o] = 0
    BY <1>0 DEF RowsCount
  <2>2. \A b \in Accounts \ {a} : pending'[b][o] = 0 /\ period'[b][o].reserved = 0
    BY <1>1, <1>6, <2>1 DEF RowsCount
  <2>3. period'[a][o].reserved = pending'[a][o] /\ pending'[a][o] \in Nat
    BY <1>1, <1>2, <1>4, <1>6
  <2>4. \A b \in Accounts : charged'[o] + pending'[b][o] <= Limit
    <3>1. charged[o] + pending[a][o] <= Limit /\ charged[o] \in Nat /\ pending[a][o] \in Nat
          /\ Limit \in Nat
      BY Numbers DEF RowsCount
    <3> QED
      BY <1>1, <2>2, <3>1
  <2>5. usage[o] # NoRow => Deadline(usage[o]) <= now
    BY <1>7 DEF RowsCount, Backed, Deadline
  <2>6. Backed(a, o)'
    <3>1. Backed(a, o) /\ pending[a][o] # 0
      BY <1>2 DEF RowsCount
    <3>2. CASE usage[o] = NoRow
      BY <1>4, <1>6, <1>7, <3>2 DEF Backed, Deadline
    <3>3. CASE usage[o] # NoRow
      <4>1. pending[a][o] <= usage[o].reserved /\ period[a][o].until = usage[o].until
            /\ period[a][o].used = usage[o].used
        BY <3>1, <3>3 DEF Backed
      <4>2. pending'[a][o] <= usage[o].reserved
        BY <1>1, <1>2, <4>1, Numbers
      <4> QED
        BY <1>4, <1>6, <1>7, <2>5, <3>3, <4>1, <4>2 DEF Backed
    <3> QED
      BY <3>2, <3>3
  <2>7. \A b \in Accounts \ {a} : Backed(b, o)'
    BY <1>7, <2>2, Numbers DEF Backed, NoRow
  <2>8. \A b, c \in Accounts : b = c \/ pending'[b][o] = 0 \/ pending'[c][o] = 0
    BY <2>2
  <2>9. \A b \in Accounts : period'[b][o].reserved = pending'[b][o]
    BY <2>2, <2>3
  <2>10. usage[o] # NoRow => usage[o].until \in Nat /\ usage[o].used = charged[o]
    BY DEF RowsCount
  <2> QED
    BY <1>7, <2>4, <2>5, <2>6, <2>7, <2>8, <2>9, <2>10 DEF RowsCount
<1> QED
  BY <1>8, <1>9, <1>10

\* The usage row goes at its deadline, with what it still counts.
LEMMA ExpiryKeeps ==
  ASSUME IInv, NEW o \in Orders, \A q \in Orders : RowsCount(q), ExpireUsage(o)
  PROVE  \A q \in Orders : RowsCount(q)' /\ (Unopened(q) => Unopened(q)')
<1>0. usage \in [Orders -> Counters] /\ now \in Nat
  BY DEF IInv, TypeOK
<1>1. /\ usage[o] # NoRow /\ Deadline(usage[o]) <= now
      /\ usage'[o] = NoRow /\ (\A q \in Orders \ {o} : usage'[q] = usage[q])
      /\ UNCHANGED <<now, period, pending, charged>>
  BY <1>0 DEF ExpireUsage
<1>2. ASSUME NEW q \in Orders \ {o} PROVE RowsCount(q)' /\ (Unopened(q) => Unopened(q)')
  BY <1>0, <1>1, Untouched
<1>3. \A a \in Accounts : Backed(a, o)'
  BY <1>1 DEF RowsCount, Backed, Deadline
<1>4. RowsCount(o)'
  BY <1>1, <1>3 DEF RowsCount
<1> QED
  BY <1>1, <1>2, <1>4 DEF Unopened

\* An account is erased behind its last reservation.
LEMMA ErasureKeeps ==
  ASSUME IInv, NEW a \in Accounts, \A q \in Orders : RowsCount(q), EraseAuthority(a)
  PROVE  \A q \in Orders : RowsCount(q)' /\ (Unopened(q) => Unopened(q)')
<1> SUFFICES ASSUME NEW o \in Orders PROVE RowsCount(o)' /\ (Unopened(o) => Unopened(o)')
  OBVIOUS
<1>1. /\ pending[a][o] = 0 /\ period'[a][o] = NoRow
      /\ \A b \in Accounts \ {a} : period'[b][o] = period[b][o]
      /\ UNCHANGED <<now, usage, pending, charged>>
  BY DEF EraseAuthority, IInv, TypeOK
<1>2. \A b \in Accounts : period'[b][o].reserved = pending'[b][o]
  BY <1>1 DEF RowsCount, NoRow
<1>3. Backed(a, o)'
  BY <1>1, Numbers DEF Backed, NoRow
<1>4. \A b \in Accounts \ {a} : Backed(b, o)'
  BY <1>1 DEF RowsCount, Backed, Deadline
<1>5. RowsCount(o)'
  BY <1>1, <1>2, <1>3, <1>4 DEF RowsCount
<1> QED
  BY <1>1, <1>5 DEF Unopened

\* The rows that a decision writes: those of one account and one period, with the
\* counters of the usage row if both rows are kept.
LEMMA Rewritten ==
  ASSUME IInv, NEW a \in Accounts, NEW o \in Orders, \A q \in Orders : RowsCount(q),
         NEW x \in Nat, UNCHANGED <<now, pending, charged>>,
         usage' = [usage EXCEPT ![o] = [used |-> charged[o], reserved |-> pending[a][o],
                                        until |-> x]],
         period' = [period EXCEPT ![a][o] = [used |-> charged[o], reserved |-> pending[a][o],
                                             until |-> x]],
         \A b \in Accounts \ {a} : pending[b][o] = 0
  PROVE  \A q \in Orders : RowsCount(q)'
<1>0. /\ usage \in [Orders -> Counters] /\ period \in [Accounts -> [Orders -> Counters]]
      /\ now \in Nat
  BY DEF IInv, TypeOK
<1>1. PICK r : r = [used |-> charged[o], reserved |-> pending[a][o], until |-> x]
  OBVIOUS
<1>2. /\ usage'[o] = r /\ period'[a][o] = r
      /\ \A q \in Orders \ {o} : usage'[q] = usage[q]
      /\ \A b \in Accounts, q \in Orders : b # a \/ q # o => period'[b][q] = period[b][q]
  BY <1>0, <1>1
<1>3. r.used = charged[o] /\ r.reserved = pending[a][o] /\ r.until = x
  BY <1>1
<1>4. ASSUME NEW q \in Orders \ {o} PROVE RowsCount(q)'
  <2>1. \A b \in Accounts : pending'[b][q] = pending[b][q] /\ period'[b][q] = period[b][q]
    BY <1>2
  <2> QED
    BY <1>0, <1>2, <2>1, Untouched
<1>5. RowsCount(o)'
  <2>1. pending[a][o] \in Nat
    BY Numbers
  <2>2. r # NoRow
    BY <1>3 DEF NoRow
  <2>3. Backed(a, o)'
    BY <1>2, <1>3, <2>1, <2>2 DEF Backed
  <2>4. \A b \in Accounts \ {a} : Backed(b, o)'
    BY <1>2, <1>3, <2>1, <2>2 DEF Backed
  <2>5. \A b \in Accounts : period'[b][o].reserved = pending'[b][o]
    BY <1>2, <1>3 DEF RowsCount
  <2>6. usage'[o].reserved # 0 => \E b \in Accounts : pending'[b][o] # 0
    BY <1>2, <1>3
  <2> QED
    BY <1>2, <1>3, <2>2, <2>3, <2>4, <2>5, <2>6 DEF RowsCount
<1> QED
  BY <1>4, <1>5

\* The row that a period is opened, or taken over, with.
LEMMA FundKeeps ==
  ASSUME IInv, NEW a \in Accounts, NEW p \in StoreRecords, \A q \in Orders : RowsCount(q),
         p.until \in Nat, UNCHANGED <<now, pending, charged>>, Fund(a, p),
         PeriodAgrees(a, p.order), usage[p.order] = NoRow => Unopened(p.order)
  PROVE  /\ \A q \in Orders : RowsCount(q)'
         /\ \A q \in Orders \ {p.order} : Unopened(q) => Unopened(q)'
<1>1. PICK o \in Orders, x \in Nat : o = p.order /\ x = p.until
  BY DEF StoreRecords
<1>2. PICK r : r = [used |-> charged[o], reserved |-> pending[a][o], until |-> x]
  OBVIOUS
<1>3. /\ [Seed(o) EXCEPT !.until = x] = r
      /\ \A b \in Accounts \ {a} : pending[b][o] = 0
  <2>1. CASE usage[o] = NoRow
    <3>1. charged[o] = 0 /\ pending[a][o] = 0 /\ \A b \in Accounts \ {a} : pending[b][o] = 0
      BY <1>1, <2>1 DEF Unopened
    <3>2. PICK q : q = [used |-> 0, reserved |-> 0, until |-> End(o)]
      OBVIOUS
    <3>3. Seed(o) = q
      BY <2>1, <3>2 DEF Seed
    <3> QED
      BY <1>2, <3>1, <3>2, <3>3
  <2>2. CASE usage[o] # NoRow
    <3>1. PICK q \in Counters : q = usage[o]
      BY Numbers
    <3>2. Seed(o) = q
      BY <2>2, <3>1 DEF Seed
    <3>3. usage[o].used = charged[o]
      BY <2>2 DEF RowsCount
    <3>4. usage[o].reserved = pending[a][o] /\ \A b \in Accounts \ {a} : pending[b][o] = 0
      <4>1. CASE period[a][o] = NoRow
        <5>1. usage[o].reserved = 0
          BY <1>1, <3>1, <3>2, <4>1 DEF PeriodAgrees
        <5>2. ASSUME NEW b \in Accounts PROVE pending[b][o] = 0
          <6>1. pending[b][o] \in Nat /\ pending[b][o] <= usage[o].reserved
            BY <2>2, Numbers DEF RowsCount, Backed
          <6> QED
            BY <5>1, <6>1
        <5> QED
          BY <5>1, <5>2
      <4>2. CASE period[a][o] # NoRow
        <5>1. period[a][o].reserved = usage[o].reserved
          BY <1>1, <4>2 DEF PeriodAgrees
        <5> QED
          BY <2>2, <5>1, OthersNone
      <4> QED
        BY <4>1, <4>2
    <3>5. [q EXCEPT !.until = x] = [used |-> q.used, reserved |-> q.reserved, until |-> x]
      BY <3>1 DEF Counters
    <3> QED
      BY <1>2, <3>1, <3>2, <3>3, <3>4, <3>5
  <2> QED
    BY <2>1, <2>2
<1>4. usage' = [usage EXCEPT ![o] = r] /\ period' = [period EXCEPT ![a][o] = r]
  BY <1>1, <1>3 DEF Fund
<1>5. \A q \in Orders : RowsCount(q)'
  BY <1>2, <1>3, <1>4, Rewritten
<1>6. ASSUME NEW q \in Orders \ {o}, Unopened(q) PROVE Unopened(q)'
  <2>1. usage'[q] = usage[q] /\ \A b \in Accounts : period'[b][q] = period[b][q]
    BY <1>4 DEF IInv, TypeOK
  <2> QED
    BY <1>6, <2>1 DEF Unopened
<1> QED
  BY <1>1, <1>5, <1>6

\* A window that ends without a usage row leaves the account nothing reserved.
LEMMA ClosedOut ==
  ASSUME IInv, NEW a \in Accounts, NEW o \in Orders, \A q \in Orders : RowsCount(q),
         UNCHANGED <<now, charged>>, NEW r, r.reserved = 0,
         \/ usage' = usage /\ usage[o] = NoRow
         \/ usage' = [usage EXCEPT ![o] = NoRow] /\ \A b \in Accounts \ {a} : pending[b][o] = 0,
         period' = [period EXCEPT ![a][o] = r], pending' = [pending EXCEPT ![a][o] = 0]
  PROVE  \A q \in Orders : RowsCount(q)'
<1>0. /\ usage \in [Orders -> Counters] /\ period \in [Accounts -> [Orders -> Counters]]
      /\ pending \in [Accounts -> [Orders -> Nat]] /\ now \in Nat
  BY DEF IInv, TypeOK
<1>1. /\ usage'[o] = NoRow /\ period'[a][o] = r /\ pending'[a][o] = 0
      /\ \A q \in Orders \ {o} : usage'[q] = usage[q]
      /\ \A b \in Accounts, q \in Orders :
           b # a \/ q # o => period'[b][q] = period[b][q] /\ pending'[b][q] = pending[b][q]
  BY <1>0
<1>2. ASSUME NEW q \in Orders \ {o} PROVE RowsCount(q)'
  <2>1. \A b \in Accounts : pending'[b][q] = pending[b][q] /\ period'[b][q] = period[b][q]
    BY <1>1
  <2> QED
    BY <1>0, <1>1, <2>1, Untouched
<1>3. \A b \in Accounts : Backed(b, o)'
  BY <1>1 DEF RowsCount, Backed, Deadline
<1>4. \A b \in Accounts : charged'[o] + pending'[b][o] <= Limit
  <2>1. charged[o] + pending[a][o] <= Limit /\ charged[o] \in Nat /\ pending[a][o] \in Nat
        /\ Limit \in Nat
    BY Numbers DEF RowsCount
  <2> QED
    BY <1>1, <2>1 DEF RowsCount
<1>5. RowsCount(o)'
  BY <1>1, <1>3, <1>4 DEF RowsCount
<1> QED
  BY <1>2, <1>5

\* A window that the store ends or moves.
LEMMA CloseKeeps ==
  ASSUME IInv, NEW a \in Accounts, NEW o \in Orders, \A q \in Orders : RowsCount(q),
         NEW x \in Nat, NEW t \in Int, CloseWindow(a, o, x, t), UNCHANGED <<now, charged>>,
         period[a][o] # NoRow
  PROVE  \A q \in Orders : RowsCount(q)' /\ (Unopened(q) => Unopened(q)')
<1>0. /\ usage \in [Orders -> Counters] /\ period \in [Accounts -> [Orders -> Counters]]
      /\ pending \in [Accounts -> [Orders -> Nat]] /\ period[a][o] \in Counters
  BY DEF IInv, TypeOK
<1>1. PICK m : m = [period[a][o] EXCEPT !.until = x]
  OBVIOUS
<1>2. /\ m = [used |-> period[a][o].used, reserved |-> period[a][o].reserved, until |-> x]
      /\ m.reserved = period[a][o].reserved
  BY <1>0, <1>1 DEF Counters
<1>3. PICK c : c = [m EXCEPT !.reserved = 0]
  OBVIOUS
<1>4. c.reserved = 0
  BY <1>2, <1>3
<1>5. period[a][o].reserved = pending[a][o]
  BY DEF RowsCount
<1>6. Mirrors(a, o) => \A b \in Accounts \ {a} : pending[b][o] = 0
  BY OthersNone DEF Mirrors
<1>7. \A q \in Orders : RowsCount(q)'
  <2>1. CASE UsageGone(a, o, x, t)
    <3>1. usage[o] = NoRow /\ usage' = usage /\ m.reserved = 0 /\ pending[a][o] = 0
          /\ pending' = pending
      BY <1>2, <1>5, <2>1 DEF UsageGone
    <3>2. period' = [period EXCEPT ![a][o] = m]
      BY <1>0, <1>1, <2>1 DEF UsageGone
    <3>3. pending' = [pending EXCEPT ![a][o] = 0]
      BY <1>0, <3>1
    <3> QED
      BY <3>1, <3>2, <3>3, ClosedOut
  <2>2. CASE Mirrors(a, o) /\ CloseReservations(a, o, x)
    <3>1. usage' = [usage EXCEPT ![o] = NoRow] /\ pending' = [pending EXCEPT ![a][o] = 0]
      BY <2>2 DEF CloseReservations
    <3>2. period' = [period EXCEPT ![a][o] = c]
      BY <1>0, <1>1, <1>3, <2>2 DEF CloseReservations
    <3> QED
      BY <1>4, <1>6, <2>2, <3>1, <3>2, ClosedOut
  <2>3. CASE Mirrors(a, o) /\ MoveWindow(a, o, x, t) /\ Due(x, t) /\ ~(period[a][o].reserved > 0)
    <3>1. m.reserved = 0 /\ pending[a][o] = 0
      BY <1>2, <1>5, <2>3, Numbers
    <3>2. usage' = [usage EXCEPT ![o] = NoRow] /\ pending' = pending
      BY <2>3 DEF MoveWindow
    <3>3. pending' = [pending EXCEPT ![a][o] = 0]
      BY <1>0, <3>1, <3>2
    <3>4. period' = [period EXCEPT ![a][o] = m]
      BY <1>0, <1>1, <2>3 DEF MoveWindow
    <3> QED
      BY <1>6, <2>3, <3>1, <3>2, <3>3, <3>4, ClosedOut
  <2>4. CASE Mirrors(a, o) /\ MoveWindow(a, o, x, t) /\ ~Due(x, t)
    <3>1. usage[o] = period[a][o] /\ usage[o] # NoRow
      BY <2>4 DEF Mirrors
    <3>2. usage[o].used = charged[o]
      BY <3>1 DEF RowsCount
    <3>3. m = [used |-> charged[o], reserved |-> pending[a][o], until |-> x]
      BY <1>2, <1>5, <3>1, <3>2
    <3>4. usage' = [usage EXCEPT ![o] = m] /\ pending' = pending
      BY <1>1, <2>4, <3>1 DEF MoveWindow
    <3>5. period' = [period EXCEPT ![a][o] = m]
      BY <1>0, <1>1, <2>4 DEF MoveWindow
    <3> QED
      BY <1>6, <2>4, <3>3, <3>4, <3>5, Rewritten
  <2> QED
    BY <2>1, <2>2, <2>3, <2>4 DEF CloseWindow
<1>8. ASSUME NEW q \in Orders, Unopened(q) PROVE Unopened(q)'
  <2>1. q # o
    BY <1>8 DEF Unopened
  <2>2. /\ usage'[q] = usage[q]
        /\ \A b \in Accounts : period'[b][q] = period[b][q] /\ pending'[b][q] = pending[b][q]
    BY <1>0, <2>1 DEF CloseWindow, UsageGone, CloseReservations, MoveWindow
  <2> QED
    BY <1>8, <2>2 DEF Unopened
<1> QED
  BY <1>7, <1>8

-----------------------------------------------------------------------------
(* The order in which funded periods are opened *)

\* A step that opens no period, and in which no invocation learns more than what the
\* store now says.
LEMMA OpensNone ==
  ASSUME IInv, Opening, \A q \in Orders : Unopened(q) => Unopened(q)',
         store'.order \in Int, store.order <= store'.order,
         \A w \in Workers : job'[w].phase = "commit" =>
           \/ job[w].phase = "commit" /\ job'[w].proof = job[w].proof
           \/ job'[w].proof = store /\ store' = store,
         \A a \in Accounts : account'[a] = "active" => account[a] = "active",
         \A a \in Accounts : source'[a] # NoSource =>
           source[a] # NoSource /\ source'[a].order = source[a].order,
         \A a \in Accounts : account'[a] = "active" /\ source'[a] = NoSource =>
           source[a] = NoSource
  PROVE  Opening'
<1>0. /\ store.order \in Int /\ \A w \in Workers : job[w].proof.order \in Int
      /\ \A q \in Orders : q \in Int
  <2>1. \A w \in Workers : job[w] \in Jobs
    BY DEF IInv, TypeOK
  <2> QED
    BY <2>1 DEF IInv, TypeOK, Jobs, StoreRecords, Orders
<1>1. StoreAhead'
  BY <1>0 DEF Opening, StoreAhead
<1>2. ProofAhead'
  <2> SUFFICES ASSUME NEW w \in Workers, job'[w].phase = "commit"
               PROVE  /\ job'[w].proof.order <= store'.order
                      /\ \A o \in Orders : job'[w].proof.order < o => Unopened(o)'
    BY DEF ProofAhead
  <2>1. CASE job[w].phase = "commit" /\ job'[w].proof = job[w].proof
    BY <1>0, <2>1 DEF Opening, ProofAhead
  <2>2. CASE job'[w].proof = store /\ store' = store
    BY <1>0, <2>2 DEF Opening, StoreAhead
  <2> QED
    BY <2>1, <2>2
<1>3. SourceAhead'
  <2> SUFFICES ASSUME NEW a \in Accounts, account'[a] = "active", source'[a] # NoSource
               PROVE  \A o \in Orders : source'[a].order < o => Unopened(o)'
    BY DEF SourceAhead
  <2> QED
    BY DEF Opening, SourceAhead
<1>4. BuyerFirst'
  <2> SUFFICES ASSUME account'[Buyer] = "active", source'[Buyer] = NoSource
               PROVE  /\ \A o \in Orders : Unopened(o)'
                      /\ \A a \in Accounts : source'[a] = NoSource
    BY DEF BuyerFirst
  <2>1. account[Buyer] = "active" /\ source[Buyer] = NoSource
    BY PurchaseAssumption
  <2> QED
    BY <2>1 DEF Opening, BuyerFirst
<1> QED
  BY <1>1, <1>2, <1>3, <1>4 DEF Opening

\* Who funds a period without a usage row opens it, and nobody funds before the buyer.
LEMMA FundOpens ==
  ASSUME IInv, RefreshKnows, Opening, NEW w \in Workers, NEW t, CommitFund(w, t)
  PROVE  /\ usage[job[w].proof.order] = NoRow => Unopened(job[w].proof.order)
         /\ account[Buyer] = "active" /\ source[Buyer] = NoSource => job[w].account = Buyer
<1>1. PICK j \in Jobs : j = job[w]
  BY DEF IInv, TypeOK
<1>2. PICK a \in Accounts, o \in Orders : a = j.account /\ o = j.proof.order
  BY DEF Jobs, StoreRecords
<1>3. /\ account[a] = "active" /\ j.fresh /\ j.phase = "commit"
      /\ Fundable(j.proof, t, MustExist(j)) /\ PeriodAgrees(a, o)
  BY <1>1, <1>2 DEF CommitFund, Captured
<1>4. JobInv(j)
  BY <1>1 DEF IInv
<1>5. usage[o] = NoRow /\ source[a] = NoSource => a = Buyer
  <2> SUFFICES ASSUME usage[o] = NoRow, source[a] = NoSource PROVE a = Buyer
    OBVIOUS
  <2>1. ~MustExist(j)
    BY <1>2, <1>3 DEF Fundable
  <2>2. CASE j.op = "handoff"
    BY <1>2, <2>1, <2>2 DEF MustExist
  <2>3. CASE j.op = "refresh"
    <3>1. j.owner = a \/ a = Buyer
      BY <1>1, <1>2, <1>3, <2>3 DEF RefreshKnows, Working
    <3>2. j.owner # a
      BY <1>2, <1>3, <1>4, <2>3 DEF JobInv
    <3> QED
      BY <3>1, <3>2
  <2> QED
    BY <1>1, <2>2, <2>3 DEF Jobs, Operations
<1>6. ASSUME usage[o] = NoRow PROVE Unopened(o)
  <2>1. period[a][o] = NoRow
    BY <1>3, <1>6 DEF PeriodAgrees
  <2>2. CASE source[a] # NoSource
    <3>1. PICK k \in Orders : k = source[a].order
      BY <2>2 DEF IInv, SourceInv
    <3>2. End(k) <= Start(o)
      BY <1>3, <2>1, <2>2, <3>1 DEF PeriodAgrees
    <3>3. k < o
      <4>1. k \in Nat /\ o \in Nat /\ Length \in Nat \ {0}
        BY PurchaseAssumption DEF Orders
      <4>2. ASSUME o - 1 < k PROVE FALSE
        <5>1. PICK d \in Nat : k = (o - 1) + d /\ d >= 1
          BY <4>1, <4>2
        <5>2. k * Length = (o - 1) * Length + d * Length
          BY <4>1, <5>1
        <5>3. d * Length >= 1
          BY <4>1, <5>1
        <5>4. k * Length <= (o - 1) * Length
          BY <3>2 DEF Start, End
        <5>5. (o - 1) * Length \in Int /\ d * Length \in Int
          BY <4>1, <5>1
        <5> QED
          BY <5>2, <5>3, <5>4, <5>5
      <4> QED
        BY <4>1, <4>2
    <3> QED
      BY <1>3, <2>2, <3>1, <3>3 DEF Opening, SourceAhead
  <2>3. CASE source[a] = NoSource
    BY <1>3, <1>5, <1>6, <2>3 DEF Opening, BuyerFirst
  <2> QED
    BY <2>2, <2>3
<1>7. ASSUME account[Buyer] = "active", source[Buyer] = NoSource PROVE a = Buyer
  BY <1>5, <1>7 DEF Opening, BuyerFirst, Unopened
<1> QED
  BY <1>1, <1>2, <1>6, <1>7

-----------------------------------------------------------------------------
(* Steps while one invocation works at a time *)

\* A step of an invocation before its transaction, and its end.
LEMMA TurnBeforeCommit ==
  ASSUME IInv, TurnInv, NEW w \in Workers, NEW a \in Accounts,
         BeginHandoff(w, a) \/ BeginRefresh(w, a) \/ Prove(w) \/ Stop(w)
  PROVE  RefreshKnows' /\ Funded' /\ Opening' /\ (\A q \in Orders : RowsCount(q))'
<1>0. job \in [Workers -> Jobs] /\ store \in StoreRecords /\ now \in Nat /\ Idle \in Jobs
  BY IdleFacts DEF IInv, TypeOK
<1>1. UNCHANGED <<now, store, account, owner, source, retained, usage, period, pending,
                  charged, granted>>
  BY DEF BeginHandoff, BeginRefresh, Prove, Stop, rows
<1>2. \A v \in Workers \ {w} : job'[v] = job[v]
  BY <1>0 DEF BeginHandoff, BeginRefresh, Prove, Stop, Finish, Set
<1>3. \/ /\ job'[w].phase = "prove"
         /\ job'[w].op = "refresh" => job'[w].owner = job'[w].account \/ job'[w].account = Buyer
      \/ /\ job'[w].phase = "commit" /\ job'[w].proof = store /\ job[w].phase # "idle"
         /\ job'[w].op = job[w].op /\ job'[w].owner = job[w].owner
         /\ job'[w].account = job[w].account
      \/ job'[w].phase = "idle"
  <2>1. CASE BeginHandoff(w, a)
    <3>1. job'[w] = [Idle EXCEPT !.phase = "prove", !.account = a, !.owner = owner, !.fresh = TRUE]
      BY <1>0, <2>1 DEF BeginHandoff, Set
    <3> QED
      BY <3>1 DEF Idle
  <2>2. CASE BeginRefresh(w, a)
    <3>1. job'[w] = [Idle EXCEPT !.op = "refresh", !.phase = "prove", !.account = a,
                                 !.owner = owner, !.fresh = TRUE]
      BY <1>0, <2>2 DEF BeginRefresh, Set
    <3>2. owner = a \/ a = Buyer
      BY <2>2 DEF BeginRefresh
    <3> QED
      BY <3>1, <3>2 DEF Idle
  <2>3. CASE Prove(w)
    <3>1. job'[w] = [job[w] EXCEPT !.phase = "commit", !.proof = store, !.at = now]
          /\ job[w].phase = "prove"
      BY <1>0, <2>3 DEF Prove, Set
    <3> QED
      BY <1>0, <3>1 DEF Jobs
  <2>4. CASE Stop(w)
    <3>1. job'[w] = Idle
      BY <1>0, <2>4 DEF Stop, Finish, Set
    <3> QED
      BY <3>1 DEF Idle
  <2> QED
    BY <2>1, <2>2, <2>3, <2>4
<1>4. RefreshKnows'
  BY <1>2, <1>3 DEF TurnInv, RefreshKnows, Working
<1>5. Funded'
  BY <1>1 DEF TurnInv, Funded
<1>6. \A q \in Orders : RowsCount(q)' /\ (Unopened(q) => Unopened(q)')
  BY <1>0, <1>1, Untouched DEF TurnInv
<1>7. \A v \in Workers : job'[v].phase = "commit" =>
        \/ job[v].phase = "commit" /\ job'[v].proof = job[v].proof
        \/ job'[v].proof = store /\ store' = store
  BY <1>1, <1>2, <1>3
<1>8. store'.order \in Int /\ store.order <= store'.order
  BY <1>0, <1>1 DEF StoreRecords, Orders
<1>9. Opening'
  BY <1>1, <1>6, <1>7, <1>8, OpensNone DEF TurnInv
<1> QED
  BY <1>4, <1>5, <1>6, <1>9

\* A step of somebody else.
LEMMA TurnQuiet ==
  ASSUME IInv, TurnInv, UNCHANGED job,
         \A q \in Orders : RowsCount(q)' /\ (Unopened(q) => Unopened(q)'),
         store'.order \in Int, store.order <= store'.order,
         \A a \in Accounts : account'[a] = "active" => account[a] = "active",
         \A a \in Accounts : source'[a] = source[a] \/ (source'[a] = NoSource /\ account'[a] # "active")
  PROVE  RefreshKnows' /\ Funded' /\ Opening' /\ (\A q \in Orders : RowsCount(q))'
<1>1. RefreshKnows' /\ Funded'
  BY DEF TurnInv, RefreshKnows, Working, Funded
<1>2. Opening'
  BY OpensNone DEF TurnInv
<1> QED
  BY <1>1, <1>2

\* Admissions and their ends, expiries and what is erased of an account keep it.
LEMMA TurnOthers ==
  ASSUME IInv, TurnInv, NEW a \in Accounts, NEW o \in Orders, NEW c \in {0, 1},
         \/ Admit(a) \/ Settle(a, o, c) \/ Release(a, o)
         \/ ExpireUsage(o) \/ ExpireProof(a)
         \/ RequestDeletion(a) \/ EraseLock(a) \/ EraseProof(a) \/ EraseAuthority(a)
  PROVE  RefreshKnows' /\ Funded' /\ Opening' /\ (\A q \in Orders : RowsCount(q))'
<1>0. /\ pending \in [Accounts -> [Orders -> Nat]] /\ charged \in [Orders -> Nat]
      /\ store.order \in Int /\ store.order <= store.order /\ now \in Nat /\ now <= now
  BY DEF IInv, TypeOK, StoreRecords, Orders
<1>1. store' = store /\ job' = job /\ now' = now
  BY DEF Admit, Settle, Release, ExpireUsage, ExpireProof, RequestDeletion, EraseLock, EraseProof,
         EraseAuthority, rows
<1>2. \A q \in Orders : RowsCount(q)' /\ (Unopened(q) => Unopened(q)')
  <2>1. CASE Admit(a)
    <3>1. PICK p \in Orders : p = source[a].order
      BY <2>1 DEF Admit, IInv, SourceInv, NoSource
    <3>2. Paired(a, p, 1, 0) /\ pending' = [pending EXCEPT ![a][p] = @ + 1] /\ charged' = charged
      BY <2>1, <3>1 DEF Admit
    <3>3. charged' = [charged EXCEPT ![p] = @ + 0]
      BY <1>0, <3>2
    <3>4. UNCHANGED now
      BY <1>1
    <3> QED
      BY <3>2, <3>3, <3>4, PairedKeeps DEF TurnInv
  <2>2. CASE Settle(a, o, c)
    <3>1. /\ Paired(a, o, -1, c) /\ pending[a][o] > 0 /\ UNCHANGED now
          /\ pending' = [pending EXCEPT ![a][o] = @ - 1]
          /\ charged' = [charged EXCEPT ![o] = @ + c]
      BY <2>2 DEF Settle
    <3>2. pending' = [pending EXCEPT ![a][o] = @ + (-1)]
      BY <1>0, <3>1
    <3> QED
      BY <3>1, <3>2, PairedKeeps DEF TurnInv
  <2>3. CASE Release(a, o)
    <3>1. /\ pending[a][o] > 0 /\ UNCHANGED <<now, charged>>
          /\ pending' = [pending EXCEPT ![a][o] = @ - 1]
          /\ LocalOnly(a, o, -1) \/ Paired(a, o, -1, 0)
      BY <2>3 DEF Release
    <3>2. CASE LocalOnly(a, o, -1)
      BY <3>1, <3>2, LocalKeeps DEF TurnInv
    <3>3. CASE Paired(a, o, -1, 0)
      <4>1. pending' = [pending EXCEPT ![a][o] = @ + (-1)]
        BY <1>0, <3>1
      <4>2. charged' = [charged EXCEPT ![o] = @ + 0]
        BY <1>0, <3>1
      <4> QED
        BY <3>1, <3>3, <4>1, <4>2, PairedKeeps DEF TurnInv
    <3> QED
      BY <3>1, <3>2, <3>3
  <2>4. CASE ExpireUsage(o)
    BY <2>4, ExpiryKeeps DEF TurnInv
  <2>5. CASE EraseAuthority(a)
    BY <2>5, ErasureKeeps DEF TurnInv
  <2>6. CASE ExpireProof(a) \/ RequestDeletion(a) \/ EraseLock(a) \/ EraseProof(a)
    <3>1. UNCHANGED <<now, usage, period, pending, charged>>
      BY <2>6 DEF ExpireProof, RequestDeletion, EraseLock, EraseProof, rows
    <3> QED
      BY <1>0, <3>1, Untouched DEF TurnInv
  <2> QED
    BY <2>1, <2>2, <2>3, <2>4, <2>5, <2>6
<1>3. \A b \in Accounts : account'[b] = "active" => account[b] = "active"
  BY DEF Admit, Settle, Release, ExpireUsage, ExpireProof, RequestDeletion, EraseLock, EraseProof,
         EraseAuthority, rows, IInv, TypeOK
<1>4. \A b \in Accounts : source'[b] = source[b] \/ (source'[b] = NoSource /\ account'[b] # "active")
  BY DEF Admit, Settle, Release, ExpireUsage, ExpireProof, RequestDeletion, EraseLock, EraseProof,
         EraseAuthority, rows, IInv, TypeOK
<1> QED
  BY <1>0, <1>1, <1>2, <1>3, <1>4, TurnQuiet

\* What the store and the clock do leaves the rows behind what they say.
LEMMA TurnWorld ==
  ASSUME IInv, TurnInv, Tick \/ Renew \/ Amend
  PROVE  RefreshKnows' /\ Funded' /\ Opening' /\ (\A q \in Orders : RowsCount(q))'
<1>0. store \in StoreRecords /\ now \in Nat
  BY DEF IInv, TypeOK
<1>1. /\ UNCHANGED <<account, owner, source, retained, usage, period, pending, job, charged, granted>>
      /\ now' \in Nat /\ now <= now'
  <2>1. UNCHANGED <<account, owner, source, retained, usage, period, pending, job, charged, granted>>
    BY DEF Tick, Renew, Amend, rows
  <2>2. now' = now \/ now' = now + 1
    BY DEF Tick, Renew, Amend
  <2> QED
    BY <1>0, <2>1, <2>2
<1>2. store'.order \in Int /\ store.order <= store'.order
  <2>1. store.order \in Int
    BY <1>0 DEF StoreRecords, Orders
  <2>2. store'.order \in {store.order, store.order + 1}
    <3>1. CASE Tick
      BY <3>1 DEF Tick
    <3>2. CASE Renew
      BY <3>2 DEF Renew
    <3>3. CASE Amend
      <4>1. PICK b, u : store' = [store EXCEPT !.active = b, !.until = u, !.edition = @ + 1]
        BY <3>3 DEF Amend
      <4> QED
        BY <1>0, <4>1 DEF StoreRecords
    <3> QED
      BY <3>1, <3>2, <3>3
  <2> QED
    BY <2>1, <2>2
<1>3. \A q \in Orders : RowsCount(q)' /\ (Unopened(q) => Unopened(q)')
  BY <1>1, Untouched DEF TurnInv
<1> QED
  BY <1>1, <1>2, <1>3, TurnQuiet

\* What is true of every transaction.
LEMMA TurnCommit ==
  ASSUME IInv, TurnInv, NEW w \in Workers, NEW a \in Accounts, Commit(w, a), Working(w)
  PROVE  RefreshKnows' /\ \A v \in Workers : job'[v].phase = "idle"
<1>1. ASSUME NEW v \in Workers PROVE job'[v].phase = "idle"
  <2>1. v = w \/ job[v].phase = "idle"
    BY DEF TurnInv, OneAtATime, Working
  <2>2. job[v] \in Jobs
    BY DEF IInv, TypeOK
  <2>3. job'[v] = Idle \/ job'[v] = [job[v] EXCEPT !.fresh = FALSE] \/ job'[v] = job[v]
    BY DEF Commit
  <2>4. CASE v = w
    BY <2>4 DEF Commit, Idle
  <2>5. CASE v # w
    BY <2>1, <2>2, <2>3, <2>5 DEF Idle, Jobs
  <2> QED
    BY <2>4, <2>5
<1> QED
  BY <1>1 DEF RefreshKnows, Working

\* A purchase that is found active funds its period once.
LEMMA TurnFunds ==
  ASSUME IInv, TurnInv, NEW w \in Workers, NEW t \in Nat, CommitFund(w, t)
  PROVE  RefreshKnows' /\ Funded' /\ Opening' /\ (\A q \in Orders : RowsCount(q))'
<1>1. PICK a \in Accounts, p \in StoreRecords, o \in Orders :
        a = job[w].account /\ p = job[w].proof /\ o = p.order
  BY DEF IInv, TypeOK, Jobs, StoreRecords
<1>2. /\ Fund(a, p) /\ PeriodAgrees(a, o) /\ Fundable(p, t, MustExist(job[w]))
      /\ Commit(w, a) /\ job[w].phase = "commit"
      /\ UNCHANGED <<now, store, account, pending, charged>>
  BY <1>1 DEF CommitFund
<1>3. p.until \in Nat
  <2>1. Start(o) \in Nat /\ Start(o) <= t /\ t < p.until /\ p.until \in Int
    BY <1>1, <1>2, PeriodBounds DEF Fundable, StoreRecords
  <2> QED
    BY <2>1
<1>4. /\ usage[o] = NoRow => Unopened(o)
      /\ account[Buyer] = "active" /\ source[Buyer] = NoSource => a = Buyer
  BY <1>1, FundOpens DEF TurnInv
<1>5. /\ (\A q \in Orders : RowsCount(q))'
      /\ \A q \in Orders \ {o} : Unopened(q) => Unopened(q)'
  BY <1>1, <1>2, <1>3, <1>4, FundKeeps DEF TurnInv
<1>6. RefreshKnows' /\ \A v \in Workers : job'[v].phase = "idle"
  BY <1>2, TurnCommit DEF Working
<1>7. PICK s : s = [active |-> TRUE, order |-> o, until |-> p.until]
  OBVIOUS
<1>8. /\ source'[a] = s /\ s # NoSource /\ s.order = o /\ s.until = p.until
      /\ \A b \in Accounts \ {a} : source'[b] = source[b]
  BY <1>1, <1>2, <1>7 DEF Fund, NoSource, IInv, TypeOK
<1>9. Funded'
  BY <1>3, <1>8 DEF TurnInv, Funded
<1>10. account[a] = "active" /\ \A b \in Accounts \ {a} : account[b] = "active" => source[b] = NoSource
  BY <1>1, Found
<1>11. /\ o <= store.order /\ store.order \in Int /\ o \in Int
       /\ \A q \in Orders : q \in Int
       /\ \A q \in Orders : o < q => Unopened(q)
  BY <1>1, <1>2 DEF TurnInv, Opening, ProofAhead, IInv, TypeOK, StoreRecords, Orders
<1>12. \A q \in Orders : o < q => Unopened(q)'
  BY <1>5, <1>11
<1>13. StoreAhead'
  BY <1>2, <1>11, <1>12 DEF StoreAhead
<1>14. ProofAhead'
  BY <1>6 DEF ProofAhead
<1>15. SourceAhead'
  BY <1>2, <1>8, <1>10, <1>12 DEF SourceAhead
<1>16. BuyerFirst'
  <2> SUFFICES ASSUME account'[Buyer] = "active", source'[Buyer] = NoSource PROVE FALSE
    BY DEF BuyerFirst
  <2>1. a # Buyer
    BY <1>8
  <2>2. account[Buyer] = "active" /\ source[Buyer] = NoSource
    BY <1>2, <1>8, <2>1, PurchaseAssumption
  <2> QED
    BY <1>4, <2>1, <2>2
<1> QED
  BY <1>5, <1>6, <1>9, <1>13, <1>14, <1>15, <1>16 DEF Opening

\* One that is found inactive closes it with what was used of it.
LEMMA TurnCloses ==
  ASSUME IInv, TurnInv, NEW w \in Workers, NEW t \in Nat, CommitInactive(w, t)
  PROVE  RefreshKnows' /\ Funded' /\ Opening' /\ (\A q \in Orders : RowsCount(q))'
<1>1. PICK a \in Accounts, p \in StoreRecords : a = job[w].account /\ p = job[w].proof
  BY DEF IInv, TypeOK, Jobs
<1>2. JobInv(job[w]) /\ source[a] \in Sources
  BY DEF IInv, TypeOK
<1>3. account[a] = "active" /\ t <= now
  BY <1>1, Found
<1>4. source[a] # NoSource
  BY <1>1, <1>2, <1>3 DEF CommitInactive, Captured, JobInv
<1>5. PICK o \in Orders : o = source[a].order
  BY <1>4 DEF IInv, SourceInv
<1>6. PICK x \in Nat : x = p.until
  <2>1. Start(o) <= p.until /\ Start(o) \in Nat /\ p.until \in Int
    BY <1>1, <1>5, PeriodBounds DEF CommitInactive, StoreRecords
  <2> QED
    BY <2>1
<1>7. /\ CloseWindow(a, o, x, t) /\ Commit(w, a) /\ job[w].phase = "commit"
      /\ UNCHANGED <<now, store, account, charged>>
      /\ source' = [source EXCEPT ![a] = [@ EXCEPT !.active = FALSE, !.until = x]]
  BY <1>1, <1>5, <1>6 DEF CommitInactive
<1>8. period[a][o] # NoRow
  <2>1. period[a][o].until = source[a].until
    BY <1>3, <1>4, <1>5 DEF IInv, WindowsAgree
  <2>2. source[a].until \in Nat
    BY <1>4 DEF TurnInv, Funded
  <2> QED
    BY <2>1, <2>2 DEF NoRow
<1>9. \A q \in Orders : RowsCount(q)' /\ (Unopened(q) => Unopened(q)')
  BY <1>7, <1>8, CloseKeeps DEF TurnInv
<1>10. RefreshKnows' /\ \A v \in Workers : job'[v].phase = "idle"
  BY <1>7, TurnCommit DEF Working
<1>11. PICK s : /\ s = [source[a] EXCEPT !.active = FALSE, !.until = x]
                /\ s.order = o /\ s.until = x
  <2>1. PICK k : k = [source[a] EXCEPT !.active = FALSE]
    OBVIOUS
  <2>2. k \in Sources /\ k.order = o
    BY <1>2, <1>5, <2>1 DEF Sources
  <2>3. PICK s : s = [k EXCEPT !.until = x]
    OBVIOUS
  <2>4. s.order = o /\ s.until = x
    BY <2>2, <2>3 DEF Sources
  <2> QED
    BY <2>1, <2>3, <2>4
<1>12. /\ source'[a] = s /\ s # NoSource
       /\ \A b \in Accounts \ {a} : source'[b] = source[b]
  <2>1. source'[a] = s /\ \A b \in Accounts \ {a} : source'[b] = source[b]
    BY <1>7, <1>11 DEF IInv, TypeOK
  <2>2. s.order # NoSource.order
    BY <1>11 DEF Orders, NoSource
  <2> QED
    BY <2>1, <2>2
<1>13. Funded'
  BY <1>11, <1>12 DEF TurnInv, Funded
<1>14. store'.order \in Int /\ store.order <= store'.order
  BY <1>7 DEF IInv, TypeOK, StoreRecords, Orders
<1>15. Opening'
  <2>1. \A b \in Accounts : source'[b] # NoSource => source[b] # NoSource /\ source'[b].order = source[b].order
    BY <1>4, <1>5, <1>11, <1>12
  <2>2. \A b \in Accounts : source'[b] = NoSource => source[b] = NoSource
    BY <1>12
  <2> QED
    BY <1>7, <1>9, <1>10, <1>14, <2>1, <2>2, OpensNone DEF TurnInv
<1> QED
  BY <1>9, <1>10, <1>13, <1>15

\* Nothing is bought when the first invocation begins.
LEMMA InitTurn == Init => TurnInv
<1> SUFFICES ASSUME Init PROVE TurnInv
  OBVIOUS
<1>1. OneAtATime /\ RefreshKnows /\ Funded /\ ProofAhead
  BY DEF Init, Idle, OneAtATime, RefreshKnows, Working, Funded, ProofAhead
<1>2. \A q \in Orders : Unopened(q)
  BY DEF Init, Unopened
<1>3. Opening
  BY <1>1, <1>2 DEF Init, Opening, StoreAhead, SourceAhead, BuyerFirst
<1>4. \A q \in Orders : RowsCount(q)
  BY PurchaseAssumption DEF Init, RowsCount, Backed, NoRow
<1> QED
  BY <1>1, <1>3, <1>4 DEF TurnInv

\* Every step keeps it, as long as invocations take turns.
LEMMA NextTurn ==
  ASSUME IInv, TurnInv, Next, InTurns
  PROVE  TurnInv'
<1> USE PurchaseAssumption
<1>0. now \in Nat
  BY DEF IInv, TypeOK
<1>1. OneAtATime'
  BY DEF InTurns, Busy, OneAtATime, Working
<1>2. RefreshKnows' /\ Funded' /\ Opening' /\ (\A q \in Orders : RowsCount(q))'
  <2>1. ASSUME NEW w \in Workers, NEW a \in Accounts,
               BeginHandoff(w, a) \/ BeginRefresh(w, a) \/ Prove(w) \/ Stop(w)
        PROVE  RefreshKnows' /\ Funded' /\ Opening' /\ (\A q \in Orders : RowsCount(q))'
    BY <2>1, TurnBeforeCommit
  <2>2. ASSUME NEW w \in Workers, NEW t \in 0 .. now, CommitFund(w, t) \/ CommitInactive(w, t)
        PROVE  RefreshKnows' /\ Funded' /\ Opening' /\ (\A q \in Orders : RowsCount(q))'
    BY <1>0, <2>2, TurnFunds, TurnCloses
  <2>3. ASSUME NEW a \in Accounts, NEW o \in Orders, NEW c \in {0, 1},
               \/ Admit(a) \/ Settle(a, o, c) \/ Release(a, o)
               \/ ExpireUsage(o) \/ ExpireProof(a)
               \/ RequestDeletion(a) \/ EraseLock(a) \/ EraseProof(a) \/ EraseAuthority(a)
        PROVE  RefreshKnows' /\ Funded' /\ Opening' /\ (\A q \in Orders : RowsCount(q))'
    BY <2>3, TurnOthers
  <2>4. CASE Tick \/ Renew \/ Amend
    BY <2>4, TurnWorld
  <2> QED
    BY <2>1, <2>2, <2>3, <2>4, RowFacts DEF Next
<1> QED
  BY <1>1, <1>2 DEF TurnInv

\* What the invariant says of the three properties.
LEMMA TurnHolds ==
  ASSUME IInv, TurnInv
  PROVE  AllowanceNotRenewed /\ UsageCountsEveryOwner /\ NoReservationStranded
<1>1. AllowanceNotRenewed /\ SpendInTurn
  BY DEF TurnInv, RowsCount, AllowanceNotRenewed, SpendInTurn
<1>2. ASSUME NEW o \in Orders, usage[o] # NoRow, now < Deadline(usage[o])
      PROVE  /\ usage[o].used = charged[o]
             /\ \A a \in Accounts : pending[a][o] \in {0, usage[o].reserved}
             /\ usage[o].reserved # 0 => \E a \in Accounts : pending[a][o] # 0
  <2>1. ~(Deadline(usage[o]) <= now)
    <3>1. usage[o].until \in Nat
      BY <1>2 DEF TurnInv, RowsCount
    <3>2. now \in Nat /\ Retention \in Nat
      BY PurchaseAssumption DEF IInv, TypeOK
    <3> QED
      BY <1>2, <3>1, <3>2 DEF Deadline
  <2> QED
    BY <1>2, <2>1 DEF TurnInv, RowsCount, Backed
<1>3. UsageCountsEveryOwner
  BY <1>1, <1>2 DEF UsageCountsEveryOwner
<1>4. ASSUME NEW o \in Orders, NEW a \in Accounts, pending[a][o] # 0
      PROVE  /\ period[a][o].reserved = pending[a][o]
             /\ Deadline(period[a][o]) <= now \/ (Mirrors(a, o) /\ now < Deadline(usage[o]))
  <2>1. period[a][o].reserved = pending[a][o] /\ Backed(a, o)
    BY DEF TurnInv, RowsCount
  <2>2. CASE usage[o] # NoRow /\ ~(Deadline(usage[o]) <= now)
    <3>1. /\ period[a][o].until = usage[o].until /\ period[a][o].used = usage[o].used
          /\ period[a][o].reserved = usage[o].reserved
      BY <1>4, <2>1, <2>2 DEF Backed
    <3>2. period[a][o] = usage[o]
      <4>1. usage[o] \in Counters /\ period[a][o] \in Counters
        BY Numbers
      <4> QED
        BY <3>1, <4>1 DEF Counters
    <3>3. now < Deadline(usage[o])
      BY <2>2, Numbers DEF Deadline
    <3> QED
      BY <2>1, <2>2, <3>2, <3>3 DEF Mirrors
  <2>3. CASE usage[o] # NoRow /\ Deadline(usage[o]) <= now
    BY <1>4, <2>1, <2>3 DEF Backed, Deadline
  <2>4. CASE usage[o] = NoRow
    BY <1>4, <2>1, <2>4 DEF Backed
  <2> QED
    BY <2>1, <2>2, <2>3, <2>4
<1>5. NoReservationStranded
  BY <1>4 DEF NoReservationStranded
<1> QED
  BY <1>1, <1>3, <1>5

\* While invocations take turns, the checks that all owners of a funded period are
\* charged stay within its allowance, the usage row counts each of them, and every
\* reservation can be given back (purchase_usage.py, entitlements.py).
THEOREM UsageInTurns == MCSpec => []UsageHolds
<1> DEFINE Turns == IInv /\ (play = "turns" => TurnInv)
<1>1. MCInit => Turns
  BY InitIInv, InitTurn DEF MCInit
<1>2. Turns /\ [MCNext]_<<vars, play>> => Turns'
  <2> SUFFICES ASSUME Turns, [MCNext]_<<vars, play>> PROVE Turns'
    OBVIOUS
  <2>1. [Next]_vars /\ play' = play
    BY DEF MCNext
  <2>2. IInv'
    BY <2>1, NextIInv
  <2>3. CASE MCNext /\ play = "turns"
    BY <2>2, <2>3, NextTurn DEF MCNext
  <2>4. CASE UNCHANGED <<vars, play>> /\ play = "turns"
    <3>1. UNCHANGED <<now, store, account, owner, source, retained, usage, period, pending,
                      job, charged, granted>>
      BY <2>4 DEF vars, rows
    <3>2. TurnInv
      BY <2>4
    <3>3. OneAtATime' /\ RefreshKnows' /\ Funded'
      BY <3>1, <3>2 DEF TurnInv, OneAtATime, RefreshKnows, Funded, Working
    <3>4. Opening'
      BY <3>1, <3>2 DEF TurnInv, Opening, StoreAhead, ProofAhead, SourceAhead, BuyerFirst, Unopened
    <3>5. (\A q \in Orders : RowsCount(q))'
      BY <3>1, <3>2 DEF TurnInv, RowsCount, Backed, Deadline
    <3> QED
      BY <2>2, <3>3, <3>4, <3>5 DEF TurnInv
  <2>5. CASE play # "turns"
    BY <2>1, <2>2, <2>5
  <2> QED
    BY <2>3, <2>4, <2>5
<1>3. Turns => UsageHolds
  BY TurnHolds DEF UsageHolds
<1> QED
  BY <1>1, <1>2, <1>3, PTL DEF MCSpec
=============================================================================
