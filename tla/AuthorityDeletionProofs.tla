----------------------- MODULE AuthorityDeletionProofs -----------------------
(***************************************************************************)
(* Proofs about AuthorityDeletion for every number of workers, keys,       *)
(* receipts and pages.                                                     *)
(*                                                                         *)
(* The inductive invariant has three parts.  RowInv relates the rows of a  *)
(* partition to each other.  JobInv says what an invocation still knows    *)
(* when it acts on what it read: that the account is closed to its         *)
(* writers, that no ACCESS row behind its fence is live again, that the    *)
(* partitions it has verified are still empty, and that the receipts of    *)
(* its page that are still pending are among those it counted.  ErasedInv  *)
(* carries that knowledge into the receipt.  JobInv is stable because      *)
(* after the request the rows only shrink (Shrink).                        *)
(***************************************************************************)
EXTENDS AuthorityDeletion, FiniteSetTheorems, WellFoundedInduction, TLAPS

Erased(p) == rows[p] = {} /\ access[p] = "absent"

Fenced == {"page", "commit", "access", "verify", "finish"}

RowInv(p) ==
  /\ p > inventory => Erased(p)
  /\ access[p] = "absent" => rows[p] \subseteq {Attempt}
  /\ pending[p] \subseteq rows[p]
  /\ pending[p] # {} => Period \in rows[p]
  /\ Period \in rows[p] => reserved[p] = Cardinality(pending[p])
  /\ p \notin lapsed /\ usage[p] # NoUsage => usage[p] = Cardinality(pending[p])

\* What the transaction of a page was built from.
PageInv(j) ==
  /\ j.partition \in Partitions
  /\ j.released \subseteq j.targets
  /\ pending[j.partition] \cap j.targets \subseteq j.released
  /\ Period \in j.targets => Cardinality(j.released) = j.reserved
  /\ j.released # {} => Cardinality(j.released) <= j.reserved
  /\ j.released # {} /\ j.usage # NoUsage => j.usage = j.reserved
  /\ j.released # {} /\ j.usage = NoUsage => j.partition \in lapsed

JobInv(j) ==
  /\ j.phase # "idle" => ledger # "none" /\ j.inventory <= inventory
  /\ j.phase \notin {"idle", "finish"} => j.partition \in 1 .. j.inventory
  /\ j.phase = "fence" => j.seen \subseteq 1 .. j.inventory
  /\ j.phase \in Fenced => \A p \in 1 .. j.inventory : access[p] # "live"
  /\ j.phase = "commit" => PageInv(j)
  /\ j.phase = "access" => rows[j.partition] = {}
  /\ j.phase = "verify" => \A p \in 1 .. j.partition - 1 : Erased(p)
  /\ j.phase = "finish" => \A p \in 1 .. j.inventory : Erased(p)

ErasedInv == receipt => ledger # "none" /\ \A p \in Partitions : Erased(p)

IInv ==
  /\ TypeOK
  /\ \A p \in Partitions : RowInv(p)
  /\ \A w \in Workers : JobInv(job[w])
  /\ ErasedInv

-----------------------------------------------------------------------------

\* The sets the model counts are finite.
LEMMA FiniteReceipts ==
  ASSUME NEW S \in SUBSET Receipts
  PROVE  IsFiniteSet(S) /\ Cardinality(S) \in Nat
<1>1. IsFiniteSet(Receipts)
  BY FS_Interval, BoundsAssumption DEF Receipts
<1> QED BY <1>1, FS_Subset, FS_CardinalityType

\* Releasing a receipt takes one from the count of pending receipts.
LEMMA RemoveOne ==
  ASSUME NEW S \in SUBSET Receipts, NEW c \in S
  PROVE  Cardinality(S \ {c}) = Cardinality(S) - 1 /\ Cardinality(S) > 0
<1>1. IsFiniteSet(S) /\ Cardinality(S) \in Nat
  BY FiniteReceipts
<1>2. Cardinality(S \ {c}) = Cardinality(S) - 1
  BY <1>1, FS_RemoveElement
<1>3. Cardinality(S \ {c}) \in Nat
  BY FiniteReceipts
<1> QED BY <1>1, <1>2, <1>3

\* Admitting one adds one to it.
LEMMA AddOne ==
  ASSUME NEW S \in SUBSET Receipts, NEW c \in Receipts, c \notin S
  PROVE  Cardinality(S \cup {c}) = Cardinality(S) + 1
BY FiniteReceipts, FS_AddElement

\* Deleting a page takes what it released from the count.
LEMMA RemoveSome ==
  ASSUME NEW S \in SUBSET Receipts, NEW T \in SUBSET S
  PROVE  /\ Cardinality(S \ T) = Cardinality(S) - Cardinality(T)
         /\ Cardinality(T) <= Cardinality(S)
<1>1. IsFiniteSet(S) /\ IsFiniteSet(T) /\ Cardinality(S) \in Nat /\ Cardinality(T) \in Nat
  BY FiniteReceipts
<1>2. S \ T \in SUBSET Receipts /\ S \cap T = T
  OBVIOUS
<1>3. Cardinality(S \ T) = Cardinality(S) - Cardinality(S \cap T)
  BY <1>1, FS_Difference
<1>4. Cardinality(S \ T) \in Nat
  BY <1>2, FiniteReceipts
<1> QED BY <1>1, <1>2, <1>3, <1>4

\* An empty set of receipts counts none.
LEMMA NoneLeft == Cardinality({}) = 0
BY FS_EmptySet

-----------------------------------------------------------------------------
(* What an invocation knows stays true *)

\* After the request nothing grows: no writer of _account_conditions commits.
Shrink ==
  /\ ledger # "none" => ledger' # "none"
  /\ inventory <= inventory'
  /\ lapsed \subseteq lapsed'
  /\ ledger # "none" => \A p \in Partitions :
       /\ rows'[p] \subseteq rows[p]
       /\ pending'[p] \subseteq pending[p]
       /\ access[p] # "live" => access'[p] # "live"
       /\ access[p] = "absent" => access'[p] = "absent"

\* An invocation that does not move keeps its invariant.
LEMMA JobStable ==
  ASSUME NEW j \in Jobs, JobInv(j), Shrink, TypeOK, TypeOK'
  PROVE  JobInv(j)'
<1> USE DEF JobInv
<1>0. CASE j.phase = "idle"
  BY <1>0 DEF Fenced
<1> SUFFICES ASSUME j.phase # "idle" PROVE JobInv(j)'
  BY <1>0
<1>1. ledger # "none" /\ ledger' # "none" /\ inventory <= inventory'
  BY DEF Shrink
<1>2. /\ j.inventory \in 0 .. MaxKeys /\ j.partition \in 1 .. MaxKeys + 1
      /\ inventory \in Nat /\ inventory' \in Nat /\ inventory <= MaxKeys
      /\ MaxKeys \in Nat
  BY BoundsAssumption DEF Jobs, TypeOK, Partitions
<1>3. /\ 1 .. j.inventory \subseteq Partitions
      /\ j.partition \in 1 .. j.inventory => j.partition \in Partitions
      /\ \A p \in 1 .. j.partition - 1 : p \in Partitions
  BY <1>2 DEF Partitions
<1>4. j.inventory <= inventory'
  BY <1>1, <1>2
<1>5. \A p \in Partitions : Erased(p) => Erased(p)'
  BY <1>1 DEF Erased, Shrink
<1>6. j.phase = "commit" => PageInv(j)'
  <2> SUFFICES ASSUME j.phase = "commit" PROVE PageInv(j)'
    OBVIOUS
  <2>1. PageInv(j) /\ j.partition \in Partitions
    BY DEF PageInv
  <2>2. pending'[j.partition] \subseteq pending[j.partition] /\ lapsed \subseteq lapsed'
    BY <1>1, <2>1 DEF Shrink
  <2> QED BY <2>1, <2>2 DEF PageInv
<1>7. j.phase = "access" => rows'[j.partition] = {}
  BY <1>1, <1>3 DEF Shrink
<1>8. j.phase \in Fenced => \A p \in 1 .. j.inventory : access'[p] # "live"
  BY <1>1, <1>3 DEF Shrink
<1>9. /\ j.phase = "verify" => \A p \in 1 .. j.partition - 1 : Erased(p)'
      /\ j.phase = "finish" => \A p \in 1 .. j.inventory : Erased(p)'
  BY <1>3, <1>5
<1> QED BY <1>1, <1>4, <1>6, <1>7, <1>8, <1>9

\* So do all of them when a party other than the workers moves.
LEMMA JobsStable ==
  ASSUME IInv, TypeOK', Shrink, UNCHANGED job
  PROVE  \A w \in Workers : JobInv(job[w])'
<1> SUFFICES ASSUME NEW w \in Workers PROVE JobInv(job[w])'
  OBVIOUS
<1>1. job[w] \in Jobs /\ JobInv(job[w])
  BY DEF IInv, TypeOK
<1> DEFINE j == job[w]
<1>2. PICK k : k = j
  OBVIOUS
<1>3. JobInv(k)'
  BY <1>1, <1>2, JobStable DEF IInv
<1>4. k = job'[w]
  BY <1>2
<1> HIDE DEF j
<1> QED BY <1>3, <1>4 DEF JobInv, PageInv, Erased

\* And all but one when a worker moves.
LEMMA OthersStable ==
  ASSUME IInv, TypeOK', Shrink, NEW w \in Workers,
         NEW j, job' = [job EXCEPT ![w] = j], JobInv(j)'
  PROVE  \A v \in Workers : JobInv(job[v])'
<1> SUFFICES ASSUME NEW v \in Workers PROVE JobInv(job[v])'
  OBVIOUS
<1>1. CASE v = w
  <2>1. job'[v] = j
    BY <1>1 DEF IInv, TypeOK
  <2> QED BY <2>1 DEF JobInv, PageInv, Erased
<1>2. CASE v # w
  <2>1. job'[v] = job[v] /\ job[v] \in Jobs /\ JobInv(job[v])
    BY <1>2 DEF IInv, TypeOK
  <2>2. PICK k : k = job[v]
    OBVIOUS
  <2>3. JobInv(k)'
    BY <2>1, <2>2, JobStable DEF IInv
  <2> QED BY <2>1, <2>2, <2>3 DEF JobInv, PageInv, Erased
<1> QED BY <1>1, <1>2

-----------------------------------------------------------------------------
(* The writers *)

\* What a step of another party establishes.
Kept == /\ TypeOK' /\ (\A q \in Partitions : RowInv(q)')
        /\ ErasedInv' /\ Shrink /\ UNCHANGED job

\* _attempt, under the account's deletion fence.
LEMMA CountAttemptStep ==
  ASSUME IInv, NEW p \in Issued, CountAttempt(p)
  PROVE  Kept
<1>1. p \in Partitions /\ inventory \in Partitions /\ p <= inventory
  BY BoundsAssumption DEF IInv, TypeOK, Issued, Partitions
<1>2. TypeOK'
  BY <1>1 DEF IInv, TypeOK, CountAttempt, Families
<1>3. ASSUME NEW q \in Partitions PROVE RowInv(q)'
  <2>1. CASE q = p
    BY <1>1, <2>1, BoundsAssumption DEF IInv, TypeOK, RowInv, CountAttempt, Erased, Attempt,
       Period, Partitions
  <2>2. CASE q # p
    BY <1>1, <2>2 DEF IInv, TypeOK, RowInv, CountAttempt, Erased
  <2> QED BY <2>1, <2>2
<1>4. ErasedInv' /\ Shrink /\ UNCHANGED job
  BY BoundsAssumption DEF IInv, TypeOK, ErasedInv, CountAttempt, AccountOpen, Shrink,
     Partitions
<1> QED BY <1>2, <1>3, <1>4 DEF Kept

\* _commit, which creates ACCESS where the account has none.
LEMMA GrantStep ==
  ASSUME IInv, NEW p \in Issued, Grant(p)
  PROVE  Kept
<1>1. p \in Partitions /\ inventory \in Partitions /\ p <= inventory
  BY BoundsAssumption DEF IInv, TypeOK, Issued, Partitions
<1>2. TypeOK'
  BY <1>1 DEF IInv, TypeOK, Grant, AccessStates
<1>3. ASSUME NEW q \in Partitions PROVE RowInv(q)'
  <2>1. CASE q = p
    BY <1>1, <2>1 DEF IInv, TypeOK, RowInv, Grant, Erased, Partitions
  <2>2. CASE q # p
    BY <1>1, <2>2 DEF IInv, TypeOK, RowInv, Grant, Erased
  <2> QED BY <2>1, <2>2
<1>4. ErasedInv' /\ Shrink /\ UNCHANGED job
  BY BoundsAssumption DEF IInv, TypeOK, ErasedInv, Grant, AccountOpen, Shrink, Partitions
<1> QED BY <1>2, <1>3, <1>4 DEF Kept

\* _commit_paid, which starts both counters at zero.
LEMMA FundStep ==
  ASSUME IInv, NEW p \in Issued, Fund(p)
  PROVE  Kept
<1>1. p \in Partitions /\ inventory \in Partitions /\ p <= inventory
  BY BoundsAssumption DEF IInv, TypeOK, Issued, Partitions
<1>2. TypeOK'
  BY <1>1 DEF IInv, TypeOK, Fund, AccessStates, Families
<1>3. ASSUME NEW q \in Partitions PROVE RowInv(q)'
  <2>1. CASE q = p
    <3>1. pending[p] = {}
      BY <1>1 DEF IInv, RowInv, Fund
    <3>2. /\ access'[p] = "live" /\ rows'[p] = rows[p] \cup {Period}
          /\ reserved'[p] = 0 /\ usage'[p] = 0 /\ pending'[p] = {}
          /\ inventory' = inventory
      BY <1>1, <3>1 DEF IInv, TypeOK, Fund
    <3> QED BY <1>1, <2>1, <3>2, NoneLeft DEF RowInv, Partitions
  <2>2. CASE q # p
    BY <1>1, <2>2 DEF IInv, TypeOK, RowInv, Fund, Erased
  <2> QED BY <2>1, <2>2
<1>4. ErasedInv' /\ Shrink /\ UNCHANGED job
  BY BoundsAssumption DEF IInv, TypeOK, ErasedInv, Fund, AccountOpen, Shrink, Partitions
<1> QED BY <1>2, <1>3, <1>4 DEF Kept

\* admit of a paid check: both counters and the receipt in one transaction.
LEMMA AdmitStep ==
  ASSUME IInv, NEW p \in Issued, NEW c \in Receipts, Admit(p, c)
  PROVE  Kept
<1>1. p \in Partitions /\ inventory \in Partitions /\ p <= inventory
  BY BoundsAssumption DEF IInv, TypeOK, Issued, Partitions
<1>2. pending[p] \in SUBSET Receipts /\ c \notin pending[p]
  BY <1>1 DEF IInv, TypeOK, RowInv, Admit
<1>3. Cardinality(pending[p] \cup {c}) = Cardinality(pending[p]) + 1
  BY <1>2, AddOne
<1>4. reserved[p] \in Nat /\ usage[p] = reserved[p] /\ reserved[p] = Cardinality(pending[p])
  BY <1>1 DEF IInv, TypeOK, RowInv, Admit, Paired
<1>5. /\ rows'[p] = rows[p] \cup {c} /\ pending'[p] = pending[p] \cup {c}
      /\ reserved'[p] = reserved[p] + 1 /\ usage'[p] = usage[p] + 1
      /\ access'[p] = access[p] /\ access[p] = "live" /\ inventory' = inventory
      /\ lapsed' = lapsed /\ Period \in rows[p]
  BY <1>1 DEF IInv, TypeOK, Admit
<1>6. TypeOK'
  BY <1>1, <1>4 DEF IInv, TypeOK, Admit, Families
<1>7. ASSUME NEW q \in Partitions PROVE RowInv(q)'
  <2>1. CASE q = p
    <3>1. pending'[p] \subseteq rows'[p]
      BY <1>1, <1>5 DEF IInv, RowInv
    <3>2. ~(p > inventory')
      BY <1>1, <1>5 DEF Partitions
    <3>3. reserved'[p] = Cardinality(pending'[p]) /\ usage'[p] = Cardinality(pending'[p])
      BY <1>3, <1>4, <1>5
    <3> QED BY <1>5, <2>1, <3>1, <3>2, <3>3 DEF RowInv
  <2>2. CASE q # p
    BY <1>1, <2>2 DEF IInv, TypeOK, RowInv, Admit, Erased
  <2> QED BY <2>1, <2>2
<1>8. ErasedInv' /\ Shrink /\ UNCHANGED job
  BY BoundsAssumption DEF IInv, TypeOK, ErasedInv, Admit, AccountOpen, Shrink, Partitions
<1> QED BY <1>6, <1>7, <1>8 DEF Kept

\* settle of a paid check, while the purchase's usage row is alive.
LEMMA SettleStep ==
  ASSUME IInv, NEW p \in Issued, NEW c \in Receipts, Settle(p, c)
  PROVE  Kept
<1>1. p \in Partitions /\ inventory \in Partitions /\ p <= inventory
  BY BoundsAssumption DEF IInv, TypeOK, Issued, Partitions
<1>2. pending[p] \in SUBSET Receipts /\ c \in pending[p]
  BY <1>1 DEF IInv, TypeOK, Settle
<1>3. Cardinality(pending[p] \ {c}) = Cardinality(pending[p]) - 1 /\ Cardinality(pending[p]) > 0
  BY <1>2, RemoveOne
<1>4. reserved[p] \in Nat /\ usage[p] = reserved[p] /\ reserved[p] = Cardinality(pending[p])
  BY <1>1 DEF IInv, TypeOK, RowInv, Settle, Paired
<1>5. /\ rows' = rows /\ pending'[p] = pending[p] \ {c}
      /\ reserved'[p] = reserved[p] - 1 /\ usage'[p] = usage[p] - 1
      /\ access' = access /\ inventory' = inventory /\ lapsed' = lapsed
      /\ Period \in rows[p]
  BY <1>1 DEF IInv, TypeOK, Settle
<1>6. TypeOK'
  <2>1. reserved[p] - 1 \in Nat /\ usage[p] - 1 \in Nat
    BY <1>3, <1>4
  <2> QED BY <1>1, <2>1 DEF IInv, TypeOK, Settle
<1>7. ASSUME NEW q \in Partitions PROVE RowInv(q)'
  <2>1. CASE q = p
    <3>1. reserved'[p] = Cardinality(pending'[p]) /\ usage'[p] = Cardinality(pending'[p])
      BY <1>3, <1>4, <1>5
    <3>2. pending'[p] \subseteq rows'[p] /\ RowInv(p)
      BY <1>1, <1>5 DEF IInv, RowInv
    <3> QED BY <1>5, <2>1, <3>1, <3>2 DEF RowInv, Erased
  <2>2. CASE q # p
    BY <1>1, <2>2 DEF IInv, TypeOK, RowInv, Settle, Erased
  <2> QED BY <2>1, <2>2
<1>8. ErasedInv' /\ Shrink /\ UNCHANGED job
  BY BoundsAssumption DEF IInv, TypeOK, ErasedInv, Settle, AccountOpen, Shrink, Partitions, Erased
<1> QED BY <1>6, <1>7, <1>8 DEF Kept

\* Recovery.expire, also past the usage deadline.
LEMMA RecoverLeaseStep ==
  ASSUME IInv, NEW p \in Issued, NEW c \in Receipts, RecoverLease(p, c)
  PROVE  Kept
<1>1. p \in Partitions /\ inventory \in Partitions /\ p <= inventory
  BY BoundsAssumption DEF IInv, TypeOK, Issued, Partitions
<1>2. pending[p] \in SUBSET Receipts /\ c \in pending[p]
  BY <1>1 DEF IInv, TypeOK, RecoverLease
<1>3. Cardinality(pending[p] \ {c}) = Cardinality(pending[p]) - 1 /\ Cardinality(pending[p]) > 0
  BY <1>2, RemoveOne
<1>4. /\ reserved[p] \in Nat /\ reserved[p] = Cardinality(pending[p])
      /\ p \notin lapsed => usage[p] = reserved[p]
  BY <1>1 DEF IInv, TypeOK, RowInv, RecoverLease, Paired
<1>5. /\ rows' = rows /\ pending'[p] = pending[p] \ {c}
      /\ reserved'[p] = reserved[p] - 1
      /\ p \notin lapsed => usage'[p] = usage[p] - 1
      /\ access' = access /\ inventory' = inventory /\ lapsed' = lapsed
      /\ Period \in rows[p]
  BY <1>1 DEF IInv, TypeOK, RecoverLease
<1>6. TypeOK'
  <2>1. reserved[p] - 1 \in Nat
    BY <1>3, <1>4
  <2>2. usage' \in [Partitions -> Nat \cup {NoUsage}]
    BY <1>1, <1>4, <2>1 DEF IInv, TypeOK, RecoverLease
  <2> QED BY <1>1, <2>1, <2>2 DEF IInv, TypeOK, RecoverLease
<1>7. ASSUME NEW q \in Partitions PROVE RowInv(q)'
  <2>1. CASE q = p
    <3>1. /\ reserved'[p] = Cardinality(pending'[p])
          /\ p \notin lapsed => usage'[p] = Cardinality(pending'[p])
      BY <1>3, <1>4, <1>5
    <3>2. pending'[p] \subseteq rows'[p] /\ RowInv(p)
      BY <1>1, <1>5 DEF IInv, RowInv
    <3> QED BY <1>5, <2>1, <3>1, <3>2 DEF RowInv, Erased
  <2>2. CASE q # p
    BY <1>1, <2>2 DEF IInv, TypeOK, RowInv, RecoverLease, Erased
  <2> QED BY <2>1, <2>2
<1>8. Shrink
  BY <1>1 DEF IInv, TypeOK, RecoverLease, Shrink, Partitions
<1>9. ErasedInv' /\ UNCHANGED job
  BY DEF IInv, TypeOK, ErasedInv, RecoverLease, Erased
<1> QED BY <1>6, <1>7, <1>8, <1>9 DEF Kept

\* Expiry.expire, and the usage row's own expiry: rows only go.
LEMMA ExpiryStep ==
  ASSUME IInv, NEW p \in Issued,
         \/ \E c \in Receipts : ExpireReceipt(p, c)
         \/ ExpireAttempt(p) \/ Lapse(p) \/ ExpireUsage(p)
  PROVE  Kept
<1>1. p \in Partitions /\ inventory \in Partitions /\ p <= inventory
  BY BoundsAssumption DEF IInv, TypeOK, Issued, Partitions
<1>2. /\ \A q \in Partitions : rows'[q] \subseteq rows[q]
      /\ UNCHANGED <<ledger, receipt, inventory, access, pending, reserved, job>>
      /\ lapsed \subseteq lapsed'
      /\ TypeOK'
  <2>1. CASE \E c \in Receipts : ExpireReceipt(p, c)
    BY <1>1, <2>1 DEF IInv, TypeOK, ExpireReceipt
  <2>2. CASE ExpireAttempt(p)
    BY <1>1, <2>2 DEF IInv, TypeOK, ExpireAttempt
  <2>3. CASE Lapse(p)
    BY <1>1, <2>3 DEF IInv, TypeOK, Lapse, stored
  <2>4. CASE ExpireUsage(p)
    BY <1>1, <2>4 DEF IInv, TypeOK, ExpireUsage
  <2> QED BY <2>1, <2>2, <2>3, <2>4
<1>3. ASSUME NEW q \in Partitions PROVE RowInv(q)'
  <2>1. RowInv(q)
    BY DEF IInv
  <2>2. /\ pending[q] \subseteq rows'[q]
        /\ Period \in rows[q] => Period \in rows'[q]
    <3>1. CASE \E c \in Receipts : ExpireReceipt(p, c)
      BY <1>1, <2>1, <3>1, BoundsAssumption
         DEF IInv, TypeOK, RowInv, ExpireReceipt, Receipts, Period
    <3>2. CASE ExpireAttempt(p)
      BY <1>1, <2>1, <3>2, BoundsAssumption
         DEF IInv, TypeOK, RowInv, ExpireAttempt, Receipts, Period, Attempt
    <3>3. CASE Lapse(p) \/ ExpireUsage(p)
      BY <2>1, <3>3 DEF RowInv, Lapse, ExpireUsage, stored
    <3> QED BY <3>1, <3>2, <3>3
  <2>3. q \notin lapsed' /\ usage'[q] # NoUsage => q \notin lapsed /\ usage'[q] = usage[q]
    BY <1>1 DEF IInv, TypeOK, ExpireReceipt, ExpireAttempt, Lapse, ExpireUsage, stored
  <2>4. rows'[q] \subseteq rows[q]
    BY <1>2
  <2> QED BY <1>2, <2>1, <2>2, <2>3, <2>4 DEF RowInv, Erased
<1>4. Shrink
  BY <1>1, <1>2 DEF Shrink, Partitions
<1>5. ErasedInv'
  BY <1>2 DEF IInv, ErasedInv, Erased
<1> QED BY <1>2, <1>3, <1>4, <1>5 DEF Kept

\* The account's other parties: the request, the finalizer, the operator.
LEMMA PartiesStep ==
  ASSUME IInv, Request \/ Finalize \/ Rotate \/ Calm
  PROVE  Kept
<1>1. /\ UNCHANGED <<receipt, progress, stored, lapsed, job>>
      /\ inventory' \in Partitions /\ inventory <= inventory'
      /\ inventory \in Nat /\ inventory' \in Nat
      /\ ledger' \in {"none", "requested", "completed"}
      /\ faulty' \in BOOLEAN
      /\ ledger # "none" => ledger' # "none"
  <2>1. /\ inventory \in Partitions /\ inventory \in Nat /\ MaxKeys \in Nat
        /\ inventory <= MaxKeys /\ faulty \in BOOLEAN
        /\ ledger \in {"none", "requested", "completed"}
    BY BoundsAssumption DEF IInv, TypeOK, Partitions
  <2>2. CASE Request \/ Finalize
    BY <2>1, <2>2 DEF Request, Finalize
  <2>3. CASE Rotate
    BY <2>1, <2>3 DEF Rotate, Partitions
  <2>4. CASE Calm
    <3>1. /\ faulty' = FALSE /\ ledger' = ledger /\ inventory' = inventory
          /\ UNCHANGED <<receipt, progress, stored, lapsed, job>>
      BY <2>4 DEF Calm
    <3>2. faulty' \in BOOLEAN
      BY <3>1, Zenon
    <3>3. inventory <= inventory'
      BY <2>1, <3>1
    <3> HIDE DEF stored
    <3> QED BY <2>1, <3>1, <3>2, <3>3, Zenon
  <2> QED BY <2>2, <2>3, <2>4
<1>2. TypeOK'
  BY <1>1 DEF IInv, TypeOK, stored
<1>3. ASSUME NEW q \in Partitions PROVE RowInv(q)'
  <2>1. q > inventory' => q > inventory
    BY <1>1 DEF Partitions
  <2> QED BY <1>1, <2>1 DEF IInv, RowInv, Erased, stored
<1>4. ErasedInv' /\ Shrink
  BY <1>1 DEF IInv, ErasedInv, Shrink, Erased, stored
<1> QED BY <1>1, <1>2, <1>3, <1>4 DEF Kept

-----------------------------------------------------------------------------
(* The worker *)

\* What a step of a worker establishes, with j the worker's next state.
Moved(w, j) ==
  /\ TypeOK' /\ (\A q \in Partitions : RowInv(q)') /\ ErasedInv' /\ Shrink
  /\ job' = [job EXCEPT ![w] = j] /\ JobInv(j)'

\* A step that only reads changes nothing but the reader.
LEMMA ReadOnly ==
  ASSUME IInv, NEW w \in Workers, NEW j \in Jobs, job' = [job EXCEPT ![w] = j],
         UNCHANGED <<ledger, receipt, progress, inventory, stored, lapsed, faulty>>
  PROVE  TypeOK' /\ (\A q \in Partitions : RowInv(q)') /\ ErasedInv' /\ Shrink
<1>1. TypeOK'
  BY DEF IInv, TypeOK, stored
<1>2. \A q \in Partitions : RowInv(q)'
  BY DEF IInv, RowInv, Erased, stored
<1>3. ErasedInv'
  BY DEF IInv, ErasedInv, Erased, stored
<1>4. Shrink
  BY DEF IInv, TypeOK, Shrink, stored, Partitions
<1> QED BY <1>1, <1>2, <1>3, <1>4

\* An idle worker knows nothing.
LEMMA IdleKnowsNothing == Idle \in Jobs /\ JobInv(Idle) /\ JobInv(Idle)'
<1>1. Idle \in Jobs
  BY BoundsAssumption DEF Idle, Jobs, Phases, NoUsage, Partitions
<1>2. Idle.phase = "idle"
  BY DEF Idle
<1> QED BY <1>1, <1>2 DEF JobInv, Fenced

\* A refusal or a crash is safe anywhere.
LEMMA StopStep ==
  ASSUME IInv, NEW w \in Workers, Refused(w) \/ Crash(w)
  PROVE  Moved(w, Idle)
<1>1. /\ job' = [job EXCEPT ![w] = Idle]
      /\ UNCHANGED <<ledger, receipt, progress, inventory, stored, lapsed, faulty>>
  BY DEF Refused, Crash, Stop, Set
<1> QED BY <1>1, IdleKnowsNothing, ReadOnly DEF Moved

\* delete_batch's first reads.
LEMMA StartStep ==
  ASSUME IInv, NEW w \in Workers, Start(w)
  PROVE  \E j \in Jobs : Moved(w, j)
<1> DEFINE k == [Idle EXCEPT !.phase = "read", !.inventory = inventory,
                             !.fresh = (progress = NoProgress)]
<1>1. k \in Jobs /\ k.phase = "read" /\ k.inventory = inventory /\ k.partition = 1
  <2>1. inventory \in 0 .. MaxKeys
    BY BoundsAssumption DEF IInv, TypeOK, Partitions
  <2>2. Idle \in Jobs
    BY IdleKnowsNothing
  <2>3. (progress = NoProgress) \in BOOLEAN
    OBVIOUS
  <2>4. [Idle EXCEPT !.phase = "read", !.inventory = inventory] \in Jobs
    BY <2>1, <2>2 DEF Jobs, Phases
  <2>5. ASSUME NEW i \in Jobs, NEW b \in BOOLEAN PROVE [i EXCEPT !.fresh = b] \in Jobs
    BY <2>5 DEF Jobs
  <2>6. k = [[Idle EXCEPT !.phase = "read", !.inventory = inventory]
               EXCEPT !.fresh = (progress = NoProgress)]
    BY Zenon
  <2>7. k \in Jobs
    BY <2>3, <2>4, <2>5, <2>6, Zenon
  <2> QED BY <2>7 DEF Idle
<1>2. PICK j : j = k
  OBVIOUS
<1>3. /\ job' = [job EXCEPT ![w] = j] /\ ledger' # "none" /\ inventory' = inventory
      /\ UNCHANGED <<ledger, receipt, progress, inventory, stored, lapsed, faulty>>
  BY <1>2 DEF Start, Set
<1>4. j \in Jobs /\ j.phase = "read" /\ j.inventory = inventory /\ j.partition = 1
  BY <1>1, <1>2
<1> HIDE DEF k
<1>5. inventory \in Nat /\ 1 \in 1 .. inventory
  BY BoundsAssumption DEF IInv, TypeOK, Partitions
<1>6. JobInv(j)'
  BY <1>3, <1>4, <1>5 DEF JobInv, Fenced
<1> QED BY <1>3, <1>4, <1>6, ReadOnly DEF Moved

\* The reads of ACCESS.
LEMMA ReadAccessStep ==
  ASSUME IInv, NEW w \in Workers, ReadAccess(w)
  PROVE  \E j \in Jobs : Moved(w, j)
<1> DEFINE k == [job[w] EXCEPT !.phase = "fence",
                   !.seen = {p \in 1 .. job[w].inventory : access[p] # "absent"}]
<1>1. job[w] \in Jobs /\ JobInv(job[w]) /\ job[w].phase = "read"
  BY DEF IInv, TypeOK, ReadAccess
<1>2. job[w].inventory \in 0 .. MaxKeys /\ MaxKeys \in Nat
  BY <1>1, BoundsAssumption DEF Jobs
<1>3. {p \in 1 .. job[w].inventory : access[p] # "absent"} \subseteq Partitions
  BY <1>2 DEF Partitions
<1>4. /\ k \in Jobs /\ k.phase = "fence" /\ k.inventory = job[w].inventory
      /\ k.seen \subseteq 1 .. job[w].inventory /\ k.partition = job[w].partition
  BY <1>1, <1>3 DEF Jobs, Phases
<1>5. PICK j : j = k
  OBVIOUS
<1>6. /\ job' = [job EXCEPT ![w] = j]
      /\ UNCHANGED <<ledger, receipt, progress, inventory, stored, lapsed, faulty>>
  BY <1>5 DEF ReadAccess, Set
<1>7. /\ j \in Jobs /\ j.phase = "fence" /\ j.inventory = job[w].inventory
      /\ j.seen \subseteq 1 .. job[w].inventory /\ j.partition = job[w].partition
  BY <1>4, <1>5
<1>8. /\ ledger # "none" /\ job[w].inventory <= inventory
      /\ job[w].partition \in 1 .. job[w].inventory
  BY <1>1 DEF JobInv
<1> HIDE DEF k
<1>9. JobInv(j)'
  BY <1>6, <1>7, <1>8 DEF JobInv, Fenced
<1> QED BY <1>6, <1>7, <1>9, ReadOnly DEF Moved

\* The fence: behind it no ACCESS row is live.
LEMMA FenceStep ==
  ASSUME IInv, NEW w \in Workers, Fence(w)
  PROVE  \E j \in Jobs : Moved(w, j)
<1> DEFINE k == [job[w] EXCEPT !.phase = "page"]
<1>1. /\ job[w] \in Jobs /\ JobInv(job[w]) /\ job[w].phase = "fence"
      /\ FenceHolds(job[w])
  BY DEF IInv, TypeOK, Fence
<1>2. /\ k \in Jobs /\ k.phase = "page" /\ k.inventory = job[w].inventory
      /\ k.partition = job[w].partition
  BY <1>1 DEF Jobs, Phases
<1>3. PICK j : j = k
  OBVIOUS
<1>4. /\ j \in Jobs /\ j.phase = "page" /\ j.inventory = job[w].inventory
      /\ j.partition = job[w].partition
  BY <1>2, <1>3
<1>5. /\ job' = [job EXCEPT ![w] = j]
      /\ access' = [p \in Partitions |-> IF p \in job[w].seen THEN "DELETING" ELSE access[p]]
      /\ UNCHANGED <<ledger, receipt, inventory, rows, pending, reserved, usage, lapsed, faulty>>
      /\ progress' = IF job[w].fresh THEN job[w].inventory ELSE progress
  BY <1>3 DEF Fence, Set
<1> HIDE DEF k
<1>6. \A p \in 1 .. job[w].inventory : p \in job[w].seen <=> access[p] # "absent"
  BY <1>1 DEF FenceHolds
<1>7. ledger = "requested" /\ inventory = job[w].inventory
  BY <1>1 DEF FenceHolds, Guarded
<1>8. inventory \in Partitions /\ inventory \in Nat /\ MaxKeys \in Nat /\ inventory <= MaxKeys
  BY BoundsAssumption DEF IInv, TypeOK, Partitions
<1>9. TypeOK'
  <2>1. access' \in [Partitions -> AccessStates]
    BY <1>5 DEF IInv, TypeOK, AccessStates
  <2>2. progress' \in 0 .. MaxKeys
    BY <1>5, <1>7, <1>8 DEF IInv, TypeOK
  <2> QED BY <1>4, <1>5, <2>1, <2>2 DEF IInv, TypeOK
<1>10. \A p \in Partitions : access[p] = "absent" => access'[p] = "absent"
  <2> SUFFICES ASSUME NEW p \in Partitions, access[p] = "absent" PROVE access'[p] = "absent"
    OBVIOUS
  <2>1. CASE p \in 1 .. inventory
    BY <1>5, <1>6, <1>7, <2>1
  <2>2. CASE p \notin 1 .. inventory
    <3>1. p \notin job[w].seen \/ p > inventory
      BY <1>8, <2>2 DEF Partitions
    <3>2. job[w].seen \subseteq 1 .. job[w].inventory
      BY <1>1 DEF JobInv
    <3> QED BY <1>5, <1>7, <2>2, <3>2
  <2> QED BY <2>1, <2>2
<1>11. \A p \in Partitions : access'[p] = "absent" => access[p] = "absent"
  BY <1>5
<1>12. ASSUME NEW q \in Partitions PROVE RowInv(q)'
  BY <1>5, <1>10, <1>11 DEF IInv, RowInv, Erased
<1>13. Shrink
  <2>1. \A p \in Partitions : access[p] # "live" => access'[p] # "live"
    BY <1>5
  <2> QED BY <1>5, <1>8, <1>10, <2>1 DEF Shrink
<1>14. ErasedInv'
  BY <1>5, <1>10 DEF IInv, ErasedInv, Erased
<1>15. JobInv(j)'
  <2>1. \A p \in 1 .. j.inventory : access'[p] # "live"
    BY <1>4, <1>5, <1>6, <1>7, <1>8 DEF Partitions
  <2>2. j.partition \in 1 .. j.inventory
    BY <1>1, <1>4 DEF JobInv
  <2> QED BY <1>4, <1>5, <1>7, <1>8, <2>1, <2>2 DEF JobInv, Fenced
<1> QED BY <1>4, <1>5, <1>9, <1>12, <1>13, <1>14, <1>15 DEF Moved

\* Moving on to the next partition, or to the verification, assumes nothing of
\* the one that was left.
AfterPartition(j) ==
  IF j.partition < j.inventory
  THEN [j EXCEPT !.phase = "page", !.partition = @ + 1]
  ELSE [j EXCEPT !.phase = "verify", !.partition = 1]

\* delete_batch turns to the next partition, or to the final queries.
LEMMA AfterPartitionType ==
  ASSUME NEW i \in Jobs, i.partition \in 1 .. i.inventory
  PROVE  AfterPartition(i) \in Jobs
<1>1. i.inventory \in 0 .. MaxKeys /\ MaxKeys \in Nat
  BY BoundsAssumption DEF Jobs
<1>2. CASE i.partition < i.inventory
  <2>1. i.partition + 1 \in 1 .. MaxKeys + 1
    BY <1>1, <1>2
  <2>2. AfterPartition(i) = [i EXCEPT !.phase = "page", !.partition = i.partition + 1]
    BY <1>2 DEF AfterPartition
  <2> QED BY <2>1, <2>2 DEF Jobs, Phases
<1>3. CASE ~(i.partition < i.inventory)
  <2>1. 1 \in 1 .. MaxKeys + 1
    BY <1>1
  <2>2. AfterPartition(i) = [i EXCEPT !.phase = "verify", !.partition = 1]
    BY <1>3 DEF AfterPartition
  <2> QED BY <2>1, <2>2 DEF Jobs, Phases
<1> QED BY <1>2, <1>3

\* Nothing of what the worker knew is lost on the way.
LEMMA AfterPartitionInv ==
  ASSUME NEW i \in Jobs, JobInv(i), i.phase \in Fenced \ {"finish"}, Shrink,
         TypeOK, TypeOK', NEW j, j = AfterPartition(i)
  PROVE  JobInv(j)'
<1>1. /\ ledger # "none" /\ ledger' # "none"
      /\ i.inventory <= inventory /\ inventory <= inventory'
      /\ i.partition \in 1 .. i.inventory
      /\ \A p \in 1 .. i.inventory : access[p] # "live"
  BY DEF JobInv, Fenced, Shrink
<1>2. /\ i.inventory \in 0 .. MaxKeys /\ MaxKeys \in Nat
      /\ inventory \in Nat /\ inventory' \in Nat
  BY BoundsAssumption DEF Jobs, TypeOK, Partitions
<1>3. \A p \in 1 .. i.inventory : access'[p] # "live"
  BY <1>1, <1>2 DEF Shrink, Partitions
<1>4. CASE i.partition < i.inventory
  <2>1. j = [i EXCEPT !.phase = "page", !.partition = i.partition + 1]
    BY <1>4 DEF AfterPartition
  <2>2. /\ j \in Jobs /\ j.phase = "page" /\ j.inventory = i.inventory
        /\ j.partition \in 1 .. i.inventory
    <3>1. i.partition + 1 \in 1 .. MaxKeys + 1 /\ i.partition + 1 \in 1 .. i.inventory
      BY <1>1, <1>2, <1>4
    <3> QED BY <2>1, <3>1 DEF Jobs, Phases
  <2> QED BY <1>1, <1>2, <1>3, <2>2 DEF JobInv, Fenced
<1>5. CASE ~(i.partition < i.inventory)
  <2>1. j = [i EXCEPT !.phase = "verify", !.partition = 1]
    BY <1>5 DEF AfterPartition
  <2>2. /\ j \in Jobs /\ j.phase = "verify" /\ j.inventory = i.inventory
        /\ j.partition = 1 /\ 1 \in 1 .. i.inventory
    <3>1. 1 \in 1 .. MaxKeys + 1 /\ 1 \in 1 .. i.inventory
      BY <1>1, <1>2
    <3> QED BY <2>1, <3>1 DEF Jobs, Phases
  <2>3. \A p \in 1 .. j.partition - 1 : Erased(p)'
    BY <2>2
  <2> QED BY <1>1, <1>2, <1>3, <2>2, <2>3 DEF JobInv, Fenced
<1> QED BY <1>4, <1>5

\* A query that returns nothing shows an empty partition: the first row of any
\* other would be in the page.
LEMMA PageEmpty ==
  ASSUME TypeOK, NEW p \in Partitions, Page(p) = {}
  PROVE  rows[p] = {}
<1> SUFFICES ASSUME rows[p] # {} PROVE FALSE
  OBVIOUS
<1>1. rows[p] \subseteq Nat
  BY BoundsAssumption DEF TypeOK, Families, Attempt, Period, Receipts
<1>2. PICK r \in rows[p] : \A s \in rows[p] : r <= s
  <2> DEFINE R == {ss \in Nat \X Nat : ss[1] < ss[2]}
  <2>1. IsWellFoundedOn(R, Nat)
    <3>1. R = OpToRel(<, Nat)
      BY Zenon DEF OpToRel
    <3> QED BY <3>1, NatLessThanWellFounded
  <2>2. \A m, n \in Nat : m < n => <<m, n>> \in R
    OBVIOUS
  <2> HIDE DEF R
  <2>3. PICK r \in rows[p] : \A s \in rows[p] : ~(<<s, r>> \in R)
    BY <1>1, <2>1, WFMin, Zenon
  <2>4. ASSUME NEW s \in rows[p] PROVE ~(s < r)
    BY <1>1, <2>2, <2>3
  <2> QED BY <1>1, <2>3, <2>4
<1>3. {s \in rows[p] : s < r} = {}
  BY <1>1, <1>2
<1>4. Cardinality({s \in rows[p] : s < r}) = 0
  BY <1>3, NoneLeft
<1>5. r \in Page(p)
  BY <1>2, <1>4, BoundsAssumption DEF Page
<1> QED BY <1>5

\* The read of a page, of ACCESS and of the counters.
LEMMA ReadPageStep ==
  ASSUME IInv, NEW w \in Workers, ReadPage(w)
  PROVE  \E j \in Jobs : Moved(w, j)
<1>1. PICK i : i = job[w]
  OBVIOUS
<1>2. i \in Jobs /\ JobInv(i) /\ i.phase = "page"
  BY <1>1 DEF IInv, TypeOK, ReadPage
<1>3. UNCHANGED <<ledger, receipt, progress, inventory, stored, lapsed, faulty>>
  BY DEF ReadPage
<1>4. /\ i.partition \in 1 .. i.inventory /\ ledger # "none" /\ i.inventory <= inventory
      /\ \A p \in 1 .. i.inventory : access[p] # "live"
  BY <1>2 DEF JobInv, Fenced
<1>5. /\ i.partition \in Partitions /\ inventory \in Nat
      /\ i.inventory \in Nat
  BY <1>2, <1>4, BoundsAssumption DEF Jobs, IInv, TypeOK, Partitions
<1>6. PICK targets : targets = Page(i.partition)
  OBVIOUS
<1>7. targets \subseteq rows[i.partition] /\ targets \subseteq Families
  BY <1>5, <1>6 DEF Page, IInv, TypeOK
<1>8. PICK released : released = targets \cap pending[i.partition]
  OBVIOUS
<1>9. released \in SUBSET Receipts
  BY <1>5, <1>8 DEF IInv, TypeOK
<1>10. CASE targets # {}
  <2>1. Releasable(i.partition, targets)
    BY <1>1, <1>6, <1>10 DEF ReadPage
  <2>2. PICK counted : counted = reserved[i.partition]
    OBVIOUS
  <2>3. PICK seen : seen = IF i.partition \in lapsed THEN NoUsage ELSE usage[i.partition]
    OBVIOUS
  <2>4. PICK present \in BOOLEAN : present = (access[i.partition] # "absent")
    BY Zenon
  <2>5. PICK j : j = [i EXCEPT !.phase = "commit", !.present = present, !.targets = targets,
                        !.released = released, !.reserved = counted, !.usage = seen]
    OBVIOUS
  <2>6. job' = [job EXCEPT ![w] = j]
    BY <1>1, <1>6, <1>8, <1>10, <2>2, <2>3, <2>4, <2>5 DEF ReadPage, Set
  <2>7. counted \in Int /\ seen \in Int
    BY <1>5, <2>2, <2>3 DEF IInv, TypeOK, NoUsage
  <2>8. /\ j \in Jobs /\ j.phase = "commit" /\ j.inventory = i.inventory
        /\ j.partition = i.partition /\ j.targets = targets /\ j.released = released
        /\ j.reserved = counted /\ j.usage = seen
    BY <1>2, <1>7, <1>9, <2>4, <2>5, <2>7 DEF Jobs, Phases
  <2>9. PageInv(j)
    <3>1. Period \in targets => Cardinality(released) = counted
      BY <1>8, <2>1, <2>2 DEF Releasable
    <3>2. released # {} => /\ Cardinality(released) <= counted
                           /\ i.partition \in lapsed \/ usage[i.partition] = counted
      BY <1>8, <2>1, <2>2 DEF Releasable, Paired
    <3>3. counted \in Nat
      BY <1>5, <2>2 DEF IInv, TypeOK
    <3> QED BY <1>5, <1>8, <2>3, <2>8, <3>1, <3>2, <3>3 DEF PageInv, NoUsage
  <2>10. PageInv(j)'
    BY <1>3, <2>9 DEF PageInv, stored
  <2>11. JobInv(j)'
    BY <1>3, <1>4, <2>8, <2>10 DEF JobInv, Fenced, stored
  <2> QED BY <1>3, <2>6, <2>8, <2>11, ReadOnly DEF Moved
<1>11. CASE targets = {} /\ access[i.partition] # "absent"
  <2>1. PICK j : j = [i EXCEPT !.phase = "access"]
    OBVIOUS
  <2>2. job' = [job EXCEPT ![w] = j]
    BY <1>1, <1>6, <1>11, <2>1 DEF ReadPage, Set
  <2>3. /\ j \in Jobs /\ j.phase = "access" /\ j.inventory = i.inventory
        /\ j.partition = i.partition
    BY <1>2, <2>1 DEF Jobs, Phases
  <2>4. rows[i.partition] = {}
    BY <1>5, <1>6, <1>11, PageEmpty DEF IInv
  <2>5. JobInv(j)'
    BY <1>3, <1>4, <2>3, <2>4 DEF JobInv, Fenced, stored
  <2> QED BY <1>3, <2>2, <2>3, <2>5, ReadOnly DEF Moved
<1>12. CASE targets = {} /\ access[i.partition] = "absent"
  <2>1. PICK j : j = AfterPartition(i)
    OBVIOUS
  <2>2. job' = [job EXCEPT ![w] = j]
    BY <1>1, <1>6, <1>12, <2>1 DEF ReadPage, NextPartition, AfterPartition, Set
  <2>3. Shrink
    BY <1>3 DEF IInv, TypeOK, Shrink, stored, Partitions
  <2>4. TypeOK /\ (j \in Jobs => TypeOK')
    BY <1>3, <2>2 DEF IInv, TypeOK, stored
  <2>5. j \in Jobs
    BY <1>2, <1>4, <2>1, AfterPartitionType
  <2>6. JobInv(j)'
    BY <1>2, <2>1, <2>3, <2>4, <2>5, AfterPartitionInv DEF Fenced
  <2> QED BY <1>3, <2>2, <2>5, <2>6, ReadOnly DEF Moved
<1> QED BY <1>10, <1>11, <1>12

\* A page commits on the rows it was built from: it takes from both counters
\* what it takes from the pending receipts, or takes the period with the last.
LEMMA CommitPageStep ==
  ASSUME IInv, NEW w \in Workers, CommitPage(w)
  PROVE  \E j \in Jobs : Moved(w, j)
<1>1. PICK i : i = job[w]
  OBVIOUS
<1>2. i \in Jobs /\ JobInv(i) /\ i.phase = "commit" /\ PageInv(i)
  BY <1>1 DEF IInv, TypeOK, CommitPage, JobInv
<1>3. PICK p : p = i.partition
  OBVIOUS
<1>4. /\ p \in 1 .. i.inventory /\ ledger # "none" /\ i.inventory <= inventory
      /\ \A q \in 1 .. i.inventory : access[q] # "live"
  BY <1>2, <1>3 DEF JobInv, Fenced
<1>5. p \in Partitions /\ RowInv(p)
  BY <1>2, <1>3 DEF PageInv, IInv
<1>6. /\ i.targets \subseteq Families /\ i.released \in SUBSET Receipts
      /\ i.reserved \in Int /\ i.usage \in Int
      /\ pending[p] \in SUBSET Receipts /\ i.released \in SUBSET pending[p]
  BY <1>1, <1>2, <1>3, <1>5 DEF Jobs, IInv, TypeOK, CommitPage, ReleasesUnchanged
<1>7. PICK n : n = Cardinality(i.released)
  OBVIOUS
<1>8. pending[p] \ i.targets = pending[p] \ i.released
  BY <1>2, <1>3 DEF PageInv
<1>9. /\ Cardinality(pending[p] \ i.targets) = Cardinality(pending[p]) - n
      /\ n <= Cardinality(pending[p])
  BY <1>6, <1>7, <1>8, RemoveSome
<1>10. /\ n \in Nat /\ Cardinality(pending[p]) \in Nat
       /\ Cardinality(pending[p] \ i.targets) \in Nat
       /\ i.released = {} => n = 0
  BY <1>6, <1>7, FiniteReceipts, NoneLeft
<1>11. /\ rows' = [rows EXCEPT ![p] = @ \ i.targets]
       /\ pending' = [pending EXCEPT ![p] = @ \ i.targets]
       /\ reserved' = IF Period \in i.targets THEN reserved
                      ELSE [reserved EXCEPT ![p] = @ - n]
       /\ usage' = IF i.usage = NoUsage THEN usage ELSE [usage EXCEPT ![p] = @ - n]
       /\ UNCHANGED <<ledger, receipt, progress, inventory, access, lapsed, faulty>>
  BY <1>1, <1>3, <1>7 DEF CommitPage
<1>12. /\ Period \in i.targets \/ i.released # {} =>
            Period \in rows[p] /\ reserved[p] = i.reserved
       /\ i.released # {} /\ i.usage # NoUsage => usage[p] = i.usage
  BY <1>1, <1>3 DEF CommitPage, ReleasesUnchanged
<1>13. PICK j : j = IF i.pages + 1 >= MaxPages THEN Idle
                    ELSE [i EXCEPT !.phase = "page", !.pages = i.pages + 1]
  OBVIOUS
<1>14. job' = [job EXCEPT ![w] = j]
  BY <1>1, <1>13 DEF CommitPage, Stop, Set
<1>15. j \in Jobs /\ (j.phase = "idle" \/ (/\ j.phase = "page" /\ j.inventory = i.inventory
                                           /\ j.partition = i.partition))
  <2>1. CASE i.pages + 1 >= MaxPages
    BY <1>13, <2>1, IdleKnowsNothing DEF Idle
  <2>2. CASE ~(i.pages + 1 >= MaxPages)
    <3>1. i.pages + 1 \in Nat
      BY <1>2 DEF Jobs
    <3>2. j = [i EXCEPT !.phase = "page", !.pages = i.pages + 1]
      BY <1>13, <2>2
    <3> QED BY <1>2, <3>1, <3>2 DEF Jobs, Phases
  <2> QED BY <2>1, <2>2
<1>16. /\ reserved \in [Partitions -> Nat] /\ usage \in [Partitions -> Nat \cup {NoUsage}]
       /\ rows \in [Partitions -> SUBSET Families]
       /\ pending \in [Partitions -> SUBSET Receipts]
  BY DEF IInv, TypeOK
<1>17. reserved[p] - n \in Nat \/ Period \in i.targets
  <2>1. CASE n = 0
    BY <1>5, <1>16, <2>1
  <2>2. CASE n # 0
    BY <1>5, <1>9, <1>10, <1>12, <2>2 DEF RowInv
  <2> QED BY <2>1, <2>2
<1>18. i.usage = NoUsage \/ usage[p] - n \in Nat \cup {NoUsage}
  <2>1. CASE n = 0
    BY <1>5, <1>16, <2>1 DEF NoUsage
  <2>2. CASE n # 0 /\ i.usage # NoUsage
    <3>1. usage[p] = reserved[p] /\ reserved[p] = Cardinality(pending[p])
      BY <1>2, <1>5, <1>10, <1>12, <2>2 DEF PageInv, RowInv
    <3> QED BY <1>9, <1>10, <3>1
  <2> QED BY <2>1, <2>2
<1>19. TypeOK'
  <2>1. reserved' \in [Partitions -> Nat]
    BY <1>5, <1>11, <1>16, <1>17
  <2>2. usage' \in [Partitions -> Nat \cup {NoUsage}]
    BY <1>5, <1>11, <1>16, <1>18
  <2>3. rows' \in [Partitions -> SUBSET Families] /\ pending' \in [Partitions -> SUBSET Receipts]
    BY <1>5, <1>11, <1>16
  <2> QED BY <1>11, <1>14, <1>15, <2>1, <2>2, <2>3 DEF IInv, TypeOK
<1>20. /\ rows'[p] = rows[p] \ i.targets /\ pending'[p] = pending[p] \ i.targets
       /\ Period \notin i.targets => reserved'[p] = reserved[p] - n
       /\ usage'[p] = IF i.usage = NoUsage THEN usage[p] ELSE usage[p] - n
  BY <1>5, <1>11, <1>16
<1>21. ASSUME NEW q \in Partitions PROVE RowInv(q)'
  <2>1. CASE q # p
    <3>1. /\ rows'[q] = rows[q] /\ pending'[q] = pending[q]
          /\ reserved'[q] = reserved[q] /\ usage'[q] = usage[q]
      BY <1>5, <1>11, <1>16, <2>1
    <3> QED BY <1>11, <3>1 DEF IInv, RowInv, Erased
  <2>2. CASE q = p
    <3>1. pending'[p] # {} => Period \in rows'[p]
      <4>1. CASE Period \in i.targets
        <5>1. n = Cardinality(pending[p])
          BY <1>2, <1>5, <1>7, <1>12, <4>1 DEF PageInv, RowInv
        <5>2. Cardinality(pending'[p]) = 0
          BY <1>9, <1>10, <1>20, <5>1
        <5>3. IsFiniteSet(pending'[p])
          BY <1>6, <1>20, FiniteReceipts
        <5> QED BY <5>2, <5>3, FS_EmptySet
      <4>2. CASE Period \notin i.targets
        BY <1>5, <1>20, <4>2 DEF RowInv
      <4> QED BY <4>1, <4>2
    <3>2. Period \in rows'[p] => reserved'[p] = Cardinality(pending'[p])
      BY <1>5, <1>9, <1>20 DEF RowInv
    <3>3. p \notin lapsed' /\ usage'[p] # NoUsage => usage'[p] = Cardinality(pending'[p])
      <4> SUFFICES ASSUME p \notin lapsed, usage'[p] # NoUsage
                   PROVE  usage'[p] = Cardinality(pending'[p])
        BY <1>11
      <4>1. CASE i.usage # NoUsage /\ usage[p] # NoUsage
        BY <1>5, <1>9, <1>20, <4>1 DEF RowInv
      <4>2. CASE i.usage # NoUsage /\ usage[p] = NoUsage
        <5>1. i.released = {}
          BY <1>12, <4>2
        <5> QED BY <1>10, <1>20, <4>2, <5>1 DEF NoUsage
      <4>3. CASE i.usage = NoUsage
        <5>1. i.released = {}
          BY <1>2, <1>3, <4>3 DEF PageInv
        <5>2. n = 0 /\ usage'[p] = usage[p]
          BY <1>10, <1>20, <4>3, <5>1
        <5> QED BY <1>5, <1>9, <1>10, <1>20, <5>2 DEF RowInv
      <4> QED BY <4>1, <4>2, <4>3
    <3>4. /\ p > inventory' => Erased(p)'
          /\ access'[p] = "absent" => rows'[p] \subseteq {Attempt}
          /\ pending'[p] \subseteq rows'[p]
      BY <1>5, <1>11, <1>20 DEF RowInv, Erased
    <3> QED BY <2>2, <3>1, <3>2, <3>3, <3>4 DEF RowInv
  <2> QED BY <2>1, <2>2
<1>22. Shrink
  BY <1>5, <1>11, <1>16 DEF IInv, TypeOK, Shrink, Partitions
<1>23. ErasedInv'
  BY <1>5, <1>11, <1>16 DEF IInv, ErasedInv, Erased
<1>24. JobInv(j)'
  BY <1>3, <1>4, <1>11, <1>15 DEF JobInv, Fenced
<1> QED BY <1>14, <1>15, <1>19, <1>21, <1>22, <1>23, <1>24 DEF Moved

\* ACCESS goes when its partition has been read empty.
LEMMA DeleteAccessStep ==
  ASSUME IInv, NEW w \in Workers, DeleteAccess(w)
  PROVE  \E j \in Jobs : Moved(w, j)
<1>1. PICK i : i = job[w]
  OBVIOUS
<1>2. i \in Jobs /\ JobInv(i) /\ i.phase = "access"
  BY <1>1 DEF IInv, TypeOK, DeleteAccess
<1>3. /\ i.partition \in 1 .. i.inventory /\ i.inventory <= inventory
      /\ rows[i.partition] = {} /\ ledger # "none"
  BY <1>2 DEF JobInv
<1>4. i.partition \in Partitions /\ inventory \in Nat
  BY <1>2, <1>3, BoundsAssumption DEF Jobs, IInv, TypeOK, Partitions
<1>5. /\ access' = [access EXCEPT ![i.partition] = "absent"]
      /\ UNCHANGED <<ledger, receipt, progress, inventory, rows, pending, reserved,
                     usage, lapsed, faulty>>
  BY <1>1 DEF DeleteAccess
<1>6. PICK j : j = AfterPartition(i)
  OBVIOUS
<1>7. job' = [job EXCEPT ![w] = j]
  BY <1>1, <1>6 DEF DeleteAccess, NextPartition, AfterPartition, Set
<1>8. j \in Jobs
  BY <1>2, <1>3, <1>6, AfterPartitionType
<1>9. TypeOK'
  BY <1>5, <1>7, <1>8 DEF IInv, TypeOK, AccessStates
<1>10. Shrink
  BY <1>4, <1>5 DEF IInv, TypeOK, Shrink
<1>11. ASSUME NEW q \in Partitions PROVE RowInv(q)'
  <2>1. access'[q] = IF q = i.partition THEN "absent" ELSE access[q]
    BY <1>5 DEF IInv, TypeOK
  <2> QED BY <1>3, <1>5, <2>1 DEF IInv, RowInv, Erased
<1>12. ErasedInv'
  BY <1>5 DEF IInv, TypeOK, ErasedInv, Erased
<1>13. JobInv(j)'
  BY <1>2, <1>6, <1>9, <1>10, AfterPartitionInv DEF Fenced, IInv
<1> QED BY <1>7, <1>8, <1>9, <1>10, <1>11, <1>12, <1>13 DEF Moved

\* The last queries.
LEMMA VerifyStep ==
  ASSUME IInv, NEW w \in Workers, Verify(w)
  PROVE  \E j \in Jobs : Moved(w, j)
<1>1. PICK i : i = job[w]
  OBVIOUS
<1>2. i \in Jobs /\ JobInv(i) /\ i.phase = "verify"
  BY <1>1 DEF IInv, TypeOK, Verify
<1>3. /\ i.partition \in 1 .. i.inventory /\ i.inventory <= inventory /\ ledger # "none"
      /\ \A q \in 1 .. i.inventory : access[q] # "live"
      /\ \A q \in 1 .. i.partition - 1 : Erased(q)
  BY <1>2 DEF JobInv, Fenced
<1>4. /\ i.inventory \in 0 .. MaxKeys /\ MaxKeys \in Nat /\ i.inventory \in Nat
      /\ i.partition \in Nat
  BY <1>2, BoundsAssumption DEF Jobs
<1>5. Erased(i.partition)
  BY <1>1 DEF Verify, Erased
<1>6. UNCHANGED <<ledger, receipt, progress, inventory, stored, lapsed, faulty>>
  BY DEF Verify
<1>7. \A q \in 1 .. i.partition : Erased(q)'
  <2>1. \A q \in 1 .. i.partition : Erased(q)
    BY <1>3, <1>4, <1>5
  <2> QED BY <1>6, <2>1 DEF Erased, stored
<1>8. CASE i.partition < i.inventory
  <2>1. PICK j : j = [i EXCEPT !.partition = i.partition + 1]
    OBVIOUS
  <2>2. i.partition + 1 \in 1 .. MaxKeys + 1 /\ i.partition + 1 \in 1 .. i.inventory
    BY <1>3, <1>4, <1>8
  <2>3. /\ j \in Jobs /\ j.phase = "verify" /\ j.inventory = i.inventory
        /\ j.partition = i.partition + 1
    BY <1>2, <2>1, <2>2 DEF Jobs
  <2>4. job' = [job EXCEPT ![w] = j]
    BY <1>1, <1>8, <2>1 DEF Verify, Set
  <2>5. \A q \in 1 .. j.partition - 1 : Erased(q)'
    BY <1>4, <1>7, <2>3
  <2>6. JobInv(j)'
    BY <1>3, <1>6, <2>2, <2>3, <2>5 DEF JobInv, Fenced, stored
  <2> QED BY <1>6, <2>3, <2>4, <2>6, ReadOnly DEF Moved
<1>9. CASE ~(i.partition < i.inventory)
  <2>1. PICK j : j = [i EXCEPT !.phase = "finish"]
    OBVIOUS
  <2>2. j \in Jobs /\ j.phase = "finish" /\ j.inventory = i.inventory
    BY <1>2, <2>1 DEF Jobs, Phases
  <2>3. job' = [job EXCEPT ![w] = j]
    BY <1>1, <1>9, <2>1 DEF Verify, Set
  <2>4. \A q \in 1 .. j.inventory : Erased(q)'
    BY <1>3, <1>4, <1>7, <1>9, <2>2
  <2>5. JobInv(j)'
    BY <1>3, <1>6, <2>2, <2>4 DEF JobInv, Fenced, stored
  <2> QED BY <1>6, <2>2, <2>3, <2>5, ReadOnly DEF Moved
<1> QED BY <1>8, <1>9

\* The receipt: the inventory it was verified under is the inventory it is
\* written under, so no partition is left out.
LEMMA CompleteStep ==
  ASSUME IInv, NEW w \in Workers, Complete(w)
  PROVE  Moved(w, Idle)
<1>1. /\ JobInv(job[w]) /\ job[w].phase = "finish" /\ job[w].inventory = inventory
      /\ ledger = "requested"
  BY DEF IInv, Complete, Guarded
<1>2. \A p \in Partitions : Erased(p)
  <2>1. \A p \in 1 .. inventory : Erased(p)
    BY <1>1 DEF JobInv
  <2>2. \A p \in Partitions : p > inventory => Erased(p)
    BY DEF IInv, RowInv
  <2> QED BY <2>1, <2>2, BoundsAssumption DEF IInv, TypeOK, Partitions
<1>3. /\ job' = [job EXCEPT ![w] = Idle] /\ receipt' = TRUE /\ progress' = NoProgress
      /\ UNCHANGED <<ledger, inventory, stored, lapsed, faulty>>
  BY DEF Complete, Stop, Set
<1>4. TypeOK'
  <2>1. receipt' \in BOOLEAN
    BY <1>3, Zenon
  <2>2. progress' \in 0 .. MaxKeys
    BY <1>3, BoundsAssumption DEF NoProgress
  <2> QED BY <1>3, <2>1, <2>2, IdleKnowsNothing DEF IInv, TypeOK, stored
<1>5. \A q \in Partitions : RowInv(q)'
  BY <1>3 DEF IInv, RowInv, Erased, stored
<1>6. ErasedInv'
  BY <1>1, <1>2, <1>3 DEF ErasedInv, Erased, stored
<1>7. Shrink
  BY <1>3 DEF IInv, TypeOK, Shrink, stored, Partitions
<1> QED BY <1>3, <1>4, <1>5, <1>6, <1>7, IdleKnowsNothing DEF Moved

-----------------------------------------------------------------------------
(* The theorems *)

\* An account without a row satisfies the invariant.
LEMMA InitInv == Init => IInv
<1> SUFFICES ASSUME Init PROVE IInv
  OBVIOUS
<1>1. TypeOK
  <2>1. receipt \in BOOLEAN /\ faulty \in BOOLEAN
    BY Zenon DEF Init
  <2>2. job \in [Workers -> Jobs]
    BY IdleKnowsNothing DEF Init
  <2> QED BY <2>1, <2>2, BoundsAssumption DEF Init, TypeOK, Partitions, AccessStates,
             NoProgress, NoUsage
<1>2. ASSUME NEW p \in Partitions PROVE RowInv(p)
  BY NoneLeft DEF Init, RowInv, Erased
<1>3. ASSUME NEW w \in Workers PROVE JobInv(job[w])
  BY IdleKnowsNothing DEF Init
<1>4. ErasedInv
  BY DEF Init, ErasedInv
<1> QED BY <1>1, <1>2, <1>3, <1>4 DEF IInv

\* Every step of a writer, of the worker and of the other parties keeps it.
LEMMA NextInv == IInv /\ [Next]_vars => IInv'
<1> SUFFICES ASSUME IInv, [Next]_vars PROVE IInv'
  OBVIOUS
<1>1. CASE Kept
  BY <1>1, JobsStable DEF Kept, IInv
<1>2. ASSUME NEW w \in Workers, NEW j \in Jobs, Moved(w, j) PROVE IInv'
  BY <1>2, OthersStable DEF Moved, IInv
<1>3. ASSUME NEW p \in Issued, Writer(p) PROVE Kept
  BY <1>3, CountAttemptStep, GrantStep, FundStep, AdmitStep, SettleStep, RecoverLeaseStep,
     ExpiryStep DEF Writer
<1>4. ASSUME NEW w \in Workers, Worker(w) \/ Crash(w) PROVE \E j \in Jobs : Moved(w, j)
  BY <1>4, StartStep, ReadAccessStep, FenceStep, ReadPageStep, CommitPageStep,
     DeleteAccessStep, VerifyStep, CompleteStep, StopStep, IdleKnowsNothing DEF Worker
<1>5. CASE UNCHANGED vars
  <2>1. TypeOK' /\ ErasedInv' /\ Shrink /\ UNCHANGED job
    BY <1>5 DEF IInv, TypeOK, ErasedInv, Erased, Shrink, vars, stored, Partitions
  <2>2. \A q \in Partitions : RowInv(q)'
    BY <1>5 DEF IInv, RowInv, Erased, vars, stored
  <2> QED BY <1>1, <2>1, <2>2 DEF Kept
<1>6. CASE Request \/ Finalize \/ Rotate \/ Calm
  BY <1>1, <1>6, PartiesStep
<1> QED BY <1>1, <1>2, <1>3, <1>4, <1>5, <1>6 DEF Next

\* The invariant holds throughout, under every interleaving of the writers, the
\* sweeps and any number of invocations of the deletion worker.
THEOREM Invariance == Spec => []IInv
BY InitInv, NextInv, PTL DEF Spec

\* Rows and jobs hold values the code writes; no counter goes below zero.
THEOREM TypeCorrect == Spec => []TypeOK
<1>1. IInv => TypeOK
  BY DEF IInv
<1> QED BY <1>1, Invariance, PTL

\* The V1_AUTHORITY receipt of delete_batch is true when it is written and
\* stays true: no partition of the account holds a row. delete_batch deletes
\* ACCESS last, so the sweeps that are fenced by it alone are fenced for as long
\* as the partition holds a receipt or a period.
THEOREM Erasure == Spec => []ErasureInOrder
<1>1. IInv => ReceiptMeansErased
  BY DEF IInv, ErasedInv, Erased, ReceiptMeansErased
<1>2. IInv => AccessOutlivesRows
  BY DEF IInv, RowInv, AccessOutlivesRows
<1>3. IInv => ErasureInOrder
  BY <1>1, <1>2 DEF ErasureInOrder
<1> QED BY <1>3, Invariance, PTL

\* _purchase_releases takes from the purchase's usage row exactly what the pages
\* it deletes still reserved.
THEOREM UsageExact == Spec => []UsageConserved
<1>1. IInv => UsageConserved
  BY DEF IInv, RowInv, UsageConserved
<1> QED BY <1>1, Invariance, PTL
=============================================================================
