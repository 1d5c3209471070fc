------------------------- MODULE AccountErasureProofs -------------------------
(***************************************************************************)
(* Proofs about AccountErasure for any number of invocations, components   *)
(* and rows.  What makes the progress rows safe without any condition on   *)
(* them is that every cursor ever read or written stays true: behind it    *)
(* there is nothing to erase, and nothing comes back.                      *)
(***************************************************************************)
EXTENDS AccountErasure, TLAPS

\* Nothing of the row is left to erase.
Clean(c, i) ==
  /\ row[c][i] # "content"
  /\ c = Outbox => i \notin event

\* What an invocation knows stays true.
JobInv(j) ==
  /\ j.phase # "idle" => command # None
  /\ j.phase \in {"query", "erase", "clean"} =>
       \A i \in Rows : i <= j.cursor => Clean(j.at, i)
  /\ j.phase \in {"query", "erase"} => Prerequisites(j.at)
  /\ j.phase = "erase" =>
       \A i \in Rows \ j.page : (j.more => i <= j.next) => Clean(j.at, i)
  /\ j.phase \in {"delete", "complete"} => Proven
  /\ j.phase = "complete" => ~identity

\* So does every progress row.
ProgressTrue ==
  \A c \in Paged : \A i \in Rows : i <= progress[c] => command # None /\ Clean(c, i)

\* The fence comes first, and the identity's end last.
Ordered ==
  /\ receipt # {} => command # None
  /\ ~identity => Proven
  /\ complete => ~identity

\* The PROFILE row is there when the deletion is requested.
ProfileRow ==
  /\ row[Profile][1] # "minimal"
  /\ command = None => row[Profile][1] = "content"

IInv ==
  /\ TypeOK
  /\ \A w \in Workers : JobInv(job[w])
  /\ ProgressTrue
  /\ ReceiptMeansErased
  /\ Ordered
  /\ ProfileRow
  /\ EventsAreLocated
  /\ ProfileGoesLast
  /\ AcceptedIsCommand

\* Where the rows can only lose content, and the ledger only gains receipts.
Shrinks ==
  /\ \A c \in Paged, i \in Rows : row'[c][i] = "content" => row[c][i] = "content"
  /\ event' \subseteq event
  /\ command # None => command' # None
  /\ receipt \subseteq receipt'
  /\ identity' => identity

-----------------------------------------------------------------------------

\* An invocation that has not started knows nothing.
LEMMA IdleFacts == Idle \in Jobs /\ JobInv(Idle) /\ JobInv(Idle)'
BY ErasureAssumption DEF Idle, Jobs, JobInv, Rows

\* Before the request the invariant holds of empty progress and receipts.
LEMMA InitIInv == Init => IInv
<1> SUFFICES ASSUME Init PROVE IInv
  OBVIOUS
<1>1. TypeOK
  <2>1. row \in [Paged -> [Rows -> Contents]]
    BY DEF Init, Untouched, Contents
  <2>2. progress \in [Paged -> 0 .. MaxRow]
    BY ErasureAssumption DEF Init, Untouched
  <2>3. job \in [Workers -> Jobs]
    BY IdleFacts DEF Init, Untouched
  <2> QED
    BY <2>1, <2>2, <2>3 DEF Init, Untouched, TypeOK
<1>2. \A w \in Workers : JobInv(job[w])
  BY IdleFacts DEF Init, Untouched
<1>3. ProgressTrue
  BY ErasureAssumption DEF Init, Untouched, ProgressTrue, Rows
<1>4. Profile \in Paged /\ 1 \in Rows
  BY ErasureAssumption DEF Paged, Rows
<1>5. ProfileRow
  BY <1>4 DEF Init, Untouched, ProfileRow
<1>6. ReceiptMeansErased /\ Ordered /\ EventsAreLocated /\ ProfileGoesLast /\ AcceptedIsCommand
  BY DEF Init, Untouched, ReceiptMeansErased, Ordered, EventsAreLocated, ProfileGoesLast, AcceptedIsCommand
<1> QED
  BY <1>1, <1>2, <1>3, <1>5, <1>6 DEF IInv

\* A job stays right while the stores shrink.
LEMMA JobStable ==
  ASSUME IInv, Shrinks, NEW j \in Jobs, JobInv(j)
  PROVE  JobInv(j)'
<1>1. j.at \in Paged
  BY DEF Jobs
<1>2. \A i \in Rows : Clean(j.at, i) => Clean(j.at, i)'
  BY <1>1 DEF Clean, Shrinks
<1>3. (Prerequisites(j.at) => Prerequisites(j.at)') /\ (Proven => Proven')
  BY DEF Prerequisites, Proven, Shrinks
<1>4. /\ j.phase # "idle" => command' # None
      /\ j.phase = "complete" => ~identity'
  BY DEF JobInv, Shrinks, IInv, TypeOK
<1> QED
  BY <1>2, <1>3, <1>4 DEF JobInv

\* So do the receipts and progress rows that were there.
LEMMA LedgerStable ==
  ASSUME IInv, Shrinks
  PROVE  /\ \A c \in Paged : \A i \in Rows : i <= progress[c] => command' # None /\ Clean(c, i)'
         /\ \A c \in receipt \cap Paged :
              (\A i \in Rows : row'[c][i] # "content") /\ (c = Outbox => event' = {})
         /\ receipt # {} => command' # None
<1>1. \A c \in Paged : \A i \in Rows : Clean(c, i) => Clean(c, i)'
  BY DEF Clean, Shrinks
<1> QED
  BY <1>1 DEF IInv, ProgressTrue, ReceiptMeansErased, Ordered, Shrinks

\* A step of one invocation that only moves that invocation.
LEMMA JobsStep ==
  ASSUME IInv, Shrinks, NEW w \in Workers, NEW k \in Jobs, Step(w, k), JobInv(k)'
  PROVE  job' \in [Workers -> Jobs] /\ (\A v \in Workers : JobInv(job[v]))'
<1>1. job' \in [Workers -> Jobs]
  BY DEF Step, IInv, TypeOK
<1>2. (\A v \in Workers : JobInv(job[v]))'
  <2> SUFFICES ASSUME NEW v \in Workers PROVE JobInv(job[v])'
    OBVIOUS
  <2>1. CASE v = w
    <3>1. job'[v] = k
      BY <2>1 DEF Step, IInv, TypeOK
    <3> QED
      BY <3>1 DEF JobInv
  <2>2. CASE v # w
    <3>1. job'[v] = job[v] /\ job[v] \in Jobs /\ JobInv(job[v])
      BY <2>2 DEF Step, IInv, TypeOK
    <3>2. PICK j \in Jobs : j = job[v]
      BY <3>1
    <3>3. JobInv(j)'
      BY <3>1, <3>2, JobStable
    <3> QED
      BY <3>1, <3>2, <3>3 DEF JobInv
  <2> QED
    BY <2>1, <2>2
<1> QED
  BY <1>1, <1>2

\* The next component, or the finalizer, starts without knowledge.
LEMMA ContinueFacts ==
  ASSUME IInv, Shrinks, NEW w \in Workers, Continue(w), job[w].phase # "idle"
  PROVE  job' \in [Workers -> Jobs] /\ (\A v \in Workers : JobInv(job[v]))'
<1> DEFINE next == After[job[w].at]
           k == IF next = Finalizer THEN [Idle EXCEPT !.phase = "prove"]
                ELSE [Idle EXCEPT !.phase = "look", !.at = next]
<1>1. next \in Paged \cup {Finalizer}
  BY ErasureAssumption DEF IInv, TypeOK, Jobs
<1>2. k \in Jobs /\ k.phase \in {"prove", "look"}
  BY <1>1, IdleFacts DEF Idle, Jobs
<1>3. command' # None
  BY DEF IInv, JobInv, Shrinks
<1>4. Step(w, k)
  BY DEF Continue
<1>5. PICK kk \in Jobs : kk = k
  BY <1>2
<1>6. Step(w, kk)
  BY <1>4, <1>5 DEF Step
<1>7. kk.phase \in {"prove", "look"}
  BY <1>2, <1>5
<1>8. JobInv(kk)'
  BY <1>3, <1>7 DEF JobInv
<1> HIDE DEF k
<1> QED
  BY <1>6, <1>8, JobsStep

-----------------------------------------------------------------------------
(* Steps that only move invocations *)

\* Nothing but the invocations' local state moves.
LEMMA QuietStep ==
  ASSUME IInv, UNCHANGED <<ledger, stores, identity, told>>, calm' \in BOOLEAN,
         job' \in [Workers -> Jobs], (\A v \in Workers : JobInv(job[v]))'
  PROVE  IInv'
<1> USE DEF ledger, stores
<1>1. TypeOK'
  BY DEF IInv, TypeOK
<1>2. ProgressTrue'
  BY DEF IInv, ProgressTrue, Clean
<1>3. (ReceiptMeansErased /\ Ordered /\ ProfileRow)'
  BY DEF IInv, ReceiptMeansErased, Ordered, Proven, ProfileRow
<1>4. (EventsAreLocated /\ ProfileGoesLast /\ AcceptedIsCommand)'
  BY DEF IInv, EventsAreLocated, ProfileGoesLast, AcceptedIsCommand
<1> QED
  BY <1>1, <1>2, <1>3, <1>4 DEF IInv

\* One invocation goes on with k, and nothing else moves.
LEMMA LocalStep ==
  ASSUME IInv, NEW w \in Workers, NEW k \in Jobs, Step(w, k), JobInv(k)',
         UNCHANGED <<ledger, stores, identity, told, calm>>
  PROVE  IInv'
<1>1. Shrinks
  BY DEF Shrinks, ledger, stores
<1>2. calm' \in BOOLEAN
  BY DEF IInv, TypeOK
<1> QED
  BY <1>1, <1>2, JobsStep, QuietStep

\* A job's invariant does not look at what stays.
LEMMA Unmoved ==
  ASSUME IInv, NEW j \in Jobs, JobInv(j), UNCHANGED <<ledger, stores, identity>>
  PROVE  JobInv(j)'
<1>1. Shrinks
  BY DEF Shrinks, ledger, stores
<1> QED
  BY <1>1, JobStable

\* Lifecycle.verify.
LEMMA BeginStep ==
  ASSUME IInv, NEW w \in Workers, Begin(w)
  PROVE  IInv'
<1>1. PICK k \in Jobs : k = [Idle EXCEPT !.phase = "look"]
  BY IdleFacts DEF Idle, Jobs
<1>2. JobInv(k)
  BY <1>1 DEF JobInv, Idle, Begin, Pending
<1>3. JobInv(k)'
  BY <1>2, Unmoved DEF Begin
<1>4. Step(w, k)
  BY <1>1 DEF Begin, Step
<1> QED
  BY <1>3, <1>4, LocalStep DEF Begin

\* An invocation that ends, by a refused condition or otherwise.
LEMMA EndStep ==
  ASSUME IInv, NEW w \in Workers, Refused(w) \/ Crash(w)
  PROVE  IInv'
<1>1. PICK k \in Jobs : k = Idle
  BY IdleFacts
<1>2. JobInv(k)'
  BY <1>1, IdleFacts
<1>3. Step(w, k)
  BY <1>1 DEF Refused, Crash, Step
<1> QED
  BY <1>2, <1>3, LocalStep DEF Refused, Crash

\* The progress row it reads is true, and then stays so.
LEMMA LookStep ==
  ASSUME IInv, NEW w \in Workers, Look(w)
  PROVE  IInv'
<1>1. PICK j \in Jobs : j = job[w]
  BY DEF IInv, TypeOK
<1>2. JobInv(j) /\ j.phase = "look" /\ j.at \in Paged
  BY <1>1 DEF IInv, Look, Jobs
<1>3. CASE Prerequisites(j.at)
  <2>1. PICK k \in Jobs : k = [j EXCEPT !.phase = "query", !.cursor = progress[j.at]]
    <3>1. progress[j.at] \in 0 .. MaxRow
      BY <1>2 DEF IInv, TypeOK
    <3> QED
      BY <3>1 DEF Jobs
  <2>2. k.phase = "query" /\ k.at = j.at /\ k.cursor = progress[j.at]
    BY <2>1 DEF Jobs
  <2>3. JobInv(k)
    BY <1>2, <1>3, <2>2 DEF JobInv, IInv, ProgressTrue
  <2>4. JobInv(k)'
    BY <2>3, Unmoved DEF Look
  <2>5. Step(w, k)
    BY <1>1, <1>3, <2>1 DEF Look, Step
  <2> QED
    BY <2>4, <2>5, LocalStep DEF Look
<1>4. CASE ~Prerequisites(j.at)
  <2>1. Continue(w) /\ Shrinks /\ calm' \in BOOLEAN
    BY <1>1, <1>4 DEF Look, Shrinks, ledger, stores, IInv, TypeOK
  <2>2. job[w].phase # "idle"
    BY <1>1, <1>2
  <2> QED
    BY <2>1, <2>2, ContinueFacts, QuietStep DEF Look
<1> QED
  BY <1>3, <1>4

\* Rows up to the end of the page are in it, or have nothing to erase.
LEMMA QueryStep ==
  ASSUME IInv, NEW w \in Workers, Query(w)
  PROVE  IInv'
<1>1. PICK j \in Jobs : j = job[w]
  BY DEF IInv, TypeOK
<1>2. JobInv(j) /\ j.phase = "query" /\ j.at \in Paged
  BY <1>1 DEF IInv, Query, Jobs
<1>3. PICK next \in j.cursor .. MaxRow, more \in BOOLEAN :
        LET page == {i \in Present(j.at) : j.cursor < i /\ i <= next} IN
        /\ IF more THEN j.cursor < next ELSE next = MaxRow
        /\ Step(w, [j EXCEPT !.phase = "erase", !.page = page, !.next = next, !.more = more])
  BY <1>1 DEF Query, StartAfter
<1>4. j.cursor \in 0 .. MaxRow /\ next \in 0 .. MaxRow
  BY ErasureAssumption DEF Jobs
<1>5. PICK page \in SUBSET Rows : page = {i \in Present(j.at) : j.cursor < i /\ i <= next}
  BY DEF Present
<1>6. PICK k \in Jobs :
        k = [j EXCEPT !.phase = "erase", !.page = page, !.next = next, !.more = more]
  BY <1>4 DEF Jobs
<1>7. /\ k.phase = "erase" /\ k.at = j.at /\ k.cursor = j.cursor
      /\ k.page = page /\ k.next = next /\ k.more = more
  BY <1>6 DEF Jobs
<1>8. \A i \in Rows \ page : (more => i <= next) => Clean(j.at, i)
  <2> SUFFICES ASSUME NEW i \in Rows \ page, more => i <= next PROVE Clean(j.at, i)
    OBVIOUS
  <2>1. i <= next /\ i \in Nat
    BY <1>3, ErasureAssumption DEF Rows
  <2>2. CASE i <= j.cursor
    BY <1>2, <2>2 DEF JobInv
  <2>3. CASE ~(i <= j.cursor)
    <3>1. row[j.at][i] = "absent"
      BY <1>4, <1>5, <2>1, <2>3 DEF Present
    <3> QED
      BY <3>1 DEF Clean, IInv, EventsAreLocated
  <2> QED
    BY <2>2, <2>3
<1>9. JobInv(k)
  BY <1>2, <1>7, <1>8 DEF JobInv
<1>10. JobInv(k)'
  BY <1>9, Unmoved DEF Query
<1>11. Step(w, k)
  BY <1>3, <1>5, <1>6 DEF Step
<1> QED
  BY <1>10, <1>11, LocalStep DEF Query

\* The proof has been checked.
LEMMA ProveStep ==
  ASSUME IInv, NEW w \in Workers, Prove(w)
  PROVE  IInv'
<1>1. PICK j \in Jobs : j = job[w]
  BY DEF IInv, TypeOK
<1>2. PICK k \in Jobs : k = [j EXCEPT !.phase = "delete"]
  BY DEF Jobs
<1>3. k.phase = "delete"
  BY <1>2 DEF Jobs
<1>4. JobInv(k)
  BY <1>3 DEF JobInv, Prove, Pending
<1>5. JobInv(k)'
  BY <1>4, Unmoved DEF Prove
<1>6. Step(w, k)
  BY <1>1, <1>2 DEF Prove, Step
<1> QED
  BY <1>5, <1>6, LocalStep DEF Prove
-----------------------------------------------------------------------------
(* Steps of the ledger and the finalizer *)

\* Only progress rows, receipts and the command's status move, and they stay true.
LEMMA LedgerStep ==
  ASSUME IInv, UNCHANGED <<inventory, command, stores, identity, told, calm>>,
         complete' \in BOOLEAN, complete' => ~identity,
         progress' \in [Paged -> 0 .. MaxRow], ProgressTrue',
         receipt \subseteq receipt', receipt' \subseteq Paged \cup External,
         receipt' # {} => command # None, ReceiptMeansErased',
         job' \in [Workers -> Jobs], (\A v \in Workers : JobInv(job[v]))'
  PROVE  IInv'
<1> USE DEF stores
<1>1. TypeOK'
  BY DEF IInv, TypeOK
<1>2. (Ordered /\ ProfileRow)'
  BY DEF IInv, Ordered, Proven, ProfileRow
<1>3. (EventsAreLocated /\ ProfileGoesLast /\ AcceptedIsCommand)'
  BY DEF IInv, EventsAreLocated, ProfileGoesLast, AcceptedIsCommand
<1> QED
  BY <1>1, <1>2, <1>3 DEF IInv

\* A progress row that is gone says nothing.
LEMMA ProgressGone ==
  ASSUME IInv, NEW c \in Paged, progress' = [progress EXCEPT ![c] = 0],
         UNCHANGED <<command, stores>>
  PROVE  progress' \in [Paged -> 0 .. MaxRow] /\ ProgressTrue'
<1>1. progress' \in [Paged -> 0 .. MaxRow]
  BY ErasureAssumption DEF IInv, TypeOK
<1>2. ASSUME NEW d \in Paged, NEW i \in Rows, i <= progress'[d]
      PROVE  command # None /\ Clean(d, i)
  <2>1. i \in Nat /\ i > 0
    BY ErasureAssumption DEF Rows
  <2>2. d # c
    BY <1>2, <2>1 DEF IInv, TypeOK
  <2>3. progress'[d] = progress[d]
    BY <2>2 DEF IInv, TypeOK
  <2> QED
    BY <1>2, <2>3 DEF IInv, ProgressTrue
<1> QED
  BY <1>1, <1>2 DEF ProgressTrue, Clean, stores

\* The progress row of a component with a receipt is dropped.
LEMMA DropStep ==
  ASSUME IInv, NEW w \in Workers, AlreadyComplete(w) \/ RemoveProgress(w)
  PROVE  IInv'
<1>1. PICK c \in Paged : c = job[w].at
  BY DEF IInv, TypeOK, Jobs
<1>2. progress' = [progress EXCEPT ![c] = 0] /\ Continue(w) /\ job[w].phase # "idle"
  BY <1>1 DEF AlreadyComplete, RemoveProgress
<1>3. UNCHANGED <<inventory, command, complete, receipt, stores, identity, told, calm>>
  BY DEF AlreadyComplete, RemoveProgress
<1>4. progress' \in [Paged -> 0 .. MaxRow] /\ ProgressTrue'
  BY <1>2, <1>3, ProgressGone
<1>5. Shrinks
  BY <1>3 DEF Shrinks, stores
<1>6. job' \in [Workers -> Jobs] /\ (\A v \in Workers : JobInv(job[v]))'
  BY <1>2, <1>5, ContinueFacts
<1>7. /\ complete' \in BOOLEAN /\ (complete' => ~identity)
      /\ receipt \subseteq receipt' /\ receipt' \subseteq Paged \cup External
      /\ receipt' # {} => command # None
  BY <1>3 DEF IInv, TypeOK, Ordered
<1>8. ReceiptMeansErased'
  BY <1>3 DEF IInv, ReceiptMeansErased, stores
<1> QED
  BY <1>3, <1>4, <1>6, <1>7, <1>8, LedgerStep

\* The cursor behind an erased page is true, whatever it replaces.
LEMMA PutProgressStep ==
  ASSUME IInv, NEW w \in Workers, PutProgress(w)
  PROVE  IInv'
<1>1. PICK j \in Jobs : j = job[w]
  BY DEF IInv, TypeOK
<1>2. JobInv(j) /\ j.phase = "erase" /\ j.page = {} /\ j.more /\ j.at \in Paged
  BY <1>1 DEF IInv, PutProgress, PageErased, Jobs
<1>3. UNCHANGED <<inventory, command, complete, receipt, stores, identity, told, calm>>
  BY DEF PutProgress
<1>4. progress' = [progress EXCEPT ![j.at] = j.next]
  BY <1>1 DEF PutProgress
<1>5. command # None /\ \A i \in Rows : i <= j.next => Clean(j.at, i)
  BY <1>2 DEF JobInv
<1>6. progress' \in [Paged -> 0 .. MaxRow]
  BY <1>4 DEF IInv, TypeOK, Jobs
<1>7. ASSUME NEW d \in Paged, NEW i \in Rows, i <= progress'[d]
      PROVE  command # None /\ Clean(d, i)
  <2>1. CASE d = j.at
    <3>1. progress'[d] = j.next
      BY <1>4, <2>1 DEF IInv, TypeOK
    <3> QED
      BY <1>5, <1>7, <2>1, <3>1
  <2>2. CASE d # j.at
    <3>1. progress'[d] = progress[d]
      BY <1>4, <2>2 DEF IInv, TypeOK
    <3> QED
      BY <1>7, <3>1 DEF IInv, ProgressTrue
  <2> QED
    BY <2>1, <2>2
<1>8. ProgressTrue'
  BY <1>3, <1>7 DEF ProgressTrue, Clean, stores
<1>9. Shrinks /\ Continue(w) /\ job[w].phase # "idle"
  BY <1>1, <1>2, <1>3 DEF PutProgress, Shrinks, stores
<1>10. job' \in [Workers -> Jobs] /\ (\A v \in Workers : JobInv(job[v]))'
  BY <1>9, ContinueFacts
<1>11. /\ complete' \in BOOLEAN /\ (complete' => ~identity)
       /\ receipt \subseteq receipt' /\ receipt' \subseteq Paged \cup External
       /\ receipt' # {} => command # None
  BY <1>3 DEF IInv, TypeOK, Ordered
<1>12. ReceiptMeansErased'
  BY <1>3 DEF IInv, ReceiptMeansErased, stores
<1> QED
  BY <1>3, <1>6, <1>8, <1>10, <1>11, <1>12, LedgerStep

\* Behind the last erased page there is nothing to erase.
LEMMA PutReceiptStep ==
  ASSUME IInv, NEW w \in Workers, PutReceipt(w)
  PROVE  IInv'
<1>1. PICK j \in Jobs : j = job[w]
  BY DEF IInv, TypeOK
<1>2. JobInv(j) /\ j.phase = "erase" /\ j.page = {} /\ ~j.more /\ j.at \in Paged
  BY <1>1 DEF IInv, PutReceipt, PageErased, Jobs
<1>3. UNCHANGED <<inventory, command, complete, progress, stores, identity, told, calm>>
  BY DEF PutReceipt
<1>4. receipt' = receipt \cup {j.at}
  BY <1>1 DEF PutReceipt
<1>5. command # None /\ \A i \in Rows : Clean(j.at, i)
  BY <1>2 DEF JobInv
<1>6. /\ receipt \subseteq receipt' /\ receipt' \subseteq Paged \cup External
      /\ complete' \in BOOLEAN /\ (complete' => ~identity)
      /\ receipt' # {} => command # None
  BY <1>2, <1>3, <1>4, <1>5 DEF IInv, TypeOK, Ordered
<1>7. ReceiptMeansErased'
  <2> SUFFICES ASSUME NEW c \in receipt' \cap Paged
               PROVE  (\A i \in Rows : row[c][i] # "content") /\ (c = Outbox => event = {})
    BY <1>3 DEF ReceiptMeansErased, stores
  <2>1. CASE c = j.at
    BY <1>5, <2>1 DEF Clean, IInv, TypeOK
  <2>2. CASE c # j.at
    BY <1>4, <2>2 DEF IInv, ReceiptMeansErased
  <2> QED
    BY <2>1, <2>2
<1>8. Shrinks
  BY <1>3, <1>6 DEF Shrinks, stores
<1>9. job' \in [Workers -> Jobs] /\ (\A v \in Workers : JobInv(job[v]))'
  <2>1. CASE j.cursor = 0
    BY <1>1, <1>2, <1>8, <2>1, ContinueFacts DEF PutReceipt
  <2>2. CASE j.cursor # 0
    <3>1. PICK k \in Jobs : k = [j EXCEPT !.phase = "clean"]
      BY DEF Jobs
    <3>2. k.phase = "clean" /\ k.at = j.at
      BY <3>1 DEF Jobs
    <3>3. JobInv(k)
      BY <1>5, <3>2 DEF JobInv
    <3>4. JobInv(k)'
      BY <1>8, <3>3, JobStable
    <3>5. Step(w, k)
      BY <1>1, <2>2, <3>1 DEF PutReceipt, Step
    <3> QED
      BY <1>8, <3>4, <3>5, JobsStep
  <2> QED
    BY <2>1, <2>2
<1>10. progress' \in [Paged -> 0 .. MaxRow] /\ ProgressTrue'
  BY <1>3 DEF IInv, TypeOK, ProgressTrue, Clean, stores
<1> QED
  BY <1>3, <1>6, <1>7, <1>9, <1>10, LedgerStep

\* A worker elsewhere leaves its receipt.
LEMMA ExternalReceiptStep ==
  ASSUME IInv, NEW c \in External, ExternalReceipt(c)
  PROVE  IInv'
<1>1. UNCHANGED <<inventory, command, complete, progress, stores, identity, job, told, calm>>
  BY DEF ExternalReceipt
<1>2. receipt' = receipt \cup {c} /\ command # None
  BY DEF ExternalReceipt, Pending
<1>3. Shrinks
  BY <1>1, <1>2 DEF Shrinks, stores
<1>4. (\A v \in Workers : JobInv(job[v]))'
  <2> SUFFICES ASSUME NEW v \in Workers PROVE JobInv(job[v])'
    OBVIOUS
  <2>1. PICK j \in Jobs : j = job[v]
    BY DEF IInv, TypeOK
  <2>2. JobInv(j)'
    BY <1>3, <2>1, JobStable DEF IInv
  <2> QED
    BY <1>1, <2>1, <2>2 DEF JobInv
<1>5. c \notin Paged
  BY ErasureAssumption
<1>6. ReceiptMeansErased'
  BY <1>1, <1>2, <1>5 DEF IInv, ReceiptMeansErased, stores
<1>7. progress' \in [Paged -> 0 .. MaxRow] /\ ProgressTrue'
  BY <1>1 DEF IInv, TypeOK, ProgressTrue, Clean, stores
<1>8. /\ receipt \subseteq receipt' /\ receipt' \subseteq Paged \cup External
      /\ complete' \in BOOLEAN /\ (complete' => ~identity)
      /\ receipt' # {} => command # None
      /\ job' \in [Workers -> Jobs]
  BY <1>1, <1>2 DEF IInv, TypeOK, Ordered
<1> QED
  BY <1>1, <1>4, <1>6, <1>7, <1>8, LedgerStep

\* The identity goes under the proof.
LEMMA DeleteIdentityStep ==
  ASSUME IInv, NEW w \in Workers, DeleteIdentity(w)
  PROVE  IInv'
<1> USE DEF ledger, stores
<1>1. PICK j \in Jobs : j = job[w]
  BY DEF IInv, TypeOK
<1>2. JobInv(j) /\ j.phase = "delete"
  BY <1>1 DEF IInv, DeleteIdentity
<1>3. Proven /\ command # None
  BY <1>2 DEF JobInv
<1>4. UNCHANGED <<ledger, stores, told, calm>> /\ identity' = FALSE
  BY DEF DeleteIdentity
<1>5. Shrinks
  BY <1>4 DEF Shrinks
<1>6. PICK k \in Jobs : k = [j EXCEPT !.phase = "complete"]
  BY DEF Jobs
<1>7. k.phase = "complete"
  BY <1>6 DEF Jobs
<1>8. JobInv(k)'
  BY <1>3, <1>4, <1>7 DEF JobInv, Proven
<1>9. Step(w, k)
  BY <1>1, <1>6 DEF DeleteIdentity, Step
<1>10. job' \in [Workers -> Jobs] /\ (\A v \in Workers : JobInv(job[v]))'
  BY <1>5, <1>8, <1>9, JobsStep
<1>11. TypeOK'
  BY <1>4, <1>10 DEF IInv, TypeOK
<1>12. ProgressTrue'
  BY <1>4 DEF IInv, ProgressTrue, Clean
<1>13. (ReceiptMeansErased /\ Ordered /\ ProfileRow)'
  BY <1>3, <1>4 DEF IInv, ReceiptMeansErased, Ordered, Proven, ProfileRow
<1>14. (EventsAreLocated /\ ProfileGoesLast /\ AcceptedIsCommand)'
  BY <1>4 DEF IInv, EventsAreLocated, ProfileGoesLast, AcceptedIsCommand
<1> QED
  BY <1>10, <1>11, <1>12, <1>13, <1>14 DEF IInv

\* Only an invocation that saw the identity go completes the command.
LEMMA CompleteStep ==
  ASSUME IInv, NEW w \in Workers, Complete(w)
  PROVE  IInv'
<1>1. UNCHANGED <<inventory, command, progress, receipt, stores, identity, told, calm>>
  BY DEF Complete
<1>2. complete' = TRUE /\ ~identity
  BY DEF Complete, IInv, JobInv
<1>3. Shrinks
  BY <1>1 DEF Shrinks, stores
<1>4. PICK k \in Jobs : k = Idle
  BY IdleFacts
<1>5. JobInv(k)' /\ Step(w, k)
  BY <1>4, IdleFacts DEF Complete, Step
<1>6. job' \in [Workers -> Jobs] /\ (\A v \in Workers : JobInv(job[v]))'
  BY <1>3, <1>5, JobsStep
<1>7. progress' \in [Paged -> 0 .. MaxRow] /\ ProgressTrue' /\ ReceiptMeansErased'
  BY <1>1 DEF IInv, TypeOK, ProgressTrue, Clean, stores, ReceiptMeansErased
<1>8. /\ receipt \subseteq receipt' /\ receipt' \subseteq Paged \cup External
      /\ complete' \in BOOLEAN /\ (complete' => ~identity)
      /\ receipt' # {} => command # None
  BY <1>1, <1>2 DEF IInv, TypeOK, Ordered
<1> QED
  BY <1>1, <1>6, <1>7, <1>8, LedgerStep
-----------------------------------------------------------------------------
(* Steps of the rows *)

\* Jobs stay right where only rows and events go.
LEMMA OthersStable ==
  ASSUME IInv, Shrinks, UNCHANGED job
  PROVE  job' \in [Workers -> Jobs] /\ (\A v \in Workers : JobInv(job[v]))'
<1>1. (\A v \in Workers : JobInv(job[v]))'
  <2> SUFFICES ASSUME NEW v \in Workers PROVE JobInv(job[v])'
    OBVIOUS
  <2>1. PICK j \in Jobs : j = job[v]
    BY DEF IInv, TypeOK
  <2>2. JobInv(j)'
    BY <2>1, JobStable DEF IInv
  <2> QED
    BY <2>1, <2>2 DEF JobInv
<1> QED
  BY <1>1 DEF IInv, TypeOK

\* The first row of the page is clean, and leaves the page.
LEMMA ErasedFacts ==
  ASSUME IInv, Shrinks, NEW w \in Workers, NEW i, i = Min(job[w].page),
         job[w].phase = "erase", Erased(w), i \in Rows => Clean(job[w].at, i)',
         UNCHANGED ledger
  PROVE  job' \in [Workers -> Jobs] /\ (\A v \in Workers : JobInv(job[v]))'
<1>1. PICK j \in Jobs : j = job[w]
  BY DEF IInv, TypeOK
<1>2. JobInv(j) /\ j.phase = "erase"
  BY <1>1 DEF IInv
<1>3. JobInv(j)'
  BY <1>2, JobStable
<1>4. i \in Rows => Clean(j.at, i)'
  <2>1. job'[w].at = j.at
    BY <1>1 DEF Erased, Step, IInv, TypeOK, Jobs
  <2> QED
    BY <2>1 DEF Clean
<1>5. PICK k \in Jobs : k = [j EXCEPT !.page = @ \ {i}]
  BY DEF Jobs
<1>6. /\ k.phase = "erase" /\ k.at = j.at /\ k.cursor = j.cursor
      /\ k.page = j.page \ {i} /\ k.next = j.next /\ k.more = j.more
  BY <1>2, <1>5 DEF Jobs
<1>7. JobInv(k)'
  BY <1>2, <1>3, <1>4, <1>6 DEF JobInv
<1>8. Step(w, k)
  BY <1>1, <1>5 DEF Erased, Step
<1> QED
  BY <1>7, <1>8, JobsStep

\* Rows and events go; the ledger stays.
LEMMA StoresStep ==
  ASSUME IInv, Shrinks, UNCHANGED <<ledger, identity, told, calm>>,
         row' \in [Paged -> [Rows -> Contents]],
         EventsAreLocated', ProfileRow', ProfileGoesLast',
         job' \in [Workers -> Jobs], (\A v \in Workers : JobInv(job[v]))'
  PROVE  IInv'
<1> USE DEF ledger
<1>1. TypeOK'
  BY DEF IInv, TypeOK, Shrinks
<1>2. (ProgressTrue /\ ReceiptMeansErased)'
  BY LedgerStable DEF ProgressTrue, ReceiptMeansErased
<1>3. (Ordered /\ AcceptedIsCommand)'
  BY DEF IInv, Ordered, Proven, AcceptedIsCommand
<1> QED
  BY <1>1, <1>2, <1>3 DEF IInv

\* One row changes, to something that is not content.
LEMMA RowStep ==
  ASSUME IInv, NEW c \in Paged, NEW i, NEW s \in {"absent", "minimal"},
         row' = [row EXCEPT ![c][i] = s], event' \subseteq event,
         UNCHANGED <<ledger, identity>>
  PROVE  Shrinks /\ row' \in [Paged -> [Rows -> Contents]]
<1>1. row' \in [Paged -> [Rows -> Contents]]
  BY DEF IInv, TypeOK, Contents
<1>2. \A d \in Paged, k \in Rows : row'[d][k] = "content" => row[d][k] = "content"
  BY DEF IInv, TypeOK
<1> QED
  BY <1>1, <1>2 DEF Shrinks, ledger

\* A row of a component whose rows nothing else depends on.
LEMMA EraseRecordStep ==
  ASSUME IInv, NEW w \in Workers, NEW c \in Records, EraseRecord(w, c)
  PROVE  IInv'
<1>1. PICK i : i = Min(job[w].page)
  OBVIOUS
<1>2. PICK s \in {"absent", "minimal"} : row' = [row EXCEPT ![c][i] = s]
  BY <1>1 DEF EraseRecord
<1>3. UNCHANGED <<ledger, event, identity, told, calm>>
  BY DEF EraseRecord
<1>4. c \in Paged /\ c # Outbox /\ c # Profile
  BY ErasureAssumption DEF Paged
<1>5. Shrinks /\ row' \in [Paged -> [Rows -> Contents]]
  BY <1>2, <1>3, <1>4, RowStep
<1>6. job[w].phase = "erase" /\ job[w].at = c /\ Erased(w)
  BY DEF EraseRecord, Erasing
<1>7. job'[w].at = c
  BY <1>6 DEF Erased, Step, IInv, TypeOK, Jobs
<1>8. i \in Rows => Clean(job[w].at, i)'
  BY <1>2, <1>4, <1>7 DEF Clean, IInv, TypeOK
<1>9. job' \in [Workers -> Jobs] /\ (\A v \in Workers : JobInv(job[v]))'
  BY <1>1, <1>3, <1>5, <1>6, <1>8, ErasedFacts
<1>10. row'[Outbox] = row[Outbox] /\ row'[Profile] = row[Profile]
  BY <1>2, <1>4 DEF IInv, TypeOK, Paged
<1>11. (EventsAreLocated /\ ProfileRow /\ ProfileGoesLast)'
  BY <1>3, <1>10 DEF IInv, EventsAreLocated, ProfileRow, ProfileGoesLast, ledger
<1> QED
  BY <1>3, <1>5, <1>9, <1>11, StoresStep

\* The event goes before its locator.
LEMMA EraseEventStep ==
  ASSUME IInv, NEW w \in Workers, EraseEvent(w)
  PROVE  IInv'
<1>1. UNCHANGED <<ledger, row, identity, job, told, calm>> /\ event' \subseteq event
  BY DEF EraseEvent
<1>2. Shrinks /\ row' \in [Paged -> [Rows -> Contents]]
  BY <1>1 DEF Shrinks, ledger, IInv, TypeOK
<1>3. job' \in [Workers -> Jobs] /\ (\A v \in Workers : JobInv(job[v]))'
  BY <1>1, <1>2, OthersStable
<1>4. (EventsAreLocated /\ ProfileRow /\ ProfileGoesLast)'
  BY <1>1 DEF IInv, EventsAreLocated, ProfileRow, ProfileGoesLast, ledger
<1> QED
  BY <1>1, <1>2, <1>3, <1>4, StoresStep

\* A locator goes behind its event, or with it.
LEMMA EraseLocatorStep ==
  ASSUME IInv, NEW w \in Workers, EraseLocator(w) \/ ErasePair(w)
  PROVE  IInv'
<1>1. PICK i : i = Min(job[w].page)
  OBVIOUS
<1>2. row' = [row EXCEPT ![Outbox][i] = "absent"]
  BY <1>1 DEF EraseLocator, ErasePair
<1>3. event' \subseteq event /\ i \notin event'
  BY <1>1 DEF EraseLocator, ErasePair, EventGone
<1>4. UNCHANGED <<ledger, identity, told, calm>>
  BY DEF EraseLocator, ErasePair
<1>5. Outbox \in Paged /\ Outbox # Profile
  BY ErasureAssumption DEF Paged
<1>6. Shrinks /\ row' \in [Paged -> [Rows -> Contents]]
  BY <1>2, <1>3, <1>4, <1>5, RowStep
<1>7. job[w].phase = "erase" /\ job[w].at = Outbox /\ Erased(w)
  BY DEF EraseLocator, ErasePair, Erasing
<1>8. job'[w].at = Outbox
  BY <1>7 DEF Erased, Step, IInv, TypeOK, Jobs
<1>9. i \in Rows => Clean(job[w].at, i)'
  BY <1>2, <1>3, <1>5, <1>8 DEF Clean, IInv, TypeOK
<1>10. job' \in [Workers -> Jobs] /\ (\A v \in Workers : JobInv(job[v]))'
  BY <1>1, <1>4, <1>6, <1>7, <1>9, ErasedFacts
<1>11. EventsAreLocated'
  BY <1>2, <1>3, <1>5 DEF IInv, TypeOK, EventsAreLocated
<1>12. row'[Profile] = row[Profile]
  BY <1>2, <1>5 DEF IInv, TypeOK, Paged
<1>13. (ProfileRow /\ ProfileGoesLast)'
  BY <1>4, <1>12 DEF IInv, ProfileRow, ProfileGoesLast, ledger
<1> QED
  BY <1>4, <1>6, <1>10, <1>11, <1>13, StoresStep

\* The profile goes behind the receipts of the others.
LEMMA EraseProfileStep ==
  ASSUME IInv, NEW w \in Workers, EraseProfile(w)
  PROVE  IInv'
<1>1. PICK i : i = Min(job[w].page)
  OBVIOUS
<1>2. row' = [row EXCEPT ![Profile][i] = IF @ = "minimal" THEN "minimal" ELSE "absent"]
  BY <1>1 DEF EraseProfile
<1>3. PICK s \in {"absent", "minimal"} :
        /\ s = IF row[Profile][i] = "minimal" THEN "minimal" ELSE "absent"
        /\ row' = [row EXCEPT ![Profile][i] = s]
  BY <1>2
<1>4. UNCHANGED <<ledger, event, identity, told, calm>>
  BY DEF EraseProfile
<1>5. Profile \in Paged /\ Outbox \in Paged /\ Outbox # Profile /\ 1 \in Rows
  BY ErasureAssumption DEF Paged, Rows
<1>6. Shrinks /\ row' \in [Paged -> [Rows -> Contents]]
  BY <1>3, <1>4, <1>5, RowStep
<1>7. job[w].phase = "erase" /\ job[w].at = Profile /\ Erased(w)
  BY DEF EraseProfile, Erasing
<1>8. job'[w].at = Profile
  BY <1>7 DEF Erased, Step, IInv, TypeOK, Jobs
<1>9. i \in Rows => Clean(job[w].at, i)'
  BY <1>3, <1>5, <1>8 DEF Clean, IInv, TypeOK
<1>10. job' \in [Workers -> Jobs] /\ (\A v \in Workers : JobInv(job[v]))'
  BY <1>1, <1>4, <1>6, <1>7, <1>9, ErasedFacts
<1>11. row'[Outbox] = row[Outbox]
  BY <1>3, <1>5 DEF IInv, TypeOK
<1>12. EventsAreLocated'
  BY <1>4, <1>11 DEF IInv, EventsAreLocated
<1>13. JobInv(job[w])
  BY DEF IInv
<1>14. command # None /\ Prerequisites(Profile)
  BY <1>7, <1>13 DEF JobInv
<1>15. row'[Profile][1] # "minimal"
  BY <1>3, <1>5 DEF IInv, TypeOK, ProfileRow
<1>16. (ProfileRow /\ ProfileGoesLast)'
  BY <1>4, <1>14, <1>15 DEF Prerequisites, ProfileRow, ProfileGoesLast, ledger
<1> QED
  BY <1>4, <1>6, <1>10, <1>12, <1>16, StoresStep

\* Time to live takes minimal rows, and the PROFILE row is never one.
LEMMA ExpireStep ==
  ASSUME IInv, NEW c \in Paged, NEW i \in Rows, Expire(c, i)
  PROVE  IInv'
<1>1. row' = [row EXCEPT ![c][i] = "absent"] /\ c # Outbox /\ row[c][i] = "minimal"
  BY DEF Expire
<1>2. UNCHANGED <<ledger, event, identity, job, told, calm>>
  BY DEF Expire
<1>3. Shrinks /\ row' \in [Paged -> [Rows -> Contents]]
  BY <1>1, <1>2, RowStep
<1>4. job' \in [Workers -> Jobs] /\ (\A v \in Workers : JobInv(job[v]))'
  BY <1>2, <1>3, OthersStable
<1>5. Outbox \in Paged /\ Profile \in Paged /\ 1 \in Rows
  BY ErasureAssumption DEF Paged, Rows
<1>6. row'[Outbox] = row[Outbox] /\ row'[Profile][1] = row[Profile][1]
  BY <1>1, <1>5 DEF IInv, TypeOK, ProfileRow
<1>7. (EventsAreLocated /\ ProfileRow /\ ProfileGoesLast)'
  BY <1>2, <1>6 DEF IInv, EventsAreLocated, ProfileRow, ProfileGoesLast, ledger
<1> QED
  BY <1>2, <1>3, <1>4, <1>7, StoresStep
-----------------------------------------------------------------------------
(* The account's writers and its request *)

\* Before the request every invocation is idle, and no cursor or receipt there
\* to become wrong.
LEMMA WriteStep ==
  ASSUME IInv, NEW c \in Paged, NEW i \in Rows, Write(c, i)
  PROVE  IInv'
<1> USE DEF ledger
<1>1. UNCHANGED <<ledger, identity, job, told, calm>> /\ command = None
  BY DEF Write, Fenced
<1>2. PICK s \in Contents : row' = [row EXCEPT ![c][i] = s] /\ s # "absent"
  BY DEF Write, Contents
<1>3. /\ event' = IF c = Outbox THEN event \cup {i} ELSE event
      /\ row[c][i] = "absent"
  BY DEF Write
<1>4. row' \in [Paged -> [Rows -> Contents]] /\ event' \subseteq Rows
  BY <1>2, <1>3 DEF IInv, TypeOK
<1>5. TypeOK'
  BY <1>1, <1>4 DEF IInv, TypeOK
<1>6. (\A v \in Workers : JobInv(job[v]))'
  <2>1. \A v \in Workers : job[v].phase = "idle"
    BY <1>1 DEF IInv, JobInv
  <2> QED
    BY <1>1, <2>1 DEF JobInv
<1>7. (ProgressTrue /\ ReceiptMeansErased /\ Ordered)'
  BY <1>1 DEF IInv, ProgressTrue, ReceiptMeansErased, Ordered, Proven
<1>8. Profile \in Paged /\ Outbox \in Paged /\ 1 \in Rows
  BY ErasureAssumption DEF Paged, Rows
<1>9. row'[Profile][1] = "content"
  BY <1>1, <1>2, <1>3, <1>8 DEF IInv, TypeOK, ProfileRow
<1>10. (ProfileRow /\ ProfileGoesLast)'
  BY <1>1, <1>9 DEF ProfileRow, ProfileGoesLast
<1>11. EventsAreLocated'
  <2>1. CASE c = Outbox
    BY <1>2, <1>3, <2>1, <1>8 DEF IInv, TypeOK, EventsAreLocated
  <2>2. CASE c # Outbox
    BY <1>2, <1>3, <2>2, <1>8 DEF IInv, TypeOK, EventsAreLocated
  <2> QED
    BY <2>1, <2>2
<1>12. AcceptedIsCommand'
  BY <1>1 DEF IInv, AcceptedIsCommand
<1> QED
  BY <1>5, <1>6, <1>7, <1>10, <1>11, <1>12 DEF IInv

\* The command takes the request's operationId; nobody was told of another.
LEMMA RequestStep ==
  ASSUME IInv, NEW o \in Operations, Request(o)
  PROVE  IInv'
<1> USE DEF stores
<1>1. UNCHANGED <<inventory, complete, progress, receipt, stores, identity, job, calm>>
  BY DEF Request
<1>2. /\ command = None /\ command' = o /\ o # None
      /\ told' \subseteq told \cup {o} /\ row[Profile][1] = "content"
  BY ErasureAssumption DEF Request
<1>3. Shrinks
  BY <1>1, <1>2 DEF Shrinks
<1>4. job' \in [Workers -> Jobs] /\ (\A v \in Workers : JobInv(job[v]))'
  BY <1>1, <1>3, OthersStable
<1>5. told = {}
  BY <1>2, ErasureAssumption DEF IInv, TypeOK, AcceptedIsCommand
<1>6. TypeOK' /\ AcceptedIsCommand'
  BY <1>1, <1>2, <1>4, <1>5 DEF IInv, TypeOK, AcceptedIsCommand
<1>7. (ProgressTrue /\ ReceiptMeansErased)'
  BY <1>1, <1>3, LedgerStable DEF ProgressTrue, ReceiptMeansErased
<1>8. (Ordered /\ ProfileRow /\ ProfileGoesLast /\ EventsAreLocated)'
  BY <1>1, <1>2 DEF IInv, Ordered, Proven, ProfileRow, ProfileGoesLast, EventsAreLocated
<1> QED
  BY <1>4, <1>6, <1>7, <1>8 DEF IInv

\* Steps that only answer, revise the inventory, or end the time of failures.
LEMMA AroundStep ==
  ASSUME IInv, UNCHANGED <<command, complete, progress, receipt, stores, identity, job>>,
         inventory' \in BOOLEAN, calm' \in BOOLEAN, told' \subseteq told \cup ({command} \ {None})
  PROVE  IInv'
<1> USE DEF stores
<1>1. Shrinks
  BY DEF Shrinks
<1>2. job' \in [Workers -> Jobs] /\ (\A v \in Workers : JobInv(job[v]))'
  BY <1>1, OthersStable
<1>3. TypeOK' /\ AcceptedIsCommand'
  BY <1>2 DEF IInv, TypeOK, AcceptedIsCommand
<1>4. (ProgressTrue /\ ReceiptMeansErased)'
  BY <1>1, LedgerStable DEF ProgressTrue, ReceiptMeansErased
<1>5. (Ordered /\ ProfileRow /\ ProfileGoesLast /\ EventsAreLocated)'
  BY DEF IInv, Ordered, Proven, ProfileRow, ProfileGoesLast, EventsAreLocated
<1> QED
  BY <1>2, <1>3, <1>4, <1>5 DEF IInv

\* A replay's client is answered under the operationId of the command.
LEMMA ReplayStep ==
  ASSUME IInv, NEW o \in Operations, Replay(o)
  PROVE  IInv'
<1>1. o = command /\ o # None
  BY ErasureAssumption DEF Replay, Replays
<1>2. /\ inventory' \in BOOLEAN /\ calm' \in BOOLEAN
      /\ told' \subseteq told \cup ({command} \ {None})
  BY <1>1 DEF Replay, IInv, TypeOK, ledger
<1> QED
  BY <1>2, AroundStep DEF Replay, ledger

\* A new inventory.
LEMMA ReviseStep == IInv /\ Revise => IInv'
<1> SUFFICES ASSUME IInv, Revise PROVE IInv'
  OBVIOUS
<1>1. inventory' \in BOOLEAN /\ calm' \in BOOLEAN /\ told' \subseteq told \cup ({command} \ {None})
  BY DEF Revise, IInv, TypeOK
<1> QED
  BY <1>1, AroundStep DEF Revise

\* The end of failures.
LEMMA CalmStep == IInv /\ Calm => IInv'
<1> SUFFICES ASSUME IInv, Calm PROVE IInv'
  OBVIOUS
<1>1. inventory' \in BOOLEAN /\ calm' \in BOOLEAN /\ told' \subseteq told \cup ({command} \ {None})
  BY DEF Calm, IInv, TypeOK, ledger
<1> QED
  BY <1>1, AroundStep DEF Calm, ledger

-----------------------------------------------------------------------------
(* The theorems *)

\* Every step of one invocation.
LEMMA InvocationStep ==
  ASSUME IInv, NEW w \in Workers, Begin(w) \/ Invocation(w) \/ Crash(w)
  PROVE  IInv'
<1>1. CASE Begin(w)
  BY <1>1, BeginStep
<1>2. CASE AlreadyComplete(w) \/ RemoveProgress(w)
  BY <1>2, DropStep
<1>3. CASE Look(w)
  BY <1>3, LookStep
<1>4. CASE Query(w)
  BY <1>4, QueryStep
<1>5. CASE Erase(w)
  <2>1. CASE \E c \in Records : EraseRecord(w, c)
    BY <2>1, EraseRecordStep
  <2>2. CASE EraseEvent(w)
    BY <2>2, EraseEventStep
  <2>3. CASE EraseLocator(w) \/ ErasePair(w)
    BY <2>3, EraseLocatorStep
  <2>4. CASE EraseProfile(w)
    BY <2>4, EraseProfileStep
  <2> QED
    BY <1>5, <2>1, <2>2, <2>3, <2>4 DEF Erase
<1>6. CASE PutProgress(w)
  BY <1>6, PutProgressStep
<1>7. CASE PutReceipt(w)
  BY <1>7, PutReceiptStep
<1>8. CASE Prove(w)
  BY <1>8, ProveStep
<1>9. CASE DeleteIdentity(w)
  BY <1>9, DeleteIdentityStep
<1>10. CASE Complete(w)
  BY <1>10, CompleteStep
<1>11. CASE Refused(w) \/ Crash(w)
  BY <1>11, EndStep
<1> QED
  BY <1>1, <1>2, <1>3, <1>4, <1>5, <1>6, <1>7, <1>8, <1>9, <1>10, <1>11 DEF Invocation

\* Every step preserves the invariant.
LEMMA NextIInv == IInv /\ [Next]_vars => IInv'
<1> SUFFICES ASSUME IInv, [Next]_vars PROVE IInv'
  OBVIOUS
<1>1. CASE \E w \in Workers : Begin(w) \/ Invocation(w) \/ Crash(w)
  BY <1>1, InvocationStep
<1>2. CASE \E c \in Paged, i \in Rows : Write(c, i) \/ Expire(c, i)
  BY <1>2, WriteStep, ExpireStep
<1>3. CASE \E o \in Operations : Request(o) \/ Replay(o)
  BY <1>3, RequestStep, ReplayStep
<1>4. CASE \E c \in External : ExternalReceipt(c)
  BY <1>4, ExternalReceiptStep
<1>5. CASE Revise \/ Calm
  BY <1>5, ReviseStep, CalmStep
<1>6. CASE UNCHANGED vars
  <2>1. inventory' \in BOOLEAN /\ calm' \in BOOLEAN /\ told' \subseteq told \cup ({command} \ {None})
    BY <1>6 DEF vars, ledger, IInv, TypeOK
  <2> QED
    BY <1>6, <2>1, AroundStep DEF vars, ledger
<1> QED
  BY <1>1, <1>2, <1>3, <1>4, <1>5, <1>6 DEF Next

\* The inductive invariant holds in every behaviour.
THEOREM Invariance == Spec => []IInv
BY InitIInv, NextIInv, PTL DEF Spec

\* Every row and every invocation's state has its type.
THEOREM TypeCorrect == Spec => []TypeOK
BY Invariance, PTL DEF IInv

\* A receipt means that the component's content is gone, however many invocations
\* put progress rows over each other's; and each outbox event keeps the locator
\* that leads to it.
THEOREM ReceiptsTrue == Spec => []NothingOverlooked
<1>1. IInv => NothingOverlooked
  BY DEF IInv, NothingOverlooked
<1> QED
  BY <1>1, Invariance, PTL

\* The profile is only erased under the receipts of all the other components, and
\* the identity is deleted behind all content and before the command completes.
THEOREM InOrder == Spec => []ErasedInOrder
<1>1. IInv => IdentityGoesLast
  BY DEF IInv, IdentityGoesLast, Ordered, Proven, ReceiptMeansErased
<1>2. IInv => ProfileGoesLast
  BY DEF IInv
<1>3. IInv => ErasedInOrder
  BY <1>1, <1>2 DEF ErasedInOrder
<1> QED
  BY <1>3, Invariance, PTL

\* A client that was told its request is accepted has its operationId recorded.
THEOREM Accepted == Spec => []AcceptedIsCommand
BY Invariance, PTL DEF IInv

\* No invocation brings back a row that is gone.
THEOREM NothingReturns == Spec => GoneStaysGone
<1> DEFINE Gone == \A c \in Paged, i \in Rows : row[c][i] = "absent" => row'[c][i] = "absent"
<1>1. ASSUME IInv, [Next]_vars, command # None PROVE Gone
  <2> USE DEF ledger, stores
  <2>1. CASE UNCHANGED row
    BY <2>1
  <2>2. ASSUME NEW w \in Workers, NEW c \in Records, EraseRecord(w, c) PROVE Gone
    <3>1. PICK i : i = Min(job[w].page)
      OBVIOUS
    <3>2. CASE row' = [row EXCEPT ![c][i] = "absent"]
      BY <3>2 DEF IInv, TypeOK
    <3>3. CASE row[c][i] # "absent" /\ row' = [row EXCEPT ![c][i] = "minimal"]
      BY <3>3 DEF IInv, TypeOK
    <3> QED
      BY <2>2, <3>1, <3>2, <3>3 DEF EraseRecord, MayMinimise
  <2>3. ASSUME NEW w \in Workers, EraseLocator(w) \/ ErasePair(w) PROVE Gone
    <3>1. PICK i : i = Min(job[w].page)
      OBVIOUS
    <3>2. row' = [row EXCEPT ![Outbox][i] = "absent"]
      BY <2>3, <3>1 DEF EraseLocator, ErasePair
    <3> QED
      BY <3>2 DEF IInv, TypeOK
  <2>4. ASSUME NEW w \in Workers, EraseProfile(w) PROVE Gone
    <3>1. PICK i : i = Min(job[w].page)
      OBVIOUS
    <3>2. row' = [row EXCEPT ![Profile][i] = IF @ = "minimal" THEN "minimal" ELSE "absent"]
      BY <2>4, <3>1 DEF EraseProfile
    <3> QED
      BY <3>2 DEF IInv, TypeOK
  <2>5. ASSUME NEW c \in Paged, NEW i \in Rows, Expire(c, i) PROVE Gone
    BY <2>5 DEF Expire, IInv, TypeOK
  <2>6. \A c \in Paged, i \in Rows : ~Write(c, i)
    BY <1>1 DEF Write, Fenced
  <2>7. \/ UNCHANGED row
        \/ \E w \in Workers : \/ \E c \in Records : EraseRecord(w, c)
                              \/ EraseLocator(w) \/ ErasePair(w) \/ EraseProfile(w)
        \/ \E c \in Paged, i \in Rows : Expire(c, i)
    <3>1. ASSUME NEW w \in Workers, Begin(w) \/ Invocation(w) \/ Crash(w)
          PROVE  \/ UNCHANGED row
                 \/ \E c \in Records : EraseRecord(w, c)
                 \/ EraseLocator(w) \/ ErasePair(w) \/ EraseProfile(w)
      BY <3>1 DEF Invocation, Erase, Begin, Crash, AlreadyComplete, Look, Query, EraseEvent,
        PutProgress, PutReceipt, RemoveProgress, Prove, DeleteIdentity, Complete, Refused
    <3>2. CASE \/ \E o \in Operations : Request(o) \/ Replay(o)
               \/ \E c \in External : ExternalReceipt(c)
               \/ Revise \/ Calm \/ UNCHANGED vars
      BY <3>2 DEF Request, Replay, ExternalReceipt, Revise, Calm, vars
    <3> QED
      BY <1>1, <2>6, <3>1, <3>2 DEF Next
  <2> QED
    BY <2>1, <2>2, <2>3, <2>4, <2>5, <2>7
<1>2. IInv /\ [Next]_vars => [command # None => Gone]_vars
  BY <1>1
<1> QED
  BY <1>2, Invariance, PTL DEF Spec, GoneStaysGone
===============================================================================
