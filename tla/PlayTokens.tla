----------------------------- MODULE PlayTokens -----------------------------
(***************************************************************************)
(* Google Play proofs kept for reconciliation (shared_play_lifecycle): the *)
(* encrypted token of a purchase, put by a handoff or a notification with  *)
(* the grant it proves; the scheduled worker, which walks the due ones     *)
(* along an index and a checkpoint and asks the store about one a run; the *)
(* acknowledgment; the prepared binding of an account; and their erasure.  *)
(***************************************************************************)
EXTENDS Naturals, Sequences, FiniteSets, FiniteSetsExt

CONSTANTS
  Tokens,    \* 1..n: the order of their keys
  Accounts,
  OwnerOf,   \* the account of each token
  Held,      \* tokens bought, prepared and handed over at the start, the store not told
  Workers,   \* invocations in flight
  Kinds,     \* what runs: "sweep", "notify", "handoff", "prepare", "erase"
  PageRows,  \* pointers a query of the worker returns
  Delays,    \* backoff of the first, second ... retry; the last one stays
  Hour,      \* next look at a verified token
  Retention, \* RETENTION_SECONDS
  Life,      \* how long a checkpoint's cursor holds
  MaxEnd, MaxTime, \* bounds of a purchase's end and of the clock
  None

VARIABLES
  now,
  account,    \* "ACTIVE" or "DELETING"
  rows,       \* the token table: a proof of each token, or None
  index,      \* GSI1: the due time it shows of a token, or None
  checkpoint, \* the cursor's row (0: none); left: ghost, what its pass has still to see
  binding,    \* rows of an account's prepared binding
  receipt,    \* the receipt of PLAY_TOKENS
  store,      \* the store: end of what was bought (0: nothing), and whether acknowledged
  grant,      \* the end of the period granted, or None
  job,
  waiting     \* ghost: attempts given to others since a run last came to a token that was
              \* due, or failed to put a row back, or the checkpoint lapsed

vars == <<now, account, rows, index, checkpoint, binding, receipt, store, grant, job, waiting>>

-----------------------------------------------------------------------------
(* Rows and jobs *)

Least(x, y) == IF x < y THEN x ELSE y
Expires(row) == row.end + Retention

\* The index's sort key, due time first.
Key(due, t) == due * (Cardinality(Tokens) + 1) + t
TokenAt(key) == key % (Cardinality(Tokens) + 1)

NoCheckpoint == [cursor |-> 0, expires |-> 0, left |-> {}]

\* same, current, fresh: is the row, the grant, the checkpoint still as this job read it?
\* (The conditions of its transactions, on revisions no two writes share.)
Idle == [kind |-> None, phase |-> "idle", token |-> None, proof |-> None, same |-> FALSE,
         current |-> FALSE, fresh |-> FALSE, cursor |-> 0, page |-> {}, more |-> FALSE,
         tried |-> FALSE, left |-> {}]

\* A run whose checkpoint another has written moves it no more, and ends no pass.
Stale(j) == [j EXCEPT !.fresh = FALSE, !.left = {}]

\* A write to t's row: what others read of it is stale, and no pass owes it a look.
RowWritten(w, t, mine) ==
  /\ job' = [v \in Workers |->
       LET j == IF v = w THEN mine ELSE job[v] IN
         [j EXCEPT !.same = @ /\ (v = w \/ j.token # t), !.left = @ \ {t}]]
  /\ checkpoint' = [checkpoint EXCEPT !.left = @ \ {t}]
  /\ waiting' = [waiting EXCEPT ![t] = 0]

Put(t, row) == rows' = [rows EXCEPT ![t] = row]

\* prepare_put.
Proof(proof) ==
  [end |-> proof.end, due |-> Least(now + Hour, proof.end + Retention), attempts |-> 0,
   acknowledged |-> proof.acknowledged]

\* retry_action: never beyond what the row may be kept for.
Retried(row) ==
  LET attempt == Least(Len(Delays), row.attempts + 1) IN
    [row EXCEPT !.attempts = attempt, !.due = Least(now + Delays[attempt], Expires(row))]

\* What a sweep does when it is done with a row; any other job is over.
Done(w) ==
  IF job[w].kind = "sweep"
  THEN [job[w] EXCEPT !.phase = "item", !.token = None, !.proof = None, !.same = FALSE, !.current = FALSE]
  ELSE Idle

\* An error: the worker still reschedules the row.
Failed(w) == IF job[w].kind = "sweep" THEN [job[w] EXCEPT !.phase = "retry"] ELSE Idle

TypeOK ==
  /\ now \in 0..MaxTime
  /\ account \in [Accounts -> {"ACTIVE", "DELETING"}]
  /\ \A t \in Tokens : rows[t] = None
       \/ rows[t] \in [end : 1..MaxEnd, due : 0..MaxEnd + Retention, attempts : 0..Len(Delays),
                       acknowledged : BOOLEAN]
  /\ \A t \in Tokens : index[t] \in 0..MaxEnd + Retention \cup {None}
  /\ binding \in [Accounts -> SUBSET {"reverse", "locator"}]
  /\ receipt \in [Accounts -> BOOLEAN]
  /\ store \in [Tokens -> [end : 0..MaxEnd, acknowledged : BOOLEAN]]
  /\ \A w \in Workers : DOMAIN job[w] = DOMAIN Idle

Init ==
  /\ now = 0 /\ account = [a \in Accounts |-> "ACTIVE"]
  /\ store = [t \in Tokens |-> [end |-> IF t \in Held THEN 1 ELSE 0, acknowledged |-> FALSE]]
  /\ grant = [t \in Tokens |-> IF t \in Held THEN 1 ELSE None]
  /\ rows = [t \in Tokens |-> IF t \in Held THEN Proof(store[t]) ELSE None]
  /\ index = [t \in Tokens |-> None]
  /\ checkpoint = NoCheckpoint
  /\ binding = [a \in Accounts |-> IF \E t \in Held : OwnerOf[t] = a THEN {"reverse", "locator"} ELSE {}]
  /\ receipt = [a \in Accounts |-> FALSE]
  /\ job = [w \in Workers |-> Idle] /\ waiting = [t \in Tokens |-> 0]

Active(t) == account[OwnerOf[t]] = "ACTIVE"
Step(w, next) == job' = [job EXCEPT ![w] = next]

-----------------------------------------------------------------------------
(* A proof and what it grants *)

\* Handoff.handle and Reconciler.refresh up to the store. An unknown purchase needs the
\* binding its account prepared when nobody hands it over.
Begin(w, kind, t) ==
  /\ job[w] = Idle /\ kind \in Kinds \cap {"handoff", "notify"} /\ Active(t)
  /\ kind = "notify" /\ grant[t] = None => binding[OwnerOf[t]] = {"reverse", "locator"}
  /\ Step(w, [Idle EXCEPT !.kind = kind, !.phase = "verify", !.token = t, !.current = TRUE])
  /\ UNCHANGED <<now, account, rows, index, checkpoint, binding, receipt, store, grant, waiting>>

\* The store's answer: only an active purchase begins a grant, and a handoff grants nothing else.
Verify(w) ==
  LET j == job[w]
      proof == store[j.token] IN
    /\ j.phase = "verify" /\ proof.end > 0
    /\ j.kind = "handoff" \/ grant[j.token] = None => now < proof.end
    /\ Step(w, [j EXCEPT !.phase = "commit", !.proof = proof])
    /\ UNCHANGED <<now, account, rows, index, checkpoint, binding, receipt, store, grant, waiting>>

\* What the retained row becomes: nothing is kept past its time, nor is an end made later.
Kept(proof) == IF now < proof.end + Retention THEN Proof(proof) ELSE None

\* The grant and the proof in one transaction, if the authority is as it was read.
Commit(w) ==
  LET j == job[w]
      t == j.token IN
    /\ j.phase = "commit" /\ Active(t) /\ j.current
    /\ j.kind = "notify" /\ grant[t] = None => binding[OwnerOf[t]] = {"reverse", "locator"}
    /\ Put(t, Kept(j.proof))
    /\ grant' = [grant EXCEPT ![t] = j.proof.end]
    /\ job' = [v \in Workers |->
         LET i == IF v = w THEN [j EXCEPT !.phase = "acknowledge"] ELSE job[v] IN
           [i EXCEPT !.current = @ /\ i.token # t,
                     !.same = @ /\ i.token # t, !.left = @ \ {t}]]
    /\ checkpoint' = [checkpoint EXCEPT !.left = @ \ {t}]
    /\ waiting' = [waiting EXCEPT ![t] = 0]
    /\ UNCHANGED <<now, account, index, binding, receipt, store>>

\* acknowledge_current: the period the proof is of must be the one granted, and its proof
\* kept; then the store is told, unless it says it knows. A handoff leaves the row to the
\* worker.
Tell(w) ==
  LET j == job[w]
      t == j.token IN
    /\ j.phase = "acknowledge" /\ Active(t)
    /\ now < j.proof.end /\ grant[t] = j.proof.end
    /\ j.kind # "handoff" => rows[t] # None /\ now < Expires(rows[t])
    /\ IF j.proof.acknowledged THEN UNCHANGED store
       ELSE store' = [store EXCEPT ![t].acknowledged = TRUE]
    /\ Step(w, IF j.kind = "handoff" THEN Idle ELSE [j EXCEPT !.phase = "note", !.same = TRUE])
    /\ UNCHANGED <<now, account, rows, index, checkpoint, binding, receipt, grant, waiting>>

\* The row as acknowledge_current read it.
SameRow(w) == job[w].same /\ rows[job[w].token] # None

Note(w) ==
  LET j == job[w]
      t == j.token IN
    /\ j.phase = "note" /\ Active(t) /\ SameRow(w)
    /\ Put(t, [Proof([end |-> j.proof.end, acknowledged |-> TRUE]) EXCEPT !.end = rows[t].end])
    /\ RowWritten(w, t, Done(w))
    /\ UNCHANGED <<now, account, index, binding, receipt, store, grant>>

\* A condition that fails, an error, a provider that does not answer, an unresolved proof.
Stop(w) ==
  /\ job[w].phase \in {"verify", "commit", "acknowledge", "note"}
  /\ Step(w, Failed(w))
  /\ UNCHANGED <<now, account, rows, index, checkpoint, binding, receipt, store, grant, waiting>>

\* The invocation dies.
Crash(w) ==
  /\ job[w] # Idle /\ Step(w, Idle)
  /\ UNCHANGED <<now, account, rows, index, checkpoint, binding, receipt, store, grant, waiting>>

-----------------------------------------------------------------------------
(* The scheduled worker *)

Due(t) == index[t] # None /\ index[t] <= now
Shown(t) == rows[t] # None /\ index[t] = rows[t].due

\* Checkpoint: a cursor that lapsed begins the pass again.
SweepStart(w) ==
  LET on == now < checkpoint.expires /\ checkpoint.cursor # 0 IN
    /\ job[w] = Idle /\ "sweep" \in Kinds
    /\ Step(w, [Idle EXCEPT !.kind = "sweep", !.phase = "item", !.more = TRUE, !.fresh = TRUE,
                            !.cursor = IF on THEN checkpoint.cursor ELSE 0,
                            !.left = IF on THEN checkpoint.left ELSE {t \in Tokens : Due(t) /\ Shown(t)}])
    /\ waiting' = IF on \/ checkpoint.cursor = 0 THEN waiting ELSE [t \in Tokens |-> 0]
    /\ UNCHANGED <<now, account, rows, index, checkpoint, binding, receipt, store, grant>>

Query(w) ==
  LET j == job[w]
      after == {Key(index[t], t) : t \in {u \in Tokens : Due(u) /\ Key(index[u], u) > j.cursor}}
      page == {k \in after : Cardinality({l \in after : l <= k}) <= PageRows} IN
    /\ j.phase = "item" /\ j.page = {} /\ j.more
    /\ Step(w, [j EXCEPT !.page = page, !.more = Cardinality(page) = PageRows,
                         !.cursor = IF Cardinality(page) = PageRows THEN Max(page) ELSE 0])
    /\ UNCHANGED <<now, account, rows, index, checkpoint, binding, receipt, store, grant, waiting>>

\* A pointer whose row is gone.
Skip(w) ==
  LET j == job[w] IN
    /\ j.phase = "item" /\ j.page # {} /\ rows[TokenAt(Min(j.page))] = None
    /\ Step(w, [j EXCEPT !.page = @ \ {Min(@)}])
    /\ UNCHANGED <<now, account, rows, index, checkpoint, binding, receipt, store, grant, waiting>>

\* Where the checkpoint is advanced to: the row about to be worked on.
\* Mutant: the end of the page.
PageEnd(w) == Max(job[w].page)

Position(w) == Min(job[w].page)

\* A run that can still ask the provider has come to t.
Reached(t, j) == waiting' = IF j.tried THEN waiting ELSE [waiting EXCEPT ![t] = 0]

\* The row read, and advance, before the work, if the row is there and no other run wrote
\* the checkpoint. Its answer may be lost; then, as when it fails, the row is put back and
\* the run goes on.
Advance(w, answered) ==
  LET j == job[w]
      t == TokenAt(Min(j.page))
      left == j.left \ {t} IN
    /\ j.phase = "item" /\ j.page # {} /\ rows[t] # None /\ j.fresh
    /\ checkpoint' = [cursor |-> Position(w), expires |-> now + Life, left |-> left]
    /\ job' = [v \in Workers |->
         IF v # w THEN Stale(job[v])
         ELSE [j EXCEPT !.phase = IF answered THEN "act" ELSE "retry", !.fresh = answered,
                        !.token = t, !.same = TRUE, !.page = @ \ {Min(@)},
                        !.left = IF answered THEN left ELSE {}]]
    /\ Reached(t, j)
    /\ UNCHANGED <<now, account, rows, index, binding, receipt, store, grant>>

AdvanceFails(w) ==
  LET j == job[w]
      t == TokenAt(Min(j.page)) IN
    /\ j.phase = "item" /\ j.page # {} /\ rows[t] # None
    /\ Step(w, [j EXCEPT !.phase = "retry", !.token = t, !.same = TRUE,
                         !.page = @ \ {Min(@)}, !.left = @ \ {t}])
    /\ Reached(t, j)
    /\ UNCHANGED <<now, account, rows, index, checkpoint, binding, receipt, store, grant>>

\* A row that is not due any more, or whose turn must wait: the provider is asked about one
\* row a run, and only with time left for it.
Pass(w) ==
  LET j == job[w] IN
    /\ j.phase = "act"
    /\ j.same /\ rows[j.token].due <= now => now < Expires(rows[j.token])
    /\ Step(w, [Done(w) EXCEPT !.tried = @ \/ ~j.same \/ rows[j.token].due <= now])
    /\ UNCHANGED <<now, account, rows, index, checkpoint, binding, receipt, store, grant, waiting>>

\* A row past its retention.
Expire(w) ==
  LET j == job[w]
      t == j.token IN
    /\ j.phase = "act" /\ j.same /\ rows[t].due <= now /\ now >= Expires(rows[t])
    /\ Put(t, None) /\ RowWritten(w, t, Done(w))
    /\ UNCHANGED <<now, account, index, binding, receipt, store, grant>>

\* load_owned, and on to the store.
Attempt(w) ==
  LET j == job[w]
      t == j.token IN
    /\ j.phase = "act" /\ j.same /\ ~j.tried /\ rows[t].due <= now /\ now < Expires(rows[t])
    /\ Step(w, [j EXCEPT !.tried = TRUE, !.phase = IF Active(t) THEN "verify" ELSE "retry",
                         !.current = TRUE])
    /\ waiting' = [u \in Tokens |->
         IF u = t THEN 0
         ELSE IF Due(u) /\ Shown(u) /\ now < Expires(rows[u]) /\ Active(u) THEN waiting[u] + 1
         ELSE waiting[u]]
    /\ UNCHANGED <<now, account, rows, index, checkpoint, binding, receipt, store, grant>>

\* _retry: of the row that was read; one that has changed is left.
Retry(w) ==
  LET j == job[w]
      t == j.token IN
    /\ j.phase = "retry"
    /\ \/ /\ SameRow(w)
          /\ Put(t, IF now >= Expires(rows[t]) THEN None ELSE Retried(rows[t]))
          /\ RowWritten(w, t, Done(w))
       \/ /\ Step(w, Done(w)) /\ UNCHANGED <<rows, checkpoint>>
          /\ waiting' = [u \in Tokens |-> 0]
    /\ UNCHANGED <<now, account, index, binding, receipt, store, grant>>

\* The end of the pass, if no other run wrote the checkpoint.
Finish(w) ==
  LET j == job[w] IN
    /\ j.phase = "item" /\ j.page = {} /\ ~j.more /\ j.fresh
    /\ checkpoint' = [NoCheckpoint EXCEPT !.expires = now + Life]
    /\ job' = [v \in Workers |-> IF v = w THEN Idle ELSE Stale(job[v])]
    /\ UNCHANGED <<now, account, rows, index, binding, receipt, store, grant, waiting>>

-----------------------------------------------------------------------------
(* Preparation and erasure *)

\* Bindings.prepare: both rows, or those there are.
Prepare(a) ==
  /\ "prepare" \in Kinds /\ account[a] = "ACTIVE" /\ binding[a] = {}
  /\ binding' = [binding EXCEPT ![a] = {"reverse", "locator"}]
  /\ UNCHANGED <<now, account, rows, index, checkpoint, receipt, store, grant, job, waiting>>

Delete(a) ==
  /\ "erase" \in Kinds /\ account[a] = "ACTIVE"
  /\ account' = [account EXCEPT ![a] = "DELETING"]
  /\ UNCHANGED <<now, rows, index, checkpoint, binding, receipt, store, grant, job, waiting>>

\* delete_batch: the first rows of the partition, the locator before the tokens, and with it
\* the binding's other row.
EraseToken(t) ==
  /\ account[OwnerOf[t]] = "DELETING" /\ ~receipt[OwnerOf[t]]
  /\ binding[OwnerOf[t]] = {} /\ rows[t] # None
  /\ \A u \in Tokens : OwnerOf[u] = OwnerOf[t] /\ u < t => rows[u] = None
  /\ Put(t, None)
  /\ job' = [v \in Workers |-> [job[v] EXCEPT !.same = @ /\ job[v].token # t, !.left = @ \ {t}]]
  /\ checkpoint' = [checkpoint EXCEPT !.left = @ \ {t}]
  /\ waiting' = [waiting EXCEPT ![t] = 0]
  /\ UNCHANGED <<now, account, index, binding, receipt, store, grant>>

EraseBinding(a) ==
  /\ account[a] = "DELETING" /\ ~receipt[a] /\ binding[a] # {}
  /\ binding' = [binding EXCEPT ![a] = {}]
  /\ UNCHANGED <<now, account, rows, index, checkpoint, receipt, store, grant, job, waiting>>

Names(a, cursor) == cursor # 0 /\ OwnerOf[TokenAt(cursor)] = a

\* Nothing left, found on a pass of its own; the checkpoint is read.
EraseLook(w, a) ==
  /\ job[w] = Idle /\ account[a] = "DELETING" /\ ~receipt[a] /\ binding[a] = {}
  /\ \A t \in Tokens : OwnerOf[t] = a => rows[t] = None
  /\ Step(w, [Idle EXCEPT !.kind = "erase", !.phase = "erase", !.token = a, !.fresh = TRUE,
                          !.cursor = IF Names(a, checkpoint.cursor) THEN checkpoint.cursor ELSE 0])
  /\ UNCHANGED <<now, account, rows, index, checkpoint, binding, receipt, store, grant, waiting>>

\* The checkpoint, if it names this account and is as it was read, and the receipt.
EraseEnd(w) ==
  LET j == job[w] IN
    /\ j.phase = "erase" /\ ~receipt[j.token]
    /\ j.cursor # 0 => j.fresh
    /\ receipt' = [receipt EXCEPT ![j.token] = TRUE]
    /\ IF j.cursor = 0
       THEN Step(w, Idle) /\ UNCHANGED <<checkpoint, waiting>>
       ELSE /\ checkpoint' = NoCheckpoint
            /\ job' = [v \in Workers |-> IF v = w THEN Idle ELSE Stale(job[v])]
            /\ waiting' = [t \in Tokens |-> 0]
    /\ UNCHANGED <<now, account, rows, index, binding, store, grant>>

-----------------------------------------------------------------------------
(* Around it *)

\* A purchase, its renewal; what was acknowledged stays so.
Buy(t) ==
  /\ now < MaxEnd /\ store[t].end <= now
  /\ store' = [store EXCEPT ![t].end = now + 1]
  /\ UNCHANGED <<now, account, rows, index, checkpoint, binding, receipt, grant, job, waiting>>

Propagate(t) ==
  LET due == IF rows[t] = None THEN None ELSE rows[t].due IN
    /\ index[t] # due /\ index' = [index EXCEPT ![t] = due]
    /\ UNCHANGED <<now, account, rows, checkpoint, binding, receipt, store, grant, job, waiting>>

Tick ==
  /\ now < MaxTime /\ now' = now + 1
  /\ UNCHANGED <<account, rows, index, checkpoint, binding, receipt, store, grant, job, waiting>>

Next ==
  \/ \E w \in Workers, t \in Tokens, k \in {"handoff", "notify"} : Begin(w, k, t)
  \/ \E w \in Workers :
       \/ Verify(w) \/ Commit(w) \/ Tell(w) \/ Note(w) \/ Stop(w) \/ Crash(w)
       \/ SweepStart(w) \/ Query(w) \/ Skip(w) \/ AdvanceFails(w)
       \/ \E answered \in BOOLEAN : Advance(w, answered)
       \/ Pass(w) \/ Expire(w) \/ Attempt(w) \/ Retry(w) \/ Finish(w)
       \/ EraseEnd(w)
       \/ \E a \in Accounts : EraseLook(w, a)
  \/ \E a \in Accounts : Prepare(a) \/ Delete(a) \/ EraseBinding(a)
  \/ \E t \in Tokens : EraseToken(t) \/ Buy(t) \/ Propagate(t)
  \/ Tick

-----------------------------------------------------------------------------
(* Properties *)

\* A proof is kept for as long as the latest grant lets it be, whatever retries,
\* acknowledgments and late verifications wrote it since, and is looked at within that time.
KeptAsGranted ==
  \A t \in Tokens : rows[t] # None => rows[t].end = grant[t] /\ rows[t].due <= Expires(rows[t])

\* A purchase granted and not acknowledged has its proof kept and scheduled, for as long as
\* it may be and its account is there: a handoff that dies before the store is told, or
\* a lost answer, is made good.
NeverForgotten ==
  \A t \in Tokens :
    /\ store[t].acknowledged => grant[t] # None
    /\ grant[t] # None /\ ~store[t].acknowledged /\ Active(t) /\ now < grant[t] + Retention
         => rows[t] # None /\ ~rows[t].acknowledged

\* The rows of a prepared binding come and go together, and nothing of an account is left,
\* neither proof nor binding nor its place in the worker's checkpoint, behind its receipt.
NothingLeft ==
  \A a \in Accounts :
    /\ binding[a] \in {{}, {"reverse", "locator"}}
    /\ receipt[a] => /\ binding[a] = {} /\ ~Names(a, checkpoint.cursor)
                     /\ \A t \in Tokens : OwnerOf[t] = a => rows[t] = None

\* A row that fails every time, or kills the run, does not keep the others from their turn
\* while the schedule keeps the checkpoint alive.
EveryoneIsAsked == \A t \in Tokens : waiting[t] <= Cardinality(Tokens) * Cardinality(Workers)

\* An answer of the store that another verification overtook grants nothing: with a store
\* whose purchases only grow longer, neither do grants and what is kept of them shrink.
NothingOvertaken ==
  \A t \in Tokens : grant[t] # None => grant'[t] # None /\ grant'[t] >= grant[t]

\* A pass that ends has come to every row that was due when it began, over however many runs,
\* crashes and overlapping runs it was walked.
PassCovers == \A w \in Workers : Finish(w) => job[w].left = {}

=============================================================================
