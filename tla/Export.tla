-------------------------------- MODULE Export --------------------------------
(***************************************************************************)
(* The account export (account_export_api): a bounded read-only traversal  *)
(* of what the account owns, page by page. All of its state is in the      *)
(* sealed capability the client brings back; every page is authorized      *)
(* before and after its reads, against the account, device and inventory   *)
(* the export began with.                                                  *)
(***************************************************************************)
EXTENDS Naturals, Sequences, FiniteSets, FiniteSetsExt

CONSTANTS
  Keys,          \* sort keys of receipts, in order
  Sizes,         \* what a row can weigh
  PageRows,      \* rows of one query
  PageBytes,     \* what the rows of a page may weigh
  Window,        \* WINDOW_SECONDS
  MaxPages,      \* MAX_PAGES
  MaxVersion, MaxGeneration, MaxChanges, MaxTime, \* bounds: bindings, History resets, changes of rows, the clock
  None

VARIABLES
  now,
  account,  \* its state, the device it is bound to, the binding's version
  generation, \* the History generation, the part of the inventory that moves
  rows,     \* what is stored, by partition and sort key
  job,      \* the invocation at work
  client,   \* the capability the client holds, and whether its export is complete
  shown,    \* ghost: how often the client was shown a row
  stayed,   \* ghost: the rows that were there when the export began and still are
  changes

vars == <<now, account, generation, rows, job, client, shown, stayed, changes>>

Plan == <<"profile", "receipts", "history">>
Partition(family, g) == IF family = "history" THEN <<family, g>> ELSE <<family, 0>>
Partitions == {<<"profile", 0>>, <<"receipts", 0>>} \cup {<<"history", g>> : g \in 1..MaxGeneration}
KeysOf(p) == IF p[1] = "receipts" THEN Keys ELSE {1}
Places == UNION {{<<p, k>> : k \in KeysOf(p)} : p \in Partitions}

Idle == [phase |-> "idle"]

TypeOK ==
  /\ now \in 0..MaxTime /\ generation \in 1..MaxGeneration /\ changes \in 0..MaxChanges
  /\ account \in [state : {"ACTIVE", "DELETING"}, device : {"d1", "d2"}, version : 1..MaxVersion]
  /\ \A p \in Partitions : \A k \in KeysOf(p) :
       rows[p][k] # None => rows[p][k] \in [size : Sizes, live : BOOLEAN]
  /\ client.status \in {"none", "going", "done"}
  /\ stayed \subseteq Places

Row(size) == [size |-> size, live |-> TRUE]

Init ==
  /\ now = 0 /\ generation = 1 /\ changes = 0
  /\ account = [state |-> "ACTIVE", device |-> "d1", version |-> 1]
  /\ \E first \in [Keys -> {None} \cup {Row(s) : s \in Sizes}] :
       rows = [p \in Partitions |-> CASE p[1] = "receipts" -> first
                                      [] p[1] = "profile" -> [k \in {1} |-> Row(1)]
                                      [] OTHER -> [k \in {1} |-> IF p[2] = 1 THEN Row(1) ELSE None]]
  /\ job = Idle /\ client = [status |-> "none", cursor |-> None]
  /\ shown = [x \in Places |-> 0] /\ stayed = {}

\* Reader.auth: the account is active and not fenced, and speaks from the device it is
\* bound to (d1); the version tells one binding of it from a later one.
Authorized == account.state = "ACTIVE" /\ account.device = "d1"
Context == [version |-> account.version]

Live(p) == {k \in KeysOf(p) : rows[p][k] # None /\ rows[p][k].live}

\* Export._validate: the capability of this binding, in its window.
Valid(token) == token.context = Context /\ now < token.expires /\ token.page < MaxPages

\* auth and, on START_EXPORT, the inventory; a capability is checked against both.
Begin ==
  /\ job = Idle /\ Authorized
  /\ \/ /\ client.status = "none"
        /\ job' = [phase |-> "planned", context |-> Context,
                   token |-> [context |-> Context, expires |-> now + Window, page |-> 0,
                              family |-> 1, position |-> 0, generation |-> generation]]
        /\ stayed' = UNION {{<<p, k>> : k \in Live(p)} :
                            p \in {Partition(Plan[i], generation) : i \in DOMAIN Plan}}
     \/ /\ client.status = "going" /\ Valid(client.cursor)
        /\ client.cursor.generation = generation
        /\ job' = [phase |-> "planned", context |-> Context, token |-> client.cursor]
        /\ UNCHANGED stayed
  /\ UNCHANGED <<now, account, generation, rows, client, shown, changes>>

\* One query, strictly after the position, and its LastEvaluatedKey.
Queried(p, position) ==
  LET after == {k \in KeysOf(p) : rows[p][k] # None /\ k > position} IN
    {k \in after : Cardinality({j \in after : j <= k}) <= PageRows}
Continuation(queried) == IF Cardinality(queried) = PageRows THEN Max(queried) ELSE None

\* What fits the page's bytes: rows in order, up to the first that does not. A row that
\* is not shown (expired, or not a settled receipt) weighs nothing and is passed over.
Weight(p, ks) == MapThenSumSet(LAMBDA k : rows[p][k].size, ks \cap Live(p))
Fitting(p, queried) ==
  {k \in queried : \A l \in queried : l <= k => Weight(p, {j \in queried : j <= l}) <= PageBytes}

\* Where the next page goes on: after the last row of this one, or where the query ended.
NextPosition(p, queried) ==
  IF Fitting(p, queried) = queried THEN Continuation(queried) ELSE Max(Fitting(p, queried))

\* Reader.read: one page of one family. A page that could show nothing ends the export.
Read ==
  LET p == Partition(Plan[job.token.family], job.token.generation)
      queried == Queried(p, job.token.position)
      fits == Fitting(p, queried) IN
    /\ job.phase = "planned"
    /\ fits = queried \/ fits \cap Live(p) # {}
    /\ job' = [phase |-> "read", context |-> job.context, token |-> job.token, from |-> p,
               items |-> fits \cap Live(p),
               next |-> IF Plan[job.token.family] = "profile" THEN None ELSE NextPosition(p, queried)]
    /\ UNCHANGED <<now, account, generation, rows, client, shown, stayed, changes>>

\* assert_inventory, after the last read of what is exported.
Verify ==
  /\ job.phase = "read" /\ generation = job.token.generation
  /\ job' = [job EXCEPT !.phase = "verified"]
  /\ UNCHANGED <<now, account, generation, rows, client, shown, stayed, changes>>

Complete == job.next = None /\ job.token.family = Len(Plan)
Following == [job.token EXCEPT !.page = @ + 1,
                               !.family = IF job.next = None THEN @ + 1 ELSE @,
                               !.position = IF job.next = None THEN 0 ELSE job.next]

\* The second auth gives what the first gave, the window is still open, and the page is
\* released with the capability for the next.
Tell ==
  /\ job.phase = "verified"
  /\ Authorized /\ Context = job.context /\ now < job.token.expires
  /\ Complete \/ job.token.page + 1 < MaxPages
  /\ client' = IF Complete THEN [status |-> "done", cursor |-> None]
               ELSE [status |-> "going", cursor |-> Following]
  /\ shown' = [x \in Places |-> IF x[1] = job.from /\ x[2] \in job.items THEN shown[x] + 1 ELSE shown[x]]
  /\ job' = Idle
  /\ UNCHANGED <<now, account, generation, rows, stayed, changes>>

\* Any check that fails, an error, or an answer that is lost: the client keeps what it had.
Fail ==
  /\ job # Idle /\ job' = Idle
  /\ UNCHANGED <<now, account, generation, rows, client, shown, stayed, changes>>

-----------------------------------------------------------------------------
(* Around it *)

Change(p, k, row) ==
  /\ changes < MaxChanges /\ changes' = changes + 1
  /\ rows' = [rows EXCEPT ![p][k] = row]
  /\ stayed' = stayed \ {<<p, k>>}
  /\ UNCHANGED <<now, account, generation, job, client, shown>>

Add == \E p \in Partitions : \E k \in KeysOf(p), s \in Sizes :
  p \in {<<"receipts", 0>>, <<"history", generation>>} /\ rows[p][k] = None /\ Change(p, k, Row(s))
Expire == \E p \in Partitions : \E k \in Live(p) : p[1] # "profile" /\ Change(p, k, [rows[p][k] EXCEPT !.live = FALSE])
Remove == \E p \in Partitions : \E k \in KeysOf(p) :
  p[1] # "profile" /\ rows[p][k] # None /\ Change(p, k, None)

\* A clear of the History: a new generation, the old one's rows are swept in time.
Clear ==
  /\ generation < MaxGeneration /\ generation' = generation + 1
  /\ UNCHANGED <<now, account, rows, job, client, shown, stayed, changes>>

Rebind(d) ==
  /\ account.version < MaxVersion
  /\ account' = [account EXCEPT !.device = d, !.version = @ + 1]
  /\ UNCHANGED <<now, generation, rows, job, client, shown, stayed, changes>>

Delete ==
  /\ account.state = "ACTIVE" /\ account' = [account EXCEPT !.state = "DELETING"]
  /\ UNCHANGED <<now, generation, rows, job, client, shown, stayed, changes>>

Tick ==
  /\ now < MaxTime /\ now' = now + 1
  /\ UNCHANGED <<account, generation, rows, job, client, shown, stayed, changes>>

Next ==
  \/ Begin \/ Read \/ Verify \/ Tell \/ Fail
  \/ Add \/ Expire \/ Remove \/ Clear \/ Delete \/ Tick
  \/ \E d \in {"d1", "d2"} : Rebind(d)

Spec == Init /\ [][Next]_vars

-----------------------------------------------------------------------------
(* Properties *)

\* No row is shown twice, and a complete export shows every row that was there from
\* its beginning to its end, whatever was added, expired or removed around it.
NothingLeftOut ==
  /\ \A x \in Places : shown[x] <= 1
  /\ client.status = "done" => \A x \in stayed : shown[x] = 1

\* All that one export shows of the History is of one generation.
OneGeneration ==
  \A x, y \in Places : x[1][1] = "history" /\ y[1][1] = "history" /\ shown[x] > 0 /\ shown[y] > 0 => x[1] = y[1]

\* A page is released to the device and binding the export began with, inside its
\* window, and never behind the account's deletion.
ReleasedToOwner ==
  shown # shown' =>
    account.state = "ACTIVE" /\ account.version = job.token.context.version /\ now < job.token.expires

-----------------------------------------------------------------------------
(* The invariant the properties are proved from (AccountRecordsProofs) *)

ExportAssumption ==
  /\ Keys \subseteq Nat \ {0} /\ IsFiniteSet(Keys)
  /\ {PageRows, MaxVersion, MaxGeneration} \subseteq Nat \ {0} /\ Sizes \subseteq Nat /\ 1 \in Sizes
  /\ {PageBytes, Window, MaxPages, MaxChanges, MaxTime} \subseteq Nat
  /\ None \notin Nat /\ None \notin [size : Sizes, live : BOOLEAN]

\* What a capability has come past: the families before its own, and its own up to its
\* position.
Passed(token, x) ==
  \/ \E i \in DOMAIN Plan : i < token.family /\ x[1] = Partition(Plan[i], token.generation)
  \/ x[1] = Partition(Plan[token.family], token.generation) /\ x[2] <= token.position

Tokens == [context : [version : 1..MaxVersion], expires : Nat, page : Nat, family : DOMAIN Plan,
           position : Nat, generation : 1..MaxGeneration]

\* What was shown is what the capability has come past, and no more.
TokenInv(token) ==
  /\ token \in Tokens
  /\ \A x \in Places : shown[x] > 0 => Passed(token, x)
  /\ \A x \in stayed : /\ \E i \in DOMAIN Plan : x[1] = Partition(Plan[i], token.generation)
                       /\ Passed(token, x) => shown[x] = 1

\* A page has all that stayed from the capability's position to where the next goes on.
PageInv ==
  /\ job \in [phase : {"read", "verified"}, context : {job.token.context}, token : Tokens, from : Partitions,
              items : SUBSET Nat, next : Nat \cup {None}]
  /\ job.from = Partition(Plan[job.token.family], job.token.generation)
  /\ job.next # None => job.next >= job.token.position
  /\ \A k \in job.items : k > job.token.position /\ (job.next # None => k <= job.next)
  /\ \A x \in stayed : x[1] = job.from /\ x[2] > job.token.position =>
       x[2] \in job.items \/ (job.next # None /\ x[2] > job.next)

RowsInv ==
  /\ TypeOK /\ DOMAIN rows = Partitions
  /\ \A p \in Partitions : rows[p] \in [KeysOf(p) -> {None} \cup [size : Sizes, live : BOOLEAN]]
  /\ \A x \in stayed : x[2] \in Live(x[1])

ClientInv ==
  /\ shown \in [Places -> {0, 1}] /\ OneGeneration
  /\ client.status = "none" => \A x \in Places : shown[x] = 0
  /\ client.status = "going" => TokenInv(client.cursor)
  /\ client.status = "done" => \A x \in stayed : shown[x] = 1

JobInv ==
  /\ client.status # "done" /\ TokenInv(job.token)
  /\ job \in [phase : {"planned"}, context : {job.token.context}, token : Tokens] \/ PageInv

IInv == RowsInv /\ ClientInv /\ (job = Idle \/ JobInv)
=============================================================================
