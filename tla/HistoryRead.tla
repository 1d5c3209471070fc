----------------------------- MODULE HistoryRead -----------------------------
(***************************************************************************)
(* The reads of the History (history_read_api): a list, newest first, over *)
(* the rows of the account's current generation, its cursors stored rows   *)
(* of the control table, and one record by way of its locator. The caller  *)
(* is authorized before the reads, and not again after them. How the rows  *)
(* come and go is module History.                                          *)
(***************************************************************************)
EXTENDS Naturals, Sequences, FiniteSets, FiniteSetsExt

CONSTANTS
  Keys,      \* content sort keys, by age
  Sizes,     \* what an item can weigh
  Limit,     \* the page asked for
  MaxBytes,  \* max_response_bytes
  Ttl,       \* the cursors' ttl
  MaxGeneration, MaxChanges, MaxTime, \* bounds: generations, changes of rows, the clock
  None

VARIABLES
  now,
  account,  \* authoritative state; and the device the client speaks from
  state,    \* the control table's STATE: the generation
  rows,     \* content, by generation and sort key; a locator points at every row
  cursor,   \* the cursor row the client holds the handle of
  job,
  client,   \* where its list stands, and what it was shown, in order
  stayed,   \* ghost: rows there since the list began, still live
  changes

vars == <<now, account, state, rows, cursor, job, client, stayed, changes>>

Idle == [phase |-> "idle"]

TypeOK ==
  /\ now \in 0..MaxTime /\ state \in 1..MaxGeneration /\ changes \in 0..MaxChanges
  /\ account \in [state : {"ACTIVE", "DELETING"}, device : {"bound", "replaced"}]
  /\ \A g \in 1..MaxGeneration : \A k \in Keys :
       rows[g][k] # None => rows[g][k] \in [size : Sizes, live : BOOLEAN]
  /\ client.status \in {"none", "going", "done"} /\ stayed \subseteq Keys

Init ==
  /\ now = 0 /\ state = 1 /\ changes = 0
  /\ account = [state |-> "ACTIVE", device |-> "bound"]
  /\ \E first \in [Keys -> {None} \cup [size : Sizes, live : {TRUE}]] :
       rows = [g \in 1..MaxGeneration |-> IF g = 1 THEN first ELSE [k \in Keys |-> None]]
  /\ cursor = None /\ job = Idle
  /\ client = [status |-> "none", got |-> <<>>, generation |-> None, single |-> None] /\ stayed = {}

Live(g) == {k \in Keys : rows[g][k] # None /\ rows[g][k].live}

\* assert_authoritative_account_active and assert_active_device_binding.
Authorize ==
  /\ job = Idle /\ account = [state |-> "ACTIVE", device |-> "bound"]
  /\ job' = [phase |-> "authorized", since |-> state]
  /\ UNCHANGED <<now, account, state, rows, cursor, client, stayed, changes>>

\* _state, and CursorStore.load: the row of this generation, not expired.
CursorGood == cursor # None /\ cursor.generation = state /\ now < cursor.expires

StartList ==
  /\ job.phase = "authorized"
  /\ \/ client.status = "none" /\ stayed' = Live(state)
     \/ client.status = "going" /\ CursorGood /\ UNCHANGED stayed
  /\ job' = [phase |-> "list", since |-> job.since, generation |-> state,
             before |-> IF client.status = "going" THEN cursor.last ELSE Max(Keys) + 1,
             items |-> <<>>, bytes |-> 0, more |-> FALSE]
  /\ UNCHANGED <<now, account, state, rows, cursor, client, changes>>

\* One query: the newest rows before the start key, as many as are missing and one.
Queried ==
  LET before == {k \in Keys : rows[job.generation][k] # None /\ k < job.before} IN
    {k \in before : Cardinality({j \in before : j >= k}) <= Limit - Len(job.items) + 1}
\* Its LastEvaluatedKey: the query came to its limit.
Stopped == Cardinality(Queried) = Limit - Len(job.items) + 1

\* What a page takes of a query: the live rows, newest first, while they fit the page's
\* number and bytes; the first that does not means that there is more.
Weight(ks) == MapThenSumSet(LAMBDA k : rows[job.generation][k].size, ks)
Candidates == Queried \cap Live(job.generation)
Newer(k) == {j \in Candidates : j >= k}
Taken == {k \in Candidates : /\ \A l \in Newer(k) : job.bytes + Weight(Newer(l)) <= MaxBytes
                             /\ Len(job.items) + Cardinality(Newer(k)) <= Limit}
Descending(ks) == [i \in 1..Cardinality(ks) |-> CHOOSE k \in ks : Cardinality({j \in ks : j >= k}) = i]

\* The loop of list_history, one query at a time. A first item too large for any page
\* is an error.
ListQuery ==
  /\ job.phase = "list" /\ Len(job.items) < Limit
  /\ Candidates # {} /\ job.items = <<>> => Taken # {}
  /\ LET items == job.items \o Descending(Taken)
         left == Candidates # Taken
         full == Len(items) = Limit IN
       job' = IF left \/ full \/ ~Stopped
              THEN [job EXCEPT !.phase = "listed", !.items = items, !.more = left \/ (full /\ Stopped)]
              ELSE [job EXCEPT !.items = items, !.bytes = @ + Weight(Taken), !.before = Min(Queried)]
  /\ UNCHANGED <<now, account, state, rows, cursor, client, stayed, changes>>

\* Where the next page goes on: after the last row this one included.
LastIncluded == job.items[Len(job.items)]

\* CursorStore.create, if there is more; and the answer.
ListTell ==
  /\ job.phase = "listed"
  /\ IF job.more /\ job.items # <<>>
     THEN /\ cursor' = [generation |-> job.generation, last |-> LastIncluded, expires |-> now + Ttl]
          /\ client' = [client EXCEPT !.status = "going", !.got = @ \o job.items,
                                      !.generation = job.generation]
     ELSE /\ UNCHANGED cursor
          /\ client' = [client EXCEPT !.status = "done", !.got = @ \o job.items,
                                      !.generation = job.generation]
  /\ job' = Idle
  /\ UNCHANGED <<now, account, state, rows, stayed, changes>>

\* get_history: the locator, of the current generation, and then the row it names.
Locate(k) ==
  /\ job.phase = "authorized" /\ rows[state][k] # None /\ rows[state][k].live
  /\ job' = [phase |-> "located", since |-> job.since, generation |-> state, key |-> k]
  /\ UNCHANGED <<now, account, state, rows, cursor, client, stayed, changes>>

GetTell ==
  /\ job.phase = "located" /\ job.key \in Live(job.generation)
  /\ client' = [client EXCEPT !.single = [generation |-> job.generation, since |-> job.since]]
  /\ job' = Idle
  /\ UNCHANGED <<now, account, state, rows, cursor, stayed, changes>>

\* NOT_FOUND, an error, or an answer that is lost.
Fail ==
  /\ job # Idle /\ job' = Idle
  /\ UNCHANGED <<now, account, state, rows, cursor, client, stayed, changes>>

-----------------------------------------------------------------------------
(* Around it *)

Change(g, k, row) ==
  /\ changes < MaxChanges /\ changes' = changes + 1
  /\ rows' = [rows EXCEPT ![g][k] = row]
  /\ stayed' = (IF g = 1 THEN stayed \ {k} ELSE stayed)
  /\ UNCHANGED <<now, account, state, cursor, job, client>>

\* A completion, a row past its retention, a row deleted with its locator, or swept with
\* its generation (History).
Add(k) == rows[state][k] = None /\ \E s \in Sizes : Change(state, k, [size |-> s, live |-> TRUE])
Expire(k) == \E g \in 1..state : k \in Live(g) /\ Change(g, k, [rows[g][k] EXCEPT !.live = FALSE])
Remove(k) == \E g \in 1..state : rows[g][k] # None /\ Change(g, k, None)

Clear ==
  /\ state < MaxGeneration /\ state' = state + 1
  /\ UNCHANGED <<now, account, rows, cursor, job, client, stayed, changes>>

Leave ==
  /\ account' \in {[account EXCEPT !.state = "DELETING"], [account EXCEPT !.device = "replaced"]}
  /\ account' # account
  /\ UNCHANGED <<now, state, rows, cursor, job, client, stayed, changes>>

Tick ==
  /\ now < MaxTime /\ now' = now + 1
  /\ UNCHANGED <<account, state, rows, cursor, job, client, stayed, changes>>

Next ==
  \/ Authorize \/ StartList \/ ListQuery \/ ListTell \/ GetTell \/ Fail \/ Clear \/ Leave \/ Tick
  \/ \E k \in Keys : Locate(k) \/ Add(k) \/ Expire(k) \/ Remove(k)

Spec == Init /\ [][Next]_vars

-----------------------------------------------------------------------------
(* Properties *)

\* A list is newest first without a repetition, over all of its pages; and one read to
\* its end in the first generation showed every row that was there all the time.
NothingLeftOut ==
  /\ \A i, j \in DOMAIN client.got : i < j => client.got[i] > client.got[j]
  /\ client.status = "done" /\ client.generation = 1 => stayed \subseteq Range(client.got)

\* The pages of one list are of one generation, and nothing told is of a generation that
\* had ended when its request was authorized.
NothingCleared ==
  /\ client'.got # client.got =>
       /\ client.generation \in {None, job.generation}
       /\ job.generation >= job.since
  /\ client'.single # client.single => job.generation >= job.since

-----------------------------------------------------------------------------
(* The invariant the properties are proved from (AccountRecordsProofs) *)

ReadAssumption ==
  /\ Keys \subseteq Nat /\ Keys # {} /\ IsFiniteSet(Keys) /\ Sizes \subseteq Nat
  /\ {Limit, MaxGeneration} \subseteq Nat \ {0} /\ {MaxBytes, Ttl, MaxChanges, MaxTime} \subseteq Nat
  /\ None \notin Nat /\ None \notin [size : Sizes, live : BOOLEAN]
  /\ None \notin [generation : Nat, last : Nat, expires : Nat]

\* Where the client's list stands.
Bound == IF client.status = "going" THEN cursor.last ELSE Max(Keys) + 1

Descends(s) == \A i, j \in DOMAIN s : i < j => s[i] > s[j]

RowsInv ==
  /\ TypeOK
  /\ rows \in [1..MaxGeneration -> [Keys -> {None} \cup [size : Sizes, live : BOOLEAN]]]

\* What stayed and is behind the list's place was shown.
ClientInv ==
  /\ client = [status |-> client.status, got |-> client.got, generation |-> client.generation,
               single |-> client.single]
  /\ client.got \in Seq(Keys) /\ Descends(client.got)
  /\ client.status = "none" => client.got = <<>> /\ client.generation = None
  /\ client.status = "going" =>
       /\ cursor \in [generation : {client.generation}, last : Keys, expires : Nat]
       /\ \A i \in DOMAIN client.got : client.got[i] >= cursor.last
       /\ client.generation = 1 =>
            stayed \subseteq Live(1) /\ \A k \in stayed : k >= cursor.last => k \in Range(client.got)
  /\ client.status = "done" /\ client.generation = 1 => stayed \subseteq Range(client.got)

\* A page goes on from there: its queries have left nothing between, and what it does
\* not take is older than all it takes.
QueryInv ==
  /\ job = [phase |-> "list", since |-> job.since, generation |-> job.generation, before |-> job.before,
            items |-> job.items, bytes |-> job.bytes, more |-> FALSE]
  /\ Len(job.items) < Limit /\ job.before \in Nat /\ job.before <= Bound
  /\ \A i \in DOMAIN job.items : job.items[i] >= job.before
  /\ job.generation = 1 => \A k \in stayed : k < Bound /\ k >= job.before => k \in Range(job.items)

ListedInv ==
  /\ job.phase = "listed" /\ job.more \in BOOLEAN /\ (job.more => job.items # <<>>)
  /\ job.generation = 1 => \A k \in stayed : k < Bound =>
       k \in Range(job.items) \/ (job.more /\ \A i \in DOMAIN job.items : k < job.items[i])

ListInv ==
  /\ client.status # "done" /\ (client.status = "going" => job.generation = client.generation)
  /\ job.since \in Nat /\ job.generation \in 1..state /\ job.generation >= job.since
  /\ job.items \in Seq(Keys) /\ Descends(job.items)
  /\ \A i \in DOMAIN job.items : job.items[i] < Bound
  /\ job.generation = 1 => stayed \subseteq Live(1)
  /\ QueryInv \/ ListedInv

JobInv ==
  \/ job = Idle
  \/ job.phase = "authorized" /\ job.since \in 1..state
  \/ job.phase = "located" /\ job.since \in Nat /\ job.generation \in 1..state /\ job.generation >= job.since
  \/ ListInv

IInv == RowsInv /\ ClientInv /\ JobInv
=============================================================================
