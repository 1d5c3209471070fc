--------------------------- MODULE GovernedHistory ---------------------------
(***************************************************************************)
(* The governed history (governed_history): results of checks, listed from *)
(* an index that lags behind the authority's receipts, over one partition  *)
(* per issued key, each candidate read again from its receipt, the caller  *)
(* authorized before and after.                                            *)
(***************************************************************************)
EXTENDS Naturals, FiniteSets, FiniteSetsExt

CONSTANTS
  Receipts,    \* receipts, numbered by the time they settle: a receipt's GSI2SK
  PartitionOf, \* the partition (the key a receipt's check was issued under) of each
  Limit,       \* the page asked for
  MaxReads,    \* MAX_CANONICAL_READS
  Retention,   \* how long a receipt can be shown
  Ttl,         \* how long a cursor lives
  Start, MaxTime, \* bounds of the clock
  None

VARIABLES
  now,
  account,  \* state, binding's version, revision of the key inventory
  settled,  \* receipts there are
  index,    \* receipts the index shows
  job,
  client,   \* the cursor held, and whether the list came to its end
  shown,    \* ghost: how often a receipt was shown in this traversal
  stayed    \* ghost: receipts indexed since the traversal began

vars == <<now, account, settled, index, job, client, shown, stayed>>

Idle == [phase |-> "idle"]
Partitions == {PartitionOf[r] : r \in Receipts}

TypeOK ==
  /\ now \in 0..MaxTime
  /\ account \in [state : {"ACTIVE", "DELETING"}, version : 1..2, revision : 1..2]
  /\ settled \subseteq Receipts /\ index \subseteq Receipts /\ stayed \subseteq Receipts
  /\ client.status \in {"none", "going", "done"}

Init ==
  /\ now = Start
  /\ account = [state |-> "ACTIVE", version |-> 1, revision |-> 1]
  /\ settled \in SUBSET {r \in Receipts : r <= Start} /\ index \in SUBSET settled
  /\ job = Idle /\ client = [status |-> "none", cursor |-> None]
  /\ shown = [r \in Receipts |-> 0] /\ stayed = {}

\* authorize: profile, deletion fence, device and inventory; what it found is compared.
Identity == [version |-> account.version, revision |-> account.revision]

\* authorize, and the cursor decoded: of this binding and inventory, not expired. Above
\* every receipt where there is none.
Authorize ==
  /\ job = Idle /\ account.state = "ACTIVE"
  /\ \/ /\ client.status = "none"
        /\ job' = [phase |-> "query", identity |-> Identity, before |-> MaxTime + 1,
                   left |-> Partitions, found |-> {}, trailing |-> FALSE]
        /\ stayed' = index
     \/ /\ client.status = "going"
        /\ client.cursor.identity = Identity /\ now < client.cursor.expires
        /\ job' = [phase |-> "query", identity |-> Identity, before |-> client.cursor.before,
                   left |-> Partitions, found |-> {}, trailing |-> FALSE]
        /\ UNCHANGED stayed
  /\ UNCHANGED <<now, account, settled, index, client, shown>>

\* The newest Limit + 1 (or one more than may be read) of a partition before the cursor.
Page == Min({Limit, MaxReads}) + 1
Newest(p) ==
  LET before == {r \in index : PartitionOf[r] = p /\ r < job.before} IN
    {r \in before : Cardinality({s \in before : s >= r}) <= Page}

\* _query: one partition, in turn; a full page has a LastEvaluatedKey.
Query(p) ==
  /\ job.phase = "query" /\ p \in job.left
  /\ job' = [job EXCEPT !.left = @ \ {p}, !.found = @ \cup Newest(p),
                        !.trailing = @ \/ Cardinality(Newest(p)) = Page]
  /\ UNCHANGED <<now, account, settled, index, client, shown, stayed>>

\* The candidates, newest first.
Sort ==
  /\ job.phase = "query" /\ job.left = {}
  /\ job' = [phase |-> "canonical", identity |-> job.identity, left |-> job.found,
             examined |-> None, count |-> 0, items |-> {}, trailing |-> job.trailing]
  /\ UNCHANGED <<now, account, settled, index, client, shown, stayed>>

\* _canonical: the receipt itself, read consistently, if it can still be shown.
Readable(r) == r \in settled /\ now < r + Retention
Enough == job.left = {} \/ job.count = MaxReads \/ Cardinality(job.items) = Limit

Canonical ==
  /\ job.phase = "canonical" /\ ~Enough
  /\ LET r == Max(job.left) IN
       job' = [job EXCEPT !.left = @ \ {r}, !.examined = r, !.count = @ + 1,
                          !.items = IF Readable(r) THEN @ \cup {r} ELSE @]
  /\ UNCHANGED <<now, account, settled, index, client, shown, stayed>>

\* Is there anything after what was examined?
\* Mutant: only what a partition held back counts.
MoreHeldBack == job.examined # None /\ job.trailing

More == job.examined # None /\ (job.trailing \/ job.left # {})

\* The next cursor, then authorize once more; the page goes out only to the identity it
\* was read for.
Tell ==
  /\ job.phase = "canonical" /\ Enough
  /\ account.state = "ACTIVE" /\ Identity = job.identity
  /\ client' = IF More
               THEN [status |-> "going",
                     cursor |-> [identity |-> job.identity, before |-> job.examined, expires |-> now + Ttl]]
               ELSE [status |-> "done", cursor |-> None]
  /\ shown' = [r \in Receipts |-> IF r \in job.items THEN shown[r] + 1 ELSE shown[r]]
  /\ job' = Idle
  /\ UNCHANGED <<now, account, settled, index, stayed>>

\* A check that fails, an error or a lost answer: the client keeps its cursor.
Fail ==
  /\ job # Idle /\ job' = Idle
  /\ UNCHANGED <<now, account, settled, index, client, shown, stayed>>

-----------------------------------------------------------------------------
(* Around it *)

\* A check settles now (CheckAuthority); the index follows in its own time, either way.
Settle(r) ==
  /\ r = now /\ r \notin settled /\ account.state = "ACTIVE" /\ settled' = settled \cup {r}
  /\ UNCHANGED <<now, account, index, job, client, shown, stayed>>

Propagate(r) ==
  /\ (r \in index) # (r \in settled)
  /\ index' = (IF r \in settled THEN index \cup {r} ELSE index \ {r})
  /\ UNCHANGED <<now, account, settled, job, client, shown, stayed>>

\* A receipt past its retention is removed, or the whole account is.
Retire(r) ==
  /\ r \in settled /\ (r + Retention <= now \/ account.state = "DELETING")
  /\ settled' = settled \ {r}
  /\ UNCHANGED <<now, account, index, job, client, shown, stayed>>

Change ==
  /\ account' \in {[account EXCEPT !.state = "DELETING"],
                   [account EXCEPT !.version = 2], [account EXCEPT !.revision = 2]}
  /\ account' # account
  /\ UNCHANGED <<now, settled, index, job, client, shown, stayed>>

Tick ==
  /\ now < MaxTime /\ now' = now + 1
  /\ UNCHANGED <<account, settled, index, job, client, shown, stayed>>

Next ==
  \/ Authorize \/ Sort \/ Canonical \/ Tell \/ Fail \/ Change \/ Tick
  \/ \E p \in Partitions : Query(p)
  \/ \E r \in Receipts : Settle(r) \/ Propagate(r) \/ Retire(r)

Spec == Init /\ [][Next]_vars

-----------------------------------------------------------------------------
(* Properties *)

\* No receipt is listed twice, and a list read to its end showed every receipt the index
\* had when it began and that can still be shown.
NothingLeftOut ==
  /\ \A r \in Receipts : shown[r] <= 1
  /\ client.status = "done" => \A r \in stayed : Readable(r) => shown[r] = 1

\* A page goes out to the account, device and inventory it was read for, not behind the
\* account's deletion.
ReleasedToOwner ==
  shown # shown' => account.state = "ACTIVE" /\ Identity = job.identity
-----------------------------------------------------------------------------
(* The invariant the properties are proved from (AccountRecordsProofs) *)

GovernedAssumption ==
  /\ Receipts \subseteq Nat /\ IsFiniteSet(Receipts) /\ DOMAIN PartitionOf = Receipts
  /\ {Limit, MaxReads, Retention} \subseteq Nat \ {0} /\ {Ttl, Start, MaxTime} \subseteq Nat
  /\ Start <= MaxTime /\ None \notin Nat

\* Where the client's list stands.
Boundary == IF client.status = "going" THEN client.cursor.before ELSE MaxTime + 1

\* What is not, or no longer, settled and was once: it is past its retention, or its
\* account is being deleted.
Gone(r) == r + Retention <= now \/ account.state = "DELETING"

\* A page has something newer to show, or to come to, than a receipt it does not reach.
Deferred(found, r) == job.trailing /\ Cardinality({s \in found : s > r}) >= Page

RowsInv ==
  /\ TypeOK
  /\ \A r \in index \cup settled \cup stayed : r <= now
  /\ \A r \in index \cup stayed : r \in settled \/ Gone(r)
  /\ stayed \cap settled \subseteq index

\* What the traversal has passed was shown, or cannot be any more.
ClientInv ==
  /\ DOMAIN shown = Receipts /\ \A r \in Receipts : shown[r] \in {0, 1}
  /\ client.status = "none" => \A r \in Receipts : shown[r] = 0
  /\ client.status = "going" =>
       /\ client.cursor.before \in Receipts
       /\ \A r \in Receipts : r < Boundary => shown[r] = 0
       /\ \A r \in stayed : r >= Boundary => shown[r] = 1 \/ ~Readable(r)
  /\ client.status = "done" => \A r \in stayed : shown[r] = 1 \/ ~Readable(r)

Identities == [version : 1..2, revision : 1..2]
Ahead == {r \in Receipts : r < Boundary}

QueryInv ==
  /\ job \in [phase : {"query"}, identity : Identities, before : {Boundary}, left : SUBSET Partitions,
              found : SUBSET Ahead, trailing : BOOLEAN]
  /\ \A s \in job.found : s \in settled \/ Gone(s)
  /\ \A r \in stayed \cap Ahead : PartitionOf[r] \notin job.left =>
       r \in job.found \/ ~Readable(r) \/ Deferred(job.found, r)

CanonicalInv ==
  /\ job \in [phase : {"canonical"}, identity : Identities, left : SUBSET Ahead, examined : Ahead \cup {None},
              count : 0..MaxReads, items : SUBSET Ahead, trailing : BOOLEAN]
  /\ job.examined = None => job.items = {} /\ job.count = 0
  /\ Cardinality(job.items) <= Limit /\ Cardinality(job.items) <= job.count
  /\ job.examined # None => /\ \A s \in job.left : s < job.examined
                            /\ \A s \in job.items : s >= job.examined
  /\ \A s \in job.left : s \in settled \/ Gone(s)
  /\ \A r \in stayed \cap Ahead :
       \/ r \in job.left \cup job.items \/ ~Readable(r) \/ account.state = "DELETING"
       \/ Deferred(job.left \cup job.items, r)

IInv ==
  /\ RowsInv /\ ClientInv
  /\ job = Idle \/ (client.status # "done" /\ (QueryInv \/ CanonicalInv))
=============================================================================
