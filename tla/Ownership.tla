------------------------------ MODULE Ownership ------------------------------
(***************************************************************************)
(* Who owns the tokens of a purchase (shared_purchase_ownership).  A       *)
(* purchase that is changed in the store gets a new token that links to    *)
(* the one before; one bought again after it ended starts a new chain.     *)
(* Every token has a lock row, and its account a locator row, by which     *)
(* erasure and export find the lock.                                       *)
(*                                                                         *)
(* The handoff of v1_play_handoff observes both rows of all tokens of a    *)
(* chain, verifies the chain with the store, and conditions what it had    *)
(* observed; claim (purchase_handoff) reads the rows behind the            *)
(* verification.  Erasure deletes a page of locators with their locks, one *)
(* transaction each, and starts over until it finds none.                  *)
(***************************************************************************)
EXTENDS Integers, Sequences, FiniteSets

CONSTANTS
  Accounts,
  Buyer,        \* the account the purchases are made for
  Workers,      \* invocations: handoffs, claims, erasures
  Lengths,      \* bound: how long each chain may grow, a sequence
  PageSize,     \* limit of delete_owned_batch
  MaxRevision,  \* bound: claims of one token
  None

\* The bounds are of use, a page has room, and no row is None.
OwnershipAssumption ==
  /\ Lengths \in Seq(Nat \ {0}) /\ Len(Lengths) > 0
  /\ PageSize \in Nat \ {0} /\ MaxRevision \in Nat
  /\ None \notin [account : Accounts, revision : Nat]

VARIABLES
  store,    \* the store's current purchase: [chain, length, live]
  account,  \* "active", or "deleting" once it is fenced
  owner,    \* PURCHASE_OWNERSHIP row of each token: [account, revision], or None
  located,  \* PURCHASE_OWNER_LOCATOR rows: pairs of account and token
  head,     \* headTokenDigest of each account's paid source
  erased,   \* accounts with a receipt for ENTITLEMENTS
  job       \* local state of each invocation

rows == <<owner, located, head, erased>>
vars == <<store, account, rows, job>>

-----------------------------------------------------------------------------
(* Tokens and rows *)

Chains == 1 .. Len(Lengths)
Tokens == UNION {{<<c, i>> : i \in 1 .. Lengths[c]} : c \in Chains}

\* What following the links from a token visits.
Lineage(t) == {<<t[1], i>> : i \in 1 .. t[2]}

Current == <<store.chain, store.length>>
Issued == UNION {Lineage(<<c, IF c = store.chain THEN store.length ELSE Lengths[c]>>) : c \in 1 .. store.chain}

Owned(a, t) == owner[t] # None /\ owner[t].account = a

\* observe_claim finds no lock of another account, and a locator with every lock.
Observable(a, tokens) ==
  \A t \in tokens : /\ owner[t] # None => owner[t].account = a
                    /\ (<<a, t>> \in located) = (owner[t] # None)

Rows(tokens) == [t \in tokens |-> owner[t]]

Idle == [kind |-> None, phase |-> "idle", account |-> None, token |-> None,
         seen |-> None, head |-> None, former |-> None, page |-> {}]

Init ==
  /\ store = [chain |-> 1, length |-> 1, live |-> TRUE]
  /\ account = [a \in Accounts |-> "active"]
  /\ owner = [t \in Tokens |-> None]
  /\ located = {}
  /\ head = [a \in Accounts |-> None]
  /\ erased = {}
  /\ job = [w \in Workers |-> Idle]

Move(w, j) == job' = [job EXCEPT ![w] = j] /\ UNCHANGED <<store, account, rows>>

-----------------------------------------------------------------------------
(* Handoff *)

\* A paid source of another chain is observed as well.
Former(a, t) == IF head[a] = None \/ head[a] \in Lineage(t) THEN None ELSE head[a]

\* Handoff.handle up to observe_claim.
Observe(w, a, t) ==
  /\ job[w].phase = "idle"
  /\ account[a] = "active" /\ t \in Issued
  /\ Observable(a, Lineage(t))
  /\ Former(a, t) # None => Observable(a, {Former(a, t)})
  /\ Move(w, [Idle EXCEPT !.kind = "handoff", !.phase = "observed", !.account = a, !.token = t,
                          !.seen = Rows(Lineage(t)), !.head = head[a],
                          !.former = IF Former(a, t) = None THEN None ELSE owner[Former(a, t)]])

\* verify: the links are those observed, and the token is the head of a purchase in force.
Proven(t) == store.live /\ t = Current

Verify(w) ==
  LET j == job[w] IN
  /\ j.phase = "observed"
  /\ Proven(j.token)
  /\ Move(w, [j EXCEPT !.phase = "proven"])

\* A purchase bought again takes over from an old one by its buyer only, and only as a
\* chain of its own that nobody has claimed.
Migrates(j) == j.head # None /\ j.head \notin Lineage(j.token)
MayMigrate(j) ==
  /\ j.account = Buyer /\ j.former # None
  /\ j.token[2] = 1 /\ j.seen[j.token] = None
  /\ owner[j.head] = j.former /\ <<j.account, j.head>> \in located

\* Mutant: only the presented token's rows are conditioned.
SameHead(a, seen, t) == owner[t] = seen[t]

\* prepare_claim_actions: every row is the one observed.
SameRows(a, seen, t) ==
  \A u \in Lineage(t) : owner[u] = seen[u] /\ (<<a, u>> \in located) = (seen[u] # None)

Revision(row) == IF row = None THEN 0 ELSE row.revision

Take(a, tokens) ==
  /\ \A t \in tokens : Revision(owner[t]) < MaxRevision
  /\ owner' = [t \in Tokens |-> IF t \in tokens THEN [account |-> a, revision |-> Revision(owner[t]) + 1]
                                ELSE owner[t]]
  /\ located' = located \cup {<<a, t>> : t \in tokens}

\* The transaction of commit_verified_paid and of commit_verified_resubscription.
Commit(w) ==
  LET j == job[w]  a == j.account IN
  /\ j.kind = "handoff" /\ j.phase = "proven"
  /\ account[a] = "active" /\ head[a] = j.head
  /\ SameRows(a, j.seen, j.token)
  /\ Migrates(j) => MayMigrate(j)
  /\ Take(a, Lineage(j.token))
  /\ head' = [head EXCEPT ![a] = j.token]
  /\ job' = [job EXCEPT ![w] = Idle]
  /\ UNCHANGED <<store, account, erased>>

\* verified_lineage, and behind it claim, which reads each lock just before.
VerifyFirst(w, a, t) ==
  /\ job[w].phase = "idle"
  /\ account[a] = "active" /\ Proven(t)
  /\ Move(w, [Idle EXCEPT !.kind = "claim", !.phase = "proven", !.account = a, !.token = t])

Claim(w) ==
  LET j == job[w]  a == j.account IN
  /\ j.kind = "claim" /\ j.phase = "proven"
  /\ account[a] = "active"
  /\ \A t \in Lineage(j.token) : owner[t] # None => owner[t].account = a
  /\ Take(a, Lineage(j.token))
  /\ job' = [job EXCEPT ![w] = Idle]
  /\ UNCHANGED <<store, account, head, erased>>

\* A refusal, an error, a death, or a transaction that did not apply.
Stop(w) == job[w].phase # "idle" /\ Move(w, Idle)

-----------------------------------------------------------------------------
(* Erasure *)

RequestDeletion(a) ==
  /\ account[a] = "active"
  /\ account' = [account EXCEPT ![a] = "deleting"]
  /\ UNCHANGED <<store, rows, job>>

\* The authority of the account, with its paid source, is erased by another component.
EraseSource(a) ==
  /\ account[a] = "deleting" /\ head[a] # None
  /\ head' = [head EXCEPT ![a] = None]
  /\ UNCHANGED <<store, account, owner, located, erased, job>>

\* The first page of an account's locators, in some order of their digests.
Query(w, a) ==
  /\ job[w].phase = "idle"
  /\ account[a] = "deleting" /\ a \notin erased
  /\ LET mine == {t \in Tokens : <<a, t>> \in located} IN
     \E page \in SUBSET mine :
       /\ Cardinality(page) = IF Cardinality(mine) < PageSize THEN Cardinality(mine) ELSE PageSize
       /\ Move(w, [Idle EXCEPT !.kind = "erase", !.account = a, !.page = page,
                               !.phase = IF page = {} THEN "complete" ELSE "page"])

\* One locator of the page: its lock must be the account's.
EraseOne(w) ==
  LET j == job[w] IN
  /\ j.phase = "page"
  /\ \E t \in j.page :
       /\ Owned(j.account, t)
       /\ owner' = [owner EXCEPT ![t] = None]
       /\ located' = located \ {<<j.account, t>>}
       /\ job' = [job EXCEPT ![w] = IF j.page = {t} THEN Idle ELSE [j EXCEPT !.page = @ \ {t}]]
  /\ UNCHANGED <<store, account, head, erased>>

\* Lifecycle.entitlements: a page without rows is what the receipt rests on.
Record(w) ==
  LET j == job[w] IN
  /\ j.phase = "complete"
  /\ erased' = erased \cup {j.account}
  /\ job' = [job EXCEPT ![w] = Idle]
  /\ UNCHANGED <<store, account, owner, located, head>>

-----------------------------------------------------------------------------
(* The store *)

Change ==
  /\ store.live /\ store.length < Lengths[store.chain]
  /\ store' = [store EXCEPT !.length = @ + 1]
  /\ UNCHANGED <<account, rows, job>>

End ==
  /\ store.live
  /\ store' = [store EXCEPT !.live = FALSE]
  /\ UNCHANGED <<account, rows, job>>

BuyAgain ==
  /\ ~store.live /\ store.chain < Len(Lengths) /\ store.length = Lengths[store.chain]
  /\ store' = [chain |-> store.chain + 1, length |-> 1, live |-> TRUE]
  /\ UNCHANGED <<account, rows, job>>

Next ==
  \/ \E w \in Workers :
       \/ \E a \in Accounts, t \in Tokens : Observe(w, a, t) \/ VerifyFirst(w, a, t)
       \/ Verify(w) \/ Commit(w) \/ Claim(w) \/ Stop(w)
       \/ \E a \in Accounts : Query(w, a)
       \/ EraseOne(w) \/ Record(w)
  \/ \E a \in Accounts : RequestDeletion(a) \/ EraseSource(a)
  \/ Change \/ End \/ BuyAgain

Spec == Init /\ [][Next]_vars

-----------------------------------------------------------------------------
(* Properties *)

\* Every row holds values the code writes.
TypeOK ==
  /\ store.chain \in Chains /\ store.length \in 1 .. Lengths[store.chain] /\ store.live \in BOOLEAN
  /\ account \in [Accounts -> {"active", "deleting"}]
  /\ \A t \in Tokens : owner[t] # None => owner[t].account \in Accounts /\ owner[t].revision \in 1 .. MaxRevision
  /\ located \subseteq Accounts \X Tokens
  /\ head \in [Accounts -> Tokens \cup {None}]
  /\ erased \subseteq Accounts

\* A lock and its owner's locator come and go together, so that erasure and export find
\* every lock by the locators, and none of another account's.
LocksPaired ==
  \A t \in Tokens : {a \in Accounts : <<a, t>> \in located}
                      = IF owner[t] = None THEN {} ELSE {owner[t].account}

\* The tokens of one chain are at most one account's that is not being deleted, and that
\* has the whole chain up to each token it owns.
ChainOfOne ==
  \A a \in Accounts, t \in Tokens : account[a] = "active" /\ Owned(a, t) =>
    \A u \in Tokens : /\ u \in Lineage(t) => Owned(a, u)
                      /\ u[1] = t[1] /\ owner[u] # None =>
                           owner[u].account = a \/ account[owner[u].account] = "deleting"

\* Paid access rests on a lock of the account's own, also of a purchase that ended.
HeadIsOwned ==
  \A a \in Accounts : account[a] = "active" /\ head[a] # None => Owned(a, head[a])

\* What the receipt says stays true: nothing of the account is left, nor comes back.
ErasedForGood ==
  \A a \in erased : \A t \in Tokens : ~Owned(a, t) /\ <<a, t>> \notin located

\* A lock never passes from one account to another: it is erased in between, and only for
\* an account that is being deleted.
NeverTransferred ==
  \A t \in Tokens : owner[t] # None /\ owner'[t] # owner[t] =>
    IF owner'[t] = None THEN account[owner[t].account] = "deleting"
    ELSE owner'[t].account = owner[t].account /\ owner'[t].revision > owner[t].revision

-----------------------------------------------------------------------------
(* The invariant the properties are proved from (AccountRecordsProofs) *)

\* What a handoff saw was the account's own or nobody's; the account of an erasure is
\* being deleted, and keeps no locator it found none of.
JobInv(w) ==
  LET j == job[w] IN
  /\ j.kind \in {None, "handoff", "claim", "erase"}
  /\ j.phase # "idle" => j.account \in Accounts
  /\ j.phase \in {"observed", "proven"} =>
       /\ j.kind \in {"handoff", "claim"} /\ j.token \in Tokens
       /\ j.kind = "handoff" =>
            \A u \in Lineage(j.token) : j.seen[u] # None => j.seen[u].account = j.account
  /\ j.phase \in {"page", "complete"} => j.kind = "erase" /\ account[j.account] = "deleting"
  /\ j.phase = "page" => j.page \subseteq Tokens
  /\ j.phase = "complete" => \A t \in Tokens : <<j.account, t>> \notin located

IInv ==
  /\ TypeOK /\ DOMAIN owner = Tokens
  /\ LocksPaired /\ ChainOfOne /\ HeadIsOwned /\ ErasedForGood
  /\ \A a \in erased : account[a] = "deleting"
  /\ DOMAIN job = Workers /\ \A w \in Workers : JobInv(w)
=============================================================================
