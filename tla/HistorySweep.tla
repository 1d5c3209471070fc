---------------------------- MODULE HistorySweep ----------------------------
(***************************************************************************)
(* Expiry of the History (history_lifecycle, its sweep): records are found *)
(* by the hour and shard they expire in, along an index that lags, in      *)
(* three lanes with checkpoints of their own, and their locators by a      *)
(* fourth; of each, the content goes first, then the replay it could be    *)
(* restored from, then the locator, in separate writes.                    *)
(***************************************************************************)
EXTENDS Naturals, FiniteSets, FiniteSetsExt

CONSTANTS
  Records,    \* records, each with a locator and a replay
  ExpiresAt,  \* of each
  ShardOf,    \* the shard of its bucket
  Workers,    \* invocations in flight
  Hour,       \* length of an hour
  Shards,
  Window,     \* expiration_reconciliation_hours
  LaneItems,  \* records a lane may delete, and its page
  LaneQueries,\* buckets a lane may query
  MaxTime,    \* bound of the clock
  None

VARIABLES
  now,
  content,  \* records whose content there is
  index,    \* records the expiry index shows
  locator,  \* "ACTIVE", "EXPIRED" or "DELETED"
  replay,   \* records whose replay still has a response
  backlog,  \* checkpoint EXPIRATION: a bucket
  lap,      \* checkpoint RECONCILIATION: a bucket
  job,
  late      \* ghost: records the index did not show by the end of their hour

vars == <<now, content, index, locator, replay, backlog, lap, job, late>>

HourOf(t) == t \div Hour
Bucket(r) == HourOf(ExpiresAt[r]) * Shards + ShardOf[r]

Idle == [lane |-> "none", phase |-> "idle", at |-> 0, bucket |-> 0, page |-> {}, item |-> None,
         more |-> FALSE, deleted |-> 0, queries |-> 0, fresh |-> FALSE]

TypeOK ==
  /\ now \in 0..MaxTime
  /\ content \subseteq Records /\ index \subseteq Records /\ late \subseteq Records
  /\ replay \subseteq Records
  /\ locator \in [Records -> {"ACTIVE", "EXPIRED", "DELETED"}]
  /\ backlog \in 0..(HourOf(MaxTime) + 1) * Shards /\ lap \in 0..(HourOf(MaxTime) + 1) * Shards
  /\ \A w \in Workers : job[w].bucket \in 0..(HourOf(MaxTime) + 1) * Shards

Init ==
  /\ now = 0 /\ content = Records /\ index \in SUBSET Records /\ replay = Records
  /\ locator = [r \in Records |-> "ACTIVE"]
  /\ backlog = 0 /\ lap = 0 /\ job = [w \in Workers |-> Idle] /\ late = {}

Step(w, next) == job' = [job EXCEPT ![w] = next]

\* The last closed hour, as the code counts it.
ClosedHour(at) == HourOf(at) - 1
Closed(j, bucket) == HourOf(j.at) > 0 /\ bucket \div Shards <= ClosedHour(j.at)
WindowStart(at) == IF HourOf(at) > Window THEN (HourOf(at) - Window) * Shards ELSE 0

-----------------------------------------------------------------------------
(* The lanes *)

Start(w) ==
  /\ job[w] = Idle
  /\ Step(w, [Idle EXCEPT !.lane = "current", !.phase = "query", !.at = now, !.bucket = HourOf(now) * Shards])
  /\ UNCHANGED <<now, content, index, locator, replay, backlog, lap, late>>

\* Has the lane a bucket to query, and budget?
Going(j) ==
  /\ j.deleted < LaneItems
  /\ CASE j.lane = "current" -> j.bucket \div Shards = HourOf(j.at)
       [] j.lane = "backlog" -> Closed(j, j.bucket) /\ j.queries < LaneQueries
       [] OTHER -> HourOf(j.at) > 0 /\ j.queries < LaneQueries

\* _query_expiration_bucket: what the index shows of the bucket, the first to expire first.
Query(w) ==
  LET j == job[w]
      shown == {r \in index : Bucket(r) = j.bucket /\ ExpiresAt[r] <= j.at}
      limit == LaneItems - j.deleted IN
    /\ j.phase = "query" /\ Going(j)
    /\ \E page \in SUBSET shown :
         /\ Cardinality(page) = Min({limit, Cardinality(shown)})
         /\ \A r \in page, s \in shown \ page : ExpiresAt[r] <= ExpiresAt[s]
         /\ Step(w, [j EXCEPT !.phase = "page", !.page = page, !.more = Cardinality(page) = limit,
                              !.queries = @ + 1])
    /\ UNCHANGED <<now, content, index, locator, replay, backlog, lap, late>>

\* The content of a record, if there is any.
DeleteContent(w) ==
  LET j == job[w] IN
    /\ j.phase = "page"
    /\ \E r \in j.page :
         /\ content' = content \ {r}
         /\ Step(w, [j EXCEPT !.phase = "redact", !.item = r, !.page = @ \ {r},
                              !.deleted = IF r \in content THEN @ + 1 ELSE @])
    /\ UNCHANGED <<now, index, locator, replay, backlog, lap, late>>

\* _expire_locator_and_replay.
Redact(w) ==
  /\ job[w].phase = "redact"
  /\ replay' = replay \ {job[w].item}
  /\ Step(w, [job[w] EXCEPT !.phase = "locate"])
  /\ UNCHANGED <<now, content, index, locator, backlog, lap, late>>

ExpireLocator(w) ==
  LET r == job[w].item IN
    /\ job[w].phase = "locate"
    /\ locator' = IF locator[r] = "ACTIVE" THEN [locator EXCEPT ![r] = "EXPIRED"] ELSE locator
    /\ Step(w, IF job[w].lane = "pending" THEN Idle ELSE [job[w] EXCEPT !.phase = "page", !.item = None])
    /\ UNCHANGED <<now, content, index, replay, backlog, lap, late>>

\* The page is done. The hour that runs: the next shard.
NextShard(w) ==
  LET j == job[w] IN
    /\ j.phase = "page" /\ j.page = {} /\ j.lane = "current"
    /\ Step(w, [j EXCEPT !.phase = "query", !.bucket = @ + 1, !.more = FALSE])
    /\ UNCHANGED <<now, content, index, locator, replay, backlog, lap, late>>

\* A write of a checkpoint: another run that read it writes it no more.
Passed(w, lane, next) ==
  job' = [v \in Workers |-> IF v = w THEN next
                            ELSE IF job[v].lane = lane THEN [job[v] EXCEPT !.fresh = FALSE]
                            ELSE job[v]]

\* Is the bucket done?
Emptied(j) == j.page = {} /\ ~j.more

\* _sweep_backlog: the checkpoint moves on from a bucket with no more.
AdvanceBacklog(w) ==
  LET j == job[w] IN
    /\ j.phase = "page" /\ Emptied(j) /\ j.lane = "backlog" /\ j.fresh
    /\ backlog' = j.bucket + 1
    /\ Passed(w, "backlog", [j EXCEPT !.phase = "query", !.bucket = @ + 1])
    /\ UNCHANGED <<now, content, index, locator, replay, lap, late>>

\* _sweep_reconciliation: round and round the buckets of the last hours.
AdvanceLap(w) ==
  LET j == job[w]
      next == IF Closed(j, j.bucket + 1) THEN j.bucket + 1 ELSE WindowStart(j.at) IN
    /\ j.phase = "page" /\ Emptied(j) /\ j.lane = "reconcile" /\ j.fresh
    /\ lap' = next
    /\ Passed(w, "reconcile", [j EXCEPT !.phase = "query", !.bucket = next])
    /\ UNCHANGED <<now, content, index, locator, replay, backlog, late>>

\* A full page of the reconciliation: the same bucket again.
Again(w) ==
  LET j == job[w] IN
    /\ j.phase = "page" /\ j.page = {} /\ j.lane = "reconcile" /\ j.more
    /\ Step(w, [j EXCEPT !.phase = "query", !.more = FALSE])
    /\ UNCHANGED <<now, content, index, locator, replay, backlog, lap, late>>

Over(w) ==
  \/ job[w].phase = "query" /\ ~Going(job[w])
  \/ job[w].phase = "page" /\ job[w].page = {} /\ job[w].lane = "backlog" /\ job[w].more

\* The next lane, with its checkpoint; that of the reconciliation is put back in the window.
BeginBacklog(w) ==
  /\ job[w].lane = "current" /\ Over(w)
  /\ Step(w, [Idle EXCEPT !.lane = "backlog", !.phase = "query", !.at = job[w].at,
                          !.bucket = backlog, !.fresh = TRUE])
  /\ UNCHANGED <<now, content, index, locator, replay, backlog, lap, late>>

InWindow(j) == WindowStart(j.at) <= lap /\ Closed(j, lap)

BeginReconcile(w) ==
  LET j == job[w]
      at == IF HourOf(j.at) = 0 \/ InWindow(j) THEN lap ELSE WindowStart(j.at) IN
    /\ j.lane = "backlog" /\ Over(w)
    /\ lap' = at
    /\ LET next == [Idle EXCEPT !.lane = "reconcile", !.phase = "query", !.at = j.at,
                                !.bucket = at, !.fresh = TRUE] IN
         IF at = lap THEN Step(w, next) ELSE Passed(w, "reconcile", next)
    /\ UNCHANGED <<now, content, index, locator, replay, backlog, late>>

\* _process_retention_job: a locator whose time has come, found by an index of its own, in
\* any order and sooner or later; what the lanes left of it is done.
Retain(w, r) ==
  /\ job[w].lane = "reconcile" /\ Over(w)
  /\ locator[r] = "ACTIVE" /\ ExpiresAt[r] <= job[w].at
  /\ content' = content \ {r}
  /\ Step(w, [Idle EXCEPT !.lane = "pending", !.phase = "redact", !.at = job[w].at, !.item = r])
  /\ UNCHANGED <<now, index, locator, replay, backlog, lap, late>>

\* The end, or an error, a checkpoint another run has written, a timeout.
Stop(w) ==
  /\ job[w] # Idle /\ Step(w, Idle)
  /\ UNCHANGED <<now, content, index, locator, replay, backlog, lap, late>>

-----------------------------------------------------------------------------
(* Around it *)

\* The index shows a record, or no longer shows one that is gone.
Propagate(r) ==
  /\ (r \in index) # (r \in content)
  /\ index' = IF r \in content THEN index \cup {r} ELSE index \ {r}
  /\ late' = IF r \in content /\ HourOf(now) > HourOf(ExpiresAt[r]) THEN late \cup {r} ELSE late
  /\ UNCHANGED <<now, content, locator, replay, backlog, lap, job>>

\* The account's own deletion of a record (History): one transaction, then the replay.
Delete(r) ==
  /\ locator[r] = "ACTIVE" /\ r \in content
  /\ content' = content \ {r} /\ replay' = replay \ {r}
  /\ locator' = [locator EXCEPT ![r] = "DELETED"]
  /\ UNCHANGED <<now, index, backlog, lap, job, late>>

Tick ==
  /\ now < MaxTime /\ now' = now + 1
  /\ UNCHANGED <<content, index, locator, replay, backlog, lap, job, late>>

Next ==
  \/ \E w \in Workers :
       \/ Start(w) \/ Query(w) \/ DeleteContent(w) \/ Redact(w) \/ ExpireLocator(w)
       \/ NextShard(w) \/ AdvanceBacklog(w) \/ AdvanceLap(w) \/ Again(w)
       \/ BeginBacklog(w) \/ BeginReconcile(w) \/ Stop(w)
       \/ \E r \in Records : Retain(w, r)
  \/ \E r \in Records : Propagate(r) \/ Delete(r)
  \/ Tick

-----------------------------------------------------------------------------
(* Properties *)

\* A locator is given up only when nothing it leads to is left: a sweep that dies after the
\* content went, or one that races another, leaves the replay to be found by its locator.
LocatorLast ==
  \A r \in Records : locator[r] # "ACTIVE" => r \notin content /\ r \notin replay

\* The backlog's checkpoint leaves nothing behind that the index showed in time, across
\* full pages, budgets that ran out, crashes and runs that overlap.
NothingPassed ==
  \A r \in content \cap index : r \in late \/ Bucket(r) >= backlog

\* Nor does a record go before its time, though a sweep judges it by the clock it began with.
NothingEarly ==
  \A r \in Records :
    r \notin content /\ locator[r] # "DELETED" => ExpiresAt[r] <= now

-----------------------------------------------------------------------------
(* The invariant the properties are proved from (HistoryProofs) *)

SweepAssumption ==
  /\ IsFiniteSet(Records) /\ ExpiresAt \in [Records -> Nat] /\ ShardOf \in [Records -> 0..Shards - 1]
  /\ {Hour, Shards, LaneItems} \subseteq Nat \ {0} /\ {Window, LaneQueries, MaxTime} \subseteq Nat

Last == (HourOf(MaxTime) + 1) * Shards

Jobs == [lane : {"current", "backlog", "reconcile", "pending"}, phase : {"query", "page", "redact", "locate"},
         at : 0..now, bucket : 0..Last, page : SUBSET Records, item : Records \cup {None}, more : BOOLEAN,
         deleted : Nat, queries : Nat, fresh : BOOLEAN]

\* What a lane found has expired; what it deletes is gone, in the order it goes.
ItemInv(j) ==
  /\ \A r \in j.page : ExpiresAt[r] <= j.at
  /\ j.phase \in {"redact", "locate"} =>
       j.item \in Records /\ j.item \notin content /\ ExpiresAt[j.item] <= j.at
  /\ j.phase = "locate" => j.item \notin replay

\* A bucket of an hour that is over has nothing that is not in the page, if that is the
\* last one, or came to the index late.
BucketInv(j) ==
  /\ j.lane = "current" /\ j.phase # "query" => j.bucket \div Shards = HourOf(j.at)
  /\ j.lane = "backlog" =>
       /\ j.fresh => j.bucket = backlog
       /\ j.phase # "query" =>
            /\ Closed(j, j.bucket)
            /\ ~j.more => \A r \in content \cap index : Bucket(r) = j.bucket => r \in late \cup j.page

JobInv(j) == j = Idle \/ (j \in Jobs /\ ItemInv(j) /\ BucketInv(j))

IInv ==
  /\ TypeOK /\ LocatorLast /\ NothingPassed /\ NothingEarly
  /\ \A r \in Records : Bucket(r) < backlog => HourOf(ExpiresAt[r]) < HourOf(now)
  /\ DOMAIN job = Workers /\ \A w \in Workers : JobInv(job[w])

Spec == Init /\ [][Next]_vars

=============================================================================
