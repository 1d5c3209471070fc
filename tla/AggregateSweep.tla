---------------------------- MODULE AggregateSweep ----------------------------
(***************************************************************************)
(* The sweep that deletes campaign aggregates and their audit rows once    *)
(* they have expired (shared_campaign_work.aggregates).                    *)
(*                                                                         *)
(* Runs walk the shards of an index that may lag, a page at a time and two *)
(* pages a run, from a checkpoint all runs share.  A pass keeps the high   *)
(* water mark it began with.  A checkpoint that has not moved for a day is *)
(* given up: the sweep goes on with the next shard, and the pass no longer *)
(* counts as a full one.  A page is passed before its rows are deleted, so *)
(* a full pass has met every row, and has not surely deleted it.           *)
(*                                                                         *)
(* A run that has read a checkpoint another run has written since is told  *)
(* apart by its mark, `same`.                                              *)
(***************************************************************************)
EXTENDS Integers, Sequences, FiniteSets, FiniteSetsExt, SequencesExt

CONSTANTS
  Rows,       \* 1 .. n, in the order of their ids
  ShardOf,    \* expiryPartition of a row
  ExpiresAt,
  BadKey,     \* rows whose index entry is malformed
  BadRow,     \* rows that do not pass validation
  Runs,       \* runs at the same time
  Shards,
  PageRows,   \* rows of a page
  Window,     \* life of a checkpoint
  MaxTime,    \* bound on the clock
  None

VARIABLES
  now,         \* the clock
  live,        \* rows of the table
  shown,       \* rows of the index
  checkpoint,  \* AGGREGATE_SWEEP, or None
  run,         \* what a run knows, or None
  due,         \* rows the index showed as expired when the pass began
  met          \* rows on the pages of the pass

vars == <<now, live, shown, checkpoint, run, due, met>>

Init ==
  /\ now = 1
  /\ live = Rows
  /\ shown \in SUBSET Rows
  /\ checkpoint = None
  /\ run = [w \in Runs |-> None]
  /\ due = {}
  /\ met = {}

Sound(r) == r \notin BadKey \cup BadRow
Expired(t) == {r \in shown : ExpiresAt[r] <= t}
At(w, step) == run[w] # None /\ run[w].at = step

\* The index catches up with the table.
Show(r) ==
  /\ (r \in shown) # (r \in live)
  /\ shown' = IF r \in live THEN shown \cup {r} ELSE shown \ {r}
  /\ UNCHANGED <<now, live, checkpoint, run, due, met>>

Tick ==
  /\ now < MaxTime
  /\ now' = now + 1
  /\ UNCHANGED <<live, shown, checkpoint, run, due, met>>

-----------------------------------------------------------------------------
(* A run *)

\* The place a checkpoint stands for at time t. One that has run out stands
\* for the next shard, and unless that begins a pass, the pass has a gap.
Gap(c, t) == IF c.expires > t THEN c.incomplete ELSE (c.shard + 1) % Shards # 0

Place(c, t) ==
  IF c = None THEN [shard |-> 0, high |-> t, cursor |-> None, incomplete |-> FALSE, full |-> 0, fresh |-> TRUE]
  ELSE IF c.expires > t
    THEN [shard |-> c.shard, high |-> c.high, cursor |-> c.cursor, incomplete |-> Gap(c, t), full |-> c.full, fresh |-> FALSE]
    ELSE [shard |-> (c.shard + 1) % Shards, high |-> t, cursor |-> None, incomplete |-> Gap(c, t), full |-> c.full, fresh |-> TRUE]

Read(w) ==
  /\ run[w] = None \/ (At(w, "rows") /\ run[w].page = 1 /\ run[w].items = <<>>)
  /\ run' = [run EXCEPT ![w] =
       [at |-> "query", page |-> IF run[w] = None THEN 1 ELSE 2, clock |-> now, place |-> Place(checkpoint, now),
        due |-> IF Place(checkpoint, now).fresh THEN Expired(now) ELSE {}, items |-> <<>>, same |-> TRUE]]
  /\ UNCHANGED <<now, live, shown, checkpoint, due, met>>

Before(a, b) == ExpiresAt[a] < ExpiresAt[b] \/ (ExpiresAt[a] = ExpiresAt[b] /\ a < b)

Query(w) ==
  LET p == run[w].place
      rest == {r \in Expired(p.high) : ShardOf[r] = p.shard /\ (p.cursor # None => Before(p.cursor, r))}
      found == SetToSortSeq(rest, Before)
  IN  /\ At(w, "query")
      /\ run' = [run EXCEPT ![w].at = "save", ![w].items = SubSeq(found, 1, Min({PageRows, Len(found)}))]
      /\ UNCHANGED <<now, live, shown, checkpoint, due, met>>

\* A full page ends with a key the next one begins after, which has to be sound.
Cursor(w) == IF Len(run[w].items) = PageRows THEN run[w].items[PageRows] ELSE None
Ends(w) == Cursor(w) = None /\ run[w].place.shard = Shards - 1

Next1(w) ==
  LET p == run[w].place
  IN  [shard |-> IF Ends(w) THEN 0 ELSE IF Cursor(w) = None THEN p.shard + 1 ELSE p.shard,
       high |-> IF Ends(w) THEN run[w].clock ELSE p.high,
       cursor |-> Cursor(w),
       expires |-> (IF Ends(w) THEN run[w].clock ELSE p.high) + Window,
       incomplete |-> ~Ends(w) /\ p.incomplete,
       full |-> IF Ends(w) /\ ~p.incomplete THEN run[w].clock ELSE p.full]

Save(w) ==
  LET items == {run[w].items[i] : i \in DOMAIN run[w].items}
  IN  /\ At(w, "save")
      /\ run[w].same
      /\ Cursor(w) \notin BadKey
      /\ checkpoint' = Next1(w)
      /\ due' = IF Ends(w) THEN Expired(run[w].clock) ELSE IF run[w].place.fresh THEN run[w].due ELSE due
      /\ met' = IF Ends(w) THEN {} ELSE IF run[w].place.fresh THEN items ELSE met \cup items
      /\ run' = [v \in Runs |-> IF v = w THEN [run[v] EXCEPT !.at = "rows"]
                                ELSE IF run[v] # None THEN [run[v] EXCEPT !.same = FALSE] ELSE None]
      /\ UNCHANGED <<now, live, shown>>

\* A row is read and deleted as it was read. One that is bad, gone or not
\* expired is passed over, and so is one whose delete fails.
Delete(w) ==
  LET r == run[w].items[1]
  IN  /\ At(w, "rows")
      /\ run[w].items # <<>>
      /\ \/ /\ r \in live /\ Sound(r)
            /\ ExpiresAt[r] <= now
            /\ live' = live \ {r}
         \/ UNCHANGED live
      /\ run' = [run EXCEPT ![w].items = Tail(@)]
      /\ UNCHANGED <<now, shown, checkpoint, due, met>>

\* After two pages, or with an error, or because it died.
End(w) ==
  /\ run[w] # None
  /\ run' = [run EXCEPT ![w] = None]
  /\ UNCHANGED <<now, live, shown, checkpoint, due, met>>

-----------------------------------------------------------------------------

Next ==
  \/ \E r \in Rows : Show(r)
  \/ Tick
  \/ \E w \in Runs : Read(w) \/ Query(w) \/ Save(w) \/ Delete(w) \/ End(w)

Spec == Init /\ [][Next]_vars

-----------------------------------------------------------------------------
(* Properties *)

\* The rows have their fields.
TypeOK ==
  /\ live \subseteq Rows
  /\ shown \subseteq Rows
  /\ due \cup met \subseteq Rows
  /\ checkpoint # None =>
       /\ checkpoint.shard \in 0 .. Shards - 1
       /\ checkpoint.high \in 1 .. now
       /\ checkpoint.cursor \in Rows \cup {None}
       /\ checkpoint.full \in 0 .. now

FullOf(c) == IF c = None THEN 0 ELSE c.full

\* A pass that is recorded as full has met every row that the index showed as
\* expired when it began, or the row was gone before: runs that overlap, die
\* or give up a shard leave no page of it out unseen. The end of a pass is met
\* with the page that ends it.
FullPass ==
  FullOf(checkpoint') # FullOf(checkpoint) =>
    LET w == CHOOSE v \in Runs : run[v] # None /\ run'[v] # None /\ run[v].at = "save" /\ run'[v].at = "rows"
        page == {run[w].items[i] : i \in DOMAIN run[w].items}
        began == IF run[w].place.fresh THEN run[w].due ELSE due
    IN  began \cap live \subseteq met \cup page
===============================================================================
