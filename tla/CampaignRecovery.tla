--------------------------- MODULE CampaignRecovery ---------------------------
(***************************************************************************)
(* How a withdrawal or a deletion is brought to the campaign's cleanup     *)
(* until it is done: the stream's batches, which are delivered again while *)
(* any of their commands is open (campaign_deletion_bridge.app), and the   *)
(* recovery worker's runs over an index of due jobs                        *)
(* (shared_campaign_recovery.worker).                                      *)
(*                                                                         *)
(* A command is written with a job, and they end together.  The control    *)
(* row of an account counts its jobs.  A run keeps the clock it began      *)
(* with, reads an index that may lag, and may end anywhere; runs may       *)
(* overlap.  The cleanup itself is RetainedPeriods and Campaign: here it   *)
(* completes the command or does not.                                      *)
(***************************************************************************)
EXTENDS Integers, Sequences, FiniteSets, FiniteSetsExt, SequencesExt

CONSTANTS
  Jobs,       \* 1 .. n: the commands, in the order of their stream records
  OwnerOf,    \* account of a command
  ShardOf,    \* index partition of its job
  Bad,        \* commands whose rows do not pass validation
  Workers,    \* runs at the same time
  Shards,     \* SHARDS
  PageRows,   \* rows of a page
  Pages,      \* pages of a shard in a run
  Attempts,   \* attempts of a run
  Delay,      \* wait of a job after an attempt
  Turn,       \* how long runs begin with the same shard
  Streaming,  \* whether the stream still has the records, which it keeps for a day
  MaxTime,    \* bound on the clock
  None

VARIABLES
  now,    \* the clock
  row,    \* recovery job of a command: revision and nextAttemptAtEpoch, or None
  index,  \* where the index still shows a job, or None
  done,   \* commands that are COMPLETE
  run,    \* what a run of the worker knows, or None
  batch,  \* where the handler of the stream's batch is, or None
  acked,  \* the stream has seen the batch acknowledged
  last    \* the clock of the last run that attempted a command

vars == <<now, row, index, done, run, batch, acked, last>>

Init ==
  /\ now = 0
  /\ row = [j \in Jobs |-> None]
  /\ index = [j \in Jobs |-> None]
  /\ done = {}
  /\ run = [w \in Workers |-> None]
  /\ batch = None
  /\ acked = FALSE
  /\ last = [j \in Jobs |-> None]

\* The control row changes with each job that comes or goes.
Control(a) ==
  LET own == {j \in Jobs : OwnerOf[j] = a}
  IN  Cardinality({j \in own : row[j] # None}) + 2 * Cardinality(own \cap done)

Asked(j) == row[j] # None \/ j \in done

\* parse_deletion_record of the stream's image; validate_job of the worker's row.
Parsed(j) == j \notin Bad
Validated(j) == j \notin Bad

Shard(r) == ((r.now \div Turn) + r.offset) % Shards
At(w, step) == run[w] # None /\ run[w].at = step

-----------------------------------------------------------------------------

\* enqueue_actions: the job comes with its command, due at once.
Enqueue(j) ==
  /\ ~Asked(j)
  /\ row' = [row EXCEPT ![j] = [revision |-> 1, next |-> now]]
  /\ UNCHANGED <<now, index, done, run, batch, acked, last>>

\* The index catches up with a row.
Show(j) ==
  LET shown == IF row[j] = None THEN None ELSE row[j].next
  IN  /\ index[j] # shown
      /\ index' = [index EXCEPT ![j] = shown]
      /\ UNCHANGED <<now, row, done, run, batch, acked, last>>

Tick ==
  /\ now < MaxTime
  /\ now' = now + 1
  /\ UNCHANGED <<row, index, done, run, batch, acked, last>>

-----------------------------------------------------------------------------
(* The stream *)

Receive ==
  /\ Streaming
  /\ batch = None
  /\ ~acked
  /\ \A j \in Jobs : Asked(j)
  /\ batch' = [at |-> 1, pending |-> FALSE]
  /\ UNCHANGED <<now, row, index, done, run, acked, last>>

\* Whoever calls for it, the cleanup ends a command together with its job.
Finish(j) ==
  /\ row[j] # None
  /\ row' = [row EXCEPT ![j] = None]
  /\ done' = done \cup {j}

\* Mutant: what an error leaves open is not counted.
CountNothing(b) == [at |-> b.at + 1, pending |-> b.pending]

CountOpen(b) == [at |-> b.at + 1, pending |-> TRUE]

\* A command that is complete already is acknowledged as such.
Replayed(j) == j \in done /\ UNCHANGED <<row, done>>

Process ==
  /\ batch # None
  /\ batch.at \in Jobs
  /\ \/ /\ Parsed(batch.at)
        /\ Finish(batch.at) \/ Replayed(batch.at)
        /\ batch' = [batch EXCEPT !.at = @ + 1]
     \/ /\ batch.at \notin done
        /\ batch' = CountOpen(batch)
        /\ UNCHANGED <<row, done>>
  /\ UNCHANGED <<now, index, run, acked, last>>

\* The handler raises while anything is open, and the batch comes again.
Acknowledge ==
  /\ batch # None
  /\ batch.at \notin Jobs
  /\ acked' = ~batch.pending
  /\ batch' = None
  /\ UNCHANGED <<now, row, index, done, run, last>>

StreamDies ==
  /\ batch # None
  /\ batch' = None
  /\ UNCHANGED <<now, row, index, done, run, acked, last>>

-----------------------------------------------------------------------------
(* A run of the worker *)

Due(t) == {j \in Jobs : Validated(j) /\ row[j] # None /\ index[j] = row[j].next /\ row[j].next <= t}

Begin(w) ==
  /\ run[w] = None
  /\ run' = [run EXCEPT ![w] =
       [at |-> "query", now |-> now, offset |-> 0, page |-> 1, cursor |-> None, items |-> <<>>, tried |-> 0,
        read |-> None, cut |-> {},
        due |-> {[job |-> j, revision |-> row[j].revision, control |-> Control(OwnerOf[j])] : j \in Due(now)}]]
  /\ UNCHANGED <<now, row, index, done, batch, acked, last>>

Before(a, b) == a.next < b.next \/ (a.next = b.next /\ a.job < b.job)

\* The shard's jobs that the index shows as due, after the last page's end.
Candidates(r) ==
  LET entries == {[job |-> j, next |-> index[j]] : j \in {x \in Jobs : ShardOf[x] = Shard(r) /\ index[x] # None}}
  IN  SetToSortSeq({e \in entries : e.next <= r.now /\ (r.cursor # None => Before(r.cursor, e))}, Before)

Query(w) ==
  LET r == run[w]
      found == Candidates(r)
      page == SubSeq(found, 1, Min({PageRows, Len(found)}))
  IN  /\ At(w, "query")
      /\ r.tried < Attempts
      /\ run' = [run EXCEPT ![w].at = "item", ![w].items = page,
                            ![w].cursor = IF Len(page) = PageRows THEN page[PageRows] ELSE None]
      /\ UNCHANGED <<now, row, index, done, batch, acked, last>>

Head1(w) == run[w].items[1].job
Drop(w) == [run EXCEPT ![w].at = "item", ![w].items = Tail(@), ![w].read = None]

\* A job that is gone or not due is passed over, and so is one whose row is
\* bad; of any other the worker reads job, command and control.
Item(w) ==
  LET j == Head1(w)
  IN  /\ At(w, "item")
      /\ run[w].items # <<>>
      /\ run[w].tried < Attempts
      /\ run' = IF row[j] = None \/ ~Validated(j) THEN Drop(w)
                ELSE IF row[j].next > run[w].now THEN Drop(w)
                ELSE [run EXCEPT ![w].at = "claim",
                        ![w].read = [revision |-> row[j].revision, control |-> Control(OwnerOf[j])]]
      /\ UNCHANGED <<now, row, index, done, batch, acked, last>>

AsRead(j, read) == row[j] # None /\ row[j].revision = read.revision /\ Control(OwnerOf[j]) = read.control

\* The job is put off before its command is attempted.
Claim(w) ==
  LET j == Head1(w)
  IN  /\ At(w, "claim")
      /\ IF AsRead(j, run[w].read)
           THEN /\ row' = [row EXCEPT ![j] = [revision |-> @.revision + 1, next |-> run[w].now + Delay]]
                /\ run' = [run EXCEPT ![w].at = "clean", ![w].tried = @ + 1]
                /\ last' = [last EXCEPT ![j] = run[w].now]
           ELSE run' = Drop(w) /\ UNCHANGED <<row, last>>
      /\ UNCHANGED <<now, index, done, batch, acked>>

Clean(w) ==
  /\ At(w, "clean")
  /\ Finish(Head1(w)) \/ UNCHANGED <<row, done>>
  /\ run' = Drop(w)
  /\ UNCHANGED <<now, index, batch, acked, last>>

\* The next page of the shard, or the next shard, or the end of the run.
TurnPage(w) ==
  LET r == run[w]
      shard == [r EXCEPT !.at = "query", !.offset = @ + 1, !.page = 1, !.cursor = None,
                         !.cut = IF r.cursor = None THEN @ ELSE @ \cup {Shard(r)}]
  IN  /\ At(w, "item")
      /\ r.items = <<>>
      /\ run' = [run EXCEPT ![w] =
           IF r.cursor # None /\ r.page < Pages THEN [r EXCEPT !.at = "query", !.page = @ + 1]
           ELSE IF r.offset + 1 < Shards THEN shard ELSE [shard EXCEPT !.at = "end", !.tried = 0]]
      /\ UNCHANGED <<now, row, index, done, batch, acked, last>>

\* After its last shard, or where its budget or its life ends.
End(w) ==
  /\ run[w] # None
  /\ run' = [run EXCEPT ![w] = None]
  /\ UNCHANGED <<now, row, index, done, batch, acked, last>>

-----------------------------------------------------------------------------

Next ==
  \/ \E j \in Jobs : Enqueue(j) \/ Show(j)
  \/ Tick \/ Receive \/ Process \/ Acknowledge \/ StreamDies
  \/ \E w \in Workers : Begin(w) \/ Query(w) \/ Item(w) \/ Claim(w) \/ Clean(w) \/ TurnPage(w) \/ End(w)

Spec == Init /\ [][Next]_vars

-----------------------------------------------------------------------------
(* Properties *)

\* The rows have their fields, and a command is open while it has its job.
TypeOK ==
  /\ done \subseteq Jobs
  /\ \A j \in Jobs : row[j] # None => j \notin done /\ row[j].revision \in Nat
  /\ acked \in BOOLEAN

\* A batch is acknowledged only when each of its commands is complete: one
\* that failed among others that did not is delivered again.
NothingDropped == acked => done = Jobs

\* A run that comes to its end without having used up its attempts has come
\* to every job that was due when it began: each has been put off since or is
\* done, by this run or another, or its account's jobs have changed; unless
\* the shard has more due jobs than a run reads.
RunsReachAll ==
  \A w \in Workers : At(w, "end") =>
    \A d \in run[w].due :
      \/ ShardOf[d.job] \in run[w].cut
      \/ row[d.job] = None
      \/ row[d.job].revision # d.revision
      \/ Control(OwnerOf[d.job]) # d.control

\* Runs that overlap, or whose index lags, do not attempt a command twice
\* within its wait.
Spaced ==
  \A j \in Jobs : last'[j] # last[j] /\ last[j] # None => last'[j] >= last[j] + Delay
===============================================================================
