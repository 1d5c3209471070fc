------------------------------ MODULE MCRecords ------------------------------
(***************************************************************************)
(* The records kept beside the check authority and the services that sweep *)
(* and erase them, for TLC. They run one at a time, `part`, on variables   *)
(* they share: what the running part does not use stays None.              *)
(***************************************************************************)
EXTENDS Naturals, Sequences, TLC

CONSTANTS
  Workers,   \* invocations at work at once
  Choices,   \* targets, or what else there are two of
  w1, a1, a2,
  None

VARIABLES part, v1, v2, v3, v4, v5, v6, v7, v8, v9, v10, v11, v12
vars == <<part, v1, v2, v3, v4, v5, v6, v7, v8, v9, v10, v11, v12>>

\* Two sweeps over one period, and one over two.
Work == INSTANCE PeriodWork WITH
  Last <- 1, Targets <- Choices, Groups <- {Choices}, Sweeps <- Workers, Limit <- 2, Attempts <- 1, Span <- 1,
  Recovery <- 1, MaxOrdinal <- 2, MaxPass <- 1, MaxTime <- 2,
  now <- v1, registry <- v2, control <- v3, target <- v4, work <- v5, lookup <- v6, key <- v7, prefix <- v8,
  sweep <- v9, job <- v10, tried <- v11, waiting <- v12
Prefix == INSTANCE PeriodWork WITH
  Last <- 2, Targets <- {a1}, Groups <- {{a1}}, Sweeps <- {a2}, Limit <- 2, Attempts <- 1, Span <- 1,
  Recovery <- 1, MaxOrdinal <- 1, MaxPass <- 1, MaxTime <- 3,
  now <- v1, registry <- v2, control <- v3, target <- v4, work <- v5, lookup <- v6, key <- v7, prefix <- v8,
  sweep <- v9, job <- v10, tried <- v11, waiting <- v12

\* The turns of three periods, two of which cannot be swept, and the rows of two.
Rounds == INSTANCE RetainedPeriods WITH
  Last <- 3, PerPeriod <- 0, Old <- {}, Broken <- {1, 2}, Steps <- 0, MaxRevision <- 1,
  period <- v1, minimum <- v2, command <- v3, revision <- v4, rows <- v5, tomb <- v6, job <- v7, view <- v8,
  reported <- v9, skipped <- v10
Kept == INSTANCE RetainedPeriods WITH
  Last <- 2, PerPeriod <- 1, Old <- {1}, Broken <- {}, Steps <- 2, MaxRevision <- 1,
  period <- v1, minimum <- v2, command <- v3, revision <- v4, rows <- v5, tomb <- v6, job <- v7, view <- v8,
  reported <- v9, skipped <- v10

\* Two runs beside the stream; one over two shards; a command that never parses.
Ticks == INSTANCE CampaignRecovery WITH
  Jobs <- {1}, OwnerOf <- <<a1>>, ShardOf <- <<0>>, Bad <- {}, Shards <- 1, PageRows <- 1, Pages <- 1, Attempts <- 1,
  Delay <- 1, Turn <- 1, Streaming <- TRUE, MaxTime <- 2,
  now <- v1, row <- v2, index <- v3, done <- v4, run <- v5, batch <- v6, acked <- v7, last <- v8
Sharded == INSTANCE CampaignRecovery WITH
  Workers <- {w1}, Jobs <- 1 .. 3, OwnerOf <- <<a1, a2, a1>>, ShardOf <- <<0, 0, 1>>, Bad <- {}, Shards <- 2,
  PageRows <- 1, Pages <- 2, Attempts <- 1, Delay <- 1, Turn <- 1, Streaming <- FALSE, MaxTime <- 1,
  now <- v1, row <- v2, index <- v3, done <- v4, run <- v5, batch <- v6, acked <- v7, last <- v8
Batch == INSTANCE CampaignRecovery WITH
  Workers <- {w1}, Jobs <- 1 .. 2, OwnerOf <- <<a1, a1>>, ShardOf <- <<0, 0>>, Bad <- {1}, Shards <- 1,
  PageRows <- 1, Pages <- 1, Attempts <- 2, Delay <- 1, Turn <- 1, Streaming <- TRUE, MaxTime <- 1,
  now <- v1, row <- v2, index <- v3, done <- v4, run <- v5, batch <- v6, acked <- v7, last <- v8

\* Two runs over one shard, and one over two among bad rows.
Rivals == INSTANCE AggregateSweep WITH
  Rows <- 1 .. 2, ShardOf <- <<0, 0>>, ExpiresAt <- <<1, 2>>, BadKey <- {}, BadRow <- {}, Runs <- Workers,
  Shards <- 1, PageRows <- 1, Window <- 1, MaxTime <- 2,
  now <- v1, live <- v2, shown <- v3, checkpoint <- v4, run <- v5, due <- v6, met <- v7
Spoilt == INSTANCE AggregateSweep WITH
  Rows <- 1 .. 3, ShardOf <- <<0, 0, 1>>, ExpiresAt <- <<1, 1, 1>>, BadKey <- {1}, BadRow <- {2}, Runs <- {w1},
  Shards <- 2, PageRows <- 2, Window <- 1, MaxTime <- 3,
  now <- v1, live <- v2, shown <- v3, checkpoint <- v4, run <- v5, due <- v6, met <- v7

\* Everything about one purchase, the sweep over two, and the handoffs of one over time
\* with its prepared binding.
Purchase == INSTANCE PlayTokens WITH
  Tokens <- 1 .. 1, Accounts <- {a1}, OwnerOf <- <<a1>>, Held <- {},
  Kinds <- {"sweep", "handoff", "notify", "erase"}, PageRows <- 2, Delays <- <<1>>, Hour <- 1,
  Retention <- 1, Life <- 1, MaxEnd <- 1, MaxTime <- 2,
  now <- v1, account <- v2, rows <- v3, index <- v4, checkpoint <- v5, binding <- v6, receipt <- v7, store <- v8,
  grant <- v9, job <- v10, waiting <- v11
Pass == INSTANCE PlayTokens WITH
  Tokens <- 1 .. 2, Accounts <- {a1}, OwnerOf <- <<a1, a1>>, Held <- {1, 2}, Kinds <- {"sweep"}, PageRows <- 2,
  Delays <- <<1>>, Hour <- 1, Retention <- 1, Life <- 1, MaxEnd <- 1, MaxTime <- 1,
  now <- v1, account <- v2, rows <- v3, index <- v4, checkpoint <- v5, binding <- v6, receipt <- v7, store <- v8,
  grant <- v9, job <- v10, waiting <- v11
Handoffs == INSTANCE PlayTokens WITH
  Tokens <- 1 .. 1, Accounts <- {a1}, OwnerOf <- <<a1>>, Held <- {}, Kinds <- {"handoff", "notify", "prepare", "erase"},
  PageRows <- 2, Delays <- <<1>>, Hour <- 1, Retention <- 1, Life <- 1, MaxEnd <- 2, MaxTime <- 2,
  now <- v1, account <- v2, rows <- v3, index <- v4, checkpoint <- v5, binding <- v6, receipt <- v7, store <- v8,
  grant <- v9, job <- v10, waiting <- v11

\* One sweep over two shards and several hours, and two that overlap.
Expiry == INSTANCE HistorySweep WITH
  Workers <- {w1}, Records <- 1 .. 2, ExpiresAt <- <<1, 1>>, ShardOf <- <<0, 1>>, Hour <- 2, Shards <- 2, Window <- 1,
  LaneItems <- 1, LaneQueries <- 2, MaxTime <- 4,
  now <- v1, content <- v2, index <- v3, locator <- v4, replay <- v5, backlog <- v6, lap <- v7, job <- v8, late <- v9
Overlap == INSTANCE HistorySweep WITH
  Records <- {1}, ExpiresAt <- <<1>>, ShardOf <- <<1>>, Hour <- 2, Shards <- 2, Window <- 1,
  LaneItems <- 1, LaneQueries <- 2, MaxTime <- 2,
  now <- v1, content <- v2, index <- v3, locator <- v4, replay <- v5, backlog <- v6, lap <- v7, job <- v8, late <- v9

ASSUME ExpiryAssumed == Expiry!SweepAssumption /\ Overlap!SweepAssumption
ASSUME RetainedAssumed == Rounds!RetainedAssumption /\ Kept!RetainedAssumption
ASSUME WorkAssumed == Work!WorkAssumption /\ Prefix!WorkAssumption

Without12 == v12 = None
Without11 == v11 = None /\ Without12
Without10 == v10 = None /\ Without11
Without9 == v9 = None /\ Without10
Without8 == v8 = None /\ Without9

Init ==
  \/ part = "work" /\ Work!Init
  \/ part = "prefix" /\ Prefix!Init
  \/ part = "rounds" /\ Rounds!Init /\ Without11
  \/ part = "kept" /\ Kept!Init /\ Without11
  \/ part = "runs" /\ Ticks!Init /\ Without9
  \/ part = "shards" /\ Sharded!Init /\ Without9
  \/ part = "batch" /\ Batch!Init /\ Without9
  \/ part = "rivals" /\ Rivals!Init /\ Without8
  \/ part = "spoilt" /\ Spoilt!Init /\ Without8
  \/ part = "purchase" /\ Purchase!Init /\ Without12
  \/ part = "pass" /\ Pass!Init /\ Without12
  \/ part = "handoffs" /\ Handoffs!Init /\ Without12
  \/ part = "expiry" /\ Expiry!Init /\ Without10
  \/ part = "overlap" /\ Overlap!Init /\ Without10

Next ==
  /\ UNCHANGED part
  /\ \/ part = "work" /\ Work!Next
     \/ part = "prefix" /\ Prefix!Next
     \/ part = "rounds" /\ Rounds!Next /\ UNCHANGED <<v11, v12>>
     \/ part = "kept" /\ Kept!Next /\ UNCHANGED <<v11, v12>>
     \/ part = "runs" /\ Ticks!Next /\ UNCHANGED <<v9, v10, v11, v12>>
     \/ part = "shards" /\ Sharded!Next /\ UNCHANGED <<v9, v10, v11, v12>>
     \/ part = "batch" /\ Batch!Next /\ UNCHANGED <<v9, v10, v11, v12>>
     \/ part = "rivals" /\ Rivals!Next /\ UNCHANGED <<v8, v9, v10, v11, v12>>
     \/ part = "spoilt" /\ Spoilt!Next /\ UNCHANGED <<v8, v9, v10, v11, v12>>
     \/ part = "purchase" /\ Purchase!Next /\ UNCHANGED <<v12>>
     \/ part = "pass" /\ Pass!Next /\ UNCHANGED <<v12>>
     \/ part = "handoffs" /\ Handoffs!Next /\ UNCHANGED <<v12>>
     \/ part = "expiry" /\ Expiry!Next /\ UNCHANGED <<v10, v11, v12>>
     \/ part = "overlap" /\ Overlap!Next /\ UNCHANGED <<v10, v11, v12>>

Spec == Init /\ [][Next]_vars

\* What is interchangeable in all parts.
Symmetry == Permutations(Workers) \cup Permutations(Choices)

\* The passes over a campaign period's work, over its aggregates, over the jobs of the
\* deletions and over the kept periods of one leave nothing out they report as met,
\* keep nothing waiting, and a period that is retired or reported empty is
\* (shared_campaign_work, shared_campaign_recovery, campaign_deletion_bridge,
\* PeriodWork, AggregateSweep, CampaignRecovery, RetainedPeriods).
PeriodsHold ==
  /\ [](part = "work" => Work!TypeOK /\ Work!IndexExact /\ Work!PassCovers /\ Work!RetiredSoundly /\ Work!PeriodsFair)
  /\ [](part = "prefix" =>
          Prefix!TypeOK /\ Prefix!IndexExact /\ Prefix!PassCovers /\ Prefix!RetiredSoundly /\ Prefix!PeriodsFair)
  /\ [](part = "rounds" => Rounds!TypeOK /\ Rounds!TurnsAreFair /\ Rounds!EmptyForGood)
  /\ [](part = "kept" => Kept!TypeOK /\ Kept!TurnsAreFair /\ Kept!EmptyForGood)
  /\ [](part = "runs" => Ticks!TypeOK /\ Ticks!NothingDropped /\ Ticks!RunsReachAll)
  /\ [](part = "shards" => Sharded!TypeOK /\ Sharded!RunsReachAll)
  /\ [](part = "batch" => Batch!TypeOK /\ Batch!NothingDropped /\ Batch!RunsReachAll)
  /\ [](part = "rivals" => Rivals!TypeOK)
  /\ [](part = "spoilt" => Spoilt!TypeOK)
  /\ [][part = "work" => Work!OneWay]_vars
  /\ [][part = "prefix" => Prefix!OneWay]_vars
  /\ [][part = "runs" => Ticks!Spaced]_vars
  /\ [][part = "shards" => Sharded!Spaced]_vars
  /\ [][part = "rivals" => Rivals!FullPass]_vars
  /\ [][part = "spoilt" => Spoilt!FullPass]_vars

\* Every purchase is verified and told the store of again and again until it needs no
\* more, and every expired History record is come to, by a sweep that is cut short as
\* by its successor; what is erased stays so (v1_play_handoff, play_lifecycle_worker,
\* history_lifecycle, PlayTokens, HistorySweep).
SweepsHold ==
  /\ [](part = "purchase" => Purchase!TypeOK /\ Purchase!KeptAsGranted /\ Purchase!NeverForgotten
                            /\ Purchase!NothingLeft /\ Purchase!EveryoneIsAsked)
  /\ [](part = "pass" => Pass!TypeOK /\ Pass!NeverForgotten /\ Pass!EveryoneIsAsked)
  /\ [](part = "handoffs" => Handoffs!TypeOK /\ Handoffs!KeptAsGranted /\ Handoffs!NeverForgotten
                            /\ Handoffs!NothingLeft /\ Handoffs!EveryoneIsAsked)
  /\ [](part = "expiry" => Expiry!TypeOK /\ Expiry!LocatorLast /\ Expiry!NothingPassed /\ Expiry!NothingEarly)
  /\ [](part = "overlap" => Overlap!TypeOK /\ Overlap!LocatorLast /\ Overlap!NothingPassed /\ Overlap!NothingEarly)
  /\ [][part = "purchase" => Purchase!PassCovers /\ Purchase!NothingOvertaken]_vars
  /\ [][part = "pass" => Pass!PassCovers /\ Pass!NothingOvertaken]_vars
  /\ [][part = "handoffs" => Handoffs!NothingOvertaken]_vars
=============================================================================
