------------------------------- MODULE Campaign -------------------------------
(***************************************************************************)
(* Campaign research of one period: who takes part                         *)
(* (campaign_participation), what their checks contribute                  *)
(* (campaign_observation_publisher, campaign_cluster_aggregator), how a    *)
(* withdrawal or an account deletion takes it out again                    *)
(* (campaign_deletion_bridge), and what is published of it                 *)
(* (campaign_lifecycle, campaign_review).                                  *)
(*                                                                         *)
(* Everything is rows of one table and transactions conditioned on rows    *)
(* read before.  An observation becomes an event with a FEATURE and a      *)
(* DEDUPE row, a message, and at last one unit of a contribution to a      *)
(* candidate, whose SUMMARY counts its contributions.  To erase a          *)
(* contributor is to fence it off with a TOMBSTONE, to delete its rows one *)
(* locator at a time, and after each contribution to recount the candidate *)
(* page by page.  A closed period freezes, publishes and cleans up its     *)
(* candidates, and in the end drains what is left.                         *)
(*                                                                         *)
(* A row and its locator are written and deleted together, and are one     *)
(* here.  Left out: the expiry of single rows inside a period, centroids   *)
(* and metadata (a candidate is chosen freely among those that exist), and *)
(* the control row of a bucket, which only refuses some creations.         *)
(***************************************************************************)
EXTENDS Integers, FiniteSets

CONSTANTS
  Accounts,        \* contributors of the period
  Events,          \* statistics events
  OwnerOf(_),      \* the account whose check an event is
  Candidates,      \* candidate ids; one is never used twice
  Aggregators,     \* concurrent invocations of the aggregator
  MaxSubmissions,  \* MAX_SUBMISSIONS of one contributor to a candidate
  Threshold,       \* contributors an aggregate needs
  MaxEpoch,        \* bound on how often an account joins
  MaxVersion,      \* bound on recounts repeated after a lost answer
  Commands,        \* bound: which account may ask for what
  Expiring,        \* bound: events whose outbox row may expire
  None

\* What a sweep is at, and a TOMBSTONE with its cleanup state.
Targets == [kind : {"FEATURE"}, id : Events] \cup [kind : {"CONTRIBUTION"}, id : Candidates]
Tombs == [op : (0 .. MaxEpoch) \cup {None}, phase : {"SEEK", "DELETE", "RECOMPUTE"}, cursor : BOOLEAN,
          target : Targets \cup {None}, next : BOOLEAN]

ASSUME CampaignAssumption ==
  /\ IsFiniteSet(Accounts) /\ IsFiniteSet(Events) /\ IsFiniteSet(Candidates)
  /\ \A e \in Events : OwnerOf(e) \in Accounts
  /\ MaxSubmissions \in Nat \ {0}
  /\ Threshold \in Nat \ {0}
  /\ MaxEpoch \in Nat \ {0}
  /\ MaxVersion \in Nat
  /\ Commands \subseteq Accounts \X {"WITHDRAWAL", "DELETION"}
  /\ Expiring \subseteq Events
  /\ None \notin Accounts \cup Events \cup Candidates
  /\ None \notin Tombs
  /\ None \notin {"COUNTED", "CONTRIBUTOR_CAPPED"}

VARIABLES
  consent,       \* CAMPAIGN_PARTICIPATION rows: state and consent epoch
  command,       \* the ledger's withdrawal and deletion of an account
  pending,       \* pendingJobs of the account's recovery control
  observation,   \* outbox rows: the epoch they were taken in, and if they live
  recorded,      \* events with their FEATURE and DEDUPE rows
  clustered,     \* CLUSTERED of an event: None, COUNTED, CONTRIBUTOR_CAPPED
  aggregator,    \* what an aggregator has read, or None
  tomb,          \* TOMBSTONE of a contributor with its cleanup state, or None
  summary,       \* SUMMARY of a candidate
  contribution,  \* submissionCount of CONTRIB rows, 0 where there is none
  repair,        \* DELETION_RECOMPUTE of a candidate, or None
  aggregate,     \* AGGREGATE of a candidate, or None
  finalizer,     \* what the publication has read, or None
  period         \* admissionState of the period

people == <<consent, command, pending>>
events == <<observation, recorded, clustered>>
candidates == <<summary, contribution, repair, aggregate>>
vars == <<people, events, aggregator, tomb, candidates, finalizer, period>>

-----------------------------------------------------------------------------
(* Rows *)

Kinds == {"WITHDRAWAL", "DELETION"}
NoSummary == [row |-> "none", version |-> 0, contributors |-> 0, submissions |-> 0, phase |-> "none"]

Init ==
  /\ consent = [a \in Accounts |-> [state |-> "not_enrolled", epoch |-> 0]]
  /\ command = [a \in Accounts |-> [k \in Kinds |-> "none"]]
  /\ pending = [a \in Accounts |-> 0]
  /\ observation = [e \in Events |-> [epoch |-> 0, live |-> FALSE]]
  /\ recorded = {}
  /\ clustered = [e \in Events |-> None]
  /\ aggregator = [w \in Aggregators |-> None]
  /\ tomb = [a \in Accounts |-> None]
  /\ summary = [c \in Candidates |-> NoSummary]
  /\ contribution = [c \in Candidates |-> [a \in Accounts |-> 0]]
  /\ repair = [c \in Candidates |-> None]
  /\ aggregate = [c \in Candidates |-> None]
  /\ finalizer = None
  /\ period = "OPEN"

Own(a) == {e \in Events : OwnerOf(e) = a}
Rows(c) == {a \in Accounts : contribution[c][a] > 0}
\* The submissions of several contributors are counted one by one.
Submissions(c, as) == Cardinality({u \in as \X (1 .. MaxSubmissions) : u[2] <= contribution[c][u[1]]})
Exists(c) == summary[c].row = "live"

\* authorized, condition_checks: enrolled in the epoch of the observation,
\* and no deletion of the account asked for.
Authorized(e) ==
  LET a == OwnerOf(e)
  IN  /\ consent[a].state = "enrolled"
      /\ consent[a].epoch = observation[e].epoch
      /\ command[a]["DELETION"] = "none"

-----------------------------------------------------------------------------
(* The account *)

\* The jobs of an account are counted with the command they come with.
Enqueue(a, k) ==
  /\ <<a, k>> \in Commands
  /\ command' = [command EXCEPT ![a][k] = "PENDING"]
  /\ pending' = [pending EXCEPT ![a] = @ + 1]

Join(a) ==
  /\ command[a]["DELETION"] = "none"
  /\ consent[a].state \in {"not_enrolled", "withdrawn"}
  /\ consent[a].epoch < MaxEpoch
  /\ consent' = [consent EXCEPT ![a] = [state |-> "enrolled", epoch |-> @.epoch + 1]]
  /\ UNCHANGED <<command, pending, events, aggregator, tomb, candidates, finalizer, period>>

Withdraw(a) ==
  /\ command[a]["DELETION"] = "none"
  /\ consent[a].state = "enrolled"
  /\ consent' = [consent EXCEPT ![a].state = "withdrawal_pending"]
  /\ Enqueue(a, "WITHDRAWAL")
  /\ UNCHANGED <<events, aggregator, tomb, candidates, finalizer, period>>

RequestDeletion(a) ==
  /\ command[a]["DELETION"] = "none"
  /\ Enqueue(a, "DELETION")
  /\ UNCHANGED <<consent, events, aggregator, tomb, candidates, finalizer, period>>

\* A check of an enrolled account leaves an observation.
Observe(e) ==
  LET a == OwnerOf(e)
  IN  /\ command[a]["DELETION"] = "none"
      /\ consent[a].state = "enrolled"
      /\ observation[e].epoch = 0
      /\ observation' = [observation EXCEPT ![e] = [epoch |-> consent[a].epoch, live |-> TRUE]]
      /\ UNCHANGED <<people, recorded, clustered, aggregator, tomb, candidates, finalizer, period>>

\* After 72 hours, or with the account's other data; once the event is
\* clustered its row is not asked for again.
Expire(e) ==
  /\ e \in Expiring
  /\ observation[e].live
  /\ clustered[e] = None
  /\ observation' = [observation EXCEPT ![e].live = FALSE]
  /\ UNCHANGED <<people, recorded, clustered, aggregator, tomb, candidates, finalizer, period>>

-----------------------------------------------------------------------------
(* The publisher, once for each delivery of the observation's stream record *)

\* publish_observation writes the rows and sends the message, again for each
\* delivery that finds DEDUPE not PUBLISHED yet.  The queue may deliver it at
\* any time and any number of times after that.
Record(e) ==
  /\ observation[e].epoch > 0
  /\ Authorized(e)
  /\ period = "OPEN"
  /\ e \notin recorded
  /\ tomb[OwnerOf(e)] = None
  /\ recorded' = recorded \cup {e}
  /\ UNCHANGED <<people, observation, clustered, aggregator, tomb, candidates, finalizer, period>>

-----------------------------------------------------------------------------
(* The aggregator *)

\* Mutant: a message of an event that was clustered before counts again.
AdmissibleAgain(e) ==
  e \in recorded /\ period = "OPEN" /\ observation[e].live /\ Authorized(e) /\ tomb[OwnerOf(e)] = None

\* What process_message asks of a message before it chooses a candidate, and
\* its transaction asks again.
Admissible(e) ==
  /\ e \in recorded
  /\ period = "OPEN"
  /\ observation[e].live
  /\ Authorized(e)
  /\ tomb[OwnerOf(e)] = None
  /\ clustered[e] = None

\* The SUMMARY is still the one read, and its candidate not yet frozen.
Unchanged(s) ==
  /\ summary[s.candidate].row = s.summary.row
  /\ summary[s.candidate].version = s.summary.version
  /\ summary[s.candidate].phase = "none"

Fresh(c) == summary[c].row = "none" /\ \A w \in Aggregators : aggregator[w] # None => aggregator[w].candidate # c

\* The candidate is one of the bucket's, as it stands, or a new one: the
\* index may not show yet what exists.
Read(w, e, c) ==
  /\ aggregator[w] # None => ~Admissible(aggregator[w].event) \/ ~Unchanged(aggregator[w])
  /\ Admissible(e)
  /\ Exists(c) \/ Fresh(c)
  /\ aggregator' = [aggregator EXCEPT ![w] =
       [event |-> e, candidate |-> c, summary |-> summary[c], count |-> contribution[c][OwnerOf(e)]]]
  /\ UNCHANGED <<people, events, tomb, candidates, finalizer, period>>

\* The SUMMARY a counted message leaves: written whole from what was read
\* when the contributor is new, added to when it is not.
Counted(s) ==
  IF s.count = 0
    THEN [s.summary EXCEPT !.row = "live", !.version = @ + 1, !.contributors = @ + 1, !.submissions = @ + 1]
    ELSE [summary[s.candidate] EXCEPT !.version = @ + 1, !.submissions = @ + 1]

Commit(w) ==
  LET s == aggregator[w]
      a == OwnerOf(s.event)
  IN  /\ s # None
      /\ Admissible(s.event)
      /\ Unchanged(s)
      /\ IF s.count >= MaxSubmissions
           THEN /\ clustered' = [clustered EXCEPT ![s.event] = "CONTRIBUTOR_CAPPED"]
                /\ UNCHANGED <<summary, contribution>>
           ELSE /\ (s.count = 0) <=> (contribution[s.candidate][a] = 0)
                /\ contribution[s.candidate][a] < MaxSubmissions
                /\ clustered' = [clustered EXCEPT ![s.event] = "COUNTED"]
                /\ summary' = [summary EXCEPT ![s.candidate] = Counted(s)]
                /\ contribution' = [contribution EXCEPT ![s.candidate][a] = @ + 1]
      /\ aggregator' = [aggregator EXCEPT ![w] = None]
      /\ UNCHANGED <<people, observation, recorded, tomb, repair, aggregate, finalizer, period>>

-----------------------------------------------------------------------------
(* The erasure of a contributor, under the command k of its account *)

Operation(a, k) == IF k = "DELETION" THEN 0 ELSE consent[a].epoch

\* CleanupGuard, CommandGuardedClient: the command is pending and no receipt
\* has closed the component; derive: the period still has its key.
Sweeping(a, k) ==
  /\ command[a][k] = "PENDING"
  /\ command[a]["DELETION"] # "COMPLETE"
  /\ period \in {"OPEN", "CLOSING"}

At(a, k, phase) == tomb[a] # None /\ Sweeping(a, k) /\ tomb[a].op = Operation(a, k) /\ tomb[a].phase = phase

Locators(a) ==
  {[kind |-> "FEATURE", id |-> e] : e \in Own(a) \cap recorded}
    \cup {[kind |-> "CONTRIBUTION", id |-> c] : c \in {x \in Candidates : contribution[x][a] > 0}}

Idle(op, cursor) == [op |-> op, phase |-> "SEEK", cursor |-> cursor, target |-> None, next |-> FALSE]

Ensure(a, k) ==
  /\ Sweeping(a, k)
  /\ tomb[a] = None
  /\ tomb' = [tomb EXCEPT ![a] = Idle(None, FALSE)]
  /\ UNCHANGED <<people, events, aggregator, candidates, finalizer, period>>

\* A tombstone without a state, or with another command's, is taken over.
Adopt(a, k) ==
  /\ Sweeping(a, k)
  /\ tomb[a] # None
  /\ tomb[a].op # Operation(a, k)
  /\ tomb' = [tomb EXCEPT ![a].op = Operation(a, k)]
  /\ UNCHANGED <<people, events, aggregator, candidates, finalizer, period>>

Seek(a, k) ==
  /\ At(a, k, "SEEK")
  /\ \/ /\ Locators(a) = {}
        /\ tomb' = [tomb EXCEPT ![a].cursor = FALSE]
     \/ \E t \in Locators(a), next \in BOOLEAN :
          tomb' = [tomb EXCEPT ![a].phase = "DELETE", ![a].target = t, ![a].next = next]
  /\ UNCHANGED <<people, events, aggregator, candidates, finalizer, period>>

EraseEvent(a, k) ==
  /\ At(a, k, "DELETE")
  /\ tomb[a].target.kind = "FEATURE"
  /\ recorded' = recorded \ {tomb[a].target.id}
  /\ clustered' = [clustered EXCEPT ![tomb[a].target.id] = None]
  /\ tomb' = [tomb EXCEPT ![a] = Idle(@.op, @.next)]
  /\ UNCHANGED <<people, observation, aggregator, candidates, finalizer, period>>

\* delete_contribution_guard: what deleting a contribution does to its SUMMARY.
Loses(c) ==
  IF ~Exists(c) \/ summary[c].phase \in {"PUBLISHED", "SUPPRESSED"}
    THEN summary[c]
    ELSE [summary[c] EXCEPT !.version = @ + 1, !.phase = IF @ = "none" THEN @ ELSE "REPAIRING"]

EraseContribution(a, k) ==
  LET c == tomb[a].target.id
  IN  /\ At(a, k, "DELETE")
      /\ tomb[a].target.kind = "CONTRIBUTION"
      /\ contribution' = [contribution EXCEPT ![c][a] = 0]
      /\ summary' = [summary EXCEPT ![c] = Loses(c)]
      /\ tomb' = [tomb EXCEPT ![a].phase = "RECOMPUTE"]
      /\ UNCHANGED <<people, events, aggregator, repair, aggregate, finalizer, period>>

Recounting(a, k, c) == At(a, k, "RECOMPUTE") /\ tomb[a].target.id = c

\* The recount starts at the version it sees, over again if that has moved on.
StartRecount(a, k, c) ==
  /\ Recounting(a, k, c)
  /\ Exists(c)
  /\ summary[c].phase \in {"none", "REPAIRING"}
  /\ repair[c] # None => repair[c].version # summary[c].version
  /\ repair' = [repair EXCEPT ![c] = [version |-> summary[c].version, seen |-> {}, submissions |-> 0]]
  /\ UNCHANGED <<people, events, aggregator, tomb, summary, contribution, aggregate, finalizer, period>>

\* Mutant: a recount goes on although the SUMMARY has changed since it began.
CurrentAnyhow(c) == Exists(c) /\ summary[c].phase \in {"none", "REPAIRING"} /\ repair[c] # None

Current(c) == Exists(c) /\ summary[c].phase \in {"none", "REPAIRING"} /\ repair[c] # None /\ repair[c].version = summary[c].version

RecountPage(a, k, c) ==
  /\ Recounting(a, k, c)
  /\ Current(c)
  /\ \E b \in Rows(c) \ repair[c].seen :
       repair' = [repair EXCEPT ![c].seen = @ \cup {b}, ![c].submissions = @ + contribution[c][b]]
  /\ UNCHANGED <<people, events, aggregator, tomb, summary, contribution, aggregate, finalizer, period>>

\* The tombstone moves on in a write of its own, which may be lost.
MoveOn(a) ==
  \/ tomb' = [tomb EXCEPT ![a] = Idle(@.op, @.next)]
  \/ /\ summary[tomb[a].target.id].version < MaxVersion
     /\ UNCHANGED tomb

\* The last page: the counts are published, or the empty candidate deleted.
FinishRecount(a, k, c) ==
  LET rest == Rows(c) \ repair[c].seen
      all == Rows(c) \cup repair[c].seen
      counted == [summary[c] EXCEPT !.version = @ + 1, !.contributors = Cardinality(all),
                    !.submissions = repair[c].submissions + Submissions(c, rest),
                    !.phase = IF @ = "none" THEN @ ELSE "FROZEN"]
  IN  /\ Recounting(a, k, c)
      /\ Current(c)
      /\ summary' = [summary EXCEPT ![c] = IF all = {} THEN [NoSummary EXCEPT !.row = "deleted"] ELSE counted]
      /\ repair' = [repair EXCEPT ![c] = None]
      /\ MoveOn(a)
      /\ UNCHANGED <<people, events, aggregator, contribution, aggregate, finalizer, period>>

\* No recount is due: the SUMMARY is gone, and an orphan of its recount with
\* it, or the candidate is frozen and its recount done.
RecountProved(a, k, c) ==
  /\ Recounting(a, k, c)
  /\ \/ ~Exists(c)
     \/ summary[c].phase = "FROZEN" /\ repair[c] = None /\ contribution[c][a] = 0
  /\ repair' = [repair EXCEPT ![c] = None]
  /\ MoveOn(a)
  /\ UNCHANGED <<people, events, aggregator, summary, contribution, aggregate, finalizer, period>>

\* published_cleanup, _cleanup: of a candidate whose publication is decided,
\* one contribution is deleted, or at last the SUMMARY.
Tidy(c) ==
  /\ Exists(c)
  /\ summary[c].phase \in {"PUBLISHED", "SUPPRESSED"}
  /\ \/ /\ \E a \in Rows(c) : contribution' = [contribution EXCEPT ![c][a] = 0]
        /\ UNCHANGED summary
     \/ /\ Rows(c) = {}
        /\ repair[c] = None
        /\ summary' = [summary EXCEPT ![c] = [NoSummary EXCEPT !.row = "deleted"]]
        /\ UNCHANGED contribution
  /\ UNCHANGED <<people, events, aggregator, tomb, repair, aggregate, finalizer, period>>

RecountTidied(a, k, c) == Recounting(a, k, c) /\ Tidy(c)

\* Mutant: the component completes on the state of its tombstone alone.
ProvedBySweep(a, k) ==
  \/ period = "SEALED"
  \/ period \in {"OPEN", "CLOSING"} /\ tomb[a] = Idle(Operation(a, k), FALSE)

\* Completion: every locator is gone from the fenced partition of the
\* contributor, or the period is sealed; a deletion waits for the other jobs.
Proved(a, k) ==
  \/ period = "SEALED"
  \/ /\ period \in {"OPEN", "CLOSING"}
     /\ tomb[a] = Idle(Operation(a, k), FALSE)
     /\ Locators(a) = {}

LastJob(a) == pending[a] = 1

Complete(a, k) ==
  /\ command[a][k] = "PENDING"
  /\ command[a]["DELETION"] # "COMPLETE"
  /\ Proved(a, k)
  /\ \/ k = "DELETION" /\ LastJob(a) /\ UNCHANGED consent
     \/ /\ k = "WITHDRAWAL"
        /\ consent[a].state = "withdrawal_pending"
        /\ consent' = [consent EXCEPT ![a].state = "withdrawn"]
  /\ command' = [command EXCEPT ![a][k] = "COMPLETE"]
  /\ pending' = [pending EXCEPT ![a] = @ - 1]
  /\ UNCHANGED <<events, aggregator, tomb, candidates, finalizer, period>>

-----------------------------------------------------------------------------
(* Publication, and the end of the period *)

Close ==
  /\ period = "OPEN"
  /\ period' = "CLOSING"
  /\ UNCHANGED <<people, events, aggregator, tomb, candidates, finalizer>>

Freeze(c) ==
  /\ period = "CLOSING"
  /\ Exists(c)
  /\ summary[c].phase = "none"
  /\ aggregate[c] = None
  /\ repair[c] = None
  /\ summary' = [summary EXCEPT ![c].version = @ + 1, ![c].phase = "FROZEN"]
  /\ UNCHANGED <<people, events, aggregator, tomb, contribution, repair, aggregate, finalizer, period>>

Matches(f) ==
  /\ period = "CLOSING"
  /\ Exists(f.candidate)
  /\ summary[f.candidate].version = f.version
  /\ summary[f.candidate].phase = "FROZEN"

\* _publish reads every contribution and the tombstone of every contributor.
ReadInput(c) ==
  /\ period = "CLOSING"
  /\ finalizer # None => ~Matches(finalizer)
  /\ Exists(c)
  /\ summary[c].phase = "FROZEN"
  /\ finalizer' = [candidate |-> c, version |-> summary[c].version, rows |-> Rows(c)]
  /\ UNCHANGED <<people, events, aggregator, tomb, candidates, period>>

\* Mutant: the input is published without asking for tombstones.
IncludedAnyhow(f) == TRUE

Included(f) == \A a \in f.rows : tomb[a] = None

Publish ==
  LET f == finalizer
  IN  /\ f # None
      /\ Matches(f)
      /\ aggregate[f.candidate] = None
      /\ IF Cardinality(f.rows) >= Threshold
           THEN /\ Included(f)
                /\ aggregate' = [aggregate EXCEPT ![f.candidate] =
                     [contributors |-> Cardinality(f.rows)]]
                /\ summary' = [summary EXCEPT ![f.candidate].phase = "PUBLISHED"]
           ELSE /\ summary' = [summary EXCEPT ![f.candidate].phase = "SUPPRESSED"]
                /\ UNCHANGED aggregate
      /\ finalizer' = None
      /\ UNCHANGED <<people, events, aggregator, tomb, contribution, repair, period>>

CleanUp(c) == period = "CLOSING" /\ Tidy(c)

BeginDrain ==
  /\ period \in {"OPEN", "CLOSING"}
  /\ period' = "DRAINING"
  /\ UNCHANGED <<people, events, aggregator, tomb, candidates, finalizer>>

Drained ==
  /\ recorded = {}
  /\ \A e \in Events : ~observation[e].live
  /\ \A c \in Candidates : ~Exists(c) /\ Rows(c) = {} /\ repair[c] = None
  /\ \A a \in Accounts : tomb[a] = None

\* _group: a row goes with its siblings and its locator, whoever needs it.
\* Groups go one at a time, and nothing else touches a draining period.
Drain ==
  /\ period = "DRAINING"
  /\ ~Drained
  /\ recorded' = {}
  /\ clustered' = [e \in Events |-> None]
  /\ observation' = [e \in Events |-> [observation[e] EXCEPT !.live = FALSE]]
  /\ contribution' = [c \in Candidates |-> [a \in Accounts |-> 0]]
  /\ summary' = [c \in Candidates |-> IF Exists(c) THEN [NoSummary EXCEPT !.row = "deleted"] ELSE summary[c]]
  /\ repair' = [c \in Candidates |-> None]
  /\ tomb' = [a \in Accounts |-> None]
  /\ UNCHANGED <<people, aggregator, aggregate, finalizer, period>>

Seal ==
  /\ period = "DRAINING"
  /\ Drained
  /\ period' = "SEALED"
  /\ UNCHANGED <<people, events, aggregator, tomb, candidates, finalizer>>

-----------------------------------------------------------------------------

Work(a, k) ==
  \/ Seek(a, k) \/ EraseEvent(a, k) \/ EraseContribution(a, k)
  \/ \E c \in Candidates :
       StartRecount(a, k, c) \/ RecountPage(a, k, c) \/ FinishRecount(a, k, c) \/ RecountTidied(a, k, c)
         \/ RecountProved(a, k, c)

Next ==
  \/ \E a \in Accounts : Join(a) \/ Withdraw(a) \/ RequestDeletion(a)
  \/ \E e \in Events : Observe(e) \/ Expire(e) \/ Record(e)
  \/ \E w \in Aggregators : Commit(w) \/ \E e \in Events, c \in Candidates : Read(w, e, c)
  \/ \E a \in Accounts, k \in Kinds : Ensure(a, k) \/ Adopt(a, k) \/ Work(a, k) \/ Complete(a, k)
  \/ \E c \in Candidates : Freeze(c) \/ ReadInput(c) \/ CleanUp(c)
  \/ Publish \/ Close \/ BeginDrain \/ Drain \/ Seal

Spec == Init /\ [][Next]_vars

\* The stream delivers a command until it is done, and the recovery worker
\* takes up what the stream has given up: a pending command is swept again and
\* again.  Its tombstone may change hands in between, to the account's other
\* command.  The scheduler's ticks drain and seal a period that is over.
Fairness ==
  /\ \A a \in Accounts :
       /\ \A k \in Kinds : WF_vars(Ensure(a, k) \/ Adopt(a, k))
       /\ SF_vars(\E k \in Kinds : Work(a, k) \/ Complete(a, k))
  /\ WF_vars(Drain \/ Seal)

FairSpec == Spec /\ Fairness

-----------------------------------------------------------------------------
(* Properties *)

\* The rows have their fields, and no contributor more than its submissions.
TypeOK ==
  /\ consent \in [Accounts -> [state : {"not_enrolled", "enrolled", "withdrawal_pending", "withdrawn"}, epoch : 0 .. MaxEpoch]]
  /\ command \in [Accounts -> [Kinds -> {"none", "PENDING", "COMPLETE"}]]
  /\ pending \in [Accounts -> 0 .. 2]
  /\ tomb \in [Accounts -> Tombs \cup {None}]
  /\ recorded \subseteq Events
  /\ clustered \in [Events -> {None, "COUNTED", "CONTRIBUTOR_CAPPED"}]
  /\ contribution \in [Candidates -> [Accounts -> 0 .. MaxSubmissions]]
  /\ period \in {"OPEN", "CLOSING", "DRAINING", "SEALED"}

Repaired(c) == \A a \in Accounts : tomb[a] # None /\ tomb[a].phase = "RECOMPUTE" => tomb[a].target.id # c
Matched(c) == summary[c].contributors = Cardinality(Rows(c)) /\ summary[c].submissions = Submissions(c, Rows(c))

\* Whatever aggregators and sweeps do at once, a candidate that is neither
\* frozen nor waiting for a recount counts the contributions it has, and one
\* without a SUMMARY has none: a recount of several pages publishes no count
\* of rows that have changed since, and two sweeps may share it.
SummariesMatch ==
  period \in {"OPEN", "CLOSING"} =>
    \A c \in Candidates :
      /\ Exists(c) /\ summary[c].phase = "none" /\ Repaired(c) => Matched(c)
      /\ ~Exists(c) => Rows(c) = {}

\* A message delivered twice, or to two aggregators at once, counts once, and
\* each event marked as counted is one unit of its owner's contributions.
CountedOnce ==
  period = "OPEN" =>
    \A a \in Accounts : tomb[a] = None =>
      Cardinality({u \in Candidates \X (1 .. MaxSubmissions) : u[2] <= contribution[u[1]][a]})
        = Cardinality({e \in Own(a) : clustered[e] = "COUNTED"})

\* A candidate's summary is that of its contributions, whose rows have their
\* fields (campaign_aggregation, campaign_recovery).
SummariesHold == TypeOK /\ SummariesMatch

Left(a) == consent[a].state = "withdrawn" \/ command[a]["DELETION"] = "COMPLETE"

\* A withdrawal that is told complete, or a deletion that has its receipt, has
\* left no row of the account, and no late publisher, message or recount
\* brings one back.
ErasedForGood ==
  \A a \in Accounts : Left(a) =>
    Own(a) \cap recorded = {} /\ \A c \in Candidates : contribution[c][a] = 0

\* The counter of jobs agrees with the commands, and the receipt of the
\* deletion is the last: no withdrawal is pending behind it.
JobsCounted ==
  \A a \in Accounts :
    /\ pending[a] = Cardinality({k \in Kinds : command[a][k] = "PENDING"})
    /\ command[a]["DELETION"] = "COMPLETE" => consent[a].state # "withdrawal_pending"

ErasureSound == ErasedForGood /\ JobsCounted

Soundly(c) ==
  aggregate[c] = None /\ aggregate'[c] # None =>
    /\ aggregate'[c].contributors = Cardinality(Rows(c))
    /\ Cardinality(Rows(c)) >= Threshold
    /\ \A a \in Rows(c) : tomb[a] = None /\ ~Left(a)

\* What is published counts the contributions that are there when it is, at
\* least the threshold of them, none of a contributor being erased; though
\* its input was read before and sweeps go on meanwhile.
PublishedSound == [][\A c \in Candidates : Soundly(c)]_vars

\* No withdrawal or deletion is pending. It is so again and again, in whatever
\* state the period, its candidates and the account's other command are.
Settled == \A a \in Accounts, k \in Kinds : command[a][k] # "PENDING"
===============================================================================
