----------------------------- MODULE MCServices -----------------------------
(***************************************************************************)
(* The services around the check authority and the History, for TLC. They  *)
(* run one at a time, `part`, on variables they share: what the running    *)
(* part does not use stays None.                                           *)
(***************************************************************************)
EXTENDS Naturals, TLC

CONSTANTS
  Operations, Workers, Choices, None, AnyVersion,
  MaxTries, Life, MaxDay,                           \* of AgeGate
  MaxVersion,                                       \* of ResearchChoice
  MaxAttempts, MaxFailures, Windows, MaxReserved,   \* of ProviderBudget
  Ledger, PageSize, MaxPages, PerRun, MaxSaved,     \* of Reconciliation
  MaxRedirects, LinkLease, MaxTime,                 \* of LinkCheck and MessageCheck
  SettleLease, LinkageLife, ReceiptLife,            \* of OperationsReceipt
  Trials, Granted, ReportDay, ReportWindow,         \* of OperationsReport
  Horizon,                                          \* of both
  Reporter                                          \* bound: the run that works alone

VARIABLES part, v1, v2, v3, v4, v5, v6, v7, v8, v9, v10, v11
vars == <<part, v1, v2, v3, v4, v5, v6, v7, v8, v9, v10, v11>>

Gate == INSTANCE AgeGate WITH
  Attempts <- MaxTries,
  profile <- v1, receipt <- v2, command <- v3, erased <- v4, job <- v5, told <- v6, day <- v7

Choice == INSTANCE ResearchChoice WITH
  Values <- Choices, MaxVersion <- [demographic |-> MaxVersion, campaign |-> MaxVersion + 2],
  kind <- v1, current <- v2, authority <- v3, receipt <- v4, fenced <- v5, erased <- v6,
  job <- v7, applied <- v8, told <- v9, outlived <- v10, commands <- v11

Link == INSTANCE LinkCheck WITH
  Urls <- Choices, Lease <- LinkLease,
  now <- v1, scope <- v2, row <- v3, job <- v4, shown <- v5

Message == INSTANCE MessageCheck WITH
  now <- v1, message <- v2, job <- v3, row <- v4, shown <- v5

Budget == INSTANCE ProviderBudget WITH
  MaxRevision <- MaxReserved,
  window <- v1, budget <- v2, job <- v3, reserved <- v4, since <- v5

Receipt == INSTANCE OperationsReceipt WITH
  Lease <- SettleLease, Linked <- LinkageLife, Retain <- ReceiptLife, MaxTime <- Horizon,
  now <- v1, producer <- v2, account <- v3, row <- v4, check <- v5, capture <- v6

Reports == INSTANCE OperationsReport WITH
  ClassOf <- [c \in Trials \cup Granted |-> IF c \in Trials THEN "trial" ELSE "complimentary"],
  Runs <- Workers, Day <- ReportDay, Window <- ReportWindow, MaxTime <- Horizon,
  now <- v1, fact <- v2, revisions <- v3, head <- v4, run <- v5

Scans == INSTANCE Reconciliation WITH
  Rows <- Ledger, Runs <- Workers, MaxRevision <- MaxSaved,
  driver <- v1, requested <- v2, saved <- v3, job <- v4, known <- v5, since <- v6, crew <- v7

\* What the services assume of their settings.
ASSUME GateAssumed == Gate!GateAssumption
ASSUME ChoiceAssumed == Choice!ChoiceAssumption
ASSUME LinkAssumed == Link!LinkAssumption
ASSUME MessageAssumed == Message!MessageAssumption
ASSUME BudgetAssumed == Budget!BudgetAssumption
ASSUME ReceiptAssumed == Receipt!ReceiptAssumption
ASSUME ReportsAssumed == Reports!ReportAssumption
ASSUME ScansAssumed == Scans!ReconciliationAssumption

Without8 == v8 = None /\ v9 = None /\ v10 = None /\ v11 = None
Without7 == v7 = None /\ Without8
Without6 == v6 = None /\ Without7

\* Bounds of the two parts about reports: one run over all checks, none of which is tried,
\* and all runs over the trials alone, accepted on the reported day.
OneRun ==
  /\ \A r \in Workers \ {Reporter} : v5'[r] = v5[r]
  /\ \A c \in DOMAIN v2 : v2'[c].started = None
OneClass ==
  /\ \A c \in Granted : v2'[c] = v2[c]
  /\ \A c \in Trials : v2'[c].accepted \in {None, ReportDay}

Init ==
  \/ part = "gate" /\ Gate!Init /\ Without8
  \/ part = "choice" /\ Choice!Init
  \/ part = "link" /\ Link!Init /\ Without6
  \/ part = "message" /\ Message!Init /\ Without6
  \/ part = "budget" /\ Budget!Init /\ Without6
  \/ part = "receipt" /\ Receipt!Init /\ Without7
  \/ part \in {"reports", "rivals"} /\ Reports!Init /\ Without6
  \/ part = "scans" /\ Scans!Init /\ Without8

Next ==
  /\ UNCHANGED part
  /\ \/ part = "gate" /\ Gate!Next /\ UNCHANGED <<v8, v9, v10, v11>>
     \/ part = "choice" /\ Choice!Next
     \/ part = "link" /\ Link!Next /\ UNCHANGED <<v6, v7, v8, v9, v10, v11>>
     \/ part = "message" /\ Message!Next /\ UNCHANGED <<v6, v7, v8, v9, v10, v11>>
     \/ part = "budget" /\ Budget!Next /\ UNCHANGED <<v6, v7, v8, v9, v10, v11>>
     \/ part = "receipt" /\ Receipt!Next /\ UNCHANGED <<v7, v8, v9, v10, v11>>
     \/ part = "reports" /\ Reports!Next /\ OneRun /\ UNCHANGED <<v6, v7, v8, v9, v10, v11>>
     \/ part = "rivals" /\ Reports!Next /\ OneClass /\ UNCHANGED <<v6, v7, v8, v9, v10, v11>>
     \/ part = "scans" /\ Scans!Next /\ UNCHANGED <<v8, v9, v10, v11>>

Spec == Init /\ [][Next]_vars

\* What is interchangeable in all parts.
Symmetry == Permutations(Operations) \cup Permutations(Workers) \cup Permutations(Choices)

\* An account passes the age gate once, at one instant, and never behind its deletion
\* (age_attestation, AgeGate).
GateHolds ==
  [](part = "gate" => Gate!TypeOK /\ Gate!AttestedOnce) /\ [][part = "gate" => Gate!ClosedForGood]_vars

\* A choice about research is applied once, told truly, its former values removed, and
\* never made behind the account's deletion (demographic_research,
\* campaign_participation, ResearchChoice).
ChoicesHold ==
  /\ [](part = "choice" =>
          Choice!TypeOK /\ Choice!AppliedOnce /\ Choice!ToldTruth /\ Choice!ValuesInForceOnly)
  /\ [][part = "choice" => Choice!FenceHolds]_vars

\* A link is assessed once, along all of its redirects, and a client is told of a
\* threat while it is known and of none only if every hop was asked about (LinkCheck).
\* The message contract accepts what the policies produce, on the day and on later ones,
\* and no later answer is more reassuring than the evidence allows (MessageCheck).
AnswersHold ==
  /\ [](part = "link" => Link!TypeOK /\ Link!EveryResultSupported /\ Link!OneAssessment
                         /\ Link!ToldWhatIsKnown /\ Link!NoDetour)
  /\ [](part = "message" => Message!TypeOK /\ Message!AlwaysReadable /\ Message!CleanOnlyIfAllKnown
                            /\ Message!ThreatWhileCurrent /\ Message!ChargedStaysComplete)
  /\ [][part = "link" => Link!SettledOnce]_vars
  /\ [][part = "message" => Message!NeverReassuredLater]_vars

\* However many invocations share the budget's row, a window it counts for admits no
\* more calls than it may, and none after its failures (ProviderBudget).
BudgetHolds ==
  [](part = "budget" => Budget!TypeOK /\ Budget!WithinBudget)
  /\ [][part = "budget" => Budget!FailuresStopCalls]_vars

\* What is captured of a check for reporting is true of it, only grows while its
\* linkage lives, and ends in time: not behind the account's deletion, not behind its
\* own deadline. Every report of a day that is over can be stored, revisions form one
\* chain, and no later one takes back what an earlier one counted (shared_operations,
\* operations_reporting, OperationsReceipt, OperationsReport).
OperationsHold ==
  /\ [](part = "receipt" => Receipt!TypeOK /\ Receipt!FactsTrue /\ Receipt!TicketIsBacked
                            /\ Receipt!FoundInTime)
  /\ [](part \in {"reports", "rivals"} =>
          Reports!AggregatesValid /\ Reports!OneChain /\ Reports!NothingLost)
  /\ [][part = "receipt" => Receipt!OnlyGrow]_vars
  /\ [][(part \in {"reports", "rivals"}) => Reports!Immutable]_vars

\* No pass over the deletion commands is reported complete that left one out, and no
\* command keeps the others from their turn, failing or fatal as it may be
\* (account_data_api, history_account_deletion_bridge, v1_authority_deletion,
\* Reconciliation).
ScansHold ==
  [](part = "scans" => Scans!TypeOK /\ Scans!PassesComplete) /\ [][part = "scans" => Scans!TurnsFair]_vars
=============================================================================
