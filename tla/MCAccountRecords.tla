--------------------------- MODULE MCAccountRecords ---------------------------
(***************************************************************************)
(* The rows of an account that invocations of many services write at once, *)
(* for TLC: its bound devices, its retired analysis requests, the sources  *)
(* of its access, the tokens of its purchases, and what it pages through   *)
(* while all of that goes on. They run one at a time, `part`, on variables *)
(* they share: what the running part does not use stays None.              *)
(***************************************************************************)
EXTENDS Naturals, Sequences, TLC

CONSTANTS
  Workers,   \* invocations at work at once
  Choices,   \* devices, or requests
  None

\* DeviceBinding
CONSTANTS Recoveries, MaxRequests, MaxWrites

\* LegacyRequest
CONSTANTS Contents, RequestLease, RequestTtl, Monthly, Credits, MaxRate, RequestTime

\* AccessSources
CONSTANTS TrialLength, MaxKeys, MaxAccess, MaxBindings, SourceTime

\* Ownership
CONSTANTS Accounts, Buyer, Lives, LocatorPage, MaxClaims

\* Export, HistoryRead
CONSTANTS RowKeys, Sizes, PageRows, PageBytes, Window, MaxPages, MaxGeneration, MaxChanges, PageTime

\* GovernedHistory
CONSTANTS Receipts, IssuedUnder, PageItems, MaxReads, Retention, Start, ListTime

VARIABLES part, v1, v2, v3, v4, v5, v6, v7, v8, v9
vars == <<part, v1, v2, v3, v4, v5, v6, v7, v8, v9>>

Device == INSTANCE DeviceBinding WITH
  Devices <- Choices, MaxVersion <- MaxWrites,
  ledger <- v1, pointer <- v2, device <- v3, past <- v4, receipt <- v5, requests <- v6, job <- v7, told <- v8

ASSUME DeviceAssumed == Device!DeviceAssumption

\* Bounds: everything but a self recovery, or all of it with one version less.
ByOthers == \A w \in Workers : v7'[w].request # "recover"
FewMoves == v2'.version < MaxWrites

Requested == INSTANCE LegacyRequest WITH
  Requests <- Choices, Payloads <- Contents, Lease <- RequestLease, Ttl <- RequestTtl, MaxTime <- RequestTime,
  now <- v1, account <- v2, row <- v3, consumed <- v4, allowance <- v5, rate <- v6, job <- v7, charges <- v8

ASSUME RequestsAssumed == Requested!RequestAssumption

\* Bounds: two requests of one content, in a shorter time, or one of two contents.
Asked(w) == v7'[w] # Requested!Idle
OneContent == /\ v1' < RequestTime
              /\ \E h \in Contents : /\ \A w \in Workers : Asked(w) => v7'[w].hash = h
                                    /\ \A q \in Choices : v3'[q] # None => v3'[q].hash = h
OneRequest == \E q \in Choices : /\ \A w \in Workers : Asked(w) => v7'[w].request = q
                                 /\ \A r \in Choices \ {q} : v3'[r] = None

Sources == INSTANCE AccessSources WITH
  MaxRevision <- MaxAccess, MaxVersion <- MaxBindings, MaxTime <- SourceTime,
  now <- v1, active <- v2, keys <- v3, device <- v4, access <- v5, trial <- v6, job <- v7, activated <- v8, whole <- v9

ASSUME SourcesAssumed == Sources!AccessAssumption

\* Bounds: snapshots beside the trial and a grant, while the device changes, or all the
\* writers, while the key does.
OneKey == v3' = 1 /\ \A w \in Workers : v7'[w].kind \notin {"revoke", "paid"}
OneDevice == v4' = 1 /\ \A w \in Workers : v7'[w].kind # "snapshot"

Locks == INSTANCE Ownership WITH
  Lengths <- Lives, PageSize <- LocatorPage, MaxRevision <- MaxClaims,
  store <- v1, account <- v2, owner <- v3, located <- v4, head <- v5, erased <- v6, job <- v7

ASSUME LocksAssumed == Locks!OwnershipAssumption

\* Bounds: a chain of one token and one of two, of which the first is not claimed, or the
\* first tokens of both, each claimed once.
TwoLives == <<1, 2>>
SecondLife == \A w \in Workers : v7'[w].token # None => v7'[w].token[1] = 2
FirstTokens == v1'.length = 1 /\ \A t \in Locks!Tokens : v3'[t] # None => v3'[t].revision = 1

\* Under changes of the device, or of the generation.
Exported == INSTANCE Export WITH
  Keys <- RowKeys, MaxVersion <- MaxBindings, MaxTime <- PageTime,
  now <- v1, account <- v2, generation <- v3, rows <- v4, job <- v5, client <- v6, shown <- v7, stayed <- v8, changes <- v9

ASSUME ExportAssumed == Exported!ExportAssumption

OneHistory == v3' = 1
OneBinding == v2'.version = 1

Listed == INSTANCE HistoryRead WITH
  Keys <- RowKeys, Limit <- PageRows, MaxBytes <- PageBytes, Ttl <- Window, MaxTime <- PageTime,
  now <- v1, account <- v2, state <- v3, rows <- v4, cursor <- v5, job <- v6, client <- v7, stayed <- v8, changes <- v9

ASSUME ListAssumed == Listed!ReadAssumption

Governed == INSTANCE GovernedHistory WITH
  PartitionOf <- IssuedUnder, Limit <- PageItems, Ttl <- Window, MaxTime <- ListTime,
  now <- v1, account <- v2, settled <- v3, index <- v4, job <- v5, client <- v6, shown <- v7, stayed <- v8

ASSUME GovernedAssumed == Governed!GovernedAssumption

\* The keys the receipts were issued under.
TwoIssued == <<"p", "q", "p">>

Without8 == v8 = None /\ v9 = None

Init ==
  \/ part \in {"devices", "recoveries"} /\ Device!Init /\ v9 = None
  \/ part \in {"requests", "contents"} /\ Requested!Init /\ v9 = None
  \/ part \in {"sources", "rotation"} /\ Sources!Init
  \/ part \in {"locks", "again"} /\ Locks!Init /\ Without8
  \/ part \in {"export", "cleared"} /\ Exported!Init
  \/ part = "list" /\ Listed!Init
  \/ part = "governed" /\ Governed!Init /\ v9 = None

Next ==
  /\ UNCHANGED part
  /\ \/ part = "devices" /\ Device!Next /\ ByOthers /\ UNCHANGED v9
     \/ part = "recoveries" /\ Device!Next /\ FewMoves /\ UNCHANGED v9
     \/ part = "requests" /\ Requested!Next /\ OneContent /\ UNCHANGED v9
     \/ part = "contents" /\ Requested!Next /\ OneRequest /\ UNCHANGED v9
     \/ part = "sources" /\ Sources!Next /\ OneKey
     \/ part = "rotation" /\ Sources!Next /\ OneDevice
     \/ part = "locks" /\ Locks!Next /\ SecondLife /\ UNCHANGED <<v8, v9>>
     \/ part = "again" /\ Locks!Next /\ FirstTokens /\ UNCHANGED <<v8, v9>>
     \/ part = "export" /\ Exported!Next /\ OneHistory
     \/ part = "cleared" /\ Exported!Next /\ OneBinding
     \/ part = "list" /\ Listed!Next
     \/ part = "governed" /\ Governed!Next /\ UNCHANGED v9

Spec == Init /\ [][Next]_vars

\* What is interchangeable in all parts.
Symmetry == Permutations(Workers) \cup Permutations(Choices)

\* As long as there is a pointer, the device it names is the account's only active one
\* (device_registration, device_recovery, DeviceBinding).
PointerNamesTheActive == part \in {"devices", "recoveries"} => Device!TypeOK /\ Device!PointerNamesTheActive

\* A client is told of the recovery that its receipt records (process_self_recovery,
\* DeviceBinding).
ToldAsRecorded == part \in {"devices", "recoveries"} => Device!ToldAsRecorded

\* The active device changes only with a new version of the pointer, and no device is
\* bound behind the account's deletion (_transact_binding_change, DeviceBinding).
BindingStepsSound == [][(part \in {"devices", "recoveries"}) => Device!BindingStepsSound]_vars

\* A retired analysis request takes at most one unit for one content, each unit taken
\* is one charge, and a result is shown only behind it (conversation_analysis,
\* LegacyRequest).
RequestsHold ==
  /\ [](part \in {"requests", "contents"} => Requested!TypeOK /\ Requested!ChargedOnce)
  /\ [][(part \in {"requests", "contents"}) => Requested!ChargesAddUp /\ Requested!ToldBehindCharge]_vars

\* An account has one authority for its access, readable whatever sources come and go,
\* and a purchase's chain of tokens one owner, from its first proof to its erasure
\* (shared_check_authority.entitlements, shared_purchase_ownership, AccessSources,
\* Ownership).
OwnersHold ==
  /\ [](part \in {"sources", "rotation"} =>
          Sources!TypeOK /\ Sources!OneAuthority /\ Sources!NeverUnreadable /\ Sources!SnapshotsWhole)
  /\ [](part \in {"locks", "again"} =>
          Locks!TypeOK /\ Locks!LocksPaired /\ Locks!ChainOfOne /\ Locks!HeadIsOwned /\ Locks!ErasedForGood)
  /\ [][(part \in {"sources", "rotation"}) => Sources!SourcesKept]_vars
  /\ [][(part \in {"locks", "again"}) => Locks!NeverTransferred]_vars

\* A client that pages through its export, its History or its governed History gets
\* every record that stayed there all the while, of one generation, and none that was
\* cleared or is another's (account_export_api, history_read_api, governed_history,
\* Export, HistoryRead, GovernedHistory).
PagesHold ==
  /\ [](part \in {"export", "cleared"} =>
          Exported!TypeOK /\ Exported!NothingLeftOut /\ Exported!OneGeneration)
  /\ [](part = "list" => Listed!TypeOK /\ Listed!NothingLeftOut)
  /\ [](part = "governed" => Governed!TypeOK /\ Governed!NothingLeftOut)
  /\ [][(part \in {"export", "cleared"}) => Exported!ReleasedToOwner]_vars
  /\ [][part = "list" => Listed!NothingCleared]_vars
  /\ [][part = "governed" => Governed!ReleasedToOwner]_vars
===============================================================================
