------------------------------ MODULE MCProgress ------------------------------
(***************************************************************************)
(* Whether what was asked for ends, for TLC: the deletion of an account,   *)
(* the deletions of its History, and the commands of its campaign          *)
(* participation. The three systems run one at a time, `part`; the others  *)
(* stay where they begin, where none of their fair actions is enabled.     *)
(***************************************************************************)
EXTENDS Naturals, TLC

CONSTANTS outbox, profile, external, finalize, o1, w1, w2, a1, a2, e1, e3, c1, None

VARIABLES
  part,
  inventory, eCommand, complete, row, event, progress, eReceipt, identity, job, told, eCalm,
  account, hCommand, replay, content, locator, completion, aged, deleting, erasure, mutation,
  hReceipt, sweep, hCalm,
  consent, cCommand, pending, observation, recorded, clustered, aggregator, tomb, summary,
  contribution, repair, aggregate, finalizer, period

ofErasure == <<inventory, eCommand, complete, row, event, progress, eReceipt, identity, job, told, eCalm>>
ofHistory == <<account, hCommand, replay, content, locator, completion, aged, deleting, erasure, mutation,
               hReceipt, sweep, hCalm>>
ofCampaign == <<consent, cCommand, pending, observation, recorded, clustered, aggregator, tomb, summary,
                contribution, repair, aggregate, finalizer, period>>
vars == <<part, ofErasure, ofHistory, ofCampaign>>

Erasure == INSTANCE AccountErasure WITH
  Records <- {}, Outbox <- outbox, Profile <- profile, External <- {external},
  Finalizer <- finalize, First <- outbox, After <- outbox :> profile @@ profile :> finalize,
  MaxRow <- 2, PageSize <- 1, Operations <- {o1}, Workers <- {w1, w2},
  command <- eCommand, receipt <- eReceipt, calm <- eCalm

History == INSTANCE History WITH
  LastRequest <- 1, MaxGeneration <- 0, PageSize <- 1,
  command <- hCommand, receipt <- hReceipt, calm <- hCalm

Owner(e) == IF e = e3 THEN a2 ELSE a1

Campaign == INSTANCE Campaign WITH
  Accounts <- {a1, a2}, Events <- {e1, e3}, OwnerOf <- Owner, Candidates <- {c1},
  Aggregators <- {w1}, MaxSubmissions <- 1, Threshold <- 2, MaxEpoch <- 1, MaxVersion <- 0,
  Commands <- {<<a1, "WITHDRAWAL">>, <<a1, "DELETION">>}, Expiring <- {},
  command <- cCommand

Init ==
  /\ Erasure!Untouched /\ History!Untouched /\ Campaign!Init
  /\ part \in {"erasure", "history", "campaign"}
  /\ eCalm = (part # "erasure")
  /\ hCalm = (part # "history")

Next ==
  /\ UNCHANGED part
  /\ \/ part = "erasure" /\ Erasure!Next /\ UNCHANGED <<ofHistory, ofCampaign>>
     \/ part = "history" /\ History!Next /\ UNCHANGED <<ofErasure, ofCampaign>>
     \/ part = "campaign" /\ Campaign!Next /\ UNCHANGED <<ofErasure, ofHistory>>

Spec == Init /\ [][Next]_vars
FairSpec == Spec /\ Erasure!Fairness /\ History!Fairness /\ Campaign!Fairness

\* A requested deletion of an account completes, however its drivers overwrite
\* each other's progress (AccountErasure); every deletion of a History leaves its
\* receipt, and what is old is purged (History); a pending withdrawal or deletion
\* of a campaign's contributor completes (Campaign). Requests are bounded, so that
\* what is settled again and again has been settled for good.
EveryDeletionEnds == []<>(Erasure!Settled /\ History!Settled /\ Campaign!Settled)
===============================================================================
