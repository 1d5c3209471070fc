-------------------------- MODULE MCPaidPurchase --------------------------
(***************************************************************************)
(* Instances of PaidPurchase for TLC.  In "turns" one invocation works at  *)
(* a time, over two funded periods and every change of the store; in       *)
(* "races" two overlap, on one period of one check.                        *)
(***************************************************************************)
EXTENDS PaidPurchase, TLC

VARIABLE play

\* Bound: one account asks for deletion at most, so that somebody is left to restore
\* the purchase.
OneLeaves == \E a \in Accounts : \A b \in Accounts \ {a} : account'[b] = "active"

Busy == {w \in Workers : job'[w].phase # "idle"}

InTurns == \A v, w \in Busy : v = w

InRaces ==
  /\ now' <= 2 /\ store'.order = 1 /\ store'.edition <= 1
  /\ \A a \in Accounts : charged'[1] + pending'[a][1] <= 1

MCInit == Init /\ play \in {"turns", "races"}

MCNext ==
  /\ UNCHANGED play
  /\ Next /\ OneLeaves
  /\ IF play = "turns" THEN InTurns ELSE InRaces

MCSpec == MCInit /\ [][MCNext]_<<vars, play>>

\* As long as one invocation works at a time, the checks that all owners of a funded
\* period are charged stay within its allowance, the usage row counts each of them, and
\* every reservation can be given back (purchase_usage.py, entitlements.py).
UsageHolds ==
  play = "turns" => AllowanceNotRenewed /\ UsageCountsEveryOwner /\ NoReservationStranded

\* Invocations are interchangeable.
Symmetry == Permutations(Workers)
=============================================================================
