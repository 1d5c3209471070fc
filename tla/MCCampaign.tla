------------------------------ MODULE MCCampaign ------------------------------
(* Instances of Campaign for TLC. *)
EXTENDS Campaign, TLC

CONSTANTS a1, a2, e1, e2, e3

Owner(e) == IF e = e3 THEN a2 ELSE a1

\* One account that leaves, and leaves for good; one that only withdraws.
Asked == {<<a1, "WITHDRAWAL">>, <<a1, "DELETION">>, <<a2, "WITHDRAWAL">>}

\* State constraint: two of these are asked for at most.
TwoCommands == \E x \in Asked : command[x[1]][x[2]] = "none"
===============================================================================
