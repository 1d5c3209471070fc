---------------------------- MODULE CheckPromise ----------------------------
(***************************************************************************)
(* What shared_check_authority promises a client about each operation      *)
(* proof, with no database, no lease and no clock: a proof is fresh until  *)
(* it is either reserved against the allowance or closed; a reservation is *)
(* either charged or released; nothing else ever happens to it, and the    *)
(* checks reserved or charged on the metered allowance never exceed it.    *)
(* CheckAuthority implements this specification.                           *)
(***************************************************************************)
EXTENDS Naturals, FiniteSets

CONSTANTS
  Proofs,   \* operation proofs a client may hold
  Limit     \* checks the trial period allows

VARIABLES
  fate,     \* fate[p]: what has become of proof p
  metered   \* proofs that hold, or have used up, a unit of the allowance

vars == <<fate, metered>>

Fates == {"fresh", "reserved", "charged", "released", "closed"}

Init ==
  /\ fate = [p \in Proofs |-> "fresh"]
  /\ metered = {}

Become(p, from, to) ==
  /\ fate[p] = from
  /\ fate' = [fate EXCEPT ![p] = to]

Reserve(p) ==
  /\ Become(p, "fresh", "reserved")
  /\ \/ metered' = metered
     \/ /\ Cardinality(metered) < Limit
        /\ metered' = metered \cup {p}

Charge(p) == p \in metered /\ Become(p, "reserved", "charged") /\ UNCHANGED metered

Release(p) == Become(p, "reserved", "released") /\ metered' = metered \ {p}

Close(p) == Become(p, "fresh", "closed") /\ UNCHANGED metered

Next == \E p \in Proofs : Reserve(p) \/ Charge(p) \/ Release(p) \/ Close(p)

Spec == Init /\ [][Next]_vars
=============================================================================
