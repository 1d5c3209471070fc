-------------------------- MODULE MCCheckAuthority --------------------------
(* Instances of CheckAuthority for TLC. *)
EXTENDS CheckAuthority, TLC

\* Proofs, consumers and clients are interchangeable.
Symmetry == Permutations(Proofs) \cup Permutations(Workers) \cup Permutations(Clients)

\* Clients an invocation or a minted proof is of.
Served == ({token[p].client : p \in Proofs} \cup {job[w].client : w \in Workers}) \ {Nil}

\* State constraint: several clients for as long as the trial lasts, a single one
\* over the whole life of its receipts.
FewOrShort == now <= TrialEnd \/ Cardinality(Served) <= 1
=============================================================================
