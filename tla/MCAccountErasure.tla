--------------------------- MODULE MCAccountErasure ---------------------------
(* Instances of AccountErasure for TLC. *)
EXTENDS AccountErasure, TLC

CONSTANTS recovery, outbox, profile, finalize

\* delete_device_recovery_control, delete_campaign_outbox, delete_user_profile_state.
Order == recovery :> outbox @@ outbox :> profile @@ profile :> finalize

\* Requests and invocations are interchangeable.
Symmetry == Permutations(Workers) \cup Permutations(Operations)
=============================================================================
