------------------------------- MODULE MCHistory -------------------------------
(* Instances of History for TLC. *)
EXTENDS History

\* The paths on which rows meet: no calm, the first request alone grows old and
\* never fails, the second alone is deleted by itself, and an account that was
\* cleared has its History or itself deleted, not both.
Few ==
  /\ ~calm
  /\ aged \subseteq {1}
  /\ deleting \subseteq {2}
  /\ replay[1].status # "RETRYABLE"
  /\ account.generation = 1 => ~(mutation # "none" /\ command # "none")
=============================================================================
