----------------------------- MODULE MCWecomClient -----------------------------
(* Instances of WecomClient for TLC. *)
EXTENDS WecomClient

CONSTANTS r1, alice

MCCustomerOf == [r \in {r1} |-> alice]

=============================================================================
