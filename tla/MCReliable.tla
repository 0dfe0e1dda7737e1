----------------------------- MODULE MCReliable ----------------------------
(* Small instances of Reliable for TLC. *)
EXTENDS Reliable, TLC

CONSTANTS m1, m2
Payloads == Permutations({m1, m2})
============================================================================
