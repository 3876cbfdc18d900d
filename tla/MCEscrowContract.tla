-------------------------- MODULE MCEscrowContract --------------------------
(* EscrowContract on a small instance for TLC. *)
EXTENDS EscrowContract, TLC

MCFunds == [u \in Users |-> 2]
MCSpans == UNION {[1 .. n -> Addresses] : n \in 0 .. 2}
Symmetry == Permutations(Users)
=============================================================================
