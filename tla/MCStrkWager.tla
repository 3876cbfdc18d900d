---------------------------- MODULE MCStrkWager ----------------------------
(* StrkWager on small instances for TLC. *)
EXTENDS StrkWager, TLC

CONSTANT Fund   \* the STRK each user starts with

MCFunds == [u \in Users |-> Fund]
Symmetry == Permutations(Users) \cup Permutations(Escrows)
=============================================================================
