----------------------- MODULE MCStrkWagerRefinement -----------------------
(* StrkWager and the StakePot it implements on a small instance for TLC. *)
EXTENDS StrkWagerRefinement, TLC

CONSTANT Fund   \* the STRK each user starts with

ASSUME MCOneEscrow == OneEscrow

MCFunds == [u \in Users |-> Fund]
Symmetry == Permutations(Users)
=============================================================================
