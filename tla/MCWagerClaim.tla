---------------------------- MODULE MCWagerClaim ----------------------------
(* Instances of WagerClaim for TLC: handlers are interchangeable, and so are *)
(* users; neither set is used where symmetry would hide a liveness failure.  *)
EXTENDS WagerClaim, TLC

Symmetry == Permutations(Users) \cup Permutations(Requests)
=============================================================================
