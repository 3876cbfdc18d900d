---------------------------- MODULE MCInvitation ----------------------------
(* Instances of Invitation for TLC: users, names, handlers and the ids of    *)
(* invitations are interchangeable.                                          *)
EXTENDS Invitation, TLC

Symmetry == Permutations(Users) \cup Permutations(Names)
            \cup Permutations(Handlers) \cup Permutations(Ids)
=============================================================================
