-------------------------- MODULE MCNotifications --------------------------
(* An instance of Notifications for TLC: handlers are interchangeable.       *)
EXTENDS Notifications, TLC

MCFilters == {{FALSE}}
Symmetry == Permutations(Handlers) \cup Permutations(Users)
=============================================================================
