------------------------------ MODULE UserTable ------------------------------
(* What the components that read and write the users table have in common:   *)
(* the ids of users, the usernames (those that differ only in case are one   *)
(* name, as the citext column compares them) and the requests in flight.     *)
EXTENDS Naturals

CONSTANTS Users, Names, Handlers, NoUser, NoName

ASSUME NoUserAssumption == NoUser \notin Users
ASSUME NoNameAssumption == NoName \notin Names
=============================================================================
