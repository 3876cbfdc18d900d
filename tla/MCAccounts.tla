----------------------------- MODULE MCAccounts -----------------------------
(* Instances of Accounts for TLC: ids, addresses, names and handlers are     *)
(* interchangeable.                                                          *)
EXTENDS Accounts, TLC

Symmetry == Permutations(Users) \cup Permutations(Addresses)
            \cup Permutations(Names) \cup Permutations(Handlers)
=============================================================================
