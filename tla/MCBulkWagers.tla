---------------------------- MODULE MCBulkWagers ----------------------------
(* Instances of BulkWagers for TLC.  A wager is in the category that has its *)
(* name; names, hashtags and calls are interchangeable.                      *)
EXTENDS BulkWagers, TLC

MCWagers == {w \in Wager : w.category = w.name /\ w.tags # {}}

Symmetry == Permutations(Names) \cup Permutations(Tags) \cup Permutations(Requests)
=============================================================================
