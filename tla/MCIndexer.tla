----------------------------- MODULE MCIndexer -----------------------------
(* An instance of Indexer for TLC.  The cursors of a chain have a uniqueKey  *)
(* each, or the last one repeats that of the first.  Three faults cost a     *)
(* batch of the former at most four more posts: MaxPosts = 6 stops only the  *)
(* latter, whose last batch is refused for good.                             *)
EXTENDS Indexer

Keys == [k \in OrderKeys |-> k]
MCKeysOfChain == {Keys, [Keys EXCEPT ![LastBatch] = 0]}
=============================================================================
