------------------------------- MODULE MCNative -------------------------------
(***************************************************************************)
(* CafeNative over three short blocks in two shards.                       *)
(***************************************************************************)
EXTENDS CafeNative

\* Two blocks that follow each other in one shard, and one in another.
MCBlocks == [b \in {1, 3, 5} |-> IF b = 5 THEN 1 ELSE 2]
MCShard == [b \in {1, 3, 5} |-> IF b = 5 THEN "shard2" ELSE "shard1"]

\* Nothing is deferred, or the block at word 3 is.
NoDeferrals == {NoDeferral}
SomeDeferrals == {[disable |-> {3}, only |-> {}]}
===============================================================================
