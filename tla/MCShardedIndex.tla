--------------------------- MODULE MCShardedIndex ---------------------------
(* Instances of ShardedIndex for TLC: r2 is a directory inside r1.         *)
EXTENDS ShardedIndex

CONSTANTS r1, r2, r3, t1, t2

MCFilesOf == r1 :> {1, 2} @@ r2 :> {2} @@ r3 :> {3}
MCChunksOf == 1 :> 3 @@ 2 :> 1 @@ 3 :> 1
MCUnembedded == {<<1, 2>>}
MCRank(c) == c[1] + c[2]
MCTasks == Permutations({t1, t2})
=============================================================================
