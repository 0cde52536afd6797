------------------------ MODULE MCExecutionPipeline ------------------------
(* Instances of ExecutionPipeline for TLC. *)
EXTENDS ExecutionPipeline, TLC

CONSTANTS o1, o2, o3, w1, w2, w3, shardA, shardB

\* Two orders of one shard, and a third on another.
MCShardOf == [o \in Orders |-> IF o = o3 THEN shardB ELSE shardA]

\* Worker ids are drawn at random, so any two unused ones are alike.
FreshIds == Permutations(Workers)

\* Orders of one shard are alike too.
Alike == {f @@ g : f \in FreshIds, g \in Permutations({o1, o2})}
=============================================================================
