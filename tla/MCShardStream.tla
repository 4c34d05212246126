---------------------------- MODULE MCShardStream ----------------------------
(* The first shard has two batches without its Wikivoyage pair and three    *)
(* with it, the second one batch.                                           *)
EXTENDS ShardStream

SomeSizes == [s \in Shards |-> [files \in SUBSET Files |->
                IF s > 1 THEN 1 ELSE IF Pair \subseteq files THEN 3 ELSE 2]]
=============================================================================
