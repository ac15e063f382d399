---------------------------- MODULE MCShardRepair ----------------------------
(* ShardRepair for TLC: two shards, two fail partitions, a normal topic *)
(* of two valid messages and one that does not decode, batches of two on *)
(* the normal topic and one on the fail topic, one retry, one crash, one  *)
(* switch change and one fail topic outage.                               *)
EXTENDS ShardRepair

MCShards    == {"s1", "s2"}
MCFailParts == {"f1", "f2"}
MCNormalMsgs ==
    << [shard |-> "s1", retry |-> 0, valid |-> TRUE],
       [shard |-> "s2", retry |-> 0, valid |-> FALSE],
       [shard |-> "s2", retry |-> 0, valid |-> TRUE] >>
=============================================================================
