--------------------------- MODULE MCGetPipeline ---------------------------
(* Model-checking instance of GetPipeline.  Locations of 5 or 7 bytes in  *)
(* blobs of 2 or 3 bytes (0 is the illegal blob size), held by one or two *)
(* runs of 2 to 4 bids, so that a Get can span up to four blobs, start or *)
(* end inside a blob, cross a run, or run out of bids; up to four blobs   *)
(* let a blob wait in the channel while the next one is read.             *)
(*                                                                         *)
(* Side by side, and sharing no state with it, the clustermgr's start-up  *)
(* check of its code-mode policies (ClusterMgrConfig): every list of up   *)
(* to two policies drawn from seven, over sizes 0 to 2, three modes (one  *)
(* whose AZ count does not fit the three IDCs) and one disabled policy,  *)
(* so that ranges start late, overlap, leave a gap, tie on MinSize, are  *)
(* empty, repeat a mode, or are all disabled.                             *)
EXTENDS GetPipeline

MCRuns ==
    { << [vid |-> 1, minBid |-> 10, count |-> 2] >>,
      << [vid |-> 1, minBid |-> 10, count |-> 1],
         [vid |-> 2, minBid |-> 20, count |-> 2] >>,
      << [vid |-> 1, minBid |-> 10, count |-> 2],
         [vid |-> 2, minBid |-> 20, count |-> 2] >> }

MCRequests ==
    [size : {5, 7}, blobSize : {0, 2, 3}, blobs : MCRuns,
     readSize : {0, 1, 2, 4, 6}, offset : {0, 1, 3}]

MCMaxBlobs == 4
MCChanCap == 1

Pol(n, lo, hi, en) == [name |-> n, min |-> lo, max |-> hi, enable |-> en]

MCPolicies ==
    { Pol("EC6P6", 0, 0, TRUE), Pol("EC6P6", 0, 1, TRUE),
      Pol("EC15P12", 1, 1, TRUE), Pol("EC15P12", 2, 2, TRUE),
      Pol("EC15P12", 1, 0, TRUE), Pol("EC6P10L2", 1, 1, TRUE),
      Pol("EC15P12", 0, 1, FALSE) }

VARIABLES policies, phase, codeModes
ccVars == <<policies, phase, codeModes>>

CC == INSTANCE ClusterMgrConfig
        WITH Modes          <- {"EC6P6", "EC15P12", "EC6P10L2"},
             AZCount        <- [m \in {"EC6P6", "EC15P12", "EC6P10L2"} |->
                                  IF m = "EC6P10L2" THEN 2 ELSE 3],
             IDCs           <- {"z0", "z1", "z2"},
             UnavailableIDC <- "",
             Configs        <- UNION {[1 .. k -> MCPolicies] : k \in 0 .. 2}

MCNext ==
    \/ Next /\ UNCHANGED ccVars
    \/ CC!cfgNext /\ UNCHANGED vars

MCInit == Init /\ CC!Init

MCSpec ==
    /\ MCInit
    /\ [][MCNext]_<<vars, ccVars>>
    /\ Fairness

(* clustermgr start-up: a service past checkAndFix runs with policies     *)
(* that partition the sizes, and serves their modes in size order.        *)
AcceptedConfigPartitions == CC!AcceptedConfigPartitions

(* clustermgr start-up: a sound policy list is never refused.            *)
WellFormedConfigAccepted == CC!WellFormedConfigAccepted
=============================================================================
