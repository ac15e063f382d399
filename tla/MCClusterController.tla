------------------------ MODULE MCClusterController ------------------------
(* Instance of ClusterController for TLC: two clusters of 1 TB each with  *)
(* capacities 1 and 2 (so both queue orders and equal capacities occur),  *)
(* a readonly value and a missing key (undecodable values are skipped     *)
(* by load exactly like missing ones), one consul edit, the constructor's  *)
(* load and two reloads, and one uploader calling ChooseOne twice.        *)
EXTENDS ClusterController

MCClusters == {"c1", "c2"}
MCValues ==
    { [ok |-> TRUE,  tb |-> 1, cap |-> 1, usable |-> TRUE],
      [ok |-> TRUE,  tb |-> 2, cap |-> 1, usable |-> TRUE],
      [ok |-> TRUE,  tb |-> 0, cap |-> 2, usable |-> FALSE],
      [ok |-> FALSE, tb |-> 0, cap |-> 0, usable |-> FALSE] }
MCChoosers == {"u1"}
=============================================================================
