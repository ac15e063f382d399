---------------------------- MODULE MCTaskSwitch ----------------------------
(* Instances of TaskSwitch for TLC: two names, two waiting task loops,    *)
(* two switch objects (a name may be deleted and added again), one change *)
(* of a clustermgr value, one failed GetConfig and two WaitEnable calls   *)
(* per loop; update() rounds are unbounded.                               *)
EXTENDS TaskSwitch

MCNames       == {"a", "b"}
MCWaiters     == {"w1", "w2"}
MCMaxSwitches == 2
MCMaxChanges  == 1
MCMaxErrors   == 1
MCMaxWaits    == 2
=============================================================================
