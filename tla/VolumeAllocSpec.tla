--------------------------- MODULE VolumeAllocSpec ---------------------------
(***************************************************************************)
(* What the clustermgr volume allocator promises its callers               *)
(* (src/clustermgr/volumemgr/alloc.go), with no loop and no locks: idle is *)
(* the set of volumes the allocator may hand out, and it only ever holds   *)
(* volumes whose status is idle.  A PreAlloc takes, in one step, between   *)
(* one and count of them out of idle and gives them to its caller; the     *)
(* caller's allocation later makes the still-idle ones active.  Volume     *)
(* status changes move a volume into or out of idle, and an idle volume    *)
(* may be put back into idle at any time.                                  *)
(***************************************************************************)
EXTENDS Naturals, FiniteSets

CONSTANTS
    Vols,       \* volume ids of one code mode
    Callers,    \* goroutines calling PreAlloc
    Count       \* the count argument of PreAlloc

Statuses == {"idle", "active", "lock"}

VARIABLES
    status,     \* vid -> volume status
    idle,       \* the volumes the allocator may hand out
    got         \* caller -> volumes its last PreAlloc returned, not yet applied

vars == <<status, idle, got>>

(* allocFromOptions stops once it holds count volumes, and after the first *)
(* one when count < 1                                                      *)
Quota == IF Count < 1 THEN 1 ELSE Count

Init ==
    /\ status \in [Vols -> Statuses]
    /\ idle \in SUBSET {v \in Vols : status[v] = "idle"}
    /\ got = [c \in Callers |-> {}]

PreAlloc(c) ==
    /\ got[c] = {}
    /\ \E S \in SUBSET idle :
          /\ S # {}
          /\ Cardinality(S) <= Quota
          /\ idle' = idle \ S
          /\ got' = [got EXCEPT ![c] = S]
    /\ UNCHANGED status

Apply(c) ==
    LET act == {v \in got[c] : status[v] = "idle"}
    IN  /\ got[c] # {}
        /\ status' = [v \in Vols |-> IF v \in act THEN "active" ELSE status[v]]
        /\ idle' = idle \ act
        /\ got' = [got EXCEPT ![c] = {}]

Expire(v) ==
    /\ status[v] = "active"
    /\ status' = [status EXCEPT ![v] = "idle"]
    /\ idle' = idle \cup {v}
    /\ UNCHANGED got

Lock(v) ==
    /\ status[v] = "idle"
    /\ status' = [status EXCEPT ![v] = "lock"]
    /\ idle' = idle \ {v}
    /\ UNCHANGED got

Unlock(v) ==
    /\ status[v] = "lock"
    /\ status' = [status EXCEPT ![v] = "idle"]
    /\ idle' = idle \cup {v}
    /\ UNCHANGED got

Refresh(v) ==
    /\ status[v] = "idle"
    /\ v \notin idle
    /\ idle' = idle \cup {v}
    /\ UNCHANGED <<status, got>>

Next ==
    \/ \E c \in Callers : PreAlloc(c) \/ Apply(c)
    \/ \E v \in Vols : Expire(v) \/ Lock(v) \/ Unlock(v) \/ Refresh(v)

Spec == Init /\ [][Next]_vars
=============================================================================
