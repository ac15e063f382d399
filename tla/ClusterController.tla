------------------------- MODULE ClusterController -------------------------
(***************************************************************************)
(* The access cluster controller (src/access/controller/cluster.go).      *)
(* NewClusterController runs load once and then a ticker goroutine runs   *)
(* load again and again.  load lists the region's consul keys, decodes    *)
(* each cluster, builds the map of all clusters, the available list       *)
(* (sorted by capacity) and the total available TB, then creates a        *)
(* service controller and a volume getter for every cluster it has not    *)
(* seen before; a cluster whose creation fails is removed again.  It      *)
(* publishes its result with three separate atomic stores.  ChooseOne is  *)
(* called by uploaders at any time: it loads the algorithm and the total, *)
(* then the available list, and picks a cluster.                          *)
(* A consul value is a record: ok is FALSE when the key is missing, the   *)
(* value does not decode or the key is not its cluster id (load skips all *)
(* three); tb is Available>>40, usable is !Readonly && Available > 0, and *)
(* cap the Capacity sort key.                                             *)
(***************************************************************************)
EXTENDS Naturals, Sequences, SequencesExt, FiniteSetsExt

CONSTANTS
    Clusters,   \* cluster ids of the region
    Values,     \* what a consul key may hold: [ok, tb, cap, usable]
    Choosers,   \* goroutines calling ChooseOne
    RRMod,      \* roundRobinCount is kept modulo RRMod, a multiple of every list length
    MaxLoads,   \* bound on the ticker's reloads
    MaxEdits,   \* bound on consul changes
    MaxChooses  \* bound on the ChooseOne calls of one goroutine

Algs == {"AlgAvailable", "AlgRandom"}

VARIABLES
    kv,           \* consul: cluster id -> value under its key
    serviceMgrs,  \* ids with a stored service controller (never deleted)
    clusters,     \* the clusters map last stored
    clients,      \* ids of the stored map whose cluster.client is set
    available,    \* the available queue last stored: <<[id, tb]>> in queue order
    totalTB,      \* totalAvailableTB last stored
    allocAlg,
    rrCount,      \* roundRobinCount
    ready,        \* NewClusterController has returned the controller
    lpc,          \* the goroutine running load
    lall, lclient, lavail, ltotal, lnew,  \* load's locals
    loads, edits,
    cpc, crand, cres, calls  \* each ChooseOne caller

ccLoadVars == <<lpc, lall, lclient, lavail, ltotal, lnew, loads>>
ccPubVars  == <<serviceMgrs, clusters, clients, available, totalTB>>
ccChooseVars == <<cpc, crand, cres, calls, rrCount>>
ccVars == <<kv, allocAlg, ready, edits, ccLoadVars, ccPubVars, ccChooseVars>>

Info(c)   == kv[c]
Decoded   == {c \in Clusters : Info(c).ok}
Usable(S) == {c \in S : Info(c).usable}

(* sort.Slice by Capacity: not stable, so equal capacities in any order *)
SortedByCapacity(S) ==
    { q \in SetToSeqs(S) : IsSorted(q, LAMBDA a, b : Info(a).cap <= Info(b).cap) }

Entry(c) == [id |-> c, tb |-> Info(c).tb]

Init ==
    /\ kv \in [Clusters -> Values]
    /\ serviceMgrs = {} /\ clusters = {} /\ clients = {}
    /\ available = <<>> /\ totalTB = 0
    /\ allocAlg = "AlgAvailable"
    /\ rrCount = 0
    /\ ready = FALSE
    /\ lpc = "list"
    /\ lall = {} /\ lclient = {} /\ lavail = <<>> /\ ltotal = 0 /\ lnew = {}
    /\ loads = 0 /\ edits = 0
    /\ cpc = [x \in Choosers |-> "idle"]
    /\ crand = [x \in Choosers |-> 0]
    /\ cres = [x \in Choosers |-> "none"]
    /\ calls = [x \in Choosers |-> 0]

(* the ticker fires and load starts again *)
Tick ==
    /\ lpc = "idle" /\ loads < MaxLoads
    /\ lpc' = "list" /\ loads' = loads + 1
    /\ UNCHANGED <<kv, allocAlg, ready, edits, lall, lclient, lavail, ltotal, lnew,
                   ccPubVars, ccChooseVars>>

(* KV().List fails: load returns the error; the first load fails the constructor *)
ListFail ==
    /\ lpc = "list"
    /\ lpc' = IF ready THEN "idle" ELSE "failed"
    /\ UNCHANGED <<kv, allocAlg, ready, edits, lall, lclient, lavail, ltotal, lnew, loads,
                   ccPubVars, ccChooseVars>>

(* decode every pair, build allClusters, available, totalAvailableTB, sort *)
(* available, and collect the clusters with no service controller yet      *)
List ==
    /\ lpc = "list"
    /\ lpc' = "new"
    /\ lall' = Decoded
    /\ lclient' = {}
    /\ lavail' \in {[i \in 1 .. Len(q) |-> Entry(q[i])] : q \in SortedByCapacity(Usable(Decoded))}
    /\ ltotal' = MapThenSumSet(LAMBDA c : Info(c).tb, Usable(Decoded))
    /\ lnew' = Decoded \ serviceMgrs
    /\ UNCHANGED <<kv, allocAlg, ready, edits, loads, ccPubVars, ccChooseVars>>

(* one new cluster, in map order: its client is set; NewServiceController *)
(* and NewVolumeGetter both succeed and are stored ...                     *)
NewClusterOk(c) ==
    /\ lpc = "new" /\ c \in lnew
    /\ lnew' = lnew \ {c}
    /\ lclient' = lclient \cup {c}
    /\ serviceMgrs' = serviceMgrs \cup {c}
    /\ UNCHANGED <<kv, allocAlg, ready, edits, lpc, lall, lavail, ltotal, loads,
                   clusters, clients, available, totalTB, ccChooseVars>>

(* removeThisCluster: delete it from allClusters and, when it was usable   *)
(* (only then is it in available), its entry from available;               *)
(* totalAvailableTB is left as it is                                       *)
removeThisCluster(c) ==
    /\ lall' = lall \ {c}
    /\ lavail' = RemoveFirstMatch(lavail, LAMBDA e : e.id = c)

(* ... or one of them fails and the cluster is removed *)
NewClusterFail(c) ==
    /\ lpc = "new" /\ c \in lnew
    /\ lnew' = lnew \ {c}
    /\ removeThisCluster(c)
    /\ UNCHANGED <<kv, allocAlg, ready, edits, lpc, lclient, ltotal, loads,
                   ccPubVars, ccChooseVars>>

(* c.clusters.Store(allClusters): clusters seen before get no client *)
StoreClusters ==
    /\ lpc = "new" /\ lnew = {}
    /\ clusters' = lall /\ clients' = lclient
    /\ lpc' = "storeAvail"
    /\ UNCHANGED <<kv, allocAlg, ready, edits, lall, lclient, lavail, ltotal, lnew, loads,
                   serviceMgrs, available, totalTB, ccChooseVars>>

StoreAvailable ==
    /\ lpc = "storeAvail"
    /\ available' = lavail
    /\ lpc' = "storeTotal"
    /\ UNCHANGED <<kv, allocAlg, ready, edits, lall, lclient, lavail, ltotal, lnew, loads,
                   serviceMgrs, clusters, clients, totalTB, ccChooseVars>>

(* the last store; the first load's return hands the controller out *)
StoreTotal ==
    /\ lpc = "storeTotal"
    /\ totalTB' = ltotal
    /\ lpc' = "idle" /\ ready' = TRUE
    /\ UNCHANGED <<kv, allocAlg, edits, lall, lclient, lavail, ltotal, lnew, loads,
                   serviceMgrs, clusters, clients, available, ccChooseVars>>

(* a cluster's consul key changes: the leader of that cluster's clustermgr  *)
(* puts its ClusterInfo on every report tick (Service.loop: Capacity is the *)
(* total space, Available the writable space, Readonly from its config), or *)
(* an operator deletes the key or writes one that does not decode           *)
Edit(c, v) ==
    /\ edits < MaxEdits /\ kv[c] # v
    /\ kv' = [kv EXCEPT ![c] = v] /\ edits' = edits + 1
    /\ UNCHANGED <<allocAlg, ready, ccLoadVars, ccPubVars, ccChooseVars>>

(* ChangeChooseAlg with a valid algorithm (an invalid one changes nothing) *)
ChangeChooseAlg(a) ==
    /\ ready
    /\ allocAlg' = a
    /\ UNCHANGED <<kv, ready, edits, ccLoadVars, ccPubVars, ccChooseVars>>

(* the weighted scan of the available queue for randValue r *)
RECURSIVE Pick(_, _)
Pick(q, r) ==
    IF q = <<>> THEN "noCluster"
    ELSE IF Head(q).tb >= r THEN Head(q).id
    ELSE Pick(Tail(q), r - Head(q).tb)

Ret(x, r) ==
    /\ cres' = [cres EXCEPT ![x] = r] /\ cpc' = [cpc EXCEPT ![x] = "idle"]

(* ChooseOne loads allocAlg, and then totalAvailableTB or available *)
ChooseStart(x) ==
    /\ ready /\ cpc[x] = "idle" /\ calls[x] < MaxChooses
    /\ calls' = [calls EXCEPT ![x] = @ + 1]
    /\ \/ allocAlg = "AlgAvailable" /\ totalTB = 0 /\ Ret(x, "noSpace")
          /\ UNCHANGED <<crand, rrCount>>
       \/ allocAlg = "AlgAvailable" /\ totalTB > 0
          /\ \E r \in 0 .. totalTB - 1 : crand' = [crand EXCEPT ![x] = r]
          /\ cpc' = [cpc EXCEPT ![x] = "scan"] /\ UNCHANGED <<cres, rrCount>>
       \/ allocAlg = "AlgRandom" /\ available = <<>> /\ Ret(x, "empty")
          /\ UNCHANGED <<crand, rrCount>>
       \/ allocAlg = "AlgRandom" /\ available # <<>>
          /\ rrCount' = (rrCount + 1) % RRMod
          /\ Ret(x, available[(rrCount' % Len(available)) + 1].id)
          /\ UNCHANGED crand
    /\ UNCHANGED <<kv, allocAlg, ready, edits, ccLoadVars, ccPubVars>>

(* ... then loads available and walks it with randValue *)
ChooseScan(x) ==
    /\ cpc[x] = "scan"
    /\ Ret(x, Pick(available, crand[x]))
    /\ UNCHANGED <<kv, allocAlg, ready, edits, ccLoadVars, ccPubVars, crand, calls, rrCount>>

(* GetServiceController(clusterID) succeeds *)
GetServiceController(c) == c \in serviceMgrs

(* the constructor failed: there is no controller to call *)
CtorFailed ==
    /\ lpc = "failed"
    /\ UNCHANGED ccVars

Next ==
    \/ Tick \/ ListFail \/ List \/ StoreClusters \/ StoreAvailable \/ StoreTotal
    \/ \E c \in Clusters : NewClusterOk(c) \/ NewClusterFail(c)
    \/ \E c \in Clusters, v \in Values : Edit(c, v)
    \/ \E a \in Algs : ChangeChooseAlg(a)
    \/ \E x \in Choosers : ChooseStart(x) \/ ChooseScan(x)
    \/ CtorFailed

Spec == Init /\ [][Next]_ccVars

-----------------------------------------------------------------------------
(***************************************************************************)
(* ChooseOne with AlgAvailable draws randValue below totalAvailableTB and  *)
(* walks the available queue it then loads: a walk of a non-empty queue    *)
(* always ends at a cluster and never with "no available cluster", i.e.   *)
(* the total it drew from is no more than the TB of the queue it walks.   *)
(***************************************************************************)
ScanFindsCluster ==
    [][\A x \in Choosers :
         (cpc[x] = "scan" /\ cpc'[x] # "scan" /\ available # <<>>)
            => cres'[x] # "noCluster"]_ccVars
=============================================================================
