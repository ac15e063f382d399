--------------------------- MODULE VolumeAllocator ---------------------------
(***************************************************************************)
(* volumeAllocator of src/clustermgr/volumemgr/alloc.go for one code mode. *)
(*                                                                         *)
(* idleVolumes: the allocatable list alist (front first, as getAllIdles    *)
(* reads it) and the notAllocatable list nlist; the index m is the set of  *)
(* vids on either list.  activeVolumes: the allocated vids of one host and *)
(* diskLoad per disk.  Each method of idleVolumes and activeVolumes runs   *)
(* under its own lock and is one step.                                     *)
(*                                                                         *)
(* PreAlloc callers run the RETRY loop one volume at a time: each volume   *)
(* is judged under its volume.lock.RLock against the thresholds of the     *)
(* pass, and the last volume of a pass relaxes them and starts the next    *)
(* pass over the volumes left assignable.  allocFromOptions ends the call. *)
(*                                                                         *)
(* The volume manager around the allocator (not in this repository)        *)
(* changes a volume's status under volume.lock and runs the status         *)
(* callback, and reports free size and health with                         *)
(* VolumeFreeHealthCallback; each such event is one step here.  A caller's *)
(* allocation is applied later: its still-idle volumes become active.      *)
(* canAlloc and canInsert (volume.go, not in this repository) are taken as *)
(* the tests and comments use them: enough free space, health at or above  *)
(* the score, idle status; and idle status.                                *)
(***************************************************************************)
EXTENDS Naturals, Integers, FiniteSets, Sequences

CONSTANTS
    Vols,           \* volume ids of the code mode
    Callers,        \* goroutines calling PreAlloc
    Count,          \* PreAlloc's count
    Disks,          \* disks holding the volumes' units
    Units,          \* Units[v]: the disks of v's volume units
    Scores,         \* health scores a volume can report
    AllocThr,       \* allocatableScoreThreshold: PutQuorum - shard number
    DiskLoadThr,    \* allocatableDiskLoadThreshold
    NoDiskLoadThreshold

ASSUME /\ Units \in [Vols -> SUBSET Disks]
       /\ Scores \subseteq Int /\ AllocThr \in Int
       /\ Count \in Int

healthiestScore == 0
MinimumDiskLoad == 0

Statuses == {"idle", "active", "lock"}

VARIABLES
    status, health, free,   \* the volumes, as the volume manager keeps them
    alist, nlist,           \* idleVolumes
    allocated, diskLoad,    \* activeVolumes
    pc,                     \* caller -> "ready", "scan", "done"
    allIdles, index, assignable, optionalVids,
    scoreThreshold, diskLoadThreshold, isEnableDiskLoad,
    result                  \* caller -> vids its PreAlloc returned

volVars  == <<status, health, free>>
idleVars == <<alist, nlist>>
actVars  == <<allocated, diskLoad>>
callVars == <<pc, allIdles, index, assignable, optionalVids,
              scoreThreshold, diskLoadThreshold, isEnableDiskLoad, result>>
vars == <<volVars, idleVars, actVars, callVars>>

SeqSet(s) == {s[j] : j \in DOMAIN s}
Without(s, v) == SelectSeq(s, LAMBDA x : x # v)

(* the vids indexed by idleVolumes.m *)
m == SeqSet(alist) \cup nlist

(* getAllIdles: the allocatable list, front first *)
getAllIdles == alist

canAlloc(v, score) == free[v] /\ health[v] >= score /\ status[v] = "idle"
canInsert(v) == status[v] = "idle"

enableDiskLoad == DiskLoadThr # NoDiskLoadThreshold

isOverload(v, thr) == \E d \in Units[v] : diskLoad[d] >= thr

TypeOK ==
    /\ status \in [Vols -> Statuses]
    /\ health \in [Vols -> Scores] /\ free \in [Vols -> BOOLEAN]
    /\ alist \in Seq(Vols) /\ nlist \subseteq Vols
    /\ allocated \subseteq Vols /\ diskLoad \in [Disks -> Int]
    /\ pc \in [Callers -> {"ready", "scan", "done"}]
    /\ result \in [Callers -> SUBSET Vols]

(* Volumes are idle or locked; the idle ones were Inserted into the *)
(* allocatable list; nothing is allocated yet.                        *)
Init ==
    /\ status \in [Vols -> {"idle", "lock"}]
    /\ health \in [Vols -> Scores]
    /\ free \in [Vols -> BOOLEAN]
    /\ alist \in {s \in [1 .. Cardinality({v \in Vols : status[v] = "idle"})
                          -> {v \in Vols : status[v] = "idle"}] :
                     SeqSet(s) = {v \in Vols : status[v] = "idle"}}
    /\ nlist = {}
    /\ allocated = {}
    /\ diskLoad = [d \in Disks |-> 0]
    /\ pc = [c \in Callers |-> "ready"]
    /\ allIdles = [c \in Callers |-> <<>>]
    /\ index = [c \in Callers |-> 1]
    /\ assignable = [c \in Callers |-> <<>>]
    /\ optionalVids = [c \in Callers |-> <<>>]
    /\ scoreThreshold = [c \in Callers |-> healthiestScore]
    /\ diskLoadThreshold = [c \in Callers |-> MinimumDiskLoad]
    /\ isEnableDiskLoad = [c \in Callers |-> enableDiskLoad]
    /\ result = [c \in Callers |-> {}]

-----------------------------------------------------------------------------
(* idleVolumes methods: a vid found in m is first removed from its list *)
addAllocatable(v) ==
    /\ alist' = <<v>> \o Without(alist, v)
    /\ nlist' = nlist \ {v}

addNotAllocatable(v) ==
    /\ alist' = Without(alist, v)
    /\ nlist' = nlist \cup {v}

delete(vs) ==
    /\ alist' = SelectSeq(alist, LAMBDA x : x \notin vs)
    /\ nlist' = nlist \ vs

(* activeVolumes methods; insert counts the units' disks even for a vid *)
(* the host already holds                                                 *)
insertAllocatedVolumes(vs) ==
    /\ allocated' = allocated \cup vs
    /\ diskLoad' = [d \in Disks |->
                      diskLoad[d] + Cardinality({v \in vs : d \in Units[v]})]

(* mutant: the load of the volume's disks is not given back *)
removeAllocatedKeepLoad(v) ==
    IF v \in allocated
    THEN /\ allocated' = allocated \ {v}
         /\ UNCHANGED diskLoad
    ELSE UNCHANGED actVars

removeAllocatedVolumes(v) ==
    IF v \in allocated
    THEN /\ allocated' = allocated \ {v}
         /\ diskLoad' = [d \in Disks |->
                           IF d \in Units[v] THEN diskLoad[d] - 1 ELSE diskLoad[d]]
    ELSE UNCHANGED actVars

-----------------------------------------------------------------------------
(* Volume events of the volume manager, each with its callback. *)

(* a new free size or health score, then VolumeFreeHealthCallback *)
VolumeFreeHealthCallback(v) ==
    /\ \E h \in Scores, f \in BOOLEAN :
          /\ <<h, f>> # <<health[v], free[v]>>
          /\ health' = [health EXCEPT ![v] = h]
          /\ free' = [free EXCEPT ![v] = f]
    /\ UNCHANGED <<status, actVars, callVars>>
    /\ IF (canAlloc(v, AllocThr))' THEN addAllocatable(v) ELSE UNCHANGED idleVars

(* an active volume expires or an unlocked one returns to idle, then *)
(* VolumeStatusIdleCallback                                           *)
VolumeStatusIdleCallback(v) ==
    /\ status[v] \in {"active", "lock"}
    /\ status' = [status EXCEPT ![v] = "idle"]
    /\ addAllocatable(v)
    /\ removeAllocatedVolumes(v)
    /\ UNCHANGED <<health, free, callVars>>

(* an idle volume is locked, then VolumeStatusLockCallback *)
VolumeStatusLockCallback(v) ==
    /\ status[v] = "idle"
    /\ status' = [status EXCEPT ![v] = "lock"]
    /\ delete({v})
    /\ UNCHANGED <<health, free, actVars, callVars>>

(* the allocation of caller c is applied: its volumes still idle become *)
(* active and VolumeStatusActiveCallback inserts and deletes each        *)
VolumeStatusActiveCallback(c) ==
    LET act == {v \in result[c] : status[v] = "idle"}
    IN  /\ pc[c] = "done"
        /\ status' = [v \in Vols |-> IF v \in act THEN "active" ELSE status[v]]
        /\ insertAllocatedVolumes(act)
        /\ delete(act)
        /\ pc' = [pc EXCEPT ![c] = "ready"]
        /\ result' = [result EXCEPT ![c] = {}]
        /\ UNCHANGED <<health, free, allIdles, index, assignable, optionalVids,
                       scoreThreshold, diskLoadThreshold, isEnableDiskLoad>>

-----------------------------------------------------------------------------
(* PreAlloc(mode, count), one step per volume of the RETRY loop. *)

(* allocFromOptions returns once it holds count vids, so after the first *)
(* one when count < 1                                                    *)
Quota == IF Count < 1 THEN 1 ELSE Count

(* getAllIdles under the read lock, and the thresholds' first values *)
PreAllocStart(c) ==
    /\ pc[c] = "ready"
    /\ pc' = [pc EXCEPT ![c] = "scan"]
    /\ allIdles' = [allIdles EXCEPT ![c] = getAllIdles]
    /\ index' = [index EXCEPT ![c] = 1]
    /\ assignable' = [assignable EXCEPT ![c] = <<>>]
    /\ optionalVids' = [optionalVids EXCEPT ![c] = <<>>]
    /\ scoreThreshold' = [scoreThreshold EXCEPT ![c] = healthiestScore]
    /\ diskLoadThreshold' = [diskLoadThreshold EXCEPT ![c] = MinimumDiskLoad]
    /\ isEnableDiskLoad' = [isEnableDiskLoad EXCEPT ![c] = enableDiskLoad]
    /\ UNCHANGED <<volVars, idleVars, actVars, result>>

(* at the end of a pass: first raise the disk load threshold, then drop *)
(* the disk load check, then lower the score threshold                   *)
Relax(c) ==
    LET en == isEnableDiskLoad[c]
        dl == diskLoadThreshold[c]
    IN  \/ en /\ dl < DiskLoadThr
           /\ diskLoadThreshold' = [diskLoadThreshold EXCEPT ![c] = dl + 1]
           /\ UNCHANGED <<isEnableDiskLoad, scoreThreshold>>
        \/ en /\ ~(dl < DiskLoadThr)
           /\ isEnableDiskLoad' = [isEnableDiskLoad EXCEPT ![c] = FALSE]
           /\ UNCHANGED <<diskLoadThreshold, scoreThreshold>>
        \/ ~en /\ scoreThreshold[c] > AllocThr
           /\ scoreThreshold' = [scoreThreshold EXCEPT ![c] = @ - 1]
           /\ UNCHANGED <<diskLoadThreshold, isEnableDiskLoad>>
        \/ ~en /\ scoreThreshold[c] <= AllocThr
           /\ UNCHANGED <<diskLoadThreshold, isEnableDiskLoad, scoreThreshold>>

(* after judging a volume: the last one of the pass retries with the *)
(* assignable volumes, any other moves on                            *)
NextIndex(c, asg) ==
    IF index[c] = Len(allIdles[c])
    THEN /\ Relax(c)
         /\ allIdles' = [allIdles EXCEPT ![c] = asg]
         /\ index' = [index EXCEPT ![c] = 1]
         /\ assignable' = [assignable EXCEPT ![c] = <<>>]
    ELSE /\ index' = [index EXCEPT ![c] = @ + 1]
         /\ assignable' = [assignable EXCEPT ![c] = asg]
         /\ UNCHANGED <<allIdles, scoreThreshold, diskLoadThreshold, isEnableDiskLoad>>

(* the volume satisfies the pass's thresholds: an option *)
isOption(c, v) ==
    /\ canAlloc(v, scoreThreshold[c])
    /\ ~isEnableDiskLoad[c] \/ ~isOverload(v, diskLoadThreshold[c])

JudgeVolume(c) ==
    LET v == allIdles[c][index[c]]
    IN  /\ pc[c] = "scan"
        /\ allIdles[c] # <<>>
        /\ \/ /\ isOption(c, v)
              /\ optionalVids' = [optionalVids EXCEPT ![c] = Append(@, v)]
              /\ NextIndex(c, assignable[c])
              /\ UNCHANGED idleVars
           \/ /\ ~isOption(c, v)
              /\ ~canAlloc(v, AllocThr) /\ canInsert(v)
              /\ addNotAllocatable(v)
              /\ NextIndex(c, assignable[c])
              /\ UNCHANGED optionalVids
           \/ /\ ~isOption(c, v)
              /\ ~(~canAlloc(v, AllocThr) /\ canInsert(v))
              /\ NextIndex(c, Append(assignable[c], v))
              /\ UNCHANGED <<optionalVids, idleVars>>
        /\ UNCHANGED <<volVars, actVars, pc, result>>

(* mutant: allocFromOptions takes the options without looking them up *)
(* in m                                                                *)
AllocFromOptionsUnchecked(c) ==
    LET cand    == optionalVids[c]
        succeed == SeqSet(SubSeq(cand, 1, IF Len(cand) < Quota THEN Len(cand) ELSE Quota))
    IN  /\ pc[c] = "scan"
        /\ allIdles[c] = <<>>
        /\ delete(succeed)
        /\ result' = [result EXCEPT ![c] = succeed]
        /\ pc' = [pc EXCEPT ![c] = "done"]
        /\ UNCHANGED <<volVars, actVars, allIdles, index, assignable, optionalVids,
                       scoreThreshold, diskLoadThreshold, isEnableDiskLoad>>

(* the loop found no volume left: allocFromOptions takes, in order, the *)
(* options still in m, up to count                                       *)
AllocFromOptions(c) ==
    LET cand    == SelectSeq(optionalVids[c], LAMBDA v : v \in m)
        succeed == SeqSet(SubSeq(cand, 1, IF Len(cand) < Quota THEN Len(cand) ELSE Quota))
    IN  /\ pc[c] = "scan"
        /\ allIdles[c] = <<>>
        /\ delete(succeed)
        /\ result' = [result EXCEPT ![c] = succeed]
        /\ pc' = [pc EXCEPT ![c] = "done"]
        /\ UNCHANGED <<volVars, actVars, allIdles, index, assignable, optionalVids,
                       scoreThreshold, diskLoadThreshold, isEnableDiskLoad>>

Next ==
    \/ \E c \in Callers :
          \/ PreAllocStart(c) \/ JudgeVolume(c) \/ AllocFromOptions(c)
          \/ VolumeStatusActiveCallback(c)
    \/ \E v \in Vols :
          \/ VolumeFreeHealthCallback(v) \/ VolumeStatusIdleCallback(v)
          \/ VolumeStatusLockCallback(v)

Spec == Init /\ [][Next]_vars

(* A PreAlloc caller's goroutine is scheduled by the Go runtime: once in *)
(* the loop it keeps judging volumes and finishing.  Nothing forces the  *)
(* volume manager to unlock or expire a volume, or anyone to call.       *)
Fairness == \A c \in Callers : WF_vars(JudgeVolume(c)) /\ WF_vars(AllocFromOptions(c))

LiveSpec == Spec /\ Fairness

-----------------------------------------------------------------------------
DiskLoadMatchesAllocated ==
    \A d \in Disks : diskLoad[d] = Cardinality({v \in allocated : d \in Units[v]})

(***************************************************************************)
(* The multi-pass PreAlloc, interleaved with other callers and with the    *)
(* callbacks, implements VolumeAllocSpec: idle is the index m, and a       *)
(* caller holds its result from allocFromOptions until it is applied.     *)
(***************************************************************************)
Alloc == INSTANCE VolumeAllocSpec
           WITH idle <- m,
                got  <- [c \in Callers |-> IF pc[c] = "done" THEN result[c] ELSE {}]

AllocSpec == Alloc!Spec

(***************************************************************************)
(* Every PreAlloc that has started returns (the test TestVolumeMgr_PreAlloc *)
(* calls it and expects a result): the RETRY loop runs out of volumes.      *)
(***************************************************************************)
PreAllocReturns == \A c \in Callers : pc[c] = "scan" ~> pc[c] = "done"
=============================================================================
