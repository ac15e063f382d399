-------------------------- MODULE MCVolumeAllocator --------------------------
(* An instance of VolumeAllocator for TLC: two volumes on two disks, the   *)
(* second on both, two PreAlloc callers asking for one volume each.        *)
(* Health 0 passes the first pass, -1 only once the score threshold has    *)
(* been lowered to allocatableScoreThreshold -1; a volume without enough   *)
(* free space goes to the notAllocatable list.                             *)
EXTENDS VolumeAllocator, TLC

MCVols    == {"v1", "v2"}
MCDisks   == {"d1", "d2"}
MCUnits   == ("v1" :> {"d1"}) @@ ("v2" :> {"d1", "d2"})
MCSymmetry == Permutations(Callers)
MCScores  == {-1, 0}
MCAllocThr == -1
\* NoDiskLoadThreshold is the largest int; any value above the threshold
\* stands for it here
MCNoDiskLoad == 1000
=============================================================================
