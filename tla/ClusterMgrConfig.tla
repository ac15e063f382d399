-------------------------- MODULE ClusterMgrConfig --------------------------
(***************************************************************************)
(* The clustermgr's configuration check at start-up (src/clustermgr/      *)
(* svr.go): New calls cfg.checkAndFix() and log.Fatalf's on its error.    *)
(* checkAndFix validates the code_mode_policies list: it sorts it by      *)
(* MinSize with sort.Slice (in place: the volume manager gets the sorted *)
(* list), keeps the enabled policies, and asks that their size ranges     *)
(* start at 0 and follow each other serially, that no mode repeats and    *)
(* that each mode's AZ count is the number of IDCs unless an IDC is       *)
(* declared unavailable.  The disk manager gets the enabled modes in      *)
(* size order, or every configured mode when none is enabled.             *)
(*                                                                         *)
(* A policy is a record [name, min, max, enable]; a mode's tactic is      *)
(* reduced to its AZ count.  The defaults checkAndFix fills in (ChunkSize, *)
(* VolumeReserveSize, SnapshotPatchNum) and the copies of IDC, Region and *)
(* ClusterID into the sub-configs are plain assignments nothing here      *)
(* reads, and are left out.  sort.Slice is not stable: the order of two   *)
(* policies with the same MinSize is the sort's choice, any of them.      *)
(***************************************************************************)
EXTENDS Integers, Sequences, SequencesExt, FiniteSetsExt, TLC

CONSTANTS
    Modes,           \* code mode names
    AZCount,         \* AZCount[mode]: the AZ count of the mode's tactic
    IDCs,            \* c.IDC
    UnavailableIDC,  \* c.UnavailableIDC, "" when every IDC is available
    Configs          \* code_mode_policies lists the service may start with

ASSUME AZCount \in [Modes -> Nat]

VARIABLES
    policies,   \* c.CodeModePolicies, as read and then as sorted
    phase,      \* "new", "running" (checkAndFix returned nil) or "fatal"
    codeModes   \* c.DiskMgrConfig.CodeModes

cfgVars == <<policies, phase, codeModes>>

Names(ps) == [i \in 1 .. Len(ps) |-> ps[i].name]

(* sort.Slice(c.CodeModePolicies, MinSize <): every ordering of the list *)
(* that is sorted by MinSize                                              *)
SortedByMinSize(ps) ==
    { q \in { [i \in DOMAIN ps |-> ps[f[i]]] : f \in Permutations(DOMAIN ps) } :
          IsSorted(q, LAMBDA a, b : a.min <= b.min) }

(* codeMode.Tactic().AZCount != len(c.IDC), checked only with no unavailable IDC *)
AZMismatch(m) == UnavailableIDC = "" /\ AZCount[m] # Cardinality(IDCs)

(* the loop over sortedPolicies: a mode already met is "code mode repeat", *)
(* else a mismatching AZ count fails; the first failing policy decides     *)
(* Variant of RepeatAt: the mode is looked up after it has been recorded. *)
RepeatAtSelf(sp, i) == \E j \in 1 .. i : sp[j].name = sp[i].name

RepeatAt(sp, i) == \E j \in 1 .. i - 1 : sp[j].name = sp[i].name
LoopFails(sp) == {i \in 1 .. Len(sp) : RepeatAt(sp, i) \/ AZMismatch(sp[i].name)}
LoopErr(sp) ==
    IF LoopFails(sp) = {} THEN "none"
    ELSE IF RepeatAt(sp, Min(LoopFails(sp))) THEN "code mode repeat"
    ELSE "idc count not match modeTactic AZCount"

(* the serial check: each enabled range starts right after the previous *)
(* Variant of NotSerial: only a gap between two ranges is refused. *)
NotSerialGapOnly(sp) == \E i \in 1 .. Len(sp) - 1 : sp[i + 1].min > sp[i].max + 1

NotSerial(sp) == \E i \in 1 .. Len(sp) - 1 : sp[i + 1].min # sp[i].max + 1

(* checkAndFix on the list q as sort.Slice left it: its error, in the    *)
(* order the code returns them, and DiskMgrConfig.CodeModes             *)
CheckAndFix(q) ==
    LET sp == SelectSeq(q, LAMBDA p : p.enable)
        Err(e) == [err |-> e, modes |-> <<>>]
    IN  IF IDCs = {} THEN Err("IDC is nil")
        ELSE IF q = <<>> THEN Err("invalid code mode config")
        ELSE IF sp # <<>> /\ sp[1].min # 0
             THEN Err("min size range must be started with 0")
        ELSE IF NotSerial(sp) THEN Err("size range must be serially")
        ELSE IF LoopErr(sp) # "none" THEN Err(LoopErr(sp))
        ELSE [err |-> "none", modes |-> IF sp = <<>> THEN Names(q) ELSE Names(sp)]

Init ==
    /\ policies \in Configs
    /\ phase = "new"
    /\ codeModes = <<>>

(* New: cfg.checkAndFix(), log.Fatalf on its error.  The two checks that *)
(* come before the sort return with the list as it was read.             *)
CheckConfig ==
    /\ phase = "new"
    /\ \E q \in IF IDCs = {} \/ policies = <<>> THEN {policies}
                ELSE SortedByMinSize(policies) :
          LET r == CheckAndFix(q)
          IN  /\ policies' = q
              /\ phase' = IF r.err = "none" THEN "running" ELSE "fatal"
              /\ codeModes' = r.modes

cfgNext == CheckConfig

-----------------------------------------------------------------------------
(* The reference: the enabled policies of a list, by position *)
EnabledAt(ps) == {i \in DOMAIN ps : ps[i].enable}

Top(ps) == Max({ps[i].max : i \in EnabledAt(ps)})

(* every blob size from 0 to the largest MaxSize falls in exactly one    *)
(* enabled range                                                         *)
Partitions(ps) ==
    EnabledAt(ps) # {} =>
        \A s \in 0 .. Top(ps) :
            Cardinality({i \in EnabledAt(ps) : ps[i].min <= s /\ s <= ps[i].max}) = 1

(* a list the service can run with: IDCs given, policies given, the      *)
(* enabled ones partition the sizes, with distinct modes of the right AZ *)
(* count                                                                 *)
Acceptable(ps) ==
    /\ IDCs # {} /\ ps # <<>>
    /\ Partitions(ps)
    /\ \A i, j \in EnabledAt(ps) : i # j => ps[i].name # ps[j].name
    /\ \A i \in EnabledAt(ps) : ~AZMismatch(ps[i].name)

(* an acceptable list whose enabled ranges are none of them empty *)
WellFormed(ps) ==
    Acceptable(ps) /\ \A i \in EnabledAt(ps) : ps[i].min <= ps[i].max

(* the modes of the enabled policies, ordered by size *)
BySize(ps) ==
    { q \in SetToSeqs({ps[i] : i \in EnabledAt(ps)}) :
          IsSorted(q, LAMBDA a, b : a.max < b.min) }

(***************************************************************************)
(* A clustermgr that gets past checkAndFix runs with a policy list whose   *)
(* enabled ranges partition the blob sizes from 0 to the largest MaxSize,  *)
(* with distinct modes whose AZ count fits the IDCs, and the disk manager  *)
(* serves exactly those modes in size order (every configured mode when   *)
(* none is enabled), whatever order sort.Slice leaves equal MinSizes in.   *)
(***************************************************************************)
AcceptedConfigPartitions ==
    phase = "running" =>
        /\ Acceptable(policies)
        /\ IF EnabledAt(policies) = {} THEN codeModes = Names(policies)
           ELSE \E q \in BySize(policies) : codeModes = Names(q)

(***************************************************************************)
(* checkAndFix never stops the service for a list that is sound: enabled   *)
(* ranges that are non-empty and partition the sizes, distinct modes and   *)
(* matching AZ counts are accepted, in every order the list is written in. *)
(***************************************************************************)
WellFormedConfigAccepted ==
    phase = "fatal" => ~WellFormed(policies)
=============================================================================
