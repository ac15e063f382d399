----------------------------- MODULE ShardFetch -----------------------------
(***************************************************************************)
(* The range read of one shard from its blobnode with retries:             *)
(* Handler.getOneShardFromHost (src/access/stream_get.go), called by       *)
(* readOneShard for one unit of the sorted order.                          *)
(*                                                                         *)
(* retry.ExponentialBackoff(3, 200).RuptOn runs the attempt function at    *)
(* most three times; an attempt returns (rupt, err): nil ends the retries  *)
(* with the body, rupt = true ends them with err, rupt = false retries.    *)
(* Each attempt first looks at the cancel channel (stopChan of             *)
(* readOneBlob), then asks the current (host, disk) for the shard and      *)
(* classifies the blobnode's error.  Disks are model values; the volume    *)
(* refresh (getVolume with the cache off) may fail, return the same disk,  *)
(* or a different one whose host may be unresolvable or punished.         *)
(***************************************************************************)
EXTENDS Naturals, Sequences

CONSTANTS
    Disks,      \* disks the unit's volume entry may name
    Disk0,      \* the disk in the cached volume entry
    Attempts    \* the retry bound: 3

ASSUME Disk0 \in Disks /\ Attempts \in Nat \ {0}

\* what RangeGetShard may answer
Answers == {"ok", "overload", "diskBroken", "vuidReadonly", "diskNotFound",
            "vuidNotFound", "timeout", "other"}

VARIABLES
    disk,       \* the diskID (and host, vuid) the next attempt asks
    tries,      \* attempts made
    canceled,   \* cancelChan is closed
    asked,      \* the disks asked, in order
    refreshes,  \* getVolume(ctx, clusterID, vid, false) calls
    punished,   \* punishments: [disk, how] with how "full" or "threshold"
    result      \* "none", "ok", "err" or "canceled"

vars == <<disk, tries, canceled, asked, refreshes, punished, result>>

Init ==
    /\ disk = Disk0
    /\ tries = 0
    /\ canceled = FALSE
    /\ asked = <<>>
    /\ refreshes = 0
    /\ punished = {}
    /\ result = "none"

(* the end of one attempt: (true, err) ends, (false, err) retries *)
Rupt     == result' = "err"
Continue == result' = IF tries + 1 = Attempts THEN "err" ELSE "none"

Punish(how) == punished' = punished \cup {[disk |-> disk, how |-> how]}

(***************************************************************************)
(* DiskNotFound / VuidNotFound: refresh the volume with the cache off.     *)
(* A failed refresh retries; a different disk whose host resolves and is   *)
(* not punished becomes the target and is retried; otherwise the disk is   *)
(* threshold-punished and, not being a timeout, the error is retried.      *)
(***************************************************************************)
NotFound ==
    /\ refreshes' = refreshes + 1
    /\ \/ Continue /\ UNCHANGED <<disk, punished>>
       \/ \E nd \in Disks \ {disk} :
             disk' = nd /\ Continue /\ UNCHANGED punished
       \/ Punish("threshold") /\ Continue /\ UNCHANGED disk

(* one run of the attempt function *)
Attempt ==
    /\ result = "none"
    /\ tries' = tries + 1
    /\ IF canceled
         THEN result' = "canceled"
              /\ UNCHANGED <<disk, asked, refreshes, punished>>
         ELSE /\ asked' = Append(asked, disk)
              /\ \E a \in Answers :
                   CASE a = "ok" ->
                          result' = "ok" /\ UNCHANGED <<disk, refreshes, punished>>
                     [] a = "overload" ->
                          Rupt /\ UNCHANGED <<disk, refreshes, punished>>
                     [] a \in {"diskBroken", "vuidReadonly"} ->
                          Punish("full") /\ Rupt /\ UNCHANGED <<disk, refreshes>>
                     [] a \in {"diskNotFound", "vuidNotFound"} ->
                          NotFound
                     [] a = "timeout" ->
                          Punish("threshold") /\ Rupt /\ UNCHANGED <<disk, refreshes>>
                     [] OTHER ->
                          Continue /\ UNCHANGED <<disk, refreshes, punished>>
    /\ UNCHANGED canceled

(* readOneBlob closes stopChan at any time *)
Cancel ==
    /\ ~canceled
    /\ canceled' = TRUE
    /\ UNCHANGED <<disk, tries, asked, refreshes, punished, result>>

Done ==
    /\ result # "none"
    /\ UNCHANGED vars

Next == Attempt \/ Cancel \/ Done

Spec == Init /\ [][Next]_vars

-----------------------------------------------------------------------------
(***************************************************************************)
(* Spec sections 4.3 and 4.6: on DiskNotFound or VuidNotFound the shard    *)
(* reader refreshes the volume once and re-issues at most once, to the new *)
(* target; otherwise it threshold-punishes and fails.  So one read of a    *)
(* shard refreshes the volume at most once and asks at most one more disk  *)
(* after a NotFound.                                                       *)
(***************************************************************************)
RefreshAtMostOnce == refreshes <= 1

=============================================================================
