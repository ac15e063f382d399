------------------------------- MODULE BidMgr -------------------------------
(***************************************************************************)
(* The access blob-id allocator bidMgr (src/unnamed/part_007, package      *)
(* allocator) and the clustermgr BidAlloc handler it calls                 *)
(* (src/clustermgr/svr.go).                                                *)
(*                                                                         *)
(* bidMgr keeps two ranges of blob ids taken from clustermgr, current and  *)
(* backup.  Alloc(count) hands out count ids under b.mu, from current and, *)
(* when current is short, from backup; its deferred function signals      *)
(* allocCh (a non-blocking send on an unbuffered channel) whenever backup  *)
(* is empty.  allocBidLoop receives the signal and runs allocBid: up to 3  *)
(* AllocBid calls to clustermgr, then, under b.mu, installs the scope as   *)
(* backup, or as current when there is none.                              *)
(*                                                                         *)
(* clustermgr's scope manager hands out consecutive, never reused ids;     *)
(* it is a counter here.  Each Alloc call is one step: it holds b.mu from  *)
(* start to end, the signal included.                                      *)
(***************************************************************************)
EXTENDS Naturals, Sequences, FiniteSets

CONSTANTS
    AllocNums,    \* BlobConfig.BidAllocNums, the size of a scope
    MaxBidCount,  \* clustermgr MaxBidCount
    Counts,       \* the counts callers pass to Alloc
    MaxScopes,    \* bound: scopes clustermgr hands out in one behaviour
    MaxCalls      \* bound: Alloc calls in one behaviour

ASSUME /\ AllocNums \in Nat \ {0} /\ MaxBidCount \in Nat
       /\ Counts \subseteq Nat \ {0}
       /\ MaxScopes \in Nat \ {0} /\ MaxCalls \in Nat

Nil == [min |-> 0, max |-> 0, none |-> TRUE]
Scope(lo, hi) == [min |-> lo, max |-> hi, none |-> FALSE]

MaxBid == MaxScopes * AllocNums
Bids   == 1 .. MaxBid

VARIABLES
    current,    \* b.current, or Nil
    backup,     \* b.backup, or Nil
    loop,       \* allocBidLoop: "wait" at range allocCh, "rpc", "install"
    fetched,    \* the scope allocBid got from clustermgr
    cmNext,     \* clustermgr: the next id its scope manager hands out
    handed,     \* id -> how many times Alloc has returned it
    ret,        \* the last Alloc's result: its error and its ranges
    asked,      \* the count the last Alloc was called with
    calls       \* Alloc calls made

vars == <<current, backup, loop, fetched, cmNext, handed, ret, asked, calls>>

Range == [start : 1 .. MaxBid + 1, end : 0 .. MaxBid]
Result(e, rs) == [err |-> e, rs |-> rs]

TypeOK ==
    /\ current \in {Nil} \cup {Scope(a, b) : a \in 1 .. MaxBid + 1, b \in Bids}
    /\ backup \in {Nil} \cup {Scope(a, b) : a \in 1 .. MaxBid + 1, b \in Bids}
    /\ loop \in {"wait", "rpc", "install"}
    /\ cmNext \in 1 .. MaxBid + 1
    /\ handed \in [Bids -> Nat]
    /\ ret.err \in {"none", "ok", "illegal", "nobids"}
    /\ \A j \in DOMAIN ret.rs : ret.rs[j] \in Range
    /\ asked \in {0} \cup Counts
    /\ calls \in 0 .. MaxCalls

(* the ids of a range [start, end]; empty when start > end *)
Ids(r) == r.start .. r.end

(* the ids a scope still holds *)
ScopeIds(sc) == IF sc = Nil THEN {} ELSE sc.min .. sc.max

(***************************************************************************)
(* NewBidMgr: the first allocBid succeeded (otherwise NewBidMgr returns    *)
(* its error and the loop is never started), so current is a full scope.   *)
(***************************************************************************)
Init ==
    /\ current = Scope(1, AllocNums)
    /\ backup = Nil
    /\ loop = "wait"
    /\ fetched = Nil
    /\ cmNext = AllocNums + 1
    /\ handed = [b \in Bids |-> 0]
    /\ ret = Result("none", <<>>)
    /\ asked = 0
    /\ calls = 0

(* Variant of Signal: the send does not check that backup is empty. *)
SignalAlways(bk) == loop' = IF loop = "wait" THEN "rpc" ELSE loop

(* the deferred `if b.backup == nil { select { case allocCh <- ...: default: } }` *)
Signal(bk) == loop' = IF bk = Nil /\ loop = "wait" THEN "rpc" ELSE loop

Hand(rs) ==
    handed' = [b \in Bids |->
                 handed[b] + Cardinality({j \in DOMAIN rs : b \in Ids(rs[j])})]

(* Variant of TakeFromCurrent: an emptied current is not replaced. *)
TakeFromCurrentNoSwitch(c, bk, n) ==
    LET br == [start |-> c.min, end |-> c.min + n - 1]
    IN  [cur |-> Scope(c.min + n, c.max), bk |-> bk, rs |-> <<br>>]

(***************************************************************************)
(* Alloc when current has enough: take count ids from its front; when it   *)
(* is then empty (maxBid - minBid + 1 == 0), backup becomes current.       *)
(***************************************************************************)
TakeFromCurrent(c, bk, n) ==
    LET br   == [start |-> c.min, end |-> c.min + n - 1]
        rest == Scope(c.min + n, c.max)
    IN  IF c.max + 1 = c.min + n
          THEN [cur |-> bk, bk |-> Nil, rs |-> <<br>>]
          ELSE [cur |-> rest, bk |-> bk, rs |-> <<br>>]

(* Variant of TakeFromBoth: backup's minBid is not advanced. *)
TakeFromBothNoAdvance(c, bk, n) ==
    LET br1    == [start |-> c.min, end |-> c.max]
        remain == n - (c.max + 1 - c.min)
        br2    == [start |-> bk.min, end |-> bk.min + remain - 1]
    IN  [cur |-> bk, bk |-> Nil, rs |-> <<br1, br2>>]

(***************************************************************************)
(* Alloc when current is short: all of current, then the remaining ids     *)
(* from backup, which becomes current.                                     *)
(***************************************************************************)
TakeFromBoth(c, bk, n) ==
    LET br1    == [start |-> c.min, end |-> c.max]
        remain == n - (c.max + 1 - c.min)
        br2    == [start |-> bk.min, end |-> bk.min + remain - 1]
    IN  [cur |-> Scope(bk.min + remain, bk.max), bk |-> Nil,
         rs |-> <<br1, br2>>]

(* Alloc(ctx, count), all under b.mu *)
Alloc ==
    /\ calls < MaxCalls
    /\ calls' = calls + 1
    /\ \E n \in Counts :
         /\ asked' = n
         /\ CASE n > AllocNums ->
                   ret' = Result("illegal", <<>>) /\ Signal(backup)
                   /\ UNCHANGED <<current, backup, handed>>
              [] current = Nil ->
                   ret' = Result("nobids", <<>>) /\ Signal(backup)
                   /\ UNCHANGED <<current, backup, handed>>
              [] n + current.min - 1 <= current.max ->
                   LET r == TakeFromCurrent(current, backup, n)
                   IN  /\ current' = r.cur /\ backup' = r.bk
                       /\ ret' = Result("ok", r.rs) /\ Hand(r.rs) /\ Signal(r.bk)
              [] backup = Nil ->
                   ret' = Result("nobids", <<>>) /\ Signal(backup)
                   /\ UNCHANGED <<current, backup, handed>>
              [] OTHER ->
                   LET r == TakeFromBoth(current, backup, n)
                   IN  /\ current' = r.cur /\ backup' = r.bk
                       /\ ret' = Result("ok", r.rs) /\ Hand(r.rs) /\ Signal(r.bk)
    /\ UNCHANGED <<fetched, cmNext>>

(* clustermgr BidAlloc: refuses a count above MaxBidCount, otherwise its  *)
(* scope manager hands out the next count ids                             *)
BidAlloc(count) ==
    /\ count <= MaxBidCount
    /\ cmNext + count - 1 <= MaxBid
    /\ fetched' = Scope(cmNext, cmNext + count - 1)
    /\ cmNext' = cmNext + count

(***************************************************************************)
(* allocBid, outside b.mu: up to three AllocBid calls, any of which may    *)
(* fail; after three failures the loop waits for the next signal.          *)
(***************************************************************************)
FetchScope ==
    /\ loop = "rpc"
    /\ \/ BidAlloc(AllocNums) /\ loop' = "install"
       \/ loop' = "wait" /\ UNCHANGED <<fetched, cmNext>>
    /\ UNCHANGED <<current, backup, handed, ret, asked, calls>>

(* allocBid, under b.mu: backup if there is a current, else current *)
InstallScope ==
    /\ loop = "install"
    /\ IF current # Nil
         THEN backup' = fetched /\ UNCHANGED current
         ELSE current' = fetched /\ backup' = Nil
    /\ loop' = "wait"
    /\ UNCHANGED <<fetched, cmNext, handed, ret, asked, calls>>

(* every Alloc call of the behaviour has been made and the loop is idle *)
Idle ==
    /\ calls = MaxCalls /\ loop = "wait"
    /\ UNCHANGED vars

Next == Alloc \/ FetchScope \/ InstallScope \/ Idle

Spec == Init /\ [][Next]_vars

-----------------------------------------------------------------------------
(***************************************************************************)
(* No blob id is ever handed out twice, across Alloc calls that take from  *)
(* current, from backup, and from scopes the loop installs concurrently.   *)
(***************************************************************************)
NoBidTwice == \A b \in Bids : handed[b] <= 1

(***************************************************************************)
(* No blob id is lost: every id clustermgr has handed to the allocator has *)
(* been returned by Alloc, or is still in current or backup, or is in the  *)
(* scope allocBid is about to install.  An install that overwrote a        *)
(* non-empty backup, or an Alloc that dropped a range, would lose ids.     *)
(***************************************************************************)
IdsAccounted ==
    \A b \in 1 .. cmNext - 1 :
        \/ handed[b] > 0
        \/ b \in ScopeIds(current) \cup ScopeIds(backup)
        \/ loop = "install" /\ b \in ScopeIds(fetched)

(***************************************************************************)
(* A successful Alloc returns well-formed ranges (StartBid <= EndBid)      *)
(* holding exactly count ids between them.                                 *)
(***************************************************************************)
ExactRanges ==
    [][ret'.err = "ok" =>
         /\ \A j \in DOMAIN ret'.rs : ret'.rs[j].start <= ret'.rs[j].end
         /\ asked' = Cardinality(UNION {Ids(ret'.rs[j]) : j \in DOMAIN ret'.rs})]_vars

=============================================================================
