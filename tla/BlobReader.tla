----------------------------- MODULE BlobReader -----------------------------
(***************************************************************************)
(* The speculative EC read of one blob: Handler.readOneBlob and the        *)
(* goroutines it starts (src/access/stream_get.go).                        *)
(*                                                                         *)
(*  - the producer goroutine ("shardPipe") launches reads for the first    *)
(*    minShardsRead units of the sorted order, then launches one more read *)
(*    per token it takes from nextChan, until stopChan is closed;          *)
(*  - each reader goroutine runs readOneShard and sends its shardData on   *)
(*    the unbuffered channel ch;                                           *)
(*  - the main loop receives shardData, swaps the buffer into the shard    *)
(*    matrix, and decides: all data present, too many bad shards,          *)
(*    reconstruct, give up, or ask for one more read;                      *)
(*  - after the main loop exits, a drain goroutine takes the late          *)
(*    shardData and puts their buffers back to the pool;                   *)
(*  - the caller (the Get pipeline) finally puts the N+M matrix buffers.   *)
(*                                                                         *)
(* A shard's bytes are abstracted to whether its read succeeded; the EC    *)
(* decoder is the MDS code it is: ReconstructData succeeds exactly when at *)
(* least N shards of the matrix are good.  Pool buffers are counted.       *)
(***************************************************************************)
EXTENDS Naturals, FiniteSets, Sequences, SequencesExt

CONSTANTS
    N,      \* tactic.N, data shards
    M,      \* tactic.M, parity shards
    X       \* Handler.MinReadShardsX, initial over-read beyond N

ASSUME N \in Nat \ {0} /\ M \in Nat /\ X \in Nat

Units     == 0 .. (N + M - 1)      \* indices of the data+parity units
DataUnits == 0 .. (N - 1)

VARIABLES
    order,        \* sortedVuids: the read order, an injective sequence of units
    empties,      \* emptyDataShardIndexes: data units that hold only padding
    broken,       \* units whose storage node fails the range read
    rd,           \* per unit: state of its reader goroutine
    status,       \* per unit: shardData.status the reader produced
    received,     \* the main loop's map received[index] = status
    prod,         \* program counter of the producer goroutine
    pos,          \* producer: next position of order in its second loop
    tokens,       \* nextChan: number of buffered struct{}{} tokens
    stopped,      \* stopChan has been closed
    loop,         \* the main loop: "reading" or "done"
    result,       \* "none", "ok" (reconstructed) or "broken"
    released,     \* the caller put the N+M matrix buffers back
    outstanding   \* pool buffers allocated and not yet put back

vars == <<order, empties, broken, rd, status, received, prod, pos, tokens,
          stopped, loop, result, released, outstanding>>

ReaderStates == {"idle", "reading", "sending", "done"}

(***************************************************************************)
(* emptyDataShardIndexes: the data units from ceil(DataSize/ShardSize) up  *)
(* to N-1.  DataSize > 0, so the first empty index is at least 1.          *)
(***************************************************************************)
EmptyFrom(first) == first .. (N - 1)

(***************************************************************************)
(* genSortedVuidByIDC.  Each unit's disk is looked up with GetDiskHost     *)
(* (two tries); a unit whose host is not found is dropped, the others are  *)
(* bucketed by distance from the Handler's IDC, the distances are sorted   *)
(* (sort.Ints) and every bucket is shuffled and appended in that order.    *)
(***************************************************************************)
LocalIDC == "A"
IDCs     == {"A", "B"}
HostIDCs == [found : {TRUE}, idc : IDCs, punished : BOOLEAN]
            \cup {[found |-> FALSE, idc |-> "A", punished |-> FALSE]}
Placements == [Units -> HostIDCs]

(* Variant of distance: the IDC decides before the punishment. *)
DistanceIdcFirst(idc1, idc2, punished) ==
    IF idc1 = idc2 THEN (IF punished THEN 1 ELSE 0)
                   ELSE (IF punished THEN 3 ELSE 2)

Distance(idc1, idc2, punished) ==
    IF punished THEN (IF idc1 = idc2 THEN 2 ELSE 3)
                ELSE (IF idc1 = idc2 THEN 0 ELSE 1)

Dis(place, u) == Distance(LocalIDC, place[u].idc, place[u].punished)

Found(place) == {u \in Units : place[u].found}

SortMap(place, d) == {u \in Found(place) : Dis(place, u) = d}

(* every shuffle of the buckets keys[i], keys[i+1], ..., concatenated *)
RECURSIVE Shuffled(_, _, _)
Shuffled(place, keys, i) ==
    IF i > Len(keys) THEN {<<>>}
    ELSE {a \o b : a \in SetToSeqs(SortMap(place, keys[i])),
                   b \in Shuffled(place, keys, i + 1)}

GenSortedVuidByIDC(place) ==
    Shuffled(place, SetToSortSeq({Dis(place, u) : u \in Found(place)}, <), 1)

(* the orders the sorter can return, for each placement *)
SortedOrders == [p \in Placements |-> GenSortedVuidByIDC(p)]

(* minShardsRead = min(N + MinReadShardsX, len(sortedVuids)) *)
MinShardsRead == IF N + X > Len(order) THEN Len(order) ELSE N + X

(* len(received): how many indices the map holds *)
RecvCount(r) == Cardinality({u \in Units : r[u] # "none"})

(* badShards: entries of the map that are false *)
BadCount(r) == Cardinality({u \in Units : r[u] = "fail"})

(* data indices that are missing or false in the map *)
BadData(r) == {i \in DataUnits : r[i] # "ok"}

(* ReconstructData(shards, badIdx) of an MDS code: N good shards suffice *)
Reconstructs(r) == Cardinality({u \in Units : r[u] = "ok"}) >= N

(* a read is running or waiting to hand its shardData to ch *)
InFlight(u) == rd[u] \in {"reading", "sending"}

TypeOK ==
    /\ order \in Seq(Units)
    /\ empties \subseteq DataUnits
    /\ broken \subseteq Units
    /\ rd \in [Units -> ReaderStates]
    /\ status \in [Units -> BOOLEAN]
    /\ received \in [Units -> {"none", "ok", "fail"}]
    /\ prod \in {"init", "loop", "wait", "closed"}
    /\ pos \in 1 .. (Len(order) + 1)
    /\ tokens \in 0 .. (N + M)
    /\ stopped \in BOOLEAN
    /\ loop \in {"reading", "done"}
    /\ result \in {"none", "ok", "broken"}
    /\ released \in BOOLEAN
    /\ outstanding \in Nat

(***************************************************************************)
(* Init: the Get pipeline allocated the N+M matrix buffers; readOneBlob    *)
(* marks every empty index as received and zero-fills it.  The order is    *)
(* what genSortedVuidByIDC makes of some placement of the units, and Get   *)
(* goes on only when it holds at least N units (stream_get.go 179).        *)
(***************************************************************************)
Init ==
    /\ order \in {s \in UNION {SortedOrders[p] : p \in Placements} : Len(s) >= N}
    /\ empties \in {EmptyFrom(f) : f \in 1 .. N}
    /\ broken \in SUBSET Units
    /\ rd = [u \in Units |-> "idle"]
    /\ status = [u \in Units |-> FALSE]
    /\ received = [u \in Units |-> IF u \in empties THEN "ok" ELSE "none"]
    /\ prod = "init"
    /\ pos = 1
    /\ tokens = 0
    /\ stopped = FALSE
    /\ loop = "reading"
    /\ result = "none"
    /\ released = FALSE
    /\ outstanding = N + M

(***************************************************************************)
(* Producer, first loop: start a reader for each non-empty unit among the  *)
(* first minShardsRead of the order (no stop check here).                  *)
(***************************************************************************)
LaunchInitial ==
    LET first == {order[i] : i \in 1 .. MinShardsRead} \ empties
    IN  /\ prod = "init"
        /\ rd' = [u \in Units |-> IF u \in first THEN "reading" ELSE rd[u]]
        /\ pos' = MinShardsRead + 1
        /\ prod' = "loop"
        /\ UNCHANGED <<order, empties, broken, status, received, tokens,
                       stopped, loop, result, released, outstanding>>

(* Producer, second loop: an empty index is skipped without a token. *)
SkipEmpty ==
    /\ prod = "loop"
    /\ pos <= Len(order)
    /\ order[pos] \in empties
    /\ pos' = pos + 1
    /\ UNCHANGED <<order, empties, broken, rd, status, received, prod, tokens,
                   stopped, loop, result, released, outstanding>>

(***************************************************************************)
(* Producer, second loop: select { case <-stopChan: return;                *)
(* case <-nextChan: }.  Go picks either ready case, so a token may still   *)
(* launch a read after stopChan is closed.                                 *)
(***************************************************************************)
LaunchNext ==
    /\ prod = "loop"
    /\ pos <= Len(order)
    /\ order[pos] \notin empties
    /\ tokens > 0
    /\ tokens' = tokens - 1
    /\ rd' = [rd EXCEPT ![order[pos]] = "reading"]
    /\ pos' = pos + 1
    /\ UNCHANGED <<order, empties, broken, status, received, prod, stopped,
                   loop, result, released, outstanding>>

ProducerStop ==
    /\ prod = "loop"
    /\ pos <= Len(order)
    /\ order[pos] \notin empties
    /\ stopped
    /\ prod' = "wait"
    /\ UNCHANGED <<order, empties, broken, rd, status, received, pos, tokens,
                   stopped, loop, result, released, outstanding>>

ProducerEnd ==
    /\ prod = "loop"
    /\ pos > Len(order)
    /\ prod' = "wait"
    /\ UNCHANGED <<order, empties, broken, rd, status, received, pos, tokens,
                   stopped, loop, result, released, outstanding>>

(* deferred wg.Wait(); close(ch): once every started reader has sent. *)
CloseShardPipe ==
    /\ prod = "wait"
    /\ \A u \in Units : ~InFlight(u)
    /\ prod' = "closed"
    /\ UNCHANGED <<order, empties, broken, rd, status, received, pos, tokens,
                   stopped, loop, result, released, outstanding>>

(***************************************************************************)
(* readOneShard: the range read fails on a broken unit; once stopChan is   *)
(* closed, a read that has not started an attempt returns canceled         *)
(* (status false).  On success a shardSize buffer is taken from the pool;  *)
(* on a failed ReadFull it is put back at once.                            *)
(***************************************************************************)
ReadShard(u) ==
    /\ rd[u] = "reading"
    /\ \E ok \in IF stopped THEN {FALSE, u \notin broken} ELSE {u \notin broken} :
           /\ status' = [status EXCEPT ![u] = ok]
           /\ outstanding' = IF ok THEN outstanding + 1 ELSE outstanding
    /\ rd' = [rd EXCEPT ![u] = "sending"]
    /\ UNCHANGED <<order, empties, broken, received, prod, pos, tokens,
                   stopped, loop, result, released>>

(***************************************************************************)
(* One iteration of the main loop `for shard := range shardPipe`.          *)
(***************************************************************************)
(* Variant of Decide: gives up with exactly M bad shards (off by one). *)
DecideBadLimitOffByOne(r, s) ==
    IF RecvCount(r) < N THEN "continue"
    ELSE IF BadData(r) = {} THEN "ok"
    ELSE IF s >= M THEN "broken"
    ELSE IF RecvCount(r) >= N + s /\ Reconstructs(r) THEN "ok"
    ELSE IF RecvCount(r) >= Len(order) THEN "broken"
    ELSE "next"

(* Variant of Decide: gives up once minShardsRead shards are in, not the *)
(* whole order.                                                          *)
DecideGiveUpAtMinRead(r, s) ==
    IF RecvCount(r) < N THEN "continue"
    ELSE IF BadData(r) = {} THEN "ok"
    ELSE IF s > M THEN "broken"
    ELSE IF RecvCount(r) >= N + s /\ Reconstructs(r) THEN "ok"
    ELSE IF RecvCount(r) >= MinShardsRead THEN "broken"
    ELSE "next"

(* Variant of Decide: gives up only once more than len(sortedVuids) are in. *)
DecideGiveUpLate(r, s) ==
    IF RecvCount(r) < N THEN "continue"
    ELSE IF BadData(r) = {} THEN "ok"
    ELSE IF s > M THEN "broken"
    ELSE IF RecvCount(r) >= N + s /\ Reconstructs(r) THEN "ok"
    ELSE IF RecvCount(r) > Len(order) THEN "broken"
    ELSE "next"

Decide(r, s) ==
    \* the decision of the loop body on the updated map r and
    \* badShards s; "next" means nextChan <- struct{}{}
    IF RecvCount(r) < N THEN "continue"
    ELSE IF BadData(r) = {} THEN "ok"
    ELSE IF s > M THEN "broken"
    ELSE IF RecvCount(r) >= N + s /\ Reconstructs(r) THEN "ok"
    ELSE IF RecvCount(r) >= Len(order) THEN "broken"
    ELSE "next"

(* Variant of ReceiveShard: the swapped-out matrix buffer is not put. *)
ReceiveShardNoPut(u) ==
    LET r == [received EXCEPT ![u] = IF status[u] THEN "ok" ELSE "fail"]
        d == Decide(r, BadCount(r))
    IN  /\ loop = "reading"
        /\ rd[u] = "sending"
        /\ rd' = [rd EXCEPT ![u] = "done"]
        /\ outstanding' = outstanding
        /\ received' = r
        /\ tokens' = IF d = "next" THEN tokens + 1 ELSE tokens
        /\ stopped' = (d \in {"ok", "broken"})
        /\ loop' = IF d \in {"ok", "broken"} THEN "done" ELSE "reading"
        /\ result' = IF d \in {"ok", "broken"} THEN d ELSE result
        /\ UNCHANGED <<order, empties, broken, status, prod, pos, released>>

ReceiveShard(u) ==
    LET r == [received EXCEPT ![u] = IF status[u] THEN "ok" ELSE "fail"]
        d == Decide(r, BadCount(r))
    IN  /\ loop = "reading"
        /\ rd[u] = "sending"
        /\ rd' = [rd EXCEPT ![u] = "done"]
        \* swap: the shard's buffer enters the matrix, the old one is put
        /\ outstanding' = IF status[u] THEN outstanding - 1 ELSE outstanding
        /\ received' = r
        /\ tokens' = IF d = "next" THEN tokens + 1 ELSE tokens
        /\ stopped' = (d \in {"ok", "broken"})
        /\ loop' = IF d \in {"ok", "broken"} THEN "done" ELSE "reading"
        /\ result' = IF d \in {"ok", "broken"} THEN d ELSE result
        /\ UNCHANGED <<order, empties, broken, status, prod, pos, released>>

(* the drain goroutine: late shardData only give their buffer back *)
(* Variant of DrainShard: puts a buffer for every late shard, failed ones *)
(* included.                                                             *)
DrainShardPutAlways(u) ==
    /\ loop = "done"
    /\ rd[u] = "sending"
    /\ rd' = [rd EXCEPT ![u] = "done"]
    /\ outstanding' = outstanding - 1
    /\ UNCHANGED <<order, empties, broken, status, received, prod, pos, tokens,
                   stopped, loop, result, released>>

(* Variant of DrainShard: late shards are taken but their buffer is kept. *)
DrainShardNoPut(u) ==
    /\ loop = "done"
    /\ rd[u] = "sending"
    /\ rd' = [rd EXCEPT ![u] = "done"]
    /\ UNCHANGED <<order, empties, broken, status, received, prod, pos, tokens,
                   stopped, loop, result, released, outstanding>>

DrainShard(u) ==
    /\ loop = "done"
    /\ rd[u] = "sending"
    /\ rd' = [rd EXCEPT ![u] = "done"]
    /\ outstanding' = IF status[u] THEN outstanding - 1 ELSE outstanding
    /\ UNCHANGED <<order, empties, broken, status, received, prod, pos, tokens,
                   stopped, loop, result, released>>

(* the Get pipeline puts all N+M matrix buffers once readOneBlob returned *)
ReleaseShards ==
    /\ loop = "done"
    /\ ~released
    /\ released' = TRUE
    /\ outstanding' = outstanding - (N + M)
    /\ UNCHANGED <<order, empties, broken, rd, status, received, prod, pos,
                   tokens, stopped, loop, result>>

Finished ==
    /\ loop = "done" /\ released /\ prod = "closed"
    /\ UNCHANGED vars

Next ==
    \/ LaunchInitial \/ SkipEmpty \/ LaunchNext \/ ProducerStop
    \/ ProducerEnd \/ CloseShardPipe \/ ReleaseShards
    \/ \E u \in Units : ReadShard(u) \/ ReceiveShard(u) \/ DrainShard(u)
    \/ Finished

(***************************************************************************)
(* Every goroutine is scheduled by the Go runtime and every range read     *)
(* ends (the transport has deadlines and hystrix a timeout), so each step  *)
(* that stays enabled is eventually taken.                                 *)
(***************************************************************************)
Fairness ==
    /\ WF_vars(LaunchInitial) /\ WF_vars(SkipEmpty) /\ WF_vars(LaunchNext)
    /\ WF_vars(ProducerStop) /\ WF_vars(ProducerEnd)
    /\ WF_vars(CloseShardPipe) /\ WF_vars(ReleaseShards)
    /\ \A u \in Units : WF_vars(ReadShard(u)) /\ WF_vars(ReceiveShard(u))
                        /\ WF_vars(DrainShard(u))

Spec == Init /\ [][Next]_vars /\ Fairness

-----------------------------------------------------------------------------
(* Units a read cannot get: dropped from the order or failing the read. *)
Unreachable == Units \ (Range(order) \ broken)

(* Units whose shard is good and obtainable: read successfully or empty. *)
Obtainable == (Range(order) \ broken) \cup empties

(***************************************************************************)
(* Buffer ownership: every pool buffer not yet put back is held by exactly *)
(* one owner, the shard matrix or a reader whose successful shardData is   *)
(* still waiting on ch.  A dropped Put on the swap, in the drain or on a   *)
(* failed ReadFull makes the count drift.                                  *)
(***************************************************************************)
BufferConservation ==
    outstanding = (IF released THEN 0 ELSE N + M)
                  + Cardinality({u \in Units : rd[u] = "sending" /\ status[u]})

(***************************************************************************)
(* The main loop always decides (reconstructed, or close(stopChan) and     *)
(* break) before the producer closes the shard pipe: the exit of `for      *)
(* shard := range shardPipe` through a closed channel is never taken, so   *)
(* no "next" token is ever asked for when no unit is left to read and none *)
(* is in flight.  The model has no step for that exit; reaching it would   *)
(* show here.                                                              *)
(***************************************************************************)
DecidesBeforePipeCloses == prod = "closed" => loop = "done"

(***************************************************************************)
(* Spec invariant 3: with at most M units unreachable (across data and     *)
(* parity) the blob is read, whatever the order of the outcomes.           *)
(***************************************************************************)
ToleratesMFailures ==
    (loop = "done" /\ Cardinality(Unreachable) <= M) => result = "ok"

(***************************************************************************)
(* readOneBlob reports a broken blob only when the blob really cannot be   *)
(* rebuilt: fewer than N good shards are obtainable.  Checked here for     *)
(* orders that contain every empty index.                                  *)
(***************************************************************************)
BrokenOnlyIfUnrecoverable ==
    (result = "broken" /\ empties \subseteq Range(order))
        => Cardinality(Obtainable) < N

(***************************************************************************)
(* Spec 4.4 and invariant 6: the read order holds every unit whose host is *)
(* known, and a unit comes after another only if it is punished and the    *)
(* other is not, or both are alike and only the other is in the local IDC: *)
(* non-punished units first, local before remote within each class.  The   *)
(* order a blob is read in satisfies this for every placement from which   *)
(* genSortedVuidByIDC's bucket-and-shuffle could have produced it.         *)
(***************************************************************************)
Worse(h1, h2) ==
    \/ h1.punished /\ ~h2.punished
    \/ h1.punished = h2.punished /\ h1.idc # LocalIDC /\ h2.idc = LocalIDC

LocalityOrders(place) ==
    {s \in SetToSeqs(Found(place)) :
        \A i, j \in 1 .. Len(s) : i < j => ~Worse(place[s[i]], place[s[j]])}

(* orders the sorter returns for some placement where they break locality *)
Misordered ==
    UNION {SortedOrders[p] \ LocalityOrders(p) : p \in Placements}

SortedByLocality == order \notin Misordered

(* The same without the precondition: an empty index may be missing. *)
BrokenOnlyIfUnrecoverableAnyOrder ==
    result = "broken" => Cardinality(Obtainable) < N

(***************************************************************************)
(* The read of a blob ends, and every buffer it took from the pool, late   *)
(* shards included, is eventually back in the pool.                        *)
(***************************************************************************)
AllBuffersReturned == <>[](loop = "done" /\ outstanding = 0)

=============================================================================
