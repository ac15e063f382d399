---------------------------- MODULE GetPipeline ----------------------------
(***************************************************************************)
(* The Get of a location (Handler.Get and getDataShardOnly in              *)
(* src/access/stream_get.go).  After genLocationBlobs split the range into *)
(* blobs, the returned closure either serves a single small blob from its  *)
(* data shards only, or runs two goroutines:                               *)
(*  - the pipeline goroutine reads blob after blob (readOneBlob into N+M   *)
(*    pool buffers) and hands each to a channel of capacity 1, selecting   *)
(*    on closeCh; on an error it sends the error and returns; its deferred *)
(*    close(ch) ends the consumer's range loop;                            *)
(*  - the consumer (the closure itself) writes each blob's bytes to the    *)
(*    caller's writer, puts the N+M buffers, and on a writer error closes  *)
(*    closeCh and returns.                                                 *)
(* A blob's read is one step with outcome ok or error: BlobReader checks   *)
(* its inside.  Buffers are counted per blob (one matrix = N+M buffers).   *)
(***************************************************************************)
EXTENDS Naturals, Sequences, SequencesExt

CONSTANTS
    Requests,   \* Get arguments: location (size, blobSize, blobs), readSize, offset
    MaxBlobs,   \* bound on len(blobs) from genLocationBlobs
    ChanCap     \* capacity of the pipeline channel: make(chan pipeBuffer, 1)

ASSUME MaxBlobs \in Nat /\ ChanCap \in Nat

(***************************************************************************)
(* genLocationBlobs.  A request is a record with the location's size and   *)
(* blobSize, its blobs (a sequence of runs [vid, minBid, count]), and the  *)
(* readSize and offset of the Get.  The result is an error flag and the    *)
(* blobGetArgs [vid, bid, blobSize, offset, readSize] in location order.   *)
(***************************************************************************)
MinU64(a, b) == IF a < b THEN a ELSE b

Fail       == [err |-> TRUE, blobs |-> <<>>]
Ok(blobs)  == [err |-> FALSE, blobs |-> blobs]

\* the bids of the location's runs in order, as the two nested loops visit them
LocationBids(r) ==
    FlattenSeq([j \in 1 .. Len(r.blobs) |->
                  [k \in 1 .. r.blobs[j].count |->
                     [vid |-> r.blobs[j].vid, bid |-> r.blobs[j].minBid + k - 1]]])

\* the blobGetArgs of bid number idx (0-based), read from blobOffset
BlobArgs(r, bids, idx, bo, toRead) ==
    [vid |-> bids[idx + 1].vid, bid |-> bids[idx + 1].bid,
     blobSize |-> MinU64(r.size - idx * r.blobSize, r.blobSize),
     offset |-> bo, readSize |-> toRead]

(* Variant of Split: blobOffset is not reset after the first blob read. *)
RECURSIVE SplitNoReset(_, _, _, _, _, _)
SplitNoReset(r, bids, idx, remain, bo, acc) ==
    IF idx = Len(bids) THEN IF remain > 0 THEN Fail ELSE Ok(acc)
    ELSE IF remain = 0 THEN Ok(acc)
    ELSE IF idx >= r.offset \div r.blobSize
      THEN LET t == MinU64(remain, r.blobSize - bo)
           IN  SplitNoReset(r, bids, idx + 1, remain - t, bo,
                            IF t > 0 THEN Append(acc, BlobArgs(r, bids, idx, bo, t))
                                     ELSE acc)
      ELSE SplitNoReset(r, bids, idx + 1, remain, bo, acc)

(***************************************************************************)
(* The loop over the bids from index idx with remainSize = remain and      *)
(* blobOffset = bo: stop once nothing remains; from firstBlobIdx on, read  *)
(* min(remain, blobSize - blobOffset) of the bid, then blobOffset = 0; an  *)
(* exhausted location with bytes left is "no enough data".                 *)
(***************************************************************************)
RECURSIVE Split(_, _, _, _, _, _)
Split(r, bids, idx, remain, bo, acc) ==
    IF idx = Len(bids) THEN IF remain > 0 THEN Fail ELSE Ok(acc)
    ELSE IF remain = 0 THEN Ok(acc)
    ELSE IF idx >= r.offset \div r.blobSize
      THEN LET t == MinU64(remain, r.blobSize - bo)
           IN  Split(r, bids, idx + 1, remain - t, 0,
                     IF t > 0 THEN Append(acc, BlobArgs(r, bids, idx, bo, t))
                              ELSE acc)
      ELSE Split(r, bids, idx + 1, remain, bo, acc)

(* genLocationBlobs: range and blob size checks, then the split *)
GenLocationBlobs(r) ==
    IF r.offset + r.readSize > r.size \/ r.blobSize = 0 THEN Fail
    ELSE Split(r, LocationBids(r), 0, r.readSize, r.offset % r.blobSize, <<>>)

(***************************************************************************)
(* The split as spec section 3 states it, by arithmetic on byte ranges:    *)
(* blob i of the location covers [i * blobSize, (i + 1) * blobSize) and is *)
(* min(blobSize, size - i * blobSize) long; the Get reads the blobs from   *)
(* offset / blobSize to (offset + readSize - 1) / blobSize, each over its  *)
(* intersection with [offset, offset + readSize).                          *)
(***************************************************************************)
RefLocationBlobs(r) ==
    LET bs    == r.blobSize
        end   == r.offset + r.readSize
        bids  == LocationBids(r)
    IN  IF end > r.size \/ bs = 0 THEN Fail
        ELSE IF r.readSize = 0 THEN Ok(<<>>)
        ELSE IF (end - 1) \div bs >= Len(bids) THEN Fail
        ELSE LET first == r.offset \div bs
                 last  == (end - 1) \div bs
                 Lo(i) == IF r.offset > i * bs THEN r.offset ELSE i * bs
                 Hi(i) == IF end < (i + 1) * bs THEN end ELSE (i + 1) * bs
             IN  Ok([k \in 1 .. last - first + 1 |->
                       LET i == first + k - 1
                       IN  [vid |-> bids[i + 1].vid, bid |-> bids[i + 1].bid,
                            blobSize |-> IF bs < r.size - i * bs THEN bs
                                                                 ELSE r.size - i * bs,
                            offset |-> Lo(i) - i * bs,
                            readSize |-> Hi(i) - Lo(i)]])

Blobs == 1 .. MaxBlobs
Lines == [blob : Blobs, err : BOOLEAN]     \* pipeBuffer{err, blob, shards}

VARIABLES
    req,        \* the Get's arguments, a member of Requests
    nb,         \* len(blobs)
    small,      \* the single blob satisfies the data-shard-only condition
    illegal,    \* genLocationBlobs returned an error
    cons,       \* the consumer (the returned closure)
    result,     \* what the closure returns: "none", "ok" or "err"
    pip,        \* the pipeline goroutine
    cur,        \* the blob the pipeline is at
    ch,         \* buffered pipeBuffer values
    chClosed,   \* close(ch) done by the pipeline's defer
    closeCh,    \* closeCh closed by the consumer
    inHand,     \* the blob the consumer is writing
    written,    \* blobs whose bytes were fully written, in order
    issued,     \* blobs whose shard reads were issued to the blobnodes
    matrices    \* N+M buffer matrices allocated and not yet put

vars == <<req, nb, small, illegal, cons, result, pip, cur, ch, chClosed, closeCh, inHand,
          written, issued, matrices>>

TypeOK ==
    /\ req \in Requests
    /\ nb \in 0 .. MaxBlobs
    /\ small \in BOOLEAN
    /\ illegal \in BOOLEAN
    /\ cons \in {"start", "fast", "recv", "write", "done"}
    /\ result \in {"none", "ok", "err"}
    /\ pip \in {"idle", "read", "send", "senderr", "exit"}
    /\ cur \in 1 .. (MaxBlobs + 1)
    /\ ch \in Seq(Lines) /\ Len(ch) <= 1
    /\ chClosed \in BOOLEAN
    /\ closeCh \in BOOLEAN
    /\ inHand \in 0 .. MaxBlobs
    /\ written \in Seq(Blobs)
    /\ issued \subseteq Blobs
    /\ matrices \in Nat

(***************************************************************************)
(* Get(location, readSize, offset) splits the range with genLocationBlobs. *)
(* A single blob is small when blobSize <= shardSize (the ec geometry is   *)
(* not in this repository: either way) or readSize < blobSize / 4.         *)
(***************************************************************************)
Init ==
    /\ req \in Requests
    /\ LET g == GenLocationBlobs(req)
       IN  /\ illegal = g.err
           /\ nb = Len(g.blobs)
           /\ small \in IF Len(g.blobs) # 1 THEN {FALSE}
                        ELSE IF g.blobs[1].readSize < g.blobs[1].blobSize \div 4
                               THEN {TRUE} ELSE BOOLEAN
    /\ cons = "start"
    /\ result = "none"
    /\ pip = "idle"
    /\ cur = 1
    /\ ch = <<>>
    /\ chClosed = FALSE
    /\ closeCh = FALSE
    /\ inHand = 0
    /\ written = <<>>
    /\ issued = {}
    /\ matrices = 0

Return(r) == cons' = "done" /\ result' = r

(***************************************************************************)
(* Get: an illegal range or blob size fails with ErrIllegalArguments; no   *)
(* blob returns at once; the service controller lookup may fail   *)
(* after its retries; a single small blob (blobSize <= shardSize or        *)
(* readSize < blobSize/4) goes to the data-shard-only path; otherwise the  *)
(* pipeline goroutine is started.                                          *)
(***************************************************************************)
GetStart ==
    /\ cons = "start"
    /\ \/ illegal /\ Return("err") /\ UNCHANGED pip
       \/ ~illegal /\ nb = 0 /\ Return("ok") /\ UNCHANGED pip
       \/ nb > 0 /\ Return("err") /\ UNCHANGED pip
       \/ nb = 1 /\ small /\ cons' = "fast" /\ UNCHANGED <<result, pip>>
       \/ nb > 0 /\ ~(nb = 1 /\ small)
          /\ cons' = "recv" /\ pip' = "read" /\ UNCHANGED result
    /\ UNCHANGED <<req, nb, small, illegal, cur, ch, chClosed, closeCh, inHand, written,
                   issued, matrices>>

(***************************************************************************)
(* getDataShardOnly: a volume lookup error fails the Get; any shard error  *)
(* returns errNeedReconstructRead and the general path runs; otherwise the *)
(* bytes go to the writer, which may fail.  The range buffer is released   *)
(* by its defer on every path.                                             *)
(***************************************************************************)
FastPath ==
    /\ cons = "fast"
    /\ \/ Return("err") /\ UNCHANGED <<pip, issued, written>>
       \/ /\ cons' = "recv" /\ pip' = "read" /\ issued' = {1}
          /\ UNCHANGED <<result, written>>
       \/ Return("ok") /\ issued' = {1} /\ written' = <<1>> /\ UNCHANGED pip
       \/ Return("err") /\ issued' = {1} /\ UNCHANGED <<pip, written>>
    /\ UNCHANGED <<req, nb, small, illegal, cur, ch, chClosed, closeCh, inHand, matrices>>

(***************************************************************************)
(* Pipeline, one blob: resolve the volume when the vid changes (may fail,  *)
(* or leave fewer than N units), allocate the N+M matrix, readOneBlob.  On *)
(* an error the matrix is put back and the error is to be sent.           *)
(***************************************************************************)
ReadBlob ==
    /\ pip = "read"
    /\ cur <= nb
    /\ issued' = issued \cup {cur}
    /\ \/ pip' = "send" /\ matrices' = matrices + 1
       \/ pip' = "senderr" /\ UNCHANGED matrices
    /\ UNCHANGED <<req, nb, small, illegal, cons, result, cur, ch, chClosed, closeCh, inHand,
                   written>>

(* Variant of SendBlob: a channel of capacity 2. *)
SendBlobCap2 ==
    /\ pip = "send"
    /\ Len(ch) < 2
    /\ ch' = Append(ch, [blob |-> cur, err |-> FALSE])
    /\ cur' = cur + 1
    /\ pip' = "read"
    /\ UNCHANGED <<req, nb, small, illegal, cons, result, chClosed, closeCh, inHand, written,
                   issued, matrices>>

(* select case ch <- pipeBuffer{blob, shards}: then on to the next blob *)
SendBlob ==
    /\ pip = "send"
    /\ Len(ch) < ChanCap
    /\ ch' = Append(ch, [blob |-> cur, err |-> FALSE])
    /\ cur' = cur + 1
    /\ pip' = "read"
    /\ UNCHANGED <<req, nb, small, illegal, cons, result, chClosed, closeCh, inHand, written,
                   issued, matrices>>

(* select case <-closeCh: return, the matrix just read is not put back *)
AbandonBlob ==
    /\ pip = "send"
    /\ closeCh
    /\ pip' = "exit"
    /\ chClosed' = TRUE
    /\ UNCHANGED <<req, nb, small, illegal, cons, result, cur, ch, closeCh, inHand, written,
                   issued, matrices>>

(* ch <- pipeBuffer{err: err}; return: a plain send, no select *)
SendErr ==
    /\ pip = "senderr"
    /\ Len(ch) < ChanCap
    /\ ch' = Append(ch, [blob |-> cur, err |-> TRUE])
    /\ pip' = "exit"
    /\ chClosed' = TRUE
    /\ UNCHANGED <<req, nb, small, illegal, cons, result, cur, closeCh, inHand, written,
                   issued, matrices>>

(* all blobs sent: the goroutine returns and its defer closes ch *)
PipelineEnd ==
    /\ pip = "read"
    /\ cur > nb
    /\ pip' = "exit"
    /\ chClosed' = TRUE
    /\ UNCHANGED <<req, nb, small, illegal, cons, result, cur, ch, closeCh, inHand, written,
                   issued, matrices>>

(* Variant of Receive: an error line is skipped instead of returned. *)
ReceiveSkipErr ==
    /\ cons = "recv"
    /\ ch # <<>>
    /\ ch' = Tail(ch)
    /\ IF Head(ch).err
         THEN UNCHANGED <<cons, result, inHand>>
         ELSE cons' = "write" /\ inHand' = Head(ch).blob /\ UNCHANGED result
    /\ UNCHANGED <<req, nb, small, illegal, pip, cur, chClosed, closeCh, written, issued,
                   matrices>>

(* for line := range pipeline: an error line is returned *)
Receive ==
    /\ cons = "recv"
    /\ ch # <<>>
    /\ ch' = Tail(ch)
    /\ IF Head(ch).err
         THEN Return("err") /\ UNCHANGED inHand
         ELSE cons' = "write" /\ inHand' = Head(ch).blob /\ UNCHANGED result
    /\ UNCHANGED <<req, nb, small, illegal, pip, cur, chClosed, closeCh, written, issued,
                   matrices>>

(* the range loop ends on a closed, empty channel: return nil *)
ReceiveClosed ==
    /\ cons = "recv"
    /\ ch = <<>>
    /\ chClosed
    /\ Return("ok")
    /\ UNCHANGED <<req, nb, small, illegal, pip, cur, ch, chClosed, closeCh, inHand, written,
                   issued, matrices>>

(* Variant of Write: the N+M buffers are not put after a successful write. *)
WriteNoPut ==
    /\ cons = "write"
    /\ \/ written' = Append(written, inHand) /\ cons' = "recv"
          /\ UNCHANGED <<result, closeCh, matrices>>
       \/ closeCh' = TRUE /\ Return("err") /\ matrices' = matrices - 1
          /\ UNCHANGED written
    /\ UNCHANGED <<req, nb, small, illegal, pip, cur, ch, chClosed, inHand, issued>>

(***************************************************************************)
(* Copy the blob's range to the writer, put the N+M buffers; on a writer   *)
(* error close closeCh and return the error.                               *)
(***************************************************************************)
Write ==
    /\ cons = "write"
    /\ matrices' = matrices - 1
    /\ \/ written' = Append(written, inHand) /\ cons' = "recv"
          /\ UNCHANGED <<result, closeCh>>
       \/ closeCh' = TRUE /\ Return("err") /\ UNCHANGED written
    /\ UNCHANGED <<req, nb, small, illegal, pip, cur, ch, chClosed, inHand, issued>>

(* the caller has the closure's answer; what remains may stop here *)
Returned ==
    /\ cons = "done"
    /\ UNCHANGED vars

Next ==
    \/ GetStart \/ FastPath \/ ReadBlob \/ SendBlob \/ AbandonBlob \/ SendErr
    \/ PipelineEnd \/ Receive \/ ReceiveClosed \/ Write \/ Returned

(* Both goroutines are scheduled by the Go runtime; reads and writes end. *)
Fairness ==
    /\ WF_vars(GetStart) /\ WF_vars(FastPath) /\ WF_vars(ReadBlob)
    /\ WF_vars(SendBlob) /\ WF_vars(AbandonBlob) /\ WF_vars(SendErr)
    /\ WF_vars(PipelineEnd) /\ WF_vars(Receive) /\ WF_vars(ReceiveClosed)
    /\ WF_vars(Write)

Spec == Init /\ [][Next]_vars /\ Fairness

-----------------------------------------------------------------------------
(***************************************************************************)
(* A Get that returns nil has written every blob of the range, each once  *)
(* and in location order: an error of any blob is never swallowed.         *)
(***************************************************************************)
GetOkImpliesComplete ==
    result = "ok" => written = [i \in 1 .. nb |-> i]

(***************************************************************************)
(* genLocationBlobs splits the request as spec section 3 states: the       *)
(* blobs of the range in location order, the first read from offset mod    *)
(* blobSize and every later one from 0, the last blob of the location cut  *)
(* to the location size, and ErrIllegalArguments exactly when the range    *)
(* passes the size, the blob size is zero, or the runs hold too few bids.  *)
(***************************************************************************)
LocationSplit == GenLocationBlobs(req) = RefLocationBlobs(req)

(***************************************************************************)
(* Memory of one Get: at most one matrix being written, ChanCap waiting in *)
(* the channel and one being read, i.e. (ChanCap + 2) * (N+M) buffers.     *)
(***************************************************************************)
MatricesBound == matrices <= ChanCap + 2

(***************************************************************************)
(* Spec section 5 (c) and buffer invariant 1: once Get has returned, the   *)
(* pipeline goroutine eventually ends and every pool buffer it took is     *)
(* back (no goroutine leak and no buffer leak).                            *)
(***************************************************************************)
GetCleansUp ==
    <>(cons = "done" /\ pip \in {"exit", "idle"} /\ matrices = 0)

=============================================================================
