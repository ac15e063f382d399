----------------------------- MODULE ShardRepair -----------------------------
(***************************************************************************)
(* The tinker shard repair manager (src/unnamed/part_000, ShardRepairMgr). *)
(* RunTask starts one loop on the normal (priority) topic and one loop per *)
(* partition of the fail topic.  Each turn of a loop is WaitEnable on the  *)
(* task switch and then consumerAndRepair: ConsumeMessages takes up to a   *)
(* batch of messages after the consumer's position, handleMsgBatch runs    *)
(* handleOneMsg for every message on the task pool and collects the        *)
(* results from finishCh in completion order (a failed repair is resent    *)
(* to the fail topic with Retry+1, LoopExecUntilSuccess retrying the send  *)
(* until it succeeds), and only then the offset is committed, again until  *)
(* it succeeds.                                                            *)
(*                                                                         *)
(* A topic partition is an append-only log with the consumer's in-memory   *)
(* position and its committed offset; a crash of the process loses the    *)
(* positions, the batches in flight and the unsent retries, and the       *)
(* consumers restart from the committed offsets.  The orphaned shard table *)
(* and the repaired shards are outside the process and survive.  A repair  *)
(* (repairWithCheckVolConsistency, tryRepair with its second attempt after *)
(* a volume cache update, repairShard and saveOrphanedShard) is one step   *)
(* whose outcome is chosen: done, orphan (saved to the table) or failed.   *)
(***************************************************************************)
EXTENDS Naturals, Sequences, FiniteSets

CONSTANTS
    Shards,             \* shards named by repair messages (vid:bid:badIdx)
    FailParts,          \* partitions of the fail topic, one consumer loop each
    NormalHandleBatchCnt,
    FailHandleBatchCnt,
    NormalMsgs,         \* the normal topic's messages at start
    MaxRetry,           \* bound: a message with this Retry is repaired or orphaned
    MaxCrashes,         \* bound: process crashes
    MaxToggles,         \* bound: task switch changes
    MaxOutages          \* bound: times the fail topic goes down

Normal == "normal"
Parts  == {Normal} \cup FailParts

(* a repair message: the shard it names, its Retry, and whether it decodes *)
(* and passes IsValid                                                       *)
Msg == [shard : Shards, retry : 0 .. MaxRetry, valid : BOOLEAN]

(* consumerAndRepair raises a non-positive batch count to 1 *)
BatchOf(n) == IF n <= 0 THEN 1 ELSE n

(* RunTask: the fail topic's batch is shared by its partition consumers *)
BatchCnt(p) ==
    IF p = Normal THEN BatchOf(NormalHandleBatchCnt)
    ELSE BatchOf(FailHandleBatchCnt \div Cardinality(FailParts))

Statuses == {"Done", "Failed", "Unexpect", "Orphan"}

VARIABLES
    topic,      \* partition -> its log of messages
    committed,  \* partition -> committed offset (messages 1..committed)
    pos,        \* partition -> the consumer's position (in memory)
    lpc,        \* partition -> its loop: "wait", "consume", "batch", "send"
    todo,       \* partition -> offsets of the batch not yet handled
    finishCh,   \* partition -> <<[status, msg]>> in completion order
    sending,    \* partition -> the failed message being resent
    enabled,    \* the shard repair task switch
    failUp,     \* the fail topic accepts SendMessage
    repaired,   \* shards a worker repaired
    orphans,    \* the orphaned shard table
    crashes, toggles, outages

srVars == <<topic, committed, pos, lpc, todo, finishCh, sending, enabled, failUp,
            repaired, orphans, crashes, toggles, outages>>

NoMsg == [shard |-> CHOOSE s \in Shards : TRUE, retry |-> 0, valid |-> FALSE]

TypeOK ==
    /\ topic \in [Parts -> Seq(Msg)]
    /\ \A p \in Parts : committed[p] \in 0 .. pos[p] /\ pos[p] \in 0 .. Len(topic[p])
    /\ lpc \in [Parts -> {"wait", "consume", "batch", "send"}]
    /\ \A p \in Parts : todo[p] \subseteq 1 .. pos[p]
    /\ finishCh \in [Parts -> Seq([status : Statuses, msg : Msg])]
    /\ sending \in [Parts -> Msg]
    /\ enabled \in BOOLEAN /\ failUp \in BOOLEAN
    /\ repaired \subseteq Shards /\ orphans \subseteq Shards

Init ==
    /\ topic = [p \in Parts |-> IF p = Normal THEN NormalMsgs ELSE <<>>]
    /\ committed = [p \in Parts |-> 0]
    /\ pos = [p \in Parts |-> 0]
    /\ lpc = [p \in Parts |-> "wait"]
    /\ todo = [p \in Parts |-> {}]
    /\ finishCh = [p \in Parts |-> <<>>]
    /\ sending = [p \in Parts |-> NoMsg]
    /\ enabled \in BOOLEAN
    /\ failUp = TRUE
    /\ repaired = {} /\ orphans = {}
    /\ crashes = 0 /\ toggles = 0 /\ outages = 0

-----------------------------------------------------------------------------
(* s.taskSwitch.WaitEnable() returns *)
WaitEnable(p) ==
    /\ lpc[p] = "wait" /\ enabled
    /\ lpc' = [lpc EXCEPT ![p] = "consume"]
    /\ UNCHANGED <<topic, committed, pos, todo, finishCh, sending, enabled, failUp,
                   repaired, orphans, crashes, toggles, outages>>

(* Variant of ConsumeMessages: always a full batch, however few messages *)
(* are left.                                                                *)
ConsumeMessagesFull(p) ==
    /\ lpc[p] = "consume" /\ pos[p] < Len(topic[p])
    /\ todo' = [todo EXCEPT ![p] = pos[p] + 1 .. pos[p] + BatchCnt(p)]
    /\ pos' = [pos EXCEPT ![p] = @ + BatchCnt(p)]
    /\ lpc' = [lpc EXCEPT ![p] = "batch"]
    /\ UNCHANGED <<topic, committed, finishCh, sending, enabled, failUp,
                   repaired, orphans, crashes, toggles, outages>>

(***************************************************************************)
(* consumer.ConsumeMessages(ctx, batchCnt) hands out the next messages     *)
(* (it waits while there are none) and handleMsgBatch submits one task per *)
(* message to the pool.                                                    *)
(***************************************************************************)
ConsumeMessages(p) ==
    LET n == IF Len(topic[p]) - pos[p] < BatchCnt(p) THEN Len(topic[p]) - pos[p]
                                                     ELSE BatchCnt(p)
    IN  /\ lpc[p] = "consume" /\ n > 0
        /\ todo' = [todo EXCEPT ![p] = pos[p] + 1 .. pos[p] + n]
        /\ pos' = [pos EXCEPT ![p] = @ + n]
        /\ lpc' = [lpc EXCEPT ![p] = "batch"]
        /\ UNCHANGED <<topic, committed, finishCh, sending, enabled, failUp,
                       repaired, orphans, crashes, toggles, outages>>

(* the repair's outcome for a valid message: the worker repairs the shard, *)
(* reports it orphaned (saveOrphanedShard stores it), or fails; a message  *)
(* already retried MaxRetry times is not failed again                      *)
Outcomes(m) ==
    IF ~m.valid THEN {"Unexpect"}
    ELSE IF m.retry < MaxRetry THEN {"Done", "Orphan", "Failed"}
    ELSE {"Done", "Orphan"}

(* a pool task runs handleOneMsg and sends its result on finishCh *)
HandleOneMsg(p, i) ==
    LET m == topic[p][i]
    IN  /\ lpc[p] \in {"batch", "send"} /\ i \in todo[p]
        /\ \E st \in Outcomes(m) :
             /\ finishCh' = [finishCh EXCEPT ![p] = Append(@, [status |-> st, msg |-> m])]
             /\ repaired' = IF st = "Done" THEN repaired \cup {m.shard} ELSE repaired
             /\ orphans' = IF st = "Orphan" THEN orphans \cup {m.shard} ELSE orphans
        /\ todo' = [todo EXCEPT ![p] = @ \ {i}]
        /\ UNCHANGED <<topic, committed, pos, lpc, sending, enabled, failUp,
                       crashes, toggles, outages>>

(* the collect loop takes the next result; only a failed one has more to do *)
Collect(p) ==
    LET r == Head(finishCh[p])
    IN  /\ lpc[p] = "batch" /\ finishCh[p] # <<>>
        /\ finishCh' = [finishCh EXCEPT ![p] = Tail(@)]
        /\ IF r.status = "Failed"
             THEN lpc' = [lpc EXCEPT ![p] = "send"] /\ sending' = [sending EXCEPT ![p] = r.msg]
             ELSE UNCHANGED <<lpc, sending>>
        /\ UNCHANGED <<topic, committed, pos, todo, enabled, failUp,
                       repaired, orphans, crashes, toggles, outages>>

(* send2FailQueue succeeds: a copy with Retry+1 is produced to a fail partition *)
Send2FailQueue(p) ==
    /\ lpc[p] = "send" /\ failUp
    /\ \E q \in FailParts :
         topic' = [topic EXCEPT ![q] = Append(@, [sending[p] EXCEPT !.retry = @ + 1])]
    /\ lpc' = [lpc EXCEPT ![p] = "batch"]
    /\ sending' = [sending EXCEPT ![p] = NoMsg]
    /\ UNCHANGED <<committed, pos, todo, finishCh, enabled, failUp,
                   repaired, orphans, crashes, toggles, outages>>

(* Variant of CommitOffset: the offset is committed before the batch's   *)
(* results are collected.                                                   *)
CommitOffsetEarly(p) ==
    /\ lpc[p] = "batch"
    /\ committed' = [committed EXCEPT ![p] = pos[p]]
    /\ lpc' = [lpc EXCEPT ![p] = "wait"]
    /\ UNCHANGED <<topic, pos, todo, finishCh, sending, enabled, failUp,
                   repaired, orphans, crashes, toggles, outages>>

(* Variant of CommitOffset: the offset of the last message is committed   *)
(* instead of the next one to read.                                         *)
CommitOffsetLast(p) ==
    /\ lpc[p] = "batch" /\ todo[p] = {} /\ finishCh[p] = <<>>
    /\ committed' = [committed EXCEPT ![p] = pos[p] - 1]
    /\ lpc' = [lpc EXCEPT ![p] = "wait"]
    /\ UNCHANGED <<topic, pos, todo, finishCh, sending, enabled, failUp,
                   repaired, orphans, crashes, toggles, outages>>

(* every result collected: CommitOffset commits the position; the loop turns *)
CommitOffset(p) ==
    /\ lpc[p] = "batch" /\ todo[p] = {} /\ finishCh[p] = <<>>
    /\ committed' = [committed EXCEPT ![p] = pos[p]]
    /\ lpc' = [lpc EXCEPT ![p] = "wait"]
    /\ UNCHANGED <<topic, pos, todo, finishCh, sending, enabled, failUp,
                   repaired, orphans, crashes, toggles, outages>>

-----------------------------------------------------------------------------
(* the process crashes and restarts: consumers resume at the committed offsets *)
Crash ==
    /\ crashes < MaxCrashes
    /\ crashes' = crashes + 1
    /\ pos' = committed
    /\ lpc' = [p \in Parts |-> "wait"]
    /\ todo' = [p \in Parts |-> {}]
    /\ finishCh' = [p \in Parts |-> <<>>]
    /\ sending' = [p \in Parts |-> NoMsg]
    /\ UNCHANGED <<topic, committed, enabled, failUp, repaired, orphans, toggles, outages>>

(* clustermgr switches the task on or off *)
Toggle ==
    /\ toggles < MaxToggles
    /\ toggles' = toggles + 1 /\ enabled' = ~enabled
    /\ UNCHANGED <<topic, committed, pos, lpc, todo, finishCh, sending, failUp,
                   repaired, orphans, crashes, outages>>

(* the fail topic stops, and later resumes, accepting messages *)
FailTopicDown ==
    /\ failUp /\ outages < MaxOutages
    /\ failUp' = FALSE /\ outages' = outages + 1
    /\ UNCHANGED <<topic, committed, pos, lpc, todo, finishCh, sending, enabled,
                   repaired, orphans, crashes, toggles>>

FailTopicUp ==
    /\ ~failUp /\ failUp' = TRUE
    /\ UNCHANGED <<topic, committed, pos, lpc, todo, finishCh, sending, enabled,
                   repaired, orphans, crashes, toggles, outages>>

Loop(p) ==
    \/ WaitEnable(p) \/ ConsumeMessages(p) \/ Collect(p)
    \/ Send2FailQueue(p) \/ CommitOffset(p)
    \/ \E i \in todo[p] : HandleOneMsg(p, i)

Next ==
    \/ \E p \in Parts : Loop(p)
    \/ Crash \/ Toggle \/ FailTopicDown \/ FailTopicUp

(* the Go scheduler runs every runnable loop and pool task *)
Fairness == \A p \in Parts : WF_srVars(Loop(p))

Spec == Init /\ [][Next]_srVars /\ Fairness

-----------------------------------------------------------------------------
(* what became of a message: it needed no repair, its shard was repaired  *)
(* or recorded as orphaned, or its retry sits in the fail topic            *)
Resolved(m) ==
    \/ ~m.valid
    \/ m.shard \in repaired \cup orphans
    \/ \E q \in FailParts : \E j \in 1 .. Len(topic[q]) :
          topic[q][j] = [m EXCEPT !.retry = @ + 1]

(***************************************************************************)
(* No repair request is lost: every message below a committed offset was   *)
(* resolved, whatever crashes hit the process between handling a batch and *)
(* CommitOffset, i.e. consumerAndRepair commits only what handleMsgBatch   *)
(* finished, and a failed repair is in the fail topic before that commit.  *)
(***************************************************************************)
NoMessageLost ==
    \A p \in Parts : \A i \in 1 .. committed[p] : Resolved(topic[p][i])

Settled == \A p \in Parts : committed[p] = Len(topic[p])

(***************************************************************************)
(* Once the task switch stays on and the fail topic stays up, every       *)
(* message of every topic, retries included, is eventually committed and   *)
(* nothing is left to consume: the loops, the pool and LoopExecUntilSuccess *)
(* never stall a batch for good.                                           *)
(***************************************************************************)
AllCommitted ==
    (<>[]enabled /\ <>[]failUp) => <>[]Settled

=============================================================================
