----------------------------- MODULE TaskRunner -----------------------------
(***************************************************************************)
(* The worker's TaskRunner (src/worker/task_runner.go): one long task      *)
(* split into tasklets that run in a pool of taskletRunConcurrency         *)
(* goroutines, stopped by the first tasklet failure or by Stop(), and      *)
(* ended by exactly one verdict to the scheduler: CompleteTask,            *)
(* CancelTask or ReclaimTask.                                              *)
(*                                                                         *)
(* Three kinds of goroutine interleave: Run (main), the pool's tasklet     *)
(* goroutines (one per tasklet, at most Concurrency past the select), and  *)
(* a caller of Stop.  r.ctx is the boolean canceled; stopReason is written *)
(* under stopMu and read by Run without it (line 286), which at word size *)
(* sees either the old or the new pointer, i.e. the read is one step.     *)
(* Statistics and ReportTask calls change nothing the properties observe   *)
(* and are left out.                                                       *)
(***************************************************************************)
EXTENDS Naturals, Sequences, FiniteSets

CONSTANTS
    Tasklets,     \* the tasklets GenTasklets returns
    Concurrency,  \* taskletRunConcurrency
    Errs,         \* WorkErrors the worker may return: [type, code]
    MaxStops      \* bound: Stop() calls in one behaviour

ASSUME /\ IsFiniteSet(Tasklets) /\ Concurrency \in Nat \ {0}
       /\ MaxStops \in Nat

None   == [type |-> "none", code |-> "none"]
Killed == [type |-> "other", code |-> "killed"]    \* OtherError(errKilled)

\* TaskInit .. TaskStopped
States == {"Init", "Running", "Stopping", "Success", "Stopped"}

VARIABLES
    state,       \* r.state.state
    main,        \* Run's program counter
    tl,          \* tasklet -> "new", "queued", "exec", "ok", "fail", "skip"
    canceled,    \* r.ctx is done
    stopReason,  \* r.stopReason, or None
    reason,      \* the error Run passes to cancelOrReclaim
    sent,        \* the requests sent to the scheduler, in order
    kpc,         \* the Stop caller: "idle" or "fail" (between its two calls)
    stops        \* Stop() calls made

vars == <<state, main, tl, canceled, stopReason, reason, sent, kpc, stops>>

Finished == {"ok", "fail", "skip"}

TypeOK ==
    /\ state \in States
    /\ main \in {"idle", "gen", "wait", "check", "cor", "corSet",
                 "complete", "compSet", "done"}
    /\ tl \in [Tasklets -> {"new", "queued", "exec"} \cup Finished]
    /\ canceled \in BOOLEAN
    /\ stopReason \in Errs \cup {None, Killed}
    /\ sent \in Seq({"complete", "cancel", "reclaim"})
    /\ kpc \in {"idle", "fail"} /\ stops \in 0 .. MaxStops

(* TaskState.stoppedState, what TaskRunner.Stopped() reports *)
stoppedState == state \in {"Success", "Stopped"}

(* TaskState.setStatus: no change to the same state, and no way back to   *)
(* Running once Success or Stopped                                        *)
SetStatus(s) ==
    state' = IF s = state \/ (s = "Running" /\ stoppedState) THEN state ELSE s

(* ShouldReclaim: only destination errors that are not interrupt/overload *)
ShouldReclaim(e) == e.type = "dst" /\ e.code \notin {"interrupt", "overload"}

(* stopWithFail: under stopMu keep the first reason, then r.cancel() *)
StopWithFail(e) ==
    /\ stopReason' = IF stopReason = None THEN e ELSE stopReason
    /\ canceled' = TRUE

(* NewTaskRunner *)
Init ==
    /\ state = "Init"
    /\ main = "idle"
    /\ tl = [t \in Tasklets |-> "new"]
    /\ canceled = FALSE
    /\ stopReason = None
    /\ reason = None
    /\ sent = <<>>
    /\ kpc = "idle" /\ stops = 0

-----------------------------------------------------------------------------
(* Run: setStatus(TaskRunning) *)
RunStart ==
    /\ main = "idle"
    /\ SetStatus("Running")
    /\ main' = "gen"
    /\ UNCHANGED <<tl, canceled, stopReason, reason, sent, kpc, stops>>

(* GenTasklets fails: cancelOrReclaim(err) *)
GenFail ==
    /\ main = "gen"
    /\ \E e \in Errs : reason' = e
    /\ main' = "cor"
    /\ UNCHANGED <<state, tl, canceled, stopReason, sent, kpc, stops>>

(* GenTasklets succeeds: every tasklet is put into the pool *)
GenOk ==
    /\ main = "gen"
    /\ tl' = [t \in Tasklets |-> "queued"]
    /\ main' = "wait"
    /\ UNCHANGED <<state, canceled, stopReason, reason, sent, kpc, stops>>

(* Variant of WaitAll: a stop reason makes Run return without a verdict. *)
WaitAllReturnOnStop ==
    /\ main = "wait"
    /\ \A t \in Tasklets : tl[t] \in Finished
    /\ canceled' = TRUE
    /\ IF stopReason # None
         THEN main' = "done" /\ UNCHANGED reason
         ELSE main' = "check" /\ UNCHANGED reason
    /\ UNCHANGED <<state, tl, stopReason, sent, kpc, stops>>

(* wg.Wait() returns; r.cancel(); if r.stopReason != nil cancelOrReclaim *)
WaitAll ==
    /\ main = "wait"
    /\ \A t \in Tasklets : tl[t] \in Finished
    /\ canceled' = TRUE
    /\ IF stopReason # None
         THEN reason' = stopReason /\ main' = "cor"
         ELSE main' = "check" /\ UNCHANGED reason
    /\ UNCHANGED <<state, tl, stopReason, sent, kpc, stops>>

(* w.Check: an error goes to cancelOrReclaim, nil to completeTask *)
Check ==
    /\ main = "check"
    /\ \/ \E e \in Errs : reason' = e /\ main' = "cor"
       \/ main' = "complete" /\ UNCHANGED reason
    /\ UNCHANGED <<state, tl, canceled, stopReason, sent, kpc, stops>>

(* cancelOrReclaim: ReclaimTask or CancelTask (errors only logged) *)
CancelOrReclaim ==
    /\ main = "cor"
    /\ sent' = Append(sent, IF ShouldReclaim(reason) THEN "reclaim" ELSE "cancel")
    /\ main' = "corSet"
    /\ UNCHANGED <<state, tl, canceled, stopReason, reason, kpc, stops>>

(* cancelOrReclaim's deferred setStatus(TaskStopped) *)
CancelOrReclaimDone ==
    /\ main = "corSet"
    /\ SetStatus("Stopped")
    /\ main' = "done"
    /\ UNCHANGED <<tl, canceled, stopReason, reason, sent, kpc, stops>>

(* completeTask: CompleteTask (errors only logged) *)
CompleteTask ==
    /\ main = "complete"
    /\ sent' = Append(sent, "complete")
    /\ main' = "compSet"
    /\ UNCHANGED <<state, tl, canceled, stopReason, reason, kpc, stops>>

(* completeTask's deferred setStatus(TaskSuccess) *)
CompleteTaskDone ==
    /\ main = "compSet"
    /\ SetStatus("Success")
    /\ main' = "done"
    /\ UNCHANGED <<tl, canceled, stopReason, reason, sent, kpc, stops>>

-----------------------------------------------------------------------------
(* execTaskletWrap on a pool goroutine: select on r.ctx.Done() *)
TaskletStart(t) ==
    /\ tl[t] = "queued"
    /\ Cardinality({u \in Tasklets : tl[u] = "exec"}) < Concurrency
    /\ tl' = [tl EXCEPT ![t] = IF canceled THEN "skip" ELSE "exec"]
    /\ UNCHANGED <<state, main, canceled, stopReason, reason, sent, kpc, stops>>

(* ExecTasklet returns nil: statsAndReportTask *)
TaskletOk(t) ==
    /\ tl[t] = "exec"
    /\ tl' = [tl EXCEPT ![t] = "ok"]
    /\ UNCHANGED <<state, main, canceled, stopReason, reason, sent, kpc, stops>>

(* Variant of TaskletFail: the context is cancelled, the reason dropped. *)
TaskletFailCancelOnly(t) ==
    /\ tl[t] = "exec"
    /\ tl' = [tl EXCEPT ![t] = "fail"]
    /\ canceled' = TRUE
    /\ UNCHANGED <<state, main, stopReason, reason, sent, kpc, stops>>

(* ExecTasklet returns an error: stopWithFail(retErr) *)
TaskletFail(t) ==
    /\ tl[t] = "exec"
    /\ tl' = [tl EXCEPT ![t] = "fail"]
    /\ \E e \in Errs : StopWithFail(e)
    /\ UNCHANGED <<state, main, reason, sent, kpc, stops>>

-----------------------------------------------------------------------------
(* Variant of StopSetStatus: Stop marks the task TaskStopped at once. *)
StopSetStatusStopped ==
    /\ kpc = "idle" /\ stops < MaxStops
    /\ SetStatus("Stopped")
    /\ kpc' = "fail" /\ stops' = stops + 1
    /\ UNCHANGED <<main, tl, canceled, stopReason, reason, sent>>

(* Stop: setStatus(TaskStopping) ... *)
StopSetStatus ==
    /\ kpc = "idle" /\ stops < MaxStops
    /\ SetStatus("Stopping")
    /\ kpc' = "fail" /\ stops' = stops + 1
    /\ UNCHANGED <<main, tl, canceled, stopReason, reason, sent>>

(* ... then stopWithFail(OtherError(errKilled)) *)
StopFail ==
    /\ kpc = "fail"
    /\ StopWithFail(Killed)
    /\ kpc' = "idle"
    /\ UNCHANGED <<state, main, tl, reason, sent, stops>>

(* Run has returned and no Stop is half done *)
Returned ==
    /\ main = "done" /\ kpc = "idle"
    /\ UNCHANGED vars

MainStep ==
    \/ RunStart \/ GenFail \/ GenOk \/ WaitAll \/ Check
    \/ CancelOrReclaim \/ CancelOrReclaimDone \/ CompleteTask \/ CompleteTaskDone

TaskletStep(t) == TaskletStart(t) \/ TaskletOk(t) \/ TaskletFail(t)

Next ==
    \/ MainStep
    \/ \E t \in Tasklets : TaskletStep(t)
    \/ StopSetStatus \/ StopFail
    \/ Returned

(* Run and the pool goroutines are never starved; a Stop that has begun  *)
(* finishes.  Nothing forces Stop to be called.                          *)
Fairness ==
    /\ WF_vars(MainStep)
    /\ \A t \in Tasklets : WF_vars(TaskletStep(t))
    /\ WF_vars(StopFail)

Spec == Init /\ [][Next]_vars /\ Fairness

-----------------------------------------------------------------------------
(***************************************************************************)
(* CompleteTask is sent only if every tasklet ran ExecTasklet and it       *)
(* succeeded: a tasklet that failed, or was skipped because r.ctx was      *)
(* already done, always leads to CancelTask or ReclaimTask, whichever      *)
(* goroutine's stopWithFail came first and however late Run reads          *)
(* stopReason.                                                             *)
(***************************************************************************)
CompleteOnlyIfAllSucceeded ==
    (\E j \in DOMAIN sent : sent[j] = "complete") =>
        \A t \in Tasklets : tl[t] = "ok"

(***************************************************************************)
(* The scheduler gets at most one verdict per task, and Stopped() (state   *)
(* TaskSuccess or TaskStopped) is never true before it has been sent: a    *)
(* worker that drops stopped runners never drops one whose task the        *)
(* scheduler still thinks is running.                                      *)
(***************************************************************************)
StoppedAfterVerdict ==
    /\ Len(sent) <= 1
    /\ stoppedState => Len(sent) = 1

(***************************************************************************)
(* Every Run ends with exactly one verdict to the scheduler, whether it    *)
(* ends through GenTasklets, a tasklet failure, Stop(), Check or success.  *)
(***************************************************************************)
OneVerdictEventually == <>(Len(sent) = 1)

=============================================================================
