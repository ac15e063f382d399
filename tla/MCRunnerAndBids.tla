--------------------------- MODULE MCRunnerAndBids ---------------------------
(***************************************************************************)
(* Two components checked side by side in one model: the worker's         *)
(* TaskRunner (src/worker/task_runner.go) running one migrate task, and    *)
(* the blob id allocator bidMgr (src/unnamed/part_007) serving Alloc       *)
(* calls.  They run in different services and share no state: a step of   *)
(* one leaves the other unchanged, and TLC explores every interleaving.    *)
(* The fairness is TaskRunner's own; bidMgr's checks are safety only.      *)
(***************************************************************************)
EXTENDS Naturals, TLC

VARIABLES state, main, tl, canceled, stopReason, reason, sent, kpc, stops,
          current, backup, loop, fetched, cmNext, handed, ret, asked, calls

rvars == <<state, main, tl, canceled, stopReason, reason, sent, kpc, stops>>
bvars == <<current, backup, loop, fetched, cmNext, handed, ret, asked, calls>>
vars  == <<rvars, bvars>>

\* three tasklets on a pool of two, a destination error that is reclaimed
\* and one (interrupt) that is not, and one Stop() call at any moment
TR == INSTANCE TaskRunner
        WITH Tasklets    <- {"t1", "t2", "t3"},
             Concurrency <- 2,
             Errs        <- {[type |-> "dst", code |-> "other"],
                             [type |-> "dst", code |-> "interrupt"]},
             MaxStops    <- 1

\* scopes of 3 ids, requests of 1 to 4 ids (4 is above BidAllocNums), four
\* Alloc calls and up to four scopes
BM == INSTANCE BidMgr
        WITH AllocNums   <- 3,
             MaxBidCount <- 5,
             Counts      <- {1, 2, 3, 4},
             MaxScopes   <- 4,
             MaxCalls    <- 4

Init == TR!Init /\ BM!Init

Next == \/ TR!Next /\ UNCHANGED bvars
        \/ BM!Next /\ UNCHANGED rvars

Spec == Init /\ [][Next]_vars /\ TR!Fairness

(* TaskRunner: CompleteTask is sent only if every tasklet ran and          *)
(* succeeded, whichever goroutine's stopWithFail came first.               *)
CompleteOnlyIfAllSucceeded == TR!CompleteOnlyIfAllSucceeded

(* TaskRunner: at most one verdict reaches the scheduler, and Stopped() is *)
(* never true before it has been sent.                                     *)
StoppedAfterVerdict == TR!StoppedAfterVerdict

(* TaskRunner: every Run ends with exactly one verdict to the scheduler.   *)
OneVerdictEventually == TR!OneVerdictEventually

(* bidMgr: Alloc never returns the same blob id twice.                     *)
NoBidTwice == BM!NoBidTwice

(* bidMgr: every id clustermgr handed out has been returned by Alloc or is *)
(* still held in current, backup or the scope about to be installed.       *)
IdsAccounted == BM!IdsAccounted

(* bidMgr: a successful Alloc returns well-formed ranges holding exactly   *)
(* count ids.                                                              *)
ExactRanges == BM!ExactRanges
=============================================================================
