--------------------------- MODULE KeyCountLimit ---------------------------
(***************************************************************************)
(* keyCountLimit (src/util/limit/keycount/keycount.go): a non-blocking     *)
(* limiter, "concurrent n by everyone key".  current counts the holders of *)
(* each key (a missing map entry is 0); every method runs under l.mutex,   *)
(* so each call is one step.  Each goroutine p calls Acquire(Calls[p]...), *)
(* and, when it got the keys, Release(Calls[p]...).  Reset(n) may run at   *)
(* any time.                                                               *)
(***************************************************************************)
EXTENDS Naturals, FiniteSets, Sequences, FiniteSetsExt

CONSTANTS
    Procs,      \* goroutines using the limiter
    Keys,       \* keys they pass
    Calls,      \* Calls[p]: the keys of p's call, possibly repeated
    Limits      \* the values New(n) and Reset(n) are given

ASSUME /\ Calls \in [Procs -> Seq(Keys) \ {<<>>}]
       /\ Limits \subseteq Nat

VARIABLES
    current,    \* key -> count of acquisitions not yet released
    limit,      \* l.limit
    pc          \* per goroutine: "start", "hold", "done", "limited", "panic"

vars == <<current, limit, pc>>

(* how often key k occurs in p's call *)
Mult(p, k) == Cardinality({j \in DOMAIN Calls[p] : Calls[p][j] = k})

TypeOK ==
    /\ current \in [Keys -> Nat]
    /\ limit \in Limits
    /\ pc \in [Procs -> {"start", "hold", "done", "limited", "panic"}]

Init ==
    /\ current = [k \in Keys |-> 0]
    /\ limit \in Limits
    /\ pc = [p \in Procs |-> "start"]

(***************************************************************************)
(* Acquire: ErrLimited if any key is at the limit (nothing is taken);      *)
(* otherwise every key in the call is counted once per occurrence.         *)
(***************************************************************************)
Acquire(p) ==
    /\ pc[p] = "start"
    /\ IF \E k \in Keys : Mult(p, k) > 0 /\ current[k] >= limit
         THEN pc' = [pc EXCEPT ![p] = "limited"] /\ UNCHANGED current
         ELSE /\ current' = [k \in Keys |-> current[k] + Mult(p, k)]
              /\ pc' = [pc EXCEPT ![p] = "hold"]
    /\ UNCHANGED limit

(* Variant of Release: the entry is deleted whatever its count. *)
ReleaseDeleteAlways(p) ==
    /\ pc[p] = "hold"
    /\ current' = [k \in Keys |-> IF Mult(p, k) > 0 THEN 0 ELSE current[k]]
    /\ pc' = [pc EXCEPT ![p] = "done"]
    /\ UNCHANGED limit

(***************************************************************************)
(* Release: key by key, panic("released by 0") on a missing entry, delete *)
(* it at 1, decrement it otherwise.                                        *)
(***************************************************************************)
Release(p) ==
    /\ pc[p] = "hold"
    /\ IF \E k \in Keys : Mult(p, k) > current[k]
         THEN pc' = [pc EXCEPT ![p] = "panic"] /\ UNCHANGED current
         ELSE /\ current' = [k \in Keys |-> current[k] - Mult(p, k)]
              /\ pc' = [pc EXCEPT ![p] = "done"]
    /\ UNCHANGED limit

(* Reset(n): l.limit = uint32(n) *)
Reset ==
    /\ \E n \in Limits : limit' = n
    /\ UNCHANGED <<current, pc>>

Next == \E p \in Procs : Acquire(p) \/ Release(p) \/ Reset

Spec == Init /\ [][Next]_vars

-----------------------------------------------------------------------------
(* the goroutines that got their keys and have not released them *)
Holding == {p \in Procs : pc[p] = "hold"}

(***************************************************************************)
(* Each key's count is exactly the number of its occurrences in the calls *)
(* that hold it: Release never panics and Running() is exact.              *)
(***************************************************************************)
CountIsHolders ==
    \A k \in Keys :
        current[k] = MapThenSumSet(LAMBDA p : Mult(p, k), Holding)

=============================================================================
