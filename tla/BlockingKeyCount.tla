-------------------------- MODULE BlockingKeyCount --------------------------
(***************************************************************************)
(* blockingKeyCountLimit (src/util/limit/keycount/keycount.go): at most    *)
(* `limit` concurrent holders per key.  Each key maps to a blocker: a      *)
(* channel `ready` of capacity limit pre-filled with limit tokens and an   *)
(* atomic reference count.  keyMap is guarded by an RWMutex l.lock.        *)
(*                                                                         *)
(* Each goroutine p makes one call Acquire(Calls[p]...), holds the keys,   *)
(* then Release(Calls[p]...).  Blockers are numbered in creation order;    *)
(* keyMap[k] = 0 is a missing key.  Steps that run wholly under the write  *)
(* lock, or wholly under a read lock without blocking, are one action:     *)
(* nobody else can observe their middle.                                   *)
(***************************************************************************)
EXTENDS Naturals, Integers, FiniteSets, SequencesExt

CONSTANTS
    Procs,      \* goroutines calling the limiter, numbered from 1
    Keys,       \* keys they pass
    Limit,      \* NewBlockingKeyCountLimit(n)
    Calls,      \* Calls[p]: the keys of p's Acquire/Release, in order
    Known       \* keys whose blocker is already in keyMap at the start

ASSUME /\ Procs \subseteq Nat \ {0}
       /\ Limit \in Nat \ {0}
       /\ Calls \in [Procs -> Seq(Keys) \ {<<>>}]
       /\ \A p \in Procs : IsInjective(Calls[p])   \* callers pass distinct keys
       /\ Known \subseteq Keys

NoLock == 0

VARIABLES
    keyMap,     \* key -> blocker number, 0 when absent
    blk,        \* sequence of blockers [ready |-> tokens, ref |-> refcount]
    lock,       \* the goroutine holding l.lock for writing, or NoLock
    pc,         \* per goroutine: where it is
    kls,        \* per goroutine: the blockers it collected
    i           \* per goroutine: loop index over kls

vars == <<keyMap, blk, lock, pc, kls, i>>

PCs == {"start", "mlock", "macq", "munlock", "srlock", "slock", "sacq",
        "hold", "rlock", "rrel", "runlock", "done", "panic"}

(* newBlocker(l.limit): a full ready channel and no references *)
NewBlocker == [ready |-> Limit, ref |-> 0]

TypeOK ==
    /\ keyMap \in [Keys -> 0 .. Len(blk)]
    /\ blk \in Seq([ready : 0 .. Limit, ref : Int])
    /\ lock \in Procs \cup {NoLock}
    /\ pc \in [Procs -> PCs]
    /\ kls \in [Procs -> Seq(Nat)]
    /\ i \in [Procs -> Nat]

(* The known keys were created by earlier calls, all of them released. *)
Init ==
    LET ks == SetToSeq(Known)
    IN  /\ blk = [j \in 1 .. Len(ks) |-> NewBlocker]
        /\ keyMap = [k \in Keys |->
                        IF k \in Known THEN CHOOSE j \in 1 .. Len(ks) : ks[j] = k
                                       ELSE 0]
        /\ lock = NoLock
        /\ pc = [p \in Procs |-> "start"]
        /\ kls = [p \in Procs |-> <<>>]
        /\ i = [p \in Procs |-> 1]

Goto(p, l) == pc' = [pc EXCEPT ![p] = l]

(* Acquire: len(keys) > 1 takes the write lock, len(keys) == 1 the read one *)
Start(p) ==
    /\ pc[p] = "start"
    /\ Goto(p, IF Len(Calls[p]) > 1 THEN "mlock" ELSE "srlock")
    /\ UNCHANGED <<keyMap, blk, lock, kls, i>>

(***************************************************************************)
(* Multi-key Acquire: l.lock.Lock(); create a blocker for each missing key *)
(* and collect them all.                                                   *)
(***************************************************************************)
MultiLock(p) ==
    LET ks      == Calls[p]
        missing == SetToSeq({k \in Range(ks) : keyMap[k] = 0})
        newMap  == [k \in Keys |->
                      IF keyMap[k] = 0 /\ k \in Range(missing)
                        THEN Len(blk) + CHOOSE j \in 1 .. Len(missing) :
                                                    missing[j] = k
                        ELSE keyMap[k]]
    IN  /\ pc[p] = "mlock"
        /\ lock = NoLock
        /\ lock' = p
        /\ blk' = blk \o [j \in 1 .. Len(missing) |-> NewBlocker]
        /\ keyMap' = newMap
        /\ kls' = [kls EXCEPT ![p] = [j \in 1 .. Len(ks) |-> newMap[ks[j]]]]
        /\ i' = [i EXCEPT ![p] = 1]
        /\ Goto(p, "macq")

(* Variant of MultiAcquire: the reference is added, no token is taken. *)
MultiAcquireNoTake(p) ==
    LET b == kls[p][i[p]]
    IN  /\ pc[p] = "macq"
        /\ blk[b].ready > 0
        /\ blk' = [blk EXCEPT ![b].ref = @ + 1]
        /\ i' = [i EXCEPT ![p] = @ + 1]
        /\ Goto(p, IF i[p] = Len(kls[p]) THEN "munlock" ELSE "macq")
        /\ UNCHANGED <<keyMap, lock, kls>>

(* atomic.AddInt32(&kl.ref, 1); kl.acquire() -- still holding l.lock *)
MultiAcquire(p) ==
    LET b == kls[p][i[p]]
    IN  /\ pc[p] = "macq"
        /\ blk[b].ready > 0
        /\ blk' = [blk EXCEPT ![b] = [ready |-> @.ready - 1, ref |-> @.ref + 1]]
        /\ i' = [i EXCEPT ![p] = @ + 1]
        /\ Goto(p, IF i[p] = Len(kls[p]) THEN "munlock" ELSE "macq")
        /\ UNCHANGED <<keyMap, lock, kls>>

MultiUnlock(p) ==
    /\ pc[p] = "munlock"
    /\ lock' = NoLock
    /\ Goto(p, "hold")
    /\ UNCHANGED <<keyMap, blk, kls, i>>

(***************************************************************************)
(* Single-key Acquire under RLock: a present blocker gets addRef and the   *)
(* read lock is dropped; a missing one drops the read lock to take the     *)
(* write lock.                                                             *)
(***************************************************************************)
SingleRLock(p) ==
    LET b == keyMap[Calls[p][1]]
    IN  /\ pc[p] = "srlock"
        /\ lock = NoLock
        /\ IF b # 0
             THEN /\ blk' = [blk EXCEPT ![b].ref = @ + 1]
                  /\ kls' = [kls EXCEPT ![p] = <<b>>]
                  /\ Goto(p, "sacq")
             ELSE /\ Goto(p, "slock")
                  /\ UNCHANGED <<blk, kls>>
        /\ UNCHANGED <<keyMap, lock, i>>

(* l.lock.Lock(); keyMap[key] = newBlocker; addRef; Unlock: no re-check *)
SingleCreate(p) ==
    LET b == Len(blk) + 1
    IN  /\ pc[p] = "slock"
        /\ lock = NoLock
        /\ blk' = Append(blk, [ready |-> Limit, ref |-> 1])
        /\ keyMap' = [keyMap EXCEPT ![Calls[p][1]] = b]
        /\ kls' = [kls EXCEPT ![p] = <<b>>]
        /\ Goto(p, "sacq")
        /\ UNCHANGED <<lock, i>>

(* Variant of SingleAcquire: a receive that does not wait for a token. *)
SingleAcquireNoWait(p) ==
    LET b == kls[p][1]
    IN  /\ pc[p] = "sacq"
        /\ blk' = [blk EXCEPT ![b].ready = @ - 1]
        /\ Goto(p, "hold")
        /\ UNCHANGED <<keyMap, lock, kls, i>>

(* kl.acquire(): <-s.ready, outside any lock *)
SingleAcquire(p) ==
    LET b == kls[p][1]
    IN  /\ pc[p] = "sacq"
        /\ blk[b].ready > 0
        /\ blk' = [blk EXCEPT ![b].ready = @ - 1]
        /\ Goto(p, "hold")
        /\ UNCHANGED <<keyMap, lock, kls, i>>

(***************************************************************************)
(* Release: l.lock.Lock(); for each key panic if it is missing or its ref  *)
(* is negative, delete it from keyMap when loadRef() == 0, collect it.     *)
(***************************************************************************)
ReleaseLock(p) ==
    LET ks   == Calls[p]
        bad  == \E k \in Range(ks) : keyMap[k] = 0 \/ blk[keyMap[k]].ref < 0
        gone == {k \in Range(ks) : blk[keyMap[k]].ref = 0}
    IN  /\ pc[p] = "hold"
        /\ lock = NoLock
        /\ IF bad
             THEN Goto(p, "panic") /\ UNCHANGED <<keyMap, lock, kls, i>>
             ELSE /\ lock' = p
                  /\ kls' = [kls EXCEPT ![p] = [j \in 1 .. Len(ks) |->
                                                   keyMap[ks[j]]]]
                  /\ keyMap' = [k \in Keys |-> IF k \in gone THEN 0
                                                             ELSE keyMap[k]]
                  /\ i' = [i EXCEPT ![p] = 1]
                  /\ Goto(p, "rrel")
        /\ UNCHANGED blk

(* kl.release(): subRef; s.ready <- struct{}{} blocks on a full channel *)
ReleaseOne(p) ==
    LET b == kls[p][i[p]]
    IN  /\ pc[p] = "rrel"
        /\ blk[b].ready < Limit
        /\ blk' = [blk EXCEPT ![b] = [ready |-> @.ready + 1, ref |-> @.ref - 1]]
        /\ i' = [i EXCEPT ![p] = @ + 1]
        /\ Goto(p, IF i[p] = Len(kls[p]) THEN "runlock" ELSE "rrel")
        /\ UNCHANGED <<keyMap, lock, kls>>

ReleaseUnlock(p) ==
    /\ pc[p] = "runlock"
    /\ lock' = NoLock
    /\ Goto(p, "done")
    /\ UNCHANGED <<keyMap, blk, kls, i>>

(* every call has returned *)
Finished ==
    /\ \A p \in Procs : pc[p] = "done"
    /\ UNCHANGED vars


Step(p) ==
    \/ Start(p) \/ MultiLock(p) \/ MultiAcquire(p) \/ MultiUnlock(p)
    \/ SingleRLock(p) \/ SingleCreate(p) \/ SingleAcquire(p)
    \/ ReleaseLock(p) \/ ReleaseOne(p) \/ ReleaseUnlock(p)

(* goroutines are scheduled by the runtime; a holder eventually releases *)
Fairness == \A p \in Procs : WF_vars(Step(p))

Next == (\E p \in Procs : Step(p)) \/ Finished

Spec == Init /\ [][Next]_vars /\ Fairness

-----------------------------------------------------------------------------
(* p holds a token of kls[p][j]: taken by Acquire, not yet given back *)
HoldsToken(p, j) ==
    \/ pc[p] \in {"munlock", "hold"}
    \/ pc[p] = "macq" /\ j < i[p]
    \/ pc[p] = "rrel" /\ j >= i[p]

(* the goroutines holding key k *)
Holders(k) ==
    {p \in Procs : \E j \in DOMAIN Calls[p] : Calls[p][j] = k /\ HoldsToken(p, j)}

(***************************************************************************)
(* The limiter's contract ("concurrent n by everyone key"): at no time do  *)
(* more than limit goroutines hold the same key.                           *)
(***************************************************************************)
MutualExclusion == \A k \in Keys : Cardinality(Holders(k)) <= Limit

(***************************************************************************)
(* Token accounting of the blocker in keyMap: its free tokens plus the     *)
(* tokens goroutines took from it and have not given back make exactly     *)
(* limit.  A token lost or doubled on any path breaks it.                  *)
(***************************************************************************)
TokensConserved ==
    \A k \in Keys :
        keyMap[k] # 0 =>
          blk[keyMap[k]].ready
            + Cardinality({<<p, j>> \in UNION {{q} \X DOMAIN kls[q] : q \in Procs} :
                             /\ kls[p][j] = keyMap[k]
                             /\ HoldsToken(p, j)}) = Limit

(* Every Acquire and Release call returns: no goroutine waits forever. *)
AllCallsReturn == <>(\A p \in Procs : pc[p] = "done")

=============================================================================
