----------------------------- MODULE MCKeyCount -----------------------------
(***************************************************************************)
(* Both limiters of src/util/limit/keycount/keycount.go checked in one     *)
(* model: a keyCountLimit used by three goroutines and, beside it, a       *)
(* blockingKeyCountLimit used by five.  The two share no state, so a step  *)
(* of one leaves the other unchanged; TLC explores every interleaving of   *)
(* the two sets of goroutines.  The blocking limiter's pc is renamed bpc.  *)
(***************************************************************************)
EXTENDS Naturals, TLC

VARIABLES current, limit, pc, keyMap, blk, lock, bpc, kls, i

kvars == <<current, limit, pc>>
bvars == <<keyMap, blk, lock, bpc, kls, i>>
vars  == <<kvars, bvars>>

\* keyCountLimit: overlapping calls with distinct keys; the limit is 1 or 2
\* and may change
KL == INSTANCE KeyCountLimit
        WITH Procs  <- 1 .. 3,
             Keys   <- {"a", "b"},
             Calls  <- (1 :> <<"a", "b">>) @@ (2 :> <<"a">>) @@ (3 :> <<"b", "a">>),
             Limits <- {1, 2}

\* blockingKeyCountLimit at limit 2: three single-key callers contend for a
\* key created by an earlier call; a two-key caller takes one known and one
\* new key, and a last caller creates a key nobody else uses
BK == INSTANCE BlockingKeyCount
        WITH Procs <- 1 .. 5,
             Keys  <- {"a", "b", "c", "d"},
             Limit <- 2,
             Calls <- (1 :> <<"a">>) @@ (2 :> <<"a">>) @@ (3 :> <<"a">>)
                      @@ (4 :> <<"b", "c">>) @@ (5 :> <<"d">>),
             Known <- {"a", "b"},
             pc    <- bpc

Init == KL!Init /\ BK!Init

Next == \/ KL!Next /\ UNCHANGED bvars
        \/ BK!Next /\ UNCHANGED kvars

Spec == Init /\ [][Next]_vars

TypeOK == KL!TypeOK /\ BK!TypeOK

(* keyCountLimit: each key's count is the number of its occurrences in the *)
(* calls holding it, so Release never panics and Running() is exact.       *)
CountIsHolders == KL!CountIsHolders

(* blockingKeyCountLimit: at no time do more than limit goroutines hold    *)
(* the same key.                                                           *)
MutualExclusion == BK!MutualExclusion

(* blockingKeyCountLimit: the free tokens of the blocker in keyMap plus    *)
(* the tokens taken from it and not given back make exactly limit.         *)
TokensConserved == BK!TokensConserved
=============================================================================
