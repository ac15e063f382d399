------------------------- MODULE MCBlockingKeyCount -------------------------
(* Instances of BlockingKeyCount for the two runs that break it: which     *)
(* goroutines call with which keys, and which keys are already in keyMap.  *)
EXTENDS BlockingKeyCount

MCKeys    == {"a", "b"}
MCKnownAB == {"a", "b"}

\* two single-key callers of a key that is not yet in keyMap
MCProcsRace == 1 .. 2
MCCallsRace == (1 :> <<"a">>) @@ (2 :> <<"a">>)
MCKnownNone == {}

\* a two-key caller and a single-key caller sharing a key at limit 1
MCCallsDeadlock == (1 :> <<"a", "b">>) @@ (2 :> <<"a">>)
=============================================================================
