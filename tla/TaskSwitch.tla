----------------------------- MODULE TaskSwitch -----------------------------
(***************************************************************************)
(* The worker task switches (src/unnamed/part_006, package taskswitch).    *)
(*                                                                         *)
(* A TaskSwitch gates task loops: WaitEnable() is s.wg.Wait(), and the     *)
(* WaitGroup counter is 1 exactly while the switch is disabled (Disable    *)
(* adds 1, Enable calls Done, both under s.mu and only on a change).  The  *)
(* SwitchMgr keeps name -> *TaskSwitch under sm.mu; its loopUpdate reads   *)
(* each switch's config from clustermgr every 15 s and enables or disables *)
(* it; AddSwitch creates a switch (disabled), DelSwitch forgets it.        *)
(*                                                                         *)
(* sync.WaitGroup is modelled as the Go runtime implements it: a counter   *)
(* and a waiter count; Wait returns at once on a zero counter, otherwise   *)
(* registers and sleeps; the Done that brings the counter to zero resets   *)
(* the state and wakes every sleeper; a woken Wait panics ("WaitGroup is   *)
(* reused before previous Wait has returned") if the state is not zero     *)
(* when it runs again.  Switch objects are numbered in creation order;     *)
(* a waiter keeps the object it was given even after DelSwitch.            *)
(*                                                                         *)
(* clustermgr holds one value per switch name, which the operator may     *)
(* change (a bounded number of times); a GetConfig call may also fail (a  *)
(* bounded number of times).  loopUpdate runs update() forever.           *)
(***************************************************************************)
EXTENDS Integers, FiniteSets

CONSTANTS
    Names,        \* switch names
    Waiters,      \* goroutines that call WaitEnable
    MaxSwitches,  \* bound: switch objects created in one behaviour
    MaxChanges,   \* bound: changes of clustermgr's values
    MaxErrors,    \* bound: GetConfig calls that fail
    MaxWaits      \* bound: WaitEnable calls per waiter

ASSUME /\ MaxSwitches \in Nat \ {0}
       /\ MaxChanges \in Nat /\ MaxErrors \in Nat /\ MaxWaits \in Nat

Objs   == 1 .. MaxSwitches
NoObj  == 0
\* the value clustermgr holds for a switch name: SwitchOpen, SwitchClose
\* or a string switchStatus refuses
Configs == {"Enable", "Disable", "illegal"}

VARIABLES
    switchs,   \* sm.switchs: name -> object, or NoObj
    made,      \* switch objects created so far
    enabled,   \* object -> s.enabled
    wgV,       \* object -> s.wg counter
    wgW,       \* object -> s.wg waiter count
    todo,      \* update(): names still to visit in this round (sm.mu held)
    updating,  \* update() holds sm.mu
    cm,        \* name -> the value GetConfig(name) returns
    changes,   \* changes of cm so far
    errs,      \* GetConfig calls that failed so far
    pc,        \* waiter -> "idle", "sleep", "woken", "panic"
    obj,       \* waiter -> the object its WaitEnable is on
    waits,     \* waiter -> WaitEnable calls made
    passed     \* waiter -> WaitEnable calls that returned

vars == <<switchs, made, enabled, wgV, wgW, todo, updating, cm, changes, errs,
          pc, obj, waits, passed>>

TypeOK ==
    /\ switchs \in [Names -> Objs \cup {NoObj}]
    /\ made \in 0 .. MaxSwitches
    /\ enabled \in [Objs -> BOOLEAN]
    /\ wgV \in [Objs -> Int] /\ wgW \in [Objs -> Nat]
    /\ todo \subseteq Names /\ updating \in BOOLEAN
    /\ cm \in [Names -> Configs]
    /\ changes \in 0 .. MaxChanges /\ errs \in 0 .. MaxErrors
    /\ pc \in [Waiters -> {"idle", "sleep", "woken", "panic"}]
    /\ obj \in [Waiters -> Objs \cup {NoObj}]
    /\ waits \in [Waiters -> 0 .. MaxWaits]
    /\ passed \in [Waiters -> 0 .. MaxWaits]

Init ==
    /\ switchs = [n \in Names |-> NoObj]
    /\ made = 0
    /\ enabled = [i \in Objs |-> FALSE]
    /\ wgV = [i \in Objs |-> 0]
    /\ wgW = [i \in Objs |-> 0]
    /\ todo = {} /\ updating = FALSE
    /\ cm \in [Names -> Configs]
    /\ changes = 0 /\ errs = 0
    /\ pc = [w \in Waiters |-> "idle"]
    /\ obj = [w \in Waiters |-> NoObj]
    /\ waits = [w \in Waiters |-> 0]
    /\ passed = [w \in Waiters |-> 0]

-----------------------------------------------------------------------------
(* Variant of Enable: no early return when already enabled. *)
EnableNoCheck(i) ==
    /\ enabled' = [enabled EXCEPT ![i] = TRUE]
    /\ wgV' = [wgV EXCEPT ![i] = @ - 1]
    /\ IF wgV[i] = 1 /\ wgW[i] > 0
         THEN /\ wgW' = [wgW EXCEPT ![i] = 0]
              /\ pc' = [w \in Waiters |->
                          IF pc[w] = "sleep" /\ obj[w] = i THEN "woken" ELSE pc[w]]
         ELSE UNCHANGED <<wgW, pc>>

(* Variant of Enable: Disable's early return (if !s.enabled) copied in. *)
EnableCopyGuard(i) ==
    IF ~enabled[i]
      THEN UNCHANGED <<enabled, wgV, wgW, pc>>
      ELSE /\ enabled' = [enabled EXCEPT ![i] = TRUE]
           /\ wgV' = [wgV EXCEPT ![i] = @ - 1]
           /\ UNCHANGED <<wgW, pc>>

(***************************************************************************)
(* TaskSwitch.Enable: under s.mu, if not enabled set it and s.wg.Done();   *)
(* the Done that reaches zero with sleepers resets the waiter count and    *)
(* wakes them all.                                                         *)
(***************************************************************************)
Enable(i) ==
    IF enabled[i]
      THEN UNCHANGED <<enabled, wgV, wgW, pc>>
      ELSE /\ enabled' = [enabled EXCEPT ![i] = TRUE]
           /\ wgV' = [wgV EXCEPT ![i] = @ - 1]
           /\ IF wgV[i] = 1 /\ wgW[i] > 0
                THEN /\ wgW' = [wgW EXCEPT ![i] = 0]
                     /\ pc' = [w \in Waiters |->
                                 IF pc[w] = "sleep" /\ obj[w] = i THEN "woken"
                                                                  ELSE pc[w]]
                ELSE UNCHANGED <<wgW, pc>>

(* TaskSwitch.Disable: under s.mu, if enabled clear it and s.wg.Add(1) *)
Disable(i) ==
    IF ~enabled[i]
      THEN UNCHANGED <<enabled, wgV>>
      ELSE /\ enabled' = [enabled EXCEPT ![i] = FALSE]
           /\ wgV' = [wgV EXCEPT ![i] = @ + 1]

(***************************************************************************)
(* SwitchMgr.AddSwitch: ErrConflictSwitch for a known name; otherwise      *)
(* newTaskSwitch(), which starts enabled and is disabled at once (Add(1)). *)
(***************************************************************************)
AddSwitch(n) ==
    /\ ~updating
    /\ switchs[n] = NoObj
    /\ made < MaxSwitches
    /\ made' = made + 1
    /\ switchs' = [switchs EXCEPT ![n] = made + 1]
    /\ enabled' = [enabled EXCEPT ![made + 1] = FALSE]
    /\ wgV' = [wgV EXCEPT ![made + 1] = 1]
    /\ UNCHANGED <<wgW, todo, updating, cm, changes, errs, pc, obj, waits, passed>>

(* SwitchMgr.DelSwitch: forget the name (ErrNoSuchSwitch if unknown) *)
DelSwitch(n) ==
    /\ ~updating
    /\ switchs[n] # NoObj
    /\ switchs' = [switchs EXCEPT ![n] = NoObj]
    /\ UNCHANGED <<made, enabled, wgV, wgW, todo, updating, cm, changes, errs, pc, obj,
                   waits, passed>>

(* loopUpdate: after its sleep, update() takes sm.mu and visits every    *)
(* switch in the map                                                      *)
UpdateBegin ==
    /\ ~updating
    /\ updating' = TRUE
    /\ todo' = {n \in Names : switchs[n] # NoObj}
    /\ UNCHANGED <<switchs, made, enabled, wgV, wgW, cm, changes, errs, pc, obj,
                   waits, passed>>

(***************************************************************************)
(* update(), one switch: a failed GetConfig and a string switchStatus      *)
(* refuses are skipped (continue); SwitchOpen enables, SwitchClose         *)
(* disables.                                                               *)
(***************************************************************************)
UpdateOne(n) ==
    /\ updating /\ n \in todo
    /\ todo' = todo \ {n}
    /\ \/ /\ errs < MaxErrors
          /\ errs' = errs + 1
          /\ UNCHANGED <<enabled, wgV, wgW, pc>>
       \/ /\ UNCHANGED errs
          /\ CASE cm[n] = "Enable"  -> Enable(switchs[n])
               [] cm[n] = "Disable" -> Disable(switchs[n]) /\ UNCHANGED <<wgW, pc>>
               [] OTHER             -> UNCHANGED <<enabled, wgV, wgW, pc>>
    /\ UNCHANGED <<switchs, made, updating, cm, changes, obj, waits, passed>>

(* update() returns and releases sm.mu *)
UpdateEnd ==
    /\ updating /\ todo = {}
    /\ updating' = FALSE
    /\ UNCHANGED <<switchs, made, enabled, wgV, wgW, todo, cm, changes, errs, pc, obj,
                   waits, passed>>

-----------------------------------------------------------------------------
(***************************************************************************)
(* WaitEnable on a switch the waiter was handed (any object created so    *)
(* far): wg.Wait returns at once on a zero counter, else sleeps.           *)
(***************************************************************************)
WaitEnable(w) ==
    /\ pc[w] = "idle" /\ waits[w] < MaxWaits
    /\ \E i \in 1 .. made :
         /\ obj' = [obj EXCEPT ![w] = i]
         /\ waits' = [waits EXCEPT ![w] = @ + 1]
         /\ IF wgV[i] = 0
              THEN passed' = [passed EXCEPT ![w] = @ + 1] /\ UNCHANGED <<pc, wgW>>
              ELSE /\ wgW' = [wgW EXCEPT ![i] = @ + 1]
                   /\ pc' = [pc EXCEPT ![w] = "sleep"]
                   /\ UNCHANGED passed
    /\ UNCHANGED <<switchs, made, enabled, wgV, todo, updating, cm, changes, errs>>

(* a woken Wait runs again: it returns if the state is still zero, else    *)
(* the runtime panics                                                      *)
WaitWake(w) ==
    LET i == obj[w]
    IN  /\ pc[w] = "woken"
        /\ IF wgV[i] = 0 /\ wgW[i] = 0
             THEN /\ pc' = [pc EXCEPT ![w] = "idle"]
                  /\ passed' = [passed EXCEPT ![w] = @ + 1]
             ELSE pc' = [pc EXCEPT ![w] = "panic"] /\ UNCHANGED passed
        /\ UNCHANGED <<switchs, made, enabled, wgV, wgW, todo, updating,
                       cm, changes, errs, obj, waits>>

(* the operator changes the value clustermgr holds for a name *)
SetConfig(n, c) ==
    /\ changes < MaxChanges /\ c # cm[n]
    /\ cm' = [cm EXCEPT ![n] = c]
    /\ changes' = changes + 1
    /\ UNCHANGED <<switchs, made, enabled, wgV, wgW, todo, updating, errs, pc,
                   obj, waits, passed>>

Next ==
    \/ \E n \in Names : AddSwitch(n) \/ DelSwitch(n) \/ UpdateOne(n)
    \/ UpdateBegin \/ UpdateEnd
    \/ \E w \in Waiters : WaitEnable(w) \/ WaitWake(w)
    \/ \E n \in Names, c \in Configs : SetConfig(n, c)

(***************************************************************************)
(* loopUpdate never stops (for { update(); time.Sleep }) and a woken Wait *)
(* goroutine is scheduled again, so their steps are weakly fair.  The     *)
(* callers of AddSwitch, DelSwitch and WaitEnable, and the operator, are   *)
(* never forced to act.                                                    *)
(***************************************************************************)
Fairness ==
    /\ WF_vars(UpdateBegin) /\ WF_vars(UpdateEnd)
    /\ \A n \in Names : WF_vars(UpdateOne(n))
    /\ \A w \in Waiters : WF_vars(WaitWake(w))

Spec == Init /\ [][Next]_vars /\ Fairness

-----------------------------------------------------------------------------
(***************************************************************************)
(* The WaitGroup of every switch the manager ever created agrees with its  *)
(* flag: counter 1 while disabled and 0 while enabled, whatever sequence   *)
(* of AddSwitch, DelSwitch and config rounds ran, so Done never drives it  *)
(* negative and Wait gates exactly the disabled switch.                    *)
(***************************************************************************)
WgMatchesEnabled ==
    \A i \in 1 .. made : /\ enabled[i] <=> wgV[i] = 0
                         /\ wgV[i] \in {0, 1}

(***************************************************************************)
WaitReturnsOnlyWhenEnabled ==
    [][\A w \in Waiters : passed'[w] > passed[w] => enabled[obj'[w]]]_vars

(***************************************************************************)
(* A task loop asleep in WaitEnable on a switch the manager still holds   *)
(* is woken once clustermgr says SwitchOpen for its name: every update()  *)
(* round visits the switch, and the Enable's Done must wake the sleepers  *)
(* (they may then return or hit the reuse panic, but they do not sleep    *)
(* on).  A waiter can sleep for good on a held switch only if clustermgr   *)
(* ends up holding something other than SwitchOpen for it.  Waiters on a  *)
(* switch DelSwitch removed are not covered: nothing enables it again.    *)
(***************************************************************************)
SleepersWokenWhenEnabled ==
    \A w \in Waiters, n \in Names :
        <>[](pc[w] = "sleep" /\ switchs[n] = obj[w]) => <>[](cm[n] # "Enable")

=============================================================================
