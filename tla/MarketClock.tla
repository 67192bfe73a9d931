----------------------------- MODULE MarketClock -----------------------------
(***************************************************************************)
(* The clock that keeps its listeners at the present session of a market,  *)
(* class MarketClock (src/src/core/market-clock.ts).                       *)
(*                                                                         *)
(* Time does not go on while a timer of the clock is due.  But the machine *)
(* may sleep, or its clock be set: then time jumps, and the timers, which  *)
(* count time of their own, may or may not have gone on with it.           *)
(***************************************************************************)
EXTENDS MarketSessions

vars == <<market, now, running, current, resyncTimer, transitionTimer, awake>>

-----------------------------------------------------------------------------
(* The clock.                                                               *)

(* Mutant: another day of the same session is no change. *)
SameSession(left, right) == left.session = right.session

SameSnapshot(left, right) == left = right

(* What evaluate makes of current; it tells the listeners if that changes.  *)
Evaluated == IF SameSnapshot(current, Present) THEN current ELSE Present

(* A boundary that were past would be taken up at once.                     *)
ArmTimers(snapshot) ==
  /\ resyncTimer' = Resync
  /\ transitionTimer' = Max({0, snapshot.nextTransitionAt - now})

Init ==
  /\ market \in Markets /\ now \in Jumps /\ current = Present
  /\ running = FALSE /\ resyncTimer = 0 /\ transitionTimer = 0
  /\ awake = Resync

(* snapshot(), or a new listener: works whether running or not.             *)
Ask ==
  /\ current' = Evaluated
  /\ UNCHANGED <<market, now, running, resyncTimer, transitionTimer, awake>>

Start ==
  /\ ~running
  /\ running' = TRUE /\ current' = Evaluated
  /\ ArmTimers(Evaluated)
  /\ UNCHANGED <<market, now, awake>>

Stop ==
  /\ running
  /\ running' = FALSE /\ resyncTimer' = 0 /\ transitionTimer' = 0
  /\ UNCHANGED <<market, now, current, awake>>

(* onTimer: either timer does the work of both.                             *)
OnTimer ==
  /\ Due
  /\ current' = Evaluated
  /\ ArmTimers(Evaluated)
  /\ UNCHANGED <<market, now, running, awake>>

Left(timer, passed) == Max({0, timer - passed})

Tick ==
  /\ ~Due /\ now < LastTime
  /\ now' = now + 1
  /\ resyncTimer' = Left(resyncTimer, 1) /\ transitionTimer' = Left(transitionTimer, 1)
  /\ awake' = Min({Resync, awake + 1})
  /\ UNCHANGED <<market, running, current>>

Jump ==
  /\ \E to \in Jumps, counted \in BOOLEAN :
       LET passed == IF counted /\ to > now THEN to - now ELSE 0 IN
       /\ now' = to
       /\ resyncTimer' = Left(resyncTimer, passed)
       /\ transitionTimer' = Left(transitionTimer, passed)
  /\ awake' = 0
  /\ UNCHANGED <<market, running, current>>

Next == Ask \/ Start \/ Stop \/ OnTimer \/ Tick \/ Jump

Spec == Init /\ [][Next]_vars
=============================================================================
