------------------------------ MODULE Setpoints -------------------------------
(***************************************************************************)
(* The setpoint pair of ModeStateMachine as operators on a record: whoever    *)
(* writes one setpoint pushes the other to keep the deadband, and is pulled   *)
(* back when the other meets a rail.                                          *)
(***************************************************************************)
EXTENDS Integers

CONSTANTS SetpointMin, SetpointMax, MinDelta   \* in steps of temperature

ASSUME SetpointConfig ==
  /\ {SetpointMin, SetpointMax, MinDelta} \subseteq Int
  /\ MinDelta > 0 /\ SetpointMin + MinDelta <= SetpointMax

Temps == SetpointMin..SetpointMax

(* The pairs a person can have: inside the rails, the deadband kept. *)
AnyPair == [heat : Temps, cool : Temps]
Pairs   == {p \in AnyPair : p.heat + MinDelta <= p.cool}

setHeatSetpoint(p, c) ==
  IF p.cool >= c + MinDelta THEN [p EXCEPT !.heat = c]
  ELSE IF c + MinDelta <= SetpointMax THEN [heat |-> c, cool |-> c + MinDelta]
  ELSE [heat |-> SetpointMax - MinDelta, cool |-> SetpointMax]

setCoolSetpoint(p, c) ==
  IF c >= p.heat + MinDelta THEN [p EXCEPT !.cool = c]
  ELSE IF c - MinDelta >= SetpointMin THEN [heat |-> c - MinDelta, cool |-> c]
  ELSE [heat |-> SetpointMin, cool |-> SetpointMin + MinDelta]

(* Heat first, then cool: of a pair too close, cool wins. *)
setBoth(p, to) == setCoolSetpoint(setHeatSetpoint(p, to.heat), to.cool)
===============================================================================
