----------------------------- MODULE CallMachine ------------------------------
(***************************************************************************)
(* The calls of ModeStateMachine as operators on a record.  Temperatures are *)
(* read against the setpoints in force: a room level below 0 is under the    *)
(* heat setpoint, above 0 over the cool setpoint, and two levels off is past  *)
(* the hysteresis.  A setpoint edit is a change of level.  Ages count cycles  *)
(* and stop at the last value the code tells apart.                           *)
(***************************************************************************)
EXTENDS Integers

CONSTANTS
  ChangeoverDwellS,    \* kChangeoverDwellS (30 min)
  ChangeoverSustainS   \* kChangeoverSustainS (10 min)

ASSUME CallConfig == ChangeoverDwellS \in Nat /\ ChangeoverSustainS \in Nat

Families == {"heat", "cool"}
Modes    == {"off", "heat", "cool", "auto", "emheat"}
Rooms    == -3..2           \* -3 is kEscalationDroopC below the heat setpoint
Unknown  == 9               \* no valid room temperature
Disarmed == -1

Other(f) == IF f = "heat" THEN "cool" ELSE "heat"
UpTo(n, cap) == IF n < cap THEN n + 1 ELSE cap

CallStates ==
  [type : Families \cup {"none"}, gasOnly : BOOLEAN,
   lastEnded : Families \cup {"none"},
   ended : [Families -> 0..ChangeoverDwellS],
   trig : [Families -> Disarmed..ChangeoverSustainS]]

NoTriggers == [f \in Families |-> Disarmed]

NewCalls ==
  [type |-> "none", gasOnly |-> FALSE, lastEnded |-> "none",
   ended |-> [f \in Families |-> ChangeoverDwellS], trig |-> NoTriggers]

(* One cycle later. *)
Aged(m) ==
  [m EXCEPT
     !.ended = [f \in Families |-> UpTo(@[f], ChangeoverDwellS)],
     !.trig = [f \in Families |-> IF @[f] = Disarmed THEN Disarmed
                                  ELSE UpTo(@[f], ChangeoverSustainS)]]

endActiveCall(m) ==
  IF m.type = "none" THEN m
  ELSE [m EXCEPT !.type = "none", !.gasOnly = FALSE,
                 !.lastEnded = m.type, !.ended[m.type] = 0]

startCall(m, f, gasOnly) == [m EXCEPT !.type = f, !.gasOnly = gasOnly]

resetNothing(m) == m                    \* mutant: sustain credit is kept
resetTriggers(m) == [m EXCEPT !.trig = NoTriggers]

setMode(m) == resetTriggers(endActiveCall(m))

Met(f, room)      == IF f = "heat" THEN room >= 0 ELSE room <= 0
Triggers(f, room) == IF f = "heat" THEN room <= -2 ELSE room >= 2

evalSimple(m, f, room, gasOnly) ==
  CASE m.type = f /\ Met(f, room) -> endActiveCall(m)
    [] m.type = "none" /\ Triggers(f, room) -> startCall(m, f, gasOnly)
    [] OTHER -> m

(* A changeover waits for its trigger, the other call and the compressor. *)
mayStart(m, f, swapOk) ==
  m.lastEnded = Other(f) =>
    /\ m.trig[f] >= ChangeoverSustainS
    /\ m.ended[Other(f)] >= ChangeoverDwellS
    /\ swapOk

(* A trigger is stamped when it turns true, and a blip loses the stamp. *)
restampTriggers(m, room) ==                                         \* mutant
  [m EXCEPT !.trig = [f \in Families |-> IF Triggers(f, room) THEN 0 ELSE Disarmed]]
armTriggers(m, room) ==
  [m EXCEPT !.trig = [f \in Families |->
     CASE ~Triggers(f, room) -> Disarmed
       [] Triggers(f, room) /\ @[f] = Disarmed -> 0
       [] OTHER -> @[f]]]

evalAuto(m, room, swapOk) ==
  LET idle  == IF m.type # "none" /\ Met(m.type, room) THEN endActiveCall(m) ELSE m
      armed == armTriggers(idle, room)
      ready == {f \in Families : Triggers(f, room) /\ mayStart(armed, f, swapOk)}
  IN IF idle.type # "none" THEN idle
     ELSE IF ready = {} THEN armed
     ELSE startCall(armed, CHOOSE f \in ready : TRUE, FALSE)

updateCalls(m, mode, room, swapOk) ==
  CASE room = Unknown \/ mode = "off" -> resetTriggers(endActiveCall(m))
    [] room # Unknown /\ mode = "auto" -> evalAuto(m, room, swapOk)
    [] room # Unknown /\ mode = "cool" -> evalSimple(m, "cool", room, FALSE)
    [] room # Unknown /\ mode \in {"heat", "emheat"} ->
         evalSimple(m, "heat", room, mode = "emheat")
===============================================================================
