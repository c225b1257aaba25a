------------------------------ MODULE CallCycle -------------------------------
(***************************************************************************)
(* From the room to the equipment asked for, cycle by cycle: the mode and    *)
(* its calls, the degraded sensor rules, the dual-fuel choice and the        *)
(* cooling lockouts of controlCycle().  Users, weather and sensors do as     *)
(* they like between cycles; the compressor is what ControlCycle makes of    *)
(* the request: it may rest, it runs MinOnS unless dropped and rests MinOffS. *)
(***************************************************************************)
EXTENDS DualFuelArbiter

CONSTANTS
  HpMapped,            \* FALSE: SLYTHERM_ACTUATOR_CT485, which serves HP calls with gas
  MinOnS, MinOffS      \* the compressor's timers

ASSUME CompressorConfig == HpMapped \in BOOLEAN /\ {MinOnS, MinOffS} \subseteq Nat \ {0}

LongestWait ==
  LET waits == {ChangeoverDwellS, ChangeoverSustainS, MinOnS + MinOffS + 1}
  IN CHOOSE w \in waits : \A v \in waits : v <= w

Requests == {"none", "hp", "gas", "cool"}

VARIABLES
  mode,       \* mode_
  calls,      \* the rest of gModeSm that decides calls
  dual,       \* gDualFuel
  request,    \* the equipment the last cycle asked for
  comp,       \* what runs the compressor, and for how long it has run or rested
  room, oat,  \* what gFusion.fusedTemp() and gOat.read() will say
  lastServed, \* history: the family of the last call
  served,     \* history: cycles since either family's call was last on
  triggered,  \* history: for how many valid AUTO cycles either call was due
  drooping,   \* history: for how many cycles the room drooped on the heat pump
  hpRan,      \* history: it ran in one of them
  escalation  \* history: cycles since the last escalation

history == <<lastServed, served, triggered, drooping, hpRan, escalation>>
vars    == <<mode, calls, dual, request, comp, room, oat, history>>

TypeOK ==
  /\ mode \in Modes /\ calls \in CallStates /\ dual \in DualStates
  /\ request \in Requests
  /\ comp \in [on : {"off", "hp", "cool"}, since : Nat]
  /\ room \in Rooms \cup {Unknown} /\ oat \in Oats \cup {NoOat}
  /\ lastServed \in Families \cup {"none"}
  /\ served \in [Families -> 0..ChangeoverDwellS]
  /\ triggered \in [Families -> 0..(LongestWait + 1)]
  /\ drooping \in 0..(EscalationMinS + 1) /\ hpRan \in BOOLEAN
  /\ escalation \in 0..DeescalationMinS

Init ==
  /\ mode \in Modes
  /\ calls = NewCalls /\ dual = NewDual /\ request = "none"
  /\ comp = [on |-> "off", since |-> 0]
  /\ room = Unknown /\ oat = NoOat
  /\ lastServed = "none" /\ served = [f \in Families |-> ChangeoverDwellS]
  /\ triggered = [f \in Families |-> 0]
  /\ drooping = 0 /\ hpRan = FALSE /\ escalation = DeescalationMinS

compressorProvenIdle == comp.on = "off" /\ comp.since >= MinOffS

(* On the emergency sensor alone: no cooling, and heat to a floor only. *)
Effective(c, degraded, warm) ==
  IF degraded /\ (c.type = "cool" \/ (c.type = "heat" /\ warm)) THEN "none" ELSE c.type

(* "warm" is kDegradedHeatCeilC, which is kCoolingIndoorLockoutC too. *)
Requested(call, gasOnly, source, degraded, warm) ==
  CASE call = "heat" -> IF gasOnly \/ (source = "hp" /\ ~HpMapped) THEN "gas" ELSE source
    [] call = "cool" /\ oat # NoOat /\ ~degraded /\ warm -> "cool"
    [] OTHER -> "none"

(* What the shapers and the guard let the compressor do with a request: a    *)
(* start a person asked for does not wait for MinOffS.                       *)
Starts(for) == IF for \in {"hp", "cool"} THEN {[on |-> for, since |-> 0]} ELSE {}
Runs(for, dropped) ==
  IF ~dropped /\ (comp.since < MinOnS \/ comp.on = for)
  THEN {[comp EXCEPT !.since = UpTo(@, MinOnS)]} ELSE {}
Compressor(for, dropped) ==
  IF comp.on = "off" THEN {[comp EXCEPT !.since = UpTo(@, MinOffS)]} \cup Starts(for)
  ELSE {[on |-> "off", since |-> 0]} \cup Runs(for, dropped)

Observe(c, d) ==
  /\ lastServed' = IF c.type = "none" THEN lastServed ELSE c.type
  /\ served' = [f \in Families |->
       IF c.type = f THEN 0 ELSE UpTo(served[f], ChangeoverDwellS)]
  /\ triggered' = [f \in Families |->
       IF mode = "auto" /\ room # Unknown /\ Triggers(f, room)
       THEN UpTo(triggered[f], LongestWait + 1) ELSE 0]
  /\ LET onHp == room <= -3 /\ (d.source = "hp" \/ (d.escalated /\ ~dual.escalated))
     IN /\ drooping' = IF onHp THEN UpTo(drooping, EscalationMinS + 1) ELSE 0
        /\ hpRan' = (onHp /\ (hpRan \/ comp.on = "hp"))
  /\ escalation' = IF d.escalated /\ ~dual.escalated THEN 0
                   ELSE UpTo(escalation, DeescalationMinS)

Cycle(degraded, warm, dropped) ==
  /\ UNCHANGED <<mode, room, oat>>
  /\ LET c    == updateCalls(calls, mode, room, compressorProvenIdle)
         call == Effective(c, degraded, warm)
         d    == stepDual(dual, call = "heat", room, oat, comp.on = "hp")
     IN /\ calls' = Aged(c) /\ dual' = AgedDual(d)
        /\ request' = Requested(call, c.gasOnly, d.source, degraded, warm)
        /\ comp' \in Compressor(request', dropped)
        /\ Observe(c, d)

SetMode(m) ==
  /\ m # mode
  /\ mode' = m /\ calls' = setMode(calls)
  /\ triggered' = [f \in Families |-> 0]
  /\ UNCHANGED <<dual, request, comp, room, oat, lastServed, served, drooping, hpRan, escalation>>

(* Sensors, setpoint edits and the weather. *)
Sense(r) ==
  /\ r # room
  /\ room' = r
  /\ UNCHANGED <<mode, calls, dual, request, comp, oat, history>>

Outdoors(o) ==
  /\ o # oat
  /\ oat' = o
  /\ UNCHANGED <<mode, calls, dual, request, comp, room, history>>

Cycles == \E degraded, warm, dropped \in BOOLEAN : Cycle(degraded, warm, dropped)

Next ==
  \/ Cycles
  \/ \E m \in Modes : SetMode(m)
  \/ \E r \in Rooms \cup {Unknown} : Sense(r)
  \/ \E o \in Oats \cup {NoOat} : Outdoors(o)

Spec == Init /\ [][Next]_vars

-----------------------------------------------------------------------------
(* In AUTO the families alternate only when the other one's last call, of    *)
(* whatever mode, has been over for the dwell, the room has asked without a  *)
(* break or a lost reading for the sustain time, and the compressor rests.   *)
ChangeoverIsEarned ==
  [][\A f \in Families :
       mode = "auto" /\ calls'.type = f /\ calls.type # f /\ lastServed = Other(f) =>
         /\ served[Other(f)] >= ChangeoverDwellS
         /\ triggered'[f] > ChangeoverSustainS
         /\ compressorProvenIdle]_vars

(* Gas takes over for lack of capacity only after the room drooped for the   *)
(* escalation time on end with the heat pump chosen, and it ran in it.       *)
EscalationIsEarned ==
  [][dual'.escalated /\ ~dual.escalated =>
       drooping' > EscalationMinS /\ hpRan']_vars

(* A heat pump that fell short is not asked again before the de-escalation   *)
(* time, however calls, modes and readings come and go, unless gas is locked *)
(* out by the outdoor temperature.                                           *)
StaysOnGas ==
  [][UNCHANGED <<mode, room, oat>> /\ request' = "hp" =>
       escalation + 1 >= DeescalationMinS \/ ~gasAllowed(oat)]_vars

(* The changeover rules delay a call and never withhold it: an AUTO room     *)
(* that asks without a break has its call once the longest wait is over.     *)
DueIsServed ==
  \A f \in Families : triggered[f] > LongestWait => calls.type = f \/ mode # "auto"
===============================================================================
