---------------------------- MODULE DemandArbiter ----------------------------
(***************************************************************************)
(* lib/DemandArbiter: the single emission point, as an operator on its       *)
(* record.  A demand is the set of channels whose percentage is nonzero: no  *)
(* rule of the arbiter depends on how large a percentage is.                 *)
(***************************************************************************)
EXTENDS Clock

CONSTANTS
  HeatToCoolDwellS,  \* kCompressorMinOffS: cool waits this long after heat
  CoolToHeatDwellS   \* kCompressorMinOffS: heat waits this long after cool

(* A dwell of a single cycle would separate nothing; the code's is 180 s.     *)
ASSUME DwellConfig == {HeatToCoolDwellS, CoolToHeatDwellS} \subseteq Nat \ {0, 1}

Channels   == {"gas", "hp", "cool", "fan", "temper"}
HeatFamily == {"gas", "hp", "temper"}
Sources    == HeatFamily \cup {"cool"}       \* all but the fan

Invalid == {"NaN"}      \* a request with a negative or non-finite percentage

Arbiter == [out : SUBSET Channels, latched : BOOLEAN, inputAlarm : BOOLEAN,
            lastHeat : Nat, lastCool : Nat]

(* Prior activity is unknown at boot: both families count as just active. *)
NewArbiter(bootNow) ==
  [out |-> {}, latched |-> FALSE, inputAlarm |-> FALSE,
   lastHeat |-> bootNow, lastCool |-> bootNow]

Heats(demand) == demand \cap HeatFamily # {}

(* Gas beside the heat pump, and gas beside defrost tempering, trip as well: *)
(* tempering beside the heat pump is the one sanctioned overlap.             *)
Conflict(req) ==
  \/ Heats(req) /\ "cool" \in req
  \/ "gas" \in req /\ req \cap {"hp", "temper"} # {}

(* Changeover: a family in its opposite's dwell is suppressed, not latched.  *)
Held(a, now) ==
  (IF elapsedS(now, a.lastCool) < CoolToHeatDwellS THEN HeatFamily ELSE {})
  \cup (IF elapsedS(now, a.lastHeat) < HeatToCoolDwellS THEN {"cool"} ELSE {})

Tripped(a) == [a EXCEPT !.out = {}, !.inputAlarm = FALSE, !.latched = TRUE]

EmittedStamped(a, out, now) ==         \* mutant: dwells from the start of a run
  [a EXCEPT !.out = out, !.inputAlarm = FALSE,
            !.lastHeat = IF Heats(out) /\ ~Heats(a.out) THEN now ELSE @,
            !.lastCool = IF "cool" \in out \ a.out THEN now ELSE @]

Emitted(a, out, now) ==
  [a EXCEPT !.out = out, !.inputAlarm = FALSE,
            !.lastHeat = IF Heats(out) THEN now ELSE @,
            !.lastCool = IF "cool" \in out THEN now ELSE @]

set(a, req, now) ==
  IF req = Invalid THEN [a EXCEPT !.out = {}, !.inputAlarm = TRUE]
  ELSE IF a.latched \/ Conflict(req) THEN Tripped(a)
  ELSE Emitted(a, req \ Held(a, now), now)

clearInvariantAlarm(a) == [a EXCEPT !.latched = FALSE]

=============================================================================
