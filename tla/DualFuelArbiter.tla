--------------------------- MODULE DualFuelArbiter ----------------------------
(***************************************************************************)
(* The choice between heat pump and gas as operators on a record.  Outdoor   *)
(* temperatures are whole steps between the thresholds; ages count cycles.   *)
(* Defrost tempering, a channel of its own, is left out.                     *)
(***************************************************************************)
EXTENDS CallMachine

CONSTANTS
  CompressorMinOat, BalancePoint, BalanceHyst, AuxMaxOat,  \* the outdoor thresholds
  EscalationMinS,        \* kEscalationMinS (30 min)
  DeescalationMinS       \* kDeescalationMinS (60 min)

ASSUME DualFuelConfig ==
  /\ {CompressorMinOat, BalancePoint, BalanceHyst, AuxMaxOat} \subseteq Nat
  /\ CompressorMinOat <= AuxMaxOat      \* configValid(): no band without a source
  /\ {EscalationMinS, DeescalationMinS} \subseteq Nat

Oats    == 0..(AuxMaxOat + 1)
NoOat   == 99                           \* every rung of the ladder is stale
NotOn   == -1

DualStates ==
  [gasPreferred : BOOLEAN, escalated : BOOLEAN, escFor : 0..DeescalationMinS,
   droop : NotOn..EscalationMinS, satSeen : BOOLEAN,
   source : {"none", "hp", "gas"}]

NewDual ==
  [gasPreferred |-> FALSE, escalated |-> FALSE, escFor |-> 0, droop |-> NotOn,
   satSeen |-> FALSE, source |-> "none"]

hpAllowed(oat)  == oat >= CompressorMinOat
gasAllowed(oat) == oat <= AuxMaxOat
Mild(oat)       == oat # NoOat /\ oat > BalancePoint + BalanceHyst

(* The balance point with its hysteresis; an unknown reading holds it. *)
prefer(d, oat) ==
  CASE oat # NoOat /\ oat < BalancePoint -> TRUE
    [] Mild(oat) -> FALSE
    [] OTHER -> d.gasPreferred

deescalateEarly(d, oat) == d.escalated /\ ~Mild(oat)                 \* mutant
staysEscalated(d, oat) ==
  d.escalated /\ ~(Mild(oat) /\ d.escFor >= DeescalationMinS)

Preferred(d, oat) ==
  IF oat = NoOat \/ ~hpAllowed(oat) THEN "gas"
  ELSE IF gasAllowed(oat) /\ d.gasPreferred THEN "gas" ELSE "hp"

(* The droop clock and the saturation it has seen; only a break in the droop, *)
(* in the call or in the choice of the heat pump stops it.                     *)
timesDroopAlways(d, heatCall, room, oat) == room <= -3               \* mutant
timesDroop(d, heatCall, room, oat) ==
  /\ heatCall /\ oat # NoOat /\ ~d.escalated
  /\ Preferred(d, oat) = "hp"
  /\ room # Unknown /\ room <= -3

droopStep(d, timing, saturated) ==
  LET age == IF d.droop = NotOn THEN 0 ELSE d.droop
      sat == saturated \/ d.satSeen
  IN IF ~timing THEN [d EXCEPT !.droop = NotOn, !.satSeen = FALSE]
     ELSE IF sat /\ age >= EscalationMinS
          THEN [d EXCEPT !.droop = age, !.satSeen = TRUE, !.escalated = TRUE, !.escFor = 0]
          ELSE [d EXCEPT !.droop = age, !.satSeen = sat]

chooseSource(d, heatCall, oat) ==
  IF ~heatCall THEN "none"
  ELSE IF d.escalated /\ oat # NoOat /\ gasAllowed(oat) THEN "gas"
  ELSE Preferred(d, oat)

stepDual(d, heatCall, room, oat, saturated) ==
  LET kept == [d EXCEPT !.gasPreferred = prefer(d, oat),
                        !.escalated = staysEscalated(d, oat)]
      next == droopStep(kept, timesDroop(kept, heatCall, room, oat), saturated)
  IN [next EXCEPT !.source = chooseSource(next, heatCall, oat)]

(* One cycle later. *)
AgedDual(d) ==
  [d EXCEPT !.escFor = UpTo(@, DeescalationMinS),
            !.droop = IF @ = NotOn THEN NotOn ELSE UpTo(@, EscalationMinS)]
===============================================================================
