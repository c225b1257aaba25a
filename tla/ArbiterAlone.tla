----------------------------- MODULE ArbiterAlone -----------------------------
(***************************************************************************)
(* The arbiter under any caller at all: every request, valid or not, at      *)
(* every cycle of a loop that misses none.  ControlCycle is shown to be one   *)
(* such caller, so what is proved here holds of the whole control loop.      *)
(***************************************************************************)
EXTENDS DemandArbiter

CONSTANT MaxNow   \* bound: the last second of a behaviour

VARIABLES
  now,    \* nowSeconds()
  arb,    \* gArbiter
  offAt   \* history: when each source last left the wire; boot counts

vars == <<now, arb, offAt>>

Init ==
  /\ now = 0 /\ arb = NewArbiter(0)
  /\ offAt = [c \in Sources |-> 0]

(* One set() of the 1 Hz loop; a late cycle may share its second (d = 0).    *)
Emit(req, d) ==
  /\ now + d <= MaxNow
  /\ arb' = set(arb, req, now)
  /\ offAt' = [c \in Sources |->
                 IF c \in arb.out \ arb'.out THEN now ELSE offAt[c]]
  /\ now' = now + d

(* cmd/ack_alarms, the deliberate clear of the latched invariant. *)
Clear == arb' = clearInvariantAlarm(arb) /\ UNCHANGED <<now, offAt>>

Next ==
  \/ \E req \in (SUBSET Channels) \cup {Invalid}, d \in {0, 1} : Emit(req, d)
  \/ Clear

Spec == Init /\ [][Next]_vars

-----------------------------------------------------------------------------
(* Properties *)

(* The arbiter's record and the history keep their types. *)
TypeOK ==
  /\ now \in Nat /\ arb \in Arbiter
  /\ offAt \in [Sources -> Nat]

(* "Heat-family and cool simultaneously nonzero", gas beside the heat pump   *)
(* and gas beside tempering never reach the actuator (DemandArbiter.h).      *)
NeverConflicting ==
  /\ "cool" \in arb.out => arb.out \subseteq {"cool", "fan"}
  /\ "gas" \in arb.out => arb.out \subseteq {"gas", "fan"}

(* Changeover (docs/04 2): a family comes on only once every channel of the  *)
(* other has been off the wire for its dwell, short of the one cycle between *)
(* the last nonzero emission and the zero that ended it.                     *)
ChangeoverRest ==
  [][/\ Heats(arb'.out) /\ ~Heats(arb.out) =>
          "cool" \notin arb.out /\ now - offAt["cool"] >= CoolToHeatDwellS - 1
     /\ "cool" \in arb'.out /\ "cool" \notin arb.out =>
          /\ ~Heats(arb.out)
          /\ \A c \in HeatFamily : now - offAt[c] >= HeatToCoolDwellS - 1]_vars

(* A tripped invariant stays at zero, fan included, through any number of    *)
(* innocent requests, until the deliberate clear; and the clear itself emits *)
(* nothing.                                                                  *)
LatchHolds == [][arb.latched => arb'.out = {}]_vars

=============================================================================
