---------------------------- MODULE RelaySequencer ----------------------------
(***************************************************************************)
(* lib/RelaySequencer: the 24 V contacts of a Case B installation, computed  *)
(* from the arbiter's demand.  The glue never sets the pre-position input    *)
(* nor stage2, so the valve follows demand alone and y2 stays open.          *)
(***************************************************************************)
EXTENDS Clock

Contacts == [y1 : BOOLEAN, ob : BOOLEAN, g : BOOLEAN]

AllOff == [y1 |-> FALSE, ob |-> FALSE, g |-> FALSE]   \* also goSilent()

(* Both nonzero is an upstream fault: no compressor demand.  ob energized is *)
(* heating; it moves only with y1 open and the compressor proven idle.       *)
ValveSwapped(demand) == "cool" \in demand        \* mutant: the polarity swapped

ValveAsked(demand) == "hp" \in demand

Desired(out, demand, idle) ==
  LET wantY == ("hp" \in demand) # ("cool" \in demand)
      ob    == IF wantY THEN ValveAsked(demand) ELSE out.ob
      y1    == ob = out.ob /\ wantY
  IN [ob |-> IF ~out.y1 /\ idle THEN ob ELSE out.ob,
      y1 |-> y1,
      g  |-> "fan" \in demand \/ y1]

(* tooSoon: the last change of contacts is less than minTransitionMs old. *)
update(out, demand, idle, tooSoon) ==
  IF tooSoon THEN out ELSE Desired(out, demand, idle)

=============================================================================
