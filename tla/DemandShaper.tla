----------------------------- MODULE DemandShaper -----------------------------
(***************************************************************************)
(* lib/DemandShaper and the gate the glue puts between its compressor        *)
(* shapers and the CompressorGuard.  A request is what the shaper can tell   *)
(* apart: gas "off" (at or under the extinguish threshold), "band" (inside   *)
(* the floor's hysteresis) or "fire" (at or over the light threshold); a      *)
(* compressor duty "none", "part" (on for its on-time, off for its off-time) *)
(* or "full" (continuous).  A shaper's percentage is its on/lit flag: the     *)
(* floor clamp and the fixed 100 % / stage value change no decision.          *)
(***************************************************************************)
EXTENDS CompressorGuard

CONSTANTS
  GasMinOnS, GasMinOffS,     \* kGasMinOnS (300), kGasMinOffS (300)
  GasMaxRuntimeS,            \* kGasMaxRuntimeS (14400)
  HpOnS, HpOffS,             \* duty * periodS, (1 - duty) * periodS of a part duty
  HpMaxStartsPerH,           \* kCompressorMaxStartsPerH (3)
  CoolOnS, CoolOffS,         \* duty * periodS(duty), (1 - duty) * periodS(duty)
  CoolMinOnS, CoolMinOffS,   \* kCoolMinOnS (780), kCoolMinOffS (480)
  CoolMaxStartsPerH,         \* kCoolMaxStartsPerH (2)
  ManualWindowS              \* kManualStartArmWindowS, kCoolManualArmWindowS (120)

(* periodS() stretches the period until on-time and off-time serve the mins. *)
ASSUME ShaperConfig ==
  /\ {GasMinOnS, GasMinOffS, GasMaxRuntimeS, HpOnS, HpOffS, CoolOnS, CoolOffS,
      CoolMinOnS, CoolMinOffS, ManualWindowS} \subseteq Nat
  /\ {HpMaxStartsPerH, CoolMaxStartsPerH} \subseteq 1..MaxStartHistory
  /\ CoolOnS >= CoolMinOnS /\ CoolOffS >= CoolMinOffS
  /\ GasMaxRuntimeS >= GasMinOnS

-----------------------------------------------------------------------------
(* GasShaper *)
Gas == [lit : BOOLEAN, tripped : BOOLEAN, alarm : BOOLEAN,
        runStart : Nat, offSince : Nat]

(* bootRestore(now, FALSE): no proof of an earlier rest, so it starts now. *)
NewGas(now) == [lit |-> FALSE, tripped |-> FALSE, alarm |-> FALSE,
                runStart |-> 0, offSince |-> now]

Extinguished(g, now) == [g EXCEPT !.lit = FALSE, !.offSince = now]

GasRested(g, now) == elapsedS(now, g.offSince) >= GasMinOffS

(* A runtime trip rests the min-off and relights while the call persists.    *)
Dark(g, req, now) ==
  IF req = "fire" /\ GasRested(g, now)
    THEN [g EXCEPT !.lit = TRUE, !.tripped = FALSE, !.runStart = now]
    ELSE [g EXCEPT !.tripped = @ /\ req # "off"]

Lit(g, req, now) ==
  LET ran == elapsedS(now, g.runStart)
  IN IF req = "off" /\ ran >= GasMinOnS THEN Extinguished(g, now)
     ELSE IF ran > GasMaxRuntimeS
       THEN [Extinguished(g, now) EXCEPT !.tripped = TRUE, !.alarm = TRUE]
     ELSE g

shapeGas(g, req, now) == IF g.lit THEN Lit(g, req, now) ELSE Dark(g, req, now)

forceStopKeepsTimer(g, now) == [g EXCEPT !.lit = FALSE]              \* mutant

forceStop(g, now) == Extinguished(g, now)

-----------------------------------------------------------------------------
(* GuardGate, and compressorProvenIdle()'s anchor beside it. *)
Compressor == [guard : Guard, armedAt : Time, anchor : Nat]

(* A user action arms both the gate and the cool shaper for this long. *)
Armed(armedAt, now) ==
  armedAt # NoTime /\ elapsedS(now, armedAt) <= ManualWindowS

canStart(c, now) == StartAllowed(c.guard, now, Armed(c.armedAt, now))

gateStart(c, now) ==
  [c EXCEPT !.guard = Started(@, now),
            !.armedAt = IF Armed(@, now) THEN NoTime ELSE @]

canStop(c, now) == StopAllowed(c.guard, now, FALSE)

gateStop(c, now) == [c EXCEPT !.guard = Stopped(@, now), !.anchor = now]

safetyStop(c, now) ==
  IF c.guard.running THEN [c EXCEPT !.guard = Stopped(@, now), !.anchor = now]
                     ELSE c

provenIdle(c, now, bootHoldEnd) ==
  ~c.guard.running /\ now >= c.anchor + MinOffS /\ now >= bootHoldEnd

-----------------------------------------------------------------------------
(* HpRelayShaper and StagedCoolShaper: [on, cycled, phaseStart, starts] and,  *)
(* for cool, the manual one-shot.  shape...() returns the shaper and the gate. *)
Duty == [on : BOOLEAN, cycled : BOOLEAN, phaseStart : Nat,
         starts : History(MaxStartHistory), armedAt : Time]

NewDuty == [on |-> FALSE, cycled |-> FALSE, phaseStart |-> 0, starts |-> <<>>,
            armedAt |-> NoTime]

(* reset(): the start history survives, so a drop refills no budget. *)
resetForgets(s) == NewDuty                                           \* mutant
resetKeepsOn(s) == [s EXCEPT !.cycled = FALSE]                       \* mutant

resetShaper(s) == [NewDuty EXCEPT !.starts = s.starts]

TurnOn(s, c, now, manual) ==
  [shaper |-> [s EXCEPT !.on = TRUE, !.cycled = TRUE, !.phaseStart = now,
                        !.starts = Push(@, now, MaxStartHistory),
                        !.armedAt = IF manual THEN NoTime ELSE @],
   gate |-> gateStart(c, now)]

TurnOff(s, c, now) ==
  [shaper |-> [s EXCEPT !.on = FALSE, !.phaseStart = now],
   gate |-> gateStop(c, now)]

Stay(s, c) == [shaper |-> s, gate |-> c]

InPhase(s, now) == elapsedS(now, s.phaseStart)

shapeHp(s, c, duty, now) ==
  LET wantOff == \/ duty = "none"
                 \/ duty = "part" /\ InPhase(s, now) >= HpOnS
      rested == \/ ~s.cycled
                \/ InPhase(s, now) >= IF duty = "part" THEN HpOffS ELSE 0
      budget == Recent(s.starts, now, HourS) < HpMaxStartsPerH
  IN IF s.on
       THEN IF wantOff /\ canStop(c, now) THEN TurnOff(s, c, now) ELSE Stay(s, c)
       ELSE IF duty # "none" /\ rested /\ budget /\ canStart(c, now)
              THEN TurnOn(s, c, now, FALSE) ELSE Stay(s, c)

(* "The long-cycle hygiene this shaper exists for": min-run, then the gate.   *)
CoolWantsOffAtOnce(s, duty, now) ==                                  \* mutant
  \/ duty = "none"
  \/ duty = "part" /\ InPhase(s, now) >= CoolOnS

CoolWantsOff(s, duty, now) ==
  \/ duty = "none" /\ InPhase(s, now) >= CoolMinOnS
  \/ duty = "part" /\ InPhase(s, now) >= CoolOnS

(* A person's request skips the rest, never the starts cap. *)
CoolRested(s, duty, manual, now) ==
  \/ ~s.cycled \/ manual
  \/ InPhase(s, now) >= IF duty = "part" THEN CoolOffS ELSE CoolMinOffS

shapeCool(s, c, duty, now) ==
  LET manual == Armed(s.armedAt, now)
      budget == Recent(s.starts, now, HourS) < CoolMaxStartsPerH
  IN IF s.on
       THEN IF CoolWantsOff(s, duty, now) /\ canStop(c, now)
              THEN TurnOff(s, c, now) ELSE Stay(s, c)
       ELSE IF /\ duty # "none" /\ CoolRested(s, duty, manual, now)
               /\ budget /\ canStart(c, now)
              THEN TurnOn(s, c, now, manual) ELSE Stay(s, c)

=============================================================================
