----------------------------- MODULE ControlCycle -----------------------------
(***************************************************************************)
(* controlCycle() of main_thermostat.cpp from the requests to the actuator:  *)
(* the supervisor's verdict, the request-level exclusion, the three shapers   *)
(* over the one compressor gate, the arbiter and, in the relay build, the     *)
(* contacts.  What the mode and dual-fuel logic ask for is an input: any call *)
(* at any cycle, one family and one heat source at a time.                    *)
(***************************************************************************)
EXTENDS DemandShaper, DemandArbiter, RelaySequencer

CONSTANTS
  HpMapped,      \* FALSE: SLYTHERM_ACTUATOR_CT485, which serves HP calls with gas
  Fans,          \* what the fan mode may ask for: a subset of BOOLEAN
  Steps,         \* seconds from a cycle to the next: 1, and 0 when one is late
  MaxNow         \* bound: the last second of a behaviour

ASSUME CycleConfig ==
  /\ HpMapped \in BOOLEAN
  /\ Fans \subseteq BOOLEAN /\ Steps \subseteq {0, 1} /\ MaxNow \in Nat

VARIABLES
  now,         \* nowSeconds()
  permitted,   \* gSup->demandPermitted() as of the last cycle
  gas,         \* gGasShaper
  hp, cool,    \* gHpShaper, gCoolShaper
  comp,        \* gGuard, gGuardGate's one-shot, gCompStopAnchorS
  bootHoldEnd, \* gBootHoldEndS
  arb,         \* gArbiter; arb.out is what the equipment is asked for
  coil,        \* RelayActuator's contacts
  justChanged, \* the last cycle changed a contact (RelaySequencer's spacing)
  onAt, offAt, \* history: when each channel last came on and left the wire
  askedAt,     \* history: the last user action
  coolStarts,  \* history: the newest starts of cool on the wire
  provenFor    \* history: for how many cycles cool was asked of the relays
               \* with the blower proven, up to 2; or, negative, was not

core    == <<gas, hp, cool, comp, arb, coil, justChanged>>
history == <<onAt, offAt, askedAt, coolStarts, provenFor>>
vars    == <<now, permitted, core, bootHoldEnd, history>>

(* What the relay runs tell states apart by: nothing a step or their          *)
(* properties depend on is left out.                                          *)
View == <<now, permitted, core, provenFor>>

(* setup(): no demand anywhere; the guard knows its past or holds off.       *)
Blank == save(NewGuard)

Init ==
  /\ now = 0 /\ permitted = FALSE
  /\ gas = NewGas(0) /\ hp = NewDuty /\ cool = NewDuty
  /\ \E b \in {Blank, NoBlob} :
       comp = [guard |-> bootRestore(b, 0, FALSE, 0), armedAt |-> NoTime,
               anchor |-> 0]
  /\ bootHoldEnd = BootHoldoffS
  /\ arb = NewArbiter(0)
  /\ coil = AllOff /\ justChanged = FALSE
  /\ onAt = [c \in Sources |-> NoTime] /\ offAt = [c \in Sources |-> 0]
  /\ askedAt = NoTime /\ coolStarts = <<>>
  /\ provenFor = 0

-----------------------------------------------------------------------------
(* One cycle's requests. *)
NoCall == [gas |-> "off", hp |-> "none", cool |-> "none"]

Calls ==
  {NoCall}
  \cup {[NoCall EXCEPT !.gas = r] : r \in {"band", "fire"}}
  \cup {[NoCall EXCEPT !.cool = r] : r \in {"part", "full"}}
  \cup {[NoCall EXCEPT !.hp = r] : r \in IF HpMapped THEN {"part", "full"} ELSE {}}

(* #157: a family still held on by its shaper keeps the other one out.       *)
ExcludedNot(call) == call                                            \* mutant

Excluded(call) ==
  [gas  |-> IF cool.on THEN "off" ELSE call.gas,
   hp   |-> IF cool.on THEN "none" ELSE call.hp,
   cool |-> IF gas.lit \/ hp.on THEN "none" ELSE call.cool]

(* The supervisor's cross-check of the emission before this one. *)
DemandStateSane == ~(Heats(arb.out) /\ "cool" \in arb.out)
                   /\ ~({"gas", "hp"} \subseteq arb.out)

(* The safety drop: immediate, past every comfort timer. *)
Drop ==
  /\ gas' = IF gas.lit THEN forceStop(gas, now) ELSE gas
  /\ comp' = safetyStop(comp, now)
  /\ hp' = resetShaper(hp) /\ cool' = resetShaper(cool)

Shape(call) ==
  LET ask == Excluded(call)
      hpS   == shapeHp(hp, comp, ask.hp, now)
      coolS == shapeCool(cool, hpS.gate, ask.cool, now)
  IN /\ gas' = shapeGas(gas, ask.gas, now)
     /\ hp' = hpS.shaper /\ cool' = coolS.shaper /\ comp' = coolS.gate

Request(fan) ==
  IF ~permitted' THEN {}
  ELSE {c \in {"gas", "hp", "cool"} :
          \/ c = "gas" /\ gas'.lit
          \/ c = "hp" /\ hp'.on
          \/ c = "cool" /\ cool'.on}
       \cup (IF fan THEN {"fan"} ELSE {})

(* RelayActuator::goSilent() and apply(): no Y without a proven blower. *)
provenNot(blower, demand) == demand                                  \* mutant

proven(blower, demand) == IF blower THEN demand ELSE demand \ {"hp", "cool"}

apply(blower, tooSoon) ==
  IF ~HpMapped THEN UNCHANGED <<coil, justChanged>>
  ELSE LET was == IF permitted' THEN coil ELSE AllOff
           idle == provenIdle(comp', now, bootHoldEnd)
       IN /\ tooSoon => justChanged
          /\ blower => coil.g
          /\ coil' = update(was, proven(blower, arb'.out), idle, tooSoon)
          /\ justChanged' = (coil' # was)

Cycle(ok, call, fan, blower, tooSoon, d) ==
  /\ now + d <= MaxNow
  /\ permitted' = (ok /\ DemandStateSane)
  /\ IF permitted' THEN Shape(call) ELSE Drop
  /\ arb' = set(arb, Request(fan), now)
  /\ apply(blower, tooSoon)
  /\ now' = now + d
  /\ onAt' = [c \in Sources |-> IF c \in arb'.out \ arb.out THEN now ELSE onAt[c]]
  /\ offAt' = [c \in Sources |-> IF c \in arb.out \ arb'.out THEN now ELSE offAt[c]]
  /\ coolStarts' = IF "cool" \in arb'.out \ arb.out
                     THEN Push(coolStarts, now, CoolMaxStartsPerH + 1)
                     ELSE coolStarts
  /\ provenFor' = IF ~HpMapped THEN 0
                  ELSE IF "cool" \in proven(blower, arb'.out)
                    THEN IF provenFor > 0 THEN 2 ELSE 1
                    ELSE IF provenFor < 0 THEN -2 ELSE -1
  /\ UNCHANGED <<bootHoldEnd, askedAt>>

-----------------------------------------------------------------------------
(* Between cycles: what consumeCommands() hands over. *)

(* A setpoint or mode change arms the gate and the cool shaper. *)
UserAction ==
  /\ comp' = [comp EXCEPT !.armedAt = now]
  /\ cool' = [cool EXCEPT !.armedAt = now]
  /\ askedAt' = now
  /\ UNCHANGED <<now, permitted, gas, hp, arb, coil, justChanged, bootHoldEnd,
                 onAt, offAt, coolStarts, provenFor>>

(* cmd/ack_alarms *)
AckAlarms ==
  /\ arb' = clearInvariantAlarm(arb)
  /\ UNCHANGED <<now, permitted, gas, hp, cool, comp, coil, justChanged,
                 bootHoldEnd, history>>

Next ==
  \/ \E ok \in BOOLEAN, fan \in Fans, call \in Calls, d \in Steps,
        blower, tooSoon \in IF HpMapped THEN BOOLEAN ELSE {FALSE} :
       Cycle(ok, call, fan, blower, tooSoon, d)
  \/ UserAction \/ AckAlarms

Spec == Init /\ [][Next]_vars

-----------------------------------------------------------------------------
(* Properties *)

(* Every component keeps its type; the start histories stay in their rings.  *)
TypeOK ==
  /\ now \in Nat /\ permitted \in BOOLEAN /\ bootHoldEnd \in Nat
  /\ gas \in Gas /\ hp \in Duty /\ cool \in Duty
  /\ comp \in Compressor /\ arb \in Arbiter
  /\ coil \in Contacts /\ justChanged \in BOOLEAN
  /\ onAt \in [Sources -> Time] /\ offAt \in [Sources -> Nat]
  /\ askedAt \in Time /\ coolStarts \in Seq(Nat)
  /\ provenFor \in -2..2

(* One compressor, one guard: the guard believes it runs exactly while one    *)
(* of the two shapers that drive it is on, never both, and nothing that needs *)
(* the compressor is emitted without the guard's knowledge.                   *)
OneCompressor ==
  /\ comp.guard.running <=> hp.on \/ cool.on
  /\ ~(hp.on /\ cool.on)
  /\ {"hp", "cool"} \cap arb.out # {} => comp.guard.running

(* "A min-on-held output can never coincide with the opposite family" (#157): *)
(* no sequence of calls and drops trips the arbiter's latched invariant.       *)
NeverLatched == ~arb.latched

(* The furnace rests GasMinOffS between burns, whatever ended the first one:  *)
(* comfort, the runtime cap, a safety drop (DemandShaper.h, docs/07 G14).      *)
GasRestsBetweenBurns ==
  []["gas" \in arb'.out \ arb.out /\ onAt["gas"] # NoTime
       => now - offAt["gas"] >= GasMinOffS]_vars

(* As the equipment sees it, a compressor run lasts MinOnS unless dropped,     *)
(* although the arbiter may let it start late.                                 *)
RunsLongEnough(c) ==
  c \in arb.out \ arb'.out /\ permitted' => now - onAt[c] >= MinOnS

(* And it rests MinOffS, unless a person asked: a drop, a recovery or a        *)
(* changeover bypasses no timer (docs/04 3).                                   *)
RestsBetween(c) ==
  c \in arb'.out \ arb.out /\ onAt[c] # NoTime =>
    \/ now - offAt[c] >= MinOffS
    \/ askedAt # NoTime /\ now - askedAt <= ManualWindowS + HeatToCoolDwellS

(* Both timers of the compressor, whichever channel runs it.                  *)
CompressorKeepsTime ==
  [][\A c \in {"hp", "cool"} : RunsLongEnough(c) /\ RestsBetween(c)]_vars

(* Changeover (docs/04 2) on the wire: through min-runs, drops, dwells, acks   *)
(* and user actions a family comes on only once every channel of the other     *)
(* has been off for its dwell, short of one cycle.                             *)
Alone == INSTANCE ArbiterAlone
ChangeoverRests == Alone!ChangeoverRest

(* "The starts cap is what bounds any restart pattern" (docs/04 1a), manual   *)
(* starts and safety drops included: CoolMaxStartsPerH + 1 starts span an      *)
(* hour, less what the arbiter may delay the first of them.                    *)
CoolStartsCapped ==
  Len(coolStarts) > CoolMaxStartsPerH =>
    coolStarts[Len(coolStarts)] - coolStarts[1] >= HourS - HeatToCoolDwellS

(* "Never close Y without blower confirmation" (docs/04 2): Y closes only on a *)
(* blower that G had already started, and never against the valve; when the    *)
(* proof or the demand goes, the chatter guard holds Y for one cycle at most.   *)
YNeedsBlower ==
  [][/\ coil'.y1 /\ ~coil.y1 => coil.g /\ comp'.guard.running /\ ~coil.ob
     /\ provenFor' = -2 => ~coil'.y1]_vars

(* A cool demand reaches the compressor: once the blower is proven for two    *)
(* cycles Y is closed, the chatter guard having cost at most the first; the    *)
(* valve never stands in the way.                                              *)
CoolReachesY == provenFor = 2 => coil.y1

=============================================================================
