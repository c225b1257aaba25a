# TLA+ models of the SlyTherm thermostat firmware

SlyTherm is a dual-fuel thermostat: one ESP32 drives a gas furnace, a heat pump
and a cooling stage, over the furnace's CT-485 bus or over 24 V relays. The
firmware keeps its decisions in pure C++ libraries (`lib/*`) and its tasks,
flash and radio in a glue file (`src/main_thermostat.cpp`, "main" below). The
paths of this document are those of the repository; `PROJECT.json` gives them
under the directory that holds it (`src/lib/...`, `src/src/main_thermostat.cpp`).

Contents: 1 the system, 2 how it is modelled, 3 what the runs check, 4 what is
proved, 5 disagreements between code and documentation, 6 what is not modelled,
and why.

## 1. The system

### Tasks and shared state

| task | period | what it owns or shares |
|---|---|---|
| `controlTask`, core 1 | 1 s | `controlCycle()`: all control objects, without a lock; drains the mailboxes at the start of a cycle, drives the actuator, ends with `persistOnChange()` |
| `ct485Task`, core 1, higher priority | 20 ms | bytes to frames to `Ct485Thermostat`; everything under `gCtMux`, which the control task also takes |
| `mqttTask`, core 0 | event driven | fills `gPending` under `gCmdMux`; walks the broker ladder |
| `uiTask`, core 0 | LVGL | `UiModel` and its intent queue, under `gUiMux` |
| OTA task, core 0 | polling | image download and boot slots; asks the control task for a safe moment to reboot |

NVS (flash) is written key by key: the guard blob `cg`, the clock base `clk`,
the reset history `rl`, mode, setpoints, hold, roster and others. A reset may
fall between any two writes, and all of RAM is lost.

One control cycle, in order: consume the commands; read sensors and fuse; apply
the fallback setpoints if MQTT is stale; mode machine (which call?); dual-fuel
arbiter (which source?); supervisor (may there be demand at all?); the exclusion
of a family still held on; the shapers, two of which ask the same compressor
guard; the demand arbiter; the actuator; persistence.

### Components

| component | state | operations | what makes it correct |
|---|---|---|---|
| `CompressorGuard` | running, lockout, hold-off end, start and boot histories | `requestStart/Stop`, `bootRestore`, `save` | min-off, min-on and starts per hour hold in wall-clock time, over resets |
| `ResetLoopAccountant` (in SafetySupervisor) | boot times, latch | count a boot, clear | a reset loop latches and means no demand |
| `DemandShaper` (gas, HP, cool) | on, phase, start history, manual arm | `shape`, `reset`, `forceStop` | comfort timers, starts caps; a drop frees no budget |
| `DemandArbiter` | output, dwell stamps, latch | `set`, `clearInvariantAlarm` | no two conflicting demands; changeover rests; a trip holds |
| `RelaySequencer`, `RelayActuator` | contacts, last transition | `update`, `goSilent`, `apply` | Y only behind the blower, the valve only on an idle compressor |
| `Ct485Thermostat` | channels, exchange, queue, join state, alarms | demands, probes, commands, grants, replies, discovery, tick | what the furnace serves is what the controller asks for |
| `SafetySupervisor` | health facts, deadman, boot gate, alarms | `update`, filter, watchdog | a fault drops demand, an alarm is neither lost nor stale |
| `ModeStateMachine` | mode, setpoints, hold, roster, active call | setters, presets, holds, save and restore, `update` | deadband, min spacing of calls, a hold ends when it should |
| `DualFuelArbiter` | source, droop and staging clocks, defrost | `update` | one source, sustained escalation, failing cold |
| mailboxes (`gPending`, UI intents) | last value per field | fill, consume | no command is lost or applied out of order |
| OTA client, `boot_guard` | staged image, attempts, self-test | check, apply, reboot, validate, roll back | a bad image is left, a good one kept |
| `UiModel` | lock, PIN entry, intent queue | digits, relock, restore, enqueue | the lock opens only by its code |
| `FurnaceMenuPoller` | pending request, misses | poll, answer, stall | one request at a time, an answer to the right one |
| broker ladder | active broker, failover clocks | fail over, fail back | ends on a live broker |
| `SensorFusion`, outdoor source | readings, ages, coast | update | a stale reading is never used as fresh |
| vacation, fallback setpoints (glue) | window, prior pair, outage | set, anchor, enter, leave, fall back | the pair in force is the one somebody decided |
| SlyTherm Remote | intent queue, outstanding intent, id, echo | tap, send, retry, echo, resync | an intent is delivered once, or visibly not |

The rest (learners, formatting, framing, display layout, bench programs) keeps
no control state; `PROJECT.json` lists each part with the reason.

### What is hard here

- *Resets between steps.* Guard, clock and reset history are separate flash
  keys written at different cadences; the clock resumes from a base that is up
  to 60 s and a whole outage behind.
- *Timers in series.* Shaper, guard, arbiter and relays each count their own
  time: what one believes is running another may still withhold.
- *One guard, two shapers*, and a request that finds the compressor running is
  "allowed".
- *An unreliable bus* on which we may only speak when granted, one exchange at
  a time, with answers matched by command code alone.
- *Interleaving of two tasks* on the bus stack: the lock covers single calls,
  not a control cycle.
- *Flash as a protocol.* An update moves between two slots, a boot pointer and
  four NVS entries, each its own write; a vacation and its prior pair, the pair
  itself and the hold are saved at different steps of a cycle.
- *Clocks that restart.* Sustain, dwell, droop, self-test and broker ladder each
  time something that a blip, a mode switch or a reconnect sets back.
- *Two ends that both decide.* A Remote shows a tap before the Controller has
  it, over a QoS 0 broker that loses, repeats and (bridged) reorders.

`PROJECT.json` lists each hazard at its line with the properties that cover it,
or with the reason why none does.

## 2. How it is modelled

```
Clock                     elapsedS, NoTime
 +- CompressorGuard       the guard as operators on a record
 |   +- GuardLifecycle    guard + GuardGate + persistence + resets + setup()
 |   |   |                  refines AntiShortCycle (the promise in wall-clock time)
 |   |   +- MCGuardLifecycle         +- GuardLifecycleProofs
 |   +- DemandShaper      the three shapers and the gate on the guard
 +- DemandArbiter         set() as an operator
 |   +- ArbiterAlone      the arbiter under any caller
 +- RelaySequencer        contacts
 +- ControlCycle          DemandShaper + DemandArbiter + RelaySequencer
                            refines ArbiterAlone           +- ControlCycleProofs (both)
Ct485Thermostat           the bus stack
 +- Ct485Bus              stack + both tasks + coordinator + furnace
     +- Ct485Service      and two clocks per channel beside it
                                                           +- Ct485BusProofs
AlarmRegistry             the bounded alarm list as operators on a record
 +- SafetySupervisor      boot gate, deadman, drop line, watchdog, alarms
                                                           +- SafetySupervisorProofs
HoldLifecycle             hold + its writers + persistence + resets + NTP (on Clock)
                            refines UserHold (the promise in wall-clock time)
                                                           +- HoldLifecycleProofs
Setpoints                 the pair and its deadband as operators on a record
 +- Comfort               mailbox, panel, fallback, vacation, persistence, resets
     +- MCComfort                                          +- ComfortProofs
CallMachine               ModeStateMachine's calls as operators on a record
 +- DualFuelArbiter       heat pump or gas, as operators on a record
     +- CallCycle         room and weather to the equipment asked for
                                                           +- CallCycleProofs
BrokerLadder              the walk over two brokers as operators on a record
 +- OtaUpdate             slots, boot pointer, trial, self-test, both rollbacks
                                                           +- OtaUpdateProofs
RemoteLink                Remote, broker and Controller    +- ComfortProofs (with Comfort)
```

**Guard and its life.** `CompressorGuard` translates every method: a request is
a predicate (`StartAllowed`) and the record it commits (`Started`). In
`GuardLifecycle` one action is one decision of a cycle (`canStart`, `Halt`,
`NoDecision`), `persistOnChange` the write at the cycle's end, `Boot` the part
of `setup()` that restores clock, reset history and guard. `Reset`,
`uiClearReducedMode` and `NewFirmware` take the device down. Two clocks run:
`now`, what the firmware believes, and `real`, the wall clock, kept only to
state properties. `MidCycleReset` says whether a reset may fall between a
decision and its write, `BlobLoss` whether a firmware update may change the
blob's layout. A CRC failure and an absent blob are both `NoBlob`.

**Abstract promise.** `AntiShortCycle` knows no clocks, blobs or reboots:
a start needs rest or a fresh user action, and a free place in the hour.
`GuardLifecycle` implements it with `on <- guard.running` and the history
variables under their own names (`KeepsPromise`).

**Control loop.** `Cycle` is one whole pass from the requests to the actuator,
`UserAction` and `AckAlarms` are what `consumeCommands()` hands over between
passes. The call, the supervisor's verdict, the fan request, the blower sense
and the chatter guard are inputs, chosen freely in each cycle, with two
restrictions from the code: a call has one family and one source at a time, and
the verdict also needs the previous emission to be sane. A percentage is
abstracted to what decides: gas "off", "band" (inside the floor's hysteresis) or
"fire"; a compressor duty "none", "part" or "full"; on the wire only whether it
is zero. `HpMapped = FALSE` is the CT-485 build, which serves heat-pump calls
with gas; `TRUE` is the relay build, a compile-time choice which no environment
of `platformio.ini` selects today. Defrost tempering is not emitted: the CT-485
build has no defrost sense and the relay build has the same valve position for
heating throughout.

**Bus.** `Ct485Thermostat` translates the library; `Ct485Bus` puts the two
tasks around it. Each critical section under `gCtMux` is one step, so a frame
or a timeout may fall between any two calls of one control cycle. `Tick` is one
unit of time and every timer in it. A channel keeps one age where the code
keeps two stamps, since `refMs` reads only the younger; an exchange likewise.
The furnace is external, modelled from what the library expects of it: it holds
a demand until a zero or until the refresh window lapses, and it acknowledges,
echoes, echoes with an odd code (accepted, but not recognised by the stack),
refuses (NAK1, NAK2) or stays mute. With `Lossy`, a frame or its answer may be
lost. The six-entry transmit queue is drained in the critical section that
fills it; a drop there is a lost frame. `Ct485Service` adds two clocks per
channel that no step of the bus depends on: for how long an active demand has
not been served, and for how long the furnace serves a demand that nobody makes.

**Supervisor.** `AlarmRegistry` translates the list, `SafetySupervisor` puts it
under the control cycle. A cycle updates the gate, the deadman and each alarm in
the order of the code, seven of the twenty codes in use: one of each kind the
code treats apart (raised by the gate, at the trip of the deadman, in every
cycle; self-clearing or kept until acknowledged; critical or advisory; of the
library or of the glue). Frames, seconds and cycles are separate steps, because
the cycle sees a frame by the *second* stamped on it: two frames in one second
are one, and a frame after a cycle in the same second as the one before is not
seen. Two timeouts are external, the watchdog's and what it does: the pet pin is
not assigned in `thermostat_config.h` today, and the reset line is not among the
causes `setup()` counts as abnormal, so a bite leaves the reset-loop latch as it
was. The facts the glue reports as constants are left out.

**Hold.** `HoldLifecycle` runs the control cycle in the order in which it
touches the hold: `Mailbox` (what MQTT and a Remote left in `gPending`; several
fields in one step, applied in the fixed order of `consumeCommands()` whatever
the order of arrival), any number of `PanelIntent`, `ChargeOutage`, `Update`,
`persistOnChange`. A `Reset` may fall between any two of them; `Boot` resumes
the clock from its base, restores the blob or migrates the old type-only key.
`Sync` falls between two cycles: with a sync inside a cycle the correction waits
for the next one. A blob is readable or absent (a torn or corrupt one reads as
absent, and a power cut inside one NVS write leaves the old value). The
setpoints a preset carries, vacation and the disabled sleep link, whose edges
`SleepState::update()` never reports, are left out. `UserHold` is the promise:
it knows the wall clock only, and an override ends by a decision, by the preset
it waits for, or at its end. What a person or the schedule says is its variable
`told`: a step that is told nothing may end an override only when its time is
over, a preset ends only the one that waits for it, and a decision acts in the
step that hears it. `HoldLifecycle` implements it with
`kind <- IF up THEN hold.type ELSE nvs.holdb.type`, `alive <- up` and the history
variables `told` (the command of the mailbox or the panel the step obeyed),
`until` and `keptUntil` under their own names. `until` follows the command
obeyed, never the countdown, so a hold that lapses early, a preset that ends a
timed hold or an outage charged to the wrong hold is a step `UserHold` does not
have. An outage is one step of the wall clock, a reset returns to the override
last kept.

**Setpoints.** `Setpoints` translates the two setters with their push and pull
at the deadband and the rails. `Comfort` walks one control cycle through
everything that writes the pair: `Mail` and `Away` (the mailbox), the panel's
intents until the queue is empty, `Fallback`, `evaluateVacation()` in four
actions, and the two keys of `persistOnChange()`, with a `Reset` between any two
of them. A vacation is saved where it changes, the pair at the end of the cycle:
what the properties are about is the time between. Ghosts hold what a person
decided last (`mine`) and the two known ways to lose it (`excused`, see (n) and
(t) below). The mode only decides which setpoint a single write is for and a
hold only whether a preset comes through, so both are free choices here.

**Calls and sources.** `CallMachine` translates `setMode`, `evalSimple`,
`evalAuto`, `update`; `DualFuelArbiter` the balance point, fail-cold, lockouts,
droop clock with its saturation latch, escalation and de-escalation. `CallCycle`
runs both once per cycle as `controlCycle()` does, with the degraded-sensor
rules and the cooling lockouts, between rooms, weather, modes and sensor losses
that change freely. The compressor is an input: it may start when asked, runs
its minimum unless dropped, and `compressorProvenIdle` reads it. A temperature is
a level relative to the setpoints in force, so a setpoint edit is a change of
level. `CallCycle` and `ControlCycle` meet at the request: the former shows which
requests come, the latter what any sequence of requests does to the equipment.

**Update and boot.** `OtaUpdate` follows the OTA task through its loop, one
action per place where flash or a flag changes; `writes` is the list of flash
entries still to write, which a `Reset` drops. `Boot` is `bootValidate()`. The
download is one of "fails" and "arrives"; the digest, the signature and the
mirror decide only which. During a trial the MQTT task's ladder is followed step
by step (`BrokerLadder`), since a connection is what passes the self-test;
outside a trial it decides nothing here.

**Remote.** `RemoteLink` has the Remote's optimistic UI and bounded queue, the
one intent in flight with its numbered retries, the echo and its suppression,
the Controller's dedupe table, mailbox and panel, the retained echo with its
heartbeat, and both connections. What is on its way up is a set (the two brokers
are bridged, so order is not kept); a lost connection or a reset loses any part
of it.

Left out of these components: frame bytes, fan mode, version announcement, the
fault push, the listen-only gate before a pairing offset is set, and the dry-run
switch; `HpInverterShaper`, which the glue never instantiates; Y2, whose input
it never sets.

## 3. What the runs check

| run | what it shows | bounds |
|---|---|---|
| `guard_lifecycle` | with resets between cycles and a readable blob, the guard keeps `AntiShortCycle` and latches reset loops; the wait a denied start reports is exact | 7 s of wall clock, outages to 2 s, jitter to 1 s |
| `guard_holdoff` | **violation**: the hold-off after a lost blob does not survive a second reset | same |
| `control_bus` | CT-485 build: no trip; changeover rests, comfort timers and starts caps as the equipment sees them | 12 s |
| `control_relay` | relay build with a blower sense that drops at any cycle: one compressor, Y behind the blower and open within two cycles of losing it, and a proven cool demand does close Y | 6 s |
| `calls` | AUTO changes family only when earned and never too late; gas takes over from the heat pump, and keeps the house, as long as it must | dwell 3, sustain 2, (de)escalation 2 and 3 cycles, six room levels |
| `comfort` | outside a vacation the pair in force is the last one decided; a reboot between cycles changes nothing | four temperatures, deadband 1, outage after 2 cycles |
| `hold_lifecycle` | over resets, outages and lost clock time no step that obeys no command ends a hold before its preset or its promised end; no decision is lost between cycles; a synced clock makes what is left exact | 10 s of wall clock, holds of 2 and 4 s, outages to 3 s, clock saved every 3 s |
| `ct_prompt` | two channels of a node that joins, nothing lost: nothing stays on uncancelled, a cancel is sent once | window 4, two attempts |
| `ct_lossy` | one channel of a node that joins, everything lost or refused: all safety parts, and how long the controller and the furnace can disagree | window 4, three attempts as shipped, timeout 1 |
| `supervisor` | deadman within its two bounds; faults stay listed until acknowledged; list, conditions and drop agree; a broken sensor costs one watchdog reset | list of 3 for 7 codes, deadman 3 s, grace and watchdog 2 s |
| `ota_update` | the boot slot always holds a whole image; an untested one runs on trial only; a healthy one is kept, a broken one left | three releases of which one is broken, three unasked resets, three boots and two applies per image |
| `remote_link` | no fresh intent is taken for a repeat; the last decision holds; the two ends come to agree | two intents, a queue of one, one retry, one echo under way |

**Bounds.** All times are scaled, and the order of the constants is kept where a
decision depends on it: hold-off at least min-off; a cool duty's on- and off-time
at least its minimum (`periodS()` stretches the period); the histories
at least as long as the caps; `Grace` less than the window, as shipped
(300 s and 360 s), and more than the refresh point; the dwell at least 2, since
at 1 it would separate nothing.
The shipped `kCoolMinOnS` less the dwell (780 - 180 s) exceeds the guard's
`kCompressorMinOnS` (300 s); `CompressorKeepsTime` needs that relation
and the runs keep it. The `control_bus` bound of 12 s covers, after the dwell
of the boot, a whole cool run with its rest and either the next start (the hour
is 6 s) or the changeover and the burn after it, and a burn to its runtime cap
with the rest and the relight; 7 s of the guard covers the two abnormal boots
that latch there, the expiry of the window and of the hour, and a start after
each. `MaxNow` and `MaxReal` end a behaviour; they disable no step before. The runs with such an end turn off
deadlock checking only for `GuardLifecycle` and `HoldLifecycle`, whose device may
be powered off at the last instant; the other modules always have a step.

In `hold_lifecycle` an outage may be as long as the short hold and longer, and
the clock's save interval is longer than that hold, so that a restore may owe
more than one hold of clock time; two reboots, a correction and a second hold fit
into the 10 s. `HoldLifecycle` may stop at `MaxReal`, where the device is off or
the cycle is over.

In the theorems a late cycle may share its second with
the one before (`Steps`, `d = 0`); the two control runs take one second
per cycle.

`ct_lossy` reaches both of its time bounds: a demand unheard for 15 units with
the bound at 16, a demand orphaned for 9 with the bound at 9. The shipped values
(window 360 s, three transmissions, timeout 3 s) make them just over 30 minutes
for a demand to be heard or given up with the link, and 18 minutes for a demand
that nobody makes to lapse. The window and the grace before a join are the
larger part; the timeout counts once.

`control_relay` uses a `VIEW` that leaves out the history variables its
properties do not read. The property `CoolReachesY` is stated from the moment
the blower has been proven for two cycles; see (e) below for why it cannot start
at the call.

In `calls` the order of the shipped times is kept (sustain below the dwell,
escalation below de-escalation); the droop level is one past the trigger, and
the outdoor range has a value on each side of every threshold. `HpMapped = TRUE`,
so that a heat pump exists to fall short.

In `comfort` the wanted temperatures include both rails and leave one out, so
that push and pull at the deadband reach values nobody asked for. The eco pair
spans the rails, the emergency pair does not. Nothing bounds the length of a
behaviour.

In `ota_update` the three resets are one more than a boot count of three needs.
The self-test's three periods leave room for two failures on the first rung and
a connection on the second; `GoodIsKept` rests on that relation
(`BrokerFailsPerRung < SelfTestTimeout`, counted in reconnect periods), which the
firmware keeps by far (two attempts 5 s apart against 5 min). Release 1 is the
factory image, 2 the broken one, and 3 may be published during its trial.

`remote_link` has one kind of intent: a second is one more component of the same
vectors, and taps of different kinds share only the queue, which is full at one.
A third intent or a queue of two was too large to finish; more than
1.6 million states of it were searched without a violation.

In `supervisor` the list is smaller than the number of codes, so that it
overflows; the properties about the list hold until it has said so, and the
run's behaviours without an overflow hold up to three conditions at a time. The
deadman bound of 3 s exceeds twice the gap between cycles, below which a
threshold counted twice would go unnoticed.

**Fairness.** Two properties are liveness properties. That a demand is heard in
the end is not among them: `HeardInTime` states it as a bound in ticks of the
20 ms loop, which a safety property can say, and which assumes no fairness.

- `BadIsLeft` (`ota_update`) assumes that the OTA task's loop goes round, that
  flash writes return, that a reset board boots and that time passes. The loop
  is `for (;;)` around a delay (`ota_client.cpp:706`), downloads have their own
  timeouts, and nothing is assumed of the network, of a catalogue or of a
  person.
- `Settles` (`remote_link`) assumes the two MQTT tasks and the control task keep
  running, and that the broker delivers what was taken while both ends stay
  connected (QoS 0 over TCP loses nothing on a live connection; what a lost
  connection loses is modelled). Its premise is that the connections last and
  nobody uses the Controller's own panel any more.

**Assumptions of the environment.** `ct_prompt` has `Hasty = FALSE`: a demand
does not return before the zero of its end was sent. For heat and cool the
shapers' rest of minutes against a grant every few seconds justifies it; the fan
passes no shaper, and (s) below is what happens without the assumption.
The glue builds the stack with `assumeAddressed = TRUE`; both bus runs set it to
`FALSE`, so that joining, re-enumeration and its flush are covered as well.
`UseCommands` adds the library's system-switch and setpoint writes, which the
glue never calls.

Each property of a passing run is paired in `PROJECT.json` with a plausible bug
(the definitions marked "mutant") under which TLC finds it violated.

## 4. What is proved

For every value of the constants that satisfies the named assumptions of the
modules (which the shipped values satisfy, and TLC evaluates on the runs'):

| module | theorem | statement |
|---|---|---|
| GuardLifecycleProofs | `TypeCorrect` | types, and histories inside their arrays |
| | `LatchedMeansOffHolds` | under a latch the compressor never runs |
| | `RestHonoured` | with `MidCycleReset` and `BlobLoss` FALSE, every start not asked for by a person has rested `MinOffS` of wall-clock time |
| | `PromiseKept` | under the same two hypotheses `GuardLifecycle` refines `AntiShortCycle`: also the cap on starts in any hour of the wall clock |
| | `RestOnRecord` | with resets at any moment and blobs lost, what `RestHonoured` says, of every run that is on record: not cut in the second it began, and not before a lost blob |
| | `ResetLoopStopsHolds` | a reset loop of the wall clock stops the compressor until a clear or an update |
| | `WaitIsExactHolds` | the wait of a denied start is exact |
| ControlCycleProofs | `ArbiterTypeCorrect`, `NoConflictEmitted`, `ChangeoverNeedsRest`, `LatchHoldsAlways` | `ArbiterAlone`: types, and the three promises of the arbiter to any caller |
| | `TypeCorrect`, `OneCompressorHolds` | types; the guard runs exactly when one of its two shapers is on |
| | `ChangeoverRestsHolds` | the changeover rest on what the loop puts on the wire, in both builds |
| | `CompressorAsAskedHolds` | the compressor starts, runs on and stops as `CallCycle` assumes |
| | `YNeedsBlowerHolds` | Y closes only behind a blower already started, with the guard running and the valve at rest, and opens within two cycles of losing it |
| | `CoolReachesYHolds` | a cool demand with a proven blower closes Y |
| | `NeverLatchedHolds` | *CT-485 build*: no sequence of calls and drops trips the latched conflict |
| | `GasRestsBetweenBurnsHolds` | *CT-485 build*: every burn comes after the burner's minimum off-time |
| | `CompressorKeepsTimeHolds` | *CT-485 build*: the compressor runs and rests its minimum, as the wire sees it |
| | `CoolStartsCappedHolds` | *CT-485 build*: the cap on starts in any hour of the wire |
| Ct485BusProofs | `TypeCorrect` | types, retry budget and join slot in bounds |
| | `QuietHolds` | silence and rejoin leave nothing behind |
| | `AckHolds` | an active channel of which nothing is owed is served at its level |
| | `ProbeSlotHolds` | the probe slot is taken exactly while a probe is queued or awaits its answer |
| | `CancelOnceHolds` | *prompt furnace*: a cancel is sent only over a nonzero demand |
| | `HeardInTimeHolds` | an active demand is served, withdrawn or given up with the link within 2n-1 windows and one timeout, n the transmissions of a frame |
| | `OrphanEndsHolds` | what the furnace serves and nobody asks for lapses within n windows |
| | `NoOrphanHolds` | *prompt furnace, rested demands*: what the furnace serves is wanted or about to be cancelled |
| HoldLifecycleProofs | `TypeCorrect` | types; no reboot gives a timed hold more than it was set for |
| | `SavedEveryCycleHolds` | between cycles flash stands for what RAM holds |
| | `ChargedAfterSyncHolds` | with a synced clock what is left of a stamped hold is exact |
| | `HoldKept` | `HoldLifecycle` refines `UserHold`: obeying no command, the firmware ends no hold before its preset or promised end |
| ComfortProofs | `SetBothExact` | two writes of a pair that keeps the deadband give exactly that pair, from any other one |
| | `TypeCorrect` | types; the pair in force keeps its deadband and nothing saved leaves the rails |
| | `PairIsDecidedHolds` | outside a vacation the pair is the one somebody decided last |
| | `RebootKeepsHolds` | a reset between two cycles gives back pair and vacation |
| ComfortProofs (`RemoteLink`) | `NeverMutedHolds` | no fresh intent is taken for a repeat |
| | `LastWordHolds` | the last word is in force once the newest intent is taken |
| OtaUpdateProofs | `OtaInvariant` | types; what may still be written keeps a trial's way back |
| | `AlwaysBootableHolds` | the boot slot always holds a whole image |
| | `OnTrialOnlyHolds` | an image that never passed runs on trial only |
| | `GoodIsKeptHolds` | with `BrokerFailsPerRung <= SelfTestTimeout`, a healthy image with one steady broker passes in time |
| | `BrokenOnTrialHolds` | an image that cannot connect runs on trial only, with one that can in the other slot, or slipped past its trial |
| SafetySupervisorProofs | `DeadmanHolds` | a silent bus drops the demand not before the threshold and at most two gaps after it |
| | `BringUpSurvives` | at most one watchdog reset until the gate next opens |
| | `ListIsHonestHolds` | until it overflows, the list shows each standing condition and each unacknowledged fault, and nothing else as active |
| | `AckSticksHolds` | an acknowledged alarm of a lasting condition stays acknowledged |
| | `DropIsExplainedHolds` | a demand held off behind an open gate has an active critical alarm |
| CallCycleProofs | `TypeCorrect`, `DueIsServedHolds` | types; a room that asks without a break has its call after the longest wait |
| | `ChangeoverIsEarnedHolds` | AUTO changes family only after sustain, dwell and the compressor's rest |
| | `EscalationIsEarnedHolds` | gas takes over only after a droop that lasted, with a heat pump that ran |
| | `StaysOnGasHolds` | and keeps the house for the de-escalation time |

*CT-485 build* is the hypothesis `~HpMapped`, the build every environment of
`platformio.ini` selects. `CompressorKeepsTimeHolds` assumes besides that
`CoolMinOnS - HeatToCoolDwellS >= MinOnS` (780 - 180 against 300 s as shipped):
without it a run which the arbiter lets start late is cut short by the shaper.
*Prompt furnace* (`Prompt`) is a bus that loses nothing and a furnace that
acknowledges or echoes, the setting of `ct_prompt`, and *rested demands* is
`Hasty = FALSE`; what happens outside of them is (a) and (s) below.
`GoodIsKeptHolds` assumes that the self-test window is no shorter than the
failures that leave a rung (two, against 5 minutes of reconnect periods).
ComfortProofs extends `Comfort` and `RemoteLink`, which share no state: the panel's
and the Remote's side of the same setpoints. The theorems of the update name
that module's assumptions on the constants as hypotheses. The lemmas on the
guard's histories stand in both modules that need them, ControlCycleProofs and
GuardLifecycleProofs.

The arguments:

- `RestHonoured` is not inductive by itself: a start is decided from the
  firmware's clock and stamps, the property speaks of the wall clock. `RestInv`
  ties them. The saved clock base never leads (`ClockLags`). The elapsed time
  since the last stop, as the guard in RAM computes it, is at most the real one
  (`RamRest`), and so is the one a reboot would compute from the blob, unless
  the blob is marked running, for which the restore takes "now" as the stop
  (`BlobRest`). Between cycles a running guard has a running blob
  (`RunIsSaved`): this is what a reset inside a cycle breaks. A user action's
  arm ages with the wall clock (`ArmAges`).
- `RestOnRecord` drops both hypotheses and says instead which runs a reset can
  make the device forget. Two things may go wrong: a reset between a start and
  its save leaves a blob that knows nothing of the run, and a new layout leaves no
  blob. In the first case the run began in the second of its end, since
  `persistOnChange()` saves a start in the cycle that makes it (`RunIsFresh`); in
  the second the history begins anew. `Recorded` says that the last run is
  neither; all other resets, a stop that was never saved included, are covered,
  because a blob marked running is read as a stop at the boot.
- `PromiseKept` adds the cap. The guard counts its own stamps, which a reboot may
  leave in the future of the clock; the promise counts starts of the wall clock.
  `StartsInv` pairs the two histories, newest first, in RAM and in the blob:
  no stamp looks older to the guard than its start is (`NoOlder`). So what the
  hour holds by the wall clock is in the guard's count too (`NoOlderCounts`),
  and a count below the cap leaves a free place in the promise. The pairing goes
  over a start (`NoOlderPush`), over time and over a clock that falls back
  (`NoOlderLater`).
- `ResetLoopStopsHolds` is the same pairing of the guard's boot stamps with the
  boots of the wall clock (`ResetsInv`), at a threshold instead of a cap: enough
  real boots in the window are enough stamps in the guard's.
- `WaitIsExactHolds`. Each gate gives its own wait and the result is the longest
  (`WaitIsLongest`). That the window has room again at the time told, and not a
  second before, needs two facts: the newest starts are those the window keeps,
  and a device never holds more young stamps than its cap while it is past all of
  them (`Budgeted`), so that one stamp leaving makes a free place.
- `ChangeoverNeedsRest`. A family on the wire renews its stamp in every cycle, so
  the stamp is never older than the last emission; the suppression then rests
  the dwell from it. The one second less is the cycle between the last nonzero
  emission and the zero after it.
- `OneCompressorHolds`. Guard and shaper flags change together
  (`FlagsTogether`), and the exclusion never lets a second compressor shaper
  see a call while the first is on.
- `YNeedsBlowerHolds`. The valve never leaves its cooling position
  (`ValveStays`): only a proven-idle compressor lets it move, and whatever would
  ask it to has the guard running, by `OneCompressor` in the next state.
- `AckHolds`. The invariant `Served` says, for each channel, that a settled
  channel has been sent, that an open exchange about it carries its present
  level, and that when no exchange is open, or a proving answer is under way,
  the furnace is *in step*: it holds the same level at the same age. Equal ages
  are what excludes a lapse: the stack goes silent when its age reaches the
  window, the moment at which the furnace would drop the demand. `Level`
  (active exactly with a nonzero level) and `Budget` (a queued retry has an
  attempt left) strengthen it.

- `HoldKept`. The code counts a hold in a clock that stands still while the
  device is down and falls back at each boot, the promise is in wall-clock time;
  `IInv` ties them. The gap between the two clocks only grows (every step moves
  the wall clock at least as far), so a remainder measured in the device's clock
  never runs out early. `BlobStands` measures the blob in the three ways the code
  may read it: its remainder from now, its remainder from its monotonic stamp,
  and, if it has one, from its wall-clock stamp, where it is exact.
  `HoldStands` carries this to RAM, `ShadowStands` says that a hold not noticed
  as changed is the one in flash (a fresh decision cannot have the end of an
  older hold of its type), and `SameHold` that only such a hold waits for a
  correction and that every other one is exact. Each step of a cycle makes one of
  five things of the hold (`Outcome`: the same, a fresh one, none, the pending
  correction settled, a shorter end), and one lemma shows that each keeps the
  invariant and one that each is a step of `UserHold` under the command the step
  obeyed: none for a tick, a charge or a save. `SavedEveryCycle` and
  `ChargedAfterSync` follow from the invariant.
- `PairIsDecidedHolds`. The pair may be in three places, and `PairStands` says
  which: in force, kept as the prior pair by a vacation in force, or in flash
  while the device is down. `FlashStands` ties flash to RAM step by step (the
  vacation is saved wherever it changes, the pair's two keys one after the other
  at the cycle's end). `OutageStands` says that an outage that was answered
  cannot be answered again. That a vacation gives back exactly what it found, and
  a reboot exactly what was saved, is `SetBothExact`: writing heat before cool
  over a pair in between loses nothing.
- `DeadmanHolds`. The age of the last frame and the age of the silence are
  different counters; `AgesTogether` bounds each by the other through the three
  phases (frame not yet seen, seen and not yet missed, missed).
- `BringUpSurvives`. Behind a closed gate nothing was emitted, so no emission
  can be insane, so the watchdog is petted: a bite presupposes an open gate, and
  the reset closes it.

- `NeverMutedHolds` and `LastWordHolds`. `Numbers`: the id in flash is the last
  one used, and neither end nor anything under way knows a newer one.
  `WordStands` says where the last word is: the last of the queue; sent, and then
  everything under way with that number says the same; taken, and then in the
  mailbox or in force. A queue that drops its oldest keeps its last.
- `AlwaysBootableHolds` and `OnTrialOnlyHolds`. Of what the task may have left to
  write only three sequences touch the boot slot or the trial mark, each at one
  place of the loop (`Passing`, `Returning`, `Arming`); everything else is
  `Quiet`. Where it is quiet, flash as a boot would find it is either a tested
  image or a trial whose other slot is tested (`WayBack`), and each of the three
  sequences carries what `WayBack` needs at its end. Types and invariant depend
  on each other: the image that a trial confirms is a release because the running
  slot is whole.
- `GoodIsKeptHolds`. While one broker has answered since the boot and no
  connection was made, the task is on its first walk down the ladder and has used
  one period per failure (`FirstWalk`); the walk ends, at the latest, on the
  second rung's first attempt.
- `BrokenOnTrialHolds`. A trial of an image that cannot connect never passes
  (`Barren`), so only images that can are ever confirmed; with the way back of
  `OtaInvariant` that is the safety half of `BadIsLeft`. That the trial also ends
  is liveness, and TLC's.
- `CompressorAsAskedHolds`. `Turns` lists the three things a shaper's turn can do,
  `StartsTogether` makes the guard's start and the shaper's phase one moment, so
  the guard's minimum and the shaper's own bound the same run (`Outlives`).
- `CoolReachesYHolds`. `ReachInv` says what a blower proven in the cycle before
  leaves behind: the valve at rest, and at most one cycle of the chatter guard.
- `NeverLatchedHolds`. The shapers never ask for gas and for cooling in one
  cycle: a family held on by its minimum has its flag set, and a call is
  withheld while the other family's flag is. `OneFamily` says that of the flags
  and of what the arbiter last emitted, and is inductive only together with
  `OneCompressor`.
- The timers of the wire. Shaper and arbiter stamp different instants: the shaper
  when it decides, the arbiter when it lets the decision through. `Stamped`
  orders the two stamps; `BurnRested`, `CoolTimed` and `StartRested` say what a
  stamp of the shaper or of the guard implies for the wire. `CoolStartsCappedHolds`
  needs more: the starts on the wire and those in the guard's history are the
  same list but for the delay of the arbiter, so `Aligned` pairs them newest
  first, with at most one pending, and `BudgetLeft` (a lemma on finite sets)
  turns "the guard counted less than the cap" into a bound on the age of the
  entry that the next push would make the oldest.
- `ProbeSlotHolds`. The slot is a flag beside queue and exchange; the invariant
  `OneProbe` adds that there is at most one probe in both together, without
  which the end of one would free the slot of another.
- `HeardInTimeHolds` and `OrphanEndsHolds`. The clocks count from a state of the
  furnace, the code's timers from the last transmission, and every
  retransmission, also one of an outdated frame, starts the furnace's window
  anew. An open exchange has been sent a counted number of times, so the
  invariant bounds each clock by the transmissions so far, one window for each
  interval between two of them, plus the age of the last. What makes it inductive
  is which exchange may be open: while a demand is unheard either its own frame
  or the zero that was pending before it, in this order, which gives 2n-1
  intervals; for an orphaned demand only frames of the channel, of which a zero
  that arrives ends it. A channel switched on again since its last transmission
  has its own clock, and an answer under way proves that the furnace still serves
  the level of the frame.
- `CancelOnceHolds` and `NoOrphanHolds`. `Known` says that with prompt answers
  the stack's memory of what it sent (`everSent`, `loaded`) is what the furnace
  holds, `Wanted` that a level the furnace holds is one somebody asks for, or
  that its zero is pending or open.
- `ListIsHonestHolds`, `AckSticksHolds`, `DropIsExplainedHolds`. `AlarmInv` states
  for each code (`CodeStands`) how its entry relates to its condition and to the
  unacknowledged faults; a cycle is a chain of reports, each about one code, and
  `ReportOwn` and `ReportOther` say what a report does to its own code and to
  the others. `RaiseShape`, `ClearShape`, `AckShape` and `AckAllShape` describe
  the four operations by what they do to the sets a reader sees, and `KeptEntries`
  that closing up a gap keeps every other entry, for lists of any length.
- Calls and sources. The code decides from stamps that blips, modes and lost
  readings reset, the properties speak of what the room and the equipment did.
  `CreditStands` bounds each trigger stamp by the true time of the trigger,
  `CallStands` the end stamps by the time a family was last served, `DualStands`
  the droop clock by the true droop. `DueIsServedHolds` is the other direction:
  `Withheld` says how long each rule can still hold a call back.

Every invariant and every action property of the passing runs is a theorem. Only
model-checked, and out of the prover's reach: liveness under fairness
(`BadIsLeft`, `Settles`), and `ENABLED`. The theorems that need
more than the assumptions of the modules say so in their hypotheses; TLC checks
the same properties on constants that satisfy them. No module
declares a RECURSIVE operator. `ArbiterAlone` has no run of its own: its
theorems are about any caller, the lemma `CallsArbiter` makes the loop one of
them (both share the operator `set`, so this alone says nothing about the
dwell), and `control_bus` checks `ChangeoverRests` on the loop. `SelectSeq`
is recursive in the standard module and has no definition in the prover, so
`AlarmRegistry` closes up its list with `Kept`, which enumerates the positions
that stay.

## 5. Code against documentation

`guard_holdoff` shows one disagreement, quoted with its lines in `PROJECT.json`:
the hold-off after a lost blob does not survive a second reset. Others were met
while modelling; the models follow the code, and where a property would be
false because of one, its definition says what it exempts.

Guard, arbiter and bus:

- (a) A retransmission clears `everSent` from the channel's *present* state while
  sending the old frame (`Ct485Thermostat.cpp:554`): a demand cancelled while
  its frame waits for a retry is not cancelled at the furnace. It violates
  `NoOrphan` in a lossy bus, and is why that property is checked in `ct_prompt`
  only.
- (b) NAK2 "stops all demands" (`Ct485Thermostat.h:27`), but only once: the next
  control cycle sets them again while the pairing alarm stands (`cpp:491`).
- (c) A rejoin leaves `sessionGranted_` set (`cpp:431` against `h:290`); the glue
  never rejoins, as it claims its address.
- (d) An echo is matched by command code alone (`cpp:517` against `cpp:505`): a
  late one acknowledges the next frame of its channel. The model lets an answer
  be lost when the next frame is sent, so this is outside the runs.
- (e) Relay build: G is energised by fan or Y and Y waits for the blower
  (`main:723`, `RelaySequencer.h:12`), so with the fan on AUTO a cool call never
  closes Y.
- (f) Relay build: the glue reports the compressor as running when the guard
  grants the start (`main:601`), and the valve moves only on an idle compressor
  (`RelaySequencer.cpp:29`), so heat-pump demand never moves the valve and never
  closes Y.
- (g) Relay build with gas and heat pump mapped: a source change while the first
  shaper is held by its min-on emits both, and the arbiter latches
  (`main:3558` excludes heat from cool only).
- (h) `kJoinStarvationGraceMs` is 300 s, written when the refresh window was 60 s
  (`Ct485Thermostat.cpp:13-17`); the window now ships as 360 s
  (`DettsonConfig.h:183`), so the "longer grace" of a node never polled is
  shorter than a window, against `Ct485Thermostat.h:25`. The bounds keep that
  order.
- (i) The registry has 8 entries for 20 codes and "oldest dropped + flag"
  (`SafetySupervisor.h:46`), but nothing reads the flag. A dropped condition that
  is reported in every cycle comes back, without its acknowledgement; the
  deadman is reported only when it trips (`SafetySupervisor.cpp:222`), so its
  drop stays without an alarm.

- (j) The gas shaper counts `minOnS` from the cycle it lights, and the arbiter
  may hold the channel at zero for the changeover dwell after that: a burn on the
  wire after cooling can end after `minOnS` less the dwell (300 - 180 s), against
  "until then hold at minFire" (`DemandShaper.cpp:74`).
- (k) Only a manual setpoint change starts a hold, always one of four hours
  (`ModeStateMachine.cpp:121`), and a mode change starts none (`:34`);
  `docs/06-home-assistant.md:180` and `ModeStateMachine.h:19` still let both start one of a
  default type.
- (l) A hold set before the first NTP sync is saved without a stamp
  (`main:2790`) and is not saved again when the clock arrives, so no later outage
  is charged to it (`ModeStateMachine.h:190` says it will be).
  `ChargedAfterSync` exempts it; `UserHold` does not, as the hold errs long.
- (m) The mailbox applies a preset before a hold's end whatever their order of
  arrival (`main:2604`, `:2619`): "resume" followed by a preset within one second
  loses the preset.
- (n) Setting a vacation while one is applied clears what it had remembered of
  the user's setpoints (`main:2624`, `:2741`), which therefore never come back.
  `excused` in `Comfort` marks it.
- (o) The guard's blob is written at the end of a cycle (`main:2802`), while
  `CompressorGuard.h:33` has it saved at every transition: a reset between the
  decision and the write loses the min-off. `MidCycleReset = TRUE` shows it; the
  run has `FALSE`, and so does `RestHonoured`; `RestOnRecord` covers the rest.
- (p) `uiClearReducedMode` (`main:1308`) rewrites the reset history only; the
  guard's own `lockedOut` survives the operator's clear it announces.
- (q) `compGuardMinOffRemainS` on the wire includes the boot jitter: it shows up
  to 300 s and the jitter.
- (r) The panel's "acknowledge alarms" only calls `ackAll()`; the same command by
  MQTT also clears the bus stack's alarms and the arbiter's latch.
- (s) A demand taken off, on and off again before the next grant leaves its
  first frame uncancelled at the furnace until the window lapses
  (`Ct485Thermostat.cpp:202`, `:554`), against "explicit zero" of
  `docs/02-protocol-climatetalk.md:164` and `Ct485Thermostat.h:117`. The fan can do it.

Calls and sources:

- The droop clock runs on when a mode switch ends a heat call and the same cycle
  starts the next; it does not outlive a cycle without a call.
- A reboot forgets the last call (`lastEndedCall_` is in RAM), so a changeover
  after it waits for the guard only, not for the dwell.
- `gLastHpEmittedPct` includes the cooling demand; no heat call can see it, as
  the two exclude each other.
- Of two writes in one cycle the mode is applied before a single setpoint,
  whatever their order of arrival; the single setpoint is for the new mode.

Setpoints:

- (t) A reset between the save of a vacation's end and `persistOnChange()`
  reboots with the eco pair and no vacation (`main:540` against `main:2778`).
  `excused` in `Comfort` marks it.
- The emergency pair replaces the user's in RAM and in flash, and stays when
  MQTT returns (`main:3273`); somebody has to decide again.
- The first message after an outage, when it carries an emergency setpoint,
  changes the room's setpoint with it (`main:2588`): the fallback's flag is
  cleared later in the cycle (`main:3279`).
- A setpoint written in the same mailbox as the end of a vacation is applied
  first and then overwritten by the prior pair (`main:2562`, `:2636`).
- `docs/04-safety.md:70` has 18 and 27 degrees as the fallback pair; the code
  ships 20 and 24 (`main:2415`).

Update and boot:

- A release that was rolled back is offered, and with automatic updates applied,
  again by the next check: nothing remembers it but `atryv`, which the staging
  cleared.
- A power cut between `Update.end()`, which switches the boot slot, and the
  write of `pend`, or between the clear of `pend` and the switch back, boots an
  image without a trial (`slipped` in `OtaUpdate`).
- A second release staged during a trial overwrites the slot a rollback would
  need, and the confirmation or the timeout of the first clears its `pend`.
- `atry` counts failed downloads as well as resets during an apply.
- `docs/10` has the self-test ask for the boot gate, WiFi and the broker; the
  code asks for the broker alone. An image that crashes before `bootValidate()`
  (`main:4115`) is never rolled back.

Remote:

- "NO intent queuing. [...] the Remote never banks a queue to replay"
  (`docs/11-remote-node-plan.md:180`): taps made while the link is down wait in
  UiModel's queue of 8 (`UiModel.cpp:518`), nothing empties it at a disconnect,
  and `pumpIntents()` sends them one by one on reconnect
  (`remote_mqtt.cpp:607`); the one in flight is repeated as well. The code's own
  comment (`remote_mqtt.cpp:606`) and `docs/12-remote-p4.md:99` apply the rule to
  intents without a wire type only. `RemoteLink` follows the code.
- Any echo ends the retries of the intent in flight, also one that was published
  before it (`remote_mqtt.cpp:289`): a lost intent may go unrepeated. The next
  heartbeat makes the loss visible, which is what `Settles` says.
- Suppression counts from the publication of an intent: a tap that waits behind
  another one is undone on the screen by echoes in between, then redone.
- A participation flip lost while the Controller reboots stays pending on the
  Remote until it reconnects itself (`remote_mqtt.cpp:552`, `:825`).
- EM-heat tapped on a Remote is sent as plain heat (`remote_mqtt.cpp:649`).

A build that ships relays has to settle (e) to (g) first. For (g), `NeverLatched` is a property of `control_bus` only.

## 6. Not modelled, and why

`PROJECT.json` gives each part its reason. In short:

- *Real arithmetic*: fusion weights and smoothing, PID, learners, recovery and
  trend estimates. What they report is a free input of the models that use it,
  unknown and degraded included, which covers any value they may compute.
- *Tables of names*: roster, participation, calibration. A preset is any pair and
  any arrival.
- *Text and bytes*: MQTT discovery and parsing, CT-485 framing and decoding,
  catalogue, logs, display layout. A frame or message that does not parse is a
  lost one.
- *Hardware and vendor libraries*: camera, VPN, provisioning, Matter, the bench
  images.
- *Gates on inputs*: the screen lock with its PIN and backoff, and the furnace
  menu's pages. Taps and probes come at any time in the models.

Of the modelled components: the crossing prediction and recovery advice of the
calls (off by default), defrost tempering and the economic balance point of the
arbiter; edits of the emergency pair, `setMinSetpointDelta` and mode persistence
beside the setpoints; the Remote's other intents (preset, hold, vacation, ack
take the same path), its participation flips, fan commands and broker ladder, a
second Remote (one dedupe entry each); the transport, digest and signature of an
update.

`CallCycle` and `ControlCycle` are not composed into one state space: each
takes what the other gives as a free input, which allows more than the
composition would. Shown of either, a safety property holds of both together.
The one thing `CallCycle` takes for granted of the equipment, how a compressor
starts, runs on and rests, is a theorem of `ControlCycle`
(`CompressorAsAskedHolds`, with the longer of the two minimums).
