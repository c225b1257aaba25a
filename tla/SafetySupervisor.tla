--------------------------- MODULE SafetySupervisor ---------------------------
(***************************************************************************)
(* lib/SafetySupervisor in the control cycle: the boot gate, the bus         *)
(* deadman, the drop line, the alarms it reports, and the pet-gating of the  *)
(* external watchdog, which resets the chip when it is left unpetted.        *)
(*                                                                           *)
(* ct485Task stamps each frame with the second it came in (gLastBusRxS); the *)
(* cycle takes the bus for alive when that second changed since its last     *)
(* look.  Facts that ControlCycle proves or that the glue reports as         *)
(* constants are left out (controlLoopTicking, setpointPresent).             *)
(***************************************************************************)
EXTENDS AlarmRegistry

CONSTANTS
  BusDeadmanS,   \* kBusDeadmanS (30)
  BootGraceS,    \* kBootValidationGraceS (120)
  WdtTimeoutS,   \* the external watchdog's timeout
  MaxGap,        \* bound: seconds from a cycle to the next
  MaxResets      \* bound: watchdog resets of a behaviour's history

ASSUME SupervisorConfig ==
  /\ {BusDeadmanS, BootGraceS, WdtTimeoutS, MaxGap, MaxResets} \subseteq Nat \ {0}
  /\ Codes = {"grace", "deadman", "sensor", "insane", "mqtt", "resetloop", "runtime"}

VARIABLES
  since,            \* seconds since the last cycle
  open, late,       \* bootGate_: open_, graceExceeded_
  uptime,           \* seconds since bootS_, up to BootGraceS
  configOk,         \* gConfigOk, decided once in setup()
  latched,          \* resetLoop_.latched(), decided at boot
  rxAge, seen,      \* gLastBusRxS as an age, and whether the cycle has seen it
  silent, quietFor, \* busSilent_, and the age of busSilentSinceS_
  tripped,          \* deadmanTripped_
  alarms,           \* alarms_ and the glue's own entries
  emitted,          \* the last cycle permitted demand
  hungry,           \* external: seconds the watchdog went unpetted
  present,          \* history: the conditions as of the last cycle
  owed,             \* history: latched faults nobody acknowledged since
  resets            \* history: watchdog resets since the gate last opened

gate    == <<open, late, uptime, configOk>>
bus     == <<rxAge, seen>>
deadman == <<silent, quietFor, tripped>>
history == <<present, owed, resets>>
vars    == <<since, gate, latched, bus, deadman, alarms, emitted, hungry, history>>

MaxAge == BusDeadmanS + 3 * MaxGap           \* where rxAge saturates
CapAt(n, cap) == IF n < cap THEN n ELSE cap

AutoClear == {"grace", "deadman", "sensor", "mqtt"}
Critical  == {"grace", "deadman", "sensor", "insane", "resetloop", "runtime"}

Booted(ok, loop) ==
  /\ open' = FALSE /\ late' = FALSE /\ uptime' = 0
  /\ configOk' = ok /\ latched' = loop
  /\ since' = 0 /\ rxAge' = 1 /\ seen' = TRUE \* never: not in this second
  /\ silent' = FALSE /\ quietFor' = 0 /\ tripped' = FALSE
  /\ alarms' = NoAlarms /\ emitted' = FALSE /\ hungry' = 0
  /\ present' = {} /\ owed' = {}

Init ==
  /\ open = FALSE /\ late = FALSE /\ uptime = 0
  /\ configOk \in BOOLEAN /\ latched \in BOOLEAN
  /\ since = 0 /\ rxAge = 1 /\ seen = TRUE
  /\ silent = FALSE /\ quietFor = 0 /\ tripped = FALSE
  /\ alarms = NoAlarms /\ emitted = FALSE /\ hungry = 0
  /\ present = {} /\ owed = {} /\ resets = 0

-----------------------------------------------------------------------------
(* ct485Task: a decoded frame.  A second one within a second leaves the stamp.*)
Frame ==
  /\ rxAge' = 0 /\ seen' = (seen /\ rxAge = 0)
  /\ UNCHANGED <<since, gate, latched, deadman, alarms, emitted, hungry, history>>

(* nowSeconds() moves on: before, after or between the frames of a cycle. *)
Second ==
  /\ since < MaxGap
  /\ since' = since + 1 /\ rxAge' = CapAt(rxAge + 1, MaxAge)
  /\ UNCHANGED <<gate, latched, seen, deadman, alarms, emitted, hungry, history>>

updateBootGate(sensor) ==
  /\ uptime' = CapAt(uptime + since, BootGraceS)
  /\ open' = (open \/ (sensor /\ configOk))
  /\ late' = (~open' /\ (late \/ uptime' >= BootGraceS))
  /\ UNCHANGED configOk

busAliveSmoothed == rxAge < BusDeadmanS                              \* mutant (#167a)
busAlive == ~seen

updateDeadman ==
  LET quiet == IF silent THEN CapAt(quietFor + since, BusDeadmanS) ELSE 0
  IN /\ seen' = TRUE
     /\ IF busAlive THEN silent' = FALSE /\ quietFor' = 0 /\ tripped' = FALSE
        ELSE /\ silent' = TRUE /\ quietFor' = quiet
             /\ tripped' = (tripped \/ quiet >= BusDeadmanS)

(* The deadman speaks when it trips and when it recovers, the other          *)
(* conditions in every cycle.                                                *)
Conditions(sensor, sane, mqtt, runtime) ==
  (IF late' THEN {"grace"} ELSE {})      \cup (IF tripped' THEN {"deadman"} ELSE {})
  \cup (IF sensor THEN {} ELSE {"sensor"}) \cup (IF sane THEN {} ELSE {"insane"})
  \cup (IF mqtt THEN {} ELSE {"mqtt"})     \cup (IF latched THEN {"resetloop"} ELSE {})
  \cup (IF runtime THEN {"runtime"} ELSE {})

(* Each step maps the one registry of a singleton, so that it is built once. *)
Report(rs, c, cond) == {setCondition(r, c, c \in cond, c \in AutoClear) : r \in rs}

ReportDeadman(rs) ==
  IF ~tripped /\ tripped' THEN {raise(r, "deadman", TRUE) : r \in rs}
  ELSE IF tripped /\ ~tripped' THEN {clearCondition(r, "deadman") : r \in rs}
  ELSE rs

Reported(cond) ==
  Report(Report(Report(Report(Report(
    ReportDeadman(Report({alarms}, "grace", cond)),
    "sensor", cond), "insane", cond), "mqtt", cond), "resetloop", cond), "runtime", cond)

demandDropRequested(sensor, sane) == tripped' \/ ~sensor \/ ~sane
demandPermitted(sensor, sane) ==
  open' /\ ~latched /\ ~demandDropRequested(sensor, sane)

mandatoryAlways(sensor, sane) == sane /\ sensor                      \* mutant

mandatoryOk(sensor, sane) == sane /\ (sensor \/ ~open')

(* Only a demand of the cycle before can be insane. *)
Cycle(sensor, sane, mqtt, runtime) ==
  /\ sane \/ emitted
  /\ updateBootGate(sensor)
  /\ updateDeadman
  /\ LET cond == Conditions(sensor, sane, mqtt, runtime)
     IN /\ alarms' \in Reported(cond)
        /\ present' = cond
        /\ owed' = owed \cup ((cond \ present) \ AutoClear)
  /\ emitted' = demandPermitted(sensor, sane)
  /\ hungry' = IF mandatoryOk(sensor, sane) THEN 0 ELSE CapAt(hungry + since, WdtTimeoutS)
  /\ resets' = IF open' THEN 0 ELSE resets
  /\ since' = 0 /\ UNCHANGED <<latched, rxAge>>

(* cmd/ack_alarms and the panel's button; ack() of one code is the library's. *)
AckAll ==
  /\ alarms' = ackAll(alarms) /\ owed' = {}
  /\ UNCHANGED <<since, gate, latched, bus, deadman, emitted, hungry, present, resets>>

Ack(c) ==
  /\ c \in Listed(alarms)
  /\ alarms' = ack(alarms, c) /\ owed' = owed \ {c}
  /\ UNCHANGED <<since, gate, latched, bus, deadman, emitted, hungry, present, resets>>

(* The external watchdog pulls the reset line: not a reset that counts.      *)
Watchdog ==
  /\ hungry = WdtTimeoutS /\ resets < MaxResets
  /\ Booted(configOk, latched) /\ resets' = resets + 1

(* Any other reset: setup() decides the configuration and the latch anew.    *)
Reset(ok, loop) == Booted(ok, loop) /\ UNCHANGED resets

Next ==
  \/ Frame \/ Second \/ AckAll \/ Watchdog
  \/ \E c \in Codes : Ack(c)
  \/ \E sensor, sane, mqtt, runtime \in BOOLEAN : Cycle(sensor, sane, mqtt, runtime)
  \/ \E ok, loop \in BOOLEAN : Reset(ok, loop)

Spec == Init /\ [][Next]_vars

-----------------------------------------------------------------------------
(* Properties *)

(* Every variable keeps its type; the alarm list stays within its array and  *)
(* names no code twice.                                                      *)
TypeOK ==
  /\ {open, late, configOk, latched, seen, silent, tripped, emitted} \subseteq BOOLEAN
  /\ since \in 0..MaxGap /\ uptime \in 0..BootGraceS /\ rxAge \in 0..MaxAge
  /\ quietFor \in 0..BusDeadmanS /\ hungry \in 0..WdtTimeoutS
  /\ alarms \in Registry
  /\ \A i, j \in DOMAIN alarms.list : alarms.list[i].code = alarms.list[j].code => i = j
  /\ present \subseteq Codes /\ owed \subseteq Codes /\ resets \in 0..MaxResets

(* "Its kBusDeadmanS is the single 30 s threshold" (#167a): a drop never      *)
(* comes before BusDeadmanS seconds without a frame, and never later than the  *)
(* cycle that is two gaps past them, whatever the phase of frames and cycles   *)
(* within their seconds.                                                       *)
DeadmanExact ==
  /\ rxAge >= BusDeadmanS + 2 * MaxGap + since => tripped
  /\ tripped /\ seen => rxAge >= BusDeadmanS

(* "A transient fault is never silently lost": a condition of the persistent  *)
(* kind stays on the list until somebody acknowledges it, or the list says    *)
(* that it overflowed.                                                        *)
FaultsRemembered == owed \subseteq Listed(alarms) \/ alarms.overflowed

(* "Diag never shows a stale alarm while the live state is healthy" (#72),    *)
(* and shows every live one: the active entries are the present conditions.   *)
ListIsCurrent ==
  /\ Listed(alarms) \cap AutoClear \subseteq present
  /\ alarms.overflowed \/ ActiveCodes(alarms) = present

(* The list neither forgets nor invents: a reader of it knows the state.      *)
ListIsHonest == FaultsRemembered /\ ListIsCurrent

(* An acknowledged alarm of a lasting condition stays acknowledged.           *)
AckSticks ==
  [][\A c \in AckedCodes(alarms) \cap present \cap present' :
       c \in AckedCodes(alarms') \/ alarms'.overflowed]_vars

(* Equipment held off although the gate is open, and a gate that stays        *)
(* closed past its grace, are explained by a critical alarm.                  *)
DropIsExplained ==
  \/ alarms.overflowed
  \/ /\ open /\ ~emitted => ActiveCodes(alarms) \cap Critical # {}
     /\ ~open /\ uptime >= BootGraceS => "grace" \in ActiveCodes(alarms)

(* "Otherwise the chip could never survive its own sensor bring-up": a        *)
(* lasting sensor fault costs one watchdog reset, not a chain of them.        *)
SurvivesBringUp == resets <= 1

=============================================================================
