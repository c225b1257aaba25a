---------------------------- MODULE GuardLifecycle ----------------------------
(***************************************************************************)
(* The life of the compressor guard on the device: the control cycle that   *)
(* asks it (GuardGate, compressorSafetyStop), persistOnChange() that writes  *)
(* its blob and the clock to NVS, the resets that lose RAM at any moment,    *)
(* and the part of setup() that rebuilds it, next to the ResetLoopAccountant *)
(* that shares its boot history.                                             *)
(*                                                                           *)
(* Two clocks: "now" is the firmware's nowSeconds(), whose base is only       *)
(* saved every ClockSaveS and so falls behind at each reboot; "real" is the   *)
(* wall clock nobody on the device can read.  The variables after it are     *)
(* history, kept in wall-clock time to state what the compressor sees.       *)
(***************************************************************************)
EXTENDS CompressorGuard

CONSTANTS
  MaxJitterS,     \* esp_random() % 61
  GuardSaveS,     \* kGuardSaveS (300)
  ClockSaveS,     \* kClockSaveS (60)
  ManualWindowS,  \* kManualStartArmWindowS (120)
  MaxDownS,       \* bound: the longest outage
  MaxReal,        \* bound: the last instant of a behaviour
  MidCycleReset,  \* may a reset fall between a decision and its persist?
  BlobLoss        \* may new firmware change the layout of the guard blob?

ASSUME LifecycleConfig ==
  /\ {MaxJitterS, GuardSaveS, ClockSaveS, ManualWindowS, MaxReal} \subseteq Nat
  /\ MaxDownS \in Nat \ {0}
  /\ {MidCycleReset, BlobLoss} \subseteq BOOLEAN
  /\ MaxBootHistory >= ResetLoopCount

VARIABLES
  up,          \* setup() has run and no reset since
  reason,      \* of the reset that took it down: "power", "abnormal", "software"
  phase,       \* the control cycle: "idle", or "persist" once a decision is made
  now,         \* nowSeconds()
  guard,       \* gGuard
  armedAt,     \* GuardGate's one-shot: manualArmS_, NoTime when not armed
  shadow,      \* gShadow.guardRunning and the two gLast...SaveS
  rl,          \* gSup->resetLoop(): [latched, times]
  nvs,         \* flash: the "cg" blob, the "clk" base, the "rl" blob
  real, offAt, starts, askedAt,   \* history: see AntiShortCycle
  heldUntil,   \* history: the end of the hold-off an unknown state calls for
  crashes      \* history: when the abnormal boots since the last clear happened

ram     == <<up, reason, phase, now, guard, armedAt, shadow, rl>>
history == <<real, offAt, starts, askedAt, heldUntil, crashes>>
vars    == <<ram, nvs, history>>

Resets == [latched : BOOLEAN, times : History(MaxBootHistory)]
NoResets == [latched |-> FALSE, times |-> <<>>]
NewShadow == [running |-> FALSE, guardSaved |-> 0, clockSaved |-> 0]

(* Fresh out of the box: no power yet, nothing in flash. *)
Init ==
  /\ up = FALSE /\ reason = "power" /\ phase = "idle" /\ now = 0
  /\ guard = NewGuard /\ armedAt = NoTime /\ shadow = NewShadow
  /\ rl = NoResets
  /\ nvs = [cg |-> NoBlob, clk |-> 0, rl |-> NoResets]
  /\ real = 0 /\ offAt = NoTime /\ starts = <<>> /\ askedAt = NoTime
  /\ heldUntil = 0 /\ crashes = <<>>

-----------------------------------------------------------------------------
(* ResetLoopAccountant *)
countBootStrict(r, t, abnormalReset) ==          \* mutant: "<" for "<=" on age
  IF ~abnormalReset THEN r
  ELSE LET times == Push(r.times, t, MaxBootHistory)
       IN [times |-> times,
           latched |-> \/ r.latched
                       \/ Recent(times, t, ResetLoopWindowS) >= ResetLoopCount]

countBoot(r, t, abnormalReset) ==
  IF ~abnormalReset THEN r
  ELSE LET times == Push(r.times, t, MaxBootHistory)
       IN [times |-> times,
           latched |-> \/ r.latched
                       \/ Recent(times, t, ResetLoopWindowS + 1) >= ResetLoopCount]

(* setup(): the clock resumes from its saved base, the reset is counted and  *)
(* saved, the guard is rebuilt from its blob; the blob itself is not saved.  *)
Boot(down, jitter) ==
  /\ ~up
  /\ real + down <= MaxReal
  /\ LET t == nvs.clk + 1
         abnormal == reason = "abnormal"
     IN /\ now' = t
        /\ guard' = bootRestore(nvs.cg, t, abnormal, jitter)
        /\ rl' = countBoot(nvs.rl, t, abnormal)
        /\ nvs' = [nvs EXCEPT !.rl = rl']
  /\ up' = TRUE /\ phase' = "idle" /\ armedAt' = NoTime /\ shadow' = NewShadow
  /\ real' = real + down
  /\ starts' = IF nvs.cg = NoBlob THEN <<>> ELSE starts
  /\ heldUntil' = IF nvs.cg = NoBlob THEN real' + BootHoldoffS ELSE heldUntil
  /\ askedAt' = NoTime
  /\ crashes' = IF reason = "abnormal" THEN Push(crashes, real', ResetLoopCount)
                                      ELSE crashes
  /\ UNCHANGED <<reason, offAt>>

(* RAM is gone and the demand refresh with it: the compressor stops here.    *)
GoDown(why) ==
  /\ up
  /\ MidCycleReset \/ phase = "idle"
  /\ up' = FALSE /\ reason' = why
  /\ guard' = NewGuard /\ armedAt' = NoTime /\ phase' = "idle" /\ rl' = NoResets
  /\ shadow' = NewShadow
  /\ offAt' = IF guard.running THEN real ELSE offAt
  /\ UNCHANGED <<now, real, starts, askedAt, heldUntil>>

(* A panic, a watchdog or a brownout (counted), or a plain power cut. *)
Reset(why) ==
  /\ GoDown(why)
  /\ UNCHANGED <<nvs, crashes>>

(* uiClearReducedMode(): the wall panel's "Restore full screen". *)
uiClearReducedMode ==
  /\ GoDown("software")
  /\ nvs' = [nvs EXCEPT !.rl = NoResets]
  /\ crashes' = <<>>

(* New firmware: setup() drops the reset history; a new blob layout makes    *)
(* the guard's old blob unreadable.                                          *)
NewFirmware(newLayout) ==
  /\ newLayout => BlobLoss
  /\ GoDown("software")
  /\ nvs' = [nvs EXCEPT !.rl = NoResets,
                        !.cg = IF newLayout THEN NoBlob ELSE @]
  /\ crashes' = <<>>

-----------------------------------------------------------------------------
(* One control cycle: at most one decision, then persistOnChange().          *)
ControlOnly == UNCHANGED <<up, reason, now, shadow, rl, nvs, real,
                          heldUntil, crashes>>

Idle == up /\ phase = "idle"

(* cmd/setpoint, cmd/mode, cmd/preset or their panel twins: armManual(). *)
UserAction ==
  /\ Idle
  /\ armedAt' = now /\ askedAt' = real
  /\ UNCHANGED <<phase, guard, offAt, starts>> /\ ControlOnly

(* GuardGate::canStart(), reached only while the supervisor permits demand.  *)
canStart ==
  LET manual == armedAt # NoTime /\ now - armedAt <= ManualWindowS
  IN /\ Idle /\ ~rl.latched
     /\ StartAllowed(guard, now, manual)
     /\ guard' = Started(guard, now)
     /\ armedAt' = IF manual THEN NoTime ELSE armedAt
     /\ askedAt' = IF manual THEN NoTime ELSE askedAt
     /\ starts' = IF guard.running THEN starts ELSE Append(starts, real)
     /\ phase' = "persist"
     /\ UNCHANGED offAt /\ ControlOnly

(* GuardGate::canStop() with safety FALSE, compressorSafetyStop() with TRUE. *)
Halt(safety) ==
  /\ Idle /\ guard.running
  /\ StopAllowed(guard, now, safety)
  /\ guard' = Stopped(guard, now)
  /\ offAt' = real
  /\ phase' = "persist"
  /\ UNCHANGED <<armedAt, askedAt, starts>> /\ ControlOnly

(* A cycle that decides nothing still ends in persistOnChange(). *)
NoDecision ==
  /\ Idle /\ phase' = "persist"
  /\ UNCHANGED <<guard, armedAt, askedAt, offAt, starts>> /\ ControlOnly

persistOnChange ==
  LET guardDue == guard.running # shadow.running \/ now - shadow.guardSaved >= GuardSaveS
      clockDue == now - shadow.clockSaved >= ClockSaveS
  IN /\ up /\ phase = "persist" /\ phase' = "idle"
     /\ shadow' = [running |-> IF guardDue THEN guard.running ELSE shadow.running,
                   guardSaved |-> IF guardDue THEN now ELSE shadow.guardSaved,
                   clockSaved |-> IF clockDue THEN now ELSE shadow.clockSaved]
     /\ nvs' = [nvs EXCEPT !.cg = IF guardDue THEN save(guard) ELSE @,
                           !.clk = IF clockDue THEN now ELSE @]
     /\ UNCHANGED <<up, reason, now, guard, armedAt, rl, history>>

Tick ==
  /\ Idle /\ real < MaxReal
  /\ now' = now + 1 /\ real' = real + 1
  /\ UNCHANGED <<up, reason, phase, guard, armedAt, shadow, rl, nvs,
                 offAt, starts, askedAt, heldUntil, crashes>>

Next ==
  \/ \E down \in 1..MaxDownS, jitter \in 0..MaxJitterS : Boot(down, jitter)
  \/ \E why \in {"power", "abnormal"} : Reset(why)
  \/ uiClearReducedMode
  \/ \E newLayout \in BOOLEAN : NewFirmware(newLayout)
  \/ UserAction \/ canStart \/ NoDecision \/ persistOnChange \/ Tick
  \/ \E safety \in BOOLEAN : Halt(safety)

Spec == Init /\ [][Next]_vars

-----------------------------------------------------------------------------
(* Properties *)

(* Every variable keeps its type, and the guard's two histories stay inside  *)
(* their arrays, whatever is lost and restored.                              *)
TypeOK ==
  /\ up \in BOOLEAN /\ reason \in {"power", "abnormal", "software"}
  /\ phase \in {"idle", "persist"}
  /\ now \in Nat /\ guard \in Guard /\ armedAt \in Time
  /\ shadow \in [running : BOOLEAN, guardSaved : Nat, clockSaved : Nat]
  /\ rl \in Resets
  /\ nvs \in [cg : Blob \cup {NoBlob}, clk : Nat, rl : Resets]
  /\ real \in Nat /\ offAt \in Time /\ starts \in Seq(Nat)
  /\ askedAt \in Time /\ heldUntil \in Nat
  /\ crashes \in Seq(Nat)

(* "A reboot cannot erase a pending min-off" (CompressorGuard.h): with its   *)
(* lagging clock and its occasional saves the device keeps the wall-clock    *)
(* promise of AntiShortCycle.                                                *)
Promise == INSTANCE AntiShortCycle WITH
             on <- guard.running, Delays <- 0..MaxReal
KeepsPromise == Promise!Spec

(* The same promise, the min-off part alone: an automatic start comes        *)
(* MinOffS after the compressor last stopped, by the wall clock, across any   *)
(* sequence of resets; only a fresh user action licenses an earlier one.     *)
RestsBetweenRuns ==
  [][~guard.running /\ guard'.running =>
       \/ offAt = NoTime \/ real - offAt >= MinOffS
       \/ askedAt # NoTime /\ real - askedAt <= ManualWindowS]_vars

(* "A missing/corrupt blob = unknown state = full boot hold-off": nothing    *)
(* starts before the hold-off of a boot that found no blob has run out.      *)
UnknownStateHeldOff ==
  [][~guard.running /\ guard'.running => real >= heldUntil]_vars

(* A latched reset loop, the guard's own or the system's, means no run.      *)
LatchedMeansOff == guard.lockedOut \/ rl.latched => ~guard.running

(* ResetLoopCount abnormal boots inside the window, by the wall clock, latch *)
(* the system whatever the saved clock lost between them (docs/04 2).        *)
ResetLoopLatches ==
  /\ up
  /\ Len(crashes) = ResetLoopCount
  /\ crashes[ResetLoopCount] - crashes[1] <= ResetLoopWindowS
  => rl.latched

(* Both: a reset loop stops the compressor and nothing but a clear or an     *)
(* update frees it.  (ResetLoopAccountant, CompressorGuard's lockout.)       *)
ResetLoopStops == ResetLoopLatches /\ LatchedMeansOff

(* The waitS of a denied start is exact: nothing is allowed earlier, and     *)
(* when no stamp lies in the future (a clock that fell behind) the start is  *)
(* allowed then.                                                             *)
WaitIsExact ==
  up /\ ~guard.running /\ ~guard.lockedOut =>
    \A manual \in BOOLEAN :
      LET w == waitS(guard, now, manual)
          stamps == {guard.lastStop} \cup {guard.startTimes[i] :
                                            i \in DOMAIN guard.startTimes}
      IN /\ w > 0 => ~StartAllowed(guard, now + w - 1, manual)
         /\ (\A t \in stamps : t <= now) => StartAllowed(guard, now + w, manual)

=============================================================================
