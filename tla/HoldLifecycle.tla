---------------------------- MODULE HoldLifecycle -----------------------------
(***************************************************************************)
(* The user's hold in ModeStateMachine and everything that moves it: the     *)
(* mailbox of MQTT and Remote commands, the panel's intents, its own clock,  *)
(* the "holdb" blob persistOnChange() writes, the resets that lose RAM, the  *)
(* restore in setup() and the correction once NTP has synced.                *)
(*                                                                           *)
(* "now" is nowSeconds(), whose base is saved every ClockSaveS and falls     *)
(* behind at each reboot; "real" is the wall clock, which time(nullptr)      *)
(* shows once synced.  History: told is the command the last step obeyed,    *)
(* "preset" for a preset that arrived, "nothing" for a step of the firmware's *)
(* own; until and keptUntil are the wall-clock end the person was promised,   *)
(* of the hold in RAM and of the one in flash.                                *)
(***************************************************************************)
EXTENDS Clock

CONSTANTS
  HoldShortS,     \* kHoldShortS (7200)
  HoldLongS,      \* kHoldLongS (14400)
  ClockSaveS,     \* kClockSaveS (60)
  MaxDownS,       \* bound: the longest outage
  MaxReal         \* bound: the last instant of a behaviour

ASSUME HoldConfig ==
  /\ HoldShortS \in Nat \ {0} /\ HoldLongS \in Nat \ {0}
  /\ ClockSaveS \in Nat /\ MaxReal \in Nat /\ MaxDownS \in Nat \ {0}

VARIABLES
  up,        \* setup() has run and no reset since
  phase,     \* of the control cycle: "idle", "mailbox", "panel", "update", "persist"
  now,       \* nowSeconds()
  synced,    \* clockIsSynced()
  hold,      \* gModeSm: hold_, holdEndS_ and the pending epoch correction
  shadow,    \* gShadow.hold, .holdEnd and gLastClockSaveS
  nvs,       \* flash: the "holdb" blob, the "clk" base, the old "hold" key
  real, told, until, keptUntil

history == <<real, told, until, keptUntil>>
vars    == <<up, phase, now, synced, hold, shadow, nvs, history>>

Timed == {"two_hours", "four_hours"}
Types == Timed \cup {"none", "until_next_preset", "indefinite"}   \* HoldType

DurationS(t) == IF t = "two_hours" THEN HoldShortS ELSE HoldLongS
Promised(t, start) == IF t \in Timed THEN start + DurationS(t) ELSE NoTime

NoFix  == [epoch |-> NoTime, remain |-> 0]   \* holdEpochFixPending_ is FALSE
NoBlob == [type |-> "none", remain |-> 0, mono |-> 0, epoch |-> NoTime]
Idle   == [type |-> "none", end |-> 0, fix |-> NoFix]

-----------------------------------------------------------------------------
(* ModeStateMachine; startHold("none") is clearHold(). *)
startHold(t, nowS) ==
  [type |-> t, end |-> IF t \in Timed THEN nowS + DurationS(t) ELSE 0, fix |-> NoFix]

Lapsed(h) == [h EXCEPT !.type = "none", !.end = 0]

tickHold(h, nowS) == IF h.type \in Timed /\ nowS >= h.end THEN Lapsed(h) ELSE h

applyPresetOverTimed(h, known, nowS) ==        \* mutant: spares "indefinite" only
  LET k == tickHold(h, nowS)
  IN IF known /\ k.type # "indefinite" THEN Lapsed(k) ELSE k

(* An unknown name only runs the clock. *)
applyPreset(h, known, nowS) ==
  LET k == tickHold(h, nowS)
  IN IF known /\ k.type \notin Timed \cup {"indefinite"} THEN Lapsed(k) ELSE k

holdRemainingS(h, nowS) ==
  IF h.type \in Timed /\ h.end > nowS THEN h.end - nowS ELSE 0

saveHold(h, nowS, epoch) ==
  [type |-> h.type, remain |-> holdRemainingS(h, nowS), mono |-> nowS, epoch |-> epoch]

restoreAfter(blob, nowS, elapsed) ==
  IF blob.type \notin Timed THEN [Idle EXCEPT !.type = blob.type]
  ELSE IF blob.remain <= elapsed THEN Idle
  ELSE [type |-> blob.type, end |-> nowS + (blob.remain - elapsed),
        fix |-> IF blob.epoch = NoTime THEN NoFix
                ELSE [epoch |-> blob.epoch, remain |-> blob.remain]]

restoreHoldUncharged(blob, nowS) ==     \* mutant: no correction left pending
  [restoreAfter(blob, nowS, elapsedS(nowS, blob.mono)) EXCEPT !.fix = NoFix]

restoreHold(blob, nowS) == restoreAfter(blob, nowS, elapsedS(nowS, blob.mono))

applyHoldEpochCorrection(h, epochNow, nowS) ==
  LET spent == h.fix.remain - (epochNow - h.fix.epoch)
      corrected == IF spent > 0 THEN spent ELSE 0
      done == [h EXCEPT !.fix = NoFix]
  IN IF \/ h.fix = NoFix \/ h.type \notin Timed
        \/ epochNow <= h.fix.epoch
        \/ corrected >= holdRemainingS(h, nowS)
     THEN done
     ELSE IF corrected = 0 THEN Lapsed(done)
     ELSE [done EXCEPT !.end = nowS + corrected]

-----------------------------------------------------------------------------
(* The device comes with an empty flash, but for the "hold" key a firmware   *)
(* without blobs may have left.                                              *)
Init ==
  /\ up = FALSE /\ phase = "idle" /\ now = 0 /\ synced = FALSE
  /\ hold = Idle /\ shadow = [type |-> "none", end |-> 0, clockSaved |-> 0]
  /\ nvs \in [holdb : {NoBlob}, clk : {0}, legacy : Types]
  /\ real = 0 /\ told = "nothing" /\ until = NoTime /\ keptUntil = NoTime

(* The promise of a hold that no new decision replaced, and of one a step that *)
(* was told what told' says leaves in force.                                   *)
Carried(h) == IF h.type \in Timed THEN until ELSE NoTime
PromiseNow == IF told' \in Types THEN Promised(told', real) ELSE Carried(hold')

(* setup(): the clock resumes from its saved base; the blob, or the old key  *)
(* when there is nothing to restore, gives the hold; the shadow is synced.   *)
Boot(down, clockKept) ==
  /\ ~up
  /\ real + down <= MaxReal
  /\ up' = TRUE /\ phase' = "idle" /\ synced' = clockKept /\ told' = "nothing"
  /\ real' = real + down /\ now' = nvs.clk + 1
  /\ LET h == restoreHold(nvs.holdb, now')
         migrate == h.type = "none" /\ nvs.legacy # "none"
     IN /\ hold' = IF migrate THEN startHold(nvs.legacy, now') ELSE h
        /\ nvs' = [nvs EXCEPT !.legacy = "none",
                     !.holdb = IF migrate THEN saveHold(hold', now', NoTime) ELSE @]
        /\ until' = IF migrate THEN Promised(nvs.legacy, real') ELSE Carried(h)
        /\ keptUntil' = IF migrate THEN until' ELSE keptUntil
  /\ shadow' = [type |-> hold'.type, end |-> hold'.end, clockSaved |-> 0]

(* A crash, a power cut, an update: RAM is gone, whatever the cycle was at.  *)
Reset ==
  /\ up /\ up' = FALSE /\ phase' = "idle" /\ synced' = FALSE
  /\ hold' = Idle /\ shadow' = [type |-> "none", end |-> 0, clockSaved |-> 0]
  /\ told' = "nothing" /\ until' = keptUntil
  /\ UNCHANGED <<now, nvs, real, keptUntil>>

(* NTP: taken between two cycles. *)
Sync ==
  /\ up /\ phase = "idle" /\ ~synced /\ synced' = TRUE
  /\ UNCHANGED <<up, phase, now, hold, shadow, nvs, history>>

(* The next second and its control cycle.  The one setup() ran in sees none: *)
(* neither the link nor the panel is there yet.                              *)
Tick ==
  /\ up /\ phase = "idle" /\ real < MaxReal
  /\ now' = now + 1 /\ real' = real + 1 /\ phase' = "mailbox" /\ told' = "nothing"
  /\ UNCHANGED <<up, synced, hold, shadow, nvs, until, keptUntil>>

CycleOnly == UNCHANGED <<up, now, synced, shadow, nvs, real, keptUntil>>

(* consumeCommands(): whatever the order in which the commands came, a       *)
(* Remote's setpoints first, then the preset, then the hold.                 *)
Mailbox(manual, preset, cmd) ==
  LET m == IF manual THEN startHold("four_hours", now) ELSE hold
      p == IF preset = "absent" THEN m ELSE applyPreset(m, preset = "known", now)
  IN /\ up /\ phase = "mailbox" /\ phase' = "panel"
     /\ hold' = IF cmd = "absent" THEN p ELSE startHold(cmd, now)
     /\ told' = CASE cmd # "absent" -> cmd
                  [] cmd = "absent" /\ manual -> "four_hours"
                  [] cmd = "absent" /\ ~manual /\ preset = "known" -> "preset"
                  [] OTHER -> "nothing"
     /\ until' = PromiseNow /\ CycleOnly

(* One intent of the panel: the hold chooser, "Resume schedule", changed      *)
(* setpoints (four hours), a preset tap (which clears first).                *)
PanelIntent(t) ==
  /\ up /\ phase = "panel"
  /\ hold' = startHold(t, now) /\ told' = t
  /\ until' = PromiseNow /\ UNCHANGED phase /\ CycleOnly

(* The queue is empty: the one-shot charge for the outage. *)
ChargeOutage ==
  /\ up /\ phase = "panel" /\ phase' = "update"
  /\ hold' = IF synced THEN applyHoldEpochCorrection(hold, real, now) ELSE hold
  /\ told' = "nothing" /\ until' = PromiseNow /\ CycleOnly

(* ModeStateMachine::update(): the hold's own clock, in every mode. *)
Update ==
  /\ up /\ phase = "update" /\ phase' = "persist"
  /\ hold' = tickHold(hold, now)
  /\ told' = "nothing" /\ until' = PromiseNow /\ CycleOnly

HoldTypeChanged(h, s) == h.type # s.type          \* mutant: ends not compared
HoldChanged(h, s) == h.type # s.type \/ h.end # s.end

persistOnChange ==
  LET changed  == HoldChanged(hold, shadow)
      clockDue == now - shadow.clockSaved >= ClockSaveS
      epoch    == IF synced THEN real ELSE NoTime
  IN /\ up /\ phase = "persist" /\ phase' = "idle"
     /\ shadow' = [type |-> hold.type, end |-> hold.end,
                   clockSaved |-> IF clockDue THEN now ELSE shadow.clockSaved]
     /\ nvs' = [nvs EXCEPT !.holdb = IF changed THEN saveHold(hold, now, epoch) ELSE @,
                           !.clk = IF clockDue THEN now ELSE @]
     /\ keptUntil' = IF changed THEN until ELSE keptUntil
     /\ told' = "nothing"
     /\ UNCHANGED <<up, now, synced, hold, real, until>>

Next ==
  \/ \E down \in 1..MaxDownS, clockKept \in BOOLEAN : Boot(down, clockKept)
  \/ Reset \/ Sync \/ Tick
  \/ \E manual \in BOOLEAN, preset \in {"absent", "unknown", "known"},
        cmd \in Types \cup {"absent"} : Mailbox(manual, preset, cmd)
  \/ \E t \in Types : PanelIntent(t)
  \/ ChargeOutage \/ Update \/ persistOnChange

Spec == Init /\ [][Next]_vars

-----------------------------------------------------------------------------
(* Properties *)

(* Every variable keeps its type, and a timed hold never has more left than  *)
(* it was set for, whatever the clock lost across reboots.                   *)
Fix == [epoch : Time, remain : Nat]
TypeOK ==
  /\ {up, synced} \subseteq BOOLEAN
  /\ phase \in {"idle", "mailbox", "panel", "update", "persist"}
  /\ now \in Nat /\ real \in Nat /\ until \in Time /\ keptUntil \in Time
  /\ told \in Types \cup {"preset", "nothing"}
  /\ hold \in [type : Types, end : Nat, fix : Fix]
  /\ hold.type \in Timed => hold.end <= now + DurationS(hold.type)
  /\ shadow \in [type : Types, end : Nat, clockSaved : Nat]
  /\ nvs \in [holdb : [type : Types, remain : Nat, mono : Nat, epoch : Time],
              clk : Nat, legacy : Types]

(* "Conservative toward keeping the user's override" (ModeStateMachine.h):   *)
(* across any resets, outages and clock losses, a hold is the last decision  *)
(* (or the last one saved, after a reset) until the preset it waited for or  *)
(* its promised wall-clock end; a step that obeys no command ends no other.  *)
Hold == INSTANCE UserHold WITH
          wall <- real, alive <- up, old <- nvs.legacy, Delays <- 1..MaxDownS,
          kind <- IF up THEN hold.type ELSE nvs.holdb.type,
          keptKind <- nvs.holdb.type
KeepsHold == Hold!Spec

(* A reset between two cycles loses no decision: what flash holds stands for *)
(* the hold in RAM, or for one whose promised end has passed.                *)
SavedEveryCycle ==
  up /\ phase = "idle" =>
    \/ nvs.holdb.type = hold.type /\ keptUntil = until
    \/ nvs.holdb.type \in Timed /\ hold.type = "none" /\ real >= keptUntil

(* "Once the wall clock syncs, applyHoldEpochCorrection() subtracts the true *)
(* outage": at the end of a cycle with a synced clock a timed hold has its   *)
(* true remainder left, unless it was saved before the clock was known.      *)
ChargedAfterSync ==
  up /\ phase = "persist" /\ synced /\ hold.type \in Timed =>
    \/ hold.end - now = until - real
    \/ nvs.holdb.epoch = NoTime

=============================================================================
