-------------------------- MODULE HoldLifecycleProofs --------------------------
(***************************************************************************)
(* Theorems about HoldLifecycle, for every value of its constants.           *)
(***************************************************************************)
EXTENDS HoldLifecycle, TLAPS

IsTimed == up /\ hold.type \in Timed
Changed == HoldChanged(hold, shadow)
Exact   == hold.end - now = until - real

(* The saved clock never runs ahead of the clock. *)
ClockStands == nvs.clk <= now

(* A timed blob covers the promise made when it was written, measured from   *)
(* now, by the device's clock (which only falls behind), and by its stamp.   *)
BlobStands ==
  LET b == nvs.holdb
  IN /\ b.type \in Timed =>
          /\ keptUntil \in Nat
          /\ keptUntil <= real + b.remain
          /\ keptUntil <= b.mono + b.remain + (real - now)
          /\ b.remain <= DurationS(b.type)
          /\ b.epoch # NoTime => b.epoch <= real /\ keptUntil = b.epoch + b.remain
     /\ b.type \notin Timed => keptUntil = NoTime

(* A hold in RAM never runs out before its promise. *)
HoldStands ==
  up => /\ hold.type \in Timed => until \in Nat /\ until - real <= hold.end - now
        /\ hold.type \notin Timed => until = NoTime

(* The shadow is what flash stands for; within a cycle no new decision can   *)
(* be mistaken for it.                                                       *)
ShadowStands ==
  up => /\ \/ nvs.holdb.type = shadow.type
           \/ shadow.type = "none" /\ nvs.holdb.type \in Timed /\ real >= keptUntil
        /\ shadow.type \in Timed =>
             /\ shadow.end <= now + DurationS(shadow.type)
             /\ phase # "idle" => shadow.end < now + DurationS(shadow.type)
        /\ phase = "idle" => ~Changed

(* A hold the cycle has not touched is the one in flash; only such a hold    *)
(* waits for its correction; and short of that, of a blob without a stamp    *)
(* and of a hold about to lapse, what is left is exact.                            *)
SameHold ==
  IsTimed => /\ ~Changed => until = keptUntil
             /\ hold.fix # NoFix =>
                  /\ hold.fix.epoch # NoTime /\ hold.fix.epoch < real
                  /\ ~Changed
                  /\ hold.fix = [epoch |-> nvs.holdb.epoch, remain |-> nvs.holdb.remain]
             /\ \/ Exact
                \/ ~Changed /\ (nvs.holdb.epoch = NoTime \/ hold.fix # NoFix)
                \/ phase = "update" /\ hold.end <= now
             /\ phase = "persist" => hold.end > now

DownStands == ~up => until = keptUntil /\ phase = "idle"
Charged == phase \in {"update", "persist"} /\ synced => hold.fix = NoFix

IInv ==
  /\ TypeOK /\ ClockStands /\ BlobStands /\ HoldStands /\ ShadowStands
  /\ SameHold /\ DownStands /\ Charged

-----------------------------------------------------------------------------
(* What a step of the control cycle may make of the hold. *)
Unasked == told' \in {"nothing", "preset"}
Same    == /\ hold' = hold /\ until' = until /\ Unasked
           /\ hold.type = "until_next_preset" => told' = "nothing"
Fresh   == \E t \in Types : /\ told' = t /\ hold' = startHold(t, now)
                            /\ until' = Promised(t, real)
Over    == /\ hold'.type = "none" /\ hold'.end = 0 /\ until' = NoTime /\ Unasked
           /\ \/ hold.type = "none"
              \/ hold.type = "until_next_preset" /\ told' = "preset"
              \/ hold.type \in Timed /\ real >= until
Settled == /\ hold' = [hold EXCEPT !.fix = NoFix] /\ until' = until
           /\ phase' = "update" /\ told' = "nothing"
           /\ hold.type \in Timed => hold.fix = NoFix \/ Exact \/ hold.end <= now
Shorter == /\ hold.type \in Timed /\ hold.fix # NoFix /\ ~Changed
           /\ hold' = [hold EXCEPT !.fix = NoFix, !.end = now + (until - real)]
           /\ until' = until /\ hold'.end < hold.end /\ until > real
           /\ told' = "nothing"

Outcome == Same \/ Fresh \/ Over \/ Settled \/ Shorter

HoldRecord == [type : Types, end : Nat, fix : Fix]

LEMMA Constants ==
  /\ HoldShortS \in Nat \ {0} /\ HoldLongS \in Nat \ {0} /\ ClockSaveS \in Nat
  /\ MaxDownS \in Nat \ {0} /\ MaxReal \in Nat
  /\ \A t : DurationS(t) \in Nat \ {0}
  BY HoldConfig DEF DurationS

LEMMA StartHoldType ==
  ASSUME NEW t \in Types, NEW nowS \in Nat
  PROVE  /\ startHold(t, nowS) \in HoldRecord
         /\ startHold(t, nowS).type = t /\ startHold(t, nowS).fix = NoFix
         /\ t \in Timed => startHold(t, nowS).end = nowS + DurationS(t)
         /\ t \notin Timed => startHold(t, nowS).end = 0
  BY Constants DEF startHold, HoldRecord, NoFix, Fix, Time

(* What follows of the command a step obeyed. *)
LEMMA PromiseOf ==
  /\ \A t \in Types : told' = t => PromiseNow = Promised(t, real)
  /\ Unasked => PromiseNow = Carried(hold')
  BY DEF PromiseNow, Unasked, Types, Timed

(* An unknown preset is the hold's own clock. *)
LEMMA TickIsPreset == tickHold(hold, now) = applyPreset(hold, FALSE, now)
  BY DEF applyPreset

(* A preset, or the hold's own clock, leaves the hold alone or ends it when  *)
(* it may.                                                                   *)
LEMMA PresetOutcome ==
  ASSUME IInv, up, NEW known \in BOOLEAN, NEW k, k = applyPreset(hold, known, now)
  PROVE  /\ k \in HoldRecord
         /\ \/ k = hold
            \/ /\ k = Lapsed(hold)
               /\ \/ hold.type = "none"
                  \/ hold.type = "until_next_preset" /\ known
                  \/ hold.type \in Timed /\ now >= hold.end
         /\ k = hold /\ known => hold.type # "until_next_preset"
         /\ k.type \in Timed => k.end > now
<1>1. hold \in HoldRecord /\ now \in Nat /\ real \in Nat
  BY DEF IInv, TypeOK, HoldRecord
<1>2. Lapsed(hold) \in HoldRecord /\ Lapsed(hold).type = "none"
  BY <1>1 DEF Lapsed, HoldRecord, Types
<1>3. Lapsed(Lapsed(hold)) = Lapsed(hold)
  BY <1>1 DEF Lapsed, HoldRecord
<1>. DEFINE ticked == tickHold(hold, now)
<1>4. /\ ticked = hold \/ (ticked = Lapsed(hold) /\ hold.type \in Timed /\ now >= hold.end)
      /\ ticked.type \in Timed => ticked.end > now
  BY <1>1, <1>2 DEF tickHold, HoldRecord, Timed
<1>5. IF known /\ ticked.type \notin Timed \cup {"indefinite"}
      THEN k = Lapsed(ticked) ELSE k = ticked
  BY DEF applyPreset
<1>. HIDE DEF ticked
<1>6. CASE k = ticked
  <2>1. k = hold /\ known => hold.type # "until_next_preset"
    BY <1>5, <1>6, <1>2 DEF Timed
  <2>. QED BY <1>1, <1>2, <1>4, <1>6, <2>1
<1>7. CASE known /\ ticked.type \notin Timed \cup {"indefinite"} /\ k = Lapsed(ticked)
  <2>1. k = Lapsed(hold) /\ k.type = "none"
    BY <1>2, <1>3, <1>4, <1>7
  <2>2. ticked = hold => hold.type \in {"none", "until_next_preset"}
    BY <1>1, <1>7 DEF HoldRecord, Types
  <2>. QED BY <1>2, <1>4, <1>7, <2>1, <2>2 DEF Timed
<1>. QED BY <1>5, <1>6, <1>7

LEMMA CarriedOutcome ==
  ASSUME IInv, up, until' = PromiseNow, NEW known \in BOOLEAN,
         told' = IF known THEN "preset" ELSE "nothing",
         hold' = applyPreset(hold, known, now) \/ (hold' = hold /\ ~known)
  PROVE  hold' \in HoldRecord /\ (Same \/ Over)
<1>1. /\ hold \in HoldRecord /\ now \in Nat /\ real \in Nat /\ hold.end \in Nat
  BY DEF IInv, TypeOK, HoldRecord
<1>2. Unasked /\ until' = Carried(hold')
  BY PromiseOf DEF Unasked
<1>3. CASE hold' = hold
  <2>1. until' = until BY <1>2, <1>3 DEF Carried, IInv, HoldStands
  <2>2. hold.type = "until_next_preset" => ~known BY <1>3, PresetOutcome
  <2>. QED BY <1>1, <1>2, <1>3, <2>1, <2>2 DEF Same
<1>4. CASE hold' # hold
  <2>1. /\ hold' \in HoldRecord /\ hold' = Lapsed(hold)
        /\ \/ hold.type = "none"
           \/ hold.type = "until_next_preset" /\ known
           \/ hold.type \in Timed /\ now >= hold.end
    BY <1>4, PresetOutcome
  <2>2. hold'.type = "none" /\ hold'.end = 0
    BY <2>1, <1>1 DEF Lapsed, HoldRecord
  <2>3. until' = NoTime BY <1>2, <2>2 DEF Carried, Timed
  <2>4. hold.type \in Timed /\ now >= hold.end => real >= until
    BY <1>1 DEF IInv, HoldStands
  <2>. QED BY <1>2, <2>1, <2>2, <2>3, <2>4 DEF Over
<1>. QED BY <1>3, <1>4

(* The correction: nothing, the true remainder, or the end that has passed.  *)
LEMMA ChargeOutcome ==
  ASSUME IInv, up, NEW k, k = applyHoldEpochCorrection(hold, real, now)
  PROVE  /\ k \in HoldRecord /\ k.fix = NoFix
         /\ \/ /\ k = [hold EXCEPT !.fix = NoFix]
               /\ hold.type \in Timed => hold.fix = NoFix \/ Exact \/ hold.end <= now
            \/ /\ hold.type \in Timed /\ hold.fix # NoFix /\ ~Changed
               /\ \/ /\ k = [hold EXCEPT !.fix = NoFix, !.end = now + (until - real)]
                     /\ k.end < hold.end /\ until > real
                  \/ k = Lapsed([hold EXCEPT !.fix = NoFix]) /\ real >= until
<1> DEFINE done  == [hold EXCEPT !.fix = NoFix]
           spent == hold.fix.remain - (real - hold.fix.epoch)
           corrected == IF spent > 0 THEN spent ELSE 0
           left == holdRemainingS(hold, now)
<1>1. /\ hold \in HoldRecord /\ now \in Nat /\ real \in Nat /\ until \in Time
      /\ hold.fix \in Fix /\ NoFix \in Fix
  BY DEF IInv, TypeOK, HoldRecord, NoFix, Fix, Time
<1>2. done \in HoldRecord /\ done.fix = NoFix /\ done.type = hold.type
  BY <1>1 DEF HoldRecord
<1>3. /\ Lapsed(done) \in HoldRecord /\ Lapsed(done).fix = NoFix
  BY <1>1, <1>2 DEF HoldRecord, Lapsed, Types
<1>4. CASE hold.type \notin Timed \/ hold.fix = NoFix
  <2>1. k = done BY <1>4 DEF applyHoldEpochCorrection
  <2>2. QED BY <2>1, <1>2, <1>4
<1>5. CASE hold.type \in Timed /\ hold.fix # NoFix
  <2>1. /\ ~Changed /\ until = keptUntil /\ nvs.holdb.type = hold.type
        /\ hold.fix = [epoch |-> nvs.holdb.epoch, remain |-> nvs.holdb.remain]
    <3>1. ~Changed /\ until = keptUntil
          /\ hold.fix = [epoch |-> nvs.holdb.epoch, remain |-> nvs.holdb.remain]
      BY <1>5 DEF IInv, SameHold, IsTimed
    <3>2. shadow.type = hold.type BY <3>1 DEF Changed, HoldChanged
    <3>3. QED BY <1>5, <3>1, <3>2 DEF IInv, ShadowStands, Timed
  <2>2. /\ until \in Nat /\ until - real <= hold.end - now
    BY <1>5 DEF IInv, HoldStands
  <2>3. hold.fix.epoch # NoTime /\ hold.fix.epoch \in Nat /\ hold.fix.remain \in Nat
    <3>1. hold.fix.epoch # NoTime BY <1>5 DEF IInv, SameHold, IsTimed
    <3>2. hold.fix.epoch \in Time /\ hold.fix.remain \in Nat BY <1>1 DEF Fix
    <3>3. QED BY <3>1, <3>2 DEF Time
  <2>4. until = hold.fix.epoch + hold.fix.remain
    BY <2>1, <2>3, <1>5 DEF IInv, BlobStands
  <2>5. spent = until - real BY <1>1, <2>2, <2>3, <2>4
  <2>6. hold.end \in Nat /\ until - real \in Int BY <1>1, <2>2 DEF HoldRecord
  <2>7. holdRemainingS(hold, now) = IF hold.end > now THEN hold.end - now ELSE 0
    BY <1>5 DEF holdRemainingS
  <2>8. CASE \/ real <= hold.fix.epoch
             \/ corrected >= left
    <3>1. k = done BY <2>8 DEF applyHoldEpochCorrection
    <3>2. CASE hold.end <= now BY <3>1, <3>2, <1>2
    <3>3. CASE hold.end > now
      <4>1. holdRemainingS(hold, now) = hold.end - now BY <3>3, <2>7
      <4>2. CASE real <= hold.fix.epoch
        <5>1. hold.fix.epoch < real BY <1>5 DEF IInv, SameHold, IsTimed
        <5>2. QED BY <5>1, <4>2, <2>3, <1>1
      <4>3. CASE corrected >= hold.end - now
        <5>1. until - real >= hold.end - now
          BY <4>3, <3>3, <2>5, <2>6, <1>1
        <5>2. Exact BY <5>1, <2>2, <2>6, <1>1 DEF Exact, HoldRecord
        <5>3. QED BY <5>2, <3>1, <1>2
      <4>4. QED BY <2>8, <4>1, <4>2, <4>3
    <3>4. QED BY <3>2, <3>3, <1>1, <2>6
  <2>9. CASE /\ real > hold.fix.epoch
             /\ corrected < left
    <3>1. /\ hold.fix # NoFix /\ hold.type \in Timed
          /\ ~(real <= hold.fix.epoch) /\ ~(corrected >= left)
      BY <2>9, <2>3, <2>5, <2>6, <2>7, <1>1, <1>5
    <3>2. k = IF corrected = 0 THEN Lapsed(done) ELSE [done EXCEPT !.end = now + corrected]
      BY <3>1 DEF applyHoldEpochCorrection
    <3>3. CASE spent > 0
      <4>1. k = [done EXCEPT !.end = now + spent]
        <5>1. corrected = spent /\ corrected # 0 BY <3>3, <2>5, <2>6
        <5>2. QED BY <5>1, <3>2
      <4>2. k = [hold EXCEPT !.fix = NoFix, !.end = now + (until - real)]
        BY <4>1, <2>5
      <4>3. now + (until - real) \in Nat /\ now + (until - real) < hold.end
        BY <2>9, <3>3, <2>5, <2>6, <2>7, <1>1
      <4>4. k \in HoldRecord /\ k.fix = NoFix /\ k.end < hold.end
        BY <4>2, <4>3, <1>1 DEF HoldRecord
      <4>5. until > real BY <3>3, <2>5, <2>2, <1>1
      <4>6. QED BY <4>2, <4>4, <4>5, <1>5, <2>1
    <3>4. CASE ~(spent > 0)
      <4>1. k = Lapsed(done)
        BY <3>4, <3>2
      <4>2. real >= until BY <3>4, <2>5, <2>2, <1>1
      <4>3. QED BY <4>1, <4>2, <1>3, <1>5, <2>1
    <3>5. QED BY <3>3, <3>4
  <2>10. QED BY <2>8, <2>9, <1>1, <2>3, <2>5, <2>6, <2>7
<1>6. QED BY <1>4, <1>5

LEMMA MailboxOutcome ==
  ASSUME IInv, NEW manual \in BOOLEAN, NEW preset \in {"absent", "unknown", "known"},
         NEW cmd \in Types \cup {"absent"}, Mailbox(manual, preset, cmd)
  PROVE  hold' \in HoldRecord /\ (Same \/ Fresh \/ Over)
<1> DEFINE four == startHold("four_hours", now)
           m == IF manual THEN four ELSE hold
           p == IF preset = "absent" THEN m ELSE applyPreset(m, preset = "known", now)
<1>1. /\ hold \in HoldRecord /\ now \in Nat /\ real \in Nat /\ up
      /\ "four_hours" \in Types \cap Timed
  BY DEF IInv, TypeOK, HoldRecord, Mailbox, Types, Timed
<1>2. CASE cmd # "absent"
  <2>1. cmd \in Types BY <1>2
  <2>2. hold' = startHold(cmd, now) /\ told' = cmd /\ until' = Promised(cmd, real)
    BY <1>2, <2>1, PromiseOf DEF Mailbox
  <2>3. QED BY <2>1, <2>2, <1>1, StartHoldType DEF Fresh
<1>3. CASE cmd = "absent" /\ manual
  <2>1. four \in HoldRecord /\ four.type = "four_hours" /\ four.end > now
    BY <1>1, StartHoldType, Constants
  <2>2. tickHold(four, now) = four
    <3>1. four.end \in Nat BY <2>1 DEF HoldRecord
    <3>2. ~(now >= four.end) BY <2>1, <3>1, <1>1
    <3>3. QED BY <3>2 DEF tickHold
  <2>3. p = four BY <1>3, <2>1, <2>2 DEF applyPreset, Timed
  <2>4. hold' = four /\ told' = "four_hours" /\ until' = Promised("four_hours", real)
    BY <1>1, <1>3, <2>3, PromiseOf DEF Mailbox
  <2>5. QED BY <2>1, <2>4, <1>1 DEF Fresh
<1>4. CASE cmd = "absent" /\ ~manual
  <2>1. /\ hold' = p /\ until' = PromiseNow
        /\ told' = IF preset = "known" THEN "preset" ELSE "nothing"
    BY <1>4 DEF Mailbox
  <2>2. IF preset = "absent" THEN p = hold ELSE p = applyPreset(hold, preset = "known", now)
    BY <1>4
  <2>3. QED BY <2>1, <2>2, <1>1, CarriedOutcome
<1>5. QED BY <1>2, <1>3, <1>4

LEMMA PanelOutcome ==
  ASSUME IInv, NEW t \in Types, PanelIntent(t)
  PROVE  hold' \in HoldRecord /\ Fresh
<1>1. now \in Nat BY DEF IInv, TypeOK
<1>2. until' = Promised(t, real) BY PromiseOf DEF PanelIntent
<1>3. QED BY <1>1, <1>2, StartHoldType DEF PanelIntent, Fresh

LEMMA ChargeStepOutcome ==
  ASSUME IInv, ChargeOutage
  PROVE  /\ hold' \in HoldRecord /\ (Same \/ Over \/ Settled \/ Shorter)
         /\ synced => hold'.fix = NoFix
<1>1. /\ hold \in HoldRecord /\ up /\ phase' = "update" /\ told' = "nothing"
      /\ until' = PromiseNow /\ until' = Carried(hold') /\ Unasked
  BY PromiseOf DEF IInv, TypeOK, HoldRecord, ChargeOutage, Unasked
<1>2. CASE ~synced
  BY <1>1, <1>2, CarriedOutcome DEF ChargeOutage
<1>3. CASE synced
  <2>1. hold' = applyHoldEpochCorrection(hold, real, now) BY <1>3 DEF ChargeOutage
  <2>2. hold' \in HoldRecord /\ hold'.fix = NoFix BY <1>1, <2>1, ChargeOutcome
  <2>3. CASE /\ hold' = [hold EXCEPT !.fix = NoFix]
             /\ hold.type \in Timed => hold.fix = NoFix \/ Exact \/ hold.end <= now
    <3>1. hold'.type = hold.type BY <2>3, <1>1 DEF HoldRecord
    <3>2. until' = until BY <3>1, <1>1 DEF Carried, IInv, HoldStands
    <3>3. QED BY <2>2, <2>3, <3>2, <1>1 DEF Settled
  <2>4. CASE /\ hold.type \in Timed /\ hold.fix # NoFix /\ ~Changed
             /\ hold' = [hold EXCEPT !.fix = NoFix, !.end = now + (until - real)]
             /\ hold'.end < hold.end /\ until > real
    <3>1. hold'.type = hold.type BY <2>4, <1>1 DEF HoldRecord
    <3>2. until' = until BY <3>1, <2>4, <1>1 DEF Carried
    <3>3. QED BY <1>1, <2>2, <2>4, <3>2 DEF Shorter
  <2>5. CASE /\ hold.type \in Timed /\ real >= until
             /\ hold' = Lapsed([hold EXCEPT !.fix = NoFix])
    <3>1. hold'.type = "none" /\ hold'.end = 0
      BY <2>5, <1>1 DEF HoldRecord, Lapsed
    <3>2. until' = NoTime BY <3>1, <1>1 DEF Carried, Timed
    <3>3. QED BY <1>1, <2>2, <2>5, <3>1, <3>2 DEF Over
  <2>6. QED BY <1>1, <2>1, <2>3, <2>4, <2>5, ChargeOutcome
<1>4. QED BY <1>2, <1>3

LEMMA UpdateOutcome ==
  ASSUME IInv, Update
  PROVE  /\ hold' \in HoldRecord /\ (Same \/ Over)
         /\ hold'.type \in Timed => hold'.end > now
         /\ hold'.fix = hold.fix
<1>1. /\ hold \in HoldRecord /\ up /\ until' = PromiseNow /\ now \in Nat
      /\ told' = "nothing" /\ hold' = tickHold(hold, now)
      /\ hold' = applyPreset(hold, FALSE, now)
  BY TickIsPreset DEF IInv, TypeOK, HoldRecord, Update
<1>2. hold'.fix = hold.fix BY <1>1 DEF tickHold, Lapsed, HoldRecord
<1>3. QED BY <1>1, <1>2, CarriedOutcome, PresetOutcome

-----------------------------------------------------------------------------
(* Whatever a cycle makes of the hold, it keeps the invariant.               *)
LEMMA CycleStep ==
  ASSUME IInv, up, CycleOnly, hold' \in HoldRecord, Outcome,
         phase \in {"mailbox", "panel", "update"},
         phase' \in {"panel", "update", "persist"},
         phase' # "panel" /\ synced => hold'.fix = NoFix,
         phase' = "persist" => phase = "update",
         phase = "update" => (hold'.type \in Timed => hold'.end > now)
  PROVE  IInv'
<1>1. /\ hold \in HoldRecord /\ now \in Nat /\ real \in Nat
      /\ hold.end \in Nat /\ hold'.end \in Nat /\ hold.type \in Types
      /\ hold.type \in Timed => hold.end <= now + DurationS(hold.type)
      /\ up' /\ UNCHANGED <<now, synced, shadow, nvs, real, keptUntil>>
  BY DEF IInv, TypeOK, HoldRecord, CycleOnly
<1>2. SUFFICES TypeOK' /\ HoldStands' /\ SameHold'
  <2>1. ClockStands' /\ DownStands' BY <1>1 DEF IInv, ClockStands, DownStands
  <2>2. BlobStands' BY <1>1 DEF IInv, BlobStands
  <2>3. ShadowStands' BY <1>1 DEF IInv, ShadowStands
  <2>4. Charged' BY <1>1 DEF Charged
  <2>5. QED BY <2>1, <2>2, <2>3, <2>4 DEF IInv
<1>3. CASE Same
  <2>1. TypeOK' BY <1>1, <1>3 DEF IInv, TypeOK, Same, Unasked, HoldRecord
  <2>2. HoldStands' BY <1>1, <1>3 DEF IInv, HoldStands, Same
  <2>3. SameHold'
    BY <1>1, <1>3 DEF IInv, SameHold, Same, IsTimed, Changed, HoldChanged, Exact
  <2>4. QED BY <2>1, <2>2, <2>3
<1>4. CASE Fresh
  <2>1. PICK t \in Types : /\ told' = t /\ hold' = startHold(t, now)
                            /\ until' = Promised(t, real)
    BY <1>4 DEF Fresh
  <2>2. /\ hold'.type = t /\ hold'.fix = NoFix /\ DurationS(t) \in Nat \ {0}
        /\ t \in Timed => hold'.end = now + DurationS(t) /\ until' = real + DurationS(t)
        /\ t \notin Timed => until' = NoTime
    BY <2>1, <1>1, StartHoldType, Constants DEF Promised
  <2>3. TypeOK'
    <3>1. until' \in Time BY <2>2, <1>1 DEF Time
    <3>2. QED BY <3>1, <2>1, <2>2, <1>1 DEF IInv, TypeOK, HoldRecord
  <2>4. HoldStands' BY <2>2, <1>1 DEF HoldStands
  <2>5. SameHold'
    <3>1. t \in Timed => Changed'
      <4>1. ASSUME t \in Timed, shadow.type = t PROVE shadow.end < now + DurationS(t)
        BY <4>1 DEF IInv, ShadowStands
      <4>2. QED BY <4>1, <2>2, <1>1 DEF Changed, HoldChanged, IInv, TypeOK
    <3>2. t \in Timed => Exact' BY <2>2, <1>1 DEF Exact
    <3>3. QED BY <3>1, <3>2, <2>2, <1>1 DEF SameHold, IsTimed
  <2>6. QED BY <2>3, <2>4, <2>5
<1>5. CASE Over
  <2>1. TypeOK' BY <1>1, <1>5 DEF IInv, TypeOK, Over, Unasked, HoldRecord, Types, Timed, Time
  <2>2. HoldStands' BY <1>5 DEF Over, HoldStands, Timed
  <2>3. SameHold' BY <1>5 DEF Over, SameHold, IsTimed, Timed
  <2>4. QED BY <2>1, <2>2, <2>3
<1>6. CASE Settled
  <2>1. TypeOK' BY <1>1, <1>6 DEF IInv, TypeOK, Settled, HoldRecord
  <2>2. HoldStands' BY <1>1, <1>6 DEF IInv, HoldStands, Settled, HoldRecord
  <2>3. SameHold'
    BY <1>1, <1>6 DEF IInv, SameHold, Settled, IsTimed, Changed, HoldChanged, Exact,
                      HoldRecord
  <2>4. QED BY <2>1, <2>2, <2>3
<1>7. CASE Shorter
  <2>1. /\ hold'.type = hold.type /\ hold'.fix = NoFix /\ until' = until
        /\ hold'.end = now + (until - real) /\ hold'.end < hold.end
        /\ hold.type \in Timed /\ until \in Nat /\ ~Changed /\ told' = "nothing"
    BY <1>1, <1>7 DEF Shorter, HoldRecord, IInv, HoldStands
  <2>2. TypeOK'
    BY <1>1, <2>1, Constants DEF IInv, TypeOK, HoldRecord
  <2>3. HoldStands' BY <1>1, <2>1 DEF HoldStands
  <2>4. SameHold'
    BY <1>1, <2>1 DEF SameHold, Changed, HoldChanged, Exact, IInv, TypeOK
  <2>5. QED BY <2>2, <2>3, <2>4
<1>8. QED BY <1>3, <1>4, <1>5, <1>6, <1>7 DEF Outcome

-----------------------------------------------------------------------------
(* setup() *)
BlobRecord == [type : Types, remain : Nat, mono : Nat, epoch : Time]

LEMMA RestoreOutcome ==
  ASSUME NEW b \in BlobRecord, NEW t \in Nat, NEW h, h = restoreHold(b, t)
  PROVE  /\ h \in HoldRecord /\ elapsedS(t, b.mono) \in Nat
         /\ \/ b.type \notin Timed /\ h.type = b.type /\ h.end = 0 /\ h.fix = NoFix
            \/ b.type \in Timed /\ h = Idle /\ b.remain <= elapsedS(t, b.mono)
            \/ /\ b.type \in Timed /\ h.type = b.type
               /\ b.remain > elapsedS(t, b.mono)
               /\ h.end = t + (b.remain - elapsedS(t, b.mono))
               /\ h.fix = IF b.epoch = NoTime THEN NoFix
                          ELSE [epoch |-> b.epoch, remain |-> b.remain]
<1> DEFINE e == elapsedS(t, b.mono)
<1>1. e \in Nat /\ b.remain \in Nat /\ b.epoch \in Time /\ b.type \in Types
  BY DEF elapsedS, BlobRecord
<1> HIDE DEF e
<1>2. Idle \in HoldRecord /\ NoFix \in Fix /\ Idle.fix = NoFix /\ Idle.end = 0
  BY DEF Idle, HoldRecord, Types, NoFix, Fix, Time
<1>3. h = restoreAfter(b, t, e) BY DEF restoreHold, e
<1>4. CASE b.type \notin Timed
  <2>1. h = [Idle EXCEPT !.type = b.type] BY <1>3, <1>4 DEF restoreAfter
  <2>2. h \in HoldRecord /\ h.type = b.type /\ h.end = 0 /\ h.fix = NoFix
    BY <2>1, <1>1, <1>2 DEF HoldRecord
  <2>3. QED BY <2>2, <1>1, <1>4 DEF e
<1>5. CASE b.type \in Timed /\ b.remain <= e
  BY <1>1, <1>2, <1>3, <1>5 DEF restoreAfter, e
<1>6. CASE b.type \in Timed /\ ~(b.remain <= e)
  <2>1. h = [type |-> b.type, end |-> t + (b.remain - e),
             fix |-> IF b.epoch = NoTime THEN NoFix
                     ELSE [epoch |-> b.epoch, remain |-> b.remain]]
    BY <1>3, <1>6 DEF restoreAfter
  <2>2. h.fix \in Fix BY <2>1, <1>1, <1>2 DEF Fix
  <2>3. t + (b.remain - e) \in Nat BY <1>1, <1>6
  <2>4. h \in HoldRecord BY <2>1, <2>2, <2>3, <1>1 DEF HoldRecord
  <2>5. QED BY <2>1, <2>4, <1>1, <1>6 DEF e
<1>7. QED BY <1>4, <1>5, <1>6

(* The wall clock gains on the device's clock, never the other way: what a    *)
(* stamp covered before a step it covers after it.                            *)
LEMMA LagOnlyGrows ==
  ASSUME NEW kept \in Nat, NEW remain \in Nat, NEW mono \in Nat,
         NEW t \in Nat, NEW nowS \in Nat, NEW wall \in Nat, NEW later \in Nat,
         kept <= mono + remain + (wall - nowS), later - t >= wall - nowS
  PROVE  kept - later <= remain - (t - mono)
  OBVIOUS

LEMMA BootStep ==
  ASSUME IInv, NEW down \in 1..MaxDownS, NEW clockKept \in BOOLEAN,
         Boot(down, clockKept)
  PROVE  IInv'
<1> DEFINE b == nvs.holdb
           t == nvs.clk + 1
           h == restoreHold(b, t)
           migrate == h.type = "none" /\ nvs.legacy # "none"
<1>1. /\ b \in BlobRecord /\ nvs.clk \in Nat /\ nvs.legacy \in Types
      /\ now \in Nat /\ real \in Nat /\ keptUntil \in Time
      /\ until = keptUntil /\ down \in Nat \ {0}
  BY Constants DEF IInv, TypeOK, DownStands, BlobRecord, Boot
<1>2. /\ up' = TRUE /\ phase' = "idle" /\ synced' = clockKept /\ told' = "nothing"
      /\ real' = real + down /\ now' = t
      /\ hold' = IF migrate THEN startHold(nvs.legacy, t) ELSE h
      /\ nvs' = [nvs EXCEPT !.legacy = "none",
                   !.holdb = IF migrate THEN saveHold(hold', t, NoTime) ELSE @]
      /\ until' = IF migrate THEN Promised(nvs.legacy, real') ELSE Carried(h)
      /\ keptUntil' = IF migrate THEN until' ELSE keptUntil
      /\ shadow' = [type |-> hold'.type, end |-> hold'.end, clockSaved |-> 0]
  BY DEF Boot
<1>3. /\ t \in Nat /\ real' \in Nat /\ real' - t >= real - now /\ real' > real
      /\ nvs'.clk = nvs.clk /\ nvs'.legacy = "none"
      /\ nvs'.holdb = IF migrate THEN saveHold(hold', t, NoTime) ELSE b
  BY <1>1, <1>2 DEF IInv, ClockStands, TypeOK
<1> HIDE DEF t
<1>4. h = restoreHold(b, t) OBVIOUS
<1> HIDE DEF h
<1>5. /\ h \in HoldRecord /\ elapsedS(t, b.mono) \in Nat
      /\ \/ b.type \notin Timed /\ h.type = b.type /\ h.end = 0 /\ h.fix = NoFix
         \/ b.type \in Timed /\ h = Idle /\ b.remain <= elapsedS(t, b.mono)
         \/ /\ b.type \in Timed /\ h.type = b.type
            /\ b.remain > elapsedS(t, b.mono)
            /\ h.end = t + (b.remain - elapsedS(t, b.mono))
            /\ h.fix = IF b.epoch = NoTime THEN NoFix
                       ELSE [epoch |-> b.epoch, remain |-> b.remain]
  BY <1>1, <1>3, <1>4, RestoreOutcome
<1>6. ClockStands' BY <1>2, <1>3, <1>1 DEF ClockStands, t
<1>7. DownStands' /\ Charged' BY <1>2 DEF DownStands, Charged
<1>8. ~Changed' BY <1>2 DEF Changed, HoldChanged
<1>9. CASE migrate
  <2> DEFINE old == nvs.legacy
  <2>1. /\ hold' \in HoldRecord /\ hold'.type = old /\ hold'.fix = NoFix
        /\ DurationS(old) \in Nat \ {0}
        /\ old \in Timed => hold'.end = t + DurationS(old) /\ until' = real' + DurationS(old)
        /\ old \notin Timed => hold'.end = 0 /\ until' = NoTime
        /\ keptUntil' = until'
    BY <1>1, <1>2, <1>3, <1>9, StartHoldType, Constants DEF Promised
  <2>2. /\ nvs'.holdb.type = old /\ nvs'.holdb.mono = t /\ nvs'.holdb.epoch = NoTime
        /\ nvs'.holdb.remain = holdRemainingS(hold', t)
    BY <1>3, <1>9, <2>1 DEF saveHold
  <2>3. nvs'.holdb.remain = IF old \in Timed THEN DurationS(old) ELSE 0
    <3>1. old \in Timed => hold'.end > t /\ hold'.end - t = DurationS(old)
      BY <2>1, <1>3
    <3>2. QED BY <3>1, <2>1, <2>2 DEF holdRemainingS
  <2>4. TypeOK'
    <3>1. saveHold(hold', t, NoTime) \in BlobRecord
      BY <2>1, <2>2, <2>3, <1>1, <1>3, <1>9 DEF saveHold, BlobRecord, Time
    <3>2. nvs' \in [holdb : BlobRecord, clk : Nat, legacy : Types]
      BY <3>1, <1>1, <1>2, <1>9 DEF IInv, TypeOK, Types, BlobRecord
    <3>3. shadow' \in [type : Types, end : Nat, clockSaved : Nat]
      BY <2>1, <1>2 DEF HoldRecord
    <3>4. until' \in Time BY <2>1, <1>3 DEF Time
    <3>5. hold'.type \in Timed => hold'.end <= t + DurationS(hold'.type)
      BY <2>1, <1>3
    <3>6. QED
      BY <3>2, <3>3, <3>4, <3>5, <2>1, <1>2, <1>3 DEF TypeOK, HoldRecord, BlobRecord
  <2>5. BlobStands' BY <2>1, <2>2, <2>3, <1>2, <1>3 DEF BlobStands
  <2>6. HoldStands' BY <2>1, <1>2, <1>3 DEF HoldStands
  <2>7. ShadowStands' BY <2>1, <2>2, <1>2, <1>3, <1>8 DEF ShadowStands
  <2>8. SameHold' BY <2>1, <2>2, <1>2, <1>3, <1>8 DEF SameHold, Exact
  <2>9. QED BY <2>4, <2>5, <2>6, <2>7, <2>8, <1>6, <1>7 DEF IInv
<1>10. CASE ~migrate
  <2>1. hold' = h /\ until' = Carried(h) /\ keptUntil' = keptUntil /\ nvs'.holdb = b
    BY <1>2, <1>3, <1>10
  <2>2. BlobStands'
    <3>1. b.remain \in Nat /\ b.mono \in Nat BY <1>1 DEF BlobRecord
    <3>2. ASSUME b.type \in Timed
          PROVE  /\ keptUntil \in Nat
                 /\ keptUntil <= real' + b.remain
                 /\ keptUntil <= b.mono + b.remain + (real' - t)
      <4>1. /\ keptUntil \in Nat /\ keptUntil <= real + b.remain
            /\ keptUntil <= b.mono + b.remain + (real - now)
        BY <3>2 DEF IInv, BlobStands
      <4>2. /\ t \in Nat /\ real' \in Nat /\ now \in Nat /\ real \in Nat
            /\ real' - t >= real - now /\ real' > real
        BY <1>1, <1>3
      <4>3. keptUntil <= b.mono + b.remain + (real' - t)
        <5>1. keptUntil - real' <= b.remain - (t - b.mono)
          BY <4>1, <4>2, <3>1, LagOnlyGrows
        <5>2. QED BY <5>1, <4>1, <4>2, <3>1
      <4>4. QED BY <4>1, <4>2, <4>3, <3>1
    <3>3. ASSUME b.type \in Timed, b.epoch # NoTime
          PROVE  b.epoch <= real' /\ keptUntil = b.epoch + b.remain
      <4>1. b.epoch \in Nat BY <3>3, <1>1 DEF BlobRecord, Time
      <4>2. b.epoch <= real /\ keptUntil = b.epoch + b.remain
        BY <3>3 DEF IInv, BlobStands
      <4>3. QED BY <4>1, <4>2, <1>1, <1>3
    <3>4. QED BY <3>2, <3>3, <2>1, <1>2 DEF IInv, BlobStands
  <2>3. nvs' \in [holdb : BlobRecord, clk : Nat, legacy : Types]
    BY <1>1, <1>2, <1>10 DEF IInv, TypeOK, Types, BlobRecord
  <2>4. shadow' \in [type : Types, end : Nat, clockSaved : Nat] /\ hold' \in HoldRecord
    BY <2>1, <1>2, <1>5 DEF HoldRecord
  <2>5. until' \in Time BY <2>1, <1>1 DEF Carried, Time
  <2>6. ASSUME hold'.type \in Timed => hold'.end <= t + DurationS(hold'.type)
        PROVE  TypeOK'
    BY <2>1, <2>3, <2>4, <2>5, <2>6, <1>1, <1>2, <1>3 DEF TypeOK, HoldRecord, BlobRecord
  <2>7. CASE b.type \notin Timed
    <3>1. h.type = b.type /\ until' = NoTime BY <2>1, <2>7, <1>5 DEF Carried, Idle
    <3>2. TypeOK' BY <3>1, <2>1, <2>6, <2>7
    <3>3. HoldStands' BY <3>1, <2>1, <2>7 DEF HoldStands
    <3>4. ShadowStands' BY <3>1, <2>1, <2>7, <1>2, <1>8 DEF ShadowStands
    <3>5. SameHold' BY <3>1, <2>1, <2>7 DEF SameHold, IsTimed
    <3>6. QED BY <3>2, <3>3, <3>4, <3>5, <2>2, <1>6, <1>7 DEF IInv
  <2>8. CASE b.type \in Timed /\ h = Idle /\ b.remain <= elapsedS(t, b.mono)
    <3>1. h.type = "none" /\ h.end = 0 /\ until' = NoTime
      BY <2>1, <2>8 DEF Carried, Idle, Timed
    <3>2. TypeOK' BY <3>1, <2>1, <2>6 DEF Timed
    <3>3. HoldStands' BY <3>1, <2>1 DEF HoldStands, Timed
    <3>4. real' >= keptUntil
      <4>1. /\ keptUntil \in Nat /\ keptUntil <= real + b.remain
            /\ keptUntil <= b.mono + b.remain + (real - now)
            /\ b.remain \in Nat /\ b.mono \in Nat
        BY <2>8, <1>1 DEF IInv, BlobStands, BlobRecord
      <4>2. CASE t >= b.mono
        <5>1. b.remain <= t - b.mono BY <4>2, <2>8 DEF elapsedS
        <5>2. /\ t \in Nat /\ real' \in Nat /\ now \in Nat /\ real \in Nat
              /\ real' - t >= real - now
          BY <1>1, <1>3
        <5>3. keptUntil - real' <= b.remain - (t - b.mono) BY <4>1, <5>2, LagOnlyGrows
        <5>4. b.remain - (t - b.mono) <= 0 BY <5>1, <5>2, <4>1
        <5>5. keptUntil - real' <= 0
          <6>1. /\ keptUntil - real' \in Int /\ b.remain - (t - b.mono) \in Int
            BY <5>2, <4>1
          <6>2. QED BY <6>1, <5>3, <5>4
        <5>6. QED BY <5>2, <5>5, <4>1
      <4>3. CASE ~(t >= b.mono)
        BY <4>1, <4>3, <2>8, <1>1, <1>3 DEF elapsedS
      <4>4. QED BY <4>2, <4>3
    <3>5. ShadowStands' BY <3>1, <3>4, <2>1, <2>8, <1>2, <1>8 DEF ShadowStands, Timed
    <3>6. SameHold' BY <3>1, <2>1 DEF SameHold, IsTimed, Timed
    <3>7. QED BY <3>2, <3>3, <3>5, <3>6, <2>2, <1>6, <1>7 DEF IInv
  <2>9. CASE /\ b.type \in Timed /\ h.type = b.type
             /\ b.remain > elapsedS(t, b.mono)
             /\ h.end = t + (b.remain - elapsedS(t, b.mono))
             /\ h.fix = IF b.epoch = NoTime THEN NoFix
                        ELSE [epoch |-> b.epoch, remain |-> b.remain]
    <3>1. /\ keptUntil \in Nat /\ keptUntil <= real + b.remain
          /\ keptUntil <= b.mono + b.remain + (real - now)
          /\ b.remain <= DurationS(b.type) /\ DurationS(b.type) \in Nat
          /\ b.remain \in Nat /\ b.mono \in Nat
          /\ b.epoch # NoTime => b.epoch \in Nat /\ b.epoch <= real
      BY <2>9, <1>1, Constants DEF IInv, BlobStands, BlobRecord, Time
    <3>2. until' = keptUntil BY <2>1, <2>9, <1>1 DEF Carried
    <3>3. h.end <= t + DurationS(b.type) /\ keptUntil - real' <= h.end - t
      <4>1. CASE t >= b.mono
        <5>1. h.end = t + (b.remain - (t - b.mono)) BY <4>1, <2>9 DEF elapsedS
        <5>2. /\ t \in Nat /\ real' \in Nat /\ now \in Nat /\ real \in Nat
              /\ real' - t >= real - now
          BY <1>1, <1>3
        <5>3. keptUntil - real' <= b.remain - (t - b.mono) BY <3>1, <5>2, LagOnlyGrows
        <5>4. h.end - t = b.remain - (t - b.mono) BY <5>1, <5>2, <3>1
        <5>5. h.end <= t + b.remain BY <5>1, <5>2, <3>1, <4>1
        <5>6. h.end \in Int BY <5>1, <5>2, <3>1
        <5>7. h.end <= t + DurationS(b.type) BY <5>5, <5>6, <5>2, <3>1
        <5>8. QED BY <5>3, <5>4, <5>7
      <4>2. CASE ~(t >= b.mono)
        <5>1. h.end = t + b.remain BY <4>2, <3>1, <2>9, <1>3 DEF elapsedS
        <5>2. t \in Nat /\ real' \in Nat /\ real \in Nat /\ real' > real BY <1>1, <1>3
        <5>3. keptUntil - real' <= b.remain BY <5>2, <3>1
        <5>4. QED BY <5>1, <5>2, <5>3, <3>1
      <4>3. QED BY <4>1, <4>2
    <3>4. TypeOK' BY <3>3, <2>1, <2>6, <2>9
    <3>5. HoldStands' BY <3>1, <3>2, <3>3, <2>1, <2>9, <1>2 DEF HoldStands
    <3>6. ShadowStands' BY <3>3, <2>1, <2>9, <1>2, <1>8 DEF ShadowStands
    <3>7. SameHold'
      <4>1. hold'.fix # NoFix =>
              /\ b.epoch # NoTime
              /\ hold'.fix = [epoch |-> b.epoch, remain |-> b.remain]
        BY <2>1, <2>9
      <4>2. b.epoch = NoTime \/ hold'.fix # NoFix BY <2>1, <2>9 DEF NoFix
      <4>3. b.epoch # NoTime => b.epoch < real' BY <3>1, <1>1, <1>3
      <4>4. keptUntil' = until' /\ nvs'.holdb = b BY <3>2, <2>1
      <4>5. QED BY <4>1, <4>2, <4>3, <4>4, <1>2, <1>8 DEF SameHold
    <3>8. QED BY <3>4, <3>5, <3>6, <3>7, <2>2, <1>6, <1>7 DEF IInv
  <2>10. QED BY <2>7, <2>8, <2>9, <1>5
<1>11. QED BY <1>9, <1>10

-----------------------------------------------------------------------------
(* The other steps *)
LEMMA ResetStep ==
  ASSUME IInv, Reset PROVE IInv'
<1>1. TypeOK'
  BY DEF IInv, TypeOK, Reset, Idle, NoFix, Types, Timed, Fix, Time
<1>2. ClockStands' /\ DownStands' BY DEF IInv, ClockStands, DownStands, Reset
<1>3. BlobStands' BY DEF IInv, BlobStands, Reset
<1>4. HoldStands' /\ ShadowStands' /\ SameHold' /\ Charged'
  BY DEF Reset, HoldStands, ShadowStands, SameHold, IsTimed, Charged
<1>5. QED BY <1>1, <1>2, <1>3, <1>4 DEF IInv

LEMMA SyncStep ==
  ASSUME IInv, Sync PROVE IInv'
<1>1. /\ UNCHANGED <<up, phase, now, hold, shadow, nvs, real, told, until, keptUntil>>
      /\ synced' = TRUE /\ phase = "idle"
  BY DEF Sync, history
<1>2. TypeOK' BY <1>1 DEF IInv, TypeOK
<1>3. ClockStands' /\ DownStands' /\ BlobStands' /\ HoldStands'
  BY <1>1 DEF IInv, ClockStands, DownStands, BlobStands, HoldStands
<1>4. ShadowStands' BY <1>1 DEF IInv, ShadowStands, Changed
<1>5. SameHold' BY <1>1 DEF IInv, SameHold, IsTimed, Changed, Exact
<1>6. Charged' BY <1>1 DEF Charged
<1>7. QED BY <1>2, <1>3, <1>4, <1>5, <1>6 DEF IInv

LEMMA TickStep ==
  ASSUME IInv, Tick PROVE IInv'
<1>1. /\ UNCHANGED <<up, synced, hold, shadow, nvs, until, keptUntil>>
      /\ up /\ phase = "idle" /\ phase' = "mailbox"
      /\ now' = now + 1 /\ real' = real + 1 /\ told' = "nothing"
  BY DEF Tick
<1>2. /\ now \in Nat /\ real \in Nat /\ hold \in HoldRecord /\ hold.end \in Nat
      /\ hold.fix.epoch \in Time /\ shadow.end \in Nat /\ keptUntil \in Time
      /\ until \in Time /\ nvs.clk \in Nat
      /\ nvs.holdb \in BlobRecord /\ nvs.holdb.remain \in Nat
      /\ nvs.holdb.mono \in Nat /\ nvs.holdb.epoch \in Time
  BY DEF IInv, TypeOK, HoldRecord, Fix, BlobRecord
<1>3. TypeOK'
  <2>1. hold.type \in Timed => hold.end <= now + 1 + DurationS(hold.type)
    BY <1>2, Constants DEF IInv, TypeOK
  <2>2. QED BY <1>1, <1>2, <2>1 DEF IInv, TypeOK
<1>4. ClockStands' /\ DownStands' /\ Charged'
  BY <1>1, <1>2 DEF IInv, ClockStands, DownStands, Charged
<1>5. BlobStands'
  <2>1. real' - now' = real - now BY <1>1, <1>2
  <2>2. nvs.holdb.type \in Timed /\ nvs.holdb.epoch # NoTime =>
          nvs.holdb.epoch <= real'
    <3>1. nvs.holdb.epoch # NoTime => nvs.holdb.epoch \in Nat BY <1>2 DEF Time
    <3>2. QED BY <3>1, <1>1, <1>2 DEF IInv, BlobStands
  <2>3. nvs.holdb.type \in Timed => keptUntil <= real' + nvs.holdb.remain
    BY <1>1, <1>2 DEF IInv, BlobStands
  <2>4. QED BY <2>1, <2>2, <2>3, <1>1 DEF IInv, BlobStands
<1>6. HoldStands' BY <1>1, <1>2 DEF IInv, HoldStands
<1>7. ShadowStands'
  <2>1. shadow.type \in Timed => shadow.end < now + 1 + DurationS(shadow.type)
    BY <1>1, <1>2, Constants DEF IInv, ShadowStands
  <2>2. keptUntil \in Int /\ (real >= keptUntil => real + 1 >= keptUntil)
    BY <1>2 DEF Time, NoTime
  <2>3. now + 1 \in Nat /\ DurationS(shadow.type) \in Nat BY <1>2, Constants
  <2>4. QED BY <2>1, <2>2, <2>3, <1>1, <1>2 DEF IInv, ShadowStands
<1>8. SameHold'
  <2>1. Changed' = Changed /\ IsTimed' = IsTimed BY <1>1 DEF Changed, IsTimed
  <2>2. Exact => Exact' BY <1>1, <1>2 DEF Exact, Time, NoTime
  <2>3. IsTimed /\ hold.fix # NoFix => hold.fix.epoch < real'
    BY <1>1, <1>2 DEF IInv, SameHold, Time, NoTime
  <2>4. QED BY <2>1, <2>2, <2>3, <1>1 DEF IInv, SameHold
<1>9. QED BY <1>3, <1>4, <1>5, <1>6, <1>7, <1>8 DEF IInv

LEMMA PersistStep ==
  ASSUME IInv, persistOnChange PROVE IInv'
<1> DEFINE epoch == IF synced THEN real ELSE NoTime
           saved == saveHold(hold, now, epoch)
<1>1. /\ UNCHANGED <<up, now, synced, hold, real, until>>
      /\ up /\ phase = "persist" /\ phase' = "idle"
      /\ shadow'.type = hold.type /\ shadow'.end = hold.end
      /\ nvs'.legacy = nvs.legacy /\ nvs'.clk \in {now, nvs.clk}
      /\ nvs'.holdb = IF Changed THEN saved ELSE nvs.holdb
      /\ keptUntil' = IF Changed THEN until ELSE keptUntil
      /\ told' = "nothing"
  BY DEF persistOnChange, Changed, IInv, TypeOK
<1>2. /\ now \in Nat /\ real \in Nat /\ hold \in HoldRecord /\ hold.end \in Nat
      /\ hold.type \in Types /\ keptUntil \in Time /\ until \in Time
      /\ nvs.clk \in Nat /\ epoch \in Time /\ nvs.holdb \in BlobRecord
  BY DEF IInv, TypeOK, HoldRecord, Fix, BlobRecord, Time
<1>3. /\ saved.type = hold.type /\ saved.mono = now /\ saved.epoch = epoch
      /\ saved.remain = holdRemainingS(hold, now)
      /\ holdRemainingS(hold, now) \in Nat
  BY <1>2 DEF saveHold, holdRemainingS
<1>4. saved \in BlobRecord BY <1>2, <1>3 DEF saveHold, BlobRecord
<1>5. TypeOK'
  <2>1. nvs' \in [holdb : BlobRecord, clk : Nat, legacy : Types]
    BY <1>2, <1>4 DEF persistOnChange, IInv, TypeOK, BlobRecord, Changed
  <2>2. shadow' \in [type : Types, end : Nat, clockSaved : Nat]
    BY <1>2 DEF persistOnChange, IInv, TypeOK
  <2>3. QED BY <2>1, <2>2, <1>1, <1>2 DEF IInv, TypeOK, BlobRecord
<1>6. ClockStands' /\ DownStands' /\ Charged'
  BY <1>1, <1>2 DEF IInv, ClockStands, DownStands, Charged
<1>7. HoldStands' BY <1>1 DEF IInv, HoldStands
<1>8. ~Changed' BY <1>1 DEF Changed, HoldChanged
<1>9. CASE ~Changed
  <2>1. hold.type = shadow.type /\ hold.end = shadow.end BY <1>9 DEF Changed, HoldChanged
  <2>2. nvs'.holdb = nvs.holdb /\ keptUntil' = keptUntil BY <1>1, <1>9
  <2>3. BlobStands' BY <2>2, <1>1 DEF IInv, BlobStands
  <2>4. ShadowStands'
    BY <2>1, <2>2, <1>1, <1>2, <1>8 DEF IInv, ShadowStands
  <2>5. SameHold'
    BY <2>2, <1>1, <1>8, <1>9 DEF IInv, SameHold, IsTimed, Exact
  <2>6. QED BY <2>3, <2>4, <2>5, <1>5, <1>6, <1>7 DEF IInv
<1>10. CASE Changed
  <2>1. nvs'.holdb = saved /\ keptUntil' = until BY <1>1, <1>10
  <2>2. hold.type \in Timed => hold.fix = NoFix /\ Exact /\ until \in Nat
    BY <1>1, <1>10 DEF IInv, SameHold, IsTimed, HoldStands
  <2>3. BlobStands'
    <3>1. ASSUME hold.type \in Timed
          PROVE  /\ until \in Nat
                 /\ until <= real + saved.remain
                 /\ until <= now + saved.remain + (real - now)
                 /\ saved.remain <= DurationS(hold.type)
                 /\ epoch # NoTime => epoch <= real /\ until = epoch + saved.remain
      <4>1. hold.end > now /\ hold.end - now = until - real /\ until \in Nat
        BY <3>1, <2>2, <1>1 DEF IInv, SameHold, IsTimed, Exact
      <4>2. saved.remain = hold.end - now
        BY <4>1, <3>1, <1>3 DEF holdRemainingS
      <4>3. hold.end - now <= DurationS(hold.type)
        BY <3>1, <1>2, Constants DEF IInv, TypeOK
      <4>4. real + saved.remain = until BY <4>1, <4>2, <1>2
      <4>5. epoch # NoTime => epoch = real OBVIOUS
      <4> HIDE DEF saved, epoch
      <4>6. QED BY <4>1, <4>2, <4>3, <4>4, <4>5, <1>2
    <3>2. hold.type \notin Timed => until = NoTime BY <1>1 DEF IInv, HoldStands
    <3> HIDE DEF saved, epoch
    <3>3. QED BY <3>1, <3>2, <2>1, <1>1, <1>3 DEF BlobStands
  <2>4. ShadowStands'
    BY <2>1, <1>1, <1>2, <1>3, <1>8 DEF IInv, ShadowStands, TypeOK
  <2>5. SameHold'
    BY <2>1, <2>2, <1>1, <1>8 DEF SameHold, IsTimed, Exact
  <2>6. QED BY <2>3, <2>4, <2>5, <1>5, <1>6, <1>7 DEF IInv
<1>11. QED BY <1>9, <1>10

-----------------------------------------------------------------------------
LEMMA Invariance == IInv /\ [Next]_vars => IInv'
<1> SUFFICES ASSUME IInv, [Next]_vars PROVE IInv'
  OBVIOUS
<1>1. ASSUME NEW down \in 1..MaxDownS, NEW clockKept \in BOOLEAN,
             Boot(down, clockKept)
      PROVE  IInv'
  BY <1>1, BootStep
<1>2. ASSUME NEW manual \in BOOLEAN, NEW preset \in {"absent", "unknown", "known"},
             NEW cmd \in Types \cup {"absent"}, Mailbox(manual, preset, cmd)
      PROVE  IInv'
  <2>1. up /\ CycleOnly /\ phase = "mailbox" /\ phase' = "panel"
    BY <1>2 DEF Mailbox
  <2>2. QED BY <1>2, <2>1, MailboxOutcome, CycleStep DEF Outcome
<1>3. ASSUME NEW t \in Types, PanelIntent(t) PROVE IInv'
  <2>1. up /\ CycleOnly /\ phase = "panel" /\ phase' = "panel"
    BY <1>3 DEF PanelIntent
  <2>2. QED BY <1>3, <2>1, PanelOutcome, CycleStep DEF Outcome
<1>4. CASE ChargeOutage
  <2>1. up /\ CycleOnly /\ phase = "panel" /\ phase' = "update"
    BY <1>4 DEF ChargeOutage
  <2>2. QED BY <1>4, <2>1, ChargeStepOutcome, CycleStep DEF Outcome
<1>5. CASE Update
  <2>1. up /\ CycleOnly /\ phase = "update" /\ phase' = "persist"
    BY <1>5 DEF Update
  <2>2. synced => hold'.fix = NoFix
    BY <1>5, <2>1, UpdateOutcome DEF IInv, Charged
  <2>3. QED BY <1>5, <2>1, <2>2, UpdateOutcome, CycleStep DEF Outcome
<1>6. CASE UNCHANGED vars
  BY <1>6 DEF vars, history, IInv, TypeOK, ClockStands, BlobStands, HoldStands,
             ShadowStands, SameHold, DownStands, Charged, IsTimed, Changed, Exact
<1>7. QED
  BY <1>1, <1>2, <1>3, <1>4, <1>5, <1>6, ResetStep, SyncStep, TickStep, PersistStep
     DEF Next

LEMMA Initially == Init => IInv
<1> SUFFICES ASSUME Init PROVE IInv
  OBVIOUS
<1>1. /\ nvs.holdb = NoBlob /\ nvs.clk = 0 /\ nvs.legacy \in Types
      /\ ~up /\ phase = "idle" /\ until = NoTime /\ keptUntil = NoTime
      /\ now = 0 /\ hold = Idle
  BY DEF Init
<1>2. TypeOK
  <2>1. NoBlob \in BlobRecord /\ Idle \in HoldRecord
    BY DEF NoBlob, BlobRecord, Idle, NoFix, Fix, HoldRecord, Types, Time
  <2>2. nvs \in [holdb : BlobRecord, clk : Nat, legacy : Types]
    BY <2>1 DEF Init
  <2>3. QED BY <2>1, <2>2 DEF Init, TypeOK, HoldRecord, BlobRecord, Types, Timed, Time, Idle
<1>3. BlobStands BY <1>1 DEF BlobStands, NoBlob, Timed
<1>4. QED
  BY <1>1, <1>2, <1>3 DEF IInv, ClockStands, HoldStands, ShadowStands, SameHold,
                          IsTimed, DownStands, Charged

LEMMA Inductive == Spec => []IInv
<1>1. QED BY Initially, Invariance, PTL DEF Spec

(* Every variable keeps its type, and no reboot lengthens a hold. *)
THEOREM TypeCorrect == Spec => []TypeOK
<1>1. IInv => TypeOK BY DEF IInv
<1>2. QED BY <1>1, Inductive, PTL

(* A reset between two cycles loses no decision. *)
THEOREM SavedEveryCycleHolds == Spec => []SavedEveryCycle
<1>1. IInv => SavedEveryCycle
  <2> SUFFICES ASSUME IInv, up, phase = "idle"
               PROVE  \/ nvs.holdb.type = hold.type /\ keptUntil = until
                      \/ /\ nvs.holdb.type \in Timed /\ hold.type = "none"
                         /\ real >= keptUntil
    BY DEF SavedEveryCycle
  <2>1. ~Changed /\ shadow.type = hold.type
    BY DEF IInv, ShadowStands, Changed, HoldChanged
  <2>2. CASE nvs.holdb.type = hold.type
    <3>1. CASE hold.type \in Timed
      BY <2>1, <2>2, <3>1 DEF IInv, SameHold, IsTimed
    <3>2. CASE hold.type \notin Timed
      BY <2>2, <3>2 DEF IInv, HoldStands, BlobStands
    <3>3. QED BY <3>1, <3>2
  <2>3. CASE nvs.holdb.type # hold.type
    BY <2>1, <2>3 DEF IInv, ShadowStands
  <2>4. QED BY <2>2, <2>3
<1>2. QED BY <1>1, Inductive, PTL

(* Once the clock is known, what is left of a hold is its true remainder. *)
THEOREM ChargedAfterSyncHolds == Spec => []ChargedAfterSync
<1>1. IInv => ChargedAfterSync
  BY DEF IInv, ChargedAfterSync, SameHold, IsTimed, Exact, Charged
<1>2. QED BY <1>1, Inductive, PTL

-----------------------------------------------------------------------------
(* The old key is gone after the first boot, and no blob precedes it.        *)
LegacyStands ==
  /\ up => nvs.legacy = "none"
  /\ nvs.legacy # "none" => nvs.holdb.type = "none"

LEMMA LegacyGone == Spec => []LegacyStands
<1>1. Init => LegacyStands
  BY DEF Init, LegacyStands, NoBlob
<1>2. TypeOK /\ LegacyStands /\ [Next]_vars => LegacyStands'
  <2> SUFFICES ASSUME TypeOK, LegacyStands, [Next]_vars PROVE LegacyStands'
    OBVIOUS
  <2>1. ASSUME NEW down \in 1..MaxDownS, NEW clockKept \in BOOLEAN,
               Boot(down, clockKept)
        PROVE  LegacyStands'
    <3>1. nvs'.legacy = "none" BY <2>1 DEF Boot, TypeOK
    <3>2. QED BY <3>1 DEF LegacyStands
  <2>2. CASE persistOnChange
    <3>1. nvs'.legacy = nvs.legacy /\ up /\ up' = up
      BY <2>2 DEF persistOnChange, TypeOK
    <3>2. QED BY <3>1 DEF LegacyStands
  <2>3. CASE UNCHANGED <<up, nvs>> BY <2>3 DEF LegacyStands
  <2>4. CASE Reset BY <2>4 DEF Reset, LegacyStands
  <2>5. QED
    BY <2>1, <2>2, <2>3, <2>4 DEF Next, Sync, Tick, Mailbox, PanelIntent,
       ChargeOutage, Update, CycleOnly, vars
<1>3. QED BY <1>1, <1>2, TypeCorrect, PTL DEF Spec

(* What a cycle makes of the hold is a step of UserHold, or none.            *)
LEMMA CycleRefines ==
  ASSUME IInv, up, CycleOnly, Outcome, hold \in HoldRecord
  PROVE  [Hold!Next]_Hold!vars
<1>1. /\ up' = up /\ UNCHANGED <<real, nvs, keptUntil>>
      /\ hold.type \notin Timed => until = NoTime
  BY DEF CycleOnly, IInv, HoldStands, TypeOK
<1>2. ASSUME hold'.type = hold.type, until' = until, Unasked,
             hold.type = "until_next_preset" => told' = "nothing"
      PROVE  [Hold!Next]_Hold!vars
  <2>1. CASE told' = "nothing"
    <3>1. Hold!NothingHappens BY <1>1, <1>2, <2>1 DEF Hold!NothingHappens, Hold!kept
    <3>. QED BY <3>1 DEF Hold!Next
  <2>2. CASE told' = "preset"
    <3>1. Hold!PresetArrives
      BY <1>1, <1>2, <2>2 DEF Hold!PresetArrives, Hold!kept
    <3>. QED BY <3>1 DEF Hold!Next
  <2>. QED BY <1>2, <2>1, <2>2 DEF Unasked
<1>3. CASE Fresh
  <2>1. PICK t \in Types : /\ told' = t /\ hold' = startHold(t, now)
                            /\ until' = Promised(t, real)
    BY <1>3 DEF Fresh
  <2>2. hold'.type = t BY <2>1 DEF startHold
  <2>3. Hold!Decide(t)
    BY <1>1, <2>1, <2>2 DEF Hold!Decide, Hold!kept, Hold!Promised, Hold!DurationS, Hold!Timed,
       Promised, DurationS, Timed, NoTime, Hold!NoTime
  <2>4. t \in Hold!Types BY DEF Types, Timed, Hold!Types, Hold!Timed
  <2>5. QED BY <2>3, <2>4 DEF Hold!Next
<1>4. CASE Over
  <2>1. hold'.type = "none" /\ until' = NoTime /\ Unasked BY <1>4 DEF Over
  <2>2. CASE hold.type = "none"
    BY <2>1, <2>2, <1>1, <1>2 DEF Timed
  <2>3. CASE hold.type = "until_next_preset" /\ told' = "preset"
    <3>1. Hold!PresetArrives
      BY <2>1, <2>3, <1>1 DEF Hold!PresetArrives, Hold!Ends, Hold!kept, NoTime, Hold!NoTime
    <3>2. QED BY <3>1 DEF Hold!Next
  <2>4. CASE hold.type \in Timed /\ real >= until
    <3>1. Hold!TimeIsUp
      BY <2>1, <2>4, <1>1 DEF Unasked, Hold!TimeIsUp, Hold!Ends, Hold!kept, Hold!Timed,
                              Timed, NoTime, Hold!NoTime
    <3>2. QED BY <3>1 DEF Hold!Next
  <2>5. QED BY <1>4, <2>2, <2>3, <2>4 DEF Over
<1>5. CASE Same \/ Settled \/ Shorter
  <2>1. /\ hold'.type = hold.type /\ until' = until /\ Unasked
        /\ hold.type = "until_next_preset" => told' = "nothing"
    BY <1>5 DEF Same, Settled, Shorter, Unasked, HoldRecord
  <2>2. QED BY <2>1, <1>2
<1>6. QED BY <1>3, <1>4, <1>5 DEF Outcome

LEMMA StepRefines ==
  IInv /\ IInv' /\ LegacyStands /\ [Next]_vars => [Hold!Next]_Hold!vars
<1> SUFFICES ASSUME IInv, IInv', LegacyStands, [Next]_vars
             PROVE  [Hold!Next]_Hold!vars
  OBVIOUS
<1>1. hold \in HoldRecord BY DEF IInv, TypeOK, HoldRecord
<1>2. ASSUME NEW down \in 1..MaxDownS, NEW clockKept \in BOOLEAN,
             Boot(down, clockKept)
      PROVE  [Hold!Next]_Hold!vars
  <2> DEFINE b == nvs.holdb
             t == nvs.clk + 1
             h == restoreHold(b, t)
  <2>1. /\ ~up /\ up' = TRUE /\ up = FALSE /\ real' = real + down
        /\ nvs'.legacy = "none" /\ until = keptUntil /\ told' = "nothing"
    BY <1>2 DEF Boot, IInv, TypeOK, DownStands
  <2>2. CASE h.type = "none" /\ nvs.legacy # "none"
    <3>1. /\ hold' = startHold(nvs.legacy, now') /\ until' = Promised(nvs.legacy, real')
          /\ keptUntil' = until' /\ nvs'.holdb = saveHold(hold', now', NoTime)
      BY <1>2, <2>2 DEF Boot, IInv, TypeOK
    <3>2. hold'.type = nvs.legacy /\ nvs'.holdb.type = nvs.legacy
      BY <3>1 DEF startHold, saveHold
    <3>3. nvs.holdb.type = "none" BY <2>2 DEF LegacyStands
    <3>4. Hold!Adopt(down)
      BY <2>1, <2>2, <3>1, <3>2, <3>3 DEF Hold!Adopt, Hold!Promised, Hold!DurationS,
         Hold!Timed, Promised, DurationS, Timed, NoTime, Hold!NoTime
    <3>5. QED BY <3>4 DEF Hold!Next
  <2>3. CASE ~(h.type = "none" /\ nvs.legacy # "none")
    <3>1. hold' = h /\ until' = Carried(h) /\ keptUntil' = keptUntil
          /\ nvs'.holdb = nvs.holdb
      BY <1>2, <2>3 DEF Boot, IInv, TypeOK
    <3>0. nvs.legacy = "none"
      <4>1. nvs.holdb.type = "none" => h.type = "none"
        BY DEF restoreHold, restoreAfter, Timed, Idle
      <4>. QED BY <2>3, <4>1 DEF LegacyStands
    <3>2. b \in BlobRecord /\ t \in Nat /\ h = restoreHold(b, t)
      BY DEF IInv, TypeOK, BlobRecord
    <3> HIDE DEF b, t, h
    <3>3. h.type = b.type \/ (b.type \in Timed /\ h = Idle)
      <4>1. \/ b.type \notin Timed /\ h.type = b.type /\ h.end = 0 /\ h.fix = NoFix
            \/ b.type \in Timed /\ h = Idle /\ b.remain <= elapsedS(t, b.mono)
            \/ /\ b.type \in Timed /\ h.type = b.type
               /\ b.remain > elapsedS(t, b.mono)
               /\ h.end = t + (b.remain - elapsedS(t, b.mono))
               /\ h.fix = IF b.epoch = NoTime THEN NoFix
                          ELSE [epoch |-> b.epoch, remain |-> b.remain]
        BY <3>2, RestoreOutcome
      <4>2. QED BY <4>1
    <3> USE DEF b
    <3>4. CASE h.type = nvs.holdb.type
      <4>1. until' = until
        BY <3>1, <3>4, <2>1 DEF Carried, IInv, BlobStands
      <4>2. Hold!ComeBack(down)
        BY <2>1, <3>0, <3>1, <3>4, <4>1 DEF Hold!ComeBack, Hold!kept
      <4>3. QED BY <4>2 DEF Hold!Next
    <3>5. CASE nvs.holdb.type \in Timed /\ h = Idle
      <4>1. hold'.type = "none" /\ until' = NoTime
        BY <3>1, <3>5 DEF Idle, Carried, Timed
      <4>2. real' >= until
        <5>1. shadow'.type = "none" BY <1>2, <4>1 DEF Boot
        <5>2. QED BY <5>1, <2>1, <3>1, <3>5 DEF IInv, ShadowStands, Timed
      <4>3. Hold!ComeBack(down)
        BY <2>1, <3>0, <3>1, <3>5, <4>1, <4>2 DEF Hold!ComeBack, Hold!kept, Hold!Ends, Hold!Timed,
           Timed, NoTime, Hold!NoTime
      <4>4. QED BY <4>3 DEF Hold!Next
    <3>6. QED BY <3>3, <3>4, <3>5
  <2>4. QED BY <2>2, <2>3
<1>3. ASSUME NEW manual \in BOOLEAN, NEW preset \in {"absent", "unknown", "known"},
             NEW cmd \in Types \cup {"absent"}, Mailbox(manual, preset, cmd)
      PROVE  [Hold!Next]_Hold!vars
  BY <1>1, <1>3, MailboxOutcome, CycleRefines DEF Mailbox, Outcome
<1>4. ASSUME NEW t \in Types, PanelIntent(t) PROVE [Hold!Next]_Hold!vars
  BY <1>1, <1>4, PanelOutcome, CycleRefines DEF PanelIntent, Outcome
<1>5. CASE ChargeOutage
  BY <1>1, <1>5, ChargeStepOutcome, CycleRefines DEF ChargeOutage, Outcome
<1>6. CASE Update
  BY <1>1, <1>6, UpdateOutcome, CycleRefines DEF Update, Outcome
<1>7. CASE persistOnChange
  <2>1. /\ UNCHANGED <<up, hold, until, real>> /\ up /\ nvs'.legacy = nvs.legacy
        /\ told' = "nothing"
    BY <1>7 DEF persistOnChange, IInv, TypeOK
  <2>2. CASE Changed
    <3>1. nvs'.holdb.type = hold.type /\ keptUntil' = until
      BY <1>7, <2>2 DEF persistOnChange, Changed, saveHold, IInv, TypeOK
    <3>2. Hold!Keep BY <2>1, <3>1 DEF Hold!Keep
    <3>3. QED BY <3>2 DEF Hold!Next
  <2>3. CASE ~Changed
    <3>1. nvs'.holdb = nvs.holdb /\ keptUntil' = keptUntil
      BY <1>7, <2>3 DEF persistOnChange, Changed, IInv, TypeOK
    <3>2. Hold!NothingHappens BY <2>1, <3>1 DEF Hold!NothingHappens, Hold!kept
    <3>3. QED BY <3>2 DEF Hold!Next
  <2>4. QED BY <2>2, <2>3
<1>8. CASE Tick
  <2>1. Hold!TimePasses BY <1>8 DEF Tick, Hold!TimePasses, Hold!kept
  <2>2. QED BY <2>1 DEF Hold!Next
<1>9. CASE Reset
  <2>1. Hold!Crash BY <1>9 DEF Reset, Hold!Crash, Hold!kept
  <2>2. QED BY <2>1 DEF Hold!Next
<1>10. CASE Sync BY <1>10 DEF Sync, history, Hold!vars, Hold!kept
<1>11. CASE UNCHANGED vars BY <1>11 DEF vars, history, Hold!vars, Hold!kept
<1>12. QED
  BY <1>2, <1>3, <1>4, <1>5, <1>6, <1>7, <1>8, <1>9, <1>10, <1>11 DEF Next

(* HoldLifecycle implements UserHold: across resets, outages and clocks that *)
(* fall behind, a step that obeys no command leaves the hold in force until   *)
(* the preset it waits for or its promised wall-clock end, a decision acts in *)
(* the step that obeys it, and a reset returns to the last hold saved.        *)
THEOREM HoldKept == Spec => KeepsHold
<1>1. Init => Hold!Init
  BY DEF Init, NoBlob, Hold!Init, Hold!Types, Hold!Timed, Types, Timed, NoTime,
         Hold!NoTime
<1>2. QED
  BY <1>1, StepRefines, Inductive, LegacyGone, PTL DEF Spec, KeepsHold, Hold!Spec

=============================================================================
