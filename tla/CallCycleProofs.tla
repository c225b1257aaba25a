---------------------------- MODULE CallCycleProofs ----------------------------
(***************************************************************************)
(* Theorems about CallCycle, for every dwell, sustain time, threshold and    *)
(* compressor timer.  A changeover and an escalation are decided from stamps *)
(* the code keeps, the properties speak of what the room and the equipment   *)
(* did; the invariants tie the one to the other.                             *)
(***************************************************************************)
EXTENDS CallCycle, TLAPS

LEMMA Constants ==
  /\ {ChangeoverDwellS, ChangeoverSustainS, EscalationMinS, DeescalationMinS} \subseteq Nat
  /\ {MinOnS, MinOffS} \subseteq Nat \ {0}
  /\ {CompressorMinOat, BalancePoint, BalanceHyst, AuxMaxOat} \subseteq Nat
BY CallConfig, DualFuelConfig, CompressorConfig

LEMMA LongestWaitBounds ==
  /\ LongestWait \in Nat
  /\ LongestWait >= ChangeoverDwellS /\ LongestWait >= ChangeoverSustainS
  /\ LongestWait >= MinOnS + MinOffS + 1
<1>. DEFINE waits == {ChangeoverDwellS, ChangeoverSustainS, MinOnS + MinOffS + 1}
<1>1. waits \subseteq Nat
  BY Constants
<1>2. \E w \in waits : \A v \in waits : v <= w
  BY Constants
<1>3. /\ LongestWait \in waits
      /\ \A v \in waits : v <= LongestWait
  BY <1>2 DEF LongestWait
<1>. QED BY <1>1, <1>3

-----------------------------------------------------------------------------
(* Operators *)

LEMMA UpToType ==
  ASSUME NEW cap \in Nat, NEW n \in Int, n <= cap, -1 <= n
  PROVE  /\ UpTo(n, cap) \in 0..cap
         /\ UpTo(n, cap) = IF n < cap THEN n + 1 ELSE cap
BY DEF UpTo

(* A room asks for at most one family, and has then met the other one.       *)
LEMMA OneAsks ==
  ASSUME NEW f \in Families, NEW r \in Rooms, Triggers(f, r)
  PROVE  ~Triggers(Other(f), r) /\ ~Met(f, r) /\ Met(Other(f), r)
BY DEF Families, Rooms, Triggers, Met, Other

LEMMA OtherType ==
  ASSUME NEW f \in Families
  PROVE  /\ Other(f) \in Families /\ Other(f) # f /\ Other(Other(f)) = f
         /\ f # "none"
         /\ \A g \in Families : g = f \/ g = Other(f)
BY DEF Families, Other

LEMMA EndCall ==
  ASSUME NEW m \in CallStates
  PROVE  /\ endActiveCall(m) \in CallStates
         /\ endActiveCall(m).type = "none"
         /\ endActiveCall(m).trig = m.trig
         /\ endActiveCall(m).lastEnded = IF m.type = "none" THEN m.lastEnded ELSE m.type
         /\ endActiveCall(m).ended =
              IF m.type = "none" THEN m.ended ELSE [m.ended EXCEPT ![m.type] = 0]
<1>1. CASE m.type = "none"
  BY <1>1 DEF endActiveCall
<1>2. CASE m.type # "none"
  <2>1. m.type \in Families /\ 0 \in 0..ChangeoverDwellS
    BY <1>2, Constants DEF CallStates
  <2>2. [m.ended EXCEPT ![m.type] = 0] \in [Families -> 0..ChangeoverDwellS]
    BY <2>1 DEF CallStates
  <2>. QED BY <1>2, <2>1, <2>2 DEF endActiveCall, CallStates
<1>. QED BY <1>1, <1>2

LEMMA StartCall ==
  ASSUME NEW m \in CallStates, NEW f \in Families, NEW g \in BOOLEAN
  PROVE  /\ startCall(m, f, g) \in CallStates
         /\ startCall(m, f, g).type = f
         /\ startCall(m, f, g).trig = m.trig /\ startCall(m, f, g).ended = m.ended
         /\ startCall(m, f, g).lastEnded = m.lastEnded
BY DEF startCall, CallStates

LEMMA ResetType ==
  ASSUME NEW m \in CallStates
  PROVE  /\ resetTriggers(m) \in CallStates
         /\ resetTriggers(m).trig = NoTriggers
         /\ resetTriggers(m).type = m.type /\ resetTriggers(m).ended = m.ended
         /\ resetTriggers(m).lastEnded = m.lastEnded
<1>1. NoTriggers \in [Families -> Disarmed..ChangeoverSustainS]
  BY Constants DEF NoTriggers, Disarmed
<1>. QED BY <1>1 DEF resetTriggers, CallStates

LEMMA ArmType ==
  ASSUME NEW m \in CallStates, NEW r \in Rooms
  PROVE  /\ armTriggers(m, r) \in CallStates
         /\ \A f \in Families :
              armTriggers(m, r).trig[f] =
                IF ~Triggers(f, r) THEN Disarmed
                ELSE IF m.trig[f] = Disarmed THEN 0 ELSE m.trig[f]
         /\ armTriggers(m, r).type = m.type /\ armTriggers(m, r).ended = m.ended
         /\ armTriggers(m, r).lastEnded = m.lastEnded
<1>. DEFINE armed == [f \in Families |->
                        CASE ~Triggers(f, r) -> Disarmed
                          [] Triggers(f, r) /\ m.trig[f] = Disarmed -> 0
                          [] OTHER -> m.trig[f]]
<1>1. \A f \in Families :
        armed[f] = IF ~Triggers(f, r) THEN Disarmed
                   ELSE IF m.trig[f] = Disarmed THEN 0 ELSE m.trig[f]
  OBVIOUS
<1>2. \A f \in Families : m.trig[f] \in Disarmed..ChangeoverSustainS
  BY DEF CallStates
<1>3. armed \in [Families -> Disarmed..ChangeoverSustainS]
  BY <1>1, <1>2, Constants DEF Disarmed
<1>4. armTriggers(m, r) = [m EXCEPT !.trig = armed]
  BY DEF armTriggers
<1>. HIDE DEF armed
<1>. QED BY <1>1, <1>3, <1>4 DEF CallStates

(* What AUTO makes of the calls: a call the room has not met goes on as it   *)
(* is; otherwise it ends, the triggers are read, and the family that may     *)
(* start does.                                                               *)
LEMMA AutoStep ==
  ASSUME NEW m \in CallStates, NEW r \in Rooms, NEW swapOk \in BOOLEAN
  PROVE  LET c == evalAuto(m, r, swapOk)
         IN /\ c \in CallStates
            /\ m.type # "none" /\ ~Met(m.type, r) => c = m
            /\ m.type = "none" \/ Met(m.type, r) =>
                 /\ \A f \in Families :
                      /\ c.trig[f] = IF ~Triggers(f, r) THEN Disarmed
                                     ELSE IF m.trig[f] = Disarmed THEN 0 ELSE m.trig[f]
                      /\ c.type = f <=> Triggers(f, r) /\ mayStart(c, f, swapOk)
                 /\ c.ended = endActiveCall(m).ended
                 /\ c.lastEnded = endActiveCall(m).lastEnded
<1>. DEFINE c == evalAuto(m, r, swapOk)
            idle == IF m.type # "none" /\ Met(m.type, r) THEN endActiveCall(m) ELSE m
            armed == armTriggers(idle, r)
            ready == {f \in Families : Triggers(f, r) /\ mayStart(armed, f, swapOk)}
<1>1. /\ idle \in CallStates /\ idle.trig = m.trig
      /\ m.type = "none" \/ Met(m.type, r) =>
           /\ idle.type = "none" /\ idle.ended = endActiveCall(m).ended
           /\ idle.lastEnded = endActiveCall(m).lastEnded
  BY EndCall
<1>2. /\ idle.type # "none" => c = idle
      /\ idle.type = "none" /\ ready # {} =>
           c = startCall(armed, CHOOSE f \in ready : TRUE, FALSE)
      /\ idle.type = "none" /\ ready = {} => c = armed
  BY DEF evalAuto
<1>3. m.type # "none" /\ ~Met(m.type, r) => c = m /\ c \in CallStates
  BY <1>2
<1>4. ASSUME m.type = "none" \/ Met(m.type, r)
      PROVE  /\ c \in CallStates
             /\ \A f \in Families :
                  /\ c.trig[f] = IF ~Triggers(f, r) THEN Disarmed
                                 ELSE IF m.trig[f] = Disarmed THEN 0 ELSE m.trig[f]
                  /\ c.type = f <=> Triggers(f, r) /\ mayStart(c, f, swapOk)
             /\ c.ended = endActiveCall(m).ended
             /\ c.lastEnded = endActiveCall(m).lastEnded
  <2>. HIDE DEF idle, c
  <2>1. /\ armed \in CallStates /\ armed.type = "none"
        /\ armed.ended = idle.ended /\ armed.lastEnded = idle.lastEnded
        /\ \A f \in Families :
             armed.trig[f] = IF ~Triggers(f, r) THEN Disarmed
                             ELSE IF m.trig[f] = Disarmed THEN 0 ELSE m.trig[f]
    BY <1>1, <1>4, ArmType
  <2>. HIDE DEF armed
  <2>2. CASE ready = {}
    <3>1. c = armed
      BY <1>1, <1>2, <1>4, <2>2
    <3>2. \A f \in Families : ~(Triggers(f, r) /\ mayStart(c, f, swapOk)) /\ c.type # f
      BY <2>1, <2>2, <3>1, OtherType
    <3>. QED BY <1>1, <1>4, <2>1, <3>1, <3>2
  <2>3. CASE ready # {}
    <3>1. PICK g \in Families : g = CHOOSE f \in ready : TRUE
      BY <2>3
    <3>2. g \in ready /\ c = startCall(armed, g, FALSE)
      BY <1>1, <1>2, <1>4, <2>3, <3>1
    <3>3. /\ c \in CallStates /\ c.type = g /\ c.trig = armed.trig
          /\ c.ended = armed.ended /\ c.lastEnded = armed.lastEnded
      BY <2>1, <3>2, StartCall
    <3>4. \A f \in Families : mayStart(c, f, swapOk) = mayStart(armed, f, swapOk)
      BY <3>3 DEF mayStart
    <3>5. \A f \in Families : Triggers(f, r) <=> f = g
      BY <3>2, OneAsks, OtherType
    <3>6. \A f \in Families : c.type = f <=> Triggers(f, r) /\ mayStart(c, f, swapOk)
      BY <3>2, <3>3, <3>4, <3>5
    <3>. QED BY <1>1, <1>4, <2>1, <3>3, <3>6
  <2>. QED BY <2>2, <2>3
<1>. QED BY <1>3, <1>4

(* Every other mode ends the call, starts one or leaves all as it is.        *)
LEMMA SimpleStep ==
  ASSUME NEW m \in CallStates, NEW f \in Families, NEW r, NEW g \in BOOLEAN
  PROVE  LET c == evalSimple(m, f, r, g)
         IN /\ c \in CallStates /\ c.trig = m.trig
            /\ \/ c = m
               \/ m.type = f /\ c = endActiveCall(m)
               \/ m.type = "none" /\ c = startCall(m, f, g)
<1>1. \/ evalSimple(m, f, r, g) = m
      \/ m.type = f /\ evalSimple(m, f, r, g) = endActiveCall(m)
      \/ m.type = "none" /\ evalSimple(m, f, r, g) = startCall(m, f, g)
  <2>1. m.type = f => m.type # "none"
    BY OtherType
  <2>. QED BY <2>1 DEF evalSimple
<1>2. /\ endActiveCall(m) \in CallStates /\ endActiveCall(m).trig = m.trig
      /\ startCall(m, f, g) \in CallStates /\ startCall(m, f, g).trig = m.trig
  BY EndCall, StartCall
<1>. QED BY <1>1, <1>2

LEMMA AgedType ==
  ASSUME NEW m \in CallStates
  PROVE  /\ Aged(m) \in CallStates
         /\ Aged(m).type = m.type /\ Aged(m).lastEnded = m.lastEnded
         /\ \A f \in Families :
              /\ Aged(m).ended[f] = UpTo(m.ended[f], ChangeoverDwellS)
              /\ Aged(m).trig[f] = IF m.trig[f] = Disarmed THEN Disarmed
                                   ELSE UpTo(m.trig[f], ChangeoverSustainS)
              /\ m.ended[f] \in 0..ChangeoverDwellS
              /\ m.trig[f] \in Disarmed..ChangeoverSustainS
<1>. DEFINE ended == [f \in Families |-> UpTo(m.ended[f], ChangeoverDwellS)]
            trig  == [f \in Families |-> IF m.trig[f] = Disarmed THEN Disarmed
                                         ELSE UpTo(m.trig[f], ChangeoverSustainS)]
<1>1. \A f \in Families : /\ m.ended[f] \in 0..ChangeoverDwellS
                          /\ m.trig[f] \in Disarmed..ChangeoverSustainS
  BY DEF CallStates
<1>2. ended \in [Families -> 0..ChangeoverDwellS]
  BY <1>1, Constants, UpToType
<1>3. trig \in [Families -> Disarmed..ChangeoverSustainS]
  <2>1. ASSUME NEW f \in Families
        PROVE  trig[f] \in Disarmed..ChangeoverSustainS
    BY <1>1, Constants, UpToType DEF Disarmed
  <2>. QED BY <2>1
<1>4. Aged(m) = [m EXCEPT !.ended = ended, !.trig = trig]
  BY DEF Aged
<1>5. \A f \in Families :
        /\ ended[f] = UpTo(m.ended[f], ChangeoverDwellS)
        /\ trig[f] = IF m.trig[f] = Disarmed THEN Disarmed
                     ELSE UpTo(m.trig[f], ChangeoverSustainS)
  OBVIOUS
<1>. HIDE DEF ended, trig
<1>. QED BY <1>1, <1>2, <1>3, <1>4, <1>5 DEF CallStates

LEMMA UpdateType ==
  ASSUME NEW m \in CallStates, NEW md \in Modes, NEW r \in Rooms \cup {Unknown},
         NEW swapOk \in BOOLEAN
  PROVE  updateCalls(m, md, r, swapOk) \in CallStates
<1>1. CASE r = Unknown \/ md = "off"
  BY <1>1, EndCall, ResetType DEF updateCalls
<1>2. CASE r # Unknown /\ md = "auto"
  BY <1>2, AutoStep DEF updateCalls
<1>3. CASE r # Unknown /\ md = "cool"
  BY <1>3, SimpleStep DEF updateCalls, Families
<1>4. CASE r # Unknown /\ md \in {"heat", "emheat"}
  BY <1>4, SimpleStep DEF updateCalls, Families
<1>. QED BY <1>1, <1>2, <1>3, <1>4 DEF Modes

-----------------------------------------------------------------------------
(* The dual-fuel record *)

(* What one cycle makes of the record, in the terms the properties need: gas *)
(* goes on, or takes over (at once again when it was just given up), or the   *)
(* heat pump keeps its turn with the droop timed or not.                      *)
Evolves(d, n, r, o, saturated) ==
  LET age == IF d.droop = NotOn THEN 0 ELSE d.droop
      sat == saturated \/ d.satSeen
  IN /\ n \in DualStates
     /\ n.source = "hp" /\ d.escalated /\ gasAllowed(o) => d.escFor >= DeescalationMinS
     /\ \/ /\ d.escalated /\ n.escalated
           /\ n.escFor = d.escFor /\ n.droop = NotOn /\ ~n.satSeen
        \/ /\ n.escalated /\ n.escFor = 0 /\ r <= -3
           /\ n.droop = age /\ age >= EscalationMinS
           /\ n.satSeen /\ sat
        \/ /\ ~n.escalated /\ n.droop = NotOn /\ ~n.satSeen
           /\ d.escalated => d.escFor >= DeescalationMinS
        \/ /\ ~n.escalated /\ n.droop = age /\ n.satSeen = sat
           /\ n.satSeen => age < EscalationMinS
           /\ r <= -3 /\ n.source = "hp"
           /\ d.escalated => d.escFor >= DeescalationMinS

LEMMA DualStep ==
  ASSUME NEW d \in DualStates, NEW heatCall \in BOOLEAN, NEW r \in Rooms \cup {Unknown},
         NEW o \in Oats \cup {NoOat}, NEW saturated \in BOOLEAN
  PROVE  Evolves(d, stepDual(d, heatCall, r, o, saturated), r, o, saturated)
<1>. DEFINE kept == [d EXCEPT !.gasPreferred = prefer(d, o),
                              !.escalated = staysEscalated(d, o)]
            timing == timesDroop(kept, heatCall, r, o)
            next == droopStep(kept, timing, saturated)
            age == IF d.droop = NotOn THEN 0 ELSE d.droop
            sat == saturated \/ d.satSeen
            n == stepDual(d, heatCall, r, o, saturated)
<1>0. EscalationMinS \in Nat /\ DeescalationMinS \in Nat
  BY Constants
<1>1. prefer(d, o) \in BOOLEAN /\ staysEscalated(d, o) \in BOOLEAN
  BY DEF prefer, staysEscalated, Mild, DualStates
<1>2. /\ kept \in DualStates /\ kept.droop = d.droop /\ kept.satSeen = d.satSeen
      /\ kept.escFor = d.escFor /\ kept.escalated = staysEscalated(d, o)
  BY <1>1 DEF DualStates
<1>3. /\ kept.escalated => d.escalated
      /\ d.escalated /\ ~kept.escalated => d.escFor >= DeescalationMinS
  BY <1>2 DEF staysEscalated
<1>. HIDE DEF kept
<1>4. timing \in BOOLEAN /\ sat \in BOOLEAN /\ age \in 0..EscalationMinS
  BY <1>0 DEF timesDroop, DualStates, NotOn
<1>5. timing => /\ heatCall /\ o # NoOat /\ ~kept.escalated
                /\ Preferred(kept, o) = "hp" /\ r <= -3
  BY DEF timesDroop
<1>6. next = IF ~timing THEN [kept EXCEPT !.droop = NotOn, !.satSeen = FALSE]
             ELSE IF sat /\ age >= EscalationMinS
             THEN [kept EXCEPT !.droop = age, !.satSeen = TRUE, !.escalated = TRUE,
                               !.escFor = 0]
             ELSE [kept EXCEPT !.droop = age, !.satSeen = sat]
  BY <1>2 DEF droopStep
<1>11. n = [next EXCEPT !.source = chooseSource(next, heatCall, o)]
  BY DEF stepDual, kept
<1>. HIDE DEF timing, age, sat, next, n
<1>7. /\ NotOn \in NotOn..EscalationMinS /\ age \in NotOn..EscalationMinS
      /\ age # NotOn /\ 0 \in 0..DeescalationMinS
  BY <1>0, <1>4 DEF NotOn
<1>8. /\ next \in DualStates /\ next.gasPreferred = kept.gasPreferred
      /\ ~timing => /\ next.droop = NotOn /\ ~next.satSeen
                    /\ next.escalated = kept.escalated /\ next.escFor = kept.escFor
      /\ timing => next.droop = age
      /\ timing /\ sat /\ age >= EscalationMinS =>
           next.satSeen /\ next.escalated /\ next.escFor = 0
      /\ timing /\ ~(sat /\ age >= EscalationMinS) =>
           next.satSeen = sat /\ next.escalated = kept.escalated
  <2>1. CASE ~timing
    BY <1>2, <1>6, <1>7, <2>1 DEF DualStates
  <2>2. CASE timing /\ sat /\ age >= EscalationMinS
    BY <1>2, <1>6, <1>7, <2>2 DEF DualStates
  <2>3. CASE timing /\ ~(sat /\ age >= EscalationMinS)
    BY <1>2, <1>4, <1>6, <1>7, <2>3 DEF DualStates
  <2>. QED BY <2>1, <2>2, <2>3
<1>10. Preferred(next, o) = Preferred(kept, o)
  BY <1>8 DEF Preferred
<1>12. chooseSource(next, heatCall, o) \in {"none", "hp", "gas"}
  BY DEF chooseSource, Preferred
<1>13. /\ n \in DualStates /\ n.source = chooseSource(next, heatCall, o)
       /\ n.escalated = next.escalated /\ n.escFor = next.escFor
       /\ n.droop = next.droop /\ n.satSeen = next.satSeen
  BY <1>8, <1>11, <1>12 DEF DualStates
<1>14. n.source = "hp" => heatCall /\ (~n.escalated \/ ~gasAllowed(o))
  BY <1>13 DEF chooseSource, Preferred
<1>15. timing /\ ~next.escalated => n.source = "hp"
  BY <1>5, <1>10, <1>13 DEF chooseSource
<1>16. /\ n.escalated \in BOOLEAN /\ d.escalated \in BOOLEAN
       /\ next.escalated \in BOOLEAN /\ kept.escalated \in BOOLEAN
  BY <1>2, <1>8, <1>13 DEF DualStates
<1>17. n.source = "hp" /\ d.escalated /\ gasAllowed(o) => d.escFor >= DeescalationMinS
  <2>1. kept.escalated => ~timing
    BY <1>5
  <2>2. kept.escalated => next.escalated
    BY <1>8, <2>1
  <2>. QED BY <1>3, <1>13, <1>14, <1>16, <2>2
<1>18. \/ /\ d.escalated /\ n.escalated
          /\ n.escFor = d.escFor /\ n.droop = NotOn /\ ~n.satSeen
       \/ /\ n.escalated /\ n.escFor = 0 /\ r <= -3
          /\ n.droop = age /\ age >= EscalationMinS
          /\ n.satSeen /\ sat
       \/ /\ ~n.escalated /\ n.droop = NotOn /\ ~n.satSeen
          /\ d.escalated => d.escFor >= DeescalationMinS
       \/ /\ ~n.escalated /\ n.droop = age /\ n.satSeen = sat
          /\ n.satSeen => age < EscalationMinS
          /\ r <= -3 /\ n.source = "hp"
          /\ d.escalated => d.escFor >= DeescalationMinS
  <2>1. CASE ~timing
    BY <1>2, <1>3, <1>8, <1>13, <1>16, <2>1
  <2>2. CASE timing /\ sat /\ age >= EscalationMinS
    BY <1>5, <1>8, <1>13, <1>16, <2>2
  <2>3. CASE timing /\ ~(sat /\ age >= EscalationMinS)
    <3>1. n.droop = age /\ n.satSeen = sat /\ n.escalated = kept.escalated
      BY <1>8, <1>13, <2>3
    <3>2. ~kept.escalated /\ r <= -3 /\ n.source = "hp"
      BY <1>5, <1>8, <1>15, <2>3
    <3>3. n.satSeen => age < EscalationMinS
      BY <1>0, <1>4, <2>3, <3>1
    <3>. QED BY <1>3, <1>16, <3>1, <3>2, <3>3
  <2>. QED BY <2>1, <2>2, <2>3
<1>. QED BY <1>13, <1>17, <1>18 DEF age, sat, n, Evolves

LEMMA AgedDualType ==
  ASSUME NEW d \in DualStates
  PROVE  /\ AgedDual(d) \in DualStates
         /\ AgedDual(d).escalated = d.escalated /\ AgedDual(d).satSeen = d.satSeen
         /\ AgedDual(d).escFor = UpTo(d.escFor, DeescalationMinS)
         /\ AgedDual(d).droop = IF d.droop = NotOn THEN NotOn
                                ELSE UpTo(d.droop, EscalationMinS)
<1>1. d.escFor \in 0..DeescalationMinS /\ d.droop \in NotOn..EscalationMinS
  BY DEF DualStates
<1>2. UpTo(d.escFor, DeescalationMinS) \in 0..DeescalationMinS
  BY <1>1, Constants, UpToType
<1>3. (IF d.droop = NotOn THEN NotOn ELSE UpTo(d.droop, EscalationMinS))
        \in NotOn..EscalationMinS
  BY <1>1, Constants, UpToType DEF NotOn
<1>. QED BY <1>2, <1>3 DEF AgedDual, DualStates

-----------------------------------------------------------------------------
(* What a cycle does to the calls, given what holds of them between cycles:   *)
(* outside AUTO no trigger is stamped, and while a call is on the other       *)
(* family's trigger is not.                                                   *)
LEMMA CallsStep ==
  ASSUME NEW m \in CallStates, NEW md \in Modes, NEW r \in Rooms \cup {Unknown},
         NEW swapOk \in BOOLEAN, NEW f \in Families,
         md # "auto" => \A g \in Families : m.trig[g] = Disarmed,
         m.type # "none" => m.trig[Other(m.type)] = Disarmed
  PROVE  LET c   == updateCalls(m, md, r, swapOk)
             due == md = "auto" /\ r # Unknown /\ Triggers(f, r)
         IN /\ c.type # f => c.ended[f] = IF m.type = f THEN 0 ELSE m.ended[f]
            /\ c.type = "none" \/ c.type # m.type =>
                 c.lastEnded = IF m.type = "none" THEN m.lastEnded ELSE m.type
            /\ ~due /\ (c.type # f \/ md # "auto") => c.trig[f] = Disarmed
            /\ due /\ m.type # f =>
                 c.trig[f] = IF m.trig[f] = Disarmed THEN 0 ELSE m.trig[f]
            /\ c.type = Other(f) => c.trig[f] = Disarmed
            /\ due => c.type # Other(f) /\ (m.type = f => c.type = f)
            /\ due /\ c.type # f => ~mayStart(c, f, swapOk)
            /\ md = "auto" /\ c.type = f /\ m.type # f => due /\ mayStart(c, f, swapOk)
<1>. DEFINE c == updateCalls(m, md, r, swapOk)
            due == md = "auto" /\ r # Unknown /\ Triggers(f, r)
            e == endActiveCall(m)
<1>1. /\ c \in CallStates /\ e.type = "none" /\ e.trig = m.trig
      /\ e.lastEnded = IF m.type = "none" THEN m.lastEnded ELSE m.type
      /\ \A g \in Families : e.ended[g] = IF m.type = g THEN 0 ELSE m.ended[g]
  <2>1. m.ended \in [Families -> 0..ChangeoverDwellS]
    BY DEF CallStates
  <2>. QED BY UpdateType, EndCall, OtherType, <2>1, ZenonT(40)
<1>2. /\ Other(f) \in Families /\ Other(f) # f /\ f # "none" /\ Other(f) # "none"
      /\ Other(Other(f)) = f /\ \A g \in Families : g = f \/ g = Other(f)
      /\ c.type \in Families \cup {"none"} /\ m.type \in Families \cup {"none"}
  BY <1>1, OtherType DEF CallStates
<1>3. CASE r = Unknown \/ md = "off"
  <2>1. c = resetTriggers(e) /\ e \in CallStates
    BY <1>3, EndCall DEF updateCalls
  <2>2. /\ c.type = "none" /\ c.ended = e.ended /\ c.lastEnded = e.lastEnded
        /\ c.trig[f] = Disarmed
    BY <1>1, <2>1, ResetType DEF NoTriggers
  <2>3. ~due
    BY <1>3
  <2>. HIDE DEF c, due, e
  <2>. QED BY <1>1, <1>2, <2>2, <2>3 DEF c, due
<1>4. CASE r # Unknown /\ md = "auto"
  <2>1. c = evalAuto(m, r, swapOk) /\ r \in Rooms /\ due = Triggers(f, r)
    BY <1>4 DEF updateCalls, Triggers
  <2>2. CASE m.type # "none" /\ ~Met(m.type, r)
    <3>1. c = m
      BY <2>1, <2>2, AutoStep
    <3>2. due => m.type # Other(f)
      BY <2>1, <2>2, OneAsks
    <3>3. m.type = Other(f) => m.trig[f] = Disarmed
      BY <1>2
    <3>. HIDE DEF c, due, e
    <3>. QED BY <1>1, <1>2, <1>4, <2>2, <3>1, <3>2, <3>3 DEF c, due
  <2>3. CASE m.type = "none" \/ Met(m.type, r)
    <3>1. /\ \A g \in Families :
               /\ c.trig[g] = IF ~Triggers(g, r) THEN Disarmed
                              ELSE IF m.trig[g] = Disarmed THEN 0 ELSE m.trig[g]
               /\ c.type = g <=> Triggers(g, r) /\ mayStart(c, g, swapOk)
          /\ c.ended = e.ended /\ c.lastEnded = e.lastEnded
      BY <2>1, <2>3, AutoStep
    <3>2. due => ~Triggers(Other(f), r) /\ m.type # f
      BY <2>1, <2>3, <1>2, OneAsks
    <3>3. Triggers(Other(f), r) => ~Triggers(f, r)
      BY <1>2, <2>1, OneAsks
    <3>. HIDE DEF c, e
    <3>. QED BY <1>1, <1>2, <1>4, <2>1, <3>1, <3>2, <3>3 DEF c
  <2>. QED BY <2>2, <2>3
<1>5. CASE r # Unknown /\ md \in {"cool", "heat", "emheat"}
  <2>1. PICK g \in Families, b \in BOOLEAN : c = evalSimple(m, g, r, b)
    BY <1>5 DEF updateCalls, Families
  <2>2. /\ c.trig = m.trig
        /\ \/ c = m
           \/ m.type = g /\ c = e
           \/ m.type = "none" /\ c = startCall(m, g, b)
    BY <2>1, SimpleStep
  <2>3. c.trig[f] = Disarmed /\ ~due /\ md # "auto"
    BY <1>5, <2>2
  <2>4. startCall(m, g, b).type = g /\ startCall(m, g, b).ended = m.ended
        /\ startCall(m, g, b).lastEnded = m.lastEnded
    BY StartCall
  <2>. HIDE DEF c, due, e
  <2>. QED BY <1>1, <1>2, <2>2, <2>3, <2>4 DEF c, due
<1>. QED BY <1>3, <1>4, <1>5 DEF Modes

-----------------------------------------------------------------------------
(* One cycle *)

Called == updateCalls(calls, mode, room, compressorProvenIdle)
Chosen(call) == stepDual(dual, call = "heat", room, oat, comp.on = "hp")

(* DualStep for the cycle at hand. *)
LEMMA ChosenStep ==
  ASSUME TypeOK, NEW call
  PROVE  Evolves(dual, Chosen(call), room, oat, comp.on = "hp")
<1>1. (call = "heat") \in BOOLEAN /\ (comp.on = "hp") \in BOOLEAN
  OBVIOUS
<1>2. dual \in DualStates /\ room \in Rooms \cup {Unknown} /\ oat \in Oats \cup {NoOat}
  BY DEF TypeOK
<1>. QED BY <1>1, <1>2, DualStep, Zenon DEF Chosen

LEMMA CycleStep ==
  ASSUME TypeOK, Cycles
  PROVE  /\ Called \in CallStates /\ calls' = Aged(Called)
         /\ UNCHANGED <<mode, room, oat>>
         /\ \E call \in Families \cup {"none"} :
              /\ Called.type = "none" => request' = "none"
              /\ request' \in Requests
              /\ request' = "hp" => Chosen(call).source = "hp"
              /\ Chosen(call) \in DualStates /\ dual' = AgedDual(Chosen(call))
              /\ Observe(Called, Chosen(call))
         /\ \E dropped \in BOOLEAN : comp' \in Compressor(request', dropped)
<1>1. PICK degraded \in BOOLEAN, warm \in BOOLEAN, dropped \in BOOLEAN :
        Cycle(degraded, warm, dropped)
  BY DEF Cycles
<1>. DEFINE call == Effective(Called, degraded, warm)
<1>2. Called \in CallStates
  BY UpdateType DEF TypeOK, Called, compressorProvenIdle
<1>3. call \in Families \cup {"none"} /\ (Called.type = "none" => call = "none")
  BY <1>2 DEF Effective, CallStates
<1>4. Chosen(call) \in DualStates
  BY ChosenStep DEF Evolves
<1>5. /\ UNCHANGED <<mode, room, oat>>
      /\ calls' = Aged(Called) /\ dual' = AgedDual(Chosen(call))
      /\ request' = Requested(call, Called.gasOnly, Chosen(call).source, degraded, warm)
      /\ comp' \in Compressor(request', dropped)
      /\ Observe(Called, Chosen(call))
  BY <1>1 DEF Cycle, Called, Chosen
<1>. HIDE DEF call
<1>6. /\ request' \in Requests /\ (call = "none" => request' = "none")
      /\ request' = "hp" => Chosen(call).source = "hp"
  BY <1>3, <1>4, <1>5 DEF Requested, Requests, DualStates, Families
<1>. QED BY <1>2, <1>3, <1>4, <1>5, <1>6

LEMMA CompressorStep ==
  ASSUME comp \in [on : {"off", "hp", "cool"}, since : Nat],
         NEW for \in Requests, NEW dropped \in BOOLEAN, NEW k \in Compressor(for, dropped)
  PROVE  /\ k \in [on : {"off", "hp", "cool"}, since : Nat]
         /\ \/ comp.on = "off" /\ k.on = "off" /\ k.since = UpTo(comp.since, MinOffS)
            \/ comp.on = "off" /\ for # "none" /\ k.on # "off" /\ k.since = 0
            \/ comp.on # "off" /\ k.on = "off" /\ k.since = 0
            \/ /\ comp.on # "off" /\ k.on = comp.on
               /\ k.since = UpTo(comp.since, MinOnS)
               /\ comp.since < MinOnS \/ for # "none"
<1>1. /\ UpTo(comp.since, MinOffS) \in Nat /\ UpTo(comp.since, MinOnS) \in Nat
  BY Constants DEF UpTo
<1>2. CASE comp.on = "off"
  <2>1. k = [comp EXCEPT !.since = UpTo(@, MinOffS)] \/ k \in Starts(for)
    BY <1>2 DEF Compressor
  <2>2. CASE k = [comp EXCEPT !.since = UpTo(@, MinOffS)]
    BY <1>1, <1>2, <2>2
  <2>3. CASE k \in Starts(for)
    BY <1>2, <2>3 DEF Starts
  <2>. QED BY <2>1, <2>2, <2>3
<1>3. CASE comp.on # "off"
  <2>1. k = [on |-> "off", since |-> 0] \/ k \in Runs(for, dropped)
    BY <1>3 DEF Compressor
  <2>2. CASE k \in Runs(for, dropped)
    BY <1>1, <1>3, <2>2 DEF Runs
  <2>. QED BY <1>3, <2>1, <2>2
<1>. QED BY <1>2, <1>3

-----------------------------------------------------------------------------
(* Types *)

LEMMA InitType == Init => TypeOK
<1>1. 0 \in 0..(LongestWait + 1) /\ ChangeoverDwellS \in 0..ChangeoverDwellS
      /\ 0 \in 0..(EscalationMinS + 1) /\ DeescalationMinS \in 0..DeescalationMinS
  BY Constants, LongestWaitBounds
<1>2. NewCalls \in CallStates
  <2>1. NoTriggers \in [Families -> Disarmed..ChangeoverSustainS]
    BY Constants DEF NoTriggers, Disarmed
  <2>. QED BY <1>1, <2>1 DEF NewCalls, CallStates
<1>3. NewDual \in DualStates
  BY Constants DEF NewDual, DualStates, NotOn
<1>4. [on |-> "off", since |-> 0] \in [on : {"off", "hp", "cool"}, since : Nat]
  OBVIOUS
<1>. QED BY <1>1, <1>2, <1>3, <1>4 DEF Init, TypeOK, Requests

LEMMA StepType == TypeOK /\ [Next]_vars => TypeOK'
<1>. SUFFICES ASSUME TypeOK, [Next]_vars
              PROVE  TypeOK'
  OBVIOUS
<1>1. CASE Cycles
  <2>1. PICK call \in Families \cup {"none"} :
          /\ Called \in CallStates /\ calls' = Aged(Called)
          /\ UNCHANGED <<mode, room, oat>>
          /\ request' \in Requests
          /\ Chosen(call) \in DualStates /\ dual' = AgedDual(Chosen(call))
          /\ Observe(Called, Chosen(call))
    BY <1>1, CycleStep
  <2>2. calls' \in CallStates /\ dual' \in DualStates
    BY <2>1, AgedType, AgedDualType
  <2>3. comp' \in [on : {"off", "hp", "cool"}, since : Nat]
    <3>1. comp \in [on : {"off", "hp", "cool"}, since : Nat]
      BY DEF TypeOK
    <3>2. PICK dropped \in BOOLEAN : comp' \in Compressor(request', dropped)
      BY <1>1, CycleStep
    <3>. QED BY <2>1, <3>1, <3>2, CompressorStep
  <2>4. lastServed' \in Families \cup {"none"}
    BY <2>1 DEF Observe, TypeOK, CallStates
  <2>5. served' \in [Families -> 0..ChangeoverDwellS]
    <3>1. \A f \in Families : served[f] \in 0..ChangeoverDwellS
      BY DEF TypeOK
    <3>. QED BY <2>1, <3>1, Constants, UpToType DEF Observe
  <2>6. triggered' \in [Families -> 0..(LongestWait + 1)]
    <3>1. \A f \in Families : triggered[f] \in 0..(LongestWait + 1)
      BY DEF TypeOK
    <3>2. LongestWait + 1 \in Nat
      BY LongestWaitBounds
    <3>. QED BY <2>1, <3>1, <3>2, UpToType DEF Observe
  <2>7. drooping' \in 0..(EscalationMinS + 1) /\ hpRan' \in BOOLEAN
    <3>1. EscalationMinS + 1 \in Nat /\ drooping \in 0..(EscalationMinS + 1)
      BY Constants DEF TypeOK
    <3>2. UpTo(drooping, EscalationMinS + 1) \in 0..(EscalationMinS + 1)
      BY <3>1, UpToType
    <3>. QED BY <2>1, <3>1, <3>2 DEF Observe
  <2>8. escalation' \in 0..DeescalationMinS
    <3>1. UpTo(escalation, DeescalationMinS) \in 0..DeescalationMinS
      BY Constants, UpToType DEF TypeOK
    <3>. QED BY <2>1, <3>1, Constants DEF Observe
  <2>. QED BY <2>1, <2>2, <2>3, <2>4, <2>5, <2>6, <2>7, <2>8 DEF TypeOK
<1>2. CASE \E m \in Modes : SetMode(m)
  <2>1. setMode(calls) \in CallStates
    BY EndCall, ResetType DEF setMode, TypeOK
  <2>2. 0 \in 0..(LongestWait + 1)
    BY LongestWaitBounds
  <2>. QED BY <1>2, <2>1, <2>2 DEF SetMode, TypeOK
<1>3. CASE \E r \in Rooms \cup {Unknown} : Sense(r)
  BY <1>3 DEF Sense, TypeOK, history
<1>4. CASE \E o \in Oats \cup {NoOat} : Outdoors(o)
  BY <1>4 DEF Outdoors, TypeOK, history
<1>5. CASE UNCHANGED vars
  BY <1>5 DEF vars, history, TypeOK
<1>. QED BY <1>1, <1>2, <1>3, <1>4, <1>5 DEF Next

(* The calls, the dual-fuel record, the compressor and every history stay in  *)
(* their ranges, whatever the thresholds and timers.                          *)
THEOREM TypeCorrect == Spec => []TypeOK
<1>. QED BY InitType, StepType, PTL DEF Spec

-----------------------------------------------------------------------------
(* What the stamps say of the past *)

(* A trigger's stamp is no older than the room has asked for, and a call's    *)
(* end no older than that family has been off.                                *)
CreditStands ==
  \A f \in Families : calls.type # f =>
    calls.trig[f] <= triggered[f] /\ calls.ended[f] <= served[f]

(* The call that ended last is the one that was served last.                  *)
CallStands ==
  IF calls.type = "none" THEN calls.lastEnded = lastServed
  ELSE lastServed = calls.type /\ calls.trig[Other(calls.type)] = Disarmed

AutoOnly ==
  mode # "auto" => \A f \in Families : calls.trig[f] = Disarmed /\ triggered[f] = 0

CompBounds == comp.since <= IF comp.on = "off" THEN MinOffS ELSE MinOnS

(* A call withheld for k cycles: its stamp, the other call's end and the      *)
(* compressor's rest have all aged by k, but for the run that may come first.  *)
AtLeast(n, k, cap) == n >= k \/ n >= cap
Withheld ==
  \A f \in Families : LET k == triggered[f] IN
    k > 0 /\ calls.type # f =>
      /\ calls.type = "none" /\ k <= LongestWait
      /\ AtLeast(calls.trig[f], k, ChangeoverSustainS)
      /\ AtLeast(calls.ended[Other(f)], k, ChangeoverDwellS)
      /\ IF comp.on = "off" THEN AtLeast(comp.since, k - (MinOnS + 1), MinOffS)
         ELSE comp.since >= k

(* The droop clock and its saturation, and the escalation's age.  A choice    *)
(* given up and made again in one cycle leaves the clock running.             *)
DualStands ==
  /\ dual.droop = NotOn => ~dual.satSeen
  /\ IF dual.escalated
     THEN /\ dual.droop = NotOn \/ (dual.satSeen /\ dual.droop >= EscalationMinS)
          /\ dual.escFor <= escalation + 1
     ELSE /\ dual.droop <= drooping /\ (dual.satSeen => hpRan)
          /\ escalation + 1 >= DeescalationMinS

CallInv == CreditStands /\ CallStands /\ AutoOnly

(* Ages keep their order as they grow. *)
LEMMA UpToOrder ==
  ASSUME NEW cap \in Nat, NEW wide \in Nat, cap <= wide,
         NEW n \in Int, NEW k \in Int, n <= k
  PROVE  UpTo(n, cap) <= UpTo(k, wide)
BY DEF UpTo

(* A cycle, with the hypotheses of CallsStep discharged. *)
LEMMA CalledStep ==
  ASSUME TypeOK, CallInv, NEW f \in Families
  PROVE  LET c   == Called
             due == mode = "auto" /\ room # Unknown /\ Triggers(f, room)
         IN /\ c.type # f => c.ended[f] = IF calls.type = f THEN 0 ELSE calls.ended[f]
            /\ c.type = "none" \/ c.type # calls.type =>
                 c.lastEnded = IF calls.type = "none" THEN calls.lastEnded ELSE calls.type
            /\ ~due /\ (c.type # f \/ mode # "auto") => c.trig[f] = Disarmed
            /\ due /\ calls.type # f =>
                 c.trig[f] = IF calls.trig[f] = Disarmed THEN 0 ELSE calls.trig[f]
            /\ c.type = Other(f) => c.trig[f] = Disarmed
            /\ due => c.type # Other(f) /\ (calls.type = f => c.type = f)
            /\ due /\ c.type # f => ~mayStart(c, f, compressorProvenIdle)
            /\ mode = "auto" /\ c.type = f /\ calls.type # f =>
                 due /\ mayStart(c, f, compressorProvenIdle)
<1>1. /\ calls \in CallStates /\ mode \in Modes /\ room \in Rooms \cup {Unknown}
      /\ compressorProvenIdle \in BOOLEAN
  BY DEF TypeOK, compressorProvenIdle
<1>2. /\ mode # "auto" => \A g \in Families : calls.trig[g] = Disarmed
      /\ calls.type # "none" => calls.trig[Other(calls.type)] = Disarmed
  BY DEF CallInv, AutoOnly, CallStands
<1>. QED BY <1>1, <1>2, CallsStep DEF Called

LEMMA HistoryRange ==
  ASSUME TypeOK, NEW f \in Families
  PROVE  /\ calls.ended[f] \in 0..ChangeoverDwellS
         /\ calls.trig[f] \in Disarmed..ChangeoverSustainS
         /\ served[f] \in 0..ChangeoverDwellS
         /\ triggered[f] \in 0..(LongestWait + 1)
         /\ Called.ended[f] \in 0..ChangeoverDwellS
         /\ Called.trig[f] \in Disarmed..ChangeoverSustainS
<1>1. Called \in CallStates
  BY UpdateType DEF TypeOK, Called, compressorProvenIdle
<1>2. /\ calls.ended[f] \in 0..ChangeoverDwellS
      /\ calls.trig[f] \in Disarmed..ChangeoverSustainS
  BY AgedType DEF TypeOK
<1>3. /\ Called.ended[f] \in 0..ChangeoverDwellS
      /\ Called.trig[f] \in Disarmed..ChangeoverSustainS
  BY <1>1, AgedType
<1>4. served[f] \in 0..ChangeoverDwellS /\ triggered[f] \in 0..(LongestWait + 1)
  BY DEF TypeOK
<1>. QED BY <1>2, <1>3, <1>4

(* After a cycle, in terms of what it called. *)
LEMMA AfterCycle ==
  ASSUME TypeOK, Cycles, NEW f \in Families
  PROVE  /\ calls'.type = Called.type /\ calls'.lastEnded = Called.lastEnded
         /\ calls'.ended[f] = UpTo(Called.ended[f], ChangeoverDwellS)
         /\ calls'.trig[f] = IF Called.trig[f] = Disarmed THEN Disarmed
                             ELSE UpTo(Called.trig[f], ChangeoverSustainS)
         /\ lastServed' = IF Called.type = "none" THEN lastServed ELSE Called.type
         /\ served'[f] = IF Called.type = f THEN 0 ELSE UpTo(served[f], ChangeoverDwellS)
         /\ triggered'[f] = IF mode = "auto" /\ room # Unknown /\ Triggers(f, room)
                            THEN UpTo(triggered[f], LongestWait + 1) ELSE 0
         /\ UNCHANGED <<mode, room, oat>>
<1>1. /\ Called \in CallStates /\ calls' = Aged(Called) /\ UNCHANGED <<mode, room, oat>>
      /\ \E call : Observe(Called, Chosen(call))
  BY CycleStep
<1>. QED BY <1>1, AgedType DEF Observe

LEMMA CreditStep ==
  ASSUME TypeOK, CallInv, Cycles, NEW f \in Families, Called.type # f
  PROVE  calls'.trig[f] <= triggered'[f] /\ calls'.ended[f] <= served'[f]
<1>. DEFINE c == Called
            due == mode = "auto" /\ room # Unknown /\ Triggers(f, room)
<1>1. /\ c.ended[f] = IF calls.type = f THEN 0 ELSE calls.ended[f]
      /\ ~due => c.trig[f] = Disarmed
      /\ due => /\ calls.type # f
                /\ c.trig[f] = IF calls.trig[f] = Disarmed THEN 0 ELSE calls.trig[f]
  BY CalledStep
<1>2. /\ calls'.ended[f] = UpTo(c.ended[f], ChangeoverDwellS)
      /\ calls'.trig[f] = IF c.trig[f] = Disarmed THEN Disarmed
                          ELSE UpTo(c.trig[f], ChangeoverSustainS)
      /\ served'[f] = UpTo(served[f], ChangeoverDwellS)
      /\ triggered'[f] = IF due THEN UpTo(triggered[f], LongestWait + 1) ELSE 0
  BY AfterCycle
<1>3. calls.type # f => calls.trig[f] <= triggered[f] /\ calls.ended[f] <= served[f]
  BY DEF CallInv, CreditStands
<1>4. /\ calls.ended[f] \in Nat /\ served[f] \in Nat /\ triggered[f] \in Nat
      /\ calls.trig[f] \in Int /\ c.trig[f] \in Int /\ c.ended[f] \in Nat
  BY HistoryRange, LongestWaitBounds, Constants DEF Disarmed
<1>. HIDE DEF c, due
<1>5. calls'.ended[f] <= served'[f]
  <2>1. c.ended[f] <= served[f]
    BY <1>1, <1>3, <1>4
  <2>. QED BY <1>2, <1>4, <2>1, UpToOrder, Constants
<1>6. calls'.trig[f] <= triggered'[f]
  <2>1. CASE ~due
    BY <1>1, <1>2, <2>1 DEF Disarmed
  <2>2. CASE due
    <3>1. c.trig[f] <= triggered[f] /\ c.trig[f] # Disarmed
      BY <1>1, <1>3, <1>4, <2>2 DEF Disarmed
    <3>2. ChangeoverSustainS <= LongestWait + 1 /\ LongestWait + 1 \in Nat
      BY LongestWaitBounds, Constants
    <3>. QED BY <1>2, <1>4, <2>2, <3>1, <3>2, UpToOrder, Constants
  <2>. QED BY <2>1, <2>2
<1>. QED BY <1>5, <1>6

LEMMA CallInvInit == Init => CallInv
<1>. SUFFICES ASSUME Init PROVE CallInv
  OBVIOUS
<1>1. /\ calls.type = "none" /\ calls.lastEnded = "none" /\ lastServed = "none"
      /\ \A f \in Families : /\ calls.trig[f] = Disarmed /\ triggered[f] = 0
                            /\ calls.ended[f] = ChangeoverDwellS
                            /\ served[f] = ChangeoverDwellS
  BY DEF Init, NewCalls, NoTriggers
<1>. QED BY <1>1, Constants DEF CallInv, CreditStands, CallStands, AutoOnly, Disarmed

LEMMA CallInvStep == TypeOK /\ CallInv /\ [Next]_vars => CallInv'
<1>. SUFFICES ASSUME TypeOK, CallInv, [Next]_vars
              PROVE  CallInv'
  OBVIOUS
<1>1. CASE Cycles
  <2>1. CreditStands'
    BY <1>1, AfterCycle, CreditStep DEF CreditStands
  <2>2. Called \in CallStates /\ "heat" \in Families
    BY <1>1, CycleStep DEF Families
  <2>3. CallStands'
    <3>1. CASE Called.type = "none"
      <4>1. Called.lastEnded = IF calls.type = "none" THEN calls.lastEnded ELSE calls.type
        BY <2>2, <3>1, CalledStep
      <4>2. lastServed' = lastServed /\ calls'.type = "none"
            /\ calls'.lastEnded = Called.lastEnded
        BY <1>1, <2>2, <3>1, AfterCycle
      <4>. QED BY <4>1, <4>2 DEF CallInv, CallStands
    <3>2. CASE Called.type # "none"
      <4>1. /\ Called.type \in Families /\ Other(Called.type) \in Families
            /\ Other(Other(Called.type)) = Called.type
        BY <2>2, <3>2, OtherType DEF CallStates
      <4>2. Called.trig[Other(Called.type)] = Disarmed
        BY <4>1, CalledStep
      <4>3. calls'.type = Called.type /\ lastServed' = Called.type
        BY <1>1, <2>2, <3>2, AfterCycle
      <4>4. calls'.trig[Other(Called.type)] = Disarmed
        BY <1>1, <4>1, <4>2, AfterCycle
      <4>. QED BY <3>2, <4>3, <4>4 DEF CallStands
    <3>. QED BY <3>1, <3>2
  <2>4. AutoOnly'
    <3>1. ASSUME mode' # "auto", NEW f \in Families
          PROVE  calls'.trig[f] = Disarmed /\ triggered'[f] = 0
      <4>1. mode # "auto" /\ triggered'[f] = 0
        BY <1>1, <3>1, AfterCycle
      <4>2. Called.trig[f] = Disarmed
        BY <4>1, CalledStep
      <4>. QED BY <1>1, <4>1, <4>2, AfterCycle
    <3>. QED BY <3>1 DEF AutoOnly
  <2>. QED BY <2>1, <2>3, <2>4 DEF CallInv
<1>2. CASE \E m \in Modes : SetMode(m)
  <2>1. /\ calls' = resetTriggers(endActiveCall(calls)) /\ calls \in CallStates
        /\ triggered' = [f \in Families |-> 0] /\ UNCHANGED <<lastServed, served>>
    BY <1>2 DEF SetMode, setMode, TypeOK
  <2>2. /\ endActiveCall(calls) \in CallStates /\ calls'.type = "none"
        /\ \A f \in Families : calls'.trig[f] = Disarmed
        /\ calls'.ended = endActiveCall(calls).ended
        /\ calls'.lastEnded = IF calls.type = "none" THEN calls.lastEnded ELSE calls.type
    <3>1. endActiveCall(calls) \in CallStates
      BY <2>1, EndCall
    <3>2. /\ calls'.type = endActiveCall(calls).type /\ calls'.trig = NoTriggers
          /\ calls'.ended = endActiveCall(calls).ended
          /\ calls'.lastEnded = endActiveCall(calls).lastEnded
      BY <2>1, <3>1, ResetType
    <3>. QED BY <2>1, <3>1, <3>2, EndCall DEF NoTriggers
  <2>3. \A f \in Families : calls'.ended[f] = IF calls.type = f THEN 0 ELSE calls.ended[f]
    <3>1. calls.ended \in [Families -> 0..ChangeoverDwellS]
      BY <2>1 DEF CallStates
    <3>2. calls'.ended = IF calls.type = "none" THEN calls.ended
                         ELSE [calls.ended EXCEPT ![calls.type] = 0]
      BY <2>1, <2>2, EndCall
    <3>. QED BY <3>1, <3>2, OtherType
  <2>4. CreditStands'
    <3>1. ASSUME NEW f \in Families
          PROVE  calls'.trig[f] <= triggered'[f] /\ calls'.ended[f] <= served'[f]
      <4>1. calls.type # f => calls.ended[f] <= served[f]
        BY DEF CallInv, CreditStands
      <4>2. served[f] \in Nat
        BY HistoryRange, Constants
      <4>. QED BY <2>1, <2>2, <2>3, <4>1, <4>2 DEF Disarmed
    <3>. QED BY <3>1 DEF CreditStands
  <2>5. CallStands'
    BY <2>1, <2>2 DEF CallInv, CallStands
  <2>6. AutoOnly'
    BY <2>1, <2>2 DEF AutoOnly
  <2>. QED BY <2>4, <2>5, <2>6 DEF CallInv
<1>3. CASE UNCHANGED <<mode, calls, lastServed, served, triggered>>
  BY <1>3 DEF CallInv, CreditStands, CallStands, AutoOnly
<1>4. (\E r \in Rooms \cup {Unknown} : Sense(r)) \/ (\E o \in Oats \cup {NoOat} : Outdoors(o))
        \/ UNCHANGED vars
        => UNCHANGED <<mode, calls, lastServed, served, triggered>>
  BY DEF Sense, Outdoors, vars, history
<1>. QED BY <1>1, <1>2, <1>3, <1>4 DEF Next

-----------------------------------------------------------------------------
(* A call withheld ages towards its start *)

LEMMA WithheldStep ==
  ASSUME TypeOK, CallInv, CompBounds, Withheld, Cycles,
         NEW f \in Families, triggered'[f] > 0, calls'.type # f
  PROVE  LET k == triggered'[f] IN
           /\ calls'.type = "none" /\ k <= LongestWait
           /\ AtLeast(calls'.trig[f], k, ChangeoverSustainS)
           /\ AtLeast(calls'.ended[Other(f)], k, ChangeoverDwellS)
           /\ IF comp'.on = "off" THEN AtLeast(comp'.since, k - (MinOnS + 1), MinOffS)
              ELSE comp'.since >= k
<1>. DEFINE k == triggered[f]
            g == Other(f)
            due == mode = "auto" /\ room # Unknown /\ Triggers(f, room)
<1>1. /\ g \in Families /\ Other(g) = f /\ g # f /\ g # "none" /\ f # "none"
      /\ \A h \in Families : h = f \/ h = g
  BY OtherType
<1>2. due /\ triggered'[f] = UpTo(k, LongestWait + 1) /\ Called.type = calls'.type
  BY AfterCycle
<1>3. calls.type # f /\ Called.type = "none" /\ ~mayStart(Called, f, compressorProvenIdle)
  <2>1. Called.type \in Families \cup {"none"}
    BY CycleStep DEF CallStates
  <2>. QED BY <1>1, <1>2, <2>1, CalledStep
<1>4. /\ Called.trig[f] = IF calls.trig[f] = Disarmed THEN 0 ELSE calls.trig[f]
      /\ Called.ended[g] = IF calls.type = g THEN 0 ELSE calls.ended[g]
  BY <1>1, <1>2, <1>3, CalledStep
<1>5. /\ k \in Nat /\ calls.trig[f] \in Int /\ calls.trig[f] >= Disarmed
      /\ calls.ended[g] \in Nat /\ Called.trig[f] \in Int /\ Called.ended[g] \in Nat
  BY <1>1, HistoryRange, LongestWaitBounds, Constants DEF Disarmed
<1>6. k > 0 => /\ calls.type = "none" /\ k <= LongestWait
               /\ AtLeast(calls.trig[f], k, ChangeoverSustainS)
               /\ AtLeast(calls.ended[g], k, ChangeoverDwellS)
               /\ IF comp.on = "off" THEN AtLeast(comp.since, k - (MinOnS + 1), MinOffS)
                  ELSE comp.since >= k
  BY <1>3 DEF Withheld
<1>7. /\ calls'.trig[f] = IF Called.trig[f] = Disarmed THEN Disarmed
                          ELSE UpTo(Called.trig[f], ChangeoverSustainS)
      /\ calls'.ended[g] = UpTo(Called.ended[g], ChangeoverDwellS)
  BY <1>1, AfterCycle
<1>8. /\ MinOnS \in Nat \ {0} /\ MinOffS \in Nat \ {0} /\ LongestWait \in Nat
      /\ ChangeoverSustainS \in Nat /\ ChangeoverDwellS \in Nat
      /\ LongestWait >= ChangeoverSustainS /\ LongestWait >= ChangeoverDwellS
      /\ LongestWait >= MinOnS + MinOffS + 1
  BY LongestWaitBounds, Constants
<1>9. comp.since \in Nat /\ comp.since <= IF comp.on = "off" THEN MinOffS ELSE MinOnS
  BY DEF TypeOK, CompBounds
<1>10. /\ AtLeast(Called.trig[f], k, ChangeoverSustainS) /\ Called.trig[f] >= 0
       /\ AtLeast(Called.ended[g], k, ChangeoverDwellS)
  <2>1. CASE k = 0
    BY <1>4, <1>5, <2>1 DEF AtLeast, Disarmed
  <2>2. CASE k > 0
    BY <1>1, <1>4, <1>5, <1>6, <1>8, <2>2 DEF AtLeast, Disarmed
  <2>. QED BY <1>5, <2>1, <2>2
<1>11. k <= LongestWait /\ triggered'[f] = k + 1
  <2>1. k <= LongestWait
    BY <1>5, <1>6, <1>8
  <2>. QED BY <1>2, <1>5, <1>8, <2>1 DEF UpTo
<1>12. k + 1 <= LongestWait
  <2>1. \/ Called.trig[f] < ChangeoverSustainS
        \/ Called.ended[g] < ChangeoverDwellS
        \/ ~compressorProvenIdle
    BY <1>3, <1>5, <1>8 DEF mayStart
  <2>2. CASE Called.trig[f] < ChangeoverSustainS
    BY <1>5, <1>8, <1>10, <2>2 DEF AtLeast
  <2>3. CASE Called.ended[g] < ChangeoverDwellS
    BY <1>5, <1>8, <1>10, <2>3 DEF AtLeast
  <2>4. CASE ~compressorProvenIdle
    <3>1. CASE k = 0
      BY <1>8, <3>1
    <3>2. CASE k > 0 /\ comp.on = "off"
      <4>1. comp.since < MinOffS /\ AtLeast(comp.since, k - (MinOnS + 1), MinOffS)
        BY <1>6, <1>8, <1>9, <2>4, <3>2 DEF compressorProvenIdle
      <4>. QED BY <1>5, <1>8, <1>9, <4>1 DEF AtLeast
    <3>3. CASE k > 0 /\ comp.on # "off"
      BY <1>5, <1>6, <1>8, <1>9, <3>3
    <3>. QED BY <1>5, <3>1, <3>2, <3>3
  <2>. QED BY <2>1, <2>2, <2>3, <2>4
<1>13. /\ AtLeast(calls'.trig[f], k + 1, ChangeoverSustainS)
       /\ AtLeast(calls'.ended[g], k + 1, ChangeoverDwellS)
  BY <1>5, <1>7, <1>8, <1>10 DEF AtLeast, UpTo, Disarmed
<1>14. IF comp'.on = "off" THEN AtLeast(comp'.since, k + 1 - (MinOnS + 1), MinOffS)
       ELSE comp'.since >= k + 1
  <2>1. request' = "none" /\ request' \in Requests
    BY <1>3, CycleStep
  <2>2. PICK dropped \in BOOLEAN : comp' \in Compressor(request', dropped)
    BY CycleStep
  <2>3. comp \in [on : {"off", "hp", "cool"}, since : Nat]
    BY DEF TypeOK
  <2>4. \/ comp.on = "off" /\ comp'.on = "off" /\ comp'.since = UpTo(comp.since, MinOffS)
        \/ comp.on # "off" /\ comp'.on = "off" /\ comp'.since = 0
        \/ /\ comp.on # "off" /\ comp'.on # "off" /\ comp.since < MinOnS
           /\ comp'.since = UpTo(comp.since, MinOnS)
    BY <2>1, <2>2, <2>3, CompressorStep
  <2>5. CASE comp.on = "off" /\ comp'.on = "off" /\ comp'.since = UpTo(comp.since, MinOffS)
    <3>1. k > 0 => AtLeast(comp.since, k - (MinOnS + 1), MinOffS)
      BY <1>6, <2>5
    <3>. QED BY <1>5, <1>8, <1>9, <2>5, <3>1 DEF AtLeast, UpTo
  <2>6. CASE comp.on # "off" /\ comp'.on = "off" /\ comp'.since = 0
    BY <1>5, <1>6, <1>8, <1>9, <2>6 DEF AtLeast
  <2>7. CASE /\ comp.on # "off" /\ comp'.on # "off" /\ comp.since < MinOnS
             /\ comp'.since = UpTo(comp.since, MinOnS)
    BY <1>5, <1>6, <1>8, <1>9, <2>7 DEF UpTo
  <2>. QED BY <2>4, <2>5, <2>6, <2>7
<1>15. calls'.type = "none"
  BY <1>2, <1>3
<1>16. k \in Int /\ MinOnS \in Int /\ comp'.since \in Int
  <2>1. comp'.since \in Nat
    BY StepType DEF Next, TypeOK
  <2>. QED BY <1>5, <1>8, <2>1
<1>. HIDE DEF k
<1>. QED BY <1>11, <1>12, <1>13, <1>14, <1>15, <1>16 DEF AtLeast

WaitInv == CompBounds /\ Withheld

LEMMA WaitInit == Init => WaitInv
BY Constants DEF Init, WaitInv, CompBounds, Withheld

LEMMA WaitStep == TypeOK /\ CallInv /\ WaitInv /\ [Next]_vars => WaitInv'
<1>. SUFFICES ASSUME TypeOK, CallInv, CompBounds, Withheld, [Next]_vars
              PROVE  WaitInv'
  BY DEF WaitInv
<1>1. CASE Cycles
  <2>1. CompBounds'
    <3>1. PICK dropped \in BOOLEAN : comp' \in Compressor(request', dropped)
      BY <1>1, CycleStep
    <3>2. request' \in Requests /\ comp \in [on : {"off", "hp", "cool"}, since : Nat]
      BY <1>1, CycleStep DEF TypeOK
    <3>3. /\ comp.since \in Nat /\ MinOnS \in Nat /\ MinOffS \in Nat
          /\ \/ comp.on = "off" /\ comp'.on = "off" /\ comp'.since = UpTo(comp.since, MinOffS)
             \/ comp'.since = 0
             \/ comp'.on = comp.on /\ comp'.on # "off" /\ comp'.since = UpTo(comp.since, MinOnS)
      BY <3>1, <3>2, CompressorStep, Constants
    <3>. QED BY <3>3 DEF CompBounds, UpTo
  <2>2. Withheld'
    BY <1>1, WithheldStep DEF Withheld
  <2>. QED BY <2>1, <2>2 DEF WaitInv
<1>2. CASE \E m \in Modes : SetMode(m)
  <2>1. (\A f \in Families : triggered'[f] = 0) /\ comp' = comp
    BY <1>2 DEF SetMode
  <2>. QED BY <2>1 DEF WaitInv, Withheld, CompBounds
<1>3. CASE UNCHANGED <<calls, comp, triggered>>
  BY <1>3 DEF WaitInv, Withheld, CompBounds
<1>4. (\E r \in Rooms \cup {Unknown} : Sense(r)) \/ (\E o \in Oats \cup {NoOat} : Outdoors(o))
        \/ UNCHANGED vars
        => UNCHANGED <<calls, comp, triggered>>
  BY DEF Sense, Outdoors, vars, history
<1>. QED BY <1>1, <1>2, <1>3, <1>4 DEF Next

-----------------------------------------------------------------------------
(* The droop clock and the escalation's age *)

LEMMA DualInit == Init => DualStands
BY Constants DEF Init, DualStands, NewDual, NotOn

LEMMA DualRange ==
  ASSUME TypeOK
  PROVE  /\ dual.droop \in Int /\ dual.droop >= NotOn /\ dual.droop <= EscalationMinS
         /\ dual.escFor \in Nat /\ dual.escFor <= DeescalationMinS
         /\ dual.escalated \in BOOLEAN /\ dual.satSeen \in BOOLEAN
         /\ drooping \in Nat /\ hpRan \in BOOLEAN /\ escalation \in Nat
         /\ EscalationMinS \in Nat /\ DeescalationMinS \in Nat
BY Constants DEF TypeOK, DualStates, NotOn

LEMMA DualStandsStep == TypeOK /\ DualStands /\ [Next]_vars => DualStands'
<1>. SUFFICES ASSUME TypeOK, DualStands, [Next]_vars
              PROVE  DualStands'
  OBVIOUS
<1>1. CASE Cycles
  <2>1. PICK call \in Families \cup {"none"} :
          /\ Chosen(call) \in DualStates /\ dual' = AgedDual(Chosen(call))
          /\ Observe(Called, Chosen(call))
    BY <1>1, CycleStep
  <2>. DEFINE n == Chosen(call)
              age == IF dual.droop = NotOn THEN 0 ELSE dual.droop
              sat == comp.on = "hp" \/ dual.satSeen
              onHp == room <= -3 /\ (n.source = "hp" \/ (n.escalated /\ ~dual.escalated))
  <2>2. \/ /\ dual.escalated /\ n.escalated
           /\ n.escFor = dual.escFor /\ n.droop = NotOn /\ ~n.satSeen
        \/ /\ n.escalated /\ n.escFor = 0 /\ room <= -3
           /\ n.droop = age /\ age >= EscalationMinS
           /\ n.satSeen /\ sat
        \/ /\ ~n.escalated /\ n.droop = NotOn /\ ~n.satSeen
           /\ dual.escalated => dual.escFor >= DeescalationMinS
        \/ /\ ~n.escalated /\ n.droop = age /\ n.satSeen = sat
           /\ n.satSeen => age < EscalationMinS
           /\ room <= -3 /\ n.source = "hp"
           /\ dual.escalated => dual.escFor >= DeescalationMinS
    BY ChosenStep DEF Evolves
  <2>3. /\ dual'.escalated = n.escalated /\ dual'.satSeen = n.satSeen
        /\ dual'.escFor = UpTo(n.escFor, DeescalationMinS)
        /\ dual'.droop = IF n.droop = NotOn THEN NotOn ELSE UpTo(n.droop, EscalationMinS)
    BY <2>1, AgedDualType
  <2>4. /\ drooping' = IF onHp THEN UpTo(drooping, EscalationMinS + 1) ELSE 0
        /\ hpRan' = (onHp /\ (hpRan \/ comp.on = "hp"))
        /\ escalation' = IF n.escalated /\ ~dual.escalated THEN 0
                         ELSE UpTo(escalation, DeescalationMinS)
    BY <2>1 DEF Observe
  <2>5. /\ dual.droop = NotOn => ~dual.satSeen
        /\ IF dual.escalated
           THEN /\ dual.droop = NotOn \/ (dual.satSeen /\ dual.droop >= EscalationMinS)
                /\ dual.escFor <= escalation + 1
           ELSE /\ dual.droop <= drooping /\ (dual.satSeen => hpRan)
                /\ escalation + 1 >= DeescalationMinS
    BY DEF DualStands
  <2>6. n.escFor \in Nat /\ n.escalated \in BOOLEAN /\ n.satSeen \in BOOLEAN
    BY <2>1 DEF DualStates
  <2>7. age \in Nat /\ NotOn = -1
    BY DualRange DEF NotOn
  <2>. HIDE DEF n, onHp, sat, age
  <2>8. CASE /\ dual.escalated /\ n.escalated
             /\ n.escFor = dual.escFor /\ n.droop = NotOn /\ ~n.satSeen
    BY <2>3, <2>4, <2>5, <2>8, DualRange DEF DualStands, UpTo
  <2>9. CASE /\ n.escalated /\ n.escFor = 0 /\ room <= -3
             /\ n.droop = age /\ age >= EscalationMinS
             /\ n.satSeen /\ sat
    <3>1. dual'.droop # NotOn /\ dual'.droop >= EscalationMinS /\ dual'.satSeen /\ dual'.escalated
      BY <2>3, <2>7, <2>9, DualRange DEF UpTo
    <3>2. dual'.escFor <= escalation' + 1
      BY <2>3, <2>4, <2>9, DualRange DEF UpTo
    <3>. QED BY <3>1, <3>2 DEF DualStands
  <2>10. CASE /\ ~n.escalated /\ n.droop = NotOn /\ ~n.satSeen
              /\ dual.escalated => dual.escFor >= DeescalationMinS
    BY <2>3, <2>4, <2>5, <2>7, <2>10, DualRange DEF DualStands, UpTo
  <2>11. CASE /\ ~n.escalated /\ n.droop = age /\ n.satSeen = sat
              /\ n.satSeen => age < EscalationMinS
              /\ room <= -3 /\ n.source = "hp"
              /\ dual.escalated => dual.escFor >= DeescalationMinS
    <3>1. onHp /\ drooping' = UpTo(drooping, EscalationMinS + 1)
          /\ hpRan' = (hpRan \/ comp.on = "hp")
      BY <2>4, <2>11 DEF onHp
    <3>2. age <= drooping /\ (dual.satSeen => hpRan)
      <4>1. CASE dual.escalated
        <5>1. dual.droop = NotOn
          BY <2>5, <2>11, <4>1, DualRange DEF sat, age, NotOn
        <5>. QED BY <2>5, <5>1, DualRange DEF age
      <4>2. CASE ~dual.escalated
        BY <2>5, <4>2, DualRange DEF age
      <4>. QED BY <4>1, <4>2, DualRange
    <3>3. dual'.droop <= drooping' /\ dual'.droop # NotOn
      BY <2>3, <2>7, <2>11, <3>1, <3>2, DualRange DEF UpTo
    <3>4. dual'.satSeen => hpRan'
      BY <2>3, <2>11, <3>1, <3>2 DEF sat
    <3>5. escalation' + 1 >= DeescalationMinS /\ ~dual'.escalated
      BY <2>3, <2>4, <2>5, <2>11, DualRange DEF UpTo
    <3>. QED BY <3>3, <3>4, <3>5 DEF DualStands
  <2>. QED BY <2>2, <2>8, <2>9, <2>10, <2>11
<1>2. CASE UNCHANGED <<dual, drooping, hpRan, escalation>>
  BY <1>2 DEF DualStands
<1>3. (\E m \in Modes : SetMode(m)) \/ (\E r \in Rooms \cup {Unknown} : Sense(r))
        \/ (\E o \in Oats \cup {NoOat} : Outdoors(o)) \/ UNCHANGED vars
        => UNCHANGED <<dual, drooping, hpRan, escalation>>
  BY DEF SetMode, Sense, Outdoors, vars, history
<1>. QED BY <1>1, <1>2, <1>3 DEF Next

-----------------------------------------------------------------------------
(* The properties *)

LEMMA Invariant == Spec => [](TypeOK /\ CallInv /\ WaitInv /\ DualStands)
<1>. QED BY InitType, StepType, CallInvInit, CallInvStep, WaitInit, WaitStep,
            DualInit, DualStandsStep, PTL DEF Spec

(* A room that asks without a break in AUTO has its call once the longest     *)
(* wait is over, for every dwell, sustain time and compressor timer.          *)
THEOREM DueIsServedHolds == Spec => []DueIsServed
<1>1. TypeOK /\ WaitInv => DueIsServed
  <2>. SUFFICES ASSUME TypeOK, Withheld, NEW f \in Families, triggered[f] > LongestWait,
                       calls.type # f
                PROVE  FALSE
    BY DEF DueIsServed, WaitInv
  <2>1. triggered[f] \in Nat /\ LongestWait \in Nat
    BY HistoryRange, LongestWaitBounds
  <2>. QED BY <2>1 DEF Withheld
<1>. QED BY <1>1, Invariant, PTL

(* An AUTO changeover has waited for the dwell, the sustained request and     *)
(* the compressor's rest, whichever mode the other family's call was of.      *)
THEOREM ChangeoverIsEarnedHolds == Spec => ChangeoverIsEarned
<1>. DEFINE A == \A f \in Families :
       mode = "auto" /\ calls'.type = f /\ calls.type # f /\ lastServed = Other(f) =>
         /\ served[Other(f)] >= ChangeoverDwellS
         /\ triggered'[f] > ChangeoverSustainS
         /\ compressorProvenIdle
<1>1. TypeOK /\ CallInv /\ [Next]_vars => [A]_vars
  <2>. SUFFICES ASSUME TypeOK, CallInv, Next, NEW f \in Families,
                       mode = "auto", calls'.type = f, calls.type # f,
                       lastServed = Other(f)
                PROVE  /\ served[Other(f)] >= ChangeoverDwellS
                       /\ triggered'[f] > ChangeoverSustainS
                       /\ compressorProvenIdle
    OBVIOUS
  <2>1. Cycles
    <3>1. ASSUME NEW m \in Modes, SetMode(m) PROVE calls'.type = "none"
      BY <3>1, EndCall, ResetType DEF SetMode, setMode, TypeOK
    <3>. QED BY <3>1, OtherType DEF Next, Sense, Outdoors
  <2>2. /\ Other(f) \in Families /\ Other(f) # f /\ Called.type = f
        /\ f # "none" /\ Other(f) # "none"
    BY <2>1, AfterCycle, OtherType
  <2>3. room # Unknown /\ Triggers(f, room) /\ mayStart(Called, f, compressorProvenIdle)
    BY <2>2, CalledStep
  <2>4. Called.lastEnded = Other(f)
    <3>1. Called.lastEnded = IF calls.type = "none" THEN calls.lastEnded ELSE calls.type
      BY <2>2, CalledStep
    <3>. QED BY <3>1 DEF CallInv, CallStands
  <2>5. /\ Called.trig[f] >= ChangeoverSustainS
        /\ Called.ended[Other(f)] >= ChangeoverDwellS
        /\ compressorProvenIdle
    BY <2>3, <2>4 DEF mayStart
  <2>6. /\ Called.ended[Other(f)] = IF calls.type = Other(f) THEN 0 ELSE calls.ended[Other(f)]
        /\ Called.trig[f] = IF calls.trig[f] = Disarmed THEN 0 ELSE calls.trig[f]
    BY <2>2, <2>3, CalledStep
  <2>7. /\ calls.trig[f] <= triggered[f]
        /\ calls.type # Other(f) => calls.ended[Other(f)] <= served[Other(f)]
    BY <2>2 DEF CallInv, CreditStands
  <2>8. /\ calls.ended[Other(f)] \in Nat /\ served[Other(f)] \in Nat
        /\ triggered[f] \in Nat /\ calls.trig[f] \in Int
        /\ ChangeoverDwellS \in Nat /\ ChangeoverSustainS \in Nat
        /\ LongestWait \in Nat /\ LongestWait >= ChangeoverSustainS
    BY <2>2, HistoryRange, LongestWaitBounds, Constants DEF Disarmed
  <2>9. served[Other(f)] >= ChangeoverDwellS /\ triggered[f] >= ChangeoverSustainS
    BY <2>5, <2>6, <2>7, <2>8 DEF Disarmed
  <2>10. triggered'[f] = UpTo(triggered[f], LongestWait + 1)
    BY <2>1, <2>3, AfterCycle
  <2>11. triggered'[f] > ChangeoverSustainS
    BY <2>8, <2>9, <2>10 DEF UpTo
  <2>. QED BY <2>5, <2>9, <2>11
<1>. QED BY <1>1, Invariant, PTL DEF Spec, ChangeoverIsEarned

(* Gas takes over for lack of capacity only after a droop of the escalation   *)
(* time on end with the heat pump chosen, which ran in it.                    *)
THEOREM EscalationIsEarnedHolds == Spec => EscalationIsEarned
<1>1. TypeOK /\ DualStands /\ [Next]_vars =>
        [dual'.escalated /\ ~dual.escalated => drooping' > EscalationMinS /\ hpRan']_vars
  <2>. SUFFICES ASSUME TypeOK, DualStands, Next, dual'.escalated, ~dual.escalated
                PROVE  drooping' > EscalationMinS /\ hpRan'
    OBVIOUS
  <2>1. Cycles
    BY DEF Next, SetMode, Sense, Outdoors
  <2>2. PICK call \in Families \cup {"none"} :
          /\ Chosen(call) \in DualStates /\ dual' = AgedDual(Chosen(call))
          /\ Observe(Called, Chosen(call))
    BY <2>1, CycleStep
  <2>3. Chosen(call).escalated
    BY <2>2, AgedDualType
  <2>4. /\ room <= -3 /\ (comp.on = "hp" \/ dual.satSeen)
        /\ EscalationMinS <= IF dual.droop = NotOn THEN 0 ELSE dual.droop
    BY <2>3, ChosenStep DEF Evolves
  <2>5. /\ drooping' = UpTo(drooping, EscalationMinS + 1)
        /\ hpRan' = (hpRan \/ comp.on = "hp")
    BY <2>2, <2>3, <2>4 DEF Observe
  <2>6. dual.droop <= drooping /\ (dual.satSeen => hpRan)
    BY DEF DualStands
  <2>7. drooping >= EscalationMinS /\ drooping \in Nat /\ EscalationMinS \in Nat
    BY <2>4, <2>6, DualRange
  <2>8. hpRan'
    BY <2>4, <2>5, <2>6
  <2>. QED BY <2>5, <2>7, <2>8 DEF UpTo
<1>. QED BY <1>1, Invariant, PTL DEF Spec, EscalationIsEarned

(* A heat pump that fell short is not asked again before the de-escalation    *)
(* time, unless gas is locked out by the outdoor temperature.                 *)
THEOREM StaysOnGasHolds == Spec => StaysOnGas
<1>1. TypeOK /\ DualStands /\ [Next]_vars =>
        [UNCHANGED <<mode, room, oat>> /\ request' = "hp" =>
           escalation + 1 >= DeescalationMinS \/ ~gasAllowed(oat)]_vars
  <2>. SUFFICES ASSUME TypeOK, DualStands, Next, UNCHANGED <<mode, room, oat>>,
                       request' = "hp", gasAllowed(oat)
                PROVE  escalation + 1 >= DeescalationMinS
    OBVIOUS
  <2>1. Cycles
    BY DEF Next, SetMode, Sense, Outdoors
  <2>2. PICK call \in Families \cup {"none"} : Chosen(call).source = "hp"
    BY <2>1, CycleStep
  <2>3. dual.escalated => dual.escFor >= DeescalationMinS
    BY <2>2, ChosenStep DEF Evolves
  <2>. QED BY <2>3, DualRange DEF DualStands
<1>. QED BY <1>1, Invariant, PTL DEF Spec, StaysOnGas
=============================================================================
