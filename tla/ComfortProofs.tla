---------------------------- MODULE ComfortProofs -----------------------------
(***************************************************************************)
(* Theorems about Setpoints and Comfort, and about the Remote's link, which    *)
(* carries what is decided away from the panel, for every value of their     *)
(* constants.                                                                *)
(***************************************************************************)
EXTENDS Comfort, RemoteLink, TLAPS

LEMMA Rails ==
  /\ SetpointMin \in Int /\ SetpointMax \in Int /\ MinDelta \in Int
  /\ MinDelta > 0 /\ SetpointMin + MinDelta <= SetpointMax
  /\ Eco \in AnyPair /\ Emergency \in AnyPair
  /\ Wanted \subseteq Temps /\ MqttStaleS \in Nat \ {0}
  BY SetpointConfig, ComfortConfig

-----------------------------------------------------------------------------
(* Whatever pair it finds, a write of one setpoint leaves one that keeps the *)
(* deadband inside the rails, and what it writes is what was asked for when  *)
(* the other setpoint has room.                                              *)
LEMMA SetHeat ==
  ASSUME NEW p \in AnyPair, NEW c \in Temps
  PROVE  /\ setHeatSetpoint(p, c) \in Pairs
         /\ setHeatSetpoint(p, c).heat =
              IF c + MinDelta <= SetpointMax THEN c ELSE SetpointMax - MinDelta
<1> USE Rails DEF AnyPair, Temps
<1>1. CASE p.cool >= c + MinDelta BY <1>1 DEF setHeatSetpoint, Pairs
<1>2. CASE ~(p.cool >= c + MinDelta) /\ c + MinDelta <= SetpointMax
  BY <1>2 DEF setHeatSetpoint, Pairs
<1>3. CASE ~(p.cool >= c + MinDelta) /\ ~(c + MinDelta <= SetpointMax)
  BY <1>3 DEF setHeatSetpoint, Pairs
<1>4. QED BY <1>1, <1>2, <1>3

LEMMA SetCool ==
  ASSUME NEW p \in AnyPair, NEW c \in Temps
  PROVE  /\ setCoolSetpoint(p, c) \in Pairs
         /\ c >= p.heat + MinDelta => setCoolSetpoint(p, c) = [heat |-> p.heat, cool |-> c]
<1> USE Rails DEF AnyPair, Temps
<1>1. CASE c >= p.heat + MinDelta BY <1>1 DEF setCoolSetpoint, Pairs
<1>2. CASE ~(c >= p.heat + MinDelta) /\ c - MinDelta >= SetpointMin
  BY <1>2 DEF setCoolSetpoint, Pairs
<1>3. CASE ~(c >= p.heat + MinDelta) /\ ~(c - MinDelta >= SetpointMin)
  BY <1>3 DEF setCoolSetpoint, Pairs
<1>4. QED BY <1>1, <1>2, <1>3

(* A pair that keeps the deadband comes out of setBoth() as it went in,      *)
(* whatever was in force before: the order of the two writes does not matter. *)
THEOREM SetBothExact ==
  ASSUME NEW p \in AnyPair, NEW to \in AnyPair
  PROVE  /\ setBoth(p, to) \in Pairs
         /\ to \in Pairs => setBoth(p, to) = to
<1> DEFINE q == setHeatSetpoint(p, to.heat)
<1>1. to.heat \in Temps /\ to.cool \in Temps BY DEF AnyPair
<1>2. q \in Pairs /\ q.heat = (IF to.heat + MinDelta <= SetpointMax
                               THEN to.heat ELSE SetpointMax - MinDelta)
  BY <1>1, SetHeat
<1>3. q \in AnyPair BY <1>2 DEF Pairs
<1>4. setBoth(p, to) = setCoolSetpoint(q, to.cool) BY DEF setBoth
<1>5. setBoth(p, to) \in Pairs BY <1>1, <1>3, <1>4, SetCool
<1>6. ASSUME to \in Pairs PROVE setBoth(p, to) = to
  <2>1. to.heat + MinDelta <= to.cool BY <1>6 DEF Pairs
  <2>2. to.heat + MinDelta <= SetpointMax
    BY <1>1, <2>1, Rails DEF Temps
  <2>3. q.heat = to.heat BY <1>2, <2>2
  <2>4. to.cool >= q.heat + MinDelta BY <1>1, <2>1, <2>3, Rails DEF Temps
  <2>5. setCoolSetpoint(q, to.cool) = [heat |-> to.heat, cool |-> to.cool]
    BY <1>1, <1>3, <2>3, <2>4, SetCool
  <2>6. to = [heat |-> to.heat, cool |-> to.cool] BY DEF AnyPair
  <2>7. QED BY <1>4, <2>5, <2>6
<1>7. QED BY <1>5, <1>6

LEMMA Setters ==
  ASSUME NEW p \in Pairs, NEW h \in Temps, NEW c \in Temps
  PROVE  /\ setHeatSetpoint(p, c) \in Pairs /\ setCoolSetpoint(p, c) \in Pairs
         /\ setBoth(p, [heat |-> h, cool |-> c]) \in Pairs
         /\ p \in AnyPair
  BY SetHeat, SetCool, SetBothExact DEF Pairs, AnyPair

LEMMA RestoreType ==
  ASSUME NEW f \in [heat : Temps, cool : Temps, vac : Vacations]
  PROVE  /\ restore(f) \in Pairs
         /\ \A p \in Pairs : f.heat = p.heat /\ f.cool = p.cool => restore(f) = p
<1>1. [heat |-> f.heat, cool |-> f.cool] \in AnyPair BY DEF AnyPair
<1>2. ASSUME NEW p \in Pairs, f.heat = p.heat, f.cool = p.cool
      PROVE  p = [heat |-> f.heat, cool |-> f.cool]
  BY <1>2 DEF Pairs, AnyPair
<1>3. QED BY <1>1, <1>2, SetBothExact, Rails DEF restore

LEMMA NewVacations == NoVac \in Vacations /\ NewVac \in Vacations
  BY Rails DEF NoVac, NewVac, Vacations

-----------------------------------------------------------------------------
(* What flash and RAM know of each other between the steps of a cycle: the   *)
(* vacation is saved wherever it changes, the pair at the cycle's end.       *)
FlashStands ==
  /\ pc # "off" => flash.vac = vac
  /\ pc = "cool" => flash.heat = pair.heat
  /\ Settled => restore(flash) = pair

(* Where the pair somebody decided last is to be found: in force, kept by a  *)
(* vacation in force, or in flash while the device is down.                  *)
PairStands ==
  ~excused =>
    /\ pc # "off" /\ ~vac.applied => pair = mine
    /\ pc # "off" /\ vac.applied => vac.prior = mine
    /\ pc = "off" => mine = IF flash.vac.applied THEN flash.vac.prior ELSE restore(flash)

(* An outage that was answered stays answered: no second fallback in it.     *)
OutageStands == answered => fallback /\ silent >= MqttStaleS

IInv == TypeOK /\ FlashStands /\ PairStands /\ OutageStands

LEMMA InitIInv == Init => IInv
<1> SUFFICES ASSUME Init PROVE IInv OBVIOUS
<1>1. TypeOK
  <2>1. pair \in Pairs /\ mine \in Pairs /\ pair.heat \in Temps /\ pair.cool \in Temps
    BY DEF Init, Pairs, AnyPair
  <2>2. flash \in [heat : Temps, cool : Temps, vac : Vacations]
    BY <2>1, NewVacations DEF Init
  <2>3. vac \in Vacations BY NewVacations DEF Init
  <2>4. silent \in 0..MqttStaleS BY Rails DEF Init
  <2>5. pc \in Places /\ window \in When BY DEF Init, Places, When
  <2>6. {synced, heard, fallback, answered, ending, excused} \subseteq BOOLEAN
    BY DEF Init
  <2>7. QED BY <2>1, <2>2, <2>3, <2>4, <2>5, <2>6 DEF TypeOK
<1>2. restore(flash) = pair BY <1>1, RestoreType DEF Init, TypeOK
<1>3. QED BY <1>1, <1>2 DEF IInv, FlashStands, PairStands, OutageStands, Settled, Init, NoVac

(* A decision: the pair and who is to be believed afterwards. *)
LEMMA DecideStands ==
  ASSUME TypeOK, PairStands, pc # "off", NEW p \in Pairs, Decide(p),
         pc' # "off", vac' = vac
  PROVE  /\ pair' \in Pairs /\ mine' \in Pairs /\ excused' \in BOOLEAN
         /\ ending' = ending /\ PairStands'
  BY DEF Decide, PairStands, TypeOK, Vacations

(* The end of a vacation gives back what it found. *)
LEMMA EndStands ==
  ASSUME TypeOK, PairStands, pc # "off", EndVacation, pc' # "off"
  PROVE  /\ pair' \in Pairs /\ vac' \in Vacations /\ mine' = mine
         /\ excused' = excused /\ ending' \in BOOLEAN
         /\ flash' \in [heat : Temps, cool : Temps, vac : Vacations]
         /\ flash'.vac = vac' /\ PairStands'
<1>1. /\ vac' = NoVac /\ vac' \in Vacations /\ ~vac'.applied
      /\ mine' = mine /\ excused' = excused /\ ending' \in BOOLEAN
      /\ flash' \in [heat : Temps, cool : Temps, vac : Vacations] /\ flash'.vac = vac'
  BY NewVacations DEF EndVacation, NoVac, TypeOK, Vacations
<1>2. CASE ~vac.applied
  <2>1. pair' = pair BY <1>2 DEF EndVacation
  <2>2. QED BY <1>1, <1>2, <2>1 DEF PairStands, TypeOK
<1>3. CASE vac.applied
  <2>1. pair' = setBoth(pair, vac.prior) BY <1>3 DEF EndVacation
  <2>2. pair \in AnyPair /\ vac.prior \in AnyPair /\ mine \in Pairs
    BY DEF TypeOK, Vacations, Pairs
  <2>3. pair' \in Pairs /\ (~excused => pair' = mine)
    BY <1>3, <2>1, <2>2, SetBothExact DEF PairStands
  <2>4. QED BY <1>1, <2>3 DEF PairStands
<1>4. vac.applied \in BOOLEAN BY DEF TypeOK, Vacations
<1>5. QED BY <1>2, <1>3, <1>4

LEMMA SetVacationStands ==
  ASSUME TypeOK, PairStands, pc # "off", NEW w \in When, SetVacation(w), pc' # "off"
  PROVE  /\ pair' = pair /\ vac' \in Vacations /\ mine' = mine /\ window' \in When
         /\ excused' \in BOOLEAN /\ ending' = ending
         /\ flash' \in [heat : Temps, cool : Temps, vac : Vacations]
         /\ flash'.vac = vac' /\ PairStands'
<1>1. /\ vac' \in Vacations /\ ~vac'.applied
  BY NewVacations DEF SetVacation, NewVac, NoVac, Vacations, TypeOK
<1>2. flash' \in [heat : Temps, cool : Temps, vac : Vacations] /\ flash'.vac = vac'
  BY <1>1 DEF SetVacation, TypeOK
<1>3. excused' \in BOOLEAN BY DEF SetVacation, TypeOK, Vacations
<1>4. QED BY <1>1, <1>2, <1>3 DEF SetVacation, PairStands, TypeOK, When, Vacations

LEMMA NextIInv == IInv /\ [Next]_vars => IInv'
<1> SUFFICES ASSUME IInv, [Next]_vars PROVE IInv' OBVIOUS
<1> USE DEF IInv
<1>0. /\ TypeOK /\ FlashStands /\ PairStands /\ OutageStands
      /\ pair \in AnyPair /\ vac.applied \in BOOLEAN /\ vac.prior \in AnyPair
      /\ flash.vac \in Vacations
  BY DEF TypeOK, Pairs, Vacations
<1> DEFINE Flashes == [heat : Temps, cool : Temps, vac : Vacations]
<1>1. CASE Mail
  <2>1. /\ silent' \in 0..MqttStaleS /\ heard' \in BOOLEAN /\ answered' \in BOOLEAN
        /\ pc' = "away" /\ vac' = vac /\ flash' = flash
    <3>1. silent' \in 0..MqttStaleS BY <1>0, <1>1, Rails DEF Mail, TypeOK
    <3>2. heard' \in BOOLEAN /\ answered' \in BOOLEAN BY <1>1 DEF Mail
    <3>3. QED BY <1>1, <3>1, <3>2 DEF Mail
  <2>2. /\ pair' \in Pairs /\ mine' \in Pairs /\ excused' \in BOOLEAN
        /\ ending' = ending /\ PairStands'
    <3>1. CASE UNCHANGED <<pair, past>>
      BY <1>0, <1>1, <2>1, <3>1 DEF Mail, PairStands, TypeOK, past
    <3>2. CASE \E c \in Wanted : \/ Decide(setHeatSetpoint(pair, c))
                                  \/ Decide(setCoolSetpoint(pair, c))
      <4>1. PICK c \in Wanted : \/ Decide(setHeatSetpoint(pair, c))
                                \/ Decide(setCoolSetpoint(pair, c))
        BY <3>2
      <4>2. setHeatSetpoint(pair, c) \in Pairs /\ setCoolSetpoint(pair, c) \in Pairs
        BY <1>0, Rails, Setters DEF TypeOK
      <4>3. pc # "off" BY <1>1 DEF Mail
      <4>4. QED BY <1>0, <2>1, <4>1, <4>2, <4>3, DecideStands
    <3>3. CASE \E h, c \in Wanted : Decide(setBoth(pair, [heat |-> h, cool |-> c]))
      <4>1. PICK h \in Wanted, c \in Wanted :
              Decide(setBoth(pair, [heat |-> h, cool |-> c]))
        BY <3>3
      <4>2. setBoth(pair, [heat |-> h, cool |-> c]) \in Pairs
        BY <1>0, Rails, Setters DEF TypeOK
      <4>3. pc # "off" BY <1>1 DEF Mail
      <4>4. QED BY <1>0, <2>1, <4>1, <4>2, <4>3, DecideStands
    <3>4. QED BY <1>1, <3>1, <3>2, <3>3 DEF Mail
  <2>3. OutageStands' BY <1>0, <1>1 DEF Mail, OutageStands
  <2>4. QED BY <1>0, <1>1, <2>1, <2>2, <2>3
            DEF Mail, TypeOK, FlashStands, Settled, Places
<1>2. CASE Away
  <2>1. /\ pc' = "panel" /\ pc # "off" /\ pc # "cool" /\ UNCHANGED <<synced, outage>>
    BY <1>2 DEF Away
  <2>2. /\ pair' \in Pairs /\ vac' \in Vacations /\ mine' \in Pairs /\ window' \in When
        /\ excused' \in BOOLEAN /\ ending' \in BOOLEAN /\ flash' \in Flashes
        /\ flash'.vac = vac' /\ PairStands'
    <3>1. CASE AwayStays
      BY <1>0, <2>1, <3>1 DEF AwayStays, TypeOK, past, PairStands, FlashStands
    <3>2. ASSUME NEW w \in {"before", "in"}, SetVacation(w) PROVE <2>2
      BY <1>0, <2>1, <3>2, SetVacationStands DEF When, TypeOK
    <3>3. CASE ClearVacation
      BY <1>0, <2>1, <3>3, EndStands DEF ClearVacation, TypeOK
    <3>4. QED BY <1>2, <3>1, <3>2, <3>3 DEF Away
  <2>3. QED BY <1>0, <2>1, <2>2
            DEF TypeOK, FlashStands, OutageStands, outage, Settled, Places
<1>3. CASE PanelSetpoints
  <2>1. PICK h \in Wanted, c \in Wanted :
          Decide(setBoth(pair, [heat |-> h, cool |-> c]))
    BY <1>3 DEF PanelSetpoints
  <2>2. setBoth(pair, [heat |-> h, cool |-> c]) \in Pairs
    BY <1>0, Rails, Setters DEF TypeOK
  <2>3. /\ pc = "panel" /\ pc' = pc /\ vac' = vac /\ flash' = flash
        /\ UNCHANGED <<window, synced, outage>>
    BY <1>3 DEF PanelSetpoints
  <2>4. pc # "off" /\ pc' # "off" BY <2>3
  <2>5. /\ pair' \in Pairs /\ mine' \in Pairs /\ excused' \in BOOLEAN
        /\ ending' = ending /\ PairStands'
    BY <1>0, <2>1, <2>2, <2>3, <2>4, DecideStands
  <2>6. QED BY <1>0, <2>3, <2>5 DEF TypeOK, FlashStands, OutageStands, outage, Settled
<1>4. CASE PanelVacation
  <2>1. /\ pc = "panel" /\ pc' = pc /\ UNCHANGED <<synced, outage>>
    BY <1>4 DEF PanelVacation
  <2>2. /\ pair' \in Pairs /\ vac' \in Vacations /\ mine' \in Pairs /\ window' \in When
        /\ excused' \in BOOLEAN /\ ending' \in BOOLEAN /\ flash' \in Flashes
        /\ flash'.vac = vac' /\ PairStands'
    <3>2. ASSUME NEW w \in {"before", "in"}, SetVacation(w) PROVE <2>2
      BY <1>0, <2>1, <3>2, SetVacationStands DEF When, TypeOK
    <3>3. CASE ClearVacation
      BY <1>0, <2>1, <3>3, EndStands DEF ClearVacation, TypeOK
    <3>4. QED BY <1>4, <3>2, <3>3 DEF PanelVacation
  <2>3. QED BY <1>0, <2>1, <2>2
            DEF TypeOK, FlashStands, OutageStands, outage, Settled, Places
<1>5. CASE PanelDone
  BY <1>0, <1>5 DEF PanelDone, TypeOK, FlashStands, PairStands, OutageStands, outage,
                    past, Settled, Places
<1>6. CASE Fallback
  <2> DEFINE stale == silent >= MqttStaleS
  <2>1. /\ pc = "fallback" /\ pc' = "vacation" /\ fallback' = stale
        /\ answered' = (answered \/ stale)
        /\ pair' = IF FallsBack(stale) THEN setBoth(pair, Emergency) ELSE pair
        /\ IF stale /\ ~answered THEN Decide(pair') ELSE UNCHANGED past
        /\ UNCHANGED <<vac, window, synced, heard, silent, flash>>
    BY <1>6 DEF Fallback
  <2>2. setBoth(pair, Emergency) \in Pairs BY <1>0, Rails, SetBothExact
  <2>3. pair' \in Pairs BY <1>0, <2>1, <2>2 DEF TypeOK
  <2>4. /\ mine' \in Pairs /\ excused' \in BOOLEAN /\ ending' \in BOOLEAN
        /\ PairStands'
    <3>1. CASE stale /\ ~answered
      <4>1. Decide(pair') BY <2>1, <3>1
      <4>2. mine' = (IF vac.applied THEN mine ELSE pair')
            /\ excused' = (excused /\ vac.applied) /\ ending' = ending
        BY <4>1 DEF Decide
      <4>3. QED BY <1>0, <2>1, <2>3, <4>2 DEF PairStands, TypeOK
    <3>2. CASE ~(stale /\ ~answered)
      <4>1. UNCHANGED past BY <2>1, <3>2
      <4>2. answered => ~FallsBack(stale) BY <1>0 DEF OutageStands, FallsBack
      <4>3. pair' = pair BY <2>1, <3>2, <4>2 DEF FallsBack
      <4>4. QED BY <1>0, <2>1, <4>1, <4>3 DEF PairStands, TypeOK, past
    <3>3. QED BY <3>1, <3>2
  <2>5. OutageStands' BY <1>0, <2>1 DEF OutageStands
  <2>6. fallback' \in BOOLEAN /\ answered' \in BOOLEAN BY <1>0, <2>1 DEF TypeOK
  <2>7. QED BY <1>0, <2>1, <2>3, <2>4, <2>5, <2>6
            DEF TypeOK, FlashStands, Settled, Places
<1>7. ASSUME NEW w \in {"before", "in"}, Anchor(w) PROVE IInv'
  <2>1. /\ pc = "vacation" /\ vac' = [vac EXCEPT !.anchored = TRUE] /\ window' = w
        /\ flash' = [flash EXCEPT !.vac = vac']
        /\ UNCHANGED <<pc, pair, synced, outage, past>>
    BY <1>7 DEF Anchor
  <2>2. vac' \in Vacations /\ vac'.applied = vac.applied /\ vac'.prior = vac.prior
    BY <1>0, <2>1 DEF TypeOK, Vacations
  <2>3. flash' \in Flashes /\ flash'.vac = vac' BY <1>0, <2>1, <2>2 DEF TypeOK
  <2>4. PairStands' BY <1>0, <2>1, <2>2 DEF PairStands, past
  <2>5. QED BY <1>0, <2>1, <2>2, <2>3, <2>4
            DEF TypeOK, FlashStands, OutageStands, outage, past, Settled, When
<1>8. CASE InWindow
  <2>1. /\ pc = "vacation" /\ pc' = "heat" /\ vac' = Enters
        /\ flash' = [flash EXCEPT !.vac = vac'] /\ pair' = setBoth(pair, Eco)
        /\ UNCHANGED <<window, synced, outage, past>>
    BY <1>8 DEF InWindow
  <2>2. /\ vac' \in Vacations /\ vac'.applied
        /\ vac'.prior = IF vac.applied THEN vac.prior ELSE pair
    BY <1>0, <2>1 DEF Enters, TypeOK, Vacations
  <2>3. flash' \in Flashes /\ flash'.vac = vac' BY <1>0, <2>1, <2>2 DEF TypeOK
  <2>4. pair' \in Pairs BY <1>0, <2>1, Rails, SetBothExact
  <2>5. PairStands' BY <1>0, <2>1, <2>2 DEF PairStands, past
  <2>6. QED BY <1>0, <2>1, <2>2, <2>3, <2>4, <2>5
            DEF TypeOK, FlashStands, OutageStands, outage, past, Settled, Places
<1>9. CASE WindowOver
  <2>1. /\ pc # "off" /\ pc' = "heat" /\ EndVacation /\ UNCHANGED <<window, synced, outage>>
    BY <1>9 DEF WindowOver
  <2>2. /\ pair' \in Pairs /\ vac' \in Vacations /\ mine' = mine
        /\ excused' = excused /\ ending' \in BOOLEAN /\ flash' \in Flashes
        /\ flash'.vac = vac' /\ PairStands'
    BY <1>0, <2>1, EndStands
  <2>3. QED BY <1>0, <2>1, <2>2
            DEF TypeOK, FlashStands, OutageStands, outage, Settled, Places
<1>10. CASE NoWindow
  BY <1>0, <1>10 DEF NoWindow, TypeOK, FlashStands, PairStands, OutageStands, outage,
                     past, Settled, Places
<1>11. CASE PersistHeat
  <2>1. /\ pc = "heat" /\ pc' = "cool" /\ flash' = [flash EXCEPT !.heat = pair.heat]
        /\ UNCHANGED <<pair, vac, window, synced, outage, past>>
    BY <1>11 DEF PersistHeat
  <2>2. /\ flash' \in Flashes /\ flash'.heat = pair.heat /\ flash'.vac = flash.vac
    BY <1>0, <2>1 DEF TypeOK, AnyPair
  <2>3. QED BY <1>0, <2>1, <2>2 DEF TypeOK, FlashStands, PairStands, OutageStands, outage,
                                    past, Settled, Places
<1>12. CASE PersistCool
  <2>1. /\ pc = "cool" /\ pc' = "mail" /\ flash' = [flash EXCEPT !.cool = pair.cool]
        /\ silent' = (IF silent < MqttStaleS THEN silent + 1 ELSE silent)
        /\ ending' = FALSE
        /\ UNCHANGED <<pair, vac, window, synced, heard, fallback, answered, mine, excused>>
    BY <1>12 DEF PersistCool
  <2>2. /\ flash' \in Flashes /\ flash'.heat = pair.heat /\ flash'.cool = pair.cool
        /\ flash'.vac = flash.vac
    BY <1>0, <2>1 DEF TypeOK, AnyPair, FlashStands
  <2>3. restore(flash') = pair BY <1>0, <2>2, RestoreType DEF TypeOK
  <2>4. silent' \in 0..MqttStaleS /\ OutageStands'
    BY <1>0, <2>1, Rails DEF TypeOK, OutageStands
  <2>5. FlashStands'
    <3>1. restore(flash)' = pair' BY <2>1, <2>3 DEF restore
    <3>2. QED BY <1>0, <2>1, <2>2, <3>1 DEF FlashStands
  <2>6. PairStands' BY <1>0, <2>1 DEF PairStands
  <2>7. QED BY <1>0, <2>1, <2>2, <2>4, <2>5, <2>6 DEF TypeOK, Places
<1>13. CASE Inbound
  BY <1>0, <1>13 DEF Inbound, TypeOK, FlashStands, PairStands, OutageStands, outage,
                     past, Settled, restore
<1>14. CASE Sync
  BY <1>0, <1>14 DEF Sync, TypeOK, FlashStands, PairStands, OutageStands, outage,
                     past, Settled, restore
<1>15. CASE Calendar
  BY <1>0, <1>15 DEF Calendar, TypeOK, FlashStands, PairStands, OutageStands, outage,
                     past, Settled, restore, When
<1>16. CASE Reset
  <2>1. /\ pc # "off" /\ pc' = "off" /\ excused' = (excused \/ ending)
        /\ mine' = IF flash.vac.applied \/ excused' THEN mine ELSE restore(flash)
        /\ UNCHANGED <<pair, vac, window, synced, outage, flash, ending>>
    BY <1>16 DEF Reset
  <2>2. restore(flash) \in Pairs BY <1>0, RestoreType DEF TypeOK
  <2>3. excused' \in BOOLEAN /\ mine' \in Pairs BY <1>0, <2>1, <2>2 DEF TypeOK
  <2>4. PairStands'
    BY <1>0, <2>1 DEF PairStands, FlashStands, restore
  <2>5. QED BY <1>0, <2>1, <2>3, <2>4
            DEF TypeOK, FlashStands, OutageStands, outage, Settled, Places
<1>17. CASE Boot
  <2>1. /\ pc = "off" /\ pc' = "mail" /\ pair' = restore(flash) /\ vac' = flash.vac
        /\ synced' = FALSE /\ heard' = FALSE /\ silent' = 0 /\ fallback' = FALSE
        /\ answered' = FALSE /\ ending' = FALSE
        /\ UNCHANGED <<window, flash, mine, excused>>
    BY <1>17 DEF Boot
  <2>2. restore(flash) \in Pairs BY <1>0, RestoreType DEF TypeOK
  <2>3. restore(flash)' = restore(flash) BY <2>1 DEF restore
  <2>4. PairStands' BY <1>0, <2>1 DEF PairStands
  <2>5. silent' \in 0..MqttStaleS BY <2>1, Rails
  <2>6. QED BY <1>0, <2>1, <2>2, <2>3, <2>4, <2>5
            DEF TypeOK, FlashStands, OutageStands, Settled, Places
<1>18. CASE UNCHANGED vars
  BY <1>0, <1>18 DEF vars, TypeOK, FlashStands, PairStands, OutageStands, outage,
                     past, Settled, restore
<1>19. QED
  BY <1>1, <1>2, <1>3, <1>4, <1>5, <1>6, <1>7, <1>8, <1>9, <1>10, <1>11, <1>12,
     <1>13, <1>14, <1>15, <1>16, <1>17, <1>18
     DEF Next

-----------------------------------------------------------------------------
(* The strengthening holds in every state of the specification. *)
LEMMA Inductive == Spec => []IInv
BY InitIInv, NextIInv, PTL DEF Spec

(* Type correctness: in particular the pair in force, the saved prior pair   *)
(* and the two saved setpoints never leave the rails, and the pair in force  *)
(* keeps the deadband.                                                       *)
THEOREM TypeCorrect == Spec => []TypeOK
<1>1. IInv => TypeOK BY DEF IInv
<1>2. QED BY <1>1, Inductive, PTL

(* The pair in force between two cycles is the one somebody decided last.    *)
THEOREM PairIsDecidedHolds == Spec => []PairIsDecided
<1>1. IInv => PairIsDecided
  BY DEF IInv, PairStands, PairIsDecided, Settled
<1>2. QED BY <1>1, Inductive, PTL

(* A reset between two cycles gives back the pair and the vacation it cut.   *)
THEOREM RebootKeepsHolds == Spec => []RebootKeeps
<1>1. IInv => RebootKeeps
  BY DEF IInv, FlashStands, RebootKeeps, Settled
<1>2. QED BY <1>1, Inductive, PTL

-----------------------------------------------------------------------------
(***************************************************************************)
(* The Remote.                                                               *)
(***************************************************************************)
LastOf(q) == q[Len(q)]

(* The types that the numbering and the last word depend on. *)
LinkTypes ==
  /\ queue \in Seq(Intents) /\ Len(queue) <= IntentQueueCap
  /\ id \in Nat /\ lastId \in Nat
  /\ outstanding \in Sent \cup {None} /\ uplink \subseteq Sent
  /\ applied \in States /\ mailbox \in [Kinds -> Values \cup {None}]
  /\ word \in Intents \cup {None}

(* The id in flash is the last one used; nothing under way is newer.         *)
Numbers ==
  /\ nvs = id /\ lastId <= id
  /\ outstanding # None => outstanding.id <= id
  /\ \A m \in uplink : m.id <= id

Says(m, w) == m.kind = w.kind /\ m.value = w.value

(* Where the last word is: the newest intent queued; the newest one sent,    *)
(* which the Controller has not taken; in its mailbox; or in force.          *)
WordStands ==
  word # None =>
    IF queue # <<>> THEN LastOf(queue) = word
    ELSE IF lastId # id
    THEN /\ outstanding # None /\ outstanding.id = id => Says(outstanding, word)
         /\ \A m \in uplink : m.id = id => Says(m, word)
    ELSE \/ mailbox[word.kind] = word.value
         \/ mailbox[word.kind] = None /\ applied[word.kind] = word.value

LinkInv == LinkTypes /\ Numbers /\ WordStands

(* What the assumption says of the constants the proofs use. *)
LEMMA LinkConstants ==
  ASSUME RemoteConfig
  PROVE  /\ IntentQueueCap \in Nat \ {0}
         /\ None \notin Values /\ None \notin Sent /\ None \notin Intents
<1>1. Sent \subseteq [id : Nat, kind : Kinds, value : Values]
  BY DEF Sent
<1>. QED BY <1>1 DEF RemoteConfig, Intents

(* A full queue drops its oldest intent: the newest is always its last. *)
LEMMA Queued ==
  ASSUME RemoteConfig, NEW q \in Seq(Intents), Len(q) <= IntentQueueCap, NEW i \in Intents
  PROVE  /\ enqueue(q, i) \in Seq(Intents) /\ Len(enqueue(q, i)) <= IntentQueueCap
         /\ enqueue(q, i) # <<>> /\ LastOf(enqueue(q, i)) = i
<1>1. IntentQueueCap \in Nat \ {0}
  BY LinkConstants
<1>2. CASE Len(q) < IntentQueueCap
  <2>1. enqueue(q, i) = Append(q, i)
    BY <1>2 DEF enqueue
  <2>. QED BY <1>1, <1>2, <2>1 DEF LastOf
<1>3. CASE ~(Len(q) < IntentQueueCap)
  <2>1. enqueue(q, i) = Append(Tail(q), i) /\ q # <<>>
    BY <1>1, <1>3 DEF enqueue
  <2>2. Tail(q) \in Seq(Intents) /\ Len(Tail(q)) = Len(q) - 1
    BY <2>1
  <2>. QED BY <1>1, <1>3, <2>1, <2>2 DEF LastOf
<1>. QED BY <1>2, <1>3

(* An intent taken from a queue leaves its last in place, unless it was it. *)
LEMMA LastStays ==
  ASSUME NEW q \in Seq(Intents), q # <<>>
  PROVE  /\ Tail(q) = <<>> => Head(q) = LastOf(q)
         /\ Tail(q) # <<>> => LastOf(Tail(q)) = LastOf(q)
<1>1. PICK n \in Nat : n = Len(q)
  OBVIOUS
<1>2. n # 0
  BY <1>1
<1>3. Tail(q) \in Seq(Intents) /\ Len(Tail(q)) = n - 1
  BY <1>1
<1>4. ASSUME Tail(q) = <<>> PROVE Head(q) = LastOf(q)
  <2>1. Len(Tail(q)) = 0
    <3>1. Len(<<>>) = 0
      OBVIOUS
    <3>. QED BY <1>4, <3>1, Zenon
  <2>2. n - 1 = 0
    BY <1>3, <2>1
  <2>3. n = 1
    BY <2>2
  <2>. QED BY <1>1, <2>3 DEF LastOf
<1>5. ASSUME Tail(q) # <<>> PROVE LastOf(Tail(q)) = LastOf(q)
  <2>1. n - 1 # 0
    BY <1>3, <1>5
  <2>2. n - 1 \in 1..(n - 1)
    BY <1>2, <2>1
  <2>3. Tail(q)[n - 1] = q[n]
    BY <1>1, <2>2
  <2>. QED BY <1>1, <1>3, <2>3 DEF LastOf
<1>. QED BY <1>4, <1>5

(* Nothing decided, nothing under way. *)
LEMMA LinkStarts == ASSUME RemoteConfig, LinkInit PROVE LinkInv
<1>1. None \notin Sent
  BY LinkConstants
<1>. QED BY DEF LinkInit, LinkInv, LinkTypes, Numbers, WordStands, Empty, Intents

(* A tap is the last word, and the last of the queue. *)
LEMMA TapStep ==
  ASSUME RemoteConfig, LinkInv, NEW k \in Kinds, NEW v \in Values, Tap(k, v)
  PROVE  LinkInv'
<1>1. word' \in Intents /\ queue' = enqueue(queue, word')
  BY DEF Tap, Intents
<1>2. UNCHANGED <<id, nvs, outstanding, lastId, mailbox, applied, uplink>>
  BY DEF Tap, sender, control, wire
<1>3. /\ queue' \in Seq(Intents) /\ Len(queue') <= IntentQueueCap
      /\ queue' # <<>> /\ LastOf(queue') = word'
  BY <1>1, Queued DEF LinkInv, LinkTypes
<1>4. LinkTypes'
  BY <1>1, <1>2, <1>3 DEF LinkInv, LinkTypes
<1>5. Numbers'
  BY <1>2 DEF LinkInv, Numbers
<1>6. WordStands'
  BY <1>3 DEF WordStands
<1>. QED BY <1>4, <1>5, <1>6 DEF LinkInv

(* The intent sent gets a number nothing under way has. *)
LEMMA NextIntentStep ==
  ASSUME RemoteConfig, LinkInv, NextIntent,
         UNCHANGED <<lastId, mailbox, applied, word>>
  PROVE  LinkInv'
<1>. DEFINE h == Head(queue)
<1>1. /\ queue # <<>> /\ queue \in Seq(Intents) /\ id \in Nat /\ lastId <= id
      /\ lastId \in Nat
  BY DEF NextIntent, LinkInv, LinkTypes, Numbers
<1>2. /\ h \in Intents /\ Tail(queue) \in Seq(Intents)
      /\ Len(Tail(queue)) = Len(queue) - 1
  BY <1>1
<1>3. /\ id' = id + 1 /\ nvs' = id' /\ queue' = Tail(queue)
      /\ outstanding' = [id |-> id + 1, kind |-> h.kind, value |-> h.value]
      /\ uplink' \subseteq uplink \cup {outstanding'}
  BY DEF NextIntent, Numbered, publish
<1>4. outstanding' \in Sent /\ Says(outstanding', h)
  BY <1>1, <1>2, <1>3 DEF Sent, Intents, Says
<1>5. LinkTypes'
  <2>1. Len(Tail(queue)) <= IntentQueueCap
    BY <1>1, <1>2, LinkConstants DEF LinkInv, LinkTypes
  <2>. QED BY <1>1, <1>2, <1>3, <1>4, <2>1 DEF LinkInv, LinkTypes
<1>6. Numbers'
  <2>1. \A m \in uplink' : m.id <= id'
    <3>1. \A m \in uplink : m.id <= id /\ m.id \in Nat
      BY DEF LinkInv, LinkTypes, Numbers, Sent
    <3>. QED BY <1>1, <1>3, <3>1
  <2>. QED BY <1>1, <1>3, <2>1 DEF Numbers
<1>7. WordStands'
  <2>. SUFFICES ASSUME word # None PROVE WordStands'
    BY DEF WordStands
  <2>1. LastOf(queue) = word
    BY <1>1 DEF LinkInv, WordStands
  <2>2. CASE Tail(queue) = <<>>
    <3>1. h = word /\ queue' = <<>>
      BY <1>1, <1>3, <2>1, <2>2, LastStays
    <3>2. lastId' # id'
      BY <1>1, <1>3
    <3>3. \A m \in uplink' : m.id = id' => m = outstanding'
      <4>1. \A m \in uplink : m.id <= id /\ m.id \in Nat
        BY DEF LinkInv, LinkTypes, Numbers, Sent
      <4>. QED BY <1>1, <1>3, <4>1
    <3>. QED BY <1>4, <3>1, <3>2, <3>3 DEF WordStands
  <2>3. CASE Tail(queue) # <<>>
    BY <1>1, <1>3, <2>1, <2>3, LastStays DEF WordStands
  <2>. QED BY <2>2, <2>3
<1>. QED BY <1>5, <1>6, <1>7 DEF LinkInv

(* The exchange under way may end, and messages may be lost or sent again. *)
LEMMA WireStep ==
  ASSUME RemoteConfig, LinkInv, outstanding' \in {None, outstanding},
         \A m \in uplink' : m \in uplink \/ (outstanding # None /\ m = outstanding),
         UNCHANGED <<queue, id, nvs, lastId, mailbox, applied, word>>
  PROVE  LinkInv'
<1>1. LinkTypes'
  BY DEF LinkInv, LinkTypes
<1>2. Numbers'
  BY DEF LinkInv, Numbers
<1>3. WordStands'
  BY DEF LinkInv, WordStands
<1>. QED BY <1>1, <1>2, <1>3 DEF LinkInv

(* pumpIntents() *)
LEMMA PumpStep ==
  ASSUME RemoteConfig, LinkInv, Pump
  PROVE  LinkInv'
<1>1. UNCHANGED <<lastId, mailbox, applied, word>>
  BY DEF Pump, control
<1>2. CASE NextIntent
  BY <1>1, <1>2, NextIntentStep
<1>3. CASE Confirmed
  BY <1>1, <1>3, WireStep DEF Confirmed, panel
<1>4. CASE Retry
  BY <1>1, <1>4, WireStep DEF Retry, Due, publish, panel
<1>5. CASE GiveUp
  BY <1>1, <1>5, WireStep DEF GiveUp, Due, panel
<1>. QED BY <1>2, <1>3, <1>4, <1>5 DEF Pump

(* A reset of the Remote goes on from the id in flash. *)
LEMMA RemoteResetStep ==
  ASSUME RemoteConfig, LinkInv, RemoteReset
  PROVE  LinkInv'
<1>1. /\ queue' = <<>> /\ id' = nvs /\ nvs' = nvs /\ outstanding' = None /\ word' = None
      /\ uplink' \subseteq uplink /\ UNCHANGED <<lastId, mailbox, applied>>
  BY DEF RemoteReset, Unlinked, control
<1>2. LinkTypes'
  BY <1>1, LinkConstants DEF LinkInv, LinkTypes, Numbers
<1>3. Numbers'
  BY <1>1 DEF LinkInv, Numbers
<1>4. WordStands'
  BY <1>1 DEF WordStands
<1>. QED BY <1>2, <1>3, <1>4 DEF LinkInv

(* The dedupe table takes the newest intent once. *)
LEMMA IngestStep ==
  ASSUME RemoteConfig, LinkInv, NEW m \in uplink, Ingest(m)
  PROVE  LinkInv'
<1>1. /\ uplink' = uplink \ {m}
      /\ UNCHANGED <<queue, id, nvs, outstanding, applied, word>>
  BY DEF Ingest, remote, panel, sender
<1>2. CASE IsDuplicate(m)
  <2>1. UNCHANGED <<lastId, mailbox>>
    BY <1>2 DEF Ingest
  <2>. QED BY <1>1, <2>1, WireStep
<1>3. CASE ~IsDuplicate(m)
  <2>1. lastId' = m.id /\ mailbox' = [mailbox EXCEPT ![m.kind] = m.value]
    BY <1>3 DEF Ingest
  <2>2. /\ m \in Sent /\ m.id \in Nat \ {0} /\ m.kind \in Kinds /\ m.value \in Values
        /\ m.id <= id /\ id \in Nat /\ lastId \in Nat
    BY DEF LinkInv, LinkTypes, Numbers, Sent
  <2>3. LinkTypes'
    BY <1>1, <2>1, <2>2 DEF LinkInv, LinkTypes
  <2>4. Numbers'
    BY <1>1, <2>1, <2>2 DEF LinkInv, Numbers
  <2>5. lastId # id
    BY <1>3, <2>2 DEF IsDuplicate
  <2>6. WordStands'
    <3>. SUFFICES ASSUME word # None, queue = <<>> PROVE WordStands'
      BY <1>1 DEF WordStands, LinkInv
    <3>1. CASE m.id = id
      <4>1. Says(m, word)
        BY <2>5, <3>1 DEF LinkInv, WordStands
      <4>2. mailbox'[word.kind] = word.value
        BY <2>1, <2>2, <4>1 DEF LinkInv, LinkTypes, Says
      <4>. QED BY <1>1, <2>1, <3>1, <4>2 DEF WordStands
    <3>2. CASE m.id # id
      BY <1>1, <2>1, <2>5, <3>2 DEF LinkInv, WordStands
    <3>. QED BY <3>1, <3>2
  <2>. QED BY <2>3, <2>4, <2>6 DEF LinkInv
<1>. QED BY <1>2, <1>3

(* The mailbox over what is in force is a state again. *)
LEMMA MailedType ==
  ASSUME LinkTypes PROVE Mailed \in States /\ Empty \in [Kinds -> Values \cup {None}]
  BY DEF LinkTypes, Mailed, Empty, States

(* A control cycle moves the mailbox into force. *)
LEMMA CycleStep ==
  ASSUME RemoteConfig, LinkInv, Cycle
  PROVE  LinkInv'
<1>1. /\ mailbox' = Empty /\ applied' = Mailed
      /\ UNCHANGED <<queue, id, nvs, outstanding, uplink, lastId, word>>
  BY DEF Cycle, remote, panel, sender, wire
<1>2. LinkTypes'
  BY <1>1, MailedType DEF LinkInv, LinkTypes
<1>3. Numbers'
  BY <1>1 DEF LinkInv, Numbers
<1>4. WordStands'
  <2>. SUFFICES ASSUME word # None, queue = <<>>, lastId = id PROVE WordStands'
    BY <1>1 DEF WordStands, LinkInv
  <2>1. word.kind \in Kinds /\ word.value \in Values /\ None \notin Values
    BY LinkConstants DEF LinkInv, LinkTypes, Intents
  <2>2. Mailed[word.kind] = word.value
    BY <2>1 DEF LinkInv, WordStands, Mailed
  <2>3. mailbox'[word.kind] = None
    BY <1>1, <2>1 DEF Empty
  <2>. QED BY <1>1, <2>2, <2>3 DEF WordStands
<1>. QED BY <1>2, <1>3, <1>4 DEF LinkInv

(* A decision at the panel is the last word once the Remote is settled. *)
LEMMA WallPanelStep ==
  ASSUME RemoteConfig, LinkInv, NEW k \in Kinds, NEW v \in Values, WallPanel(k, v)
  PROVE  LinkInv'
<1>1. /\ mailbox' = Empty /\ applied' = [Mailed EXCEPT ![k] = v]
      /\ word' = IF CaughtUp THEN [kind |-> k, value |-> v] ELSE None
      /\ UNCHANGED <<queue, id, nvs, outstanding, uplink, lastId>>
  BY DEF WallPanel, remote, panel, sender, wire
<1>2. Mailed \in States /\ Empty \in [Kinds -> Values \cup {None}]
  BY MailedType DEF LinkInv
<1>3. LinkTypes'
  <2>1. applied' \in States
    BY <1>1, <1>2 DEF States
  <2>2. word' \in Intents \cup {None}
    BY <1>1 DEF Intents
  <2>. QED BY <1>1, <1>2, <2>1, <2>2 DEF LinkInv, LinkTypes
<1>4. Numbers'
  BY <1>1 DEF LinkInv, Numbers
<1>5. WordStands'
  <2>. SUFFICES ASSUME CaughtUp PROVE WordStands'
    BY <1>1 DEF WordStands
  <2>1. word' = [kind |-> k, value |-> v] /\ queue' = <<>> /\ lastId' = id'
    BY <1>1 DEF CaughtUp
  <2>2. mailbox'[k] = None /\ applied'[k] = v
    BY <1>1, <1>2 DEF Empty, States
  <2>. QED BY <2>1, <2>2 DEF WordStands
<1>. QED BY <1>3, <1>4, <1>5 DEF LinkInv

(* A reset of the Controller forgets the id it has seen. *)
LEMMA ControllerResetStep ==
  ASSUME RemoteConfig, LinkInv, ControllerReset
  PROVE  LinkInv'
<1>1. /\ lastId' = 0 /\ mailbox' = Empty /\ word' = None /\ uplink' = {}
      /\ UNCHANGED <<queue, id, nvs, outstanding, applied>>
  BY DEF ControllerReset, Left, remote, panel, sender
<1>2. LinkTypes'
  BY <1>1, MailedType DEF LinkInv, LinkTypes
<1>3. Numbers'
  BY <1>1 DEF LinkInv, LinkTypes, Numbers
<1>4. WordStands'
  BY <1>1 DEF WordStands
<1>. QED BY <1>2, <1>3, <1>4 DEF LinkInv

(* Every step keeps the invariant. *)
LEMMA LinkStep ==
  ASSUME RemoteConfig, LinkInv, [LinkNext]_linkVars PROVE LinkInv'
<1>1. ASSUME NEW k \in Kinds, NEW v \in Values, Tap(k, v) PROVE LinkInv'
  BY <1>1, TapStep
<1>2. ASSUME NEW k \in Kinds, NEW v \in Values, WallPanel(k, v) PROVE LinkInv'
  BY <1>2, WallPanelStep
<1>3. ASSUME NEW m \in uplink, Ingest(m) PROVE LinkInv'
  BY <1>3, IngestStep
<1>4. CASE Pump
  BY <1>4, PumpStep
<1>5. CASE RemoteReset
  BY <1>5, RemoteResetStep
<1>6. CASE Cycle
  BY <1>6, CycleStep
<1>7. CASE ControllerReset
  BY <1>7, ControllerResetStep
<1>8. CASE Hear
  BY <1>8, WireStep DEF Hear, sender, control
<1>9. CASE Link
  BY <1>9, WireStep DEF Link, panel, sender, control
<1>10. CASE Unlink
  BY <1>10, WireStep DEF Unlink, Unlinked, panel, sender, control
<1>11. CASE PublishEcho
  BY <1>11, WireStep DEF PublishEcho, remote, panel, sender
<1>12. CASE Measure
  BY <1>12, WireStep DEF Measure, remote, panel, sender, wire
<1>13. CASE Join
  BY <1>13, WireStep DEF Join, remote, panel, sender, wire
<1>14. CASE Leave
  BY <1>14, WireStep DEF Leave, Left, remote, panel, sender
<1>15. CASE Tick
  BY <1>15, WireStep DEF Tick, panel, wire
<1>16. CASE UNCHANGED linkVars
  BY <1>16, WireStep DEF linkVars, remote, panel, sender, wire, control
<1>. QED
  BY <1>1, <1>2, <1>3, <1>4, <1>5, <1>6, <1>7, <1>8, <1>9, <1>10, <1>11, <1>12,
     <1>13, <1>14, <1>15, <1>16 DEF LinkNext, Decision

(* The numbers of the two ends agree and the last word stands, over losses,   *)
(* repeats, reordering and resets of both.                                   *)
THEOREM RemoteInvariant == ASSUME RemoteConfig PROVE LinkSpec => []LinkInv
<1>1. LinkInit => LinkInv
  BY LinkStarts
<1>2. LinkInv /\ [LinkNext]_linkVars => LinkInv'
  BY LinkStep
<1>. QED BY <1>1, <1>2, PTL DEF LinkSpec

(* The Controller never remembers an id that the Remote could use again: no   *)
(* fresh intent is taken for a repeat.  (pumpIntents() saves the id first.)   *)
THEOREM NeverMutedHolds == ASSUME RemoteConfig PROVE LinkSpec => []NeverMuted
<1>1. LinkInv => NeverMuted
  BY DEF LinkInv, Numbers, NeverMuted
<1>. QED BY <1>1, RemoteInvariant, PTL

(* Once the newest intent is taken, the last word is in force: no repeat      *)
(* still under way undoes it.  (remoteIntentIsDuplicate(), the mailbox.)      *)
THEOREM LastWordHolds == ASSUME RemoteConfig PROVE LinkSpec => []LastWordWins
<1>1. LinkInv => LastWordWins
  <2>. SUFFICES ASSUME LinkInv, word # None, CaughtUp, mailbox[word.kind] = None
                PROVE  applied[word.kind] = word.value
    BY DEF LastWordWins
  <2>1. word.value # None
    BY LinkConstants DEF LinkInv, LinkTypes, Intents
  <2>. QED BY <2>1 DEF LinkInv, WordStands, CaughtUp
<1>. QED BY <1>1, RemoteInvariant, PTL
=============================================================================
