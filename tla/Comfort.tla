------------------------------- MODULE Comfort --------------------------------
(***************************************************************************)
(* Who decides the setpoints, and what a reset leaves of it: the mailbox and *)
(* the panel in consumeCommands(), the stale-MQTT fallback, the vacation     *)
(* window, persistOnChange() and setup().  One control cycle is a walk of pc *)
(* through these in the code's order; a reset may cut it anywhere.  The mode  *)
(* decides only which setpoint a single write is for, and a hold only whether *)
(* a preset is applied: both are a free choice here.                          *)
(***************************************************************************)
EXTENDS Setpoints

CONSTANTS
  Eco, Emergency,   \* the vacation's pair; gEmergencyHeatC and gEmergencyCoolC
  MqttStaleS,       \* kMqttStaleS (30 min), in cycles
  Wanted            \* bound: the temperatures anybody asks for

ASSUME ComfortConfig ==
  /\ Wanted \subseteq Temps
  /\ {Eco, Emergency} \subseteq AnyPair
  /\ MqttStaleS \in Nat \ {0}

Places == {"off", "mail", "away", "panel", "fallback", "vacation", "heat", "cool"}
When   == {"before", "in", "after"}

VARIABLES
  pc,        \* the next step of the control cycle
  pair,      \* the setpoints in gModeSm
  vac,       \* gVac: set, anchored, and with the prior pair once applied
  window,    \* where the calendar is in an anchored vacation's window
  synced,    \* clockIsSynced()
  heard,     \* the mailbox holds inbound traffic
  silent,    \* nowS - gLastInboundS, up to MqttStaleS
  fallback,  \* gFallbackApplied
  flash,     \* "hsp", "csp" and "vac"
  mine,      \* history: the pair last decided while no vacation was in force
  answered,  \* history: the fallback has answered this outage
  ending,    \* history: a vacation in force has ended and its pair is not saved
  excused    \* history: a vacation was set over one in force, or a reset fell
             \* while one was ending, and nobody decided since

outage  == <<heard, silent, fallback, answered>>
past    == <<mine, ending, excused>>
vars    == <<pc, pair, vac, window, synced, outage, flash, past>>

NoVac  == [on |-> FALSE, anchored |-> FALSE, applied |-> FALSE, prior |-> Eco]
NewVac == [NoVac EXCEPT !.on = TRUE]
Vacations == [on : BOOLEAN, anchored : BOOLEAN, applied : BOOLEAN, prior : AnyPair]

TypeOK ==
  /\ pc \in Places /\ pair \in Pairs
  /\ vac \in Vacations
  /\ window \in When
  /\ {synced, heard, fallback, answered, ending, excused} \subseteq BOOLEAN
  /\ silent \in 0..MqttStaleS /\ mine \in Pairs
  /\ flash \in [heat : Temps, cool : Temps, vac : Vacations]

restore(f) == setBoth(Emergency, [heat |-> f.heat, cool |-> f.cool])

Init ==
  /\ pc = "mail" /\ pair \in Pairs /\ mine = pair
  /\ vac = NoVac /\ window = "before" /\ synced = FALSE
  /\ heard = FALSE /\ silent = 0 /\ fallback = FALSE /\ answered = FALSE
  /\ flash = [heat |-> pair.heat, cool |-> pair.cool, vac |-> NoVac]
  /\ ending = FALSE /\ excused = FALSE

-----------------------------------------------------------------------------
(* A decision about the pair outside a vacation in force is the user's own. *)
Decide(p) ==
  /\ pair' = p
  /\ mine' = IF vac.applied THEN mine ELSE p
  /\ excused' = (excused /\ vac.applied)
  /\ UNCHANGED ending

(* consumeCommands(): one write of the mailbox, of either setpoint or both.  *)
Mail ==
  /\ pc = "mail" /\ pc' = "away"
  /\ silent' = IF heard THEN 0 ELSE silent
  /\ heard' = FALSE
  /\ \/ UNCHANGED <<pair, past>>
     \/ heard /\ \E c \in Wanted : \/ Decide(setHeatSetpoint(pair, c))
                                   \/ Decide(setCoolSetpoint(pair, c))
     \/ heard /\ \E h, c \in Wanted : Decide(setBoth(pair, [heat |-> h, cool |-> c]))
  /\ answered' = (answered /\ ~heard)
  /\ UNCHANGED <<vac, window, synced, fallback, flash>>

(* The vacation commands of the mailbox and of the panel. *)
SetVacation(w) ==
  /\ vac' = [NewVac EXCEPT !.anchored = synced]
  /\ window' = IF synced THEN w ELSE "before"
  /\ flash' = [flash EXCEPT !.vac = vac']
  /\ excused' = (excused \/ vac.applied)
  /\ UNCHANGED <<pair, mine, ending>>

EndUnsaved ==                           \* mutant: saveVacation() is forgotten
  /\ pair' = IF vac.applied THEN setBoth(pair, vac.prior) ELSE pair
  /\ vac' = NoVac
  /\ ending' = (ending \/ vac.applied)
  /\ UNCHANGED <<flash, past>>

EndVacation ==
  /\ pair' = IF vac.applied THEN setBoth(pair, vac.prior) ELSE pair
  /\ vac' = NoVac /\ flash' = [flash EXCEPT !.vac = NoVac]
  /\ ending' = (ending \/ vac.applied)
  /\ UNCHANGED <<mine, excused>>

ClearVacation == EndVacation /\ UNCHANGED window

AwayStays == UNCHANGED <<pair, vac, window, flash, past>>

Away ==
  /\ pc = "away" /\ pc' = "panel"
  /\ AwayStays \/ (\E w \in {"before", "in"} : SetVacation(w)) \/ ClearVacation
  /\ UNCHANGED <<synced, outage>>

(* The intents of the wall panel, until its queue is empty. *)
PanelSetpoints ==
  /\ pc = "panel"
  /\ \E h, c \in Wanted : Decide(setBoth(pair, [heat |-> h, cool |-> c]))
  /\ UNCHANGED <<pc, vac, window, synced, outage, flash>>

PanelVacation ==
  /\ pc = "panel"
  /\ (\E w \in {"before", "in"} : SetVacation(w)) \/ ClearVacation
  /\ UNCHANGED <<pc, synced, outage>>

PanelDone ==
  /\ pc = "panel" /\ pc' = "fallback"
  /\ UNCHANGED <<pair, vac, window, synced, outage, flash, past>>

(* controlCycle(): the emergency pair, once per outage. *)
FallsBack(stale) == stale /\ ~fallback

Fallback ==
  /\ pc = "fallback" /\ pc' = "vacation"
  /\ LET stale == silent >= MqttStaleS
     IN /\ fallback' = stale
        /\ answered' = (answered \/ stale)
        /\ pair' = IF FallsBack(stale) THEN setBoth(pair, Emergency) ELSE pair
        /\ IF stale /\ ~answered THEN Decide(pair') ELSE UNCHANGED past
  /\ UNCHANGED <<vac, window, synced, heard, silent, flash>>

(* evaluateVacation() *)
Anchor(w) ==
  /\ pc = "vacation" /\ vac.on /\ ~vac.anchored /\ synced
  /\ vac' = [vac EXCEPT !.anchored = TRUE]
  /\ window' = w
  /\ flash' = [flash EXCEPT !.vac = vac']
  /\ UNCHANGED <<pc, pair, synced, outage, past>>

EntersForgetful == [vac EXCEPT !.applied = TRUE, !.prior = Eco]     \* mutant
Enters == IF vac.applied THEN vac ELSE [vac EXCEPT !.applied = TRUE, !.prior = pair]

InWindow ==
  /\ pc = "vacation" /\ vac.on /\ vac.anchored /\ synced /\ window = "in"
  /\ pc' = "heat"
  /\ vac' = Enters /\ flash' = [flash EXCEPT !.vac = vac']
  /\ pair' = setBoth(pair, Eco)
  /\ UNCHANGED <<window, synced, outage, past>>

WindowOver ==
  /\ pc = "vacation" /\ vac.on /\ vac.anchored /\ synced /\ window = "after"
  /\ pc' = "heat"
  /\ EndVacation
  /\ UNCHANGED <<window, synced, outage>>

NoWindow ==
  /\ pc = "vacation" /\ pc' = "heat"
  /\ vac.on => ~synced \/ (vac.anchored /\ window = "before")
  /\ UNCHANGED <<pair, vac, window, synced, outage, flash, past>>

(* persistOnChange(): two keys, one after the other. *)
PersistHeat ==
  /\ pc = "heat" /\ pc' = "cool"
  /\ flash' = [flash EXCEPT !.heat = pair.heat]
  /\ UNCHANGED <<pair, vac, window, synced, outage, past>>

PersistCool ==
  /\ pc = "cool" /\ pc' = "mail"
  /\ flash' = [flash EXCEPT !.cool = pair.cool]
  /\ silent' = IF silent < MqttStaleS THEN silent + 1 ELSE silent
  /\ ending' = FALSE
  /\ UNCHANGED <<pair, vac, window, synced, heard, fallback, answered, mine, excused>>

-----------------------------------------------------------------------------
(* What is around: messages, NTP, the calendar, resets. *)
Inbound ==
  /\ pc # "off" /\ ~heard /\ heard' = TRUE
  /\ UNCHANGED <<pc, pair, vac, window, synced, silent, fallback, answered, flash, past>>

Sync ==
  /\ pc # "off" /\ ~synced /\ synced' = TRUE
  /\ UNCHANGED <<pc, pair, vac, window, outage, flash, past>>

Calendar ==
  /\ vac.on /\ vac.anchored /\ window # "after"
  /\ window' = IF window = "before" THEN "in" ELSE "after"
  /\ UNCHANGED <<pc, pair, vac, synced, outage, flash, past>>

(* A reset loses the RAM, and what a person decided in the cycle it cuts.    *)
Reset ==
  /\ pc # "off" /\ pc' = "off"
  /\ excused' = (excused \/ ending)
  /\ mine' = IF flash.vac.applied \/ excused' THEN mine ELSE restore(flash)
  /\ UNCHANGED <<pair, vac, window, synced, outage, flash, ending>>

Boot ==
  /\ pc = "off" /\ pc' = "mail"
  /\ pair' = restore(flash) /\ vac' = flash.vac
  /\ synced' = FALSE /\ heard' = FALSE /\ silent' = 0 /\ fallback' = FALSE
  /\ answered' = FALSE /\ ending' = FALSE
  /\ UNCHANGED <<window, flash, mine, excused>>

Next ==
  \/ Mail \/ Away \/ PanelSetpoints \/ PanelVacation \/ PanelDone \/ Fallback
  \/ (\E w \in {"before", "in"} : Anchor(w)) \/ InWindow \/ WindowOver \/ NoWindow
  \/ PersistHeat \/ PersistCool
  \/ Inbound \/ Sync \/ Calendar \/ Reset \/ Boot

Spec == Init /\ [][Next]_vars

-----------------------------------------------------------------------------
(* Between two cycles. *)
Settled == pc = "mail"

(* The pair in force is the last one somebody decided: a vacation gives back *)
(* what it found, its own writes and those it overrides leave no trace, and  *)
(* the fallback answers an outage once, so an edit made in it stays.  Not so *)
(* when a vacation was set over one in force, or a reset fell between the    *)
(* end of one and the save of the pair.                                      *)
PairIsDecided == Settled /\ ~vac.applied /\ ~excused => pair = mine

(* A reboot between two cycles changes nothing about the comfort: the flash  *)
(* holds the pair and the vacation in force.                                 *)
RebootKeeps == Settled => restore(flash) = pair /\ flash.vac = vac
===============================================================================
