----------------------------- MODULE Ct485Service ------------------------------
(***************************************************************************)
(* How long the controller and the furnace can disagree: Ct485Bus with two   *)
(* clocks per channel beside it.  They watch the bus, its ticks alone        *)
(* advance them, and no step depends on them.                                *)
(***************************************************************************)
EXTENDS Ct485Bus

VARIABLES
  unheard,       \* history: ticks for which an active demand has not been served
  orphaned       \* history: ticks for which a demand is served that nobody makes

clocks == <<unheard, orphaned>>
serviceVars == <<vars, clocks>>

Unheard(c)  == chan[c].active /\ held[c].pct = 0
Orphaned(c) == ~chan[c].active /\ held[c].pct > 0

Advance(t) ==
  /\ unheard'  = [c \in Chans |-> IF Unheard(c)'  THEN unheard[c] + t  ELSE 0]
  /\ orphaned' = [c \in Chans |-> IF Orphaned(c)' THEN orphaned[c] + t ELSE 0]

ServiceInit ==
  /\ Init
  /\ unheard = [c \in Chans |-> 0] /\ orphaned = [c \in Chans |-> 0]

ServiceNext == (Event /\ Advance(0)) \/ (Tick /\ Advance(1))

ServiceSpec == ServiceInit /\ [][ServiceNext]_serviceVars

-----------------------------------------------------------------------------
(* HeardInTime: a demand that stays active is served, or given up together   *)
(* with the link, within a bounded time, whatever is lost and whatever the   *)
(* coordinator grants: the zero before it and its own frame are each sent at *)
(* most kMsgResendAttempts times, less than a window (or the grace) apart.   *)
HeardInTime ==
  \A c \in Chans :
    unheard[c] < (2 * kMsgResendAttempts - 1) * (Horizon - 1) + ResponseTimeout

(* OrphanEnds: a demand nobody makes any more is off within as many windows  *)
(* as its frame may be sent times: a lost cancel, a late retransmission of   *)
(* the demand it cancels, silence or a rejoin do not keep the furnace on.    *)
OrphanEnds ==
  \A c \in Chans : orphaned[c] <= kMsgResendAttempts * (WindowLen - 1)
===============================================================================
