---------------------------- MODULE Ct485Thermostat ----------------------------
(***************************************************************************)
(* lib/Ct485Thermostat: the transmit side of the CT-485 bus.  A demand goes  *)
(* out only on a grant of the coordinator; one exchange at a time awaits its *)
(* answer; a timer refreshes every active demand and watches for a channel   *)
(* the bus starves.                                                          *)
(*                                                                           *)
(* A channel keeps ONE age where the code keeps activatedMs and lastSentMs:  *)
(* the age since the one of the two that refMs selects, which every          *)
(* activation and every transmission resets.                                 *)
(***************************************************************************)
EXTENDS Naturals, Sequences

CONSTANTS
  kDemandChannelCount,   \* channels, served in the order of their number
  MaxPct,                \* demand levels 1 .. MaxPct, 0 = off
  kMsgResendAttempts,    \* transmissions of one exchange
  kCmdFifoDepth,
  ResponseTimeout,       \* kResponseTimeoutMs, in ticks of this model
  Due,                   \* refreshFraction of the window
  WindowLen,             \* refreshTimerMs(refreshTimerByte)
  Grace,                 \* kJoinStarvationGraceMs
  SlotLo, SlotHi,        \* the AutoNet reply slot
  assumeAddressed        \* Config: claim the node instead of joining

ASSUME StackAssumption ==
  /\ {kDemandChannelCount, MaxPct, kMsgResendAttempts, kCmdFifoDepth,
      ResponseTimeout, Due, WindowLen, Grace, SlotLo, SlotHi} \subseteq Nat \ {0}
  /\ Due < WindowLen
  /\ SlotLo =< SlotHi
  /\ assumeAddressed \in BOOLEAN

VARIABLES
  silent, granted,       \* silent_, sessionGranted_
  join, slot,            \* join_; ticks left of the discovery slot
  chan,                  \* chan_
  out,                   \* out_: the exchange awaiting its answer
  fifo, probeQueued,     \* cmdFifo_, probeQueued_
  pairing, commsLoss, starvation

switch  == <<silent, granted>>
joining == <<join, slot>>
queue   == <<fifo, probeQueued>>
alarms  == <<pairing, commsLoss, starvation>>
stack   == <<switch, joining, chan, out, queue, alarms>>

Chans  == 0 .. kDemandChannelCount - 1
Horizon == IF Grace < WindowLen THEN WindowLen ELSE Grace   \* ages saturate here
Ages   == 0 .. Horizon
Joins  == {"unaddressed", "slot_wait", "discovery_responded", "addressed"}

Channel == [active : BOOLEAN, sendNeeded : BOOLEAN, zeroPending : BOOLEAN,
            everSent : BOOLEAN, pct : 0 .. MaxPct, age : Ages]
NewChannel == [active |-> FALSE, sendNeeded |-> FALSE, zeroPending |-> FALSE,
               everSent |-> FALSE, pct |-> 0, age |-> 0]

(* A frame of an exchange: a demand names its channel and level. *)
Frame == [kind : {"none", "demand", "command", "probe"},
          ch : Chans, pct : 0 .. MaxPct]
Plain(kind) == [kind |-> kind, ch |-> 0, pct |-> 0]
NoFrame == Plain("none")

Exchange == [frame : Frame, retryQueued : BOOLEAN,
             attempts : 0 .. kMsgResendAttempts,
             age : 0 .. ResponseTimeout]
NoExchange == [frame |-> NoFrame, retryQueued |-> FALSE, attempts |-> 0, age |-> 0]

Awaiting == out.frame.kind # "none"                       \* out_.active
Carries(c) == out.frame.kind = "demand" /\ out.frame.ch = c
Addressed == join = "addressed"

StackTypeOK ==
  /\ silent \in BOOLEAN /\ granted \in BOOLEAN /\ probeQueued \in BOOLEAN
  /\ pairing \in BOOLEAN /\ commsLoss \in BOOLEAN /\ starvation \in BOOLEAN
  /\ join \in Joins
  /\ slot \in 0 .. SlotHi
  /\ chan \in [Chans -> Channel]
  /\ out \in Exchange
  /\ fifo \in Seq({"command", "probe"})
  /\ Len(fifo) =< kCmdFifoDepth

StackInit ==
  /\ silent = TRUE
  /\ granted = FALSE
  /\ join = IF assumeAddressed THEN "addressed" ELSE "unaddressed"
  /\ slot = 0
  /\ chan = [c \in Chans |-> NewChannel]
  /\ out = NoExchange
  /\ fifo = <<>>
  /\ probeQueued = FALSE
  /\ pairing = FALSE /\ commsLoss = FALSE /\ starvation = FALSE

-----------------------------------------------------------------------------
(* The safety switch *)

clearDemands == chan' = [c \in Chans |-> NewChannel]

Flush ==
  /\ clearDemands
  /\ out' = NoExchange
  /\ fifo' = <<>>
  /\ probeQueued' = FALSE

goSilent ==
  /\ silent' = TRUE
  /\ granted' = FALSE
  /\ Flush
  /\ join' = IF join \in {"slot_wait", "discovery_responded"} THEN "unaddressed" ELSE join
  /\ slot' = 0

resume ==
  /\ silent
  /\ silent' = FALSE
  /\ UNCHANGED <<granted, joining, chan, out, queue, alarms>>

clearAlarms ==
  /\ pairing' = FALSE /\ commsLoss' = FALSE /\ starvation' = FALSE
  /\ UNCHANGED <<switch, joining, chan, out, queue>>

-----------------------------------------------------------------------------
(* Demands and queued frames *)

Activated(cs, pct) ==
  [active |-> TRUE, pct |-> pct, zeroPending |-> FALSE,
   sendNeeded |-> cs.sendNeeded \/ cs.pct # pct,
   everSent |-> cs.active /\ cs.everSent,
   age |-> IF cs.active THEN cs.age ELSE 0]

CancelledQuietly(cs) ==                \* mutant: zero only while still unsent
  [NewChannel EXCEPT !.zeroPending = cs.everSent /\ cs.sendNeeded,
                     !.everSent = cs.everSent]

Cancelled(cs) == [NewChannel EXCEPT !.zeroPending = cs.everSent,
                                    !.everSent = cs.everSent]

Demanded(cs, pct) == IF pct > 0 THEN Activated(cs, pct) ELSE Cancelled(cs)

(* setDemand() on every channel, as the actuator of the control cycle does. *)
setDemands(d) ==
  /\ ~silent
  /\ chan' = [c \in Chans |-> Demanded(chan[c], d[c])]
  /\ UNCHANGED <<switch, joining, out, queue, alarms>>

queueCommand(kind) ==
  /\ ~silent
  /\ Len(fifo) < kCmdFifoDepth
  /\ fifo' = Append(fifo, kind)

setSystemSwitch ==                     \* and the two setpoint writes
  /\ queueCommand("command")
  /\ UNCHANGED <<switch, joining, chan, out, probeQueued, alarms>>

queueProbe ==                          \* and queueMenuProbe: one probe at a time
  /\ ~probeQueued
  /\ queueCommand("probe")
  /\ probeQueued' = TRUE
  /\ UNCHANGED <<switch, joining, chan, out, alarms>>

-----------------------------------------------------------------------------
(* Token grants: Grant(f) transmits the frame f, NoFrame being the poll's    *)
(* acknowledgement (or the token's decline).                                 *)

Begin(f) == [frame |-> f, retryQueued |-> FALSE, attempts |-> 1, age |-> 0]

SentAlways(cs) == [cs EXCEPT !.everSent = TRUE, !.age = 0]   \* mutant (#185)

(* everSent: a nonzero demand is on the wire; the transmission restarts age. *)
SentNow(cs) == [cs EXCEPT !.everSent = cs.active, !.age = 0]

Pending(c) == chan[c].sendNeeded \/ chan[c].zeroPending

RetransmitUncounted(f) ==              \* mutant: the retry budget never ends
  /\ Awaiting /\ out.retryQueued
  /\ f = out.frame
  /\ out' = [out EXCEPT !.retryQueued = FALSE, !.age = 0]
  /\ chan' = [c \in Chans |-> IF Carries(c) THEN SentNow(chan[c]) ELSE chan[c]]
  /\ UNCHANGED queue

RetransmitOwed(f) ==
  /\ Awaiting /\ out.retryQueued
  /\ f = out.frame
  /\ out' = [out EXCEPT !.retryQueued = FALSE, !.attempts = @ + 1, !.age = 0]
  /\ chan' = [c \in Chans |-> IF Carries(c) THEN SentNow(chan[c]) ELSE chan[c]]
  /\ UNCHANGED queue

SendDemand(f) ==
  /\ ~Awaiting
  /\ f.kind = "demand"
  /\ Pending(f.ch)
  /\ \A c \in Chans : c < f.ch => ~Pending(c)
  /\ f.pct = chan[f.ch].pct
  /\ out' = Begin(f)
  /\ chan' = [chan EXCEPT ![f.ch] = [SentNow(@) EXCEPT !.sendNeeded = FALSE,
                                                      !.zeroPending = FALSE]]
  /\ UNCHANGED queue

SendQueued(f) ==
  /\ ~Awaiting
  /\ \A c \in Chans : ~Pending(c)
  /\ fifo # <<>>
  /\ f = Plain(Head(fifo))
  /\ out' = Begin(f)
  /\ fifo' = Tail(fifo)
  /\ UNCHANGED <<chan, probeQueued>>

AnswerPoll(f) ==
  /\ f = NoFrame
  /\ \/ Awaiting /\ ~out.retryQueued
     \/ ~Awaiting /\ fifo = <<>> /\ \A c \in Chans : ~Pending(c)
  /\ UNCHANGED <<chan, out, queue>>

Grant(f) ==
  /\ ~silent /\ Addressed
  /\ granted' = TRUE
  /\ RetransmitOwed(f) \/ SendDemand(f) \/ SendQueued(f) \/ AnswerPoll(f)
  /\ UNCHANGED <<silent, joining, alarms>>

-----------------------------------------------------------------------------
(* Answers.  An echo carries the command code of the frame it answers.       *)

CommandCode == kDemandChannelCount     \* any code but a demand's
OddCode     == kDemandChannelCount + 1 \* a code no exchange of ours has

CodeOf(f) == CASE f.kind = "demand"  -> f.ch
               [] f.kind = "command" -> CommandCode
               [] OTHER              -> kDemandChannelCount + 2

Reply == [kind : {"none", "ack", "echo", "nak1", "nak2", "answer"},
          code : 0 .. kDemandChannelCount + 2]

resetKeepsProbe ==                     \* mutant: the probe slot stays taken
  /\ out' = NoExchange
  /\ UNCHANGED probeQueued

resetOutstanding ==
  /\ out' = NoExchange
  /\ probeQueued' = (probeQueued /\ out.frame.kind # "probe")

Delivers(r) == r.kind = "ack" \/ (r.kind = "echo" /\ r.code = CodeOf(out.frame))

Delivered ==
  /\ starvation' = (starvation /\ out.frame.kind # "demand")
  /\ commsLoss' = FALSE                \* noteRoundTrip()
  /\ resetOutstanding
  /\ UNCHANGED <<switch, joining, chan, fifo, pairing>>

Unrecognized ==
  /\ resetOutstanding
  /\ UNCHANGED <<switch, joining, chan, fifo, alarms>>

BadCrcDropped == Unrecognized          \* mutant: the frame is given up

BadCrc ==
  IF out.attempts < kMsgResendAttempts
  THEN /\ out' = [out EXCEPT !.retryQueued = TRUE]
       /\ UNCHANGED <<switch, joining, chan, queue, alarms>>
  ELSE IF out.frame.kind = "probe" THEN Unrecognized
  ELSE /\ goSilent
       /\ commsLoss' = TRUE
       /\ UNCHANGED <<pairing, starvation>>

PairingRejected ==
  /\ pairing' = TRUE
  /\ Flush
  /\ UNCHANGED <<switch, joining, commsLoss, starvation>>

handleControlResponse(r) ==
  IF ~Addressed \/ ~Awaiting THEN UNCHANGED stack   \* counted as unexpected
  ELSE \/ Delivers(r) /\ Delivered
       \/ r.kind = "echo" /\ ~Delivers(r) /\ Unrecognized
       \/ r.kind = "nak1" /\ BadCrc
       \/ r.kind = "nak2" /\ PairingRejected

(* The answer of a Get: stored, and proof of the round trip. *)
probeAnswer ==
  IF Addressed /\ out.frame.kind = "probe"
  THEN /\ resetOutstanding
       /\ commsLoss' = FALSE
       /\ UNCHANGED <<switch, joining, chan, fifo, pairing, starvation>>
  ELSE UNCHANGED stack

onReply(r) == IF r.kind = "answer" THEN probeAnswer ELSE handleControlResponse(r)

-----------------------------------------------------------------------------
(* AutoNet.  A node that claims its address ignores re-enumeration. *)

handleDiscoveryKeeps ==                \* mutant: rejoins with the exchange open
  /\ ~silent
  /\ ~(Addressed /\ assumeAddressed)
  /\ join' = "slot_wait"
  /\ slot' \in SlotLo .. SlotHi
  /\ UNCHANGED <<switch, chan, out, queue, alarms>>

handleDiscovery ==
  /\ ~silent
  /\ ~(Addressed /\ assumeAddressed)
  /\ IF Addressed THEN Flush ELSE UNCHANGED <<chan, out, queue>>
  /\ join' = "slot_wait"
  /\ slot' \in SlotLo .. SlotHi
  /\ UNCHANGED <<switch, alarms>>

handleSetAddress ==
  /\ ~silent
  /\ join' = "addressed"
  /\ UNCHANGED <<switch, slot, chan, out, queue, alarms>>

-----------------------------------------------------------------------------
(* tick(): one unit of time, then the timers *)

Older(age, cap) == IF age < cap THEN age + 1 ELSE age

AgedOut == [out EXCEPT !.age = Older(@, ResponseTimeout)]
AgedChan(c) == [chan[c] EXCEPT !.age = IF chan[c].active THEN Older(@, Horizon) ELSE 0]

TimedOut == Awaiting /\ ~out.retryQueued /\ AgedOut.age >= ResponseTimeout
Exhausted == out.attempts >= kMsgResendAttempts

LimitNever(c) == Horizon + 1                                 \* mutant
Limit(c) == IF ~chan[c].everSent /\ ~granted THEN Grace ELSE WindowLen
Starved == \E c \in Chans : chan[c].active /\ AgedChan(c).age >= Limit(c)

Refreshed(c) == [AgedChan(c) EXCEPT !.sendNeeded =
                   @ \/ (chan[c].active /\ AgedChan(c).age >= Due)]

DropsLink == TimedOut /\ Exhausted /\ out.frame.kind # "probe"

TickCommsLoss ==
  /\ DropsLink
  /\ commsLoss' = TRUE
  /\ goSilent
  /\ UNCHANGED <<pairing, starvation>>

TickStarved ==
  /\ ~DropsLink
  /\ Starved
  /\ starvation' = TRUE
  /\ goSilent
  /\ UNCHANGED <<pairing, commsLoss>>

TickServed ==
  /\ ~DropsLink
  /\ ~Starved
  /\ chan' = [c \in Chans |-> Refreshed(c)]
  /\ IF TimedOut /\ Exhausted THEN resetOutstanding
     ELSE /\ out' = IF TimedOut THEN [AgedOut EXCEPT !.retryQueued = TRUE]
                    ELSE IF Awaiting THEN AgedOut ELSE out
          /\ UNCHANGED probeQueued
  /\ IF join = "slot_wait"
     THEN /\ slot' = slot - 1
          /\ join' = IF slot = 1 THEN "discovery_responded" ELSE join
     ELSE UNCHANGED joining
  /\ starvation' = FALSE
  /\ UNCHANGED <<switch, fifo, pairing, commsLoss>>

tick ==
  \/ silent /\ UNCHANGED stack
  \/ ~silent /\ (TickCommsLoss \/ TickStarved \/ TickServed)
=============================================================================
