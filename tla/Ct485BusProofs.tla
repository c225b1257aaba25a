---------------------------- MODULE Ct485BusProofs ----------------------------
(***************************************************************************)
(* For every number of channels and levels, every window, retry budget and   *)
(* behaviour of the furnace: the types, the silent and the unjoined state,   *)
(* that an acknowledged level is the level the furnace serves, and that the  *)
(* probe slot never leaks.  With a furnace that answers promptly, also that  *)
(* a cancel is sent once and leaves nothing on.  With any furnace, how long  *)
(* the controller and the furnace can disagree about a channel.              *)
(***************************************************************************)
EXTENDS Ct485Service, TLAPS

(* Positive bounds, as numbers the provers can use. *)
LEMMA Constants ==
  /\ kDemandChannelCount \in Nat /\ kDemandChannelCount > 0
  /\ MaxPct \in Nat /\ MaxPct > 0
  /\ kMsgResendAttempts \in Nat /\ kMsgResendAttempts > 0
  /\ kCmdFifoDepth \in Nat /\ kCmdFifoDepth > 0
  /\ ResponseTimeout \in Nat /\ ResponseTimeout > 0
  /\ Due \in Nat /\ WindowLen \in Nat /\ Grace \in Nat /\ WindowLen > 0
  /\ SlotLo \in Nat /\ SlotHi \in Nat /\ SlotLo > 0
  /\ Horizon \in Nat /\ Horizon >= WindowLen /\ Horizon >= Grace
  /\ 0 \in Ages /\ 0 \in Chans
BY StackAssumption DEF StackAssumption, Horizon, Ages, Chans

(* The values a channel, an exchange and the furnace start from. *)
LEMMA Fresh ==
  /\ NewChannel \in Channel
  /\ NoExchange \in Exchange
  /\ Nothing \in [pct : 0 .. MaxPct, age : 0 .. WindowLen - 1, current : BOOLEAN]
  /\ NoReply \in Reply
BY Constants DEF NewChannel, Channel, NoExchange, Exchange, NoFrame, Plain,
                 Frame, Nothing, NoReply, Reply

(* What a demand, a transmission or the passing of time makes of a channel is *)
(* a channel.                                                                 *)
LEMMA ChannelOps ==
  ASSUME NEW cs \in Channel
  PROVE  /\ \A p \in 0 .. MaxPct : Demanded(cs, p) \in Channel
         /\ SentNow(cs) \in Channel
         /\ [SentNow(cs) EXCEPT !.sendNeeded = FALSE, !.zeroPending = FALSE] \in Channel
<1>1. \A p \in 0 .. MaxPct : Activated(cs, p) \in Channel
  BY Constants DEF Activated, Channel, Ages
<1>2. Cancelled(cs) \in Channel
  BY Constants, Fresh DEF Cancelled, Channel
<1>3. SentNow(cs) \in Channel
  BY Constants DEF SentNow, Channel
<1>4. [SentNow(cs) EXCEPT !.sendNeeded = FALSE, !.zeroPending = FALSE] \in Channel
  BY <1>3 DEF Channel
<1>. QED BY <1>1, <1>2, <1>3, <1>4 DEF Demanded

(* Ages stay within their cap. *)
LEMMA OlderType ==
  ASSUME NEW cap \in Nat, NEW age \in 0 .. cap
  PROVE  Older(age, cap) \in 0 .. cap
BY DEF Older

LEMMA AgedType ==
  ASSUME TypeOK
  PROVE  /\ AgedOut \in Exchange
         /\ [AgedOut EXCEPT !.retryQueued = TRUE] \in Exchange
         /\ \A c \in Chans : AgedChan(c) \in Channel /\ Refreshed(c) \in Channel
<1>1. AgedOut \in Exchange
  BY Constants, OlderType DEF TypeOK, StackTypeOK, AgedOut, Exchange
<1>2. ASSUME NEW c \in Chans
      PROVE  AgedChan(c) \in Channel /\ Refreshed(c) \in Channel
  <2>1. AgedChan(c) \in Channel
    BY Constants, OlderType DEF TypeOK, StackTypeOK, AgedChan, Channel, Ages
  <2>. QED BY <2>1 DEF TypeOK, StackTypeOK, Refreshed, Channel
<1>. QED BY <1>1, <1>2 DEF Exchange

-----------------------------------------------------------------------------
(* What TypeOK needs to be inductive: a retransmission is owed only while the *)
(* budget lasts, and a node that waits for its slot has time left to wait.    *)
Budget == out.retryQueued = TRUE => out.attempts < kMsgResendAttempts
SlotArmed == join = "slot_wait" => slot > 0

(* goSilent() and the flush leave every variable in its type. *)
LEMMA FlushType ==
  ASSUME TypeOK, Flush
  PROVE  /\ chan' \in [Chans -> Channel] /\ out' \in Exchange
         /\ fifo' \in Seq({"command", "probe"}) /\ Len(fifo') =< kCmdFifoDepth
         /\ probeQueued' \in BOOLEAN
<1>1. chan' \in [Chans -> Channel] /\ out' \in Exchange /\ probeQueued' \in BOOLEAN
  BY Fresh DEF Flush, clearDemands
<1>2. fifo' = <<>>
  BY DEF Flush
<1>3. <<>> \in Seq({"command", "probe"}) /\ Len(<<>>) = 0
  OBVIOUS
<1>. QED BY <1>1, <1>2, <1>3, Constants

LEMMA SilentType ==
  ASSUME TypeOK, goSilent,
         pairing' \in BOOLEAN, commsLoss' \in BOOLEAN, starvation' \in BOOLEAN
  PROVE  StackTypeOK'
<1>1. /\ chan' \in [Chans -> Channel] /\ out' \in Exchange
      /\ fifo' \in Seq({"command", "probe"}) /\ Len(fifo') =< kCmdFifoDepth
      /\ probeQueued' \in BOOLEAN
  BY FlushType DEF goSilent
<1>2. join' \in Joins /\ slot' \in 0 .. SlotHi
  BY Constants DEF goSilent, TypeOK, StackTypeOK, Joins
<1>. QED
  BY <1>1, <1>2 DEF goSilent, TypeOK, StackTypeOK, Chans, Channel, Ages, Horizon, Exchange, Frame

(* The stack's types over each operation. *)
LEMMA DemandsType ==
  ASSUME TypeOK, NEW d \in [Chans -> 0 .. MaxPct], setDemands(d)
  PROVE  StackTypeOK'
<1>1. chan' \in [Chans -> Channel]
  BY ChannelOps DEF setDemands, TypeOK, StackTypeOK
<1>. QED
  BY <1>1 DEF setDemands, TypeOK, StackTypeOK, switch, joining, queue, alarms, Chans,
              Channel, Ages, Horizon, Exchange, Frame

LEMMA QueueType ==
  ASSUME TypeOK, setSystemSwitch \/ queueProbe
  PROVE  StackTypeOK'
<1>1. ASSUME NEW kind \in {"command", "probe"}, queueCommand(kind)
      PROVE  fifo' \in Seq({"command", "probe"}) /\ Len(fifo') =< kCmdFifoDepth
  BY <1>1, Constants DEF queueCommand, TypeOK, StackTypeOK
<1>2. fifo' \in Seq({"command", "probe"}) /\ Len(fifo') =< kCmdFifoDepth
  BY <1>1 DEF setSystemSwitch, queueProbe
<1>. QED
  BY <1>2 DEF setSystemSwitch, queueProbe, queueCommand, TypeOK, StackTypeOK, switch,
              joining, queue, alarms, Chans, Channel, Ages, Horizon, Exchange, Frame

LEMMA GrantType ==
  ASSUME TypeOK, Budget, NEW f \in Frames, Grant(f)
  PROVE  StackTypeOK' /\ Budget'
<1>0. f \in Frame
  BY Constants DEF Frames, Frame, NoFrame, Plain
<1>1. chan' \in [Chans -> Channel] /\ out' \in Exchange /\ Budget'
  <2>0. Begin(f) \in Exchange /\ ~Begin(f).retryQueued
    BY <1>0, Constants DEF Begin, Exchange
  <2>1. CASE RetransmitOwed(f)
    <3>1. \A c \in Chans : SentNow(chan[c]) \in Channel /\ chan[c] \in Channel
      BY ChannelOps DEF TypeOK, StackTypeOK
    <3>2. chan' \in [Chans -> Channel]
      BY <2>1, <3>1 DEF RetransmitOwed
    <3>3. out.attempts + 1 \in 0 .. kMsgResendAttempts
      <4>1. out.retryQueued = TRUE
        BY <2>1 DEF RetransmitOwed, TypeOK, StackTypeOK, Exchange
      <4>2. out.attempts \in 0 .. kMsgResendAttempts
        BY DEF TypeOK, StackTypeOK, Exchange
      <4>. QED BY <4>1, <4>2, Constants DEF Budget
    <3>4. out' \in Exchange /\ out'.retryQueued = FALSE
      <4>1. out \in Exchange /\ 0 \in 0 .. ResponseTimeout
        BY Constants DEF TypeOK, StackTypeOK
      <4>2. out' = [out EXCEPT !.retryQueued = FALSE, !.attempts = out.attempts + 1, !.age = 0]
        BY <2>1 DEF RetransmitOwed
      <4>. QED BY <3>3, <4>1, <4>2 DEF Exchange
    <3>. QED BY <3>2, <3>4 DEF Budget
  <2>2. CASE SendDemand(f)
    <3>1. f.ch \in Chans
      BY <1>0 DEF Frame
    <3>2. [SentNow(chan[f.ch]) EXCEPT !.sendNeeded = FALSE, !.zeroPending = FALSE] \in Channel
      BY <3>1, ChannelOps DEF TypeOK, StackTypeOK
    <3>3. chan' \in [Chans -> Channel]
      BY <2>2, <3>1, <3>2 DEF SendDemand, TypeOK, StackTypeOK
    <3>. QED BY <2>0, <2>2, <3>3 DEF SendDemand, Budget
  <2>3. CASE SendQueued(f)
    BY <2>0, <2>3 DEF SendQueued, Budget, TypeOK, StackTypeOK
  <2>4. CASE AnswerPoll(f)
    BY <2>4 DEF AnswerPoll, Budget, TypeOK, StackTypeOK
  <2>. QED BY <2>1, <2>2, <2>3, <2>4 DEF Grant
<1>2. fifo' \in Seq({"command", "probe"}) /\ Len(fifo') =< kCmdFifoDepth /\ probeQueued' \in BOOLEAN
  <2>1. CASE SendQueued(f)
    BY <2>1, Constants DEF SendQueued, TypeOK, StackTypeOK
  <2>. QED BY <2>1 DEF Grant, RetransmitOwed, SendDemand, AnswerPoll, queue, TypeOK, StackTypeOK
<1>. QED
  BY <1>1, <1>2 DEF Grant, TypeOK, StackTypeOK, joining, alarms, Chans,
                    Channel, Ages, Horizon, Exchange, Frame

LEMMA ReplyType ==
  ASSUME TypeOK, Budget, onReply(reply)
  PROVE  StackTypeOK' /\ Budget'
<1>0. /\ UNCHANGED stack => StackTypeOK' /\ Budget'
      /\ resetOutstanding => /\ out' \in Exchange /\ probeQueued' \in BOOLEAN
                             /\ Budget'
  <2>1. UNCHANGED stack => StackTypeOK' /\ Budget'
    BY DEF TypeOK, StackTypeOK, Budget, stack, switch, joining, queue, alarms, Chans,
           Channel, Ages, Horizon, Exchange, Frame
  <2>2. resetOutstanding => /\ out' \in Exchange /\ probeQueued' \in BOOLEAN /\ Budget'
    BY Fresh DEF resetOutstanding, Budget, NoExchange
  <2>. QED BY <2>1, <2>2
<1>1. CASE probeAnswer
  BY <1>0, <1>1 DEF probeAnswer, TypeOK, StackTypeOK, switch, joining, Chans, Channel, Ages,
                    Horizon, Exchange, Frame
<1>2. CASE handleControlResponse(reply)
  <2>1. CASE UNCHANGED stack
    BY <1>0, <2>1
  <2>2. CASE Delivered \/ Unrecognized
    BY <1>0, <2>2 DEF Delivered, Unrecognized, TypeOK, StackTypeOK, switch, joining, alarms,
                      Chans, Channel, Ages, Horizon, Exchange, Frame
  <2>3. CASE BadCrc
    <3>1. CASE out.attempts < kMsgResendAttempts
      <4>1. out' \in Exchange /\ Budget'
        BY <2>3, <3>1, Constants DEF BadCrc, Budget, TypeOK, StackTypeOK, Exchange
      <4>. QED BY <2>3, <3>1, <4>1 DEF BadCrc, TypeOK, StackTypeOK, switch, joining, queue,
                alarms, Chans, Channel, Ages, Horizon, Exchange, Frame
    <3>2. CASE goSilent /\ commsLoss' = TRUE /\ UNCHANGED <<pairing, starvation>>
      <4>1. StackTypeOK'
        BY <3>2, SilentType DEF TypeOK, StackTypeOK
      <4>. QED BY <3>2, <4>1 DEF goSilent, Flush, NoExchange, Budget
    <3>3. CASE Unrecognized
      BY <1>0, <3>3 DEF Unrecognized, TypeOK, StackTypeOK, switch, joining, alarms,
                      Chans, Channel, Ages, Horizon, Exchange, Frame
    <3>. QED BY <2>3, <3>1, <3>2, <3>3 DEF BadCrc
  <2>4. CASE PairingRejected
    <3>1. /\ chan' \in [Chans -> Channel] /\ out' \in Exchange
          /\ fifo' \in Seq({"command", "probe"}) /\ Len(fifo') =< kCmdFifoDepth
          /\ probeQueued' \in BOOLEAN
      BY <2>4, FlushType DEF PairingRejected
    <3>2. Budget'
      BY <2>4 DEF PairingRejected, Flush, NoExchange, Budget
    <3>. QED BY <2>4, <3>1, <3>2 DEF PairingRejected, TypeOK, StackTypeOK, switch, joining,
              Chans, Channel, Ages, Horizon, Exchange, Frame
  <2>. QED BY <1>2, <2>1, <2>2, <2>3, <2>4 DEF handleControlResponse
<1>. QED BY <1>1, <1>2 DEF onReply

LEMMA JoinType ==
  ASSUME TypeOK, Budget, handleDiscovery \/ handleSetAddress
  PROVE  StackTypeOK' /\ Budget'
<1>1. CASE handleDiscovery
  <2>1. join' \in Joins /\ slot' \in 0 .. SlotHi
    BY <1>1, Constants DEF handleDiscovery, Joins
  <2>2. /\ chan' \in [Chans -> Channel] /\ out' \in Exchange
        /\ fifo' \in Seq({"command", "probe"}) /\ Len(fifo') =< kCmdFifoDepth
        /\ probeQueued' \in BOOLEAN /\ Budget'
    <3>1. CASE Flush
      BY <3>1, FlushType DEF Flush, NoExchange, Budget
    <3>2. CASE UNCHANGED <<chan, out, queue>>
      BY <3>2 DEF queue, Budget, TypeOK, StackTypeOK
    <3>. QED BY <1>1, <3>1, <3>2 DEF handleDiscovery
  <2>. QED BY <1>1, <2>1, <2>2 DEF handleDiscovery, TypeOK, StackTypeOK, switch, alarms,
            Chans, Channel, Ages, Horizon, Exchange, Frame
<1>2. CASE handleSetAddress
  BY <1>2 DEF handleSetAddress, TypeOK, StackTypeOK, Budget, switch, queue, alarms, Joins, Chans,
              Channel, Ages, Horizon, Exchange, Frame
<1>. QED BY <1>1, <1>2

LEMMA TickType ==
  ASSUME TypeOK, Budget, SlotArmed, tick
  PROVE  StackTypeOK' /\ Budget'
<1>1. CASE UNCHANGED stack
  BY <1>1 DEF TypeOK, StackTypeOK, Budget, stack, switch, joining, queue, alarms, Chans,
           Channel, Ages, Horizon, Exchange, Frame
<1>2. CASE TickCommsLoss \/ TickStarved
  <2>1. goSilent /\ pairing' \in BOOLEAN /\ commsLoss' \in BOOLEAN /\ starvation' \in BOOLEAN
    BY <1>2 DEF TickCommsLoss, TickStarved, TypeOK, StackTypeOK
  <2>. QED BY <2>1, SilentType DEF goSilent, Flush, NoExchange, Budget
<1>3. CASE TickServed
  <2>1. chan' \in [Chans -> Channel]
    BY <1>3, AgedType DEF TickServed
  <2>2. out' \in Exchange /\ probeQueued' \in BOOLEAN /\ Budget'
    <3>1. CASE TimedOut /\ Exhausted
      <4>1. out' = NoExchange /\ probeQueued' \in BOOLEAN
        BY <1>3, <3>1 DEF TickServed, resetOutstanding, TypeOK, StackTypeOK
      <4>. QED BY <4>1, Fresh DEF NoExchange, Budget
    <3>2. CASE ~(TimedOut /\ Exhausted)
      <4>1. out' \in Exchange /\ probeQueued' \in BOOLEAN
        BY <1>3, <3>2, AgedType DEF TickServed, TypeOK, StackTypeOK
      <4>2. out.attempts \in 0 .. kMsgResendAttempts
        BY DEF TypeOK, StackTypeOK, Exchange
      <4>3. CASE TimedOut
        <5>1. out.attempts < kMsgResendAttempts
          BY <3>2, <4>2, <4>3, Constants DEF Exhausted
        <5>2. out' = [AgedOut EXCEPT !.retryQueued = TRUE]
          BY <1>3, <3>2, <4>3 DEF TickServed
        <5>3. out'.attempts = out.attempts
          BY <5>2 DEF AgedOut, TypeOK, StackTypeOK, Exchange
        <5>. QED BY <4>1, <5>1, <5>3 DEF Budget
      <4>4. CASE ~TimedOut
        <5>1. out'.attempts = out.attempts /\ out'.retryQueued = out.retryQueued
          BY <1>3, <3>2, <4>4 DEF TickServed, AgedOut, TypeOK, StackTypeOK, Exchange
        <5>. QED BY <4>1, <5>1 DEF Budget
      <4>. QED BY <4>1, <4>3, <4>4
    <3>. QED BY <3>1, <3>2
  <2>3. join' \in Joins /\ slot' \in 0 .. SlotHi
    <3>1. slot \in 0 .. SlotHi /\ join \in Joins
      BY DEF TypeOK, StackTypeOK
    <3>. QED BY <1>3, <3>1, Constants DEF TickServed, joining, Joins, SlotArmed
  <2>. QED BY <1>3, <2>1, <2>2, <2>3 DEF TickServed, TypeOK, StackTypeOK, switch, Chans,
            Channel, Ages, Horizon, Exchange, Frame
<1>. QED BY <1>1, <1>2, <1>3 DEF tick

-----------------------------------------------------------------------------
(* The furnace's side *)

Held == [pct : 0 .. MaxPct, age : 0 .. WindowLen - 1, current : BOOLEAN]

LEMMA HeldOps ==
  ASSUME TypeOK
  PROVE  /\ Left \in [Chans -> Held]
         /\ Lapses \in [Chans -> Held]
         /\ [c \in Chans |-> [Lapses[c] EXCEPT !.current = FALSE]] \in [Chans -> Held]
<1>1. ASSUME NEW c \in Chans
      PROVE  [held[c] EXCEPT !.current = FALSE] \in Held
  BY DEF TypeOK, Held
<1>2. Left \in [Chans -> Held]
  BY <1>1 DEF Left, TypeOK, Held
<1>3. ASSUME NEW c \in Chans
      PROVE  Lapses[c] \in Held
  <2>1. held[c] \in Held /\ Nothing \in Held
    BY Fresh DEF TypeOK, Held
  <2>2. CASE held[c].pct = 0 \/ held[c].age + 1 >= WindowLen
    BY <2>1, <2>2 DEF Lapses
  <2>3. CASE ~(held[c].pct = 0 \/ held[c].age + 1 >= WindowLen)
    <3>1. Lapses[c] = [held[c] EXCEPT !.age = held[c].age + 1]
      BY <2>3 DEF Lapses
    <3>2. held[c].age + 1 \in 0 .. WindowLen - 1
      BY <2>1, <2>3, Constants DEF Held
    <3>. QED BY <2>1, <3>1, <3>2 DEF Held
  <2>. QED BY <2>2, <2>3
<1>4. Lapses \in [Chans -> Held]
  BY <1>3 DEF Lapses
<1>5. ASSUME NEW c \in Chans
      PROVE  [Lapses[c] EXCEPT !.current = FALSE] \in Held
  BY <1>3 DEF Held
<1>. QED BY <1>2, <1>4, <1>5

(* Whatever happens to a frame on the wire, the furnace holds demands and one *)
(* reply is on its way.                                                       *)
LEMMA WireType ==
  ASSUME TypeOK, NEW f \in Frames, OnWire(f)
  PROVE  /\ held' \in [Chans -> Held]
         /\ reply' \in Reply
         /\ loaded' \in [Chans -> BOOLEAN]
<1>0. f \in Frame /\ held \in [Chans -> Held]
  BY Constants DEF Frames, Frame, NoFrame, Plain, TypeOK, Held
<1>1. Accepts(f) => held' \in [Chans -> Held]
  BY <1>0, Fresh, Constants DEF Accepts, Frame, Held
<1>2. CodeOf(f) \in 0 .. kDemandChannelCount + 2 /\ OddCode \in 0 .. kDemandChannelCount + 2
  BY <1>0, Constants, SMTT(30) DEF CodeOf, CommandCode, OddCode, Frame, Chans
<1>3. Acknowledges(f) => reply' \in Reply
  BY <1>2, Constants DEF Acknowledges, Reply
<1>4. Refuses => held' \in [Chans -> Held] /\ reply' \in Reply
  BY <1>0, Constants DEF Refuses, Reply
<1>5. Serves(f) => held' \in [Chans -> Held] /\ reply' \in Reply
  BY <1>0, <1>1, <1>3, <1>4, Fresh, Constants DEF Serves, Reply
<1>6. Misses(f) => held' \in [Chans -> Held] /\ reply' \in Reply
  BY <1>0, <1>1, Fresh DEF Misses
<1>7. loaded' \in [Chans -> BOOLEAN]
  <2>0. loaded \in [Chans -> BOOLEAN]
    BY DEF TypeOK
  <2>1. CASE f.kind = "demand"
    <3>1. f.ch \in Chans /\ (f.pct > 0) \in BOOLEAN
      BY <1>0 DEF Frame
    <3>2. loaded' = [loaded EXCEPT ![f.ch] = f.pct > 0]
      BY <2>1 DEF OnWire
    <3>. QED BY <2>0, <3>1, <3>2
  <2>2. CASE f.kind # "demand"
    BY <2>0, <2>2 DEF OnWire, world
  <2>. QED BY <2>1, <2>2
<1>. QED BY <1>0, <1>5, <1>6, <1>7 DEF OnWire, world, TypeOK

-----------------------------------------------------------------------------
THEOREM TypeInit == Init => TypeOK /\ Budget /\ SlotArmed
<1> SUFFICES ASSUME Init PROVE TypeOK /\ Budget /\ SlotArmed
  OBVIOUS
<1>1. fifo \in Seq({"command", "probe"}) /\ Len(fifo) =< kCmdFifoDepth
  BY Constants DEF Init, StackInit
<1>2. StackTypeOK
  BY <1>1, Fresh, Constants DEF Init, StackInit, StackTypeOK, Joins
<1>. QED BY <1>2, Fresh DEF Init, StackInit, TypeOK, Budget, SlotArmed, NoExchange

(* Every step keeps the types, the retry budget and the slot's time.          *)
LEMMA TypeStep ==
  ASSUME TypeOK, Budget, SlotArmed, [Next]_vars
  PROVE  TypeOK' /\ Budget' /\ SlotArmed'
<1>0. TypeOK' <=> StackTypeOK' /\ held' \in [Chans -> Held] /\ reply' \in Reply
                  /\ loaded' \in [Chans -> BOOLEAN]
  BY DEF TypeOK, Held, Reply, Chans
<1>w. UNCHANGED world => held' \in [Chans -> Held] /\ reply' \in Reply
                         /\ loaded' \in [Chans -> BOOLEAN]
  BY DEF world, TypeOK, Held
<1>s. UNCHANGED joining => SlotArmed'
  BY DEF joining, SlotArmed
<1>g. goSilent => Budget' /\ SlotArmed'
  <2>1. goSilent => join' # "slot_wait" /\ out'.retryQueued = FALSE
    BY DEF goSilent, Flush, NoExchange
  <2>. QED BY <2>1 DEF Budget, SlotArmed
<1>1. CASE Resume
  <2>1. StackTypeOK'
    BY <1>1 DEF Resume, resume, TypeOK, StackTypeOK, joining, queue, alarms,
       Chans, Channel, Ages, Horizon, Exchange, Frame
  <2>. QED BY <1>0, <1>w, <1>s, <1>1, <2>1 DEF Resume, resume, Budget
<1>2. CASE Drop
  <2>1. StackTypeOK'
    BY <1>2, SilentType DEF Drop, alarms, TypeOK, StackTypeOK
  <2>. QED BY <1>0, <1>g, <1>2, <2>1, HeldOps DEF Drop, TypeOK
<1>3. CASE QueueProbe \/ Command
  <2>1. (setSystemSwitch \/ queueProbe) /\ UNCHANGED world /\ UNCHANGED out /\ UNCHANGED joining
    BY <1>3 DEF QueueProbe, Command, setSystemSwitch, queueProbe
  <2>. QED BY <1>0, <1>w, <1>s, <2>1, QueueType DEF Budget
<1>4. CASE Ack
  <2>1. StackTypeOK'
    BY <1>4 DEF Ack, clearAlarms, TypeOK, StackTypeOK, switch, joining, queue,
       Chans, Channel, Ages, Horizon, Exchange, Frame
  <2>. QED BY <1>0, <1>w, <1>s, <1>4, <2>1 DEF Ack, clearAlarms, Budget
<1>5. ASSUME NEW d \in [Chans -> 0 .. MaxPct], Apply(d)
      PROVE  TypeOK' /\ Budget' /\ SlotArmed'
  <2>1. setDemands(d) /\ UNCHANGED world /\ UNCHANGED out /\ UNCHANGED joining
    BY <1>5 DEF Apply, setDemands
  <2>. QED BY <1>0, <1>w, <1>s, <2>1, DemandsType DEF Budget
<1>6. ASSUME NEW f \in Frames, Poll(f)
      PROVE  TypeOK' /\ Budget' /\ SlotArmed'
  <2>1. Grant(f) /\ OnWire(f) /\ UNCHANGED joining
    BY <1>6 DEF Poll, Grant
  <2>. QED BY <1>0, <1>s, <2>1, GrantType, WireType
<1>7. CASE Answer
  <2>1. StackTypeOK' /\ Budget'
    BY <1>7, ReplyType DEF Answer
  <2>2. held' \in [Chans -> Held]
    BY <1>7, HeldOps DEF Answer, TypeOK, Held
  <2>3. UNCHANGED joining \/ goSilent
    BY <1>7 DEF Answer, onReply, probeAnswer, handleControlResponse, Delivered, Unrecognized,
                BadCrc, PairingRejected, stack
  <2>. QED BY <1>0, <1>s, <1>g, <1>7, <2>1, <2>2, <2>3, Fresh DEF Answer, TypeOK
<1>8. CASE Discovery
  <2>1. StackTypeOK' /\ Budget'
    BY <1>8, JoinType DEF Discovery
  <2>2. SlotArmed'
    BY <1>8, Constants DEF Discovery, handleDiscovery, SlotArmed
  <2>3. held' \in [Chans -> Held]
    BY <1>8, HeldOps DEF Discovery, TypeOK, Held
  <2>. QED BY <1>0, <1>8, <2>1, <2>2, <2>3 DEF Discovery, TypeOK
<1>9. CASE SetAddress
  <2>1. StackTypeOK' /\ Budget'
    BY <1>9, JoinType DEF SetAddress
  <2>2. SlotArmed'
    BY <1>9 DEF SetAddress, handleSetAddress, SlotArmed
  <2>. QED BY <1>0, <1>w, <1>9, <2>1, <2>2 DEF SetAddress
<1>10. CASE Tick
  <2>1. StackTypeOK' /\ Budget'
    BY <1>10, TickType DEF Tick
  <2>2. SlotArmed'
    <3>1. CASE TickServed
      <4>1. slot \in 0 .. SlotHi
        BY DEF TypeOK, StackTypeOK
      <4>. QED BY <3>1, <4>1, <1>s, Constants DEF TickServed, SlotArmed
    <3>. QED BY <1>10, <1>s, <1>g, <3>1 DEF Tick, tick, TickCommsLoss, TickStarved, stack
  <2>3. held' \in [Chans -> Held]
    BY <1>10, HeldOps DEF Tick
  <2>. QED BY <1>0, <1>10, <2>1, <2>2, <2>3 DEF Tick, TypeOK
<1>11. CASE UNCHANGED vars
  <2>1. StackTypeOK'
    BY <1>11 DEF vars, stack, TypeOK, StackTypeOK, switch, joining, queue, alarms,
        Chans, Channel, Ages, Horizon, Exchange, Frame
  <2>. QED BY <1>0, <1>w, <1>s, <1>11, <2>1 DEF vars, stack, world, Budget
<1>. QED
  BY <1>1, <1>2, <1>3, <1>4, <1>5, <1>6, <1>7, <1>8, <1>9, <1>10, <1>11 DEF Next, Event

(* The stack and the furnace keep their types for ever, and no exchange is    *)
(* transmitted more than kMsgResendAttempts times: on time-out and on NAK1    *)
(* alike, a retransmission is owed only while the budget lasts.               *)
THEOREM TypeCorrect == Spec => [](TypeOK /\ Budget /\ SlotArmed)
<1>1. TypeOK /\ Budget /\ SlotArmed /\ [Next]_vars => (TypeOK /\ Budget /\ SlotArmed)'
  BY TypeStep
<1>. QED BY <1>1, TypeInit, PTL DEF Spec

-----------------------------------------------------------------------------
(* Silence.  Whatever silences the stack flushes it, and a silent stack lets  *)
(* nothing in.                                                                *)
LEMMA SilenceFlushes ==
  ASSUME goSilent, join \in Joins
  PROVE  SilentIsEmpty' /\ UnjoinedQuiet'
BY DEF goSilent, Flush, clearDemands, SilentIsEmpty, UnjoinedQuiet, Awaiting, NoExchange,
       NoFrame, Plain, NewChannel, Joins, Chans

LEMMA SilenceStep ==
  ASSUME TypeOK, SilentIsEmpty, [Next]_vars
  PROVE  SilentIsEmpty'
<1>j. join \in Joins
  BY DEF TypeOK, StackTypeOK
<1>0. UNCHANGED stack => SilentIsEmpty'
  BY DEF stack, switch, joining, queue, SilentIsEmpty, Awaiting, Chans, NewChannel
<1>1. CASE goSilent
  BY <1>1, <1>j, SilenceFlushes
<1>2. CASE silent' = FALSE
  BY <1>2 DEF SilentIsEmpty
<1>3. CASE Resume
  BY <1>2, <1>3 DEF Resume, resume
<1>4. ASSUME silent = FALSE, silent' = silent
      PROVE  SilentIsEmpty'
  BY <1>2, <1>4
<1>5. CASE QueueProbe \/ Command \/ (\E d \in [Chans -> 0 .. MaxPct] : Apply(d))
             \/ (\E f \in Frames : Poll(f)) \/ Discovery \/ SetAddress
  <2>1. ~silent /\ silent' = silent
    BY <1>5 DEF QueueProbe, queueProbe, Command, setSystemSwitch, queueCommand, Apply, setDemands,
                Poll, Grant, Discovery, handleDiscovery, SetAddress, handleSetAddress, switch
  <2>. QED BY <1>4, <2>1 DEF TypeOK, StackTypeOK
<1>6. CASE Ack
  BY <1>6 DEF Ack, clearAlarms, switch, joining, queue, SilentIsEmpty, Awaiting, Chans, NewChannel
<1>7. CASE Answer
  <2>1. CASE silent = TRUE
    <3>1. out.frame.kind = "none"
      BY <2>1 DEF SilentIsEmpty, Awaiting
    <3>2. UNCHANGED stack
      BY <1>7, <3>1 DEF Answer, onReply, probeAnswer, handleControlResponse, Awaiting
    <3>. QED BY <1>0, <3>2
  <2>2. CASE silent = FALSE
    <3>1. silent' = silent \/ goSilent
      BY <1>7 DEF Answer, onReply, probeAnswer, handleControlResponse, Delivered, Unrecognized,
                  BadCrc, PairingRejected, stack, switch
    <3>. QED BY <1>1, <1>4, <2>2, <3>1
  <2>. QED BY <2>1, <2>2 DEF TypeOK, StackTypeOK
<1>8. CASE Tick
  <2>1. UNCHANGED stack \/ goSilent \/ (~silent /\ silent' = silent)
    BY <1>8 DEF Tick, tick, TickCommsLoss, TickStarved, TickServed, switch
  <2>. QED BY <1>0, <1>1, <1>4, <2>1 DEF TypeOK, StackTypeOK
<1>9. CASE Drop
  BY <1>1, <1>9 DEF Drop
<1>. QED
  BY <1>0, <1>3, <1>5, <1>6, <1>7, <1>8, <1>9 DEF Next, Event, vars

(* A silent stack keeps nothing it could say after the next resume(): no      *)
(* exchange, queued frame, demand, probe or join slot, however it became      *)
(* silent and whatever it was doing (goSilent(), docs/04 1).                  *)
THEOREM SilentHolds == Spec => []SilentIsEmpty
<1>1. Init => SilentIsEmpty
  BY DEF Init, StackInit, SilentIsEmpty, Awaiting, NoExchange, NoFrame, Plain, Chans
<1>2. TypeOK /\ SilentIsEmpty /\ [Next]_vars => SilentIsEmpty'
  BY SilenceStep
<1>3. Spec => []TypeOK
  BY TypeCorrect, PTL
<1>. QED BY <1>1, <1>2, <1>3, PTL DEF Spec

-----------------------------------------------------------------------------
(* The rejoin. *)
LEMMA RejoinStep ==
  ASSUME TypeOK, UnjoinedQuiet, [Next]_vars
  PROVE  UnjoinedQuiet'
<1>j. join \in Joins
  BY DEF TypeOK, StackTypeOK
<1>0. UNCHANGED <<join, chan, out>> => UnjoinedQuiet'
  BY DEF UnjoinedQuiet, Addressed, Awaiting, Chans
<1>1. CASE goSilent
  BY <1>1, <1>j, SilenceFlushes
<1>2. CASE join' = "addressed"
  BY <1>2 DEF UnjoinedQuiet, Addressed
<1>3. CASE Resume \/ QueueProbe \/ Command \/ Ack
  BY <1>0, <1>3 DEF Resume, resume, QueueProbe, queueProbe, Command, setSystemSwitch, Ack,
                    clearAlarms, joining
<1>4. ASSUME NEW d \in [Chans -> 0 .. MaxPct], Apply(d)
      PROVE  UnjoinedQuiet'
  <2>1. \A c \in Chans : ~chan[c].everSent => ~chan'[c].everSent
    BY <1>4 DEF Apply, setDemands, Demanded, Activated, Cancelled, NewChannel, TypeOK,
                StackTypeOK, Channel
  <2>. QED BY <1>4, <2>1 DEF Apply, setDemands, joining, UnjoinedQuiet, Addressed, Awaiting, Chans
<1>5. ASSUME NEW f \in Frames, Poll(f)
      PROVE  UnjoinedQuiet'
  BY <1>2, <1>5 DEF Poll, Grant, Addressed, joining
<1>6. CASE Answer
  <2>1. CASE join = "addressed"
    <3>1. UNCHANGED join \/ goSilent
      BY <1>6 DEF Answer, onReply, probeAnswer, handleControlResponse, Delivered, Unrecognized,
                  BadCrc, PairingRejected, stack, joining
    <3>. QED BY <1>1, <1>2, <2>1, <3>1
  <2>2. CASE join # "addressed"
    <3>1. UNCHANGED stack
      BY <1>6, <2>2 DEF Answer, onReply, probeAnswer, handleControlResponse, Addressed
    <3>. QED BY <1>0, <3>1 DEF stack, joining
  <2>. QED BY <2>1, <2>2
<1>7. CASE Discovery
  <2>1. CASE Addressed
    BY <1>7, <2>1 DEF Discovery, handleDiscovery, Flush, clearDemands, UnjoinedQuiet, Awaiting,
                      NoExchange, NoFrame, Plain, NewChannel, Chans
  <2>2. CASE ~Addressed
    BY <1>7, <2>2 DEF Discovery, handleDiscovery, UnjoinedQuiet, Awaiting, Chans
  <2>. QED BY <2>1, <2>2
<1>8. CASE SetAddress
  BY <1>2, <1>8 DEF SetAddress, handleSetAddress
<1>9. CASE Tick
  <2>1. CASE UNCHANGED stack
    BY <1>0, <2>1 DEF stack, joining
  <2>2. CASE TickServed
    <3>1. CASE Addressed
      BY <1>2, <2>2, <3>1 DEF TickServed, joining, Addressed
    <3>2. CASE ~Addressed
      <4>1. ~Awaiting /\ out' = out
        BY <2>2, <3>2 DEF UnjoinedQuiet, TickServed, TimedOut
      <4>2. \A c \in Chans : ~chan[c].everSent => ~chan'[c].everSent
        BY <2>2, ZenonT(40) DEF TickServed, Refreshed, AgedChan, TypeOK, StackTypeOK, Channel
      <4>. QED BY <3>2, <4>1, <4>2 DEF UnjoinedQuiet, Awaiting, Chans
    <3>. QED BY <3>1, <3>2
  <2>. QED BY <1>1, <1>9, <2>1, <2>2 DEF Tick, tick, TickCommsLoss, TickStarved
<1>10. CASE Drop
  BY <1>1, <1>10 DEF Drop
<1>11. CASE UNCHANGED vars
  BY <1>0, <1>11 DEF vars, stack, joining
<1>. QED
  BY <1>3, <1>4, <1>5, <1>6, <1>7, <1>8, <1>9, <1>10, <1>11 DEF Next, Event

(* A node without an address awaits no answer and holds no demand for sent:   *)
(* nothing of the session before a re-enumeration is retransmitted or judged  *)
(* by its refresh timer (handleDiscovery(), docs/02 6).                       *)
THEOREM RejoinClean == Spec => []UnjoinedQuiet
<1>1. Init => UnjoinedQuiet
  BY DEF Init, StackInit, UnjoinedQuiet, Awaiting, NoExchange, NoFrame, Plain, NewChannel, Chans
<1>2. TypeOK /\ UnjoinedQuiet /\ [Next]_vars => UnjoinedQuiet'
  BY RejoinStep
<1>3. Spec => []TypeOK
  BY TypeCorrect, PTL
<1>. QED BY <1>1, <1>2, <1>3, PTL DEF Spec

(* Neither a resume() nor a rejoin finds anything of the session before it.   *)
THEOREM QuietHolds == Spec => []Quiet
BY SilentHolds, RejoinClean, PTL DEF Quiet

-----------------------------------------------------------------------------
(* What is acknowledged is served.  AckMeansHeld is not inductive: while an   *)
(* exchange is open, what its answer will prove must already be so.           *)
Level == \A c \in Chans : chan[c].active = TRUE <=> chan[c].pct > 0

Settled(c) == chan[c].active = TRUE /\ chan[c].sendNeeded = FALSE

Proves(r) == r.kind \in {"ack", "echo"}

InStep(c) == held[c].pct = chan[c].pct /\ held[c].age = chan[c].age

(* A settled channel was sent; its open exchange carries its level; and the   *)
(* furnace is in step with it once no exchange is open, or as soon as the      *)
(* answer that will close it is under way.                                    *)
Served ==
  \A c \in Chans : Settled(c) =>
    /\ chan[c].everSent = TRUE
    /\ Carries(c) => out.frame.pct = chan[c].pct
    /\ ~Carries(c) \/ Proves(reply) => InStep(c)

LEMMA FlushServes ==
  ASSUME clearDemands
  PROVE  Level' /\ Served'
<1>1. \A c \in Chans : chan'[c].active = FALSE /\ chan'[c].pct = 0
  BY DEF clearDemands, NewChannel
<1>2. \A c \in Chans : ~Settled(c)'
  BY <1>1 DEF Settled, Chans
<1>. QED BY <1>1, <1>2 DEF Level, Served, Chans

LEMMA DemandsServe ==
  ASSUME TypeOK, Level, Served, NEW d \in [Chans -> 0 .. MaxPct], Apply(d)
  PROVE  Level' /\ Served'
<1>1. ASSUME NEW c \in Chans
      PROVE  /\ chan'[c].active = TRUE <=> chan'[c].pct > 0
             /\ Settled(c)' => /\ Settled(c) /\ chan'[c].pct = chan[c].pct
                               /\ chan'[c].age = chan[c].age
                               /\ chan'[c].everSent = chan[c].everSent
  <2>0. chan[c] \in Channel /\ d[c] \in 0 .. MaxPct /\ chan'[c] = Demanded(chan[c], d[c])
    BY DEF Apply, setDemands, TypeOK, StackTypeOK
  <2>1. CASE d[c] > 0
    <3>1. /\ chan'[c].active = TRUE /\ chan'[c].pct = d[c]
          /\ chan'[c].sendNeeded = (chan[c].sendNeeded \/ chan[c].pct # d[c])
          /\ chan'[c].everSent = (chan[c].active /\ chan[c].everSent)
          /\ chan'[c].age = IF chan[c].active THEN chan[c].age ELSE 0
      BY <2>0, <2>1 DEF Demanded, Activated
    <3>. QED BY <2>0, <2>1, <3>1 DEF Level, Settled, Channel
  <2>2. CASE d[c] = 0
    <3>1. chan'[c].active = FALSE /\ chan'[c].pct = 0
      BY <2>0, <2>2 DEF Demanded, Cancelled, NewChannel
    <3>. QED BY <3>1 DEF Settled
  <2>3. d[c] > 0 \/ d[c] = 0
    BY <2>0, Constants
  <2>. QED BY <2>1, <2>2, <2>3
<1>2. UNCHANGED out /\ UNCHANGED <<held, reply>>
  BY DEF Apply, setDemands, world
<1>. QED BY <1>1, <1>2 DEF Level, Served, InStep, Carries, Chans

(* Whatever the furnace makes of a demand's frame: if the answer under way    *)
(* will acknowledge it, the furnace has just taken it.                        *)
LEMMA WireServes ==
  ASSUME TypeOK, NEW f \in Frames, OnWire(f), f.kind = "demand"
  PROVE  /\ f.ch \in Chans /\ f.pct \in 0 .. MaxPct
         /\ Proves(reply') => held'[f.ch].pct = f.pct /\ held'[f.ch].age = 0
         /\ \A c \in Chans \ {f.ch} : held'[c] = held[c]
<1>1. f.ch \in Chans /\ f.pct \in 0 .. MaxPct
  BY Constants DEF Frames, NoFrame, Plain
<1>2. held \in [Chans -> Held]
  BY DEF TypeOK, Held
<1>3. Accepts(f) => /\ held'[f.ch].pct = f.pct /\ held'[f.ch].age = 0
                    /\ \A c \in Chans \ {f.ch} : held'[c] = held[c]
  BY <1>1, <1>2 DEF Accepts, Nothing
<1>4. Refuses => ~Proves(reply') /\ held' = held
  BY DEF Refuses, Proves
<1>5. Misses(f) => ~Proves(reply') /\ (held' = held \/ Accepts(f))
  BY DEF Misses, Proves, NoReply
<1>. QED BY <1>1, <1>3, <1>4, <1>5 DEF OnWire, Serves

LEMMA GrantServes ==
  ASSUME TypeOK, Level, Served, NEW f \in Frames, Poll(f)
  PROVE  Level' /\ Served'
<1>0. chan \in [Chans -> Channel] /\ Grant(f) /\ OnWire(f)
  BY DEF TypeOK, StackTypeOK, Poll
<1>1. CASE RetransmitOwed(f) /\ f.kind = "demand"
  <2>1. /\ f = out.frame /\ out'.frame = out.frame
        /\ f.ch \in Chans /\ Carries(f.ch)
        /\ \A c \in Chans : Carries(c) => c = f.ch
    BY <1>0, <1>1, WireServes DEF RetransmitOwed, Carries, TypeOK, StackTypeOK, Exchange
  <2>2. \A c \in Chans \ {f.ch} : chan'[c] = chan[c] /\ held'[c] = held[c] /\ ~Carries(c)
    BY <1>0, <1>1, <2>1, WireServes DEF RetransmitOwed
  <2>3. chan'[f.ch] = SentNow(chan[f.ch])
    BY <1>1, <2>1 DEF RetransmitOwed
  <2>4. /\ chan'[f.ch].active = chan[f.ch].active /\ chan'[f.ch].pct = chan[f.ch].pct
        /\ chan'[f.ch].sendNeeded = chan[f.ch].sendNeeded
        /\ chan'[f.ch].everSent = chan[f.ch].active /\ chan'[f.ch].age = 0
    BY <1>0, <2>1, <2>3 DEF SentNow, Channel
  <2>5. Settled(f.ch)' => Settled(f.ch) /\ out.frame.pct = chan[f.ch].pct
    BY <2>1, <2>4 DEF Settled, Served
  <2>6. Settled(f.ch)' => /\ chan'[f.ch].everSent = TRUE
                          /\ out'.frame.pct = chan'[f.ch].pct
                          /\ Carries(f.ch)'
                          /\ Proves(reply') => InStep(f.ch)'
    BY <1>0, <1>1, <2>1, <2>4, <2>5, WireServes DEF Settled, Carries, InStep
  <2>7. \A c \in Chans \ {f.ch} : Settled(c)' =>
          Settled(c) /\ ~Carries(c)' /\ InStep(c)' /\ chan'[c].everSent = TRUE
    BY <2>1, <2>2 DEF Settled, Served, InStep, Carries
  <2>8. Level'
    BY <2>2, <2>4 DEF Level, Chans
  <2>. QED BY <2>6, <2>7, <2>8 DEF Served, Proves, Chans
<1>2. CASE SendDemand(f)
  <2>1. f.kind = "demand" /\ f.ch \in Chans /\ out'.frame = f /\ ~Awaiting
    BY <1>0, <1>2, WireServes DEF SendDemand, Begin
  <2>2. \A c \in Chans : ~Carries(c)
    BY <2>1 DEF Awaiting, Carries
  <2>3. \A c \in Chans \ {f.ch} : chan'[c] = chan[c] /\ held'[c] = held[c]
    BY <1>0, <1>2, <2>1, WireServes DEF SendDemand
  <2>4. /\ chan'[f.ch].active = chan[f.ch].active /\ chan'[f.ch].pct = chan[f.ch].pct
        /\ chan'[f.ch].everSent = chan[f.ch].active /\ chan'[f.ch].age = 0
        /\ f.pct = chan[f.ch].pct
    BY <1>0, <1>2, <2>1 DEF SendDemand, SentNow, Channel
  <2>5. Settled(f.ch)' => /\ chan'[f.ch].everSent = TRUE
                          /\ out'.frame.pct = chan'[f.ch].pct
                          /\ Carries(f.ch)'
                          /\ Proves(reply') => InStep(f.ch)'
    BY <1>0, <2>1, <2>4, WireServes DEF Settled, Carries, InStep
  <2>6. \A c \in Chans \ {f.ch} : Settled(c)' =>
          Settled(c) /\ ~Carries(c)' /\ InStep(c)' /\ chan'[c].everSent = TRUE
    BY <2>1, <2>2, <2>3 DEF Settled, Served, InStep, Carries
  <2>7. Level'
    BY <2>3, <2>4 DEF Level, Chans
  <2>. QED BY <2>5, <2>6, <2>7 DEF Served, Proves, Chans
<1>3. CASE ~(RetransmitOwed(f) /\ f.kind = "demand") /\ ~SendDemand(f)
  <2>1. /\ chan' = chan
        /\ held' = held
        /\ \/ out' = out /\ f = NoFrame
           \/ \A c \in Chans : ~Carries(c) /\ ~Carries(c)'
    <3>1. CASE AnswerPoll(f)
      BY <1>0, <3>1 DEF AnswerPoll, OnWire, NoFrame, Plain, world
    <3>2. CASE SendQueued(f)
      <4>1. f.kind # "demand" /\ f.kind # "none"
        <5>1. Head(fifo) \in {"command", "probe"}
          BY <3>2 DEF SendQueued, TypeOK, StackTypeOK
        <5>. QED BY <3>2, <5>1 DEF SendQueued, Plain
      <4>2. chan' = chan /\ \A c \in Chans : ~Carries(c) /\ ~Carries(c)'
        BY <3>2, <4>1 DEF SendQueued, Begin, Carries, Awaiting
      <4>3. held' = held
        BY <1>0, <4>1 DEF OnWire, Serves, Misses, Accepts, Refuses
      <4>. QED BY <4>2, <4>3
    <3>3. CASE RetransmitOwed(f)
      <4>1. f.kind # "demand" /\ f.kind # "none" /\ out'.frame = out.frame /\ f = out.frame
        BY <1>3, <3>3 DEF RetransmitOwed, Awaiting, TypeOK, StackTypeOK, Exchange
      <4>2. \A c \in Chans : ~Carries(c) /\ ~Carries(c)'
        BY <4>1 DEF Carries
      <4>3. chan' = chan
        BY <1>0, <3>3, <4>2 DEF RetransmitOwed
      <4>4. held' = held
        BY <1>0, <4>1 DEF OnWire, Serves, Misses, Accepts, Refuses
      <4>. QED BY <4>2, <4>3, <4>4
    <3>. QED BY <1>0, <1>3, <3>1, <3>2, <3>3 DEF Grant
  <2>2. f = NoFrame => reply' = reply
    BY <1>0 DEF OnWire, NoFrame, Plain, world
  <2>. QED BY <2>1, <2>2 DEF Level, Served, Settled, InStep, Carries, Chans, Proves
<1>. QED BY <1>1, <1>2, <1>3

(* A flush of the stack takes nothing from the furnace. *)
LEMMA LeftKeeps ==
  ASSUME TypeOK, NEW c \in Chans
  PROVE  Left[c].pct = held[c].pct /\ Left[c].age = held[c].age
BY DEF Left, TypeOK

(* The answer closes the exchange it proves; anything else leaves the open    *)
(* exchange as it is, or clears every demand.                                 *)
LEMMA AnswerServes ==
  ASSUME TypeOK, Level, Served, Answer
  PROVE  Level' /\ Served'
<1>1. CASE clearDemands
  BY <1>1, FlushServes
<1>2. CASE ~clearDemands
  <2>0. ~goSilent /\ ~PairingRejected
    BY <1>2 DEF goSilent, PairingRejected, Flush
  <2>1. chan' = chan /\ reply' = NoReply
    BY <2>0 DEF Answer, onReply, probeAnswer, handleControlResponse, Delivered, Unrecognized,
                BadCrc, stack
  <2>2. \A c \in Chans : held'[c].pct = held[c].pct /\ held'[c].age = held[c].age
    BY LeftKeeps DEF Answer
  <2>3. out'.frame = out.frame \/ out' = NoExchange
    <3>1. out \in Exchange
      BY DEF TypeOK, StackTypeOK
    <3>. QED BY <2>0, <3>1 DEF Answer, onReply, probeAnswer, handleControlResponse, Delivered,
                Unrecognized, BadCrc, resetOutstanding, stack, Exchange
  <2>4. \A c \in Chans : Carries(c)' => Carries(c) /\ out'.frame = out.frame
    BY <2>3 DEF Carries, NoExchange, NoFrame, Plain
  <2>5. ASSUME NEW c \in Chans, Carries(c), ~Carries(c)'
        PROVE  Proves(reply)
    <3>1. out'.frame # out.frame /\ out.frame.kind = "demand"
      BY <2>5 DEF Carries
    <3>2. out \in Exchange
      BY DEF TypeOK, StackTypeOK
    <3>3. ~BadCrc
      BY <2>0, <3>1, <3>2 DEF BadCrc, Exchange
    <3>. QED BY <2>0, <3>1, <3>3 DEF Answer, onReply, probeAnswer, handleControlResponse,
                Delivers, Proves, stack
  <2>. QED BY <2>1, <2>2, <2>4, <2>5 DEF Level, Served, Settled, InStep, Proves, NoReply, Chans
<1>. QED BY <1>1, <1>2

(* Time: a settled channel and the furnace age together, and the stack goes   *)
(* silent in the tick in which the furnace lapses.                            *)
LEMMA TickServes ==
  ASSUME TypeOK, SilentIsEmpty, Level, Served, Tick
  PROVE  Level' /\ Served'
<1>1. CASE clearDemands
  BY <1>1, FlushServes
<1>2. CASE UNCHANGED stack /\ silent = TRUE
  <2>1. \A c \in Chans : chan'[c].active = FALSE /\ chan'[c].pct = 0
    BY <1>2 DEF SilentIsEmpty, NewChannel, stack
  <2>. QED BY <2>1 DEF Level, Served, Settled, Chans
<1>3. CASE TickServed /\ silent = FALSE
  <2>0. /\ chan \in [Chans -> Channel]
        /\ held \in [Chans -> [pct : 0 .. MaxPct, age : 0 .. WindowLen - 1, current : BOOLEAN]]
        /\ out \in Exchange
    BY DEF TypeOK, StackTypeOK
  <2>1. held' = Lapses /\ reply' = reply
    BY <1>3 DEF Tick, TickServed, switch
  <2>2. \A c \in Chans : Carries(c)' => Carries(c) /\ out'.frame = out.frame
    <3>1. out'.frame = out.frame \/ out' = NoExchange
      BY <1>3, <2>0 DEF TickServed, resetOutstanding, AgedOut, Exchange
    <3>. QED BY <3>1 DEF Carries, NoExchange, NoFrame, Plain
  <2>3. \A c \in Chans : Carries(c) => Carries(c)'
    <3>1. ASSUME NEW c \in Chans, Carries(c)
          PROVE  out'.frame = out.frame
      <4>1. ~(TimedOut /\ Exhausted)
        BY <1>3, <3>1 DEF TickServed, DropsLink, Carries
      <4>. QED BY <1>3, <4>1, <2>0 DEF TickServed, AgedOut, Exchange
    <3>. QED BY <3>1 DEF Carries
  <2>4. ASSUME NEW c \in Chans
        PROVE  /\ chan'[c].active = chan[c].active /\ chan'[c].pct = chan[c].pct
               /\ chan'[c].everSent = chan[c].everSent
               /\ Settled(c)' => /\ Settled(c)
                                 /\ chan'[c].age = chan[c].age + 1
                                 /\ chan[c].age + 1 < WindowLen
    <3>1. chan'[c] = Refreshed(c) /\ chan[c] \in Channel
      BY <1>3, <2>0 DEF TickServed
    <3>2. /\ chan'[c].active = chan[c].active /\ chan'[c].pct = chan[c].pct
          /\ chan'[c].everSent = chan[c].everSent
          /\ chan'[c].age = IF chan[c].active THEN Older(chan[c].age, Horizon) ELSE 0
          /\ chan'[c].sendNeeded = (chan[c].sendNeeded \/ (chan[c].active /\ chan'[c].age >= Due))
      BY <3>1 DEF Refreshed, AgedChan, Channel
    <3>3. Settled(c)' => Settled(c)
      BY <3>1, <3>2 DEF Settled, Channel
    <3>4. Settled(c)' => Older(chan[c].age, Horizon) < Due
      <4>1. Older(chan[c].age, Horizon) \in Nat
        BY <3>1, Constants DEF Older, Channel, Ages
      <4>. QED BY <3>1, <3>2, <4>1, Constants DEF Settled, Channel
    <3>5. Settled(c)' => chan'[c].age = chan[c].age + 1 /\ chan[c].age + 1 < WindowLen
      <4>1. chan[c].age \in Nat /\ chan[c].age =< Horizon /\ Due < Horizon /\ Due < WindowLen
        BY <3>1, Constants, StackAssumption DEF Channel, Ages, Horizon
      <4>. QED BY <3>2, <3>3, <3>4, <4>1, Constants DEF Settled, Older
    <3>. QED BY <3>2, <3>3, <3>5
  <2>5. ASSUME NEW c \in Chans, Settled(c)', InStep(c)
        PROVE  InStep(c)'
    <3>1. held'[c] = Lapses[c] /\ held[c].pct > 0 /\ held[c].age + 1 < WindowLen
      BY <2>0, <2>1, <2>4, <2>5, Constants DEF Level, Settled, InStep, Chans
    <3>2. held'[c] = [held[c] EXCEPT !.age = @ + 1]
      BY <2>0, <3>1, Constants DEF Lapses
    <3>3. held'[c].pct = held[c].pct /\ held'[c].age = held[c].age + 1
      BY <2>0, <3>2
    <3>. QED BY <2>4, <2>5, <3>3 DEF InStep
  <2>6. Level'
    BY <2>4 DEF Level, Chans
  <2>. QED BY <2>1, <2>2, <2>3, <2>4, <2>5, <2>6 DEF Served, Proves, Chans
<1>4. silent \in BOOLEAN
  BY DEF TypeOK, StackTypeOK
<1>. QED BY <1>1, <1>2, <1>3, <1>4 DEF Tick, tick, TickCommsLoss, TickStarved, goSilent, Flush

LEMMA ServedStep ==
  ASSUME TypeOK, SilentIsEmpty, Level, Served, [Next]_vars
  PROVE  Level' /\ Served'
<1>0. SUFFICES ASSUME \/ UNCHANGED <<chan, out, held, reply>>
                      \/ clearDemands
                      \/ \E d \in [Chans -> 0 .. MaxPct] : Apply(d)
                      \/ \E f \in Frames : Poll(f)
                      \/ Answer
                      \/ Discovery /\ ~clearDemands
                      \/ Tick
               PROVE  Level' /\ Served'
  <2>1. Resume \/ QueueProbe \/ Command \/ Ack \/ SetAddress \/ UNCHANGED vars
          => UNCHANGED <<chan, out, held, reply>>
    BY DEF Resume, resume, QueueProbe, queueProbe, Command, setSystemSwitch, Ack, clearAlarms,
           SetAddress, handleSetAddress, vars, stack, world
  <2>2. Drop => clearDemands
    BY DEF Drop, goSilent, Flush
  <2>. QED BY <1>0, <2>1, <2>2 DEF Next, Event
<1>1. CASE UNCHANGED <<chan, out, held, reply>>
  BY <1>1 DEF Level, Served, Settled, InStep, Carries, Proves, Chans
<1>2. CASE clearDemands
  BY <1>2, FlushServes
<1>3. CASE \E d \in [Chans -> 0 .. MaxPct] : Apply(d)
  BY <1>3, DemandsServe
<1>4. CASE \E f \in Frames : Poll(f)
  BY <1>4, GrantServes
<1>5. CASE Answer
  BY <1>5, AnswerServes
<1>6. CASE Discovery /\ ~clearDemands
  <2>1. UNCHANGED <<chan, out, held, reply>>
    BY <1>6 DEF Discovery, handleDiscovery, Flush
  <2>. QED BY <1>1, <2>1
<1>7. CASE Tick
  BY <1>7, TickServes
<1>. QED BY <1>0, <1>1, <1>2, <1>3, <1>4, <1>5, <1>6, <1>7

(* An active channel of which nothing more is owed is served by the furnace    *)
(* at its level: handleControlResponse() and tick() close an exchange only    *)
(* over an accepted frame or give the demand up.                              *)
THEOREM AckHolds == Spec => []AckMeansHeld
<1>1. Init => Level /\ Served
  <2>1. Init => \A c \in Chans : chan[c].active = FALSE /\ chan[c].pct = 0
    BY DEF Init, StackInit, NewChannel
  <2>. QED BY <2>1 DEF Level, Served, Settled
<1>2. TypeOK /\ SilentIsEmpty /\ Level /\ Served /\ [Next]_vars => Level' /\ Served'
  BY ServedStep
<1>3. TypeOK /\ Level /\ Served => AckMeansHeld
  <2>1. SUFFICES ASSUME TypeOK, Served, NEW c \in Chans, chan[c].active,
                        ~chan[c].sendNeeded, ~Carries(c)
                 PROVE  held[c].pct = chan[c].pct
    BY DEF AckMeansHeld
  <2>2. chan[c] \in Channel
    BY <2>1 DEF TypeOK, StackTypeOK
  <2>3. Settled(c)
    BY <2>1, <2>2 DEF Settled, Channel
  <2>. QED BY <2>1, <2>3 DEF Served, InStep
<1>4. Spec => []TypeOK
  BY TypeCorrect, PTL
<1>. QED BY <1>1, <1>2, <1>3, <1>4, SilentHolds, PTL DEF Spec

-----------------------------------------------------------------------------
(* One probe at a time: it waits in the queue or awaits its answer, never     *)
(* both, never twice.  ProbeSlot alone does not survive the frame's leaving.  *)
HasProbe(q) == \E i \in DOMAIN q : q[i] = "probe"

OneProbe ==
  /\ (probeQueued = TRUE) <=> (out.frame.kind = "probe" \/ HasProbe(fifo))
  /\ out.frame.kind = "probe" => ~HasProbe(fifo)
  /\ \A i, k \in DOMAIN fifo : (fifo[i] = "probe" /\ fifo[k] = "probe") => i = k

LEMMA FlushProbes == Flush => OneProbe'
<1>. SUFFICES ASSUME Flush PROVE OneProbe'
  OBVIOUS
<1>1. fifo' = <<>> /\ probeQueued' = FALSE /\ out'.frame.kind = "none" /\ DOMAIN <<>> = {}
  BY DEF Flush, NoExchange, NoFrame, Plain
<1>. QED BY <1>1 DEF OneProbe, HasProbe

(* Ending an exchange frees the slot exactly when the exchange was the probe. *)
LEMMA ResetProbes ==
  ASSUME TypeOK, OneProbe, resetOutstanding, UNCHANGED fifo
  PROVE  OneProbe'
<1>1. out'.frame.kind = "none" /\ fifo' = fifo
      /\ probeQueued' = (probeQueued /\ out.frame.kind # "probe")
      /\ probeQueued \in BOOLEAN
  BY DEF resetOutstanding, NoExchange, NoFrame, Plain, TypeOK, StackTypeOK
<1>2. (probeQueued' = TRUE) <=> HasProbe(fifo)
  BY <1>1 DEF OneProbe
<1>. QED BY <1>1, <1>2 DEF OneProbe, HasProbe

LEMMA QueueProbes ==
  ASSUME TypeOK, OneProbe, NEW kind \in {"command", "probe"}, queueCommand(kind),
         UNCHANGED out,
         IF kind = "probe" THEN probeQueued = FALSE /\ probeQueued' = TRUE
                           ELSE probeQueued' = probeQueued
  PROVE  OneProbe'
<1>1. /\ fifo \in Seq({"command", "probe"}) /\ fifo' = Append(fifo, kind)
      /\ Len(fifo) \in Nat
  BY DEF queueCommand, TypeOK, StackTypeOK
<1>2. /\ DOMAIN fifo = 1 .. Len(fifo) /\ DOMAIN fifo' = 1 .. Len(fifo) + 1
      /\ fifo'[Len(fifo) + 1] = kind
      /\ \A i \in 1 .. Len(fifo) : fifo'[i] = fifo[i]
  BY <1>1
<1>3. CASE kind = "probe"
  <2>1. ~HasProbe(fifo) /\ out.frame.kind # "probe" /\ out'.frame.kind # "probe"
    BY <1>3 DEF OneProbe
  <2>2. Len(fifo) + 1 \in DOMAIN fifo'
    BY <1>1, <1>2
  <2>3. HasProbe(fifo')
    BY <1>2, <1>3, <2>2 DEF HasProbe
  <2>4. \A i \in DOMAIN fifo' : fifo'[i] = "probe" => i = Len(fifo) + 1
    BY <1>1, <1>2, <2>1 DEF HasProbe
  <2>. QED BY <1>3, <2>1, <2>3, <2>4 DEF OneProbe
<1>4. CASE kind = "command"
  <2>1. \A i \in DOMAIN fifo' : fifo'[i] = "probe" => i \in DOMAIN fifo /\ fifo[i] = "probe"
    BY <1>1, <1>2, <1>4
  <2>2. \A i \in DOMAIN fifo : i \in DOMAIN fifo' /\ fifo'[i] = fifo[i]
    BY <1>1, <1>2
  <2>3. HasProbe(fifo') <=> HasProbe(fifo)
    BY <2>1, <2>2 DEF HasProbe
  <2>. QED BY <1>4, <2>1, <2>3 DEF OneProbe
<1>. QED BY <1>3, <1>4

LEMMA SendProbes ==
  ASSUME TypeOK, OneProbe, NEW f \in Frames, SendQueued(f)
  PROVE  OneProbe'
<1>1. /\ fifo \in Seq({"command", "probe"}) /\ fifo # <<>> /\ fifo' = Tail(fifo)
      /\ Len(fifo) \in Nat /\ Len(fifo) >= 1
      /\ out.frame.kind = "none" /\ out'.frame.kind = Head(fifo)
      /\ probeQueued' = probeQueued
  BY DEF SendQueued, TypeOK, StackTypeOK, Awaiting, Begin, Plain
<1>2. /\ DOMAIN fifo = 1 .. Len(fifo) /\ DOMAIN fifo' = 1 .. Len(fifo) - 1
      /\ Head(fifo) = fifo[1] /\ 1 \in DOMAIN fifo
      /\ \A i \in 1 .. Len(fifo) - 1 : fifo'[i] = fifo[i + 1] /\ i + 1 \in DOMAIN fifo
  BY <1>1
<1>3. HasProbe(fifo) <=> fifo[1] = "probe" \/ HasProbe(fifo')
  <2>1. HasProbe(fifo') => HasProbe(fifo)
    BY <1>2 DEF HasProbe
  <2>2. ASSUME HasProbe(fifo), fifo[1] # "probe" PROVE HasProbe(fifo')
    <3>1. PICK i \in DOMAIN fifo : fifo[i] = "probe"
      BY <2>2 DEF HasProbe
    <3>2. i - 1 \in 1 .. Len(fifo) - 1 /\ (i - 1) + 1 = i
      BY <1>1, <1>2, <2>2, <3>1
    <3>. QED BY <1>2, <3>1, <3>2 DEF HasProbe
  <2>. QED BY <1>2, <2>1, <2>2 DEF HasProbe
<1>4. fifo[1] = "probe" => ~HasProbe(fifo')
  <2>1. ASSUME fifo[1] = "probe", NEW i \in DOMAIN fifo', fifo'[i] = "probe"
        PROVE  FALSE
    <3>1. i + 1 \in DOMAIN fifo /\ fifo[i + 1] = "probe" /\ i + 1 # 1
      BY <1>1, <1>2, <2>1
    <3>. QED BY <1>2, <2>1, <3>1 DEF OneProbe
  <2>. QED BY <2>1 DEF HasProbe
<1>5. \A i, k \in DOMAIN fifo' : (fifo'[i] = "probe" /\ fifo'[k] = "probe") => i = k
  <2>1. ASSUME NEW i \in DOMAIN fifo', NEW k \in DOMAIN fifo',
               fifo'[i] = "probe", fifo'[k] = "probe"
        PROVE  i = k
    <3>1. /\ i + 1 \in DOMAIN fifo /\ fifo[i + 1] = "probe"
          /\ k + 1 \in DOMAIN fifo /\ fifo[k + 1] = "probe"
          /\ i \in Nat /\ k \in Nat
      BY <1>1, <1>2, <2>1
    <3>2. i + 1 = k + 1
      BY <3>1 DEF OneProbe
    <3>. QED BY <3>1, <3>2
  <2>. QED BY <2>1
<1>. QED BY <1>1, <1>2, <1>3, <1>4, <1>5 DEF OneProbe

LEMMA ProbeStep ==
  ASSUME TypeOK, OneProbe, [Next]_vars
  PROVE  OneProbe'
<1>0. /\ UNCHANGED <<out, queue>> => OneProbe'
      /\ out'.frame = out.frame /\ UNCHANGED queue => OneProbe'
      /\ goSilent => OneProbe'
      /\ out \in Exchange
  BY FlushProbes DEF queue, OneProbe, HasProbe, goSilent, TypeOK, StackTypeOK
<1>1. CASE Resume \/ Ack \/ SetAddress \/ UNCHANGED vars
  BY <1>0, <1>1 DEF Resume, resume, Ack, clearAlarms, SetAddress, handleSetAddress, vars, stack
<1>2. CASE Drop
  BY <1>0, <1>2 DEF Drop
<1>3. CASE QueueProbe
  <2>1. probeQueued = FALSE
    BY <1>3 DEF QueueProbe, queueProbe, TypeOK, StackTypeOK
  <2>. QED BY <1>3, <2>1, QueueProbes DEF QueueProbe, queueProbe
<1>4. CASE Command
  BY <1>4, QueueProbes DEF Command, setSystemSwitch
<1>5. CASE \E d \in [Chans -> 0 .. MaxPct] : Apply(d)
  BY <1>0, <1>5 DEF Apply, setDemands
<1>6. ASSUME NEW f \in Frames, Poll(f) PROVE OneProbe'
  <2>1. CASE RetransmitOwed(f)
    <3>1. out'.frame = out.frame
      BY <1>0, <2>1 DEF RetransmitOwed, Exchange
    <3>. QED BY <1>0, <2>1, <3>1 DEF RetransmitOwed
  <2>2. CASE SendDemand(f)
    BY <1>0, <2>2 DEF SendDemand, Begin, Awaiting, queue, OneProbe, HasProbe
  <2>3. CASE SendQueued(f)
    BY <2>3, SendProbes
  <2>4. CASE AnswerPoll(f)
    BY <1>0, <2>4 DEF AnswerPoll
  <2>. QED BY <1>6, <2>1, <2>2, <2>3, <2>4 DEF Poll, Grant
<1>7. CASE Answer
  <2>1. CASE UNCHANGED stack
    BY <1>0, <2>1 DEF stack
  <2>2. CASE resetOutstanding /\ UNCHANGED fifo
    BY <2>2, ResetProbes
  <2>3. CASE Flush
    BY <2>3, FlushProbes
  <2>4. CASE out' = [out EXCEPT !.retryQueued = TRUE] /\ UNCHANGED queue
    BY <1>0, <2>4 DEF Exchange
  <2>. QED BY <1>7, <2>1, <2>2, <2>3, <2>4
       DEF Answer, onReply, probeAnswer, handleControlResponse, Delivered, Unrecognized,
           BadCrc, PairingRejected, goSilent
<1>8. CASE Discovery
  BY <1>0, <1>8, FlushProbes DEF Discovery, handleDiscovery
<1>9. CASE Tick
  <2>1. CASE TickServed
    <3>1. CASE TimedOut /\ Exhausted
      BY <2>1, <3>1, ResetProbes DEF TickServed
    <3>2. CASE ~(TimedOut /\ Exhausted)
      <4>1. out'.frame = out.frame /\ UNCHANGED queue
        BY <1>0, <2>1, <3>2 DEF TickServed, AgedOut, Exchange, queue
      <4>. QED BY <1>0, <4>1
    <3>. QED BY <3>1, <3>2
  <2>2. CASE ~TickServed
    BY <1>0, <1>9, <2>2 DEF Tick, tick, TickCommsLoss, TickStarved, stack
  <2>. QED BY <2>1, <2>2
<1>. QED BY <1>1, <1>2, <1>3, <1>4, <1>5, <1>6, <1>7, <1>8, <1>9 DEF Next, Event

(* The probe slot is taken exactly while a probe is queued or awaits its      *)
(* answer: no answer, timeout, flush, drop or rejoin leaks the slot, so menu  *)
(* polls never stop for good, and no two are out at once.                     *)
THEOREM ProbeSlotHolds == Spec => []ProbeSlot
<1>1. Init => OneProbe
  <2>1. DOMAIN <<>> = {}
    OBVIOUS
  <2>. QED BY <2>1 DEF Init, StackInit, OneProbe, HasProbe, NoExchange, NoFrame, Plain
<1>2. TypeOK /\ OneProbe /\ [Next]_vars => OneProbe'
  BY ProbeStep
<1>3. TypeOK /\ OneProbe => ProbeSlot
  BY DEF OneProbe, ProbeSlot, HasProbe, TypeOK, StackTypeOK
<1>4. Spec => []TypeOK
  BY TypeCorrect, PTL
<1>. QED BY <1>1, <1>2, <1>3, <1>4, PTL DEF Spec

-----------------------------------------------------------------------------
(* A bus that loses nothing and refuses nothing.  Every demand is answered    *)
(* before the tick, so it is never retransmitted.                             *)
Prompt == Lossy = FALSE /\ Replies \subseteq {"ack", "echo"}

Answered ==
  /\ reply.kind \in {"none", "ack", "echo", "answer"}
  /\ out.frame.kind = "demand" =>
       /\ out.retryQueued = FALSE
       /\ \/ reply.kind = "ack"
          \/ reply.kind = "echo" /\ reply.code = CodeOf(out.frame)

(* What the stack remembers of a channel.                                     *)
Known ==
  \A c \in Chans :
    /\ chan[c].sendNeeded = TRUE => chan[c].active = TRUE
    /\ chan[c].zeroPending = TRUE => chan[c].everSent = TRUE
    /\ chan[c].everSent = TRUE => loaded[c] = TRUE

LEMMA PromptWire ==
  ASSUME Prompt, TypeOK, NEW f \in Frames, OnWire(f), f.kind # "none"
  PROVE  /\ reply'.kind \in {"none", "ack", "echo", "answer"}
         /\ f.kind = "demand" =>
              /\ Accepts(f)
              /\ \/ reply'.kind = "ack"
                 \/ reply'.kind = "echo" /\ reply'.code = CodeOf(f)
<1>1. Serves(f)
  BY DEF OnWire, Prompt
<1>2. ~Refuses
  BY DEF Refuses, Prompt
<1>3. Acknowledges(f) => \/ reply'.kind = "ack"
                         \/ reply'.kind = "echo" /\ reply'.code = CodeOf(f)
  BY DEF Acknowledges, Prompt
<1>. QED BY <1>1, <1>2, <1>3 DEF Serves, NoReply

(* What a demand's transmission leaves on its channel and on the wire.        *)
LEMMA DemandSent ==
  ASSUME TypeOK, Level, NEW f \in Frames, OnWire(f), SendDemand(f)
  PROVE  /\ f.kind = "demand" /\ f.ch \in Chans /\ out'.frame = f
         /\ out'.retryQueued = FALSE
         /\ chan'[f.ch].active = chan[f.ch].active
         /\ chan'[f.ch].everSent = chan[f.ch].active
         /\ chan'[f.ch].sendNeeded = FALSE /\ chan'[f.ch].zeroPending = FALSE
         /\ loaded'[f.ch] = chan[f.ch].active
         /\ f.pct = chan[f.ch].pct /\ (f.pct > 0 <=> chan[f.ch].active = TRUE)
         /\ \A c \in Chans \ {f.ch} : chan'[c] = chan[c] /\ loaded'[c] = loaded[c]
<1>1. f.kind = "demand" /\ f.ch \in Chans /\ f.pct = chan[f.ch].pct
  BY WireServes DEF SendDemand
<1>2. /\ chan[f.ch] \in Channel /\ chan \in [Chans -> Channel]
      /\ loaded \in [Chans -> BOOLEAN]
  BY <1>1 DEF TypeOK, StackTypeOK
<1>3. out'.frame = f /\ out'.retryQueued = FALSE
  BY DEF SendDemand, Begin
<1>4. chan' = [chan EXCEPT ![f.ch] = [SentNow(@) EXCEPT !.sendNeeded = FALSE,
                                                        !.zeroPending = FALSE]]
  BY DEF SendDemand
<1>5. loaded' = [loaded EXCEPT ![f.ch] = f.pct > 0]
  BY <1>1 DEF OnWire
<1>6. f.pct > 0 <=> chan[f.ch].active = TRUE
  BY <1>1 DEF Level
<1>7. (f.pct > 0) = chan[f.ch].active
  BY <1>2, <1>6 DEF Channel
<1>. QED BY <1>1, <1>2, <1>3, <1>4, <1>5, <1>6, <1>7 DEF SentNow, Channel

(* A poll sends a new demand, or leaves channels, furnace and load alone.     *)
LEMMA PollSends ==
  ASSUME Prompt, TypeOK, Answered, NEW f \in Frames, Poll(f), ~SendDemand(f)
  PROVE  /\ UNCHANGED <<chan, held, loaded>>
         /\ Answered'
         /\ out'.frame.kind = "demand" => out'.frame = out.frame
<1>0. Grant(f) /\ OnWire(f) /\ out \in Exchange
  BY DEF Poll, TypeOK, StackTypeOK
<1>1. CASE RetransmitOwed(f)
  <2>1. /\ f = out.frame /\ f.kind # "demand" /\ f.kind # "none" /\ out'.frame = f
    BY <1>0, <1>1 DEF RetransmitOwed, Answered, Awaiting, Exchange
  <2>2. chan' = chan
    BY <1>1, <2>1 DEF RetransmitOwed, Carries, TypeOK, StackTypeOK
  <2>3. held' = held /\ loaded' = loaded
    BY <1>0, <2>1 DEF OnWire, Serves, Misses, Accepts, Refuses
  <2>. QED BY <1>0, <2>1, <2>2, <2>3, PromptWire DEF Answered
<1>2. CASE SendQueued(f)
  <2>1. f.kind # "demand" /\ f.kind # "none" /\ out'.frame = f /\ chan' = chan
    <3>1. Head(fifo) \in {"command", "probe"}
      BY <1>2 DEF SendQueued, TypeOK, StackTypeOK
    <3>. QED BY <1>2, <3>1 DEF SendQueued, Plain, Begin
  <2>2. held' = held /\ loaded' = loaded
    BY <1>0, <2>1 DEF OnWire, Serves, Misses, Accepts, Refuses
  <2>. QED BY <1>0, <2>1, <2>2, PromptWire DEF Answered
<1>3. CASE AnswerPoll(f)
  BY <1>0, <1>3 DEF AnswerPoll, OnWire, NoFrame, Plain, world, Answered
<1>. QED BY <1>0, <1>1, <1>2, <1>3 DEF Grant

(* The answer of a prompt bus ends the exchange it meets, and touches no      *)
(* channel.                                                                   *)
LEMMA PromptAnswer ==
  ASSUME Prompt, TypeOK, Answered, UnjoinedQuiet, Answer
  PROVE  /\ UNCHANGED <<chan, loaded>>
         /\ Answered' /\ (out' = out \/ out' = NoExchange)
         /\ \A c \in Chans : held'[c] = held[c] \/ held'[c] = Left[c]
<1>1. reply.kind \notin {"nak1", "nak2"} /\ reply'.kind = "none"
  BY DEF Answered, Answer, NoReply
<1>2. UNCHANGED <<chan, loaded>> /\ (out' = out \/ out' = NoExchange)
  BY <1>1 DEF Answer, onReply, probeAnswer, handleControlResponse, Delivered, Unrecognized,
              resetOutstanding, stack
<1>3. out'.frame.kind = "demand" => FALSE
  <2>1. SUFFICES ASSUME out'.frame.kind = "demand" PROVE FALSE
    OBVIOUS
  <2>2. out' = out /\ out.frame.kind = "demand"
    BY <1>2, <2>1 DEF NoExchange, NoFrame, Plain
  <2>3. /\ Addressed /\ Awaiting /\ Delivers(reply) /\ reply.kind # "answer"
    BY <2>2 DEF Answered, Delivers, UnjoinedQuiet, Awaiting
  <2>4. Delivered \/ Unrecognized
    BY <1>1, <2>3 DEF Answer, onReply, handleControlResponse
  <2>5. out' = NoExchange
    BY <2>4 DEF Delivered, Unrecognized, resetOutstanding
  <2>. QED BY <2>1, <2>5 DEF NoExchange, NoFrame, Plain
<1>4. \A c \in Chans : held'[c] = held[c] \/ held'[c] = Left[c]
  BY DEF Answer
<1>. QED BY <1>1, <1>2, <1>3, <1>4 DEF Answered

(* The tick finds no demand open. *)
LEMMA PromptTick ==
  ASSUME Prompt, TypeOK, Answered, TickServed, Tick
  PROVE  /\ Answered' /\ loaded' = loaded
         /\ out'.frame.kind # "demand"
         /\ \A c \in Chans :
              /\ chan'[c].active = chan[c].active /\ chan'[c].zeroPending = chan[c].zeroPending
              /\ chan'[c].everSent = chan[c].everSent
              /\ chan'[c].sendNeeded = TRUE => chan[c].sendNeeded = TRUE \/ chan[c].active = TRUE
<1>1. reply = NoReply /\ reply' = reply /\ loaded' = loaded
  BY DEF Tick, Prompt
<1>2. out.frame.kind # "demand" /\ out \in Exchange /\ chan \in [Chans -> Channel]
  BY <1>1 DEF Answered, NoReply, TypeOK, StackTypeOK
<1>3. out'.frame = out.frame \/ out'.frame = NoFrame
  <2>1. out'.frame = out.frame \/ out' = NoExchange
    BY <1>2 DEF TickServed, resetOutstanding, AgedOut, Exchange
  <2>. QED BY <2>1 DEF NoExchange
<1>4. ASSUME NEW c \in Chans
      PROVE  /\ chan'[c].active = chan[c].active /\ chan'[c].zeroPending = chan[c].zeroPending
             /\ chan'[c].everSent = chan[c].everSent
             /\ chan'[c].sendNeeded = TRUE => chan[c].sendNeeded = TRUE \/ chan[c].active = TRUE
  <2>1. chan'[c] = Refreshed(c) /\ chan[c] \in Channel
    BY <1>2 DEF TickServed
  <2>2. /\ chan'[c].active = chan[c].active /\ chan'[c].zeroPending = chan[c].zeroPending
        /\ chan'[c].everSent = chan[c].everSent
        /\ chan'[c].sendNeeded = (chan[c].sendNeeded \/ (chan[c].active /\ AgedChan(c).age >= Due))
    BY <2>1 DEF Refreshed, AgedChan, Channel
  <2>3. chan[c].active \in BOOLEAN /\ chan[c].sendNeeded \in BOOLEAN
    BY <2>1 DEF Channel
  <2>4. CASE chan[c].active = FALSE /\ chan[c].sendNeeded = FALSE
    <3>1. chan'[c].sendNeeded = FALSE
      BY <2>2, <2>4
    <3>. QED BY <2>2, <3>1
  <2>5. CASE chan[c].active = TRUE \/ chan[c].sendNeeded = TRUE
    <3>. QED BY <2>2, <2>5, Zenon
  <2>6. \/ chan[c].active = TRUE \/ chan[c].sendNeeded = TRUE
        \/ chan[c].active = FALSE /\ chan[c].sendNeeded = FALSE
    BY <2>3
  <2>. QED BY <2>4, <2>5, <2>6
<1>5. out'.frame.kind # "demand"
  BY <1>2, <1>3 DEF NoFrame, Plain
<1>6. Answered'
  BY <1>1, <1>5 DEF Answered
<1>. QED BY <1>1, <1>4, <1>5, <1>6

PromptInv == Answered /\ Known

LEMMA PromptFlush ==
  ASSUME Flush
  PROVE  Known' /\ out'.frame.kind = "none"
BY DEF Flush, clearDemands, Known, NewChannel, NoExchange, NoFrame, Plain, Chans

(* A demand of the controller. *)
LEMMA ApplyKnown ==
  ASSUME TypeOK, Known, NEW d \in [Chans -> 0 .. MaxPct], Apply(d)
  PROVE  Known'
<1>1. ASSUME NEW c \in Chans
      PROVE  /\ chan'[c].sendNeeded = TRUE => chan'[c].active = TRUE
             /\ chan'[c].zeroPending = TRUE => chan'[c].everSent = TRUE
             /\ chan'[c].everSent = TRUE => chan[c].everSent = TRUE
  <2>1. chan[c] \in Channel /\ chan'[c] = Demanded(chan[c], d[c])
    BY DEF Apply, setDemands, TypeOK, StackTypeOK
  <2>2. CASE d[c] > 0
    <3>1. chan'[c] = Activated(chan[c], d[c])
      BY <2>1, <2>2 DEF Demanded
    <3>. QED BY <2>1, <3>1 DEF Activated, Channel
  <2>3. CASE ~(d[c] > 0)
    <3>1. chan'[c] = Cancelled(chan[c])
      BY <2>1, <2>3 DEF Demanded
    <3>. QED BY <2>1, <3>1 DEF Cancelled, NewChannel, Channel
  <2>. QED BY <2>2, <2>3
<1>2. loaded' = loaded
  BY DEF Apply, world
<1>. QED BY <1>1, <1>2 DEF Known, Chans

LEMMA PromptStep ==
  ASSUME Prompt, TypeOK, UnjoinedQuiet, SilentIsEmpty, Level, PromptInv, [Next]_vars
  PROVE  PromptInv'
<1>0. /\ UNCHANGED <<chan, loaded>> => Known'
      /\ UNCHANGED <<out, reply>> => Answered'
      /\ Flush /\ UNCHANGED reply => PromptInv'
  <2>1. UNCHANGED <<chan, loaded>> => Known'
    BY DEF PromptInv, Known, Chans
  <2>2. UNCHANGED <<out, reply>> => Answered'
    BY DEF PromptInv, Answered
  <2>3. Flush /\ UNCHANGED reply => PromptInv'
    BY PromptFlush DEF PromptInv, Answered
  <2>. QED BY <2>1, <2>2, <2>3
<1>1. CASE Resume \/ QueueProbe \/ Command \/ Ack \/ SetAddress \/ UNCHANGED vars
  <2>1. UNCHANGED <<chan, loaded, out, reply>>
    BY <1>1 DEF Resume, resume, QueueProbe, queueProbe, Command, setSystemSwitch, Ack,
       clearAlarms, SetAddress, handleSetAddress, vars, stack, world
  <2>. QED BY <1>0, <2>1 DEF PromptInv
<1>2. CASE Drop
  BY <1>0, <1>2 DEF Drop, goSilent
<1>3. ASSUME NEW d \in [Chans -> 0 .. MaxPct], Apply(d) PROVE PromptInv'
  <2>1. UNCHANGED <<out, reply>>
    BY <1>3 DEF Apply, setDemands, world
  <2>. QED BY <1>0, <1>3, <2>1, ApplyKnown DEF PromptInv
<1>4. ASSUME NEW f \in Frames, Poll(f) PROVE PromptInv'
  <2>1. CASE SendDemand(f)
    <3>1. OnWire(f) /\ f.kind # "none"
      BY <1>4, <2>1 DEF Poll, SendDemand
    <3>2. /\ f.kind = "demand" /\ f.ch \in Chans /\ out'.frame = f
          /\ out'.retryQueued = FALSE
          /\ chan'[f.ch].everSent = chan[f.ch].active
          /\ chan'[f.ch].sendNeeded = FALSE /\ chan'[f.ch].zeroPending = FALSE
          /\ loaded'[f.ch] = chan[f.ch].active
          /\ \A c \in Chans \ {f.ch} : chan'[c] = chan[c] /\ loaded'[c] = loaded[c]
      BY <2>1, <3>1, DemandSent
    <3>3. Known'
      BY <3>2 DEF PromptInv, Known, Chans
    <3>4. Answered'
      BY <3>1, <3>2, PromptWire DEF Answered
    <3>. QED BY <3>3, <3>4 DEF PromptInv
  <2>2. CASE ~SendDemand(f)
    BY <1>0, <1>4, <2>2, PollSends DEF PromptInv
  <2>. QED BY <2>1, <2>2
<1>5. CASE Answer
  BY <1>0, <1>5, PromptAnswer DEF PromptInv
<1>6. CASE Discovery
  <2>1. (Flush /\ UNCHANGED reply) \/ UNCHANGED <<chan, out, loaded, reply>>
    BY <1>6 DEF Discovery, handleDiscovery
  <2>2. UNCHANGED reply /\ UNCHANGED loaded
    BY <1>6 DEF Discovery
  <2>. QED BY <1>0, <2>1, <2>2 DEF PromptInv
<1>7. CASE Tick
  <2>0. reply' = reply
    BY <1>7 DEF Tick
  <2>1. CASE TickServed
    BY <1>7, <2>1, PromptTick DEF PromptInv, Known, Chans
  <2>2. CASE UNCHANGED stack
    BY <1>0, <1>7, <2>2 DEF Tick, stack, PromptInv
  <2>3. CASE Flush
    BY <1>0, <2>0, <2>3
  <2>. QED BY <1>7, <2>1, <2>2, <2>3 DEF Tick, tick, TickCommsLoss, TickStarved, goSilent
<1>. QED BY <1>1, <1>2, <1>3, <1>4, <1>5, <1>6, <1>7 DEF Next, Event

LEMMA LevelInvariant == Spec => []Level
<1>1. Init => Level /\ Served
  <2>1. Init => \A c \in Chans : chan[c].active = FALSE /\ chan[c].pct = 0
    BY DEF Init, StackInit, NewChannel
  <2>. QED BY <2>1 DEF Level, Served, Settled
<1>2. TypeOK /\ SilentIsEmpty /\ Level /\ Served /\ [Next]_vars => Level' /\ Served'
  BY ServedStep
<1>3. Spec => []TypeOK
  BY TypeCorrect, PTL
<1>. QED BY <1>1, <1>2, <1>3, SilentHolds, PTL DEF Spec

LEMMA PromptInvariant == ASSUME Prompt PROVE Spec => []PromptInv
<1>1. Init => PromptInv
  BY DEF Init, StackInit, PromptInv, Answered, Known, NewChannel, NoExchange, NoFrame, Plain,
         NoReply
<1>2. TypeOK /\ UnjoinedQuiet /\ SilentIsEmpty /\ Level /\ PromptInv /\ [Next]_vars => PromptInv'
  BY PromptStep
<1>3. Spec => []TypeOK
  BY TypeCorrect, PTL
<1>. QED BY <1>1, <1>2, <1>3, SilentHolds, RejoinClean, LevelInvariant, PTL DEF Spec

(* On a bus that loses and refuses nothing an explicit zero goes out only     *)
(* over a nonzero demand: a cancel is told once, not on every grant (#185),   *)
(* however demands, drops and re-enumerations interleave.                     *)
THEOREM CancelOnceHolds == ASSUME Prompt PROVE Spec => CancelOnce
<1>1. TypeOK /\ Level /\ PromptInv /\ UnjoinedQuiet /\ [Next]_vars
        => [(\A c \in Chans :
               out'.frame # out.frame /\ out'.frame = [kind |-> "demand", ch |-> c, pct |-> 0]
                 => loaded[c])]_vars
  <2>. SUFFICES ASSUME TypeOK, Level, PromptInv, UnjoinedQuiet, [Next]_vars, NEW c \in Chans,
                       out'.frame # out.frame,
                       out'.frame = [kind |-> "demand", ch |-> c, pct |-> 0]
                PROVE  loaded[c]
    OBVIOUS
  <2>0. out'.frame.kind = "demand" /\ out'.frame.ch = c /\ out'.frame.pct = 0
        /\ out' # out /\ out' # NoExchange
    BY DEF NoExchange, NoFrame, Plain
  <2>1. \E f \in Frames : Poll(f)
    <3>1. ~Flush
      BY <2>0 DEF Flush
    <3>2. CASE Tick
      <4>1. CASE TickServed
        BY <2>0, <3>2, <4>1, PromptTick DEF PromptInv
      <4>. QED BY <2>0, <3>1, <3>2, <4>1
           DEF Tick, tick, TickCommsLoss, TickStarved, goSilent, stack
    <3>3. ~Answer
      BY <2>0, PromptAnswer DEF PromptInv
    <3>. QED BY <2>0, <3>1, <3>2, <3>3
         DEF Next, Event, Resume, resume, QueueProbe, queueProbe, Command, setSystemSwitch, Ack,
             clearAlarms, SetAddress, handleSetAddress, Drop, goSilent, Apply, setDemands,
             Discovery, handleDiscovery, vars, stack
  <2>2. PICK f \in Frames : Poll(f)
    BY <2>1
  <2>3. SendDemand(f)
    BY <2>0, <2>2, PollSends DEF PromptInv
  <2>4. f = out'.frame /\ chan[c].active # TRUE
    <3>1. OnWire(f)
      BY <2>2 DEF Poll
    <3>2. out'.frame = f /\ (f.pct > 0 <=> chan[f.ch].active = TRUE)
      BY <2>3, <3>1, DemandSent
    <3>3. f.ch = c /\ ~(f.pct > 0)
      BY <2>0, <3>2
    <3>4. ~(chan[f.ch].active = TRUE)
      BY <3>2, <3>3
    <3>. QED BY <3>2, <3>3, <3>4
  <2>5. chan[c].zeroPending = TRUE
    BY <2>0, <2>3, <2>4 DEF SendDemand, Pending, PromptInv, Known, TypeOK, StackTypeOK, Channel
  <2>. QED BY <2>5 DEF PromptInv, Known
<1>2. Spec => []TypeOK
  BY TypeCorrect, PTL
<1>. QED BY <1>1, <1>2, LevelInvariant, RejoinClean, PromptInvariant, PTL DEF Spec, CancelOnce

(* What the furnace took in this session is remembered as sent, and is wanted *)
(* or about to be cancelled.                                                  *)
Wanted ==
  \A c \in Chans :
    /\ held[c].current = TRUE => held[c].pct > 0
    /\ held[c].current = TRUE =>
         chan[c].everSent = TRUE /\ (chan[c].active = TRUE \/ chan[c].zeroPending = TRUE)

LEMMA LeftWants ==
  ASSUME TypeOK, Wanted, NEW c \in Chans
  PROVE  Left[c].current = FALSE
<1>1. held[c] \in Held
  BY DEF TypeOK, Held
<1>2. CASE held[c].pct = 0
  BY <1>1, <1>2 DEF Wanted, Left, Held
<1>3. CASE held[c].pct # 0
  BY <1>1, <1>3 DEF Left, Held
<1>. QED BY <1>2, <1>3

LEMMA LapsesWant ==
  ASSUME TypeOK, NEW c \in Chans
  PROVE  /\ Lapses[c].current = TRUE => held[c].current = TRUE /\ Lapses[c].pct = held[c].pct
         /\ [Lapses[c] EXCEPT !.current = FALSE].current = FALSE
<1>1. held[c] \in Held /\ Lapses[c] \in Held
  BY HeldOps DEF TypeOK, Held
<1>2. CASE held[c].pct = 0 \/ held[c].age + 1 >= WindowLen
  BY <1>1, <1>2 DEF Lapses, Nothing, Held
<1>3. CASE ~(held[c].pct = 0 \/ held[c].age + 1 >= WindowLen)
  <2>1. Lapses[c] = [held[c] EXCEPT !.age = @ + 1]
    BY <1>3 DEF Lapses
  <2>. QED BY <1>1, <2>1 DEF Held
<1>. QED BY <1>1, <1>2, <1>3 DEF Held

(* ~Hasty: no demand returns to a channel whose zero is still owed.           *)
LEMMA ApplyWants ==
  ASSUME Hasty = FALSE, TypeOK, Known, Wanted, NEW d \in [Chans -> 0 .. MaxPct], Apply(d)
  PROVE  Wanted'
<1>1. ASSUME NEW c \in Chans, held[c].current = TRUE
      PROVE  /\ chan'[c].everSent = TRUE
             /\ chan'[c].active = TRUE \/ chan'[c].zeroPending = TRUE
  <2>1. /\ chan[c] \in Channel /\ chan'[c] = Demanded(chan[c], d[c]) /\ d[c] \in 0 .. MaxPct
        /\ chan[c].everSent = TRUE
        /\ chan[c].active = TRUE \/ chan[c].zeroPending = TRUE
    BY <1>1 DEF Apply, setDemands, TypeOK, StackTypeOK, Wanted
  <2>2. CASE d[c] > 0
    <3>1. chan[c].active = TRUE
      <4>1. chan[c].zeroPending = TRUE => d[c] = 0
        BY DEF Apply
      <4>2. d[c] # 0
        BY <2>1, <2>2
      <4>. QED BY <2>1, <4>1, <4>2
    <3>2. chan'[c] = Activated(chan[c], d[c])
      BY <2>1, <2>2 DEF Demanded
    <3>3. chan'[c].active = TRUE /\ chan'[c].everSent = (chan[c].active /\ chan[c].everSent)
      BY <3>2 DEF Activated
    <3>. QED BY <2>1, <3>1, <3>3
  <2>3. CASE ~(d[c] > 0)
    <3>1. chan'[c] = Cancelled(chan[c])
      BY <2>1, <2>3 DEF Demanded
    <3>. QED BY <2>1, <3>1 DEF Cancelled, NewChannel
  <2>. QED BY <2>2, <2>3
<1>2. held' = held
  BY DEF Apply, world
<1>. QED BY <1>1, <1>2 DEF Wanted, Chans

LEMMA PollWants ==
  ASSUME Prompt, TypeOK, Level, Answered, Wanted, NEW f \in Frames, Poll(f)
  PROVE  Wanted'
<1>1. CASE SendDemand(f)
  <2>1. OnWire(f) /\ f.kind = "demand"
    BY <1>1 DEF Poll, SendDemand
  <2>2. /\ f.ch \in Chans
        /\ chan'[f.ch].active = chan[f.ch].active
        /\ chan'[f.ch].everSent = chan[f.ch].active
        /\ f.pct > 0 <=> chan[f.ch].active = TRUE
        /\ \A c \in Chans \ {f.ch} : chan'[c] = chan[c]
    BY <1>1, <2>1, DemandSent
  <2>3. Accepts(f)
    BY <2>1, PromptWire
  <2>4. /\ held'[f.ch] = IF f.pct = 0 THEN Nothing
                         ELSE [pct |-> f.pct, age |-> 0, current |-> TRUE]
        /\ \A c \in Chans \ {f.ch} : held'[c] = held[c]
    BY <2>1, <2>2, <2>3 DEF Accepts, TypeOK
  <2>5. f.pct \in Nat
    BY <2>1, WireServes, Constants
  <2>6. held'[f.ch].current = TRUE =>
          /\ held'[f.ch].pct > 0
          /\ chan'[f.ch].everSent = TRUE /\ chan'[f.ch].active = TRUE
    <3>1. CASE f.pct = 0
      BY <2>4, <3>1 DEF Nothing
    <3>2. CASE f.pct # 0
      <4>1. f.pct > 0
        BY <2>5, <3>2
      <4>2. chan[f.ch].active = TRUE
        BY <2>2, <4>1
      <4>3. held'[f.ch].pct = f.pct
        BY <2>4, <3>2
      <4>. QED BY <2>2, <4>1, <4>2, <4>3
    <3>. QED BY <3>1, <3>2
  <2>. QED BY <2>2, <2>4, <2>6 DEF Wanted, Chans
<1>2. CASE ~SendDemand(f)
  <2>1. UNCHANGED <<chan, held>>
    BY <1>2, PollSends
  <2>. QED BY <2>1 DEF Wanted, Chans
<1>. QED BY <1>1, <1>2

LEMMA WantedStep ==
  ASSUME Prompt, Hasty = FALSE, TypeOK, UnjoinedQuiet, Level, PromptInv, Wanted, [Next]_vars
  PROVE  Wanted'
<1>0. /\ UNCHANGED <<chan, held>> => Wanted'
      /\ (\A c \in Chans : held'[c].current = FALSE) => Wanted'
      /\ held' = Left => \A c \in Chans : held'[c].current = FALSE
  BY LeftWants DEF Wanted, Chans
<1>1. CASE Resume \/ QueueProbe \/ Command \/ Ack \/ SetAddress \/ UNCHANGED vars
  <2>1. UNCHANGED <<chan, held>>
    BY <1>1 DEF Resume, resume, QueueProbe, queueProbe, Command, setSystemSwitch, Ack,
       clearAlarms, SetAddress, handleSetAddress, vars, stack, world
  <2>. QED BY <1>0, <2>1
<1>2. CASE Drop
  BY <1>0, <1>2 DEF Drop
<1>3. ASSUME NEW d \in [Chans -> 0 .. MaxPct], Apply(d) PROVE Wanted'
  BY <1>3, ApplyWants DEF PromptInv
<1>4. ASSUME NEW f \in Frames, Poll(f) PROVE Wanted'
  BY <1>4, PollWants DEF PromptInv
<1>5. CASE Answer
  <2>1. chan' = chan /\ \A c \in Chans : held'[c] = held[c] \/ held'[c] = Left[c]
    BY <1>5, PromptAnswer DEF PromptInv
  <2>2. \A c \in Chans : held'[c].current = TRUE => held'[c] = held[c]
    BY <2>1, LeftWants
  <2>. QED BY <2>1, <2>2 DEF Wanted, Chans
<1>6. CASE Discovery
  <2>1. held' = Left \/ UNCHANGED <<chan, held>>
    BY <1>6 DEF Discovery, handleDiscovery
  <2>. QED BY <1>0, <2>1
<1>7. CASE Tick
  <2>1. CASE silent'
    BY <1>0, <1>7, <2>1, LapsesWant DEF Tick
  <2>2. CASE ~silent'
    <3>1. held' = Lapses
      BY <1>7, <2>2 DEF Tick
    <3>2. TickServed
      BY <1>7, <2>2 DEF Tick, tick, TickCommsLoss, TickStarved, goSilent, stack, switch
    <3>3. \A c \in Chans : /\ chan'[c].active = chan[c].active
                           /\ chan'[c].zeroPending = chan[c].zeroPending
                           /\ chan'[c].everSent = chan[c].everSent
      BY <1>7, <3>2, PromptTick DEF PromptInv
    <3>4. \A c \in Chans : held'[c].current = TRUE =>
                             held[c].current = TRUE /\ held'[c].pct = held[c].pct
      BY <3>1, LapsesWant
    <3>. QED BY <3>3, <3>4 DEF Wanted, Chans
  <2>. QED BY <2>1, <2>2
<1>. QED BY <1>1, <1>2, <1>3, <1>4, <1>5, <1>6, <1>7 DEF Next, Event

(* On such a bus no demand is orphaned: what the furnace took in this session *)
(* is still wanted or its zero is owed, provided the minimum off times keep a *)
(* demand from returning before the zero of its end was sent.                 *)
THEOREM NoOrphanHolds == ASSUME Prompt, Hasty = FALSE PROVE Spec => []NoOrphan
<1>1. Init => Wanted
  BY DEF Init, Wanted, Nothing, Chans
<1>2. TypeOK /\ UnjoinedQuiet /\ Level /\ PromptInv /\ Wanted /\ [Next]_vars => Wanted'
  BY WantedStep
<1>3. TypeOK /\ Wanted => NoOrphan
  BY DEF Wanted, NoOrphan, TypeOK, StackTypeOK, Channel
<1>4. Spec => []TypeOK
  BY TypeCorrect, PTL
<1>. QED BY <1>1, <1>2, <1>3, <1>4, LevelInvariant, RejoinClean, PromptInvariant, PTL DEF Spec

-----------------------------------------------------------------------------
(* How long the two can disagree.  What one step does to one channel, its     *)
(* exchange and what the furnace holds of it: a step without time leaves it,  *)
(* clears it, asks something of it or transmits about it.                     *)
SameChannel(c) ==
  /\ chan'[c].active = chan[c].active /\ chan'[c].everSent = chan[c].everSent
  /\ chan'[c].age = chan[c].age
  /\ held'[c].pct = held[c].pct /\ held'[c].age = held[c].age

Untouched(c) ==
  /\ SameChannel(c)
  /\ \/ /\ Carries(c) /\ Carries(c)' /\ out'.frame = out.frame
        /\ out'.attempts = out.attempts /\ out'.age = out.age
        /\ Proves(reply') => Proves(reply)
     \/ ~Carries(c) /\ ~Carries(c)'
     \/ Carries(c) /\ ~Carries(c)' /\ Proves(reply)

Cleared(c) ==
  /\ chan'[c].active = FALSE /\ ~Carries(c)'
  /\ held'[c].pct = held[c].pct /\ held'[c].age = held[c].age

Asked(c) ==
  /\ UNCHANGED <<out, held, reply>>
  /\ \/ chan'[c].active = FALSE
     \/ /\ chan'[c].active = TRUE /\ chan[c].active = TRUE
        /\ chan'[c].everSent = chan[c].everSent /\ chan'[c].age = chan[c].age
     \/ /\ chan'[c].active = TRUE /\ chan[c].active = FALSE
        /\ chan'[c].everSent = FALSE /\ chan'[c].age = 0

Transmitted(c) ==
  /\ chan'[c].active = chan[c].active /\ chan'[c].everSent = chan[c].active
  /\ chan'[c].age = 0 /\ Carries(c)' /\ out'.age = 0
  /\ \/ ~Carries(c) /\ out'.attempts = 1 /\ out'.frame.pct = chan[c].pct
     \/ /\ Carries(c) /\ out'.frame = out.frame
        /\ out'.attempts = out.attempts + 1 /\ out.attempts < kMsgResendAttempts
  /\ \/ held'[c].pct = held[c].pct /\ held'[c].age = held[c].age
     \/ held'[c].pct = out'.frame.pct /\ held'[c].age = 0
  /\ Proves(reply') => held'[c].pct = out'.frame.pct /\ held'[c].age = 0

LEMMA AskedView ==
  ASSUME TypeOK, NEW d \in [Chans -> 0 .. MaxPct], Apply(d), NEW c \in Chans
  PROVE  Asked(c)
<1>1. UNCHANGED <<out, held, reply>>
  BY DEF Apply, setDemands, world
<1>2. chan[c] \in Channel /\ chan'[c] = Demanded(chan[c], d[c])
  BY DEF Apply, setDemands, TypeOK, StackTypeOK
<1>3. CASE d[c] > 0
  <2>1. /\ chan'[c].active = TRUE
        /\ chan'[c].everSent = (chan[c].active /\ chan[c].everSent)
        /\ chan'[c].age = IF chan[c].active THEN chan[c].age ELSE 0
    BY <1>2, <1>3 DEF Demanded, Activated
  <2>2. CASE chan[c].active = TRUE
    BY <1>1, <1>2, <2>1, <2>2 DEF Asked, Channel
  <2>3. CASE chan[c].active = FALSE
    BY <1>1, <2>1, <2>3 DEF Asked
  <2>. QED BY <1>2, <2>2, <2>3 DEF Channel
<1>4. CASE ~(d[c] > 0)
  <2>1. chan'[c].active = FALSE
    BY <1>2, <1>4 DEF Demanded, Cancelled, NewChannel
  <2>. QED BY <1>1, <2>1 DEF Asked
<1>. QED BY <1>3, <1>4

LEMMA FlushView ==
  ASSUME TypeOK, Flush, held' = held \/ held' = Left, NEW c \in Chans
  PROVE  Cleared(c)
<1>1. chan'[c].active = FALSE /\ ~Carries(c)'
  BY DEF Flush, clearDemands, NewChannel, NoExchange, NoFrame, Plain, Carries
<1>. QED BY <1>1, LeftKeeps DEF Cleared

LEMMA AnswerView ==
  ASSUME TypeOK, Answer, NEW c \in Chans
  PROVE  Cleared(c) \/ Untouched(c)
<1>0. held' = held \/ held' = Left
  BY DEF Answer
<1>1. CASE Flush
  BY <1>0, <1>1, FlushView
<1>2. CASE ~Flush
  <2>0. ~goSilent /\ ~PairingRejected
    BY <1>2 DEF goSilent, PairingRejected
  <2>1. chan' = chan /\ reply' = NoReply
    BY <2>0 DEF Answer, onReply, probeAnswer, handleControlResponse, Delivered, Unrecognized,
                BadCrc, stack
  <2>2. held'[c].pct = held[c].pct /\ held'[c].age = held[c].age
    BY <1>0, LeftKeeps
  <2>e. out \in Exchange
    BY DEF TypeOK, StackTypeOK
  <2>3. \/ /\ out'.frame = out.frame /\ out'.attempts = out.attempts /\ out'.age = out.age
        \/ out' = NoExchange
    BY <2>0, <2>e DEF Answer, onReply, probeAnswer, handleControlResponse, Delivered,
                Unrecognized, BadCrc, resetOutstanding, stack, Exchange
  <2>4. CASE out' = NoExchange
    <3>1. ~Carries(c)'
      BY <2>4 DEF Carries, NoExchange, NoFrame, Plain
    <3>2. ASSUME Carries(c) PROVE Proves(reply)
      <4>1. out'.frame # out.frame /\ out.frame.kind = "demand"
        BY <3>1, <3>2 DEF Carries
      <4>2. ~BadCrc
        BY <2>0, <4>1, <2>e DEF BadCrc, Exchange
      <4>. QED BY <2>0, <4>1, <4>2 DEF Answer, onReply, probeAnswer, handleControlResponse,
                  Delivers, Proves, stack
    <3>. QED BY <2>1, <2>2, <3>1, <3>2 DEF Untouched, SameChannel
  <2>5. CASE /\ out'.frame = out.frame /\ out'.attempts = out.attempts /\ out'.age = out.age
    <3>1. Carries(c)' <=> Carries(c)
      BY <2>5 DEF Carries
    <3>. QED BY <2>1, <2>2, <2>5, <3>1 DEF Untouched, SameChannel, Proves, NoReply
  <2>. QED BY <2>3, <2>4, <2>5
<1>. QED BY <1>1, <1>2

LEMMA PollView ==
  ASSUME TypeOK, Budget, NEW f \in Frames, Poll(f), NEW c \in Chans
  PROVE  Transmitted(c) \/ Untouched(c)
<1>0. /\ chan \in [Chans -> Channel] /\ out \in Exchange /\ Grant(f) /\ OnWire(f)
      /\ held \in [Chans -> Held]
  BY DEF TypeOK, StackTypeOK, Poll, Held
<1>w. ASSUME f.kind = "demand"
      PROVE  /\ f.ch \in Chans
             /\ Proves(reply') => held'[f.ch].pct = f.pct /\ held'[f.ch].age = 0
             /\ \A k \in Chans \ {f.ch} : held'[k] = held[k]
             /\ \/ held'[f.ch].pct = held[f.ch].pct /\ held'[f.ch].age = held[f.ch].age
                \/ held'[f.ch].pct = f.pct /\ held'[f.ch].age = 0
  <2>1. f.ch \in Chans
    BY <1>0, <1>w, WireServes
  <2>2. Accepts(f) => held'[f.ch].pct = f.pct /\ held'[f.ch].age = 0
    BY <1>0, <1>w, <2>1 DEF Accepts, Nothing
  <2>3. Accepts(f) \/ held' = held
    BY <1>0, <1>w DEF OnWire, Serves, Misses, Refuses
  <2>. QED BY <1>0, <1>w, <2>1, <2>2, <2>3, WireServes
<1>1. CASE RetransmitOwed(f) /\ f.kind = "demand"
  <2>1. /\ f = out.frame /\ out'.frame = out.frame /\ out'.age = 0
        /\ out'.attempts = out.attempts + 1 /\ out.attempts < kMsgResendAttempts
        /\ f.ch \in Chans /\ Carries(f.ch)
    BY <1>0, <1>1, <1>w DEF RetransmitOwed, Carries, Exchange, Budget
  <2>2. CASE c = f.ch
    <3>1. chan'[c] = SentNow(chan[c])
      BY <1>1, <2>1, <2>2 DEF RetransmitOwed
    <3>2. /\ chan'[c].active = chan[c].active /\ chan'[c].everSent = chan[c].active
          /\ chan'[c].age = 0
      BY <1>0, <3>1 DEF SentNow, Channel
    <3>3. Carries(c) /\ Carries(c)'
      BY <2>1, <2>2 DEF Carries
    <3>4. /\ \/ held'[c].pct = held[c].pct /\ held'[c].age = held[c].age
             \/ held'[c].pct = out'.frame.pct /\ held'[c].age = 0
          /\ Proves(reply') => held'[c].pct = out'.frame.pct /\ held'[c].age = 0
      BY <1>1, <1>w, <2>1, <2>2
    <3>. QED BY <2>1, <3>2, <3>3, <3>4 DEF Transmitted
  <2>3. CASE c # f.ch
    <3>1. ~Carries(c) /\ ~Carries(c)'
      BY <2>1, <2>3 DEF Carries
    <3>2. chan'[c] = chan[c] /\ held'[c] = held[c]
      BY <1>0, <1>1, <1>w, <2>3, <3>1 DEF RetransmitOwed
    <3>. QED BY <3>1, <3>2 DEF Untouched, SameChannel
  <2>. QED BY <2>2, <2>3
<1>2. CASE SendDemand(f)
  <2>1. /\ f.kind = "demand" /\ f.ch \in Chans /\ out' = Begin(f) /\ ~Awaiting
        /\ f.pct = chan[f.ch].pct
    BY <1>2, <1>w DEF SendDemand
  <2>2. /\ out'.frame = f /\ out'.attempts = 1 /\ out'.age = 0 /\ ~Carries(c)
    BY <2>1 DEF Begin, Awaiting, Carries
  <2>3. CASE c = f.ch
    <3>1. /\ chan'[c].active = chan[c].active /\ chan'[c].everSent = chan[c].active
          /\ chan'[c].age = 0
      BY <1>0, <1>2, <2>1, <2>3 DEF SendDemand, SentNow, Channel
    <3>2. Carries(c)'
      BY <2>1, <2>2, <2>3 DEF Carries
    <3>3. /\ \/ held'[c].pct = held[c].pct /\ held'[c].age = held[c].age
             \/ held'[c].pct = out'.frame.pct /\ held'[c].age = 0
          /\ Proves(reply') => held'[c].pct = out'.frame.pct /\ held'[c].age = 0
      BY <1>w, <2>1, <2>2, <2>3
    <3>. QED BY <2>1, <2>2, <2>3, <3>1, <3>2, <3>3 DEF Transmitted
  <2>4. CASE c # f.ch
    <3>1. ~Carries(c)'
      BY <2>2, <2>4 DEF Carries
    <3>2. chan'[c] = chan[c] /\ held'[c] = held[c]
      BY <1>0, <1>2, <1>w, <2>1, <2>4 DEF SendDemand
    <3>. QED BY <2>2, <3>1, <3>2 DEF Untouched, SameChannel
  <2>. QED BY <2>3, <2>4
<1>3. CASE SendQueued(f)
  <2>1. f.kind # "demand" /\ f.kind # "none"
    <3>1. Head(fifo) \in {"command", "probe"}
      BY <1>3 DEF SendQueued, TypeOK, StackTypeOK
    <3>. QED BY <1>3, <3>1 DEF SendQueued, Plain
  <2>2. chan' = chan /\ ~Carries(c) /\ ~Carries(c)'
    BY <1>3, <2>1 DEF SendQueued, Begin, Carries, Awaiting
  <2>3. held' = held
    BY <1>0, <2>1 DEF OnWire, Serves, Misses, Accepts, Refuses
  <2>. QED BY <2>2, <2>3 DEF Untouched, SameChannel
<1>4. CASE RetransmitOwed(f) /\ f.kind # "demand"
  <2>1. f.kind # "none" /\ out'.frame = out.frame /\ f = out.frame
    BY <1>0, <1>4 DEF RetransmitOwed, Awaiting, Exchange
  <2>2. \A k \in Chans : ~Carries(k) /\ ~Carries(k)'
    BY <1>4, <2>1 DEF Carries
  <2>3. chan' = chan
    BY <1>0, <1>4, <2>2 DEF RetransmitOwed
  <2>4. held' = held
    BY <1>0, <1>4, <2>1 DEF OnWire, Serves, Misses, Accepts, Refuses
  <2>. QED BY <2>2, <2>3, <2>4 DEF Untouched, SameChannel
<1>5. CASE AnswerPoll(f)
  <2>1. UNCHANGED <<chan, out, held, reply>>
    BY <1>0, <1>5 DEF AnswerPoll, OnWire, NoFrame, Plain, world
  <2>. QED BY <2>1 DEF Untouched, SameChannel, Carries, Proves
<1>. QED BY <1>0, <1>1, <1>2, <1>3, <1>4, <1>5 DEF Grant

LEMMA EventView ==
  ASSUME TypeOK, Budget, Event, NEW c \in Chans
  PROVE  Cleared(c) \/ Untouched(c) \/ Asked(c) \/ Transmitted(c)
<1>u. UNCHANGED <<chan, out, held, reply>> => Untouched(c)
  BY DEF Untouched, SameChannel, Carries, Proves
<1>1. Resume \/ QueueProbe \/ Command \/ Ack \/ SetAddress => UNCHANGED <<chan, out, held, reply>>
  BY DEF Resume, resume, QueueProbe, queueProbe, Command, setSystemSwitch, Ack, clearAlarms,
         SetAddress, handleSetAddress, world
<1>2. Drop => Flush /\ held' = Left
  BY DEF Drop, goSilent
<1>3. Discovery => \/ Flush /\ (held' = Left \/ held' = held)
                   \/ UNCHANGED <<chan, out, held, reply>>
  BY DEF Discovery, handleDiscovery
<1>. QED BY <1>u, <1>1, <1>2, <1>3, FlushView, AskedView, PollView, AnswerView DEF Event

(* A tick ages the channel, its exchange and what the furnace holds, or the    *)
(* stack is silent after it.                                                  *)
Lapsing(c) ==
  IF held[c].pct = 0 \/ held[c].age + 1 >= WindowLen
  THEN held'[c].pct = 0 /\ held'[c].age = 0
  ELSE held'[c].pct = held[c].pct /\ held'[c].age = held[c].age + 1

Silenced(c) == chan'[c].active = FALSE /\ ~Carries(c)'

Aged(c) ==
  /\ chan'[c].active = chan[c].active /\ chan'[c].everSent = chan[c].everSent
  /\ chan[c].active = TRUE =>
       /\ chan'[c].age = chan[c].age + 1 /\ chan'[c].age < Horizon
       /\ chan[c].everSent = TRUE => chan'[c].age < WindowLen
  /\ Carries(c)' <=> Carries(c)
  /\ Carries(c) =>
       /\ out'.frame = out.frame /\ out'.attempts = out.attempts
       /\ out'.age = Older(out.age, ResponseTimeout)
       /\ out.attempts = kMsgResendAttempts => out'.age < ResponseTimeout
  /\ reply' = reply

(* A try is under way; the last one waits for its answer less than the        *)
(* time-out.  An active channel is younger than the horizon, and no older     *)
(* than the try under way about it.  An answer on its way that ends such a    *)
(* try was given when the furnace took the demand, and it still serves it.    *)
Trying(c) ==
  Carries(c) => /\ out.attempts >= 1
                /\ out.attempts = kMsgResendAttempts => out.age < ResponseTimeout

Young(c) ==
  chan[c].active = TRUE =>
    /\ chan[c].age < Horizon
    /\ Carries(c) => chan[c].age <= out.age \/ out.age = ResponseTimeout

Taken(c) ==
  /\ Carries(c) /\ out.frame.pct > 0 /\ Proves(reply)
  /\ chan[c].active = TRUE /\ chan[c].everSent = TRUE
  => held[c].pct > 0 /\ held[c].age = chan[c].age

Timely == \A c \in Chans : Trying(c) /\ Young(c) /\ Taken(c)

LEMMA TickView ==
  ASSUME TypeOK, Budget, SilentIsEmpty, Timely, Tick, NEW c \in Chans
  PROVE  (Silenced(c) \/ Aged(c)) /\ Lapsing(c)
<1>0. /\ chan[c] \in Channel /\ held[c] \in Held /\ out \in Exchange /\ silent \in BOOLEAN
      /\ chan[c].age \in Nat /\ held \in [Chans -> Held]
  BY Constants DEF TypeOK, StackTypeOK, Held, Channel, Ages
<1>1. Lapsing(c)
  <2>1. /\ held'[c].pct = Lapses[c].pct /\ held'[c].age = Lapses[c].age
    <3>1. Lapses[c] \in Held
      BY HeldOps
    <3>. QED BY <3>1 DEF Tick, Held
  <2>2. CASE held[c].pct = 0 \/ held[c].age + 1 >= WindowLen
    <3>1. Lapses[c] = Nothing
      BY <2>2 DEF Lapses
    <3>. QED BY <2>1, <2>2, <3>1 DEF Lapsing, Nothing
  <2>3. CASE ~(held[c].pct = 0 \/ held[c].age + 1 >= WindowLen)
    <3>1. Lapses[c] = [held[c] EXCEPT !.age = held[c].age + 1]
      BY <2>3 DEF Lapses
    <3>. QED BY <1>0, <2>1, <2>3, <3>1 DEF Lapsing, Held
  <2>. QED BY <2>2, <2>3
<1>2. CASE silent = TRUE /\ UNCHANGED stack
  <2>1. chan'[c].active = FALSE
    BY <1>2 DEF SilentIsEmpty, NewChannel, stack
  <2>2. ~Carries(c)'
    BY <1>2 DEF SilentIsEmpty, Awaiting, Carries, stack
  <2>. QED BY <1>1, <2>1, <2>2 DEF Silenced
<1>3. CASE goSilent
  BY <1>1, <1>3 DEF goSilent, Flush, clearDemands, NewChannel, NoExchange, NoFrame, Plain,
     Carries, Silenced
<1>4. CASE TickServed
  <2>1. reply' = reply /\ ~DropsLink /\ ~Starved
    BY <1>4 DEF TickServed, Tick
  <2>2. /\ chan'[c].active = chan[c].active /\ chan'[c].everSent = chan[c].everSent
        /\ chan'[c].age = AgedChan(c).age
        /\ AgedChan(c).age = IF chan[c].active THEN Older(chan[c].age, Horizon) ELSE 0
    <3>1. chan'[c] = Refreshed(c)
      BY <1>4 DEF TickServed
    <3>. QED BY <1>0, <3>1 DEF Refreshed, AgedChan, Channel
  <2>3. ASSUME chan[c].active = TRUE
        PROVE  /\ chan'[c].age = chan[c].age + 1 /\ chan'[c].age < Horizon
               /\ chan[c].everSent = TRUE => chan'[c].age < WindowLen
    <3>1. chan'[c].age = chan[c].age + 1
      BY <1>0, <2>2, <2>3, Constants DEF Timely, Young, Older
    <3>2. ~(chan'[c].age >= Limit(c))
      BY <2>1, <2>2, <2>3 DEF Starved
    <3>3. /\ Limit(c) \in Nat /\ Limit(c) <= Horizon
          /\ chan[c].everSent = TRUE => Limit(c) = WindowLen
      BY Constants DEF Limit
    <3>. QED BY <1>0, <3>1, <3>2, <3>3, Constants
  <2>4. ASSUME Carries(c)
        PROVE  /\ out'.frame = out.frame /\ out'.attempts = out.attempts
               /\ out'.age = Older(out.age, ResponseTimeout)
               /\ out.attempts = kMsgResendAttempts => out'.age < ResponseTimeout
    <3>1. Awaiting /\ ~(TimedOut /\ Exhausted)
      BY <2>1, <2>4 DEF Carries, Awaiting, DropsLink
    <3>2. /\ AgedOut.frame = out.frame /\ AgedOut.attempts = out.attempts
          /\ AgedOut.age = Older(out.age, ResponseTimeout)
          /\ AgedOut \in Exchange
      BY <1>0, AgedType DEF AgedOut, Exchange, TypeOK, StackTypeOK
    <3>3. /\ out'.frame = AgedOut.frame /\ out'.attempts = AgedOut.attempts
          /\ out'.age = AgedOut.age
      BY <1>4, <3>1, <3>2 DEF TickServed, Exchange
    <3>4. ASSUME out.attempts = kMsgResendAttempts PROVE out'.age < ResponseTimeout
      <4>1. ~TimedOut
        BY <3>1, <3>4, Constants DEF Exhausted
      <4>2. ~out.retryQueued
        BY <3>4, <1>0, Constants DEF Budget, Exchange
      <4>. QED BY <3>1, <3>2, <3>3, <4>1, <4>2, Constants DEF TimedOut, Exchange
    <3>. QED BY <3>2, <3>3, <3>4
  <2>5. Carries(c)' => Carries(c)
    <3>1. out'.frame = out.frame \/ out' = NoExchange
      BY <1>0, <1>4 DEF TickServed, resetOutstanding, AgedOut, Exchange
    <3>. QED BY <3>1 DEF Carries, NoExchange, NoFrame, Plain
  <2>6. Carries(c) => Carries(c)'
    BY <2>4 DEF Carries
  <2>. QED BY <1>1, <2>1, <2>2, <2>3, <2>4, <2>5, <2>6 DEF Aged
<1>. QED BY <1>0, <1>1, <1>2, <1>3, <1>4 DEF Tick, tick, TickCommsLoss, TickStarved

LEMMA TimelyStep ==
  ASSUME TypeOK, TypeOK', Budget, SilentIsEmpty, Timely, [Next]_vars
  PROVE  Timely'
<1>. SUFFICES ASSUME NEW c \in Chans PROVE (Trying(c) /\ Young(c) /\ Taken(c))'
  BY DEF Timely, Chans
<1>0. /\ Trying(c) /\ Young(c) /\ Taken(c)
      /\ chan[c] \in Channel /\ chan[c].age \in Nat /\ out \in Exchange /\ held[c] \in Held
      /\ held'[c] \in Held /\ out.age \in 0 .. ResponseTimeout
  BY Constants DEF Timely, TypeOK, StackTypeOK, Held, Channel, Ages, Exchange
<1>1. CASE Untouched(c)
  BY <1>0, <1>1 DEF Untouched, SameChannel, Trying, Young, Taken
<1>2. CASE Cleared(c)
  BY <1>2 DEF Cleared, Trying, Young, Taken
<1>3. CASE Asked(c)
  <2>1. Carries(c)' <=> Carries(c)
    BY <1>3 DEF Asked, Carries
  <2>2. Trying(c)'
    BY <1>0, <1>3, <2>1 DEF Asked, Trying
  <2>3. Young(c)'
    BY <1>0, <1>3, <2>1, Constants DEF Asked, Young
  <2>4. Taken(c)'
    BY <1>0, <1>3, <2>1 DEF Asked, Taken
  <2>. QED BY <2>2, <2>3, <2>4
<1>4. CASE Transmitted(c)
  <2>1. Trying(c)'
    BY <1>0, <1>4, Constants DEF Transmitted, Trying, Exchange
  <2>2. Young(c)' /\ Taken(c)'
    BY <1>0, <1>4, Constants DEF Transmitted, Young, Taken
  <2>. QED BY <2>1, <2>2
<1>5. CASE Silenced(c)
  BY <1>5 DEF Silenced, Trying, Young, Taken
<1>6. CASE Aged(c) /\ Lapsing(c)
  <2>1. Trying(c)'
    BY <1>0, <1>6 DEF Aged, Trying
  <2>2. Young(c)'
    BY <1>0, <1>6, Constants DEF Aged, Young, Older
  <2>3. ASSUME Carries(c)', out'.frame.pct > 0, Proves(reply'), chan'[c].active = TRUE,
               chan'[c].everSent = TRUE
        PROVE  held'[c].pct > 0 /\ held'[c].age = chan'[c].age
    <3>1. held[c].pct > 0 /\ held[c].age = chan[c].age
      BY <1>0, <1>6, <2>3 DEF Aged, Taken
    <3>2. chan'[c].age = chan[c].age + 1 /\ chan[c].age + 1 < WindowLen
      BY <1>6, <2>3 DEF Aged
    <3>. QED BY <1>0, <1>6, <3>1, <3>2, Constants DEF Lapsing, Held
  <2>. QED BY <2>1, <2>2, <2>3 DEF Taken
<1>7. CASE UNCHANGED vars
  <2>1. UNCHANGED <<chan, out, held, reply>>
    BY <1>7 DEF vars, stack
  <2>2. Untouched(c)
    BY <2>1 DEF Untouched, SameChannel, Carries, Proves
  <2>. QED BY <1>1, <2>2
<1>. QED BY <1>1, <1>2, <1>3, <1>4, <1>5, <1>6, <1>7, EventView, TickView DEF Next

(* The intervals between the tries that are behind a channel: of its zero,    *)
(* then of its demand.  Each is shorter than the horizon; while a frame that   *)
(* nobody wants is tried, than a window.                                      *)
Times(n, s) == n * s

LEMMA TimesMore ==
  ASSUME NEW n \in Nat, NEW s \in Nat
  PROVE  /\ Times(n, s) \in Nat /\ Times(n + 1, s) = Times(n, s) + s
         /\ \A m \in Nat : n <= m => Times(n, s) <= Times(m, s)
<1>1. n * s \in Nat /\ (n + 1) * s = n * s + s
  OBVIOUS
<1>2. ASSUME NEW m \in Nat, n <= m PROVE n * s <= m * s
  <2>1. PICK k \in Nat : m = n + k
    <3>1. m - n \in Nat /\ m = n + (m - n)
      BY <1>2
    <3>. QED BY <3>1
  <2>2. (n + k) * s = n * s + k * s /\ k * s \in Nat /\ n * s \in Nat
    OBVIOUS
  <2>. QED BY <2>1, <2>2
<1>. QED BY <1>1, <1>2 DEF Times

Tries(c) ==
  IF ~Carries(c) THEN kMsgResendAttempts - 1
  ELSE IF out.frame.pct > 0 THEN kMsgResendAttempts - 1 + out.attempts
  ELSE out.attempts - 1

OrphanTries(c) ==
  IF Carries(c) /\ out.frame.pct > 0 THEN out.attempts - 1 ELSE kMsgResendAttempts - 1

(* A channel activated since the last transmission about it is its own clock. *)
HeardSoon(c) ==
  /\ unheard[c] \in Nat
  /\ unheard[c] > 0 =>
       /\ chan[c].active = TRUE /\ held[c].pct = 0
       /\ unheard[c] <= Times(Tries(c), Horizon - 1) + chan[c].age
       /\ chan[c].everSent = FALSE => unheard[c] <= chan[c].age

OrphanSoon(c) ==
  /\ orphaned[c] \in Nat
  /\ orphaned[c] > 0 =>
       /\ chan[c].active = FALSE /\ held[c].pct > 0
       /\ orphaned[c] <= Times(OrphanTries(c), WindowLen - 1) + held[c].age

Clocked == \A c \in Chans : HeardSoon(c) /\ OrphanSoon(c)

LEMMA ClockValues ==
  ASSUME TypeOK, Timely, NEW c \in Chans
  PROVE  /\ chan[c] \in Channel /\ chan[c].age \in Nat
         /\ held[c].pct \in Nat /\ held[c].age \in Nat /\ held[c].age <= WindowLen - 1
         /\ out.frame.pct \in Nat /\ out.attempts \in Nat
         /\ out.attempts <= kMsgResendAttempts
         /\ Tries(c) \in Nat /\ OrphanTries(c) \in Nat
         /\ OrphanTries(c) <= kMsgResendAttempts - 1
         /\ Horizon - 1 \in Nat /\ WindowLen - 1 \in Nat /\ kMsgResendAttempts - 1 \in Nat
<1>1. /\ chan[c] \in Channel /\ chan[c].age \in Nat
      /\ held[c].pct \in Nat /\ held[c].age \in Nat /\ held[c].age <= WindowLen - 1
      /\ out.frame.pct \in Nat /\ out.attempts \in Nat /\ out.attempts <= kMsgResendAttempts
  <2>1. chan[c] \in Channel /\ held[c] \in Held /\ out \in Exchange /\ out.frame \in Frame
    BY DEF TypeOK, StackTypeOK, Held, Exchange
  <2>2. chan[c].age \in Nat
    BY <2>1, Constants DEF Channel, Ages
  <2>3. held[c].pct \in Nat /\ held[c].age \in Nat /\ held[c].age <= WindowLen - 1
    BY <2>1, Constants DEF Held
  <2>4. out.frame.pct \in Nat /\ out.attempts \in Nat /\ out.attempts <= kMsgResendAttempts
    BY <2>1, Constants DEF Exchange, Frame
  <2>. QED BY <2>1, <2>2, <2>3, <2>4
<1>2. Horizon - 1 \in Nat /\ WindowLen - 1 \in Nat /\ kMsgResendAttempts - 1 \in Nat
  BY Constants
<1>3. Carries(c) => out.attempts - 1 \in Nat
  BY <1>1 DEF Timely, Trying
<1>. QED BY <1>1, <1>2, <1>3, Constants DEF Tries, OrphanTries

LEMMA HeardEvent ==
  ASSUME TypeOK, Level, Timely, NEW c \in Chans, HeardSoon(c),
         Cleared(c) \/ Untouched(c) \/ Asked(c) \/ Transmitted(c),
         unheard'[c] = IF Unheard(c)' THEN unheard[c] + 0 ELSE 0
  PROVE  HeardSoon(c)'
<1>. DEFINE S == Horizon - 1
            T == Tries(c)
            L == kMsgResendAttempts - 1
<1>0. /\ chan[c] \in Channel /\ chan[c].age \in Nat /\ out.frame.pct \in Nat
      /\ out.attempts \in Nat /\ out.attempts <= kMsgResendAttempts
      /\ T \in Nat /\ S \in Nat /\ L \in Nat
  BY ClockValues
<1>1. unheard'[c] \in Nat
  BY DEF HeardSoon
<1>. SUFFICES ASSUME unheard'[c] > 0
              PROVE  /\ chan'[c].active = TRUE /\ held'[c].pct = 0
                     /\ unheard'[c] <= Times(Tries(c)', S) + chan'[c].age
                     /\ chan'[c].everSent = FALSE => unheard'[c] <= chan'[c].age
  BY <1>1 DEF HeardSoon
<1>2. Unheard(c)' /\ unheard'[c] = unheard[c] /\ unheard[c] > 0
  BY DEF HeardSoon
<1>3. /\ chan[c].active = TRUE /\ held[c].pct = 0
      /\ unheard[c] \in Nat /\ unheard[c] <= Times(T, S) + chan[c].age
      /\ chan[c].everSent = FALSE => unheard[c] <= chan[c].age
  BY <1>2 DEF HeardSoon
<1>4. chan'[c].active /\ held'[c].pct = 0
  BY <1>2 DEF Unheard
<1>5. ~Cleared(c)
  BY <1>4 DEF Cleared
<1>6. CASE Untouched(c)
  <2>1. /\ chan'[c].active = TRUE /\ chan'[c].everSent = chan[c].everSent
        /\ chan'[c].age = chan[c].age
    BY <1>3, <1>6 DEF Untouched, SameChannel
  <2>2. unheard[c] <= Times(Tries(c)', S) + chan[c].age
    <3>1. CASE Tries(c)' = T
      BY <1>3, <3>1
    <3>2. CASE Tries(c)' # T
      <4>1. Carries(c) /\ ~Carries(c)' /\ Proves(reply)
        BY <1>6, <3>2 DEF Untouched, Tries
      <4>2. Tries(c)' = L
        BY <4>1 DEF Tries
      <4>3. Times(L, S) \in Nat /\ Times(T, S) \in Nat
        BY <1>0, TimesMore
      <4>4. CASE out.frame.pct > 0
        <5>1. chan[c].everSent = FALSE
          BY <1>0, <1>3, <4>1, <4>4 DEF Timely, Taken, Channel
        <5>. QED BY <1>0, <1>3, <4>2, <4>3, <5>1
      <4>5. CASE ~(out.frame.pct > 0)
        <5>1. T = out.attempts - 1
          BY <4>1, <4>5 DEF Tries
        <5>2. T <= L
          BY <1>0, <5>1, Constants
        <5>3. Times(T, S) <= Times(L, S)
          BY <1>0, <5>2, TimesMore
        <5>. QED BY <1>0, <1>3, <4>2, <4>3, <5>3
      <4>. QED BY <4>4, <4>5
    <3>. QED BY <3>1, <3>2
  <2>. QED BY <1>2, <1>3, <1>4, <2>1, <2>2
<1>7. CASE Asked(c)
  <2>1. /\ chan'[c].active = TRUE /\ chan'[c].everSent = chan[c].everSent
        /\ chan'[c].age = chan[c].age
    BY <1>3, <1>4, <1>7 DEF Asked
  <2>2. Tries(c)' = T
    BY <1>7 DEF Asked, Tries, Carries
  <2>. QED BY <1>2, <1>3, <1>4, <2>1, <2>2
<1>8. CASE Transmitted(c)
  <2>1. /\ chan'[c].active = TRUE /\ chan'[c].everSent = TRUE /\ chan'[c].age = 0
    BY <1>3, <1>8 DEF Transmitted
  <2>2. chan[c].pct > 0
    BY <1>3 DEF Level
  <2>3. Tries(c)' = T + 1
    BY <1>0, <1>8, <2>2, Constants DEF Transmitted, Tries
  <2>4. chan[c].age <= S
    BY <1>0, <1>3, Constants DEF Timely, Young
  <2>5. Times(T + 1, S) = Times(T, S) + S /\ Times(T, S) \in Nat
    BY <1>0, TimesMore
  <2>6. unheard[c] <= Times(T + 1, S)
    BY <1>0, <1>3, <2>4, <2>5
  <2>7. Times(T + 1, S) \in Nat
    BY <1>0, <2>5
  <2>. QED BY <1>2, <1>4, <2>1, <2>3, <2>6, <2>7
<1>. QED BY <1>5, <1>6, <1>7, <1>8

LEMMA OrphanEvent ==
  ASSUME TypeOK, Level, Timely, NEW c \in Chans, OrphanSoon(c),
         Cleared(c) \/ Untouched(c) \/ Asked(c) \/ Transmitted(c),
         orphaned'[c] = IF Orphaned(c)' THEN orphaned[c] + 0 ELSE 0
  PROVE  OrphanSoon(c)'
<1>. DEFINE S == WindowLen - 1
            T == OrphanTries(c)
            L == kMsgResendAttempts - 1
<1>0. /\ chan[c] \in Channel /\ held[c].age \in Nat /\ out.frame.pct \in Nat
      /\ out.attempts \in Nat /\ T \in Nat /\ S \in Nat /\ L \in Nat /\ T <= L
      /\ held[c].age <= S /\ (Carries(c) => out.attempts >= 1)
  BY ClockValues DEF Timely, Trying
<1>1. orphaned'[c] \in Nat
  BY DEF OrphanSoon
<1>. SUFFICES ASSUME orphaned'[c] > 0
              PROVE  /\ chan'[c].active = FALSE /\ held'[c].pct > 0
                     /\ orphaned'[c] <= Times(OrphanTries(c)', S) + held'[c].age
  BY <1>1 DEF OrphanSoon
<1>2. Orphaned(c)' /\ orphaned'[c] = orphaned[c] /\ orphaned[c] > 0
  BY DEF OrphanSoon
<1>3. /\ chan[c].active = FALSE /\ held[c].pct > 0
      /\ orphaned[c] \in Nat /\ orphaned[c] <= Times(T, S) + held[c].age
  BY <1>2 DEF OrphanSoon
<1>4. ~chan'[c].active /\ held'[c].pct > 0
  BY <1>2 DEF Orphaned
<1>5. /\ Times(T, S) \in Nat /\ Times(L, S) \in Nat /\ Times(T, S) <= Times(L, S)
      /\ Times(T + 1, S) = Times(T, S) + S
  BY <1>0, TimesMore
<1>6. CASE Cleared(c)
  <2>1. chan'[c].active = FALSE /\ held'[c].age = held[c].age /\ OrphanTries(c)' = L
    BY <1>6 DEF Cleared, OrphanTries
  <2>. QED BY <1>0, <1>2, <1>3, <1>4, <1>5, <2>1
<1>7. CASE Untouched(c)
  <2>1. chan'[c].active = FALSE /\ held'[c].age = held[c].age
    BY <1>3, <1>7 DEF Untouched, SameChannel
  <2>2. OrphanTries(c)' = T \/ OrphanTries(c)' = L
    BY <1>7 DEF Untouched, OrphanTries
  <2>. QED BY <1>0, <1>2, <1>3, <1>4, <1>5, <2>1, <2>2
<1>8. CASE Asked(c)
  <2>1. held'[c].age = held[c].age /\ chan'[c].active = FALSE
    BY <1>4, <1>8 DEF Asked
  <2>2. OrphanTries(c)' = T
    BY <1>8 DEF Asked, OrphanTries, Carries
  <2>. QED BY <1>2, <1>3, <1>4, <2>1, <2>2
<1>9. CASE Transmitted(c)
  <2>1. chan'[c].active = FALSE /\ Carries(c)'
    BY <1>3, <1>9 DEF Transmitted
  <2>2. \/ held'[c].pct = held[c].pct /\ held'[c].age = held[c].age
        \/ out'.frame.pct > 0 /\ held'[c].age = 0
    BY <1>4, <1>9 DEF Transmitted
  <2>3. CASE ~Carries(c)
    <3>1. ~(out'.frame.pct > 0)
      BY <1>3, <1>9, <2>3 DEF Transmitted, Level
    <3>2. OrphanTries(c)' = L /\ T = L
      BY <2>3, <3>1 DEF OrphanTries
    <3>. QED BY <1>2, <1>3, <1>4, <2>1, <2>2, <3>1, <3>2
  <2>4. CASE Carries(c) /\ ~(out.frame.pct > 0)
    <3>1. out'.frame = out.frame
      BY <1>9, <2>4 DEF Transmitted
    <3>2. OrphanTries(c)' = L /\ T = L
      BY <2>4, <3>1 DEF OrphanTries
    <3>. QED BY <1>2, <1>3, <1>4, <2>1, <2>2, <2>4, <3>1, <3>2
  <2>5. CASE Carries(c) /\ out.frame.pct > 0
    <3>1. out'.frame = out.frame /\ out'.attempts = out.attempts + 1
      BY <1>9, <2>5 DEF Transmitted
    <3>2. OrphanTries(c)' = T + 1
      BY <1>0, <2>1, <2>5, <3>1 DEF OrphanTries
    <3>3. CASE held'[c].age = held[c].age
      BY <1>0, <1>2, <1>3, <1>4, <1>5, <2>1, <3>2, <3>3
    <3>4. CASE held'[c].age = 0
      BY <1>0, <1>2, <1>3, <1>4, <1>5, <2>1, <3>2, <3>4
    <3>. QED BY <2>2, <3>3, <3>4
  <2>. QED BY <2>3, <2>4, <2>5
<1>. QED BY <1>6, <1>7, <1>8, <1>9

LEMMA HeardTick ==
  ASSUME TypeOK, Timely, NEW c \in Chans, HeardSoon(c), Silenced(c) \/ Aged(c),
         unheard'[c] = IF Unheard(c)' THEN unheard[c] + 1 ELSE 0
  PROVE  HeardSoon(c)'
<1>. DEFINE S == Horizon - 1
            T == Tries(c)
<1>0. chan[c].age \in Nat /\ T \in Nat /\ S \in Nat /\ unheard[c] \in Nat
  BY ClockValues DEF HeardSoon
<1>1. unheard'[c] \in Nat
  BY <1>0
<1>. SUFFICES ASSUME unheard'[c] > 0
              PROVE  /\ chan'[c].active = TRUE /\ held'[c].pct = 0
                     /\ unheard'[c] <= Times(Tries(c)', S) + chan'[c].age
                     /\ chan'[c].everSent = FALSE => unheard'[c] <= chan'[c].age
  BY <1>1 DEF HeardSoon
<1>2. chan'[c].active /\ held'[c].pct = 0 /\ unheard'[c] = unheard[c] + 1
  BY DEF Unheard
<1>3. Aged(c)
  BY <1>2 DEF Silenced
<1>4. chan'[c].active = TRUE /\ chan[c].active = TRUE
  <2>1. chan[c] \in Channel
    BY ClockValues
  <2>. QED BY <1>2, <1>3, <2>1 DEF Aged, Channel
<1>5. chan'[c].age = chan[c].age + 1 /\ chan'[c].everSent = chan[c].everSent
  BY <1>3, <1>4 DEF Aged
<1>6. Tries(c)' = T
  BY <1>3 DEF Aged, Tries
<1>7. Times(T, S) \in Nat
  BY <1>0, TimesMore
<1>8. /\ unheard[c] <= Times(T, S) + chan[c].age
      /\ chan[c].everSent = FALSE => unheard[c] <= chan[c].age
  <2>1. CASE unheard[c] = 0
    BY <1>0, <1>7, <2>1
  <2>2. CASE unheard[c] > 0
    BY <2>2 DEF HeardSoon
  <2>3. unheard[c] = 0 \/ unheard[c] > 0
    BY <1>0
  <2>. QED BY <2>1, <2>2, <2>3
<1>. QED BY <1>0, <1>2, <1>4, <1>5, <1>6, <1>7, <1>8

LEMMA OrphanTick ==
  ASSUME TypeOK, Timely, NEW c \in Chans, OrphanSoon(c), Silenced(c) \/ Aged(c), Lapsing(c),
         orphaned'[c] = IF Orphaned(c)' THEN orphaned[c] + 1 ELSE 0,
         chan'[c].active \in BOOLEAN
  PROVE  OrphanSoon(c)'
<1>. DEFINE S == WindowLen - 1
            T == OrphanTries(c)
            L == kMsgResendAttempts - 1
<1>0. /\ held[c].age \in Nat /\ T \in Nat /\ S \in Nat /\ L \in Nat /\ T <= L
      /\ orphaned[c] \in Nat
  BY ClockValues DEF OrphanSoon
<1>1. orphaned'[c] \in Nat
  BY <1>0
<1>. SUFFICES ASSUME orphaned'[c] > 0
              PROVE  /\ chan'[c].active = FALSE /\ held'[c].pct > 0
                     /\ orphaned'[c] <= Times(OrphanTries(c)', S) + held'[c].age
  BY <1>1 DEF OrphanSoon
<1>2. ~chan'[c].active /\ held'[c].pct > 0 /\ orphaned'[c] = orphaned[c] + 1
  BY DEF Orphaned
<1>3. held'[c].age = held[c].age + 1
  BY <1>2 DEF Lapsing
<1>4. OrphanTries(c)' = T \/ OrphanTries(c)' = L
  BY DEF Silenced, Aged, OrphanTries
<1>5. /\ Times(T, S) \in Nat /\ Times(L, S) \in Nat /\ Times(T, S) <= Times(L, S)
  BY <1>0, TimesMore
<1>6. orphaned[c] <= Times(T, S) + held[c].age
  <2>1. CASE orphaned[c] = 0
    BY <1>0, <1>5, <2>1
  <2>2. CASE orphaned[c] > 0
    BY <2>2 DEF OrphanSoon
  <2>3. orphaned[c] = 0 \/ orphaned[c] > 0
    BY <1>0
  <2>. QED BY <2>1, <2>2, <2>3
<1>7. orphaned'[c] <= Times(OrphanTries(c)', S) + held'[c].age
  BY <1>0, <1>2, <1>3, <1>4, <1>5, <1>6
<1>. QED BY <1>2, <1>7

LEMMA ClockStep ==
  ASSUME TypeOK, TypeOK', Budget, SilentIsEmpty, Level, Timely, Clocked,
         [ServiceNext]_serviceVars
  PROVE  Clocked'
<1>. SUFFICES ASSUME NEW c \in Chans PROVE HeardSoon(c)' /\ OrphanSoon(c)'
  BY DEF Clocked, Chans
<1>0. HeardSoon(c) /\ OrphanSoon(c)
  BY DEF Clocked
<1>1. CASE Event /\ Advance(0)
  <2>1. /\ unheard'[c] = IF Unheard(c)' THEN unheard[c] + 0 ELSE 0
        /\ orphaned'[c] = IF Orphaned(c)' THEN orphaned[c] + 0 ELSE 0
    BY <1>1 DEF Advance
  <2>2. Cleared(c) \/ Untouched(c) \/ Asked(c) \/ Transmitted(c)
    BY <1>1, EventView
  <2>. QED BY <1>0, <2>1, <2>2, HeardEvent, OrphanEvent
<1>2. CASE Tick /\ Advance(1)
  <2>1. /\ unheard'[c] = IF Unheard(c)' THEN unheard[c] + 1 ELSE 0
        /\ orphaned'[c] = IF Orphaned(c)' THEN orphaned[c] + 1 ELSE 0
    BY <1>2 DEF Advance
  <2>2. (Silenced(c) \/ Aged(c)) /\ Lapsing(c)
    BY <1>2, TickView
  <2>3. chan'[c].active \in BOOLEAN
    BY DEF TypeOK, StackTypeOK, Channel, Chans
  <2>. QED BY <1>0, <2>1, <2>2, <2>3, HeardTick, OrphanTick
<1>3. CASE UNCHANGED serviceVars
  <2>1. UNCHANGED <<chan, out, held, unheard, orphaned>>
    BY <1>3 DEF serviceVars, clocks, vars, stack
  <2>. QED BY <1>0, <2>1 DEF HeardSoon, OrphanSoon, Tries, OrphanTries, Carries
<1>. QED BY <1>1, <1>2, <1>3 DEF ServiceNext

(* The clocks change nothing: what holds of the bus holds of the bus watched. *)
LEMMA Watching == ServiceSpec => Spec
<1>1. ServiceInit => Init
  BY DEF ServiceInit
<1>2. [ServiceNext]_serviceVars => [Next]_vars
  BY DEF ServiceNext, Next, serviceVars
<1>. QED BY <1>1, <1>2, PTL DEF ServiceSpec, Spec

LEMMA TimelyInvariant == Spec => []Timely
<1>1. TypeOK /\ Init => Timely
  <2>1. Init => \A c \in Chans : chan[c].active = FALSE /\ ~Carries(c)
    BY DEF Init, StackInit, NewChannel, NoExchange, NoFrame, Plain, Carries
  <2>. QED BY <2>1 DEF Timely, Trying, Young, Taken
<1>2. TypeOK /\ TypeOK' /\ Budget /\ SilentIsEmpty /\ Timely /\ [Next]_vars => Timely'
  BY TimelyStep
<1>3. Spec => [](TypeOK /\ Budget)
  BY TypeCorrect, PTL
<1>. QED BY <1>1, <1>2, <1>3, SilentHolds, PTL DEF Spec

LEMMA ClockInvariant == ServiceSpec => [](TypeOK /\ Timely /\ Clocked)
<1>1. ServiceInit => Clocked
  BY DEF ServiceInit, Clocked, HeardSoon, OrphanSoon
<1>2. TypeOK /\ TypeOK' /\ Budget /\ SilentIsEmpty /\ Level /\ Timely /\ Clocked
        /\ [ServiceNext]_serviceVars => Clocked'
  BY ClockStep
<1>3. ServiceSpec => [](TypeOK /\ Budget)
  BY Watching, TypeCorrect, PTL
<1>4. ServiceSpec => []SilentIsEmpty /\ []Level /\ []Timely
  BY Watching, SilentHolds, LevelInvariant, TimelyInvariant, PTL
<1>. QED BY <1>1, <1>2, <1>3, <1>4, PTL DEF ServiceSpec

(* A demand that stays active is served, or given up with the link, within a  *)
(* bounded number of ticks, on a bus that may lose, refuse or leave out       *)
(* anything.  (tick(): the time-out, the retry budget, the starvation watch.) *)
THEOREM HeardInTimeHolds == ServiceSpec => []HeardInTime
<1>1. TypeOK /\ Timely /\ Clocked => HeardInTime
  <2>. SUFFICES ASSUME TypeOK, Timely, Clocked, NEW c \in Chans
                PROVE  unheard[c] < (2 * kMsgResendAttempts - 1) * (Horizon - 1) + ResponseTimeout
    BY DEF HeardInTime
  <2>. DEFINE S == Horizon - 1
              T == Tries(c)
              B == 2 * kMsgResendAttempts - 2
  <2>0. /\ chan[c].age \in Nat /\ out.frame.pct \in Nat /\ out.attempts \in Nat
        /\ out.attempts <= kMsgResendAttempts /\ T \in Nat /\ S \in Nat /\ B \in Nat
        /\ ResponseTimeout \in Nat /\ ResponseTimeout > 0 /\ unheard[c] \in Nat
    BY ClockValues, Constants DEF Clocked, HeardSoon
  <2>. HIDE DEF B, T, S
  <2>1. /\ Times(B + 1, S) \in Nat /\ Times(B, S) \in Nat
        /\ Times(B + 1, S) = Times(B, S) + S
    <3>1. B \in Nat /\ S \in Nat
      BY <2>0
    <3>2. Times(B, S) \in Nat /\ Times(B + 1, S) = Times(B, S) + S
      BY <3>1, TimesMore
    <3>. QED BY <3>1, <3>2
  <2>2. unheard[c] < Times(B + 1, S) + ResponseTimeout
    <3>1. CASE unheard[c] = 0
      BY <2>0, <2>1, <3>1
    <3>2. CASE unheard[c] > 0
      <4>1. /\ chan[c].active = TRUE /\ unheard[c] <= Times(T, S) + chan[c].age
            /\ Times(T, S) \in Nat
        BY <2>0, <3>2, TimesMore DEF Clocked, HeardSoon, T, S
      <4>2. chan[c].age <= S
        BY <2>0, <4>1, Constants DEF Timely, Young, S
      <4>3. CASE T <= B
        <5>1. Times(T, S) <= Times(B, S)
          BY <2>0, <4>3, TimesMore
        <5>. QED BY <2>0, <2>1, <4>1, <4>2, <5>1
      <4>4. CASE ~(T <= B)
        <5>1. Carries(c) /\ out.attempts = kMsgResendAttempts /\ T = B + 1
          BY <2>0, <4>4, Constants DEF Tries, T, B
        <5>2. out.age \in Nat
          BY Constants DEF TypeOK, StackTypeOK, Exchange
        <5>3. out.age < ResponseTimeout /\ (chan[c].age <= out.age \/ out.age = ResponseTimeout)
          BY <4>1, <5>1 DEF Timely, Trying, Young
        <5>. QED BY <2>0, <2>1, <4>1, <5>1, <5>2, <5>3
      <4>. QED BY <4>3, <4>4
    <3>. QED BY <2>0, <3>1, <3>2
  <2>3. Times(B + 1, S) = (2 * kMsgResendAttempts - 1) * (Horizon - 1)
    <3>1. B + 1 = 2 * kMsgResendAttempts - 1
      BY Constants DEF B
    <3>. QED BY <3>1 DEF Times, S
  <2>. QED BY <2>2, <2>3
<1>. QED BY <1>1, ClockInvariant, PTL

(* A demand that nobody makes any more ends in time, whatever becomes of its   *)
(* zero: the frames that could still renew it are as many as the retry budget. *)
(* (tick(), handleControlResponse(), and the window of the furnace.)           *)
THEOREM OrphanEndsHolds == ServiceSpec => []OrphanEnds
<1>1. TypeOK /\ Timely /\ Clocked => OrphanEnds
  <2>. SUFFICES ASSUME TypeOK, Timely, Clocked, NEW c \in Chans
                PROVE  orphaned[c] <= kMsgResendAttempts * (WindowLen - 1)
    BY DEF OrphanEnds
  <2>. DEFINE S == WindowLen - 1
              T == OrphanTries(c)
              L == kMsgResendAttempts - 1
  <2>0. /\ held[c].age \in Nat /\ held[c].age <= S /\ T \in Nat /\ S \in Nat /\ L \in Nat
        /\ T <= L /\ orphaned[c] \in Nat
    BY ClockValues DEF Clocked, OrphanSoon
  <2>1. /\ Times(T, S) \in Nat /\ Times(L, S) \in Nat /\ Times(T, S) <= Times(L, S)
        /\ Times(L + 1, S) = Times(L, S) + S
    BY <2>0, TimesMore
  <2>2. orphaned[c] <= Times(L + 1, S)
    <3>1. CASE orphaned[c] = 0
      BY <2>0, <2>1, <3>1
    <3>2. CASE orphaned[c] > 0
      <4>1. orphaned[c] <= Times(T, S) + held[c].age
        BY <3>2 DEF Clocked, OrphanSoon
      <4>. QED BY <2>0, <2>1, <4>1
    <3>. QED BY <2>0, <3>1, <3>2
  <2>3. Times(L + 1, S) = kMsgResendAttempts * (WindowLen - 1)
    <3>1. L + 1 = kMsgResendAttempts
      BY Constants
    <3>. QED BY <3>1 DEF Times
  <2>. QED BY <2>2, <2>3
<1>. QED BY <1>1, ClockInvariant, PTL

===============================================================================
