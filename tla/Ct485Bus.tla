------------------------------- MODULE Ct485Bus -------------------------------
(***************************************************************************)
(* The CT-485 stack against the coordinator and the furnace.  ct485Task      *)
(* feeds it frames and the tick, and puts what it transmits on the wire      *)
(* under one mutex; the control task's cycle resumes it, sets the demands or *)
(* silences it under the same mutex.  Each such critical section is a step.  *)
(*                                                                           *)
(* The furnace is external: it holds the last demand it accepted until a     *)
(* zero or until its refresh window lapses, and answers a frame or does not. *)
(***************************************************************************)
EXTENDS Ct485Thermostat

CONSTANTS
  Replies,       \* how the furnace may answer a demand or a command
  Lossy,         \* frames and answers may be lost
  Hasty,         \* a demand may return before the zero of its end was sent
  UseCommands    \* the library's persistent-state writes, which the glue never calls

ASSUME BusAssumption ==
  /\ Replies \subseteq {"ack", "echo", "odd", "nak1", "nak2"}
  /\ {Lossy, Hasty, UseCommands} \subseteq BOOLEAN

VARIABLES
  held,          \* per channel, the demand the furnace serves
  reply,         \* the furnace's answer on its way
  loaded         \* per channel, whether the last frame sent was a nonzero demand

vars == <<stack, held, reply, loaded>>
world == <<held, reply, loaded>>

Nothing == [pct |-> 0, age |-> 0, current |-> FALSE]
NoReply == [kind |-> "none", code |-> 0]

(* held.current: accepted since the stack last cleared its demands.  A       *)
(* flushed demand is left to lapse on purpose; a current one is not.         *)
Left == [c \in Chans |-> IF held[c].pct = 0 THEN held[c] ELSE [held[c] EXCEPT !.current = FALSE]]

-----------------------------------------------------------------------------
(* The furnace *)

Accepts(f) ==
  held' = IF f.kind # "demand" THEN held
          ELSE [held EXCEPT ![f.ch] = IF f.pct = 0 THEN Nothing
                  ELSE [pct |-> f.pct, age |-> 0, current |-> TRUE]]

Acknowledges(f) ==
  \/ "ack"  \in Replies /\ reply' = [kind |-> "ack", code |-> 0]
  \/ "echo" \in Replies /\ reply' = [kind |-> "echo", code |-> CodeOf(f)]
  \/ "odd"  \in Replies /\ reply' = [kind |-> "echo", code |-> OddCode]

Refuses ==
  /\ UNCHANGED held
  /\ \E k \in {"nak1", "nak2"} \cap Replies : reply' = [kind |-> k, code |-> 0]

(* A Get may go unanswered: equipment need not implement it. *)
Serves(f) ==
  IF f.kind = "probe"
  THEN /\ reply' \in {NoReply, [kind |-> "answer", code |-> 0]}
       /\ UNCHANGED held
  ELSE \/ Accepts(f) /\ Acknowledges(f)
       \/ Refuses

Misses(f) ==
  \/ UNCHANGED held /\ reply' = NoReply
  \/ f.kind # "probe" /\ Accepts(f) /\ reply' = NoReply

OnWire(f) ==
  IF f.kind = "none" THEN UNCHANGED world
  ELSE /\ Serves(f) \/ (Lossy /\ Misses(f))
       /\ loaded' = IF f.kind # "demand" THEN loaded
                    ELSE [loaded EXCEPT ![f.ch] = f.pct > 0]

Lapses == [c \in Chans |-> IF held[c].pct = 0 \/ held[c].age + 1 >= WindowLen THEN Nothing
                           ELSE [held[c] EXCEPT !.age = @ + 1]]

-----------------------------------------------------------------------------
Init ==
  /\ StackInit
  /\ held = [c \in Chans |-> Nothing]
  /\ reply = NoReply
  /\ loaded = [c \in Chans |-> FALSE]

(* The control task *)
Resume == resume /\ UNCHANGED world

(* The shapers' minimum off times keep a heat or cool demand from returning  *)
(* within the few seconds to the next grant (~Hasty); the fan has none.      *)
Apply(d) ==
  /\ Hasty \/ \A c \in Chans : chan[c].zeroPending => d[c] = 0
  /\ setDemands(d)
  /\ UNCHANGED world

Drop ==                                \* a safety drop, or listen-only engaged
  /\ goSilent
  /\ held' = Left
  /\ UNCHANGED <<alarms, reply, loaded>>

QueueProbe == queueProbe /\ UNCHANGED world

Command == UseCommands /\ setSystemSwitch /\ UNCHANGED world

Ack == clearAlarms /\ UNCHANGED world

(* ct485Task *)
Frames == {NoFrame, Plain("command"), Plain("probe")}
            \cup [kind : {"demand"}, ch : Chans, pct : 0 .. MaxPct]

Poll(f) == Grant(f) /\ OnWire(f)

Answer ==
  /\ reply # NoReply
  /\ onReply(reply)
  /\ reply' = NoReply
  /\ held' = IF silent' \/ (reply.kind = "nak2" /\ Awaiting) THEN Left ELSE held
  /\ UNCHANGED loaded

Discovery == handleDiscovery /\ held' = (IF Addressed THEN Left ELSE held)
                             /\ UNCHANGED <<reply, loaded>>

SetAddress == handleSetAddress /\ UNCHANGED world

(* Without loss the answer is back within the tick. *)
Tick ==
  /\ Lossy \/ reply = NoReply
  /\ tick
  /\ held' = IF silent' THEN [c \in Chans |-> [Lapses[c] EXCEPT !.current = FALSE]] ELSE Lapses
  /\ UNCHANGED <<reply, loaded>>

(* All that happens between two ticks. *)
Event ==
  \/ Resume \/ Drop \/ QueueProbe \/ Command \/ Ack
  \/ \E d \in [Chans -> 0 .. MaxPct] : Apply(d)
  \/ \E f \in Frames : Poll(f)
  \/ Answer \/ Discovery \/ SetAddress

Next == Event \/ Tick

Spec == Init /\ [][Next]_vars

-----------------------------------------------------------------------------
(* TypeOK: every variable holds a value of its type; in particular an        *)
(* exchange is transmitted at most kMsgResendAttempts times.                 *)
TypeOK ==
  /\ StackTypeOK
  /\ held \in [Chans -> [pct : 0 .. MaxPct, age : 0 .. WindowLen - 1, current : BOOLEAN]]
  /\ reply \in Reply
  /\ loaded \in [Chans -> BOOLEAN]

(* SilentIsEmpty: a silent stack has nothing to say later: no exchange, no   *)
(* queued frame, no demand, no join slot survives into the next resume().    *)
SilentIsEmpty ==
  silent => /\ ~Awaiting /\ fifo = <<>> /\ ~probeQueued /\ ~granted
            /\ \A c \in Chans : chan[c] = NewChannel
            /\ join \in {"unaddressed", "addressed"}

(* ProbeSlot: the one-at-a-time probe slot is taken exactly while a probe is *)
(* queued or awaits its answer, over every path that ends or flushes one.    *)
ProbeSlot ==
  probeQueued <=> (out.frame.kind = "probe" \/ \E i \in DOMAIN fifo : fifo[i] = "probe")

(* AckMeansHeld: once nothing more of an active channel is owed to the bus,  *)
(* the furnace serves exactly the level the controller asks for, and its     *)
(* refresh window has not lapsed.                                            *)
AckMeansHeld ==
  \A c \in Chans :
    chan[c].active /\ chan[c].everSent /\ ~chan[c].sendNeeded /\ ~Carries(c)
      => held[c].pct = chan[c].pct

(* NoOrphan: a demand the furnace took in this session is wanted, or its     *)
(* explicit zero is pending, or the exchange about it is still open.         *)
NoOrphan ==
  \A c \in Chans :
    held[c].current => chan[c].active \/ chan[c].zeroPending \/ Carries(c)

(* CancelOnce: an explicit zero is sent only over a nonzero demand, so a     *)
(* cancel is not repeated on every grant (#185).                             *)
CancelOnce ==
  [][\A c \in Chans : out'.frame # out.frame /\ out'.frame = [kind |-> "demand", ch |-> c, pct |-> 0]
                        => loaded[c]]_vars

(* UnjoinedQuiet: a node without an address awaits nothing and remembers no   *)
(* demand as sent, so nothing of an older session is retransmitted into a    *)
(* network being rebuilt.                                                    *)
UnjoinedQuiet ==
  ~Addressed => ~Awaiting /\ \A c \in Chans : ~chan[c].everSent

(* Quiet: both, so that neither a resume() nor a rejoin finds anything of the *)
(* session before it.                                                         *)
Quiet == SilentIsEmpty /\ UnjoinedQuiet
=============================================================================
