------------------------------ MODULE RemoteLink ------------------------------
(***************************************************************************)
(* A SlyTherm Remote and the Controller over an MQTT broker: a tap is shown  *)
(* at once and queued (UiModel), sent and repeated by pumpIntents() until    *)
(* any echo arrives, taken once by onMqttMessage()'s dedupe table, applied   *)
(* by the next control cycle, and comes back as the retained echo.  Both     *)
(* ends lose their connection or reset at any time; QoS 0 loses whatever is  *)
(* then under way.  The broker may deliver in any order: the two brokers of  *)
(* the ladder are bridged.                                                   *)
(***************************************************************************)
EXTENDS Naturals, Sequences

CONSTANTS
  Kinds, Values,     \* what can be set (setpoints, mode, ...), and to what
  IntentQueueCap,    \* kIntentQueueCap (8)
  EchoSuppress,      \* kEchoSuppressMs, in seconds (2)
  IntentRetry,       \* kIntentRetryMs, in seconds (3)
  IntentMaxRetries,  \* kIntentMaxRetries (4)
  Heartbeat,         \* kStateHeartbeatS (60)
  MaxId,             \* bound: the intents ever numbered
  MaxEchoes,         \* bound: the echoes on their way to the Remote
  None               \* nothing: no intent, no value, an empty cache

ASSUME RemoteConfig ==
  /\ {IntentQueueCap, EchoSuppress, IntentRetry, Heartbeat, MaxId, MaxEchoes} \subseteq Nat \ {0}
  /\ IntentMaxRetries \in Nat /\ EchoSuppress <= IntentRetry
  /\ None \notin Values \cup [Kinds -> Values] \cup [kind : Kinds, value : Values]
                \cup [id : Nat, kind : Kinds, value : Values]

States  == [Kinds -> Values]
Intents == [kind : Kinds, value : Values]
Sent    == [id : Nat \ {0}, kind : Kinds, value : Values]

VARIABLES
  shown, queue,          \* the Remote's UiModel: setpoints and mode, queue_
  id, nvs,               \* gIntentId and its copy in flash, "iid"
  outstanding, retries,  \* gOutstandingJson, gOutstandingRetries
  age, echoHeard,        \* seconds since gLastIntentMs, gEchoSinceIntent
  linked,                \* the Remote's connection to the broker
  uplink, downlink,      \* intents and echoes under way
  retained,              \* the echo the broker keeps
  joined,                \* the Controller's connection to the broker
  lastId, mailbox,       \* its gRemoteDedupe entry, gPending
  applied,               \* what the control task has decided, also in flash
  echoed, beat,          \* gRemoteEchoCache, seconds since lastHeartbeatMs
  word                   \* history: the last decision nobody contended

panel   == <<shown, queue>>
sender  == <<id, nvs, outstanding, retries, age>>
remote  == <<panel, sender, echoHeard, linked>>
wire    == <<uplink, downlink, retained>>
control == <<joined, lastId, mailbox, applied, echoed, beat>>
linkVars == <<remote, wire, control, word>>

Empty == [k \in Kinds |-> None]
Never == IntentRetry + 1        \* gLastIntentMs is 0

LinkTypeOK ==
  /\ {shown, retained, applied} \subseteq States
  /\ queue \in Seq(Intents) /\ Len(queue) <= IntentQueueCap
  /\ id \in Nat /\ nvs \in Nat
  /\ outstanding \in Sent \cup {None} /\ retries \in 0..IntentMaxRetries
  /\ age \in 0..Never /\ {echoHeard, linked, joined} \subseteq BOOLEAN
  /\ uplink \subseteq Sent /\ downlink \in Seq(States)
  /\ lastId \in Nat /\ mailbox \in [Kinds -> Values \cup {None}]
  /\ echoed \in States \cup {None} /\ beat \in 0..Heartbeat
  /\ word \in Intents \cup {None}

LinkInit ==
  /\ shown \in States /\ queue = <<>>
  /\ id = 0 /\ nvs = 0 /\ outstanding = None /\ retries = 0
  /\ age = Never /\ echoHeard = FALSE /\ linked = FALSE
  /\ joined = FALSE /\ lastId = 0 /\ mailbox = Empty
  /\ applied \in States /\ echoed = None /\ beat = 0
  /\ uplink = {} /\ downlink = <<>> /\ retained = applied
  /\ word = None

-----------------------------------------------------------------------------
(* The Remote's UI task. *)
enqueueOrDrop(q, i) == IF Len(q) < IntentQueueCap THEN Append(q, i) ELSE q  \* mutant
enqueue(q, i) == IF Len(q) < IntentQueueCap THEN Append(q, i) ELSE Append(Tail(q), i)

Tap(k, v) ==
  /\ id + Len(queue) < MaxId
  /\ shown' = [shown EXCEPT ![k] = v]
  /\ word' = [kind |-> k, value |-> v]
  /\ queue' = enqueue(queue, word')
  /\ UNCHANGED <<sender, echoHeard, linked, wire, control>>

(* Its link task: pumpIntents() and onMessage(). *)
publish(m) == uplink' = IF joined THEN uplink \cup {m} ELSE uplink

Numbered(n) == outstanding' = [id |-> n, kind |-> Head(queue).kind, value |-> Head(queue).value]

NextUnsaved ==                          \* mutant: the new id is not saved
  /\ outstanding = None /\ queue # <<>>
  /\ id' = id + 1 /\ UNCHANGED nvs /\ Numbered(id')
  /\ queue' = Tail(queue) /\ retries' = 0 /\ age' = 0 /\ echoHeard' = FALSE
  /\ publish(outstanding')
  /\ UNCHANGED shown

NextIntent ==
  /\ outstanding = None /\ queue # <<>>
  /\ id' = id + 1 /\ nvs' = id' /\ Numbered(id')
  /\ queue' = Tail(queue) /\ retries' = 0 /\ age' = 0 /\ echoHeard' = FALSE
  /\ publish(outstanding')
  /\ UNCHANGED shown

Confirmed ==
  /\ outstanding # None /\ echoHeard
  /\ outstanding' = None
  /\ UNCHANGED <<panel, id, nvs, retries, age, echoHeard, uplink>>

Due == outstanding # None /\ ~echoHeard /\ age >= IntentRetry

Retry ==
  /\ Due /\ retries < IntentMaxRetries
  /\ retries' = retries + 1 /\ age' = 0
  /\ publish(outstanding)
  /\ UNCHANGED <<panel, id, nvs, outstanding, echoHeard>>

GiveUp ==
  /\ Due /\ retries = IntentMaxRetries
  /\ outstanding' = None
  /\ UNCHANGED <<panel, id, nvs, retries, age, echoHeard, uplink>>

Pump ==
  /\ linked
  /\ NextIntent \/ Confirmed \/ Retry \/ GiveUp
  /\ UNCHANGED <<linked, downlink, retained, control, word>>

Suppressed == age < EchoSuppress

Hear ==
  /\ linked /\ downlink # <<>>
  /\ echoHeard' = TRUE
  /\ shown' = IF Suppressed THEN shown ELSE Head(downlink)
  /\ downlink' = Tail(downlink)
  /\ UNCHANGED <<queue, sender, linked, uplink, retained, control, word>>

(* Its connection and its resets. *)
Link ==
  /\ ~linked /\ linked' = TRUE
  /\ downlink' = <<retained>>
  /\ UNCHANGED <<panel, sender, echoHeard, uplink, retained, control, word>>

Unlinked ==
  /\ linked' = FALSE /\ downlink' = <<>>
  /\ uplink' \in SUBSET uplink
  /\ UNCHANGED <<retained, control>>

Unlink == linked /\ Unlinked /\ UNCHANGED <<panel, sender, echoHeard, word>>

RemoteReset ==
  /\ Unlinked
  /\ shown' \in States /\ queue' = <<>>
  /\ id' = nvs /\ outstanding' = None /\ retries' = 0 /\ age' = Never /\ echoHeard' = FALSE
  /\ word' = None
  /\ UNCHANGED nvs

-----------------------------------------------------------------------------
(* The Controller's MQTT task: the dedupe table and the mailbox. *)
IsDuplicate(m) == lastId # 0 /\ m.id <= lastId

Ingest(m) ==
  /\ joined
  /\ uplink' = uplink \ {m}
  /\ IF IsDuplicate(m) THEN UNCHANGED <<lastId, mailbox>>
     ELSE lastId' = m.id /\ mailbox' = [mailbox EXCEPT ![m.kind] = m.value]
  /\ UNCHANGED <<remote, downlink, retained, joined, applied, echoed, beat, word>>

(* The control cycle empties the mailbox, then the queue of its own panel. *)
Mailed == [k \in Kinds |-> IF mailbox[k] = None THEN applied[k] ELSE mailbox[k]]

Cycle ==
  /\ mailbox # Empty /\ mailbox' = Empty
  /\ applied' = Mailed
  /\ UNCHANGED <<remote, wire, joined, lastId, echoed, beat, word>>

CaughtUp == queue = <<>> /\ lastId = id

WallPanel(k, v) ==
  /\ mailbox' = Empty
  /\ applied' = [Mailed EXCEPT ![k] = v]
  /\ word' = IF CaughtUp THEN [kind |-> k, value |-> v] ELSE None
  /\ UNCHANGED <<remote, wire, joined, lastId, echoed, beat>>

(* publishRemoteEcho(): on a change of any of its fields, and by heartbeat. *)
EchoOnChange == echoed # applied                                    \* mutant
EchoDue == echoed # applied \/ beat = Heartbeat

PublishEcho ==
  /\ joined /\ EchoDue
  /\ echoed' = applied /\ retained' = applied
  /\ beat' = IF beat = Heartbeat THEN 0 ELSE beat
  /\ IF linked THEN Len(downlink) < MaxEchoes /\ downlink' = Append(downlink, applied)
     ELSE UNCHANGED downlink
  /\ UNCHANGED <<remote, uplink, joined, lastId, mailbox, applied, word>>

Measure ==
  /\ echoed # None /\ echoed' = None
  /\ UNCHANGED <<remote, wire, joined, lastId, mailbox, applied, beat, word>>

(* Its connection and its resets. *)
Join ==
  /\ ~joined /\ joined' = TRUE
  /\ echoed' = None
  /\ UNCHANGED <<remote, wire, lastId, mailbox, applied, beat, word>>

Left == joined' = FALSE /\ uplink' = {} /\ UNCHANGED <<remote, downlink, retained, applied>>

Leave == joined /\ Left /\ UNCHANGED <<lastId, mailbox, echoed, beat, word>>

ControllerReset ==
  /\ Left
  /\ lastId' = 0 /\ mailbox' = Empty /\ echoed' = None /\ beat' = 0
  /\ word' = None

(* A second passes for both. *)
Tick ==
  /\ age' = IF age < IntentRetry THEN age + 1 ELSE age
  /\ beat' = IF beat < Heartbeat THEN beat + 1 ELSE beat
  /\ UNCHANGED <<panel, id, nvs, outstanding, retries, echoHeard, linked, wire,
                 joined, lastId, mailbox, applied, echoed, word>>

-----------------------------------------------------------------------------
Decision(D(_, _)) == \E k \in Kinds, v \in Values : D(k, v)

LinkNext ==
  \/ Decision(Tap) \/ Pump \/ Hear \/ Link \/ Unlink \/ RemoteReset
  \/ (\E m \in uplink : Ingest(m)) \/ Cycle \/ Decision(WallPanel)
  \/ PublishEcho \/ Measure \/ Join \/ Leave \/ ControllerReset \/ Tick

LinkSpec == LinkInit /\ [][LinkNext]_linkVars

(* The tasks of both ends keep running, and the broker delivers. *)
LinkFairSpec ==
  /\ LinkSpec
  /\ WF_linkVars(Pump) /\ WF_linkVars(Hear) /\ WF_linkVars(Tick)
  /\ WF_linkVars(\E m \in uplink : Ingest(m)) /\ WF_linkVars(Cycle) /\ WF_linkVars(PublishEcho)

-----------------------------------------------------------------------------
(* The Controller never remembers a Remote's id that the Remote could use     *)
(* again: over resets of both, a fresh intent is never taken for a repeat.    *)
(* (The id saved by pumpIntents(), remoteIntentIsDuplicate().)                *)
NeverMuted ==
  /\ lastId <= nvs
  /\ \A m \in uplink : m.id <= nvs

(* Once the Controller has taken the Remote's newest intent, it holds what    *)
(* was tapped last; and a decision made on its own panel after that is not    *)
(* undone by a repeat still under way.  (The queue that drops its oldest, one *)
(* intent in flight, the dedupe table and the mailbox together.)              *)
LastWordWins ==
  word # None /\ CaughtUp /\ mailbox[word.kind] = None => applied[word.kind] = word.value

(* While both ends stay connected and nobody touches the Controller's panel,  *)
(* every tap leaves the queue, and the Remote ends up showing what the        *)
(* Controller holds, whatever was lost, suppressed or shown too early before. *)
(* (pumpIntents(), onMessage(), the heartbeat of publishRemoteEcho().)        *)
Settles ==
  <>[](linked /\ joined) /\ <>[][~Decision(WallPanel)]_linkVars =>
    <>[](queue = <<>> /\ outstanding = None /\ shown = applied)
===============================================================================
