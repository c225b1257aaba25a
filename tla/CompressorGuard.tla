--------------------------- MODULE CompressorGuard ---------------------------
(***************************************************************************)
(* lib/CompressorGuard: the anti-short-cycle rules of the one compressor,   *)
(* as operators on a guard record.  A request returns the decision and the  *)
(* new record, exactly as the C++ method commits its own state; the modules *)
(* that own a guard (GuardLifecycle, ControlCycle) hold the record in a  *)
(* variable.  Time is the caller's nowS: whole seconds, scaled in the runs. *)
(***************************************************************************)
EXTENDS Clock, Sequences, FiniteSets

CONSTANTS
  MinOffS,           \* kCompressorMinOffS (180)
  MinOnS,            \* kCompressorMinOnS (300)
  MaxStartsPerHour,  \* kCompressorMaxStartsPerH (3)
  HourS,             \* the 3600 s window of startsInWindow
  BootHoldoffS,      \* kBootCompressorHoldoffS (300)
  ResetLoopCount,    \* kResetLoopLockoutCount (3)
  ResetLoopWindowS,  \* kResetLoopWindowS (1800)
  MaxStartHistory,   \* kMaxStartHistory (16)
  MaxBootHistory     \* kMaxBootHistory (8)

(* The defaults of DettsonConfig.h satisfy this; the last two conjuncts are *)
(* the header's "unknown state = assume the worst" and ">= any sane         *)
(* maxStartsPerHour".                                                        *)
ASSUME GuardConfig ==
  /\ {MinOffS, MinOnS, HourS, BootHoldoffS, ResetLoopWindowS} \subseteq Nat
  /\ {MaxStartsPerHour, ResetLoopCount, MaxStartHistory, MaxBootHistory}
       \subseteq Nat \ {0}
  /\ BootHoldoffS >= MinOffS
  /\ MaxStartHistory >= MaxStartsPerHour

(* A bounded history: the newest n entries, the oldest dropped first. *)
Push(history, t, n) ==
  Append(IF Len(history) < n THEN history ELSE Tail(history), t)

(* How many entries of a history are younger than span. *)
Recent(history, now, span) ==
  Cardinality({i \in DOMAIN history : elapsedS(now, history[i]) < span})

History(n) == {s \in Seq(Nat) : Len(s) <= n}

Guard == [booted : BOOLEAN, running : BOOLEAN, lockedOut : BOOLEAN,
          lastStart : Time, lastStop : Time, holdoffEnd : Nat,
          startTimes : History(MaxStartHistory),
          bootTimes : History(MaxBootHistory)]

(* Member initialisers: what the object holds before bootRestore(). *)
NewGuard == [booted |-> FALSE, running |-> FALSE, lockedOut |-> FALSE,
             lastStart |-> NoTime, lastStop |-> NoTime, holdoffEnd |-> 0,
             startTimes |-> <<>>, bootTimes |-> <<>>]

-----------------------------------------------------------------------------
(* Persistence.  NoBlob stands for a missing blob and for one that fails    *)
(* the magic/version/CRC/size validation of restoreFromBlob().              *)
Blob == [running : BOOLEAN, lockedOut : BOOLEAN, lastStart : Time,
         lastStop : Time, startTimes : History(MaxStartHistory),
         bootTimes : History(MaxBootHistory)]

NoBlob == [invalid |-> TRUE]

save(g) == [running |-> g.running, lockedOut |-> g.lockedOut,
            lastStart |-> g.lastStart, lastStop |-> g.lastStop,
            startTimes |-> g.startTimes, bootTimes |-> g.bootTimes]

(* A blob written while running has no stop time: it stopped "just now". *)
restoreKeepsStop(b, now, jitter) ==      \* mutant: trusts the stale stop time
  [booted |-> TRUE, running |-> FALSE, lockedOut |-> b.lockedOut,
   lastStart |-> b.lastStart, lastStop |-> b.lastStop,
   holdoffEnd |-> now + jitter,
   startTimes |-> b.startTimes, bootTimes |-> b.bootTimes]

restoreFromBlob(b, now, jitter) ==
  [booted |-> TRUE, running |-> FALSE, lockedOut |-> b.lockedOut,
   lastStart |-> b.lastStart,
   lastStop |-> IF b.running THEN now ELSE b.lastStop,
   holdoffEnd |-> now + jitter,
   startTimes |-> b.startTimes, bootTimes |-> b.bootTimes]

unknownState(now, jitter) ==
  [NewGuard EXCEPT !.booted = TRUE,
                   !.holdoffEnd = now + BootHoldoffS + jitter]

recordBoot(g, now) ==
  LET boots == Push(g.bootTimes, now, MaxBootHistory)   \* age <= the window
  IN [g EXCEPT !.bootTimes = boots,
               !.lockedOut = \/ @
                             \/ Recent(boots, now, ResetLoopWindowS + 1)
                                  >= ResetLoopCount]

bootRestore(b, now, abnormalReset, jitter) ==
  LET g == IF b = NoBlob THEN unknownState(now, jitter)
                         ELSE restoreFromBlob(b, now, jitter)
  IN IF abnormalReset THEN recordBoot(g, now) ELSE g

-----------------------------------------------------------------------------
(* Requests. *)
startsInShorterWindow(g, now) == Recent(g.startTimes, now, HourS - 1)  \* mutant
startsInLongerWindow(g, now) == Recent(g.startTimes, now, HourS + 1)   \* mutant

startsInWindow(g, now) == Recent(g.startTimes, now, HourS)

HoldoffServed(g, now) == g.booted /\ now >= g.holdoffEnd

MinOffServed(g, now) ==
  g.lastStop = NoTime \/ elapsedS(now, g.lastStop) >= MinOffS

(* requestStart(): what is allowed, and what an allowed start commits.  An  *)
(* already running compressor is an allowed request that changes nothing.   *)
StartAllowed(g, now, manual) ==
  /\ ~g.lockedOut
  /\ \/ g.running
     \/ /\ HoldoffServed(g, now)
        /\ manual \/ MinOffServed(g, now)
        /\ startsInWindow(g, now) < MaxStartsPerHour

Started(g, now) ==
  IF g.running THEN g
  ELSE [g EXCEPT !.running = TRUE, !.lastStart = now,
                 !.startTimes = Push(@, now, MaxStartHistory)]

(* The waitS a denied requestStart() reports: the longest gate still closed. *)
StartWaits(g, now, manual) ==
  {0}
  \cup (IF g.booted /\ now < g.holdoffEnd THEN {g.holdoffEnd - now} ELSE {})
  \cup (IF ~manual /\ ~MinOffServed(g, now)
          THEN {MinOffS - elapsedS(now, g.lastStop)} ELSE {})
  \cup (IF startsInWindow(g, now) >= MaxStartsPerHour
          THEN LET left == {HourS - elapsedS(now, g.startTimes[i]) :
                              i \in DOMAIN g.startTimes}
               IN {w \in left : w > 0 /\ \A v \in left : v > 0 => w <= v}
          ELSE {})

waitS(g, now, manual) ==
  CHOOSE w \in StartWaits(g, now, manual) :
    \A v \in StartWaits(g, now, manual) : v <= w

(* requestStop(): safety always; comfort only once min-ON is served. *)
StopAllowed(g, now, safety) ==
  \/ ~g.running
  \/ safety
  \/ g.lastStart = NoTime
  \/ elapsedS(now, g.lastStart) >= MinOnS

Stopped(g, now) ==
  IF g.running THEN [g EXCEPT !.running = FALSE, !.lastStop = now] ELSE g

=============================================================================
