--------------------------- MODULE OtaUpdateProofs ----------------------------
(***************************************************************************)
(* Theorems about OtaUpdate, for every value of its constants.               *)
(***************************************************************************)
EXTENDS OtaUpdate, TLAPS

Kept == Releases \cup {None}

(* The entries the task may have to write. *)
Entries ==
  ({"boot"} \X {0, 1}) \cup ({"pend", "atryv"} \X Kept)
    \cup ({"tries"} \X (0..(MaxBootAttempts - 1))) \cup ({"atry"} \X (0..MaxApplyAttempts))

OtaTypes == TypeOK /\ writes \in Seq(Entries)

(* What may still be written: nothing that decides the next boot's image,    *)
(* or one of the three sequences that do, at its place in the loop.          *)
Decides(w) == w[1] \in {"boot", "pend"}
Quiet     == \A i \in DOMAIN writes : ~Decides(writes[i])
Passing   == pc = "check" /\ writes = << <<"pend", None>>, <<"tries", 0>> >>
Returning ==
  /\ pc = "restart"
  /\ \/ writes = << <<"pend", None>>, <<"boot", Other(cur)>> >>
     \/ writes = << <<"boot", Other(cur)>> >> /\ flash.pend = None
Arming(v) ==
  /\ pc = "reboot" /\ ram.staged /\ slot[Other(cur)] # None
  /\ \/ writes = << <<"boot", Other(cur)>>, <<"pend", v>>, <<"tries", 0>>, <<"atry", 0>> >>
     \/ /\ writes = << <<"pend", v>>, <<"tries", 0>>, <<"atry", 0>> >>
        /\ flash.boot = Other(cur)

Writing == Quiet \/ Passing \/ Returning \/ \E v \in Releases : Arming(v)

(* The slots while the firmware runs. *)
Slots ==
  /\ slot[flash.boot] # None
  /\ pc # "off" => slot[cur] # None
  /\ pc = "off" => ram = Fresh
  /\ Up /\ ~ram.staged => flash.boot = cur
  /\ pc \in {"download", "flash"} => ram.avail # None /\ ~ram.staged
  /\ ram.offered => ram.avail # None

(* flash as a boot would find it: a trial has its way back. *)
WayBack ==
  IF flash.pend = None THEN slot[flash.boot] \in tested
  ELSE slot[Other(flash.boot)] \in tested

TrialStands ==
  ~slipped =>
    /\ Quiet => WayBack
    /\ Passing => ~ram.staged /\ ~ram.pending
    /\ Returning => slot[Other(cur)] \in tested
    /\ Up /\ ram.pending => flash.pend # None /\ ~ram.staged /\ Quiet /\ pc # "flash"
    /\ Up /\ ~ram.pending => slot[cur] \in tested
    /\ Up /\ ~ram.staged /\ ~ram.pending /\ Quiet => flash.pend = None

OtaInv == OtaTypes /\ Writing /\ Slots /\ TrialStands

-----------------------------------------------------------------------------
(* The assumptions on the constants, one by one. *)
LEMMA OtaConstants ==
  ASSUME OtaConfig, LadderConfig
  PROVE  /\ MaxRelease \in Nat \ {0} /\ 1 \in Releases /\ None \notin Releases
         /\ MaxBootAttempts \in Nat \ {0} /\ MaxApplyAttempts \in Nat \ {0}
         /\ SelfTestTimeout \in Nat /\ BootCheckGrace \in Nat
         /\ BrokerFailsPerRung \in Nat \ {0} /\ BrokerProbePrimary \in Nat \ {0}
  BY DEF OtaConfig, LadderConfig, Releases, None

(* The ladder's operators return ladders. *)
LEMMA LadderTypes ==
  ASSUME OtaConfig, LadderConfig, NEW m \in Ladder, NEW live
  PROVE  /\ Service(m, live) \in Ladder /\ Dropped(m, live) \in Ladder
         /\ AtBoot \in Ladder
<1>. USE OtaConstants DEF Ladder, Rungs
<1>1. AtBoot \in Ladder
  BY DEF AtBoot
<1>2. Attempt(m, live) \in Ladder
  <2>1. /\ 0 \in 0..(BrokerFailsPerRung - 1) /\ 0 \in 0..BrokerProbePrimary
        /\ m.fails \in Nat /\ m.rung \in {0, 1} /\ 1 - m.rung \in {0, 1}
    OBVIOUS
  <2>2. CASE m.rung \in live
    <3>1. (IF m.rung = 1 THEN 0 ELSE m.since) \in 0..BrokerProbePrimary
      BY <2>1
    <3>2. Attempt(m, live) = [m EXCEPT !.connected = TRUE, !.fails = 0,
                                       !.since = IF m.rung = 1 THEN 0 ELSE m.since]
      BY <2>2 DEF Attempt
    <3>. HIDE DEF Attempt
    <3>. QED BY <2>1, <3>1, <3>2
  <2>3. CASE m.rung \notin live /\ m.fails + 1 < BrokerFailsPerRung
    BY <2>3 DEF Attempt
  <2>4. CASE m.rung \notin live /\ ~(m.fails + 1 < BrokerFailsPerRung)
    <3>1. Attempt(m, live) = [m EXCEPT !.fails = 0, !.rung = 1 - m.rung]
      BY <2>4 DEF Attempt
    <3>. QED BY <2>1, <3>1
  <2>. QED BY <2>2, <2>3, <2>4
<1>3. Probe(m, live) \in Ladder
  BY <1>1 DEF Probe
<1>4. Service(m, live) \in Ladder
  BY <1>2, <1>3 DEF Service
<1>5. Dropped(m, live) \in Ladder
  BY DEF Dropped
<1>. QED BY <1>1, <1>4, <1>5

(* The other slot of the other slot is this one. *)
LEMMA TwoSlots ==
  ASSUME NEW s \in {0, 1}
  PROVE  Other(s) \in {0, 1} /\ Other(s) # s /\ Other(Other(s)) = s
  BY DEF Other

(* The sequences of entries, one entry at a time. *)
LEMMA Unrolled ==
  ASSUME NEW a, NEW b, NEW c, NEW d
  PROVE  /\ Head(<<a>>) = a /\ Tail(<<a>>) = <<>>
         /\ Head(<<a, b>>) = a /\ Tail(<<a, b>>) = <<b>>
         /\ Head(<<a, b, c>>) = a /\ Tail(<<a, b, c>>) = <<b, c>>
         /\ Head(<<a, b, c, d>>) = a /\ Tail(<<a, b, c, d>>) = <<b, c, d>>
  OBVIOUS

(* Each entry of NVS and the boot slot have values of their own. *)
LEMMA EntryKinds ==
  ASSUME OtaConfig, LadderConfig, NEW w \in Entries
  PROVE  \/ w[1] = "boot" /\ w[2] \in {0, 1}
         \/ w[1] = "pend" /\ w[2] \in Kept
         \/ w[1] = "atryv" /\ w[2] \in Kept
         \/ w[1] = "tries" /\ w[2] \in 0..(MaxBootAttempts - 1)
         \/ w[1] = "atry" /\ w[2] \in 0..MaxApplyAttempts
  BY DEF Entries

FlashImages ==
  [boot : {0, 1}, pend : Kept, tries : 0..(MaxBootAttempts - 1),
   atryv : Kept, atry : 0..MaxApplyAttempts]

(* An entry written to flash changes that entry only. *)
LEMMA FlashWrite ==
  ASSUME OtaConfig, LadderConfig, NEW f \in FlashImages, NEW w \in Entries
  PROVE  LET g == [f EXCEPT ![w[1]] = w[2]]
         IN /\ g \in FlashImages
            /\ g.boot = IF w[1] = "boot" THEN w[2] ELSE f.boot
            /\ g.pend = IF w[1] = "pend" THEN w[2] ELSE f.pend
<1>. USE DEF FlashImages
<1>1. CASE w[1] = "boot"
  BY <1>1, EntryKinds
<1>2. CASE w[1] = "pend"
  BY <1>2, EntryKinds
<1>3. CASE w[1] = "atryv"
  BY <1>3, EntryKinds
<1>4. CASE w[1] = "tries"
  BY <1>4, EntryKinds
<1>5. CASE w[1] = "atry"
  BY <1>5, EntryKinds
<1>. QED BY <1>1, <1>2, <1>3, <1>4, <1>5, EntryKinds

-----------------------------------------------------------------------------
Rams ==
  [age : 0..(SelfTestTimeout + 1) \cup 0..BootCheckGrace, pending : BOOLEAN, pass : BOOLEAN,
   staged : BOOLEAN, avail : Kept, offered : BOOLEAN,
   checkReq : BOOLEAN, applyReq : BOOLEAN, force : BOOLEAN]

Places == {"off", "restart", "selftest", "check", "apply", "reboot", "download", "flash"}

(* TypeOK with its records named. *)
LEMMA TypesSplit ==
  /\ TypeOK <=> /\ pc \in Places /\ cur \in {0, 1} /\ slot \in [{0, 1} -> Kept]
                /\ flash \in FlashImages /\ ram \in Rams
                /\ mq \in Ladder /\ latest \in Releases /\ reach \subseteq Rungs
                /\ tested \subseteq Releases /\ slipped \in BOOLEAN /\ steady \subseteq Rungs
  BY DEF TypeOK, Places, Kept, FlashImages, Rams

(* The age of the boot stops counting where nothing depends on it. *)
LEMMA Ages ==
  ASSUME OtaConfig, LadderConfig, NEW trialed \in BOOLEAN,
         NEW n \in 0..(SelfTestTimeout + 1) \cup 0..BootCheckGrace
  PROVE  /\ AtMost(n, AgeCap(trialed)) \in 0..(SelfTestTimeout + 1) \cup 0..BootCheckGrace
         /\ AtMost(n + 1, AgeCap(trialed)) \in 0..(SelfTestTimeout + 1) \cup 0..BootCheckGrace
         /\ 0 \in 0..(SelfTestTimeout + 1) \cup 0..BootCheckGrace
<1>1. SelfTestTimeout \in Nat /\ BootCheckGrace \in Nat /\ n \in Nat
  BY OtaConstants
<1>. QED BY <1>1 DEF AtMost, AgeCap

(* What a boot starts from. *)
LEMMA FreshType == ASSUME OtaConfig, LadderConfig PROVE Fresh \in Rams
<1>1. 0 \in 0..(SelfTestTimeout + 1)
  BY OtaConstants
<1>. QED BY <1>1 DEF Fresh, Rams, Kept

(* Short sequences, member by member. *)
LEMMA Tuples ==
  ASSUME NEW S, NEW a \in S, NEW b \in S, NEW c \in S, NEW d \in S
  PROVE  /\ <<>> \in Seq(S) /\ <<a>> \in Seq(S) /\ <<a, b>> \in Seq(S)
         /\ <<b, c, d>> \in Seq(S) /\ <<a, b, c, d>> \in Seq(S)
  OBVIOUS

(* All that the task ever has to write is entries. *)
LEMMA WrittenTypes ==
  ASSUME OtaConfig, LadderConfig, OtaTypes
  PROVE  /\ RollBack(cur) \in Seq(Entries) /\ <<>> \in Seq(Entries)
         /\ << <<"pend", None>>, <<"tries", 0>> >> \in Seq(Entries)
         /\ flash.tries + 1 < MaxBootAttempts =>
              << <<"tries", flash.tries + 1>> >> \in Seq(Entries)
         /\ Staging \in Seq(Entries)
         /\ \A n \in 0..(MaxApplyAttempts - 1) :
              << <<"atryv", ram.avail>>, <<"atry", n + 1>> >> \in Seq(Entries)
<1>1. /\ cur \in {0, 1} /\ ram.avail \in Kept /\ None \in Kept
      /\ flash.tries \in 0..(MaxBootAttempts - 1)
  BY TypesSplit DEF OtaTypes, FlashImages, Rams, Kept
<1>2. /\ 0 \in 0..(MaxBootAttempts - 1) /\ 0 \in 0..MaxApplyAttempts
      /\ MaxApplyAttempts \in Nat /\ MaxBootAttempts \in Nat
  BY OtaConstants
<1>3. \A s \in {0, 1} : <<"boot", Other(s)>> \in Entries
  BY TwoSlots DEF Entries
<1>4. \A v \in Kept : <<"pend", v>> \in Entries /\ <<"atryv", v>> \in Entries
  BY DEF Entries
<1>5. \A n \in 0..(MaxBootAttempts - 1) : <<"tries", n>> \in Entries
  BY DEF Entries
<1>6. \A n \in 0..MaxApplyAttempts : <<"atry", n>> \in Entries
  BY DEF Entries
<1>7. RollBack(cur) \in Seq(Entries)
  BY <1>1, <1>3, <1>4, Tuples DEF RollBack
<1>8. << <<"pend", None>>, <<"tries", 0>> >> \in Seq(Entries)
  BY <1>1, <1>2, <1>4, <1>5, Tuples
<1>9. ASSUME flash.tries + 1 < MaxBootAttempts
      PROVE  << <<"tries", flash.tries + 1>> >> \in Seq(Entries)
  <2>1. flash.tries + 1 \in 0..(MaxBootAttempts - 1)
    BY <1>1, <1>2, <1>9
  <2>. QED BY <1>5, <2>1
<1>10. Staging \in Seq(Entries)
  <2>. DEFINE a == <<"boot", Other(cur)>>
              b == <<"pend", ram.avail>>
              c == <<"tries", 0>>
              d == <<"atry", 0>>
  <2>1. a \in Entries /\ b \in Entries /\ c \in Entries /\ d \in Entries
    BY <1>1, <1>2, <1>3, <1>4, <1>5, <1>6
  <2>2. Staging = <<a, b, c, d>>
    BY DEF Staging
  <2>. HIDE DEF a, b, c, d
  <2>. QED BY <2>1, <2>2, Tuples
<1>11. ASSUME NEW n \in 0..(MaxApplyAttempts - 1)
       PROVE  << <<"atryv", ram.avail>>, <<"atry", n + 1>> >> \in Seq(Entries)
  <2>1. n + 1 \in 0..MaxApplyAttempts
    BY <1>2
  <2>2. <<"atry", n + 1>> \in Entries
    BY <1>6, <2>1
  <2>. QED BY <1>1, <1>4, <2>2, Tuples
<1>. QED BY <1>7, <1>8, <1>9, <1>10, <1>11, SMTT(30)

(* A new device runs the factory image, tested. *)
LEMMA OtaInit == ASSUME OtaConfig, LadderConfig, Init PROVE OtaInv
<1>. USE OtaConstants
<1>1. OtaTypes
  <2>1. ram \in Rams /\ mq \in Ladder
    <3>1. AtBoot \in Ladder
      <4>1. 0 \in 0..(BrokerFailsPerRung - 1) /\ 0 \in 0..BrokerProbePrimary
        OBVIOUS
      <4>. QED BY <4>1 DEF AtBoot, Ladder, Rungs
    <3>. QED BY <3>1, FreshType DEF Init
  <2>2. flash \in FlashImages
    <3>1. 0 \in 0..(MaxBootAttempts - 1) /\ 0 \in 0..MaxApplyAttempts
      OBVIOUS
    <3>. QED BY <3>1 DEF Init, FlashImages, Kept
  <2>. QED BY <2>1, <2>2, TypesSplit DEF Init, OtaTypes, Kept, Places
<1>2. Quiet
  BY DEF Init, Quiet
<1>3. Slots
  <2>1. Fresh.offered = FALSE
    BY DEF Fresh
  <2>. QED BY <2>1 DEF Init, Slots, Up, None
<1>4. TrialStands
  BY DEF Init, TrialStands, WayBack, Passing, Returning, Up, None
<1>. QED BY <1>1, <1>2, <1>3, <1>4 DEF OtaInv, Writing

-----------------------------------------------------------------------------
(* The types, action by action; "ram" and "writes" are what moves.           *)
LEMMA WriteTypes ==
  ASSUME OtaConfig, LadderConfig, OtaTypes, Write PROVE OtaTypes'
<1>1. Head(writes) \in Entries /\ Tail(writes) \in Seq(Entries)
  BY DEF OtaTypes, Write
<1>2. flash \in FlashImages
  BY TypesSplit DEF OtaTypes
<1>3. [flash EXCEPT ![Head(writes)[1]] = Head(writes)[2]] \in FlashImages
  BY <1>1, <1>2, FlashWrite
<1>4. flash' \in FlashImages /\ writes' \in Seq(Entries)
  BY <1>1, <1>2, <1>3 DEF Write
<1>5. TypeOK'
  <2>1. UNCHANGED <<pc, cur, slot, ram, latest, mq, reach, steady, tested, slipped>>
    BY DEF Write, trial, past
  <2>. QED BY <1>4, <2>1 DEF OtaTypes, TypeOK, FlashImages, Kept
<1>. QED BY <1>4, <1>5 DEF OtaTypes

LEMMA BootTypes ==
  ASSUME OtaConfig, LadderConfig, OtaTypes, Boot PROVE OtaTypes'
<1>1. /\ flash \in FlashImages /\ ram \in Rams /\ AtBoot \in Ladder
      /\ flash.boot \in {0, 1} /\ mq \in Ladder
  BY TypesSplit, LadderTypes DEF OtaTypes, FlashImages
<1>2. CASE BootConfirmed
  BY <1>1, <1>2 DEF BootConfirmed, OtaTypes, TypeOK, trial, past
<1>3. CASE BootTrial
  <2>1. ram' \in Rams
    BY <1>1, <1>3 DEF BootTrial, Rams
  <2>2. writes' \in Seq(Entries)
    BY <1>3, WrittenTypes DEF BootTrial
  <2>3. mq' \in Ladder /\ reach' \subseteq Rungs /\ steady' \subseteq Rungs
    BY <1>1, <1>3 DEF BootTrial
  <2>. QED BY <1>1, <1>3, <2>1, <2>2, <2>3, TypesSplit
           DEF BootTrial, OtaTypes, TypeOK, Rams, Kept, past
<1>4. CASE BootGivesUp
  <2>1. writes' = RollBack(flash.boot) /\ cur' = flash.boot
    BY <1>4 DEF BootGivesUp
  <2>2. RollBack(flash.boot) \in Seq(Entries)
    <3>1. <<"boot", Other(flash.boot)>> \in Entries /\ <<"pend", None>> \in Entries
      BY <1>1, TwoSlots DEF Entries, Kept
    <3>. QED BY <3>1, Tuples DEF RollBack
  <2>. QED BY <1>1, <1>4, <2>1, <2>2 DEF BootGivesUp, OtaTypes, TypeOK, trial, past
<1>. QED BY <1>2, <1>3, <1>4 DEF Boot

LEMMA TrialTypes ==
  ASSUME OtaConfig, LadderConfig, OtaTypes, Slots, Confirm \/ SelfTestExpired \/ SelfTestOpen
  PROVE  OtaTypes'
<1>1. ram \in Rams /\ mq \in Ladder /\ cur \in {0, 1} /\ slot \in [{0, 1} -> Kept]
  BY TypesSplit DEF OtaTypes
<1>2. CASE Confirm
  <2>1. ram' \in Rams
    <3>1. AtMost(ram.age, AgeCap(FALSE)) \in 0..(SelfTestTimeout + 1) \cup 0..BootCheckGrace
      BY <1>1, Ages DEF Rams
    <3>. QED BY <1>1, <1>2, <3>1 DEF Confirm, Rams
  <2>2. AtBoot \in Ladder
    BY <1>1, LadderTypes
  <2>3. writes' \in Seq(Entries)
    BY <1>2, WrittenTypes DEF Confirm
  <2>4. Running \in Releases
    BY <1>1, <1>2 DEF Confirm, At, Slots, Running, Kept
  <2>. QED BY <1>1, <1>2, <2>1, <2>2, <2>3, <2>4, TypesSplit
           DEF Confirm, EndTrial, OtaTypes, TypeOK, Rams, Kept, Running
<1>3. CASE SelfTestExpired
  <2>1. writes' \in Seq(Entries)
    BY <1>3, WrittenTypes DEF SelfTestExpired
  <2>. QED BY <1>3, <2>1 DEF SelfTestExpired, OtaTypes, TypeOK, trial, past
<1>4. CASE SelfTestOpen
  BY <1>4 DEF SelfTestOpen, OtaTypes, TypeOK, trial, past
<1>. QED BY <1>2, <1>3, <1>4

LEMMA CheckTypes ==
  ASSUME OtaConfig, LadderConfig, OtaTypes, Check \/ SkipCheck \/ StartApply \/ NoApply
  PROVE  OtaTypes'
<1>1. ram \in Rams /\ latest \in Releases /\ flash \in FlashImages
  BY TypesSplit DEF OtaTypes
<1>2. CASE Check
  <2>1. ram' \in Rams
    BY <1>1, <1>2 DEF Check, Checked, Rams, Kept
  <2>. QED BY <1>2, <2>1 DEF Check, OtaTypes, TypeOK, Rams, Kept, trial, past
<1>3. CASE SkipCheck
  BY <1>3 DEF SkipCheck, OtaTypes, TypeOK, trial, past
<1>4. Asked \in Rams
  BY <1>1 DEF Asked, Rams
<1>5. CASE StartApply
  <2>1. PICK n \in 0..(MaxApplyAttempts - 1) :
          writes' = << <<"atryv", ram.avail>>, <<"atry", n + 1>> >>
    <3>1. MaxApplyAttempts \in Nat \ {0} /\ Attempts \in 0..MaxApplyAttempts
      BY <1>1, OtaConstants DEF Attempts, FlashImages
    <3>. QED BY <1>5, <3>1 DEF StartApply
  <2>2. writes' \in Seq(Entries)
    BY <2>1, WrittenTypes
  <2>. QED BY <1>4, <1>5, <2>2 DEF StartApply, OtaTypes, TypeOK, Rams, Kept, trial, past
<1>6. CASE NoApply
  <2>1. ram' \in Rams
    BY <1>1, <1>4, <1>6 DEF NoApply, Rams
  <2>. QED BY <1>6, <2>1 DEF NoApply, OtaTypes, TypeOK, Rams, Kept, trial, past
<1>. QED BY <1>2, <1>3, <1>5, <1>6

LEMMA FlashingTypes ==
  ASSUME OtaConfig, LadderConfig, OtaTypes,
         BeginFlash \/ ApplyFails \/ EndFlash \/ \E safe \in BOOLEAN : Reboot(safe)
  PROVE  OtaTypes'
<1>1. ram \in Rams /\ cur \in {0, 1} /\ slot \in [{0, 1} -> Kept] /\ slipped \in BOOLEAN
  BY TypesSplit DEF OtaTypes
<1>2. CASE BeginFlash
  <2>1. slot' \in [{0, 1} -> Kept] /\ slipped' \in BOOLEAN
    BY <1>1, <1>2 DEF BeginFlash, Kept, Rams
  <2>. QED BY <1>2, <2>1 DEF BeginFlash, OtaTypes, TypeOK, Kept, trial
<1>3. CASE ApplyFails
  <2>1. ram' \in Rams
    BY <1>1, <1>3 DEF ApplyFails, Rams
  <2>. QED BY <1>3, <2>1 DEF ApplyFails, OtaTypes, TypeOK, Rams, Kept, trial, past
<1>4. CASE EndFlash
  <2>1. ram' \in Rams /\ slot' \in [{0, 1} -> Kept]
    BY <1>1, <1>4 DEF EndFlash, Rams
  <2>2. writes' \in Seq(Entries)
    BY <1>4, WrittenTypes DEF EndFlash
  <2>. QED BY <1>4, <2>1, <2>2 DEF EndFlash, OtaTypes, TypeOK, Rams, Kept, trial, past
<1>5. CASE \E safe \in BOOLEAN : Reboot(safe)
  BY <1>5 DEF Reboot, OtaTypes, TypeOK, trial, past
<1>. QED BY <1>2, <1>3, <1>4, <1>5

LEMMA OthersTypes ==
  ASSUME OtaConfig, LadderConfig, OtaTypes,
         \/ Restart \/ Tick \/ requestCheck \/ (\E force \in BOOLEAN : requestApply(force))
         \/ Reset \/ Publish \/ (\E r \in SUBSET Rungs : Network(r))
         \/ UNCHANGED vars
  PROVE  OtaTypes'
<1>1. /\ ram \in Rams /\ mq \in Ladder /\ Fresh \in Rams /\ AtBoot \in Ladder
      /\ latest \in Releases /\ slipped \in BOOLEAN
  BY TypesSplit, FreshType, LadderTypes DEF OtaTypes
<1>2. CASE Restart
  BY <1>1, <1>2, TypesSplit DEF Restart, EndTrial, OtaTypes, TypeOK, Rams, Kept, past
<1>3. CASE Tick
  <2>1. mq' \in Ladder
    BY <1>1, <1>3, LadderTypes DEF Tick
  <2>2. ram' \in Rams
    <3>1. AtMost(ram.age + 1, AgeCap(ram.pending))
            \in 0..(SelfTestTimeout + 1) \cup 0..BootCheckGrace
      BY <1>1, Ages DEF Rams
    <3>2. (ram.pass \/ mq'.connected) \in BOOLEAN
      OBVIOUS
    <3>3. ram' = [ram EXCEPT !.age = AtMost(ram.age + 1, AgeCap(ram.pending)),
                             !.pass = (ram.pass \/ mq'.connected)]
      BY <1>3 DEF Tick
    <3>. QED BY <1>1, <3>1, <3>2, <3>3 DEF Rams
  <2>. QED BY <1>3, <2>1, <2>2 DEF Tick, OtaTypes, TypeOK, Rams, Kept, past
<1>4. CASE requestCheck
  <2>1. ram' \in Rams
    BY <1>1, <1>4 DEF requestCheck, Rams
  <2>. QED BY <1>4, <2>1 DEF requestCheck, OtaTypes, TypeOK, Rams, Kept, trial, past
<1>5. ASSUME NEW force \in BOOLEAN, requestApply(force) PROVE OtaTypes'
  <2>1. ram' \in Rams
    BY <1>1, <1>5 DEF requestApply, Rams
  <2>. QED BY <1>5, <2>1 DEF requestApply, OtaTypes, TypeOK, Rams, Kept, trial, past
<1>6. CASE Reset
  <2>1. slipped' \in BOOLEAN
    BY <1>1, <1>6 DEF Reset
  <2>2. <<>> \in Seq(Entries)
    OBVIOUS
  <2>. QED BY <1>1, <1>6, <2>1, <2>2, TypesSplit DEF Reset, EndTrial, OtaTypes, TypeOK, Rams, Kept
<1>7. CASE Publish
  <2>1. latest' \in Releases
    BY <1>1, <1>7, OtaConstants DEF Publish, Releases
  <2>. QED BY <1>7, <2>1 DEF Publish, OtaTypes, TypeOK, trial, past
<1>8. ASSUME NEW r \in SUBSET Rungs, Network(r) PROVE OtaTypes'
  <2>1. mq' \in Ladder
    BY <1>1, <1>8, LadderTypes DEF Network
  <2>. QED BY <1>8, <2>1 DEF Network, OtaTypes, TypeOK, past
<1>9. CASE UNCHANGED vars
  BY <1>9 DEF vars, OtaTypes, TypeOK, trial, past
<1>. QED BY <1>2, <1>3, <1>4, <1>5, <1>6, <1>7, <1>8, <1>9

(* Every step keeps the types, where Slots holds: a trial confirmed is a      *)
(* whole image.                                                              *)
LEMMA OtaTypesStep ==
  ASSUME OtaConfig, LadderConfig, OtaTypes, Slots, [Next]_vars PROVE OtaTypes'
  BY WriteTypes, BootTypes, TrialTypes, CheckTypes, FlashingTypes, OthersTypes
  DEF Next, Loop

-----------------------------------------------------------------------------
(* The steps that leave the flash and the slots alone. *)
LEMMA PlainStep ==
  ASSUME OtaInv, UNCHANGED <<cur, slot, flash, writes, slipped, tested>>, Up,
         ram'.staged = ram.staged, ram'.pending = ram.pending,
         \/ pc' = pc
         \/ writes = <<>> /\ pc' \in {"restart", "selftest", "check", "apply", "reboot"},
         pc \in {"download", "flash"} /\ pc' = pc => ram'.avail = ram.avail,
         ram'.offered => ram'.avail # None
  PROVE  Writing' /\ Slots' /\ TrialStands'
<1>1. writes = <<>> => Quiet /\ ~Passing /\ ~Returning /\ \A v \in Releases : ~Arming(v)
  BY DEF Quiet, Passing, Returning, Arming
<1>2. Quiet' <=> Quiet
  BY DEF Quiet
<1>3. Writing'
  BY <1>1, <1>2 DEF OtaInv, Writing, Passing, Returning, Arming
<1>4. Slots'
  BY DEF OtaInv, Slots, Up
<1>5. TrialStands'
  <2>. SUFFICES ASSUME ~slipped PROVE TrialStands'
    BY DEF TrialStands
  <2>1. WayBack' <=> WayBack
    BY DEF WayBack
  <2>2. Passing' => Passing
    BY DEF Passing
  <2>3. Returning' => Returning
    BY DEF Returning, Up
  <2>. QED BY <1>2, <2>1, <2>2, <2>3 DEF OtaInv, TrialStands, Up
<1>. QED BY <1>3, <1>4, <1>5

(* The places of the loop and the requests that only move it on. *)
LEMMA PlainSteps ==
  ASSUME OtaConfig, LadderConfig, OtaInv,
         \/ SelfTestOpen \/ Check \/ SkipCheck \/ NoApply \/ ApplyFails
         \/ (\E safe \in BOOLEAN : Reboot(safe))
         \/ Tick \/ requestCheck \/ (\E force \in BOOLEAN : requestApply(force))
  PROVE  Writing' /\ Slots' /\ TrialStands'
<1>1. ram \in Rams /\ latest \in Releases /\ None \notin Releases
  BY TypesSplit, OtaConstants DEF OtaInv, OtaTypes
<1>2. ram.offered => ram.avail # None
  BY DEF OtaInv, Slots
<1>3. CASE SelfTestOpen
  BY <1>2, <1>3, PlainStep DEF SelfTestOpen, At, Up, trial, past
<1>4. CASE Check
  <2>1. /\ ram'.staged = ram.staged /\ ram'.pending = ram.pending
        /\ ram'.offered => ram'.avail # None
    BY <1>1, <1>4 DEF Check, Checked, Rams
  <2>. QED BY <1>4, <2>1, PlainStep DEF Check, At, Up, trial, past
<1>5. CASE SkipCheck
  BY <1>2, <1>5, PlainStep DEF SkipCheck, At, Up, trial, past
<1>6. CASE NoApply
  <2>1. /\ ram'.staged = ram.staged /\ ram'.pending = ram.pending
        /\ ram'.offered => ram'.avail # None
    BY <1>1, <1>2, <1>6 DEF NoApply, Asked, Rams
  <2>. QED BY <1>6, <2>1, PlainStep DEF NoApply, At, Up, trial, past
<1>7. CASE ApplyFails
  <2>1. /\ ram'.staged = ram.staged /\ ram'.pending = ram.pending
        /\ ~ram'.offered
    BY <1>1, <1>7 DEF ApplyFails, Rams
  <2>. QED BY <1>7, <2>1, PlainStep DEF ApplyFails, At, Up, trial, past
<1>8. CASE \E safe \in BOOLEAN : Reboot(safe)
  BY <1>2, <1>8, PlainStep DEF Reboot, At, Up, trial, past
<1>9. CASE Tick
  <2>1. /\ ram'.staged = ram.staged /\ ram'.pending = ram.pending
        /\ ram'.offered = ram.offered /\ ram'.avail = ram.avail
    BY <1>1, <1>9 DEF Tick, Rams
  <2>. QED BY <1>2, <1>9, <2>1, PlainStep DEF Tick, Up, past
<1>10. CASE requestCheck
  <2>1. /\ ram'.staged = ram.staged /\ ram'.pending = ram.pending
        /\ ram'.offered = ram.offered /\ ram'.avail = ram.avail
    BY <1>1, <1>10 DEF requestCheck, Rams
  <2>. QED BY <1>2, <1>10, <2>1, PlainStep DEF requestCheck, Up, trial, past
<1>11. ASSUME NEW force \in BOOLEAN, requestApply(force)
       PROVE  Writing' /\ Slots' /\ TrialStands'
  <2>1. /\ ram'.staged = ram.staged /\ ram'.pending = ram.pending
        /\ ram'.offered = ram.offered /\ ram'.avail = ram.avail
    BY <1>1, <1>11 DEF requestApply, Rams
  <2>. QED BY <1>2, <1>11, <2>1, PlainStep DEF requestApply, Up, trial, past
<1>. QED BY <1>3, <1>4, <1>5, <1>6, <1>7, <1>8, <1>9, <1>10, <1>11

(* The world's moves. *)
LEMMA WorldSteps ==
  ASSUME OtaInv, Publish \/ (\E r \in SUBSET Rungs : Network(r)) \/ UNCHANGED vars
  PROVE  Writing' /\ Slots' /\ TrialStands'
<1>1. UNCHANGED <<pc, cur, slot, flash, writes, ram, slipped, tested>>
  BY DEF Publish, Network, vars, trial, past
<1>2. Quiet' = Quiet /\ Passing' = Passing /\ Returning' = Returning /\ WayBack' = WayBack
  BY <1>1 DEF Quiet, Passing, Returning, WayBack
<1>3. \A v : Arming(v)' = Arming(v)
  BY <1>1 DEF Arming
<1>. QED BY <1>1, <1>2, <1>3 DEF OtaInv, Writing, Slots, TrialStands, Up

(* Nothing left to write decides nothing. *)
LEMMA EmptyIsQuiet == writes' = <<>> => Quiet'
  BY DEF Quiet

(* A boot finds flash with nothing half written. *)
LEMMA BootStep ==
  ASSUME OtaConfig, LadderConfig, OtaInv, Boot
  PROVE  Writing' /\ Slots' /\ TrialStands'
<1>1. /\ pc = "off" /\ ram = Fresh /\ cur' = flash.boot
      /\ UNCHANGED <<slot, flash, slipped, tested>>
  BY DEF Boot, BootConfirmed, BootTrial, BootGivesUp, OtaInv, Slots, past
<1>2. Quiet
  BY <1>1 DEF OtaInv, Writing, Passing, Returning, Arming
<1>3. slot[flash.boot] # None
  BY DEF OtaInv, Slots
<1>4. ~Fresh.staged /\ ~Fresh.pending /\ ~Fresh.offered
  BY DEF Fresh
<1>5. CASE BootConfirmed
  <2>1. UNCHANGED <<writes, ram>> /\ pc' = "selftest" /\ flash.pend = None
    BY <1>5 DEF BootConfirmed
  <2>2. Quiet' /\ WayBack' = WayBack
    BY <1>1, <1>2, <2>1 DEF Quiet, WayBack
  <2>3. Slots'
    BY <1>1, <1>3, <1>4, <2>1 DEF Slots, Up
  <2>4. TrialStands'
    BY <1>1, <1>2, <1>4, <2>1, <2>2 DEF OtaInv, TrialStands, WayBack, Passing, Returning, Up
  <2>. QED BY <2>2, <2>3, <2>4 DEF Writing
<1>6. CASE BootTrial
  <2>1. /\ pc' = "selftest" /\ flash.pend # None /\ writes' = << <<"tries", flash.tries + 1>> >>
        /\ ram' = [ram EXCEPT !.pending = TRUE]
    BY <1>6 DEF BootTrial
  <2>2. ram' = [Fresh EXCEPT !.pending = TRUE]
    BY <1>1, <2>1
  <2>3. ~ram'.staged /\ ram'.pending /\ ~ram'.offered
    BY <2>2 DEF Fresh
  <2>4. Quiet'
    BY <2>1 DEF Quiet, Decides
  <2>5. Slots'
    BY <1>1, <1>3, <2>1, <2>3 DEF Slots, Up
  <2>6. TrialStands'
    BY <1>1, <1>2, <2>1, <2>3, <2>4 DEF OtaInv, TrialStands, WayBack, Passing, Returning, Up
  <2>. QED BY <2>4, <2>5, <2>6 DEF Writing
<1>7. CASE BootGivesUp
  <2>1. /\ pc' = "restart" /\ flash.pend # None /\ writes' = RollBack(flash.boot) /\ ram' = ram
    BY <1>7 DEF BootGivesUp
  <2>2. Returning'
    BY <1>1, <2>1 DEF Returning, RollBack
  <2>3. ~Quiet'
    BY <2>1 DEF Quiet, Decides, RollBack
  <2>4. Slots'
    BY <1>1, <1>3, <1>4, <2>1 DEF Slots, Up
  <2>5. TrialStands'
    BY <1>1, <1>2, <2>1, <2>3 DEF OtaInv, TrialStands, WayBack, Passing, Returning, Up
  <2>. QED BY <2>2, <2>4, <2>5 DEF Writing
<1>. QED BY <1>5, <1>6, <1>7 DEF Boot

(* A restart of the task's own has written everything; a reset loses it. *)
LEMMA OffStep ==
  ASSUME OtaInv, Restart \/ Reset
  PROVE  Writing' /\ Slots' /\ TrialStands'
<1>1. /\ pc' = "off" /\ ram' = Fresh /\ writes' = <<>>
      /\ UNCHANGED <<cur, slot, flash, tested>>
  BY DEF Restart, Reset, At, past
<1>2. Quiet' /\ WayBack' = WayBack
  BY <1>1, EmptyIsQuiet DEF WayBack
<1>3. ~slipped' => Quiet /\ ~slipped
  <2>1. CASE Restart
    BY <2>1 DEF Restart, At, Quiet, past
  <2>2. CASE Reset
    <3>1. slipped' = (slipped \/ ~Quiet)
      BY <2>2 DEF Reset, Quiet, Decides
    <3>. QED BY <3>1
  <2>. QED BY <2>1, <2>2
<1>4. ~Fresh.offered
  BY DEF Fresh
<1>5. Slots'
  BY <1>1, <1>4 DEF OtaInv, Slots, Up
<1>6. TrialStands'
  BY <1>1, <1>2, <1>3 DEF OtaInv, TrialStands, Passing, Returning, Up
<1>. QED BY <1>2, <1>5, <1>6 DEF Writing

(* What the task starts to write. *)
LEMMA ConfirmStep ==
  ASSUME OtaConfig, LadderConfig, OtaInv, Confirm
  PROVE  Writing' /\ Slots' /\ TrialStands'
<1>1. /\ pc = "selftest" /\ pc' = "check" /\ ram.pending /\ writes = <<>>
      /\ writes' = << <<"pend", None>>, <<"tries", 0>> >>
      /\ UNCHANGED <<cur, slot, flash, slipped>>
      /\ tested' = tested \cup {slot[cur]}
  BY DEF Confirm, At, Running
<1>2. ram \in Rams
  BY TypesSplit DEF OtaInv, OtaTypes
<1>3. /\ ram'.staged = ram.staged /\ ~ram'.pending
      /\ ram'.offered = ram.offered /\ ram'.avail = ram.avail
  BY <1>2 DEF Confirm, Rams
<1>4. Passing' /\ ~Quiet' /\ ~Returning'
  BY <1>1 DEF Passing, Quiet, Decides, Returning
<1>5. Slots'
  BY <1>1, <1>3 DEF OtaInv, Slots, Up
<1>6. TrialStands'
  BY <1>1, <1>3, <1>4 DEF OtaInv, TrialStands, Up
<1>. QED BY <1>4, <1>5, <1>6 DEF Writing

LEMMA ExpiredStep ==
  ASSUME OtaConfig, LadderConfig, OtaInv, SelfTestExpired
  PROVE  Writing' /\ Slots' /\ TrialStands'
<1>1. /\ pc = "selftest" /\ pc' = "restart" /\ ram.pending /\ writes = <<>>
      /\ writes' = RollBack(cur)
      /\ UNCHANGED <<cur, slot, flash, ram, slipped, tested>>
  BY DEF SelfTestExpired, At, past
<1>2. Returning' /\ ~Quiet' /\ ~Passing'
  BY <1>1 DEF Passing, Quiet, Decides, Returning, RollBack
<1>3. Slots'
  BY <1>1 DEF OtaInv, Slots, Up
<1>4. TrialStands'
  BY <1>1, <1>2 DEF OtaInv, TrialStands, WayBack, Slots, Up
<1>. QED BY <1>2, <1>3, <1>4 DEF Writing

LEMMA StartApplyStep ==
  ASSUME OtaConfig, LadderConfig, OtaInv, StartApply
  PROVE  Writing' /\ Slots' /\ TrialStands'
<1>1. /\ pc = "apply" /\ pc' = "download" /\ writes = <<>> /\ ~ram.staged /\ ram.offered
      /\ ram' = Asked
      /\ UNCHANGED <<cur, slot, flash, slipped, tested>>
  BY DEF StartApply, At, Wanted, past
<1>2. ram \in Rams
  BY TypesSplit DEF OtaInv, OtaTypes
<1>3. /\ ram'.staged = ram.staged /\ ram'.pending = ram.pending
      /\ ram'.offered = ram.offered /\ ram'.avail = ram.avail
  BY <1>1, <1>2 DEF Asked, Rams
<1>4. PICK n : writes' = << <<"atryv", ram.avail>>, <<"atry", n + 1>> >>
  BY DEF StartApply
<1>5. Quiet' /\ Quiet
  BY <1>1, <1>4 DEF Quiet, Decides
<1>6. Slots'
  BY <1>1, <1>3 DEF OtaInv, Slots, Up
<1>7. TrialStands'
  <2>1. WayBack' = WayBack
    BY <1>1 DEF WayBack
  <2>. QED BY <1>1, <1>3, <1>5, <2>1 DEF OtaInv, TrialStands, Passing, Returning, Up
<1>. QED BY <1>5, <1>6, <1>7 DEF Writing

LEMMA BeginFlashStep ==
  ASSUME OtaConfig, LadderConfig, OtaInv, BeginFlash
  PROVE  Writing' /\ Slots' /\ TrialStands'
<1>1. /\ pc = "download" /\ pc' = "flash" /\ writes = <<>>
      /\ UNCHANGED <<cur, flash, writes, ram, tested>>
      /\ slot' = [slot EXCEPT ![Other(cur)] = None]
      /\ slipped' = (slipped \/ ram.pending)
  BY DEF BeginFlash, At
<1>2. cur \in {0, 1} /\ slot \in [{0, 1} -> Kept] /\ ram.pending \in BOOLEAN
  BY TypesSplit DEF OtaInv, OtaTypes, Rams
<1>3. flash.boot = cur /\ slot'[cur] = slot[cur] /\ slot[cur] # None /\ ~ram.staged
  BY <1>1, <1>2, TwoSlots DEF OtaInv, Slots, Up
<1>4. Quiet' /\ Quiet
  BY <1>1 DEF Quiet
<1>5. ~slipped' => ~slipped /\ ~ram.pending
  BY <1>1
<1>6. Slots'
  BY <1>1, <1>3 DEF OtaInv, Slots, Up
<1>7. TrialStands'
  BY <1>1, <1>3, <1>4, <1>5 DEF OtaInv, TrialStands, Passing, Returning, WayBack, Up
<1>. QED BY <1>4, <1>6, <1>7 DEF Writing

LEMMA EndFlashStep ==
  ASSUME OtaConfig, LadderConfig, OtaInv, EndFlash
  PROVE  Writing' /\ Slots' /\ TrialStands'
<1>1. /\ pc = "flash" /\ pc' = "reboot" /\ writes = <<>> /\ writes' = Staging
      /\ UNCHANGED <<cur, flash, tested, slipped>>
      /\ slot' = [slot EXCEPT ![Other(cur)] = ram.avail]
  BY DEF EndFlash, At, past
<1>2. cur \in {0, 1} /\ slot \in [{0, 1} -> Kept] /\ ram \in Rams
  BY TypesSplit DEF OtaInv, OtaTypes
<1>3. /\ ram'.staged /\ ram'.pending = ram.pending /\ ~ram'.offered
  BY <1>2 DEF EndFlash, Rams
<1>4. PICK v \in Releases : v = ram.avail /\ v # None
  BY <1>1, <1>2 DEF OtaInv, Slots, Rams, Kept
<1>5. /\ flash.boot = cur /\ slot'[cur] = slot[cur] /\ slot[cur] # None
      /\ slot'[Other(cur)] = v
  BY <1>1, <1>2, <1>4, TwoSlots DEF OtaInv, Slots, Up
<1>6. Arming(v)'
  BY <1>1, <1>3, <1>4, <1>5 DEF Arming, Staging
<1>7. ~Quiet' /\ ~Passing' /\ ~Returning'
  BY <1>1 DEF Quiet, Decides, Staging, Passing, Returning
<1>8. Slots'
  BY <1>1, <1>3, <1>5 DEF OtaInv, Slots, Up
<1>9. TrialStands'
  BY <1>1, <1>3, <1>5, <1>7 DEF OtaInv, TrialStands, Up
<1>10. Writing'
  BY <1>4, <1>6 DEF Writing
<1>. QED BY <1>8, <1>9, <1>10

(* An entry reaches the flash. *)
LEMMA WriteStep ==
  ASSUME OtaConfig, LadderConfig, OtaInv, Write
  PROVE  Writing' /\ Slots' /\ TrialStands'
<1>. DEFINE w == Head(writes)
<1>1. /\ w \in Entries /\ writes \in Seq(Entries) /\ writes # <<>>
      /\ writes' = Tail(writes)
      /\ UNCHANGED <<pc, cur, slot, ram, slipped, tested>>
  BY DEF Write, OtaInv, OtaTypes, past
<1>2. flash \in FlashImages /\ cur \in {0, 1} /\ tested \subseteq Releases
  BY TypesSplit DEF OtaInv, OtaTypes
<1>3. /\ flash'.boot = (IF w[1] = "boot" /\ slot[w[2]] # None THEN w[2] ELSE flash.boot)
      /\ flash'.pend = (IF w[1] = "pend" THEN w[2] ELSE flash.pend)
  BY <1>1, <1>2, FlashWrite, ZenonT(40) DEF Write
<1>. HIDE DEF w
<1>4. slot'[flash'.boot] # None
  BY <1>1, <1>3 DEF OtaInv, Slots
<1>5. CASE Quiet
  <2>1. ~Decides(w) /\ Quiet'
    BY <1>1, <1>5 DEF Quiet, w
  <2>2. flash'.boot = flash.boot /\ flash'.pend = flash.pend
    BY <1>3, <2>1 DEF Decides
  <2>3. Slots'
    BY <1>1, <1>4, <2>2 DEF OtaInv, Slots, Up
  <2>4. ~Passing' /\ ~Returning'
    BY <2>1 DEF Passing, Returning, Quiet, Decides
  <2>5. TrialStands'
    BY <1>1, <1>5, <2>1, <2>2, <2>4 DEF OtaInv, TrialStands, WayBack, Up
  <2>. QED BY <2>1, <2>3, <2>5 DEF Writing
<1>6. CASE Passing
  <2>1. /\ w = <<"pend", None>> /\ writes' = << <<"tries", 0>> >> /\ pc = "check"
        /\ ~Quiet
    BY <1>1, <1>6, Unrolled DEF Passing, w, Quiet, Decides
  <2>2. flash'.boot = flash.boot /\ flash'.pend = None
    BY <1>3, <2>1
  <2>3. Quiet' /\ ~Passing' /\ ~Returning'
    BY <2>1 DEF Quiet, Decides, Passing, Returning
  <2>4. Slots'
    BY <1>1, <1>4, <2>2 DEF OtaInv, Slots, Up
  <2>5. TrialStands'
    BY <1>1, <1>6, <2>1, <2>2, <2>3 DEF OtaInv, TrialStands, WayBack, Slots, Up
  <2>. QED BY <2>3, <2>4, <2>5 DEF Writing
<1>7. CASE Returning /\ writes = << <<"pend", None>>, <<"boot", Other(cur)>> >>
  <2>1. /\ w = <<"pend", None>> /\ writes' = << <<"boot", Other(cur)>> >> /\ pc = "restart"
    BY <1>1, <1>7, Unrolled DEF Returning, w
  <2>2. flash'.boot = flash.boot /\ flash'.pend = None
    BY <1>3, <2>1
  <2>3. ~Quiet' /\ ~Passing' /\ Returning'
    <3>1. 1 \in DOMAIN writes' /\ Decides(writes'[1])
      BY <2>1 DEF Decides
    <3>2. ~Quiet'
      BY <3>1 DEF Quiet, Decides
    <3>3. ~Passing' /\ Returning'
      BY <1>1, <2>1, <2>2 DEF Passing, Returning
    <3>. QED BY <3>2, <3>3
  <2>4. Slots'
    BY <1>1, <1>4, <2>1, <2>2 DEF OtaInv, Slots, Up
  <2>5. TrialStands'
    BY <1>1, <1>7, <2>1, <2>2, <2>3 DEF OtaInv, TrialStands, Up
  <2>. QED BY <2>3, <2>4, <2>5 DEF Writing
<1>8. CASE Returning /\ writes = << <<"boot", Other(cur)>> >>
  <2>1. /\ w = <<"boot", Other(cur)>> /\ writes' = <<>> /\ pc = "restart"
        /\ flash.pend = None
    BY <1>1, <1>8, Unrolled DEF Returning, w
  <2>2. flash'.pend = None /\ (slot[Other(cur)] # None => flash'.boot = Other(cur))
    BY <1>3, <2>1
  <2>3. Quiet' /\ ~Passing' /\ ~Returning'
    BY <2>1 DEF Quiet, Passing, Returning
  <2>4. Slots'
    BY <1>1, <1>4, <2>1, <2>2 DEF OtaInv, Slots, Up
  <2>5. TrialStands'
    <3>. SUFFICES ASSUME ~slipped PROVE TrialStands'
      BY <1>1 DEF TrialStands
    <3>1. slot[Other(cur)] \in tested /\ None \notin tested
      BY <1>2, <1>8, OtaConstants DEF OtaInv, TrialStands
    <3>2. WayBack'
      BY <1>1, <2>2, <3>1 DEF WayBack
    <3>. QED BY <1>1, <2>1, <2>3, <3>2 DEF TrialStands, Up
  <2>. QED BY <2>3, <2>4, <2>5 DEF Writing
<1>9. ASSUME NEW v \in Releases, Arming(v)
      PROVE  Writing' /\ Slots' /\ TrialStands'
  <2>. DEFINE a == <<"boot", Other(cur)>>
              b == <<"pend", v>>
              c == <<"tries", 0>>
              d == <<"atry", 0>>
  <2>1. pc = "reboot" /\ ram.staged /\ slot[Other(cur)] # None /\ v # None
    BY <1>9, OtaConstants DEF Arming
  <2>2. CASE writes = <<a, b, c, d>>
    <3>1. w = a /\ writes' = <<b, c, d>>
      BY <1>1, <2>2, Unrolled DEF w
    <3>2. flash'.boot = Other(cur) /\ flash'.pend = flash.pend
      BY <1>3, <2>1, <3>1
    <3>3. Arming(v)'
      BY <1>1, <2>1, <3>1, <3>2 DEF Arming
    <3>4. ~Quiet' /\ ~Quiet /\ ~Passing' /\ ~Returning'
      BY <1>1, <2>1, <2>2, <3>1 DEF Quiet, Decides, Passing, Returning
    <3>5. Slots'
      BY <1>1, <1>4, <2>1, <3>2 DEF OtaInv, Slots, Up
    <3>6. TrialStands'
      BY <1>1, <2>1, <3>2, <3>4 DEF OtaInv, TrialStands, Up
    <3>. QED BY <3>3, <3>5, <3>6 DEF Writing
  <2>3. CASE writes = <<b, c, d>> /\ flash.boot = Other(cur)
    <3>1. w = b /\ writes' = <<c, d>>
      BY <1>1, <2>3, Unrolled DEF w
    <3>2. flash'.boot = Other(cur) /\ flash'.pend = v
      BY <1>3, <2>3, <3>1
    <3>3. Quiet' /\ ~Quiet /\ ~Passing' /\ ~Returning'
      BY <1>1, <2>1, <2>3, <3>1 DEF Quiet, Decides, Passing, Returning
    <3>4. Slots'
      BY <1>1, <1>4, <2>1, <3>2 DEF OtaInv, Slots, Up
    <3>5. TrialStands'
      <4>. SUFFICES ASSUME ~slipped PROVE TrialStands'
        BY <1>1 DEF TrialStands
      <4>1. ~ram.pending /\ slot[cur] \in tested
        BY <2>1, <3>3 DEF OtaInv, TrialStands, Up
      <4>2. WayBack'
        BY <1>1, <1>2, <2>1, <3>2, <4>1, TwoSlots DEF WayBack
      <4>. QED BY <1>1, <2>1, <3>3, <4>1, <4>2 DEF TrialStands, Up
    <3>. QED BY <3>3, <3>4, <3>5 DEF Writing
  <2>. QED BY <1>9, <2>2, <2>3 DEF Arming
<1>. QED BY <1>5, <1>6, <1>7, <1>8, <1>9 DEF OtaInv, Writing, Returning

LEMMA OtaStep ==
  ASSUME OtaConfig, LadderConfig, OtaInv, [Next]_vars PROVE OtaInv'
<1>1. OtaTypes'
  BY OtaTypesStep DEF OtaInv
<1>2. Writing' /\ Slots' /\ TrialStands'
  <2>1. CASE Loop
    BY <2>1, ConfirmStep, ExpiredStep, StartApplyStep, BeginFlashStep, EndFlashStep, PlainSteps
    DEF Loop
  <2>2. CASE Write
    BY <2>2, WriteStep
  <2>3. CASE Boot
    BY <2>3, BootStep
  <2>4. CASE Restart \/ Reset
    BY <2>4, OffStep
  <2>5. CASE Tick \/ requestCheck \/ \E force \in BOOLEAN : requestApply(force)
    BY <2>5, PlainSteps
  <2>6. CASE Publish \/ (\E r \in SUBSET Rungs : Network(r)) \/ UNCHANGED vars
    BY <2>6, WorldSteps
  <2>. QED BY <2>1, <2>2, <2>3, <2>4, <2>5, <2>6 DEF Next
<1>. QED BY <1>1, <1>2 DEF OtaInv

(* The slots stay bootable, and what may still be written keeps the way back  *)
(* of a trial, whatever resets come between the entries.  (otaTask(),         *)
(* doApply(), bootValidate().)                                                *)
THEOREM OtaInvariant == ASSUME OtaConfig, LadderConfig PROVE Spec => []OtaInv
<1>1. Init => OtaInv
  BY OtaInit
<1>2. OtaInv /\ [Next]_vars => OtaInv'
  BY OtaStep
<1>. QED BY <1>1, <1>2, PTL DEF Spec

(* The boot slot holds a whole image at every moment a reset may come.       *)
(* (Update.begin() erases only the slot that is not running, and not while    *)
(* an image is staged.)                                                       *)
THEOREM AlwaysBootableHolds ==
  ASSUME OtaConfig, LadderConfig PROVE Spec => []AlwaysBootable
<1>1. OtaInv => AlwaysBootable
  BY DEF OtaInv, Slots, AlwaysBootable
<1>. QED BY <1>1, OtaInvariant, PTL

(* An image that never passed its self-test runs on trial only, with its way *)
(* back in flash, unless a reset fell between the entries of a staging or of  *)
(* a rollback, or a second release was flashed during a trial.                *)
THEOREM OnTrialOnlyHolds ==
  ASSUME OtaConfig, LadderConfig PROVE Spec => []OnTrialOnly
<1>1. OtaInv => OnTrialOnly
  BY DEF OtaInv, TrialStands, OnTrialOnly, Running
<1>. QED BY <1>1, OtaInvariant, PTL

-----------------------------------------------------------------------------
(* A trial that has not passed has never been connected; while a broker has  *)
(* been reachable since the boot it is still on its first walk down the      *)
(* ladder, and has used one period per failure.                              *)
Unheard == ram.pending => steady \subseteq reach /\ (~ram.pass => ~mq.connected)

FirstWalk ==
  ram.pending /\ ~ram.pass /\ Running \in Healthy /\ steady # {} =>
    \/ ram.age = 0 /\ mq.rung = 0 /\ mq.fails = 0
    \/ /\ 0 \notin steady
       /\ \/ mq.rung = 0 /\ mq.fails = ram.age
          \/ mq.rung = 1 /\ ram.age = BrokerFailsPerRung

WalkInv == Unheard /\ FirstWalk

LEMMA WalkRests ==
  ASSUME OtaInv, WalkInv,
         ram'.pending =>
           /\ ram.pending /\ ram'.pass = ram.pass /\ ram'.age = ram.age
           /\ slot'[cur] = slot[cur] /\ UNCHANGED <<cur, mq, reach, steady>>
  PROVE  WalkInv'
  BY DEF WalkInv, Unheard, FirstWalk, Running

(* A failed period takes the walk one step further down the ladder. *)
LEMMA WalkTick ==
  ASSUME OtaConfig, LadderConfig, BrokerFailsPerRung <= SelfTestTimeout,
         OtaInv, WalkInv, Tick
  PROVE  WalkInv'
<1>1. /\ ram \in Rams /\ mq \in Ladder /\ steady \subseteq Rungs
      /\ UNCHANGED <<cur, slot, reach, steady>>
  BY TypesSplit DEF OtaInv, OtaTypes, Tick
<1>2. /\ ram'.pending = ram.pending
      /\ ram'.age = AtMost(ram.age + 1, AgeCap(ram.pending))
      /\ ram'.pass <=> (ram.pass \/ mq'.connected)
  BY <1>1 DEF Tick, Rams
<1>3. Unheard'
  BY <1>1, <1>2 DEF WalkInv, Unheard
<1>4. FirstWalk'
  <2>. SUFFICES ASSUME ram.pending, ~ram.pass, ~mq'.connected, slot[cur] \in Healthy,
                       steady # {}
                PROVE  FirstWalk'
    BY <1>1, <1>2 DEF FirstWalk, Running
  <2>1. mq' = Attempt(mq, reach)
    BY <1>1 DEF Tick, Running, Service, WalkInv, Unheard
  <2>2. /\ BrokerFailsPerRung \in Nat \ {0} /\ SelfTestTimeout \in Nat
        /\ mq.fails \in Nat /\ mq.fails < BrokerFailsPerRung /\ mq.rung \in {0, 1}
        /\ ram.age \in Nat
    BY <1>1, OtaConstants DEF Ladder, Rungs, Rams
  <2>3. mq.rung \notin reach
    BY <1>1, <2>1 DEF Attempt, Ladder
  <2>4. /\ mq.rung = 0 /\ mq.fails = ram.age
        /\ 0 \notin steady
    <3>1. steady \subseteq reach /\ steady \subseteq {0, 1}
      BY <1>1 DEF WalkInv, Unheard, Rungs
    <3>2. CASE ram.age = 0 /\ mq.rung = 0 /\ mq.fails = 0
      BY <2>3, <3>1, <3>2
    <3>3. CASE 0 \notin steady /\ mq.rung = 0 /\ mq.fails = ram.age
      BY <3>3
    <3>4. CASE 0 \notin steady /\ mq.rung = 1
      <4>1. 1 \in steady
        BY <3>1, <3>4
      <4>. QED BY <2>3, <3>1, <3>4, <4>1
    <3>. QED BY <3>2, <3>3, <3>4 DEF WalkInv, FirstWalk, Running
  <2>5. ram'.age = ram.age + 1
    BY <1>2, <2>2, <2>4 DEF AtMost, AgeCap
  <2>6. CASE mq.fails + 1 < BrokerFailsPerRung
    <3>1. mq'.rung = 0 /\ mq'.fails = mq.fails + 1
      BY <1>1, <2>1, <2>3, <2>4, <2>6 DEF Attempt, Ladder
    <3>. QED BY <1>1, <2>4, <2>5, <3>1 DEF FirstWalk
  <2>7. CASE ~(mq.fails + 1 < BrokerFailsPerRung)
    <3>1. mq' = [mq EXCEPT !.fails = 0, !.rung = 1 - mq.rung]
      BY <2>1, <2>3, <2>7 DEF Attempt
    <3>2. mq'.rung = 1
      BY <1>1, <2>4, <3>1 DEF Ladder
    <3>3. ram'.age = BrokerFailsPerRung
      BY <2>2, <2>4, <2>5, <2>7
    <3>. QED BY <1>1, <2>4, <3>2, <3>3 DEF FirstWalk
  <2>. QED BY <2>6, <2>7
<1>. QED BY <1>3, <1>4 DEF WalkInv

(* Every step keeps the walk. *)
LEMMA WalkStep ==
  ASSUME OtaConfig, LadderConfig, BrokerFailsPerRung <= SelfTestTimeout,
         OtaInv, WalkInv, [Next]_vars
  PROVE  WalkInv'
<1>1. /\ ram \in Rams /\ cur \in {0, 1} /\ slot \in [{0, 1} -> Kept] /\ mq \in Ladder
  BY TypesSplit DEF OtaInv, OtaTypes
<1>2. CASE Tick
  BY <1>2, WalkTick
<1>3. CASE Confirm
  <2>1. ~ram'.pending
    BY <1>1, <1>3 DEF Confirm, Rams
  <2>. QED BY <2>1 DEF WalkInv, Unheard, FirstWalk
<1>4. CASE Restart \/ Reset
  <2>1. ~ram'.pending
    BY <1>4 DEF Restart, Reset, Fresh
  <2>. QED BY <2>1 DEF WalkInv, Unheard, FirstWalk
<1>5. CASE BootTrial
  <2>1. ram = Fresh /\ ram' = [ram EXCEPT !.pending = TRUE] /\ mq' = AtBoot
        /\ reach' \in SUBSET Rungs /\ steady' = reach'
    BY <1>5 DEF BootTrial, OtaInv, Slots
  <2>2. ram'.age = 0 /\ mq'.rung = 0 /\ mq'.fails = 0 /\ ~mq'.connected
    BY <2>1 DEF Fresh, AtBoot
  <2>. QED BY <2>1, <2>2 DEF WalkInv, Unheard, FirstWalk
<1>6. CASE BootConfirmed \/ BootGivesUp
  <2>1. ~ram'.pending
    <3>1. ram' = Fresh
      BY <1>6 DEF BootConfirmed, BootGivesUp, OtaInv, Slots
    <3>. QED BY <3>1 DEF Fresh
  <2>. QED BY <2>1 DEF WalkInv, Unheard, FirstWalk
<1>7. ASSUME NEW r \in SUBSET Rungs, Network(r) PROVE WalkInv'
  <2>1. /\ reach' = r /\ steady' = steady \cap r /\ mq' = Dropped(mq, r)
        /\ UNCHANGED <<ram, slot, cur>>
    BY <1>7 DEF Network
  <2>2. /\ mq'.rung = mq.rung /\ mq'.fails = mq.fails
        /\ mq'.connected => mq.connected
    BY <1>1, <2>1 DEF Dropped, Ladder
  <2>3. Unheard'
    BY <2>1, <2>2 DEF WalkInv, Unheard
  <2>4. FirstWalk'
    BY <2>1, <2>2 DEF WalkInv, FirstWalk, Running
  <2>. QED BY <2>3, <2>4 DEF WalkInv
<1>8. CASE BeginFlash \/ EndFlash
  <2>1. slot'[cur] = slot[cur] /\ UNCHANGED <<cur, mq, reach, steady>>
    BY <1>1, <1>8, TwoSlots DEF BeginFlash, EndFlash, trial
  <2>2. ram'.pending = ram.pending /\ ram'.pass = ram.pass /\ ram'.age = ram.age
    BY <1>1, <1>8 DEF BeginFlash, EndFlash, Rams
  <2>. QED BY <2>1, <2>2, WalkRests
<1>9. CASE \/ SelfTestExpired \/ SelfTestOpen \/ Check \/ SkipCheck \/ StartApply
           \/ NoApply \/ ApplyFails \/ (\E safe \in BOOLEAN : Reboot(safe)) \/ Write
           \/ requestCheck \/ (\E force \in BOOLEAN : requestApply(force))
           \/ Publish \/ UNCHANGED vars
  <2>1. UNCHANGED <<slot, cur, mq, reach, steady>>
    BY <1>9 DEF SelfTestExpired, SelfTestOpen, Check, SkipCheck, StartApply, NoApply,
       ApplyFails, Reboot, Write, requestCheck, requestApply, Publish, vars, trial
  <2>2. ram'.pending = ram.pending /\ ram'.pass = ram.pass /\ ram'.age = ram.age
    BY <1>1, <1>9 DEF SelfTestExpired, SelfTestOpen, Check, Checked, SkipCheck, StartApply,
       Asked, NoApply, ApplyFails, Reboot, Write, requestCheck, requestApply, Publish, vars, Rams
  <2>. QED BY <2>1, <2>2, WalkRests
<1>. QED BY <1>2, <1>3, <1>4, <1>5, <1>6, <1>7, <1>8, <1>9 DEF Next, Loop, Boot

(* The self-test never expires on a healthy image while one broker has been   *)
(* reachable since it booted, for every number of failures per rung that fits *)
(* into the window: the first walk down the ladder ends in a connection.      *)
THEOREM GoodIsKeptHolds ==
  ASSUME OtaConfig, LadderConfig, BrokerFailsPerRung <= SelfTestTimeout
  PROVE  Spec => GoodIsKept
<1>1. Init => WalkInv
  BY DEF Init, WalkInv, Unheard, FirstWalk, Fresh
<1>2. OtaInv /\ WalkInv /\ [Next]_vars => WalkInv'
  BY WalkStep
<1>3. OtaInv /\ WalkInv /\ [Next]_vars
        => [SelfTestExpired => Running \notin Healthy \/ steady = {}]_vars
  <2>. SUFFICES ASSUME OtaInv, WalkInv, SelfTestExpired, Running \in Healthy, steady # {}
                PROVE  FALSE
    OBVIOUS
  <2>1. ram.pending /\ ~ram.pass /\ ram.age > SelfTestTimeout
    BY DEF SelfTestExpired
  <2>2. /\ ram.age \in Nat /\ SelfTestTimeout \in Nat /\ BrokerFailsPerRung \in Nat
        /\ mq.fails < BrokerFailsPerRung
    BY TypesSplit, OtaConstants DEF OtaInv, OtaTypes, Rams, Ladder
  <2>3. ram.age <= BrokerFailsPerRung
    BY <2>1, <2>2 DEF WalkInv, FirstWalk
  <2>. QED BY <2>1, <2>2, <2>3
<1>. QED BY <1>1, <1>2, <1>3, OtaInvariant, PTL DEF Spec, GoodIsKept

-----------------------------------------------------------------------------
(* A trial of an image that cannot connect never passes, so only images that  *)
(* can connect are ever confirmed.                                            *)
Barren == ram.pending /\ Running \notin Healthy => ~ram.pass /\ ~mq.connected

TrialInv == Barren /\ tested \subseteq Healthy

LEMMA BarrenRests ==
  ASSUME OtaInv, TrialInv, tested' = tested,
         ram'.pending =>
           /\ ram.pending /\ ram'.pass = ram.pass
           /\ mq'.connected => mq.connected
           /\ slot'[cur] = slot[cur] /\ cur' = cur
  PROVE  TrialInv'
  BY DEF TrialInv, Barren, Running

LEMMA TrialStep ==
  ASSUME OtaConfig, LadderConfig, OtaInv, TrialInv, [Next]_vars PROVE TrialInv'
<1>1. /\ ram \in Rams /\ cur \in {0, 1} /\ slot \in [{0, 1} -> Kept] /\ mq \in Ladder
  BY TypesSplit DEF OtaInv, OtaTypes
<1>2. CASE Tick
  <2>1. /\ ram'.pending = ram.pending /\ (ram'.pass <=> (ram.pass \/ mq'.connected))
        /\ UNCHANGED <<cur, slot, tested>>
    BY <1>1, <1>2 DEF Tick, Rams, past
  <2>2. ASSUME ram.pending, Running \notin Healthy PROVE ~mq'.connected
    <3>1. ~mq.connected /\ mq' = Attempt(mq, {})
      BY <1>2, <2>2 DEF Tick, Service, TrialInv, Barren
    <3>2. mq'.connected = mq.connected
      BY <1>1, <3>1 DEF Attempt, Ladder
    <3>. QED BY <3>1, <3>2
  <2>. QED BY <2>1, <2>2 DEF TrialInv, Barren, Running
<1>3. CASE Confirm
  <2>1. ~ram'.pending /\ tested' = tested \cup {Running}
    BY <1>1, <1>3 DEF Confirm, Rams
  <2>2. Running \in Healthy
    BY <1>3 DEF Confirm, TrialInv, Barren
  <2>. QED BY <2>1, <2>2 DEF TrialInv, Barren
<1>4. CASE Restart \/ Reset
  <2>1. ~ram'.pending /\ tested' = tested
    BY <1>4 DEF Restart, Reset, Fresh, past
  <2>. QED BY <2>1 DEF TrialInv, Barren
<1>5. CASE BootTrial
  <2>1. ram = Fresh /\ ram' = [ram EXCEPT !.pending = TRUE] /\ mq' = AtBoot /\ tested' = tested
    BY <1>5 DEF BootTrial, OtaInv, Slots, past
  <2>2. ~ram'.pass /\ ~mq'.connected
    BY <2>1 DEF Fresh, AtBoot
  <2>. QED BY <2>1, <2>2 DEF TrialInv, Barren
<1>6. CASE BootConfirmed \/ BootGivesUp
  <2>1. ~ram'.pending /\ tested' = tested
    <3>1. ram' = Fresh /\ tested' = tested
      BY <1>6 DEF BootConfirmed, BootGivesUp, OtaInv, Slots, past
    <3>. QED BY <3>1 DEF Fresh
  <2>. QED BY <2>1 DEF TrialInv, Barren
<1>7. ASSUME NEW r \in SUBSET Rungs, Network(r) PROVE TrialInv'
  <2>1. mq' = Dropped(mq, r) /\ UNCHANGED <<ram, slot, cur, tested>>
    BY <1>7 DEF Network, past
  <2>2. mq'.connected => mq.connected
    BY <1>1, <2>1 DEF Dropped, Ladder
  <2>. QED BY <2>1, <2>2, BarrenRests
<1>8. CASE BeginFlash \/ EndFlash
  <2>1. slot'[cur] = slot[cur] /\ UNCHANGED <<cur, mq, tested>>
    BY <1>1, <1>8, TwoSlots DEF BeginFlash, EndFlash, trial, past
  <2>2. ram'.pending = ram.pending /\ ram'.pass = ram.pass
    BY <1>1, <1>8 DEF BeginFlash, EndFlash, Rams
  <2>. QED BY <2>1, <2>2, BarrenRests
<1>9. CASE \/ SelfTestExpired \/ SelfTestOpen \/ Check \/ SkipCheck \/ StartApply
           \/ NoApply \/ ApplyFails \/ (\E safe \in BOOLEAN : Reboot(safe)) \/ Write
           \/ requestCheck \/ (\E force \in BOOLEAN : requestApply(force))
           \/ Publish \/ UNCHANGED vars
  <2>1. UNCHANGED <<slot, cur, mq, tested>>
    BY <1>9 DEF SelfTestExpired, SelfTestOpen, Check, SkipCheck, StartApply, NoApply,
       ApplyFails, Reboot, Write, requestCheck, requestApply, Publish, vars, trial, past
  <2>2. ram'.pending = ram.pending /\ ram'.pass = ram.pass
    BY <1>1, <1>9 DEF SelfTestExpired, SelfTestOpen, Check, Checked, SkipCheck, StartApply,
       Asked, NoApply, ApplyFails, Reboot, Write, requestCheck, requestApply, Publish, vars, Rams
  <2>. QED BY <2>1, <2>2, BarrenRests
<1>. QED BY <1>2, <1>3, <1>4, <1>5, <1>6, <1>7, <1>8, <1>9 DEF Next, Loop, Boot

(* An image that cannot connect runs on trial only, with an image in the other *)
(* slot that can, unless it slipped past its trial (see slipped): what is left *)
(* of BadIsLeft is that the trial ends.  (noteSelfTestPass(), otaTask().)      *)
BrokenOnTrial ==
  Up /\ ~slipped /\ Running \notin Healthy =>
    ram.pending /\ flash.pend # None /\ flash.boot = cur /\ slot[Other(cur)] \in Healthy

THEOREM BrokenOnTrialHolds ==
  ASSUME OtaConfig, LadderConfig PROVE Spec => []BrokenOnTrial
<1>1. Init => TrialInv
  BY DEF OtaConfig, Init, TrialInv, Barren, Fresh
<1>2. OtaInv /\ TrialInv /\ [Next]_vars => TrialInv'
  BY TrialStep
<1>3. OtaInv /\ TrialInv => BrokenOnTrial
  BY DEF OtaInv, Slots, TrialStands, WayBack, TrialInv, BrokenOnTrial, Running
<1>. QED BY <1>1, <1>2, <1>3, OtaInvariant, PTL DEF Spec

===============================================================================
