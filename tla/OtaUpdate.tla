------------------------------ MODULE OtaUpdate -------------------------------
(***************************************************************************)
(* The over-the-air update of one node: ota_client's task with its checks,   *)
(* applies, self-test and both rollbacks, the part of setup() that counts a  *)
(* trial boot, and the MQTT task whose connection is the self-test.          *)
(*                                                                           *)
(* Flash is written one entry at a time: "writes" is what the task has still *)
(* to write before it goes on, and a Reset loses it.  A release is a number, *)
(* and None is an absent or half-written image or an empty NVS entry.        *)
(* One step of time is one reconnect period of the MQTT task.  The MQTT task *)
(* decides something here during a trial only, and is followed only then.    *)
(* resets, tested, slipped and steady are history.                           *)
(***************************************************************************)
EXTENDS BrokerLadder, Sequences, FiniteSets

CONSTANTS
  Healthy,            \* the releases that can connect to a broker
  MaxRelease,         \* bound: releases are 1..MaxRelease; 1 is the factory image
  MaxBootAttempts,    \* kMaxBootAttempts (3)
  MaxApplyAttempts,   \* kMaxApplyAttempts (3)
  SelfTestTimeout,    \* kSelfTestTimeoutMs
  BootCheckGrace,     \* kBootCheckGraceMs
  MaxResets           \* bound: resets the firmware did not ask for

Releases == 1..MaxRelease
None     == 0

ASSUME OtaConfig ==
  /\ MaxRelease \in Nat \ {0} /\ Healthy \subseteq Releases /\ 1 \in Healthy
  /\ MaxBootAttempts \in Nat \ {0} /\ MaxApplyAttempts \in Nat \ {0}
  /\ SelfTestTimeout \in Nat /\ BootCheckGrace \in Nat /\ MaxResets \in Nat

VARIABLES
  pc,        \* "off", "restart", or the place in otaTask's loop
  cur,       \* the running slot
  slot,      \* the image in each slot
  flash,     \* the boot slot and the NVS namespace "ota"
  writes,    \* entries <<key, value>> still to write
  ram,       \* the task's flags; lost by a reset
  mq,        \* during a trial, the MQTT task's ladder
  reach,     \* during a trial, the brokers that answer
  latest,    \* the newest release in the catalogue
  resets, tested, slipped, steady

trial   == <<mq, reach, steady>>
past    == <<resets, tested, slipped>>
vars    == <<pc, cur, slot, flash, writes, ram, latest, trial, past>>

Other(s) == 1 - s
Running  == slot[cur]
At(p)    == pc = p /\ writes = <<>>
Fresh    == [age |-> 0, pending |-> FALSE, pass |-> FALSE, staged |-> FALSE, avail |-> None,
             offered |-> FALSE, checkReq |-> FALSE, applyReq |-> FALSE, force |-> FALSE]

TypeOK ==
  /\ pc \in {"off", "restart", "selftest", "check", "apply", "reboot", "download", "flash"}
  /\ cur \in {0, 1} /\ slot \in [{0, 1} -> Releases \cup {None}]
  /\ flash \in [boot : {0, 1}, pend : Releases \cup {None}, tries : 0..(MaxBootAttempts - 1),
                atryv : Releases \cup {None}, atry : 0..MaxApplyAttempts]
  /\ ram \in [age : 0..(SelfTestTimeout + 1) \cup 0..BootCheckGrace, pending : BOOLEAN, pass : BOOLEAN,
              staged : BOOLEAN, avail : Releases \cup {None}, offered : BOOLEAN,
              checkReq : BOOLEAN, applyReq : BOOLEAN, force : BOOLEAN]
  /\ mq \in Ladder /\ latest \in Releases /\ reach \subseteq Rungs
  /\ tested \subseteq Releases /\ slipped \in BOOLEAN /\ steady \subseteq Rungs

Init ==
  /\ pc = "off" /\ cur = 0 /\ slot = [s \in {0, 1} |-> IF s = 0 THEN 1 ELSE None]
  /\ flash = [boot |-> 0, pend |-> None, tries |-> 0, atryv |-> None, atry |-> 0]
  /\ writes = <<>> /\ ram = Fresh /\ latest = 1
  /\ mq = AtBoot /\ reach = {} /\ steady = {}
  /\ resets = 0 /\ tested = {1} /\ slipped = FALSE

-----------------------------------------------------------------------------
(* One entry reaches the flash.  A boot slot is only set to a whole image.   *)
Write ==
  /\ writes # <<>>
  /\ LET w == Head(writes)
     IN flash' = IF w[1] = "boot" /\ slot[w[2]] = None THEN flash
                 ELSE [flash EXCEPT ![w[1]] = w[2]]
  /\ writes' = Tail(writes)
  /\ UNCHANGED <<pc, cur, slot, ram, latest, trial, past>>

RollBackTwice(s) == << <<"boot", Other(s)>> >>   \* mutant: "pend" is not cleared
RollBack(s) == << <<"pend", None>>, <<"boot", Other(s)>> >>

EndTrial == mq' = AtBoot /\ reach' = {} /\ steady' = {}

(* setup(): bootValidate() counts the boot of a pending image, or leaves it. *)
BootConfirmed ==
  /\ pc = "off" /\ flash.pend = None
  /\ cur' = flash.boot
  /\ pc' = "selftest"
  /\ UNCHANGED <<slot, flash, writes, ram, latest, trial, past>>

BootTrial ==
  /\ pc = "off" /\ flash.pend # None /\ flash.tries + 1 < MaxBootAttempts
  /\ cur' = flash.boot
  /\ pc' = "selftest"
  /\ writes' = << <<"tries", flash.tries + 1>> >>
  /\ ram' = [ram EXCEPT !.pending = TRUE]
  /\ mq' = AtBoot /\ reach' \in SUBSET Rungs /\ steady' = reach'
  /\ UNCHANGED <<slot, flash, latest, past>>

BootGivesUp ==
  /\ pc = "off" /\ flash.pend # None /\ flash.tries + 1 >= MaxBootAttempts
  /\ cur' = flash.boot
  /\ pc' = "restart"
  /\ writes' = RollBack(cur')
  /\ UNCHANGED <<slot, flash, ram, latest, trial, past>>

(* ESP.restart() *)
Restart ==
  /\ At("restart")
  /\ pc' = "off" /\ ram' = Fresh
  /\ EndTrial
  /\ UNCHANGED <<cur, slot, flash, writes, latest, past>>

-----------------------------------------------------------------------------
(* The age of the boot counts to the self-test's end, or to the grace's. *)
AtMost(n, m) == IF n < m THEN n ELSE m
AgeCap(trialed) == IF trialed THEN SelfTestTimeout + 1 ELSE BootCheckGrace

(* otaTask(): the self-test window.  gSelfTestPass is read before the clock. *)
Confirm ==
  /\ At("selftest") /\ ram.pending /\ ram.pass
  /\ writes' = << <<"pend", None>>, <<"tries", 0>> >>
  /\ ram' = [ram EXCEPT !.pending = FALSE, !.pass = FALSE, !.age = AtMost(@, AgeCap(FALSE))]
  /\ tested' = tested \cup {Running}
  /\ pc' = "check"
  /\ EndTrial
  /\ UNCHANGED <<cur, slot, flash, latest, resets, slipped>>

SelfTestExpired ==
  /\ At("selftest") /\ ram.pending /\ ~ram.pass
  /\ ram.age > SelfTestTimeout
  /\ writes' = RollBack(cur)
  /\ pc' = "restart"
  /\ UNCHANGED <<cur, slot, flash, ram, latest, trial, past>>

SelfTestOpen ==
  /\ At("selftest")
  /\ ram.pending => ~ram.pass /\ ram.age <= SelfTestTimeout
  /\ pc' = "check"
  /\ UNCHANGED <<cur, slot, flash, writes, ram, latest, trial, past>>

(* doCheck() may fail on the network, the clock or the catalogue; the        *)
(* interval and its backoff are a free choice once the grace is over.        *)
Checked(found) ==
  LET asked == [ram EXCEPT !.checkReq = FALSE]
  IN IF found /\ latest > Running
     THEN [asked EXCEPT !.avail = latest, !.offered = TRUE, !.applyReq = TRUE]
     ELSE [asked EXCEPT !.offered = FALSE]

Check ==
  /\ At("check")
  /\ \/ ram.checkReq
     \/ ram.age >= BootCheckGrace /\ ~ram.staged
  /\ \E found \in BOOLEAN : ram' = Checked(found)
  /\ pc' = "apply"
  /\ UNCHANGED <<cur, slot, flash, writes, latest, trial, past>>

SkipCheck ==
  /\ At("check") /\ ~ram.checkReq
  /\ pc' = "apply"
  /\ UNCHANGED <<cur, slot, flash, writes, ram, latest, trial, past>>

(* The apply request, and doApply() up to the download. *)
Attempts == IF flash.atryv = ram.avail THEN flash.atry ELSE 0
Asked    == [ram EXCEPT !.applyReq = FALSE, !.force = FALSE]
WantedAgain == ram.applyReq             \* mutant: a staged image is not respected
Wanted   == ram.applyReq /\ ~ram.staged

StartApply ==
  /\ At("apply") /\ Wanted /\ ram.offered
  /\ Attempts < MaxApplyAttempts \/ ram.force
  /\ LET n == IF Attempts < MaxApplyAttempts THEN Attempts ELSE 0
     IN writes' = << <<"atryv", ram.avail>>, <<"atry", n + 1>> >>
  /\ ram' = Asked
  /\ pc' = "download"
  /\ UNCHANGED <<cur, slot, flash, latest, trial, past>>

NoApply ==
  /\ At("apply")
  /\ \/ ~Wanted /\ ram' = ram
     \/ /\ Wanted
        /\ ram.offered => Attempts >= MaxApplyAttempts /\ ~ram.force
        /\ ram' = [Asked EXCEPT !.offered = FALSE]
  /\ pc' = "reboot"
  /\ UNCHANGED <<cur, slot, flash, writes, latest, trial, past>>

(* The image is fetched and verified, in RAM or while it is flashed. *)
BeginFlash ==
  /\ At("download")
  /\ slot' = [slot EXCEPT ![Other(cur)] = None]
  /\ pc' = "flash"
  /\ slipped' = (slipped \/ ram.pending)
  /\ UNCHANGED <<cur, flash, writes, ram, latest, trial, resets, tested>>

ApplyFails ==
  /\ At("download") \/ At("flash")
  /\ ram' = [ram EXCEPT !.offered = FALSE]
  /\ pc' = "reboot"
  /\ UNCHANGED <<cur, slot, flash, writes, latest, trial, past>>

(* Update.end() activates the slot; then the trial is armed. *)
StagingUnarmed == << <<"boot", Other(cur)>>, <<"tries", 0>>, <<"atry", 0>> >>
                                        \* mutant: "pend" is forgotten
Staging == << <<"boot", Other(cur)>>, <<"pend", ram.avail>>, <<"tries", 0>>, <<"atry", 0>> >>

EndFlash ==
  /\ At("flash")
  /\ slot' = [slot EXCEPT ![Other(cur)] = ram.avail]
  /\ writes' = Staging
  /\ ram' = [ram EXCEPT !.staged = TRUE, !.offered = FALSE]
  /\ pc' = "reboot"
  /\ UNCHANGED <<cur, flash, latest, trial, past>>

(* otaSafeToReboot() is the caller's choice of a moment. *)
Reboot(safe) ==
  /\ At("reboot")
  /\ pc' = IF ram.staged /\ safe THEN "restart" ELSE "selftest"
  /\ UNCHANGED <<cur, slot, flash, writes, ram, latest, trial, past>>

-----------------------------------------------------------------------------
(* requestCheck() and requestApply(), of the panel or of MQTT. *)
Up == pc \notin {"off", "restart"}

requestCheck ==
  /\ Up /\ ~ram.checkReq
  /\ ram' = [ram EXCEPT !.checkReq = TRUE]
  /\ UNCHANGED <<pc, cur, slot, flash, writes, latest, trial, past>>

requestApply(force) ==
  /\ Up
  /\ ram' = [ram EXCEPT !.applyReq = TRUE, !.force = @ \/ force]
  /\ UNCHANGED <<pc, cur, slot, flash, writes, latest, trial, past>>

(* The MQTT task serves its ladder; a connection is noteSelfTestPass(). *)
Tick ==
  /\ Up
  /\ mq' = IF ram.pending THEN Service(mq, IF Running \in Healthy THEN reach ELSE {}) ELSE mq
  /\ ram' = [ram EXCEPT !.age = AtMost(@ + 1, AgeCap(ram.pending)),
                        !.pass = @ \/ mq'.connected]
  /\ UNCHANGED <<pc, cur, slot, flash, writes, reach, steady, latest, past>>

(* The world: a reset at any moment, a release, a broker that comes or goes. *)
Reset ==
  /\ pc # "off" /\ resets < MaxResets
  /\ resets' = resets + 1
  /\ pc' = "off" /\ writes' = <<>> /\ ram' = Fresh
  /\ EndTrial
  /\ slipped' = (slipped \/ \E i \in DOMAIN writes : writes[i][1] \in {"boot", "pend"})
  /\ UNCHANGED <<cur, slot, flash, latest, tested>>

Publish ==
  /\ latest < MaxRelease
  /\ latest' = latest + 1
  /\ UNCHANGED <<pc, cur, slot, flash, writes, ram, trial, past>>

Network(r) ==
  /\ ram.pending /\ r # reach
  /\ reach' = r /\ steady' = steady \cap r
  /\ mq' = Dropped(mq, r)
  /\ UNCHANGED <<pc, cur, slot, flash, writes, ram, latest, past>>

Boot == BootConfirmed \/ BootTrial \/ BootGivesUp

Loop ==
  \/ Confirm \/ SelfTestExpired \/ SelfTestOpen \/ Check \/ SkipCheck
  \/ StartApply \/ NoApply \/ BeginFlash \/ ApplyFails \/ EndFlash
  \/ \E safe \in BOOLEAN : Reboot(safe)

Next ==
  \/ Loop \/ Write \/ Boot \/ Restart \/ Tick
  \/ requestCheck \/ \E force \in BOOLEAN : requestApply(force)
  \/ Reset \/ Publish \/ \E r \in SUBSET Rungs : Network(r)

Fairness == WF_vars(Loop) /\ WF_vars(Write) /\ WF_vars(Boot) /\ WF_vars(Restart) /\ WF_vars(Tick)
Spec == Init /\ [][Next]_vars /\ Fairness

-----------------------------------------------------------------------------
(* The boot slot holds a whole image at every moment a reset may come:       *)
(* nothing flashes over the image the bootloader will start.                 *)
AlwaysBootable == slot[flash.boot] # None

(* Unless a reset fell between the writes of a staging or of a rollback, or  *)
(* a second release was flashed over the old image during a trial, an image  *)
(* that never passed its self-test runs on trial only, whatever resets and   *)
(* network losses come: there is always a way back to the old one.           *)
OnTrialOnly ==
  Up /\ ~slipped /\ Running \notin tested => ram.pending

(* The self-test does not blame a healthy image while one broker has been    *)
(* reachable since it booted: the ladder gets there before the timeout.      *)
GoodIsKept ==
  [][SelfTestExpired => Running \notin Healthy \/ steady = {}]_vars

(* An image that cannot connect is left, whether it hangs, loses its network *)
(* or resets, unless it slipped past its trial.                              *)
BadIsLeft ==
  (Up /\ ~slipped /\ Running \notin Healthy) ~> (slipped \/ (Up /\ Running \in Healthy))
===============================================================================
