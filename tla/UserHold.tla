------------------------------- MODULE UserHold -------------------------------
(***************************************************************************)
(* What a hold promises the person who set it, in wall-clock seconds and     *)
(* with no word of flash blobs or of a clock that falls behind (docs/06      *)
(* "Holds", lib/ModeStateMachine): an override ends when the person says so, *)
(* when the next preset arrives if it was set until then, or when its time   *)
(* is over, and never before; a crash returns to the last override kept.     *)
(* What the person or the schedule says is a variable of its own, so that no *)
(* other step can pass for a decision.  HoldLifecycle implements this.       *)
(***************************************************************************)
EXTENDS Clock

CONSTANTS HoldShortS, HoldLongS,
          Delays          \* the steps the wall clock may take

VARIABLES
  wall,                \* wall clock
  alive,               \* the firmware runs
  told,                \* by the last step: a decision, "preset" or "nothing"
  kind, until,         \* the override in force, its end (NoTime when open)
  keptKind, keptUntil, \* the one a crash returns to
  old                  \* the kind an earlier firmware left behind

kept == <<keptKind, keptUntil, old>>
vars == <<wall, alive, told, kind, until, kept>>

Timed == {"two_hours", "four_hours"}
Types == Timed \cup {"none", "until_next_preset", "indefinite"}

DurationS(t) == IF t = "two_hours" THEN HoldShortS ELSE HoldLongS
Promised(t, start) == IF t \in Timed THEN start + DurationS(t) ELSE NoTime

Init ==
  /\ wall = 0 /\ alive = FALSE /\ told = "nothing" /\ old \in Types
  /\ kind = "none" /\ until = NoTime /\ keptKind = "none" /\ keptUntil = NoTime

Ends == kind' = "none" /\ until' = NoTime

(* While it runs: what was told is done in that very step. *)
Decide(t) ==
  /\ alive /\ told' = t
  /\ kind' = t /\ until' = Promised(t, wall)
  /\ UNCHANGED <<wall, alive, kept>>

PresetArrives ==
  /\ alive /\ told' = "preset"
  /\ IF kind = "until_next_preset" THEN Ends ELSE UNCHANGED <<kind, until>>
  /\ UNCHANGED <<wall, alive, kept>>

(* Told nothing, or of a preset that finds the time over. *)
TimeIsUp ==
  /\ alive /\ told' \in {"nothing", "preset"}
  /\ kind \in Timed /\ wall >= until /\ Ends
  /\ UNCHANGED <<wall, alive, kept>>

Keep ==
  /\ alive /\ told' = "nothing"
  /\ keptKind' = kind /\ keptUntil' = until
  /\ UNCHANGED <<wall, alive, kind, until, old>>

NothingHappens ==
  /\ told' = "nothing"
  /\ UNCHANGED <<wall, alive, kind, until, kept>>

TimePasses ==
  /\ alive /\ told' = "nothing" /\ wall' = wall + 1
  /\ UNCHANGED <<alive, kind, until, kept>>

Crash ==
  /\ alive /\ alive' = FALSE /\ told' = "nothing"
  /\ kind' = keptKind /\ until' = keptUntil
  /\ UNCHANGED <<wall, kept>>

(* Back after an outage: with what was kept, unless its time is over.        *)
ComeBack(d) ==
  /\ ~alive /\ alive' = TRUE /\ told' = "nothing"
  /\ old = "none"
  /\ wall' = wall + d
  /\ \/ UNCHANGED <<kind, until>>
     \/ kind \in Timed /\ wall' >= until /\ Ends
  /\ UNCHANGED kept

(* The first boot after the upgrade: the old override starts over.           *)
Adopt(d) ==
  /\ ~alive /\ alive' = TRUE /\ told' = "nothing"
  /\ kind = "none" /\ old # "none"
  /\ wall' = wall + d /\ old' = "none"
  /\ kind' = old /\ until' = Promised(old, wall')
  /\ keptKind' = kind' /\ keptUntil' = until'

Next ==
  \/ \E t \in Types : Decide(t)
  \/ PresetArrives \/ TimeIsUp \/ Keep \/ NothingHappens \/ TimePasses \/ Crash
  \/ \E d \in Delays : ComeBack(d) \/ Adopt(d)

Spec == Init /\ [][Next]_vars

=============================================================================
