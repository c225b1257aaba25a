---------------------------- MODULE AntiShortCycle ----------------------------
(***************************************************************************)
(* What the thermostat promises the compressor, in wall-clock seconds and   *)
(* with no word of clocks, flash blobs or reboots (lib/CompressorGuard and   *)
(* docs/04 1a): it rests MinOffS between runs unless a person has just      *)
(* asked, and it starts at most MaxStartsPerHour times in any hour that the  *)
(* record of its past covers.  GuardLifecycle implements this.               *)
(***************************************************************************)
EXTENDS Integers, Sequences, FiniteSets

CONSTANTS MinOffS, MaxStartsPerHour, HourS,
          ManualWindowS,  \* how long a user action licenses one early start
          Delays          \* the steps the wall clock may take

NoTime == -1

VARIABLES
  real,       \* wall clock
  on,         \* our demand lets the compressor run
  offAt,      \* when it last stopped, NoTime if it never ran
  starts,     \* when it started, oldest first, as far as the record goes
  askedAt     \* the last user action not yet used or lost, else NoTime

vars == <<real, on, offAt, starts, askedAt>>

Init ==
  /\ real = 0 /\ on = FALSE /\ offAt = NoTime /\ starts = <<>>
  /\ askedAt = NoTime

Rested == offAt = NoTime \/ real - offAt >= MinOffS
Asked  == askedAt # NoTime /\ real - askedAt <= ManualWindowS

StartsInTheHour ==
  Cardinality({i \in DOMAIN starts : real - starts[i] < HourS})

TimePasses(d) == real' = real + d /\ UNCHANGED <<on, offAt, starts, askedAt>>

UserAsks == askedAt' = real /\ UNCHANGED <<real, on, offAt, starts>>

(* The licence of a user action is good for one start, early or not. *)
Start ==
  /\ ~on
  /\ StartsInTheHour < MaxStartsPerHour
  /\ Rested \/ Asked
  /\ on' = TRUE /\ starts' = Append(starts, real)
  /\ askedAt' = IF Asked THEN NoTime ELSE askedAt
  /\ UNCHANGED <<real, offAt>>

Stop ==
  /\ on /\ on' = FALSE /\ offAt' = real
  /\ UNCHANGED <<real, starts, askedAt>>

(* A reboot: the licence is lost and the wall clock has moved on.            *)
Reboot(d) ==
  /\ ~on
  /\ real' = real + d /\ askedAt' = NoTime
  /\ UNCHANGED <<on, offAt, starts>>

(* A reboot that finds no record of the past starts the count anew. *)
Forget(d) ==
  /\ ~on
  /\ real' = real + d /\ starts' = <<>> /\ askedAt' = NoTime
  /\ UNCHANGED <<on, offAt>>

(* A licence may be spent on a request that found the compressor running. *)
Spend == askedAt' = NoTime /\ UNCHANGED <<real, on, offAt, starts>>

Next ==
  \/ UserAsks \/ Spend \/ Start \/ Stop
  \/ \E d \in Delays : TimePasses(d) \/ Reboot(d) \/ Forget(d)

Spec == Init /\ [][Next]_vars

=============================================================================
