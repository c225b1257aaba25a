--------------------------- MODULE MCGuardLifecycle ---------------------------
(* GuardLifecycle for TLC.  The scale keeps the order of the real values:    *)
(* jitter < minOn <= minOff <= hold-off < hour, a guard blob saved less often *)
(* than the clock, and a reset window long enough for ResetLoopCount boots.   *)
EXTENDS GuardLifecycle

=============================================================================
