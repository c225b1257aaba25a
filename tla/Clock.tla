-------------------------------- MODULE Clock --------------------------------
(***************************************************************************)
(* The firmware's seconds.  Every module with a timer keeps its own copy of  *)
(* elapsedS(): a clock that stepped backwards counts as no time elapsed.     *)
(***************************************************************************)
EXTENDS Integers

NoTime == -1                     \* a "has..." flag of false beside a time stamp
Time   == Nat \cup {NoTime}

elapsedS(now, then) == IF now >= then THEN now - then ELSE 0

=============================================================================
