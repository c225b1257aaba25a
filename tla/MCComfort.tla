------------------------------- MODULE MCComfort ------------------------------
(***************************************************************************)
(* The small instance of Comfort: four temperatures and a deadband of one.   *)
(***************************************************************************)
EXTENDS Comfort

EcoPair       == [heat |-> 0, cool |-> 3]
EmergencyPair == [heat |-> 1, cool |-> 3]
===============================================================================
