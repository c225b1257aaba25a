----------------------------- MODULE BrokerLadder -----------------------------
(***************************************************************************)
(* The MQTT task's walk over two brokers as operators on a record: rung 0    *)
(* is the configured broker, rung 1 the standby.  "since" is the age of      *)
(* fallbackSinceMs; one step of time is one kMqttReconnectMs.                *)
(***************************************************************************)
EXTENDS Naturals

CONSTANTS
  BrokerFailsPerRung,   \* kBrokerFailsPerRung (2)
  BrokerProbePrimary    \* kBrokerProbePrimaryMs (300 s), in reconnect periods

ASSUME LadderConfig == BrokerFailsPerRung \in Nat \ {0} /\ BrokerProbePrimary \in Nat \ {0}

Rungs  == {0, 1}
Ladder == [rung : Rungs, fails : 0..(BrokerFailsPerRung - 1), connected : BOOLEAN,
           since : 0..BrokerProbePrimary]

AtBoot == [rung |-> 0, fails |-> 0, connected |-> FALSE, since |-> 0]

AttemptStuck(m, live) ==                \* mutant: the failures are never counted
  IF m.rung \in live THEN [m EXCEPT !.connected = TRUE] ELSE m

Attempt(m, live) ==
  IF m.rung \in live
  THEN [m EXCEPT !.connected = TRUE, !.fails = 0, !.since = IF m.rung = 1 THEN 0 ELSE @]
  ELSE IF m.fails + 1 < BrokerFailsPerRung THEN [m EXCEPT !.fails = @ + 1]
  ELSE [m EXCEPT !.fails = 0, !.rung = 1 - @]

(* On the standby the primary is probed, and used again when it answers. *)
Probe(m, live) ==
  IF 0 \in live THEN AtBoot ELSE [m EXCEPT !.since = 0]

Service(m, live) ==
  IF ~m.connected THEN Attempt(m, live)
  ELSE IF m.rung = 0 THEN m
  ELSE IF m.since + 1 < BrokerProbePrimary THEN [m EXCEPT !.since = @ + 1]
  ELSE Probe(m, live)

(* The connection is found broken when its broker has gone. *)
Dropped(m, live) == IF m.rung \in live THEN m ELSE [m EXCEPT !.connected = FALSE]
===============================================================================
