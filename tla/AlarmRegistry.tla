---------------------------- MODULE AlarmRegistry ----------------------------
(***************************************************************************)
(* AlarmRegistry of lib/SafetySupervisor: the bounded list of alarms, oldest *)
(* first, as operators on [list, overflowed].  Severity and text are fixed   *)
(* per code; raisedAtS decides nothing.                                      *)
(***************************************************************************)
EXTENDS Naturals, Sequences, FiniteSets

CONSTANTS
  kMaxAlarmEntries,   \* 8
  Codes               \* the alarm codes in use

ASSUME RegistryConfig == kMaxAlarmEntries \in Nat \ {0}

Entry == [code : Codes, active : BOOLEAN, acked : BOOLEAN, autoClear : BOOLEAN]
Registry == [list : {l \in Seq(Entry) : Len(l) <= kMaxAlarmEntries},
             overflowed : BOOLEAN]
NoAlarms == [list |-> <<>>, overflowed |-> FALSE]

Listed(r) == {r.list[i].code : i \in DOMAIN r.list}
ActiveCodes(r) == {r.list[i].code : i \in {j \in DOMAIN r.list : r.list[j].active}}
AckedCodes(r)  == {r.list[i].code : i \in {j \in DOMAIN r.list : r.list[j].acked}}

Fresh(c, autoClear) ==
  [code |-> c, active |-> TRUE, acked |-> FALSE, autoClear |-> autoClear]

RaisedQuietly(e, autoClear) == [e EXCEPT !.autoClear = autoClear]    \* mutant
RaisedUnacked(e, autoClear) == Fresh(e.code, autoClear)              \* mutant

(* A re-raise of a cleared condition alerts again. *)
Raised(e, autoClear) ==
  [e EXCEPT !.active = TRUE, !.acked = @ /\ e.active, !.autoClear = autoClear]

Change(r, c, Op(_)) ==
  [r EXCEPT !.list = [i \in DOMAIN @ |-> IF @[i].code = c THEN Op(@[i]) ELSE @[i]]]

(* The entries at the given positions close up, in their order.             *)
Kept(s, positions) ==
  LET n  == Cardinality(positions)
      at == CHOOSE f \in [1..n -> positions] : \A i, j \in 1..n : i < j => f[i] < f[j]
  IN [k \in 1..n |-> s[at[k]]]

Remove(r, c) ==
  [r EXCEPT !.list = Kept(@, {i \in DOMAIN r.list : r.list[i].code # c})]

(* The oldest entry makes room, whether or not its condition persists. *)
Insert(r, e) ==
  IF Len(r.list) < kMaxAlarmEntries THEN [r EXCEPT !.list = Append(@, e)]
  ELSE [list |-> Append(Tail(r.list), e), overflowed |-> TRUE]

raise(r, c, autoClear) ==
  IF c \in Listed(r) THEN Change(r, c, LAMBDA e : Raised(e, autoClear))
  ELSE Insert(r, Fresh(c, autoClear))

SettledAlways(e) == TRUE                                             \* mutant

(* Nothing is left to say of it once its condition is gone. *)
Settled(e) == e.acked \/ e.autoClear

clearCondition(r, c) ==
  IF \E i \in DOMAIN r.list : r.list[i].code = c /\ Settled(r.list[i])
  THEN Remove(r, c)
  ELSE Change(r, c, LAMBDA e : [e EXCEPT !.active = FALSE])

ack(r, c) ==
  IF c \in ActiveCodes(r) THEN Change(r, c, LAMBDA e : [e EXCEPT !.acked = TRUE])
  ELSE Remove(r, c)

ackAll(r) ==
  LET kept == Kept(r.list, {i \in DOMAIN r.list : r.list[i].active})
  IN [r EXCEPT !.list = [i \in DOMAIN kept |-> [kept[i] EXCEPT !.acked = TRUE]]]

setCondition(r, c, present, autoClear) ==
  IF present THEN raise(r, c, autoClear) ELSE clearCondition(r, c)

=============================================================================
