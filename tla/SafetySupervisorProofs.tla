------------------------ MODULE SafetySupervisorProofs ------------------------
(***************************************************************************)
(* For every deadman, watchdog timeout and cycle gap, every set of codes and *)
(* size of the list: the deadman's two bounds, that the watchdog cannot keep *)
(* the chip from coming up, and that the list of alarms tells the truth.     *)
(***************************************************************************)
EXTENDS SafetySupervisor, FiniteSetTheorems, TLAPS

LEMMA Constants ==
  /\ BusDeadmanS \in Nat /\ BusDeadmanS > 0
  /\ WdtTimeoutS \in Nat /\ WdtTimeoutS > 0
  /\ MaxGap \in Nat /\ MaxGap > 0
BY SupervisorConfig

-----------------------------------------------------------------------------
(* The deadman.  A frame the cycle has not seen is younger than the cycle    *)
(* before; one it has seen was a gap old at most when it was seen; silence   *)
(* starts a gap later at the latest, and from then on both ages grow alike   *)
(* until the trip.                                                           *)
AgesTyped ==
  /\ rxAge \in Nat /\ quietFor \in Nat /\ quietFor <= BusDeadmanS
  /\ since \in Nat /\ since <= MaxGap
  /\ seen \in BOOLEAN /\ silent \in BOOLEAN /\ tripped \in BOOLEAN

AgesTogether ==
  /\ seen = FALSE => rxAge <= since
  /\ seen = TRUE /\ silent = FALSE => rxAge <= MaxGap + since /\ tripped = FALSE
  /\ silent = TRUE /\ tripped = FALSE => quietFor < BusDeadmanS
  /\ seen = TRUE /\ silent = TRUE /\ tripped = FALSE =>
       rxAge <= quietFor + 2 * MaxGap + since
  /\ seen = TRUE /\ silent = TRUE => rxAge >= quietFor + since
  /\ seen = TRUE /\ tripped = TRUE => rxAge >= BusDeadmanS

DeadmanInv == AgesTyped /\ AgesTogether

LEMMA DeadmanCycle ==
  ASSUME DeadmanInv, updateDeadman, since' = 0, rxAge' = rxAge
  PROVE  DeadmanInv'
<1>. /\ BusDeadmanS \in Nat /\ BusDeadmanS > 0
     /\ MaxGap \in Nat /\ MaxGap > 0
     /\ AgesTyped /\ AgesTogether
  BY Constants DEF DeadmanInv
<1>1. seen' = TRUE
  BY DEF updateDeadman
<1>2. CASE seen = FALSE
  <2>1. silent' = FALSE /\ tripped' = FALSE /\ quietFor' = 0
    BY <1>2 DEF updateDeadman, busAlive
  <2>2. rxAge <= since
    BY <1>2 DEF AgesTogether
  <2>3. /\ rxAge' \in Nat /\ quietFor' \in Nat /\ quietFor' <= BusDeadmanS
        /\ since' \in Nat /\ since' <= MaxGap /\ rxAge' <= MaxGap + since'
    BY <2>1, <2>2 DEF AgesTyped
  <2>. QED BY <1>1, <2>1, <2>3, Zenon DEF DeadmanInv, AgesTyped, AgesTogether
<1>3. CASE seen = TRUE
  <2>1. /\ silent' = TRUE
        /\ quietFor' = IF silent THEN CapAt(quietFor + since, BusDeadmanS) ELSE 0
        /\ tripped' = (tripped \/ quietFor' >= BusDeadmanS)
    BY <1>3 DEF updateDeadman, busAlive
  <2>2. CASE silent = FALSE
    <3>1. quietFor' = 0 /\ rxAge <= MaxGap + since /\ tripped = FALSE
      BY <1>3, <2>1, <2>2 DEF AgesTogether
    <3>2. ~(quietFor' >= BusDeadmanS)
      BY <3>1
    <3>3. tripped' = FALSE
      BY <2>1, <3>1, <3>2
    <3>4. rxAge' <= quietFor' + 2 * MaxGap + since' /\ rxAge' >= quietFor' + since'
      BY <3>1 DEF AgesTyped
    <3>. QED BY <1>1, <2>1, <3>1, <3>3, <3>4 DEF DeadmanInv, AgesTyped, AgesTogether
  <2>3. CASE silent = TRUE
    <3>1. /\ quietFor' \in Nat /\ quietFor' <= BusDeadmanS
          /\ quietFor' <= quietFor + since
          /\ quietFor' = quietFor + since \/ quietFor' = BusDeadmanS
          /\ rxAge' >= quietFor' + since'
      <4>1. quietFor' = CapAt(quietFor + since, BusDeadmanS)
        BY <2>1, <2>3
      <4>2. rxAge >= quietFor + since
        BY <1>3, <2>3 DEF AgesTogether
      <4>. QED BY <4>1, <4>2 DEF CapAt, AgesTyped
    <3>2. CASE tripped = TRUE
      <4>1. tripped' = TRUE
        BY <2>1, <3>2
      <4>2. rxAge' >= BusDeadmanS
        BY <1>3, <3>2 DEF AgesTogether
      <4>. QED BY <1>1, <2>1, <3>1, <4>1, <4>2 DEF DeadmanInv, AgesTyped, AgesTogether
    <3>3. CASE tripped = FALSE /\ quietFor' >= BusDeadmanS
      <4>1. tripped' = TRUE
        BY <2>1, <3>3
      <4>2. rxAge' >= BusDeadmanS
        <5>1. quietFor' >= BusDeadmanS /\ rxAge' >= quietFor'
          BY <3>1, <3>3
        <5>. QED BY <3>1, <5>1 DEF AgesTyped
      <4>. QED BY <1>1, <2>1, <3>1, <4>1, <4>2 DEF DeadmanInv, AgesTyped, AgesTogether
    <3>4. CASE tripped = FALSE /\ ~(quietFor' >= BusDeadmanS)
      <4>1. tripped' = FALSE
        BY <2>1, <3>4
      <4>2. rxAge <= quietFor + 2 * MaxGap + since
        BY <1>3, <2>3, <3>4 DEF AgesTogether
      <4>3. quietFor' = quietFor + since /\ quietFor' < BusDeadmanS
        BY <3>1, <3>4
      <4>4. rxAge' <= quietFor' + 2 * MaxGap + since'
        BY <4>2, <4>3 DEF AgesTyped
      <4>. QED BY <1>1, <2>1, <3>1, <4>1, <4>3, <4>4 DEF DeadmanInv, AgesTyped, AgesTogether
    <3>. QED BY <3>2, <3>3, <3>4 DEF AgesTyped
  <2>. QED BY <2>2, <2>3 DEF AgesTyped
<1>. QED BY <1>2, <1>3 DEF AgesTyped

LEMMA DeadmanStep == DeadmanInv /\ [Next]_vars => DeadmanInv'
<1>. SUFFICES ASSUME DeadmanInv, [Next]_vars PROVE DeadmanInv'
  OBVIOUS
<1>1. CASE Frame
  <2>1. rxAge' = 0 /\ seen' = (seen /\ rxAge = 0) /\ UNCHANGED <<since, deadman>>
    BY <1>1 DEF Frame
  <2>2. since' = since /\ silent' = silent /\ quietFor' = quietFor /\ tripped' = tripped
    BY <2>1 DEF deadman
  <2>3. CASE seen = TRUE /\ rxAge = 0
    BY <2>1, <2>2, <2>3 DEF DeadmanInv, AgesTyped, AgesTogether
  <2>4. CASE ~(seen = TRUE /\ rxAge = 0)
    <3>1. seen' = FALSE
      BY <2>1, <2>4 DEF DeadmanInv, AgesTyped
    <3>. QED BY <2>1, <2>2, <3>1 DEF DeadmanInv, AgesTyped, AgesTogether
  <2>. QED BY <2>3, <2>4
<1>2. ASSUME NEW sensor \in BOOLEAN, NEW sane \in BOOLEAN, NEW mqtt \in BOOLEAN,
             NEW runtime \in BOOLEAN, Cycle(sensor, sane, mqtt, runtime)
      PROVE  DeadmanInv'
  BY <1>2, DeadmanCycle DEF Cycle
<1>3. CASE AckAll \/ \E c \in Codes : Ack(c)
  BY <1>3 DEF AckAll, Ack, bus, deadman, DeadmanInv, AgesTyped, AgesTogether
<1>4. ASSUME Watchdog \/ \E ok, loop \in BOOLEAN : Reset(ok, loop)
      PROVE  DeadmanInv'
  <2>1. /\ rxAge' = 1 /\ quietFor' = 0 /\ since' = 0
        /\ seen' = TRUE /\ silent' = FALSE /\ tripped' = FALSE
    BY <1>4 DEF Watchdog, Reset, Booted
  <2>2. /\ rxAge' \in Nat /\ quietFor' \in Nat /\ quietFor' <= BusDeadmanS
        /\ since' \in Nat /\ since' <= MaxGap /\ rxAge' <= MaxGap + since'
    BY <2>1, Constants
  <2>. QED BY <2>1, <2>2, Zenon DEF DeadmanInv, AgesTyped, AgesTogether
<1>5. CASE UNCHANGED vars
  BY <1>5 DEF vars, bus, deadman, DeadmanInv, AgesTyped, AgesTogether
<1>6. CASE Second
  <2>1. /\ since < MaxGap /\ since' = since + 1
        /\ rxAge' = CapAt(rxAge + 1, MaxAge) /\ UNCHANGED <<seen, deadman>>
    BY <1>6 DEF Second
  <2>2. seen' = seen /\ silent' = silent /\ quietFor' = quietFor /\ tripped' = tripped
    BY <2>1 DEF deadman
  <2>3. /\ rxAge' \in Nat /\ rxAge' <= rxAge + 1
        /\ rxAge' = rxAge + 1 \/ rxAge' = BusDeadmanS + 3 * MaxGap
    BY <2>1, Constants DEF CapAt, MaxAge, DeadmanInv, AgesTyped
  <2>. QED BY <2>1, <2>2, <2>3, Constants DEF DeadmanInv, AgesTyped, AgesTogether
<1>. QED BY <1>1, <1>2, <1>3, <1>4, <1>5, <1>6 DEF Next

LEMMA InitDeadman == Init => DeadmanInv
<1>. SUFFICES ASSUME Init PROVE DeadmanInv
  OBVIOUS
<1>1. /\ rxAge = 1 /\ quietFor = 0 /\ since = 0
      /\ seen = TRUE /\ silent = FALSE /\ tripped = FALSE
  BY DEF Init
<1>2. /\ rxAge \in Nat /\ quietFor \in Nat /\ quietFor <= BusDeadmanS
      /\ since \in Nat /\ since <= MaxGap /\ rxAge <= MaxGap + since
  BY <1>1, Constants
<1>. QED BY <1>1, <1>2, Zenon DEF DeadmanInv, AgesTyped, AgesTogether

(* A silent bus drops the demand after BusDeadmanS seconds of silence and at  *)
(* most two cycles later, for every threshold and every gap between cycles.   *)
THEOREM DeadmanHolds == Spec => []DeadmanExact
<1>1. DeadmanInv => DeadmanExact
  BY Constants DEF DeadmanInv, AgesTyped, AgesTogether, DeadmanExact
<1>. QED BY <1>1, InitDeadman, DeadmanStep, PTL DEF Spec

-----------------------------------------------------------------------------
(* The watchdog.  Behind a closed gate nothing is emitted, so no demand is   *)
(* insane and the dog is petted whatever the sensor says; a bite therefore   *)
(* follows an opening of the gate.                                           *)
PetInv ==
  /\ resets \in Nat /\ open \in BOOLEAN
  /\ emitted = TRUE => open = TRUE
  /\ open = TRUE => resets = 0
  /\ open = FALSE => hungry = 0
  /\ resets <= 1

LEMMA PetCycle ==
  ASSUME PetInv, NEW sensor \in BOOLEAN, NEW sane \in BOOLEAN, NEW mqtt \in BOOLEAN,
         NEW runtime \in BOOLEAN, Cycle(sensor, sane, mqtt, runtime)
  PROVE  PetInv'
<1>1. open' = (open \/ (sensor /\ configOk))
  BY DEF Cycle, updateBootGate
<1>2. emitted' = (open' /\ ~latched /\ ~demandDropRequested(sensor, sane))
  BY DEF Cycle, demandPermitted
<1>3. resets' = IF open' THEN 0 ELSE resets
  BY DEF Cycle
<1>4. hungry' = IF mandatoryOk(sensor, sane) THEN 0 ELSE CapAt(hungry + since, WdtTimeoutS)
  BY DEF Cycle
<1>5. sane = TRUE \/ emitted = TRUE
  <2>1. sane \/ emitted
    BY DEF Cycle
  <2>. QED BY <2>1
<1>6. CASE open' = FALSE
  <2>1. open = FALSE
    BY <1>1, <1>6 DEF PetInv
  <2>2. sane = TRUE
    BY <1>5, <2>1 DEF PetInv
  <2>3. mandatoryOk(sensor, sane)
    BY <1>6, <2>2 DEF mandatoryOk
  <2>4. emitted' = FALSE
    BY <1>2, <1>6
  <2>. QED BY <1>3, <1>4, <1>6, <2>3, <2>4 DEF PetInv
<1>7. CASE open' = TRUE
  <2>1. resets' = 0
    BY <1>3, <1>7
  <2>. QED BY <1>7, <2>1 DEF PetInv
<1>8. open' \in BOOLEAN
  BY <1>1
<1>. QED BY <1>6, <1>7, <1>8

LEMMA PetStep == PetInv /\ [Next]_vars => PetInv'
<1>. SUFFICES ASSUME PetInv, [Next]_vars PROVE PetInv'
  OBVIOUS
<1>1. CASE Watchdog
  <2>1. open = TRUE
    BY <1>1, Constants DEF Watchdog, PetInv
  <2>2. resets' = 1 /\ open' = FALSE /\ emitted' = FALSE /\ hungry' = 0
    <3>1. resets = 0
      BY <2>1 DEF PetInv
    <3>2. resets' = resets + 1
      BY <1>1 DEF Watchdog
    <3>3. open' = FALSE /\ emitted' = FALSE /\ hungry' = 0
      BY <1>1 DEF Watchdog, Booted
    <3>. QED BY <3>1, <3>2, <3>3
  <2>3. resets' \in Nat /\ resets' <= 1
    BY <2>2
  <2>. QED BY <2>2, <2>3, Zenon DEF PetInv
<1>2. ASSUME NEW sensor \in BOOLEAN, NEW sane \in BOOLEAN, NEW mqtt \in BOOLEAN,
             NEW runtime \in BOOLEAN, Cycle(sensor, sane, mqtt, runtime)
      PROVE  PetInv'
  BY <1>2, PetCycle
<1>3. ASSUME NEW ok \in BOOLEAN, NEW loop \in BOOLEAN, Reset(ok, loop)
      PROVE  PetInv'
  <2>1. open' = FALSE /\ emitted' = FALSE /\ hungry' = 0 /\ resets' = resets
    BY <1>3 DEF Reset, Booted
  <2>. QED BY <2>1 DEF PetInv
<1>4. CASE Frame \/ Second \/ AckAll \/ \E c \in Codes : Ack(c)
  BY <1>4 DEF Frame, Second, AckAll, Ack, gate, history, PetInv
<1>5. CASE UNCHANGED vars
  BY <1>5 DEF vars, gate, history, PetInv
<1>. QED BY <1>1, <1>2, <1>3, <1>4, <1>5 DEF Next

(* However long a sensor stays broken, it costs one watchdog reset at most   *)
(* until the gate next opens.                                                *)
THEOREM BringUpSurvives == Spec => []SurvivesBringUp
<1>1. Init => PetInv
  <2>. SUFFICES ASSUME Init PROVE PetInv
    OBVIOUS
  <2>1. open = FALSE /\ emitted = FALSE /\ hungry = 0 /\ resets = 0
    BY DEF Init
  <2>2. resets \in Nat /\ resets <= 1
    BY <2>1
  <2>. QED BY <2>1, <2>2, Zenon DEF PetInv
<1>2. PetInv => SurvivesBringUp
  BY DEF PetInv, SurvivesBringUp
<1>. QED BY <1>1, <1>2, PetStep, PTL DEF Spec

-----------------------------------------------------------------------------
(* The alarm list.  The registry works on an array in place; what it promises *)
(* is about the set of its entries, so its operators are described on that.   *)

(* Closing up keeps exactly the entries at the positions kept.               *)
LEMMA KeptEntries ==
  ASSUME NEW S, NEW s \in Seq(S), NEW P \in SUBSET (DOMAIN s)
  PROVE  /\ Kept(s, P) \in Seq(S)
         /\ {Kept(s, P)[k] : k \in DOMAIN Kept(s, P)} = {s[i] : i \in P}
<1>. DEFINE n == Cardinality(P)
            Below(i) == {j \in P : j <= i}
            rank == [i \in P |-> Cardinality(Below(i))]
<1>1. DOMAIN s = 1..Len(s) /\ Len(s) \in Nat /\ P \subseteq Nat
  OBVIOUS
<1>2. IsFiniteSet(P) /\ n \in Nat
  <2>1. 1 \in Int /\ Len(s) \in Int
    BY <1>1
  <2>2. IsFiniteSet(1..Len(s))
    BY <2>1, FS_Interval
  <2>3. IsFiniteSet(P)
    BY <1>1, <2>2, FS_Subset
  <2>. QED BY <2>3, FS_CardinalityType
<1>3. IsFiniteSet(1..n) /\ Cardinality(1..n) = n
  <2>1. 1 \in Int /\ n \in Int
    BY <1>2
  <2>2. IsFiniteSet(1..n) /\ Cardinality(1..n) = IF 1 > n THEN 0 ELSE n - 1 + 1
    BY <2>1, FS_Interval
  <2>. QED BY <1>2, <2>2
<1>4. ASSUME NEW i \in P
      PROVE  IsFiniteSet(Below(i)) /\ Cardinality(Below(i)) \in 1..n
  <2>1. Below(i) \in SUBSET P /\ i \in Below(i)
    BY <1>1
  <2>2. IsFiniteSet(Below(i)) /\ Cardinality(Below(i)) <= n
    BY <1>2, <2>1, FS_Subset
  <2>3. Cardinality(Below(i)) \in Nat
    BY <2>2, FS_CardinalityType
  <2>4. Cardinality(Below(i)) # 0
    BY <2>1, <2>2, FS_EmptySet
  <2>. QED BY <1>2, <2>2, <2>3, <2>4
<1>5. ASSUME NEW i \in P, NEW k \in P, i < k
      PROVE  Cardinality(Below(i)) < Cardinality(Below(k))
  <2>1. Below(i) \in SUBSET Below(k) /\ k \in Below(k) /\ k \notin Below(i)
    BY <1>1, <1>5
  <2>2. /\ Cardinality(Below(i)) <= Cardinality(Below(k))
        /\ Cardinality(Below(k)) = Cardinality(Below(i)) => Below(k) = Below(i)
    BY <1>4, <2>1, FS_Subset
  <2>3. Cardinality(Below(i)) \in Nat /\ Cardinality(Below(k)) \in Nat
    <3>. HIDE DEF n
    <3>1. Cardinality(Below(i)) \in 1..n /\ Cardinality(Below(k)) \in 1..n
      BY <1>4
    <3>. QED BY <1>2, <3>1
  <2>. QED BY <2>1, <2>2, <2>3
<1>6. rank \in Surjection(P, 1..n)
  <2>1. rank \in [P -> 1..n]
    BY <1>4
  <2>2. ASSUME NEW i \in P, NEW k \in P, rank[i] = rank[k] PROVE i = k
    <3>1. i \in Nat /\ k \in Nat /\ rank[i] \in Nat /\ rank[k] \in Nat
      <4>. HIDE DEF rank, n
      <4>1. rank[i] \in 1..n /\ rank[k] \in 1..n
        BY <2>1
      <4>. QED BY <1>1, <1>2, <4>1
    <3>2. ~(i < k) /\ ~(k < i)
      <4>1. rank[i] = Cardinality(Below(i)) /\ rank[k] = Cardinality(Below(k))
        OBVIOUS
      <4>2. i < k => Cardinality(Below(i)) < Cardinality(Below(k))
        BY <1>5
      <4>3. k < i => Cardinality(Below(k)) < Cardinality(Below(i))
        BY <1>5
      <4>. HIDE DEF Below, rank
      <4>. DEFINE a == rank[i]
                  b == rank[k]
      <4>4. a \in Nat /\ b \in Nat /\ a = b
        BY <2>2, <3>1
      <4>5. (i < k => a < b) /\ (k < i => b < a)
        BY <4>1, <4>2, <4>3
      <4>. HIDE DEF a, b
      <4>. QED BY <4>4, <4>5
    <3>. QED BY <3>1, <3>2
  <2>. HIDE DEF rank, n
  <2>3. rank \in Injection(P, 1..n)
    BY <2>1, <2>2 DEF Injection, IsInjective
  <2>4. Cardinality(P) = Cardinality(1..n)
    BY <1>3 DEF n
  <2>. QED BY <1>3, <2>3, <2>4, FS_Injection
<1>7. \E f \in [1..n -> P] : \A i, j \in 1..n : i < j => f[i] < f[j]
  <2>. DEFINE f == [k \in 1..n |-> CHOOSE i \in P : rank[i] = k]
  <2>1. ASSUME NEW k \in 1..n PROVE f[k] \in P /\ rank[f[k]] = k
    <3>1. \E i \in P : rank[i] = k
      BY <1>6 DEF Surjection
    <3>. HIDE DEF rank
    <3>. QED BY <3>1
  <2>2. ASSUME NEW i \in 1..n, NEW j \in 1..n, i < j PROVE f[i] < f[j]
    <3>1. f[i] \in P /\ f[j] \in P /\ rank[f[i]] = i /\ rank[f[j]] = j
      BY <2>1
    <3>2. ~(f[j] < f[i]) /\ f[i] # f[j]
      <4>. HIDE DEF f
      <4>1. Cardinality(Below(f[i])) = i /\ Cardinality(Below(f[j])) = j
        BY <3>1
      <4>2. f[j] < f[i] => Cardinality(Below(f[j])) < Cardinality(Below(f[i]))
        BY <1>5, <3>1
      <4>. HIDE DEF Below, n
      <4>3. i \in Nat /\ j \in Nat
        BY <1>2
      <4>. QED BY <2>2, <4>1, <4>2, <4>3
    <3>3. f[i] \in Nat /\ f[j] \in Nat
      BY <1>1, <3>1
    <3>. HIDE DEF f
    <3>. QED BY <3>2, <3>3
  <2>3. f \in [1..n -> P]
    BY <2>1
  <2>. HIDE DEF f
  <2>. QED BY <2>2, <2>3
<1>. DEFINE at == CHOOSE f \in [1..n -> P] : \A i, j \in 1..n : i < j => f[i] < f[j]
<1>8. at \in [1..n -> P] /\ \A i, j \in 1..n : i < j => at[i] < at[j]
  <2>. HIDE DEF n
  <2>. QED BY <1>7
<1>9. Kept(s, P) = [k \in 1..n |-> s[at[k]]]
  BY DEF Kept
<1>. HIDE DEF at, n, rank
<1>10. at \in Surjection(1..n, P)
  <2>1. ASSUME NEW i \in 1..n, NEW j \in 1..n, at[i] = at[j] PROVE i = j
    <3>1. at[i] \in Nat /\ i \in Nat /\ j \in Nat
      BY <1>1, <1>2, <1>8
    <3>2. ~(i < j) /\ ~(j < i)
      BY <1>8, <2>1, <3>1
    <3>. QED BY <3>1, <3>2
  <2>2. at \in Injection(1..n, P)
    BY <1>8, <2>1 DEF Injection, IsInjective
  <2>3. Cardinality(1..n) = Cardinality(P)
    BY <1>3 DEF n
  <2>. QED BY <1>2, <2>2, <2>3, FS_Injection
<1>11. \A k \in 1..n : at[k] \in P /\ s[at[k]] \in S
  BY <1>1, <1>8
<1>12. Kept(s, P) \in Seq(S)
  BY <1>2, <1>9, <1>11
<1>13. {Kept(s, P)[k] : k \in DOMAIN Kept(s, P)} = {s[at[k]] : k \in 1..n}
  BY <1>9
<1>14. {s[at[k]] : k \in 1..n} = {s[i] : i \in P}
  BY <1>10, <1>11 DEF Surjection
<1>. QED BY <1>12, <1>13, <1>14

-----------------------------------------------------------------------------
(* What the list says is what its entries say.                               *)
Rows == [list : Seq(Entry), overflowed : BOOLEAN]
Entries(r) == {r.list[i] : i \in DOMAIN r.list}

LEMMA Views ==
  ASSUME NEW r \in Rows, NEW c
  PROVE  /\ c \in Listed(r) <=> \E e \in Entries(r) : e.code = c
         /\ c \in ActiveCodes(r) <=> \E e \in Entries(r) : e.code = c /\ e.active
         /\ c \in AckedCodes(r) <=> \E e \in Entries(r) : e.code = c /\ e.acked
         /\ \A e \in Entries(r) : e \in Entry
<1>1. c \in Listed(r) <=> \E e \in Entries(r) : e.code = c
  BY DEF Listed, Entries
<1>2. c \in ActiveCodes(r) <=> \E e \in Entries(r) : e.code = c /\ e.active
  BY DEF ActiveCodes, Entries
<1>3. c \in AckedCodes(r) <=> \E e \in Entries(r) : e.code = c /\ e.acked
  BY DEF AckedCodes, Entries
<1>4. \A e \in Entries(r) : e \in Entry
  BY DEF Entries, Rows
<1>. QED BY <1>1, <1>2, <1>3, <1>4

(* What a raise makes of a list, and what a clear does.                      *)
RaiseOf(r, q, c, a) ==
  /\ q \in Rows
  /\ r.overflowed => q.overflowed
  /\ \A e \in Entries(q) :
        \/ e \in Entries(r) /\ e.code # c
        \/ c \notin Listed(r) /\ e = Fresh(c, a)
        \/ \E d \in Entries(r) : d.code = c /\ e = Raised(d, a)
  /\ ~q.overflowed =>
        /\ \A d \in Entries(r) :
             (IF d.code = c THEN Raised(d, a) ELSE d) \in Entries(q)
        /\ c \notin Listed(r) => Fresh(c, a) \in Entries(q)

LEMMA RaiseShape ==
  ASSUME NEW r \in Rows, NEW c \in Codes, NEW a \in BOOLEAN
  PROVE  RaiseOf(r, raise(r, c, a), c, a)
<1>. SUFFICES ASSUME NEW q, q = raise(r, c, a) PROVE RaiseOf(r, q, c, a)
  OBVIOUS
<1>0. r.list \in Seq(Entry) /\ r.overflowed \in BOOLEAN
      /\ r = [list |-> r.list, overflowed |-> r.overflowed]
  BY DEF Rows
<1>1. CASE c \in Listed(r)
  <2>. DEFINE l == [i \in DOMAIN r.list |->
                     IF r.list[i].code = c THEN Raised(r.list[i], a) ELSE r.list[i]]
  <2>1. q = [r EXCEPT !.list = l]
    BY <1>1 DEF raise, Change
  <2>2. ASSUME NEW e \in Entry PROVE Raised(e, a) \in Entry
    BY DEF Raised, Entry
  <2>3. l \in Seq(Entry) /\ DOMAIN l = DOMAIN r.list
    <3>1. \A i \in DOMAIN r.list : r.list[i] \in Entry
      BY <1>0
    <3>2. \A i \in DOMAIN r.list : l[i] \in Entry
      BY <2>2, <3>1
    <3>. DEFINE n == Len(r.list)
    <3>3. DOMAIN r.list = 1..n /\ n \in Nat
      BY <1>0
    <3>4. l \in [1..n -> Entry] /\ DOMAIN l = DOMAIN r.list
      BY <3>2, <3>3
    <3>. HIDE DEF l, n
    <3>. QED BY <3>3, <3>4
  <2>4. q.list = l /\ q.overflowed = r.overflowed /\ q \in Rows
    <3>. HIDE DEF l
    <3>. QED BY <1>0, <2>1, <2>3 DEF Rows
  <2>5. Entries(q) = {l[i] : i \in DOMAIN r.list}
    BY <2>3, <2>4 DEF Entries
  <2>6. ASSUME NEW e \in Entries(q)
        PROVE  \/ e \in Entries(r) /\ e.code # c
               \/ \E d \in Entries(r) : d.code = c /\ e = Raised(d, a)
    <3>1. PICK i \in DOMAIN r.list : e = l[i]
      BY <2>5
    <3>. QED BY <3>1 DEF Entries
  <2>7. ASSUME NEW d \in Entries(r)
        PROVE  (IF d.code = c THEN Raised(d, a) ELSE d) \in Entries(q)
    <3>1. PICK i \in DOMAIN r.list : d = r.list[i]
      BY DEF Entries
    <3>2. l[i] \in Entries(q)
      BY <2>5
    <3>. QED BY <3>1, <3>2
  <2>. HIDE DEF l
  <2>. QED BY <1>1, <2>4, <2>6, <2>7 DEF RaiseOf
<1>2. CASE c \notin Listed(r) /\ Len(r.list) < kMaxAlarmEntries
  <2>1. q = [r EXCEPT !.list = Append(r.list, Fresh(c, a))]
    BY <1>2 DEF raise, Insert
  <2>2. Fresh(c, a) \in Entry
    BY DEF Fresh, Entry
  <2>3. q.list = Append(r.list, Fresh(c, a)) /\ q.overflowed = r.overflowed
    BY <1>0, <2>1
  <2>4. q \in Rows
    <3>1. q = [list |-> Append(r.list, Fresh(c, a)), overflowed |-> r.overflowed]
      BY <1>0, <2>1
    <3>2. Append(r.list, Fresh(c, a)) \in Seq(Entry)
      BY <1>0, <2>2
    <3>. QED BY <1>0, <3>1, <3>2 DEF Rows
  <2>5. Entries(q) = Entries(r) \cup {Fresh(c, a)}
    BY <1>0, <2>2, <2>3 DEF Entries
  <2>6. \A d \in Entries(r) : d.code # c
    BY <1>2, Views
  <2>. QED BY <1>2, <2>3, <2>4, <2>5, <2>6 DEF RaiseOf
<1>3. CASE c \notin Listed(r) /\ ~(Len(r.list) < kMaxAlarmEntries)
  <2>1. q = [list |-> Append(Tail(r.list), Fresh(c, a)), overflowed |-> TRUE]
    BY <1>3 DEF raise, Insert
  <2>2. Fresh(c, a) \in Entry
    BY DEF Fresh, Entry
  <2>3. r.list # <<>>
    BY <1>0, <1>3, RegistryConfig
  <2>4. q \in Rows /\ q.overflowed
    BY <1>0, <2>1, <2>2, <2>3 DEF Rows
  <2>5. \A e \in Entries(q) : e \in Entries(r) \/ e = Fresh(c, a)
    BY <1>0, <2>1, <2>2, <2>3 DEF Entries
  <2>6. \A d \in Entries(r) : d.code # c
    BY <1>3, Views
  <2>. QED BY <1>3, <2>4, <2>5, <2>6 DEF RaiseOf
<1>. QED BY <1>1, <1>2, <1>3

(* A list changed in place is a list of entries of the same length.          *)
LEMMA InPlace ==
  ASSUME NEW s \in Seq(Entry), NEW l,
         DOMAIN l = DOMAIN s, l = [i \in DOMAIN s |-> l[i]],
         \A i \in DOMAIN s : l[i] \in Entry
  PROVE  l \in Seq(Entry)
<1>. DEFINE n == Len(s)
<1>1. DOMAIN s = 1..n /\ n \in Nat
  OBVIOUS
<1>. HIDE DEF n
<1>2. l \in [1..n -> Entry]
  BY <1>1
<1>. QED BY <1>1, <1>2

LEMMA RemoveShape ==
  ASSUME NEW r \in Rows, NEW c
  PROVE  LET q == Remove(r, c)
         IN /\ q \in Rows
            /\ q.overflowed = r.overflowed
            /\ Entries(q) = {d \in Entries(r) : d.code # c}
<1>. DEFINE q == Remove(r, c)
            P == {i \in DOMAIN r.list : r.list[i].code # c}
<1>0. r.list \in Seq(Entry) /\ r.overflowed \in BOOLEAN
      /\ r = [list |-> r.list, overflowed |-> r.overflowed]
  BY DEF Rows
<1>1. q = [r EXCEPT !.list = Kept(r.list, P)]
  BY DEF Remove
<1>2. P \in SUBSET (DOMAIN r.list)
  OBVIOUS
<1>3. /\ Kept(r.list, P) \in Seq(Entry)
      /\ {Kept(r.list, P)[k] : k \in DOMAIN Kept(r.list, P)} = {r.list[i] : i \in P}
  <2>. HIDE DEF P
  <2>. QED BY <1>0, <1>2, KeptEntries
<1>4. q.list = Kept(r.list, P) /\ q.overflowed = r.overflowed /\ q \in Rows
  <2>. HIDE DEF P, q
  <2>. QED BY <1>0, <1>1, <1>3 DEF Rows
<1>5. Entries(q) = {r.list[i] : i \in P}
  <2>. HIDE DEF P, q
  <2>. QED BY <1>3, <1>4 DEF Entries
<1>6. {r.list[i] : i \in P} = {d \in Entries(r) : d.code # c}
  BY DEF Entries
<1>. QED BY <1>4, <1>5, <1>6

Inactive(e) == [e EXCEPT !.active = FALSE]
Acked(e) == [e EXCEPT !.acked = TRUE]

ClearOf(r, q, c) ==
  /\ q \in Rows
  /\ q.overflowed = r.overflowed
  /\ \A e \in Entries(q) :
        \/ e \in Entries(r) /\ e.code # c
        \/ \E d \in Entries(r) : d.code = c /\ ~Settled(d) /\ e = Inactive(d)
  /\ \A d \in Entries(r) : d.code # c => d \in Entries(q)
  /\ (\A d \in Entries(r) : d.code = c => ~Settled(d)) =>
        \A d \in Entries(r) : d.code = c => Inactive(d) \in Entries(q)

LEMMA ClearShape ==
  ASSUME NEW r \in Rows, NEW c \in Codes
  PROVE  ClearOf(r, clearCondition(r, c), c)
<1>. SUFFICES ASSUME NEW q, q = clearCondition(r, c) PROVE ClearOf(r, q, c)
  OBVIOUS
<1>0. r.list \in Seq(Entry) /\ r.overflowed \in BOOLEAN
      /\ r = [list |-> r.list, overflowed |-> r.overflowed]
  BY DEF Rows
<1>1. CASE \E i \in DOMAIN r.list : r.list[i].code = c /\ Settled(r.list[i])
  <2>1. q = Remove(r, c)
    BY <1>1 DEF clearCondition
  <2>2. /\ q \in Rows
        /\ q.overflowed = r.overflowed
        /\ Entries(q) = {d \in Entries(r) : d.code # c}
    BY <2>1, RemoveShape
  <2>3. \E d \in Entries(r) : d.code = c /\ Settled(d)
    BY <1>1 DEF Entries
  <2>. QED BY <2>2, <2>3 DEF ClearOf
<1>2. CASE ~\E i \in DOMAIN r.list : r.list[i].code = c /\ Settled(r.list[i])
  <2>. DEFINE l == [i \in DOMAIN r.list |->
                     IF r.list[i].code = c THEN Inactive(r.list[i]) ELSE r.list[i]]
  <2>1. q = [r EXCEPT !.list = l]
    BY <1>2 DEF clearCondition, Change, Inactive
  <2>2. l \in Seq(Entry) /\ DOMAIN l = DOMAIN r.list
    <3>1. \A i \in DOMAIN r.list : r.list[i] \in Entry
      BY <1>0
    <3>2. \A i \in DOMAIN r.list : l[i] \in Entry
      BY <3>1 DEF Inactive, Entry
    <3>3. DOMAIN l = DOMAIN r.list /\ l = [i \in DOMAIN r.list |-> l[i]]
      OBVIOUS
    <3>. HIDE DEF l
    <3>. QED BY <1>0, <3>2, <3>3, InPlace
  <2>3. q.list = l /\ q.overflowed = r.overflowed /\ q \in Rows
    <3>. HIDE DEF l
    <3>. QED BY <1>0, <2>1, <2>2 DEF Rows
  <2>4. Entries(q) = {l[i] : i \in DOMAIN r.list}
    BY <2>2, <2>3 DEF Entries
  <2>5. ASSUME NEW e \in Entries(q)
        PROVE  \/ e \in Entries(r) /\ e.code # c
               \/ \E d \in Entries(r) : d.code = c /\ ~Settled(d) /\ e = Inactive(d)
    <3>1. PICK i \in DOMAIN r.list : e = l[i]
      BY <2>4
    <3>. QED BY <1>2, <3>1 DEF Entries
  <2>6. ASSUME NEW d \in Entries(r)
        PROVE  (IF d.code = c THEN Inactive(d) ELSE d) \in Entries(q)
    <3>1. PICK i \in DOMAIN r.list : d = r.list[i]
      BY DEF Entries
    <3>2. l[i] \in Entries(q)
      BY <2>4
    <3>. QED BY <3>1, <3>2
  <2>. HIDE DEF l
  <2>. QED BY <2>3, <2>5, <2>6 DEF ClearOf
<1>. QED BY <1>1, <1>2

LEMMA AckShape ==
  ASSUME NEW r \in Rows, NEW c \in Codes
  PROVE  LET q == ack(r, c)
         IN /\ q \in Rows
            /\ q.overflowed = r.overflowed
            /\ Entries(q) = IF c \in ActiveCodes(r)
                            THEN {IF d.code = c THEN Acked(d) ELSE d : d \in Entries(r)}
                            ELSE {d \in Entries(r) : d.code # c}
<1>. DEFINE q == ack(r, c)
<1>0. r.list \in Seq(Entry) /\ r.overflowed \in BOOLEAN
      /\ r = [list |-> r.list, overflowed |-> r.overflowed]
  BY DEF Rows
<1>1. CASE c \notin ActiveCodes(r)
  <2>1. q = Remove(r, c)
    BY <1>1 DEF ack
  <2>. QED BY <1>1, <2>1, RemoveShape
<1>2. CASE c \in ActiveCodes(r)
  <2>. DEFINE l == [i \in DOMAIN r.list |->
                     IF r.list[i].code = c THEN Acked(r.list[i]) ELSE r.list[i]]
  <2>1. q = [r EXCEPT !.list = l]
    BY <1>2 DEF ack, Change, Acked
  <2>2. l \in Seq(Entry) /\ DOMAIN l = DOMAIN r.list
    <3>1. \A i \in DOMAIN r.list : r.list[i] \in Entry
      BY <1>0
    <3>2. \A i \in DOMAIN r.list : l[i] \in Entry
      BY <3>1 DEF Acked, Entry
    <3>3. DOMAIN l = DOMAIN r.list /\ l = [i \in DOMAIN r.list |-> l[i]]
      OBVIOUS
    <3>. HIDE DEF l
    <3>. QED BY <1>0, <3>2, <3>3, InPlace
  <2>3. q.list = l /\ q.overflowed = r.overflowed /\ q \in Rows
    <3>. HIDE DEF l, q
    <3>. QED BY <1>0, <2>1, <2>2 DEF Rows
  <2>4. Entries(q) = {l[i] : i \in DOMAIN r.list}
    BY <2>2, <2>3 DEF Entries
  <2>5. Entries(q) = {IF d.code = c THEN Acked(d) ELSE d : d \in Entries(r)}
    BY <2>4 DEF Entries
  <2>. HIDE DEF q, l
  <2>. QED BY <1>2, <2>3, <2>5 DEF q
<1>. QED BY <1>1, <1>2

LEMMA AckAllShape ==
  ASSUME NEW r \in Rows
  PROVE  LET q == ackAll(r)
         IN /\ q \in Rows
            /\ q.overflowed = r.overflowed
            /\ Entries(q) = {Acked(d) : d \in {e \in Entries(r) : e.active}}
<1>. DEFINE q == ackAll(r)
            P == {i \in DOMAIN r.list : r.list[i].active}
            kept == Kept(r.list, P)
            l == [i \in DOMAIN kept |-> Acked(kept[i])]
<1>0. r.list \in Seq(Entry) /\ r.overflowed \in BOOLEAN
      /\ r = [list |-> r.list, overflowed |-> r.overflowed]
  BY DEF Rows
<1>1. q = [r EXCEPT !.list = l]
  BY DEF ackAll, Acked
<1>2. kept \in Seq(Entry) /\ {kept[k] : k \in DOMAIN kept} = {r.list[i] : i \in P}
  <2>1. P \in SUBSET (DOMAIN r.list)
    OBVIOUS
  <2>. HIDE DEF P
  <2>. QED BY <1>0, <2>1, KeptEntries
<1>. HIDE DEF kept
<1>3. l \in Seq(Entry) /\ DOMAIN l = DOMAIN kept
  <2>1. \A i \in DOMAIN kept : kept[i] \in Entry
    BY <1>2
  <2>2. \A i \in DOMAIN kept : l[i] \in Entry
    BY <2>1 DEF Acked, Entry
  <2>3. DOMAIN l = DOMAIN kept /\ l = [i \in DOMAIN kept |-> l[i]]
    OBVIOUS
  <2>. HIDE DEF l
  <2>. QED BY <1>2, <2>2, <2>3, InPlace
<1>4. q.list = l /\ q.overflowed = r.overflowed /\ q \in Rows
  <2>. HIDE DEF l, q
  <2>. QED BY <1>0, <1>1, <1>3 DEF Rows
<1>5. Entries(q) = {Acked(d) : d \in {kept[k] : k \in DOMAIN kept}}
  <2>1. Entries(q) = {l[i] : i \in DOMAIN kept}
    BY <1>3, <1>4 DEF Entries
  <2>. HIDE DEF q
  <2>. QED BY <2>1
<1>6. {r.list[i] : i \in P} = {e \in Entries(r) : e.active}
  BY DEF Entries
<1>7. Entries(q) = {Acked(d) : d \in {e \in Entries(r) : e.active}}
  <2>. HIDE DEF P, q
  <2>. QED BY <1>2, <1>5, <1>6
<1>. QED BY <1>4, <1>7

-----------------------------------------------------------------------------
(* What the list owes one code: p says whether its condition was present in  *)
(* the last report, o whether it is a lasting fault nobody acknowledged.      *)
CodeStands(r, c, p, o) ==
  /\ \A e \in Entries(r) : e.code = c =>
        /\ e.autoClear <=> c \in AutoClear
        /\ e.active <=> p
        /\ c \in AutoClear => p
        /\ o => ~e.acked
  /\ ~r.overflowed /\ (p \/ o) => \E e \in Entries(r) : e.code = c

AckStands(r, c) == r.overflowed \/ \E e \in Entries(r) : e.code = c /\ e.acked

LEMMA EntryParts ==
  ASSUME NEW e \in Entry, NEW a \in BOOLEAN
  PROVE  /\ e.active \in BOOLEAN /\ e.acked \in BOOLEAN /\ e.autoClear \in BOOLEAN
         /\ Raised(e, a).code = e.code /\ Raised(e, a).active
         /\ Raised(e, a).acked <=> e.acked /\ e.active
         /\ Raised(e, a).autoClear <=> a
         /\ Inactive(e).code = e.code /\ ~Inactive(e).active
         /\ Inactive(e).acked <=> e.acked
         /\ Inactive(e).autoClear <=> e.autoClear
         /\ Acked(e).code = e.code /\ Acked(e).acked
         /\ Acked(e).active <=> e.active
         /\ Acked(e).autoClear <=> e.autoClear
BY DEF Entry, Raised, Inactive, Acked

(* A report leaves the other codes as they stand, unless it drops the oldest.*)
LEMMA ReportOther ==
  ASSUME NEW r \in Rows, NEW c \in Codes, NEW p2 \in BOOLEAN,
         NEW b \in Codes, b # c, NEW p \in BOOLEAN, NEW o \in BOOLEAN,
         CodeStands(r, b, p, o),
         NEW a \in BOOLEAN, NEW q, q = setCondition(r, c, p2, a)
  PROVE  CodeStands(q, b, p, o) /\ (AckStands(r, b) => AckStands(q, b))
<1>0. \A e \in Entries(r) : e \in Entry
  BY Views
<1>1. /\ \A e \in Entries(q) : e.code = b => e \in Entries(r)
      /\ ~q.overflowed => ~r.overflowed /\ \A d \in Entries(r) : d.code = b => d \in Entries(q)
  <2>1. CASE p2 = TRUE
    <3>1. RaiseOf(r, q, c, a)
      BY <2>1, RaiseShape DEF setCondition
    <3>2. Fresh(c, a).code = c
      BY DEF Fresh
    <3>3. ASSUME NEW d \in Entries(r) PROVE Raised(d, a).code = d.code
      <4>1. d \in Entry /\ a \in BOOLEAN
        BY <1>0
      <4>. QED BY <4>1, EntryParts, SMT
    <3>. QED BY <3>1, <3>2, <3>3 DEF RaiseOf
  <2>2. CASE p2 = FALSE
    <3>1. ClearOf(r, q, c)
      BY <2>2, ClearShape DEF setCondition
    <3>2. \A d \in Entries(r) : Inactive(d).code = d.code
      BY <1>0, EntryParts
    <3>. QED BY <3>1, <3>2 DEF ClearOf
  <2>. QED BY <2>1, <2>2
<1>. QED BY <1>1 DEF CodeStands, AckStands

(* A report brings its own code up to date.                                  *)
LEMMA ReportOwn ==
  ASSUME NEW r \in Rows, NEW c \in Codes, NEW p2 \in BOOLEAN,
         NEW p \in BOOLEAN, NEW o \in BOOLEAN, o => c \notin AutoClear,
         CodeStands(r, c, p, o),
         NEW a \in BOOLEAN, a <=> c \in AutoClear, NEW q, q = setCondition(r, c, p2, a)
  PROVE  /\ q \in Rows
         /\ CodeStands(q, c, p2, o \/ (p2 /\ ~p /\ c \notin AutoClear))
         /\ p /\ p2 /\ AckStands(r, c) => AckStands(q, c)
<1>0. \A e \in Entries(r) : e \in Entry
  BY Views
<1>1. CASE p2 = TRUE
  <2>r. ASSUME NEW d \in Entries(r)
        PROVE  /\ Raised(d, a).code = d.code /\ Raised(d, a).active
               /\ Raised(d, a).acked <=> d.acked /\ d.active
               /\ Raised(d, a).autoClear <=> a
    <3>1. d \in Entry /\ a \in BOOLEAN
      BY <1>0
    <3>. QED BY <3>1, EntryParts
  <2>1. RaiseOf(r, q, c, a)
    BY <1>1, RaiseShape DEF setCondition
  <2>. USE DEF RaiseOf
  <2>2. Fresh(c, a) = [code |-> c, active |-> TRUE, acked |-> FALSE, autoClear |-> a]
    BY DEF Fresh
  <2>3. ASSUME NEW e \in Entries(q), e.code = c
        PROVE  /\ (e.autoClear <=> a) /\ e.active
               /\ e.acked => \E d \in Entries(r) : d.code = c /\ d.acked /\ d.active
    <3>1. CASE e = Fresh(c, a)
      BY <2>2, <3>1
    <3>2. CASE \E d \in Entries(r) : d.code = c /\ e = Raised(d, a)
      BY <3>2, <2>r
    <3>. QED BY <2>1, <2>3, <3>1, <3>2
  <2>4. ~q.overflowed => \E e \in Entries(q) : e.code = c
    <3>1. ASSUME ~q.overflowed, c \in Listed(r) PROVE \E e \in Entries(q) : e.code = c
      <4>1. PICK d \in Entries(r) : d.code = c
        BY <3>1, Views
      <4>2. Raised(d, a) \in Entries(q) /\ Raised(d, a).code = c
        BY <2>1, <3>1, <4>1, <2>r
      <4>. QED BY <4>2
    <3>. QED BY <2>1, <2>2, <3>1
  <2>5. \A d \in Entries(r) : d.code = c => (d.acked => ~o) /\ (d.active <=> p)
    BY DEF CodeStands
  <2>6. CodeStands(q, c, p2, o \/ (p2 /\ ~p /\ c \notin AutoClear))
    <3>1. ASSUME NEW e \in Entries(q), e.code = c
          PROVE  /\ e.autoClear <=> c \in AutoClear
                 /\ e.active <=> p2
                 /\ (o \/ (p2 /\ ~p /\ c \notin AutoClear)) => ~e.acked
      <4>1. e.acked => ~o /\ p
        BY <2>3, <2>5, <3>1
      <4>2. (e.autoClear <=> c \in AutoClear) /\ e.active
        BY <2>3, <3>1
      <4>. QED BY <1>1, <4>1, <4>2
    <3>. QED BY <1>1, <2>4, <3>1 DEF CodeStands
  <2>7. ASSUME p, AckStands(r, c) PROVE AckStands(q, c)
    <3>1. CASE r.overflowed
      BY <2>1, <3>1 DEF AckStands
    <3>2. ASSUME ~q.overflowed, NEW d \in Entries(r), d.code = c, d.acked
          PROVE  \E e \in Entries(q) : e.code = c /\ e.acked
      <4>1. Raised(d, a) \in Entries(q)
        BY <2>1, <3>2
      <4>2. d.active
        BY <2>5, <2>7, <3>2
      <4>3. Raised(d, a).code = c /\ Raised(d, a).acked
        BY <3>2, <4>2, <2>r
      <4>. QED BY <4>1, <4>3
    <3>. QED BY <2>7, <3>1, <3>2 DEF AckStands
  <2>. QED BY <2>1, <2>6, <2>7
<1>2. CASE p2 = FALSE
  <2>1. ClearOf(r, q, c)
    BY <1>2, ClearShape DEF setCondition
  <2>. USE DEF ClearOf
  <2>2. ASSUME NEW e \in Entries(q), e.code = c
        PROVE  /\ e.autoClear <=> c \in AutoClear
               /\ ~e.active
               /\ c \notin AutoClear
               /\ o => ~e.acked
    <3>1. PICK d \in Entries(r) : d.code = c /\ ~Settled(d) /\ e = Inactive(d)
      BY <2>1, <2>2
    <3>2. ~d.autoClear /\ ~d.acked
      BY <3>1 DEF Settled
    <3>3. d.autoClear <=> c \in AutoClear
      BY <3>1 DEF CodeStands
    <3>. QED BY <1>0, <3>1, <3>2, <3>3, EntryParts
  <2>3. ASSUME o, ~q.overflowed PROVE \E e \in Entries(q) : e.code = c
    <3>1. PICK d \in Entries(r) : d.code = c
      BY <2>1, <2>3 DEF CodeStands
    <3>2. \A f \in Entries(r) : f.code = c => ~Settled(f)
      BY <2>3 DEF CodeStands, Settled
    <3>3. Inactive(d) \in Entries(q) /\ Inactive(d).code = c
      BY <1>0, <2>1, <3>1, <3>2, EntryParts
    <3>. QED BY <3>3
  <2>4. CodeStands(q, c, p2, o \/ (p2 /\ ~p /\ c \notin AutoClear))
    BY <1>2, <2>2, <2>3 DEF CodeStands
  <2>. QED BY <1>2, <2>1, <2>4
<1>. QED BY <1>1, <1>2

-----------------------------------------------------------------------------
(* A cycle reports one code after the other: those in done stand as the new  *)
(* conditions say, the others still as the last report left them.            *)
Stage(r, done, cond) ==
  /\ r \in Rows
  /\ \A c \in Codes : CodeStands(r, c, c \in IF c \in done THEN cond ELSE present,
                                 c \in owed \cup (((cond \ present) \ AutoClear) \cap (owed \cup done)))
  /\ \A c \in AckedCodes(alarms) \cap present \cap cond : c \in Codes => AckStands(r, c)

LEMMA StageStep ==
  ASSUME NEW r, NEW done, NEW cond, Stage(r, done, cond), owed \cap AutoClear = {},
         NEW c \in Codes, c \notin done,
         NEW q, q = setCondition(r, c, c \in cond, c \in AutoClear)
  PROVE  Stage(q, done \cup {c}, cond)
<1>. DEFINE done2 == done \cup {c}
            due(s) == owed \cup (((cond \ present) \ AutoClear) \cap (owed \cup s))
            pres(b, s) == b \in IF b \in s THEN cond ELSE present
<1>1. r \in Rows /\ CodeStands(r, c, c \in present, c \in owed)
  <2>1. CodeStands(r, c, pres(c, done), c \in due(done))
    BY DEF Stage
  <2>2. pres(c, done) <=> c \in present
    OBVIOUS
  <2>3. c \in due(done) <=> c \in owed
    OBVIOUS
  <2>. HIDE DEF pres, due
  <2>. QED BY <2>1, <2>2, <2>3 DEF CodeStands, Stage
<1>2. /\ q \in Rows
      /\ CodeStands(q, c, c \in cond,
                    (c \in owed) \/ ((c \in cond) /\ ~(c \in present) /\ c \notin AutoClear))
      /\ (c \in present) /\ (c \in cond) /\ AckStands(r, c) => AckStands(q, c)
  <2>. DEFINE p == c \in present
              o == c \in owed
              p2 == c \in cond
              a == c \in AutoClear
  <2>1. /\ p \in BOOLEAN /\ o \in BOOLEAN /\ p2 \in BOOLEAN /\ a \in BOOLEAN
        /\ o => c \notin AutoClear
        /\ a <=> c \in AutoClear
    OBVIOUS
  <2>2. r \in Rows /\ CodeStands(r, c, p, o) /\ q = setCondition(r, c, p2, a)
    BY <1>1
  <2>. HIDE DEF p, o, p2, a
  <2>3. /\ q \in Rows
        /\ CodeStands(q, c, p2, o \/ (p2 /\ ~p /\ c \notin AutoClear))
        /\ p /\ p2 /\ AckStands(r, c) => AckStands(q, c)
    BY <2>1, <2>2, ReportOwn
  <2>. QED BY <2>3 DEF p, o, p2
<1>3. CodeStands(q, c, pres(c, done2), c \in due(done2))
  <2>1. pres(c, done2) <=> c \in cond
    OBVIOUS
  <2>2. c \in due(done2) <=>
          (c \in owed) \/ ((c \in cond) /\ ~(c \in present) /\ c \notin AutoClear)
    OBVIOUS
  <2>. HIDE DEF pres, due, done2
  <2>. QED BY <1>2, <2>1, <2>2 DEF CodeStands
<1>4. ASSUME NEW b \in Codes, b # c
      PROVE  /\ CodeStands(q, b, pres(b, done2), b \in due(done2))
             /\ AckStands(r, b) => AckStands(q, b)
  <2>1. CodeStands(r, b, pres(b, done), b \in due(done))
    BY DEF Stage
  <2>2. CodeStands(q, b, pres(b, done), b \in due(done)) /\ (AckStands(r, b) => AckStands(q, b))
    <3>. DEFINE p == pres(b, done)
                o == b \in due(done)
                p2 == c \in cond
                a == c \in AutoClear
    <3>1. p \in BOOLEAN /\ o \in BOOLEAN /\ p2 \in BOOLEAN /\ a \in BOOLEAN
      OBVIOUS
    <3>2. CodeStands(r, b, p, o) /\ q = setCondition(r, c, p2, a)
      BY <2>1
    <3>. HIDE DEF p, o, p2, a
    <3>3. CodeStands(q, b, p, o) /\ (AckStands(r, b) => AckStands(q, b))
      BY <1>1, <1>4, <3>1, <3>2, ReportOther
    <3>. QED BY <3>3 DEF p, o
  <2>3. (pres(b, done2) <=> pres(b, done)) /\ (b \in due(done2) <=> b \in due(done))
    BY <1>4
  <2>. HIDE DEF pres, due, done2
  <2>. QED BY <2>2, <2>3 DEF CodeStands
<1>5. \A b \in Codes : CodeStands(q, b, pres(b, done2), b \in due(done2))
  <2>. HIDE DEF pres, due, done2
  <2>. QED BY <1>3, <1>4
<1>6. \A b \in AckedCodes(alarms) \cap present \cap cond : b \in Codes => AckStands(q, b)
  BY <1>2, <1>4 DEF Stage
<1>. QED BY <1>2, <1>5, <1>6 DEF Stage

AlarmInv ==
  /\ alarms \in Rows
  /\ \A c \in Codes : CodeStands(alarms, c, c \in present, c \in owed)
  /\ present \subseteq Codes /\ owed \subseteq Codes \ AutoClear
  /\ tripped \in BOOLEAN /\ (tripped <=> "deadman" \in present)

LEMMA CycleStands ==
  ASSUME AlarmInv,
         NEW sensor \in BOOLEAN, NEW sane \in BOOLEAN, NEW mqtt \in BOOLEAN,
         NEW runtime \in BOOLEAN, Cycle(sensor, sane, mqtt, runtime)
  PROVE  /\ AlarmInv'
         /\ \A c \in AckedCodes(alarms) \cap present \cap present' :
              c \in AckedCodes(alarms') \/ alarms'.overflowed
<1>. DEFINE cond == Conditions(sensor, sane, mqtt, runtime)
<1>1. /\ alarms' \in Reported(cond) /\ present' = cond
      /\ owed' = owed \cup ((cond \ present) \ AutoClear)
  BY DEF Cycle
<1>2. cond \subseteq Codes /\ ("deadman" \in cond <=> tripped')
  BY SupervisorConfig DEF Conditions
<1>3. tripped' \in BOOLEAN
  BY DEF Cycle, updateDeadman, AlarmInv
<1>. HIDE DEF cond
<1>4. owed \cap AutoClear = {}
  BY DEF AlarmInv
<1>5. /\ "grace" \in Codes /\ "deadman" \in Codes /\ "sensor" \in Codes /\ "insane" \in Codes
      /\ "mqtt" \in Codes /\ "resetloop" \in Codes /\ "runtime" \in Codes
  BY SupervisorConfig
<1>6. Stage(alarms, {}, cond)
  <2>1. \A c \in AckedCodes(alarms) : AckStands(alarms, c)
    BY Views DEF AckStands, AlarmInv
  <2>2. owed \cup (((cond \ present) \ AutoClear) \cap (owed \cup {})) = owed
    OBVIOUS
  <2>. QED BY <2>1, <2>2 DEF Stage, AlarmInv
<1>7. PICK r1 : r1 = setCondition(alarms, "grace", "grace" \in cond, "grace" \in AutoClear)
  OBVIOUS
<1>8. Stage(r1, {"grace"}, cond)
  <2>1. Stage(r1, {} \cup {"grace"}, cond)
    BY <1>4, <1>5, <1>6, <1>7, StageStep
  <2>. QED BY <2>1
<1>9. PICK r2 : r2 = IF ~tripped /\ tripped' THEN raise(r1, "deadman", TRUE)
                     ELSE IF tripped /\ ~tripped' THEN clearCondition(r1, "deadman") ELSE r1
  OBVIOUS
<1>10. Stage(r2, {"grace", "deadman"}, cond)
  <2>0. "deadman" \in AutoClear
    BY DEF AutoClear
  <2>1. CASE tripped # tripped'
    <3>1. r2 = setCondition(r1, "deadman", "deadman" \in cond, "deadman" \in AutoClear)
      <4>1. tripped \in BOOLEAN /\ ("deadman" \in AutoClear) = TRUE
        BY <2>0 DEF AlarmInv
      <4>2. CASE tripped = FALSE /\ tripped' = TRUE
        <5>1. ("deadman" \in cond) = TRUE /\ r2 = raise(r1, "deadman", TRUE)
          BY <1>2, <1>9, <4>2
        <5>. QED BY <4>1, <5>1 DEF setCondition
      <4>3. CASE tripped = TRUE /\ tripped' = FALSE
        <5>1. ("deadman" \in cond) = FALSE /\ r2 = clearCondition(r1, "deadman")
          BY <1>2, <1>9, <4>3
        <5>. QED BY <4>1, <5>1 DEF setCondition
      <4>4. tripped = TRUE \/ tripped = FALSE
        BY <4>1
      <4>5. tripped' = TRUE \/ tripped' = FALSE
        BY <1>3
      <4>. QED BY <2>1, <4>2, <4>3, <4>4, <4>5, Zenon
    <3>2. Stage(r2, {"grace"} \cup {"deadman"}, cond)
      BY <1>4, <1>5, <1>8, <3>1, StageStep
    <3>3. {"grace"} \cup {"deadman"} = {"grace", "deadman"}
      OBVIOUS
    <3>. QED BY <3>2, <3>3
  <2>2. CASE tripped = tripped'
    <3>1. r2 = r1 /\ ("deadman" \in cond <=> "deadman" \in present)
      BY <1>2, <1>3, <1>9, <2>2 DEF AlarmInv
    <3>2. ASSUME NEW c \in Codes
          PROVE  /\ (c \in IF c \in {"grace", "deadman"} THEN cond ELSE present)
                      <=> (c \in IF c \in {"grace"} THEN cond ELSE present)
                 /\ (c \in owed \cup (((cond \ present) \ AutoClear) \cap (owed \cup {"grace", "deadman"})))
                      <=> (c \in owed \cup (((cond \ present) \ AutoClear) \cap (owed \cup {"grace"})))
      BY <2>0, <3>1
    <3>. QED BY <1>8, <3>1, <3>2 DEF Stage, CodeStands
  <2>. QED BY <2>1, <2>2
<1>11. PICK r3 : r3 = setCondition(r2, "sensor", "sensor" \in cond, "sensor" \in AutoClear)
  OBVIOUS
<1>12. Stage(r3, {"grace", "deadman"} \cup {"sensor"}, cond)
  BY <1>4, <1>5, <1>10, <1>11, StageStep
<1>13. PICK r4 : r4 = setCondition(r3, "insane", "insane" \in cond, "insane" \in AutoClear)
  OBVIOUS
<1>14. Stage(r4, ({"grace", "deadman"} \cup {"sensor"}) \cup {"insane"}, cond)
  BY <1>4, <1>5, <1>12, <1>13, StageStep
<1>15. PICK r5 : r5 = setCondition(r4, "mqtt", "mqtt" \in cond, "mqtt" \in AutoClear)
  OBVIOUS
<1>16. Stage(r5, (({"grace", "deadman"} \cup {"sensor"}) \cup {"insane"}) \cup {"mqtt"}, cond)
  BY <1>4, <1>5, <1>14, <1>15, StageStep
<1>17. PICK r6 : r6 = setCondition(r5, "resetloop", "resetloop" \in cond, "resetloop" \in AutoClear)
  OBVIOUS
<1>18. Stage(r6, ((({"grace", "deadman"} \cup {"sensor"}) \cup {"insane"}) \cup {"mqtt"})
                 \cup {"resetloop"}, cond)
  BY <1>4, <1>5, <1>16, <1>17, StageStep
<1>19. PICK r7 : r7 = setCondition(r6, "runtime", "runtime" \in cond, "runtime" \in AutoClear)
  OBVIOUS
<1>20. Stage(r7, (((({"grace", "deadman"} \cup {"sensor"}) \cup {"insane"}) \cup {"mqtt"})
                 \cup {"resetloop"}) \cup {"runtime"}, cond)
  BY <1>4, <1>5, <1>18, <1>19, StageStep
<1>21. Stage(r7, Codes, cond)
  <2>1. (((({"grace", "deadman"} \cup {"sensor"}) \cup {"insane"}) \cup {"mqtt"})
                 \cup {"resetloop"}) \cup {"runtime"} = Codes
    BY SupervisorConfig
  <2>. QED BY <1>20, <2>1
<1>22. alarms' = r7
  <2>1. Report({alarms}, "grace", cond) = {r1}
    BY <1>7 DEF Report
  <2>2. ReportDeadman({r1}) = {r2}
    BY <1>9 DEF ReportDeadman
  <2>3. Report({r2}, "sensor", cond) = {r3}
    BY <1>11 DEF Report
  <2>4. Report({r3}, "insane", cond) = {r4}
    BY <1>13 DEF Report
  <2>5. Report({r4}, "mqtt", cond) = {r5}
    BY <1>15 DEF Report
  <2>6. Report({r5}, "resetloop", cond) = {r6}
    BY <1>17 DEF Report
  <2>7. Report({r6}, "runtime", cond) = {r7}
    BY <1>19 DEF Report
  <2>. QED BY <1>1, <2>1, <2>2, <2>3, <2>4, <2>5, <2>6, <2>7 DEF Reported
<1>23. \A c \in Codes : CodeStands(alarms', c, c \in present', c \in owed')
  <2>1. ASSUME NEW c \in Codes PROVE CodeStands(alarms', c, c \in present', c \in owed')
    <3>1. CodeStands(r7, c, c \in IF c \in Codes THEN cond ELSE present,
              c \in owed \cup (((cond \ present) \ AutoClear) \cap (owed \cup Codes)))
      BY <1>21 DEF Stage
    <3>2. (c \in IF c \in Codes THEN cond ELSE present) <=> c \in present'
      BY <1>1
    <3>3. (c \in owed \cup (((cond \ present) \ AutoClear) \cap (owed \cup Codes))) <=> c \in owed'
      BY <1>1
    <3>. QED BY <1>22, <3>1, <3>2, <3>3 DEF CodeStands
  <2>. QED BY <2>1
<1>24. AlarmInv'
  <2>1. CodeStands(alarms, "deadman", "deadman" \in present, "deadman" \in owed)' <=>
        CodeStands(alarms', "deadman", "deadman" \in present', "deadman" \in owed')
    OBVIOUS
  <2>2. (\A c \in Codes : CodeStands(alarms, c, c \in present, c \in owed))'
    BY <1>23 DEF CodeStands, Entries
  <2>. QED BY <1>1, <1>2, <1>3, <1>21, <1>22, <2>2 DEF AlarmInv, Stage, Rows
<1>25. ASSUME NEW c \in AckedCodes(alarms) \cap present \cap present'
       PROVE  c \in AckedCodes(alarms') \/ alarms'.overflowed
  <2>1. AckStands(alarms', c) /\ alarms' \in Rows
    BY <1>1, <1>2, <1>21, <1>22 DEF Stage
  <2>. QED BY <2>1, Views DEF AckStands
<1>. QED BY <1>24, <1>25

(* What holds the equipment off is on the list of conditions: the gate, a    *)
(* latch, or a drop of this cycle.                                           *)
HeldInv ==
  /\ open \in BOOLEAN /\ late \in BOOLEAN /\ emitted \in BOOLEAN /\ uptime \in Nat
  /\ open /\ ~emitted => present \cap Critical # {}
  /\ late <=> "grace" \in present
  /\ ~open /\ uptime >= BootGraceS => late

ListInv == AlarmInv /\ HeldInv

LEMMA Fresh0 ==
  ASSUME NEW c
  PROVE  CodeStands(NoAlarms, c, FALSE, FALSE) /\ NoAlarms \in Rows
<1>1. NoAlarms \in Rows /\ Entries(NoAlarms) = {}
  BY DEF NoAlarms, Rows, Entries
<1>. QED BY <1>1 DEF CodeStands

LEMMA BootedStands ==
  ASSUME NEW ok, NEW loop, Booted(ok, loop)
  PROVE  ListInv'
<1>1. /\ open' = FALSE /\ late' = FALSE /\ emitted' = FALSE /\ tripped' = FALSE
      /\ uptime' = 0 /\ alarms' = NoAlarms /\ present' = {} /\ owed' = {}
  BY DEF Booted
<1>2. AlarmInv'
  <2>1. (\A c \in Codes : CodeStands(alarms, c, c \in present, c \in owed))'
    BY <1>1, Fresh0 DEF CodeStands, Entries
  <2>. QED BY <1>1, <2>1, Fresh0 DEF AlarmInv, Rows
<1>3. HeldInv'
  <2>1. BootGraceS \in Nat /\ BootGraceS > 0
    BY SupervisorConfig
  <2>2. ~(uptime' >= BootGraceS) /\ uptime' \in Nat
    BY <1>1, <2>1
  <2>3. "grace" \notin present'
    BY <1>1
  <2>. QED BY <1>1, <2>2, <2>3, Zenon DEF HeldInv
<1>. QED BY <1>2, <1>3 DEF ListInv

LEMMA HeldCycle ==
  ASSUME HeldInv, since \in Nat,
         NEW sensor \in BOOLEAN, NEW sane \in BOOLEAN, NEW mqtt \in BOOLEAN,
         NEW runtime \in BOOLEAN, Cycle(sensor, sane, mqtt, runtime)
  PROVE  HeldInv'
<1>1. /\ uptime' = CapAt(uptime + since, BootGraceS)
      /\ open' = (open \/ (sensor /\ configOk))
      /\ late' = (~open' /\ (late \/ uptime' >= BootGraceS))
      /\ emitted' = (open' /\ ~latched /\ ~(tripped' \/ ~sensor \/ ~sane))
      /\ present' = Conditions(sensor, sane, mqtt, runtime)
  BY DEF Cycle, updateBootGate, demandPermitted, demandDropRequested
<1>2. open' \in BOOLEAN /\ late' \in BOOLEAN /\ emitted' \in BOOLEAN /\ uptime' \in Nat
  <2>1. uptime' \in Nat
    BY <1>1, SupervisorConfig DEF CapAt, HeldInv
  <2>. QED BY <1>1, <2>1
<1>3. late' <=> "grace" \in present'
  BY <1>1 DEF Conditions
<1>4. ASSUME open', ~emitted' PROVE present' \cap Critical # {}
  <2>1. latched \/ tripped' \/ ~sensor \/ ~sane
    BY <1>1, <1>4
  <2>2. /\ latched => "resetloop" \in present'
        /\ tripped' => "deadman" \in present'
        /\ ~sensor => "sensor" \in present'
        /\ ~sane => "insane" \in present'
    BY <1>1 DEF Conditions
  <2>3. {"resetloop", "deadman", "sensor", "insane"} \subseteq Critical
    BY DEF Critical
  <2>. QED BY <2>1, <2>2, <2>3
<1>5. ~open' /\ uptime' >= BootGraceS => late'
  BY <1>1
<1>. QED BY <1>2, <1>3, <1>4, <1>5 DEF HeldInv

LEMMA AckStep ==
  ASSUME AlarmInv, AckAll \/ \E c \in Codes : Ack(c)
  PROVE  /\ AlarmInv'
         /\ \A c \in AckedCodes(alarms) \cap present \cap present' :
              c \in AckedCodes(alarms') \/ alarms'.overflowed
<1>0. present' = present /\ tripped' = tripped
  BY DEF AckAll, Ack, deadman
<1>1. alarms \in Rows /\ \A e \in Entries(alarms) : e \in Entry
  BY Views DEF AlarmInv
<1>2. ASSUME NEW d \in Entries(alarms)
      PROVE  /\ Acked(d).code = d.code /\ Acked(d).acked
             /\ Acked(d).active <=> d.active
             /\ Acked(d).autoClear <=> d.autoClear
  <2>1. d \in Entry /\ TRUE \in BOOLEAN
    BY <1>1
  <2>. QED BY <2>1, EntryParts
<1>3. ASSUME alarms' \in Rows, owed' \subseteq owed, alarms'.overflowed = alarms.overflowed,
             \A e \in Entries(alarms') : \E d \in Entries(alarms) :
                /\ e.code = d.code
                /\ e.active <=> d.active
                /\ e.autoClear <=> d.autoClear
                /\ e.acked => d.acked \/ d.code \notin owed',
             \A d \in Entries(alarms) : d.active \/ d.code \in owed' =>
                \E e \in Entries(alarms') : e.code = d.code /\ (d.acked => e.acked)
      PROVE  /\ AlarmInv'
             /\ \A c \in AckedCodes(alarms) \cap present \cap present' :
                  c \in AckedCodes(alarms') \/ alarms'.overflowed
  <2>1. ASSUME NEW c \in Codes PROVE CodeStands(alarms', c, c \in present', c \in owed')
    <3>1. CodeStands(alarms, c, c \in present, c \in owed)
      BY DEF AlarmInv
    <3>2. ASSUME NEW e \in Entries(alarms'), e.code = c
          PROVE  /\ e.autoClear <=> c \in AutoClear
                 /\ e.active <=> c \in present'
                 /\ c \in AutoClear => c \in present'
                 /\ c \in owed' => ~e.acked
      <4>1. PICK d \in Entries(alarms) : /\ e.code = d.code
                                         /\ e.active <=> d.active
                                         /\ e.autoClear <=> d.autoClear
                                         /\ e.acked => d.acked \/ d.code \notin owed'
        BY <1>3
      <4>. QED BY <1>0, <1>3, <3>1, <3>2, <4>1 DEF CodeStands
    <3>3. ASSUME ~alarms'.overflowed, c \in present' \/ c \in owed'
          PROVE  \E e \in Entries(alarms') : e.code = c
      <4>1. PICK d \in Entries(alarms) : d.code = c
        BY <1>0, <1>3, <3>1, <3>3 DEF CodeStands
      <4>2. d.active \/ d.code \in owed'
        BY <1>0, <3>1, <3>3, <4>1 DEF CodeStands
      <4>. QED BY <1>3, <4>1, <4>2
    <3>. QED BY <3>2, <3>3 DEF CodeStands
  <2>2. (\A c \in Codes : CodeStands(alarms, c, c \in present, c \in owed))'
    BY <2>1 DEF CodeStands, Entries
  <2>3. AlarmInv'
    <3>1. (alarms \in Rows)'
      BY <1>3 DEF Rows
    <3>. QED BY <1>0, <1>3, <2>2, <3>1 DEF AlarmInv
  <2>4. ASSUME NEW c \in AckedCodes(alarms) \cap present
        PROVE  c \in AckedCodes(alarms')
    <3>1. PICK d \in Entries(alarms) : d.code = c /\ d.acked
      BY <1>1, Views
    <3>2. d.active
      BY <3>1 DEF AlarmInv, CodeStands
    <3>3. \E e \in Entries(alarms') : e.code = c /\ e.acked
      BY <1>3, <3>1, <3>2
    <3>. QED BY <1>3, <3>3, Views
  <2>. QED BY <2>3, <2>4
<1>4. CASE AckAll
  <2>1. alarms' = ackAll(alarms) /\ owed' = {}
    BY <1>4 DEF AckAll
  <2>2. /\ alarms' \in Rows
        /\ alarms'.overflowed = alarms.overflowed
        /\ Entries(alarms') = {Acked(d) : d \in {e \in Entries(alarms) : e.active}}
    BY <1>1, <2>1, AckAllShape
  <2>3. ASSUME NEW e \in Entries(alarms')
        PROVE  \E d \in Entries(alarms) :
                /\ e.code = d.code
                /\ e.active <=> d.active
                /\ e.autoClear <=> d.autoClear
                /\ e.acked => d.acked \/ d.code \notin owed'
    BY <1>2, <2>1, <2>2
  <2>4. ASSUME NEW d \in Entries(alarms), d.active \/ d.code \in owed'
        PROVE  \E e \in Entries(alarms') : e.code = d.code /\ (d.acked => e.acked)
    BY <1>2, <2>1, <2>2, <2>4
  <2>. QED BY <1>3, <2>1, <2>2, <2>3, <2>4
<1>5. ASSUME NEW c \in Codes, Ack(c)
      PROVE  /\ AlarmInv'
             /\ \A b \in AckedCodes(alarms) \cap present \cap present' :
                  b \in AckedCodes(alarms') \/ alarms'.overflowed
  <2>1. alarms' = ack(alarms, c) /\ owed' = owed \ {c}
    BY <1>5 DEF Ack
  <2>2. /\ alarms' \in Rows
        /\ alarms'.overflowed = alarms.overflowed
        /\ Entries(alarms') = IF c \in ActiveCodes(alarms)
                        THEN {IF d.code = c THEN Acked(d) ELSE d : d \in Entries(alarms)}
                        ELSE {d \in Entries(alarms) : d.code # c}
    BY <1>1, <2>1, AckShape
  <2>3. ASSUME NEW e \in Entries(alarms')
        PROVE  \E d \in Entries(alarms) :
                /\ e.code = d.code
                /\ e.active <=> d.active
                /\ e.autoClear <=> d.autoClear
                /\ e.acked => d.acked \/ d.code \notin owed'
    BY <1>2, <2>1, <2>2
  <2>4. ASSUME NEW d \in Entries(alarms), d.active \/ d.code \in owed'
        PROVE  \E e \in Entries(alarms') : e.code = d.code /\ (d.acked => e.acked)
    <3>1. CASE c \in ActiveCodes(alarms)
      BY <1>2, <2>2, <3>1
    <3>2. CASE c \notin ActiveCodes(alarms)
      <4>1. d.code # c
        BY <1>1, <2>1, <2>4, <3>2, Views
      <4>. QED BY <2>2, <3>2, <4>1
    <3>. QED BY <3>1, <3>2
  <2>. QED BY <1>3, <2>1, <2>2, <2>3, <2>4
<1>. QED BY <1>4, <1>5

LEMMA ListStep ==
  ASSUME ListInv, since \in Nat, [Next]_vars
  PROVE  /\ ListInv'
         /\ \A c \in AckedCodes(alarms) \cap present \cap present' :
              c \in AckedCodes(alarms') \/ alarms'.overflowed
<1>1. ASSUME UNCHANGED <<open, late, uptime, tripped, alarms, emitted, present, owed>>
      PROVE  /\ ListInv'
             /\ \A c \in AckedCodes(alarms) \cap present \cap present' :
                  c \in AckedCodes(alarms') \/ alarms'.overflowed
  BY <1>1 DEF ListInv, AlarmInv, HeldInv, CodeStands, Entries, Rows, AckedCodes
<1>2. CASE Frame \/ Second \/ UNCHANGED vars
  BY <1>1, <1>2 DEF Frame, Second, vars, gate, deadman, history
<1>3. ASSUME NEW sensor \in BOOLEAN, NEW sane \in BOOLEAN, NEW mqtt \in BOOLEAN,
             NEW runtime \in BOOLEAN, Cycle(sensor, sane, mqtt, runtime)
      PROVE  /\ ListInv'
             /\ \A c \in AckedCodes(alarms) \cap present \cap present' :
                  c \in AckedCodes(alarms') \/ alarms'.overflowed
  BY <1>3, CycleStands, HeldCycle DEF ListInv
<1>4. CASE AckAll \/ \E c \in Codes : Ack(c)
  <2>1. HeldInv'
    BY <1>4 DEF AckAll, Ack, gate, ListInv, HeldInv
  <2>. QED BY <1>4, <2>1, AckStep DEF ListInv
<1>5. CASE Watchdog \/ \E ok, loop \in BOOLEAN : Reset(ok, loop)
  <2>1. \E ok, loop : Booted(ok, loop)
    BY <1>5 DEF Watchdog, Reset
  <2>2. present' = {} /\ ListInv'
    BY <2>1, BootedStands DEF Booted
  <2>. QED BY <2>2
<1>. QED BY <1>2, <1>3, <1>4, <1>5 DEF Next

LEMMA ListInvariant == Spec => [](ListInv /\ DeadmanInv)
<1>1. Init => ListInv
  <2>. SUFFICES ASSUME Init PROVE ListInv
    OBVIOUS
  <2>1. /\ open = FALSE /\ late = FALSE /\ emitted = FALSE /\ tripped = FALSE
        /\ uptime = 0 /\ alarms = NoAlarms /\ present = {} /\ owed = {}
    BY DEF Init
  <2>2. AlarmInv
    <3>1. \A c \in Codes : CodeStands(alarms, c, c \in present, c \in owed)
      BY <2>1, Fresh0 DEF CodeStands
    <3>. QED BY <2>1, <3>1, Fresh0 DEF AlarmInv
  <2>3. BootGraceS \in Nat /\ BootGraceS > 0
    BY SupervisorConfig
  <2>4. ~(uptime >= BootGraceS) /\ uptime \in Nat
    BY <2>1, <2>3
  <2>. QED BY <2>1, <2>2, <2>4, Zenon DEF ListInv, HeldInv
<1>2. DeadmanInv => since \in Nat
  BY DEF DeadmanInv, AgesTyped
<1>3. ListInv /\ DeadmanInv /\ [Next]_vars => (ListInv /\ DeadmanInv)'
  BY <1>2, ListStep, DeadmanStep
<1>. QED BY <1>1, <1>3, InitDeadman, PTL DEF Spec

(* No order of raises, clears, acks and reboots makes the list forget a      *)
(* lasting fault, show a condition that has passed, or miss one that has not, *)
(* unless it says that it overflowed.                                         *)
THEOREM ListIsHonestHolds == Spec => []ListIsHonest
<1>1. ListInv => ListIsHonest
  <2>. SUFFICES ASSUME ListInv PROVE ListIsHonest
    OBVIOUS
  <2>1. alarms \in Rows /\ present \subseteq Codes /\ owed \subseteq Codes
    BY DEF ListInv, AlarmInv
  <2>2. \A c \in Codes : CodeStands(alarms, c, c \in present, c \in owed)
    BY DEF ListInv, AlarmInv
  <2>3. ASSUME ~alarms.overflowed, NEW c \in owed PROVE c \in Listed(alarms)
    <3>1. \E e \in Entries(alarms) : e.code = c
      BY <2>1, <2>2, <2>3 DEF CodeStands
    <3>. QED BY <2>1, <3>1, Views
  <2>4. ASSUME NEW c \in Listed(alarms) \cap AutoClear PROVE c \in present
    <3>1. PICK e \in Entries(alarms) : e.code = c
      BY <2>1, Views
    <3>2. c \in Codes
      BY <2>1, <3>1, Views DEF Entry
    <3>. QED BY <2>2, <3>1, <3>2 DEF CodeStands
  <2>5. ASSUME NEW c \in ActiveCodes(alarms) PROVE c \in present
    <3>1. PICK e \in Entries(alarms) : e.code = c /\ e.active
      BY <2>1, Views
    <3>2. c \in Codes
      BY <2>1, <3>1, Views DEF Entry
    <3>. QED BY <2>2, <3>1, <3>2 DEF CodeStands
  <2>6. ASSUME ~alarms.overflowed, NEW c \in present PROVE c \in ActiveCodes(alarms)
    <3>1. \E e \in Entries(alarms) : e.code = c /\ e.active
      BY <2>1, <2>2, <2>6 DEF CodeStands
    <3>. QED BY <2>1, <3>1, Views
  <2>. QED BY <2>3, <2>4, <2>5, <2>6
       DEF ListIsHonest, FaultsRemembered, ListIsCurrent
<1>. QED BY <1>1, ListInvariant, PTL

(* An acknowledged alarm stays acknowledged as long as its condition lasts,   *)
(* whatever the other codes do to the list meanwhile.                         *)
THEOREM AckSticksHolds == Spec => AckSticks
<1>1. ListInv /\ DeadmanInv /\ [Next]_vars =>
        [\A c \in AckedCodes(alarms) \cap present \cap present' :
           c \in AckedCodes(alarms') \/ alarms'.overflowed]_vars
  BY ListStep DEF DeadmanInv, AgesTyped
<1>. QED BY <1>1, ListInvariant, PTL DEF Spec, AckSticks

(* Equipment held off behind an open gate, and a gate closed past its grace,  *)
(* are explained by a critical alarm, unless the list says that it overflowed.*)
THEOREM DropIsExplainedHolds == Spec => []DropIsExplained
<1>1. ListInv => DropIsExplained
  <2>. SUFFICES ASSUME ListInv, ~alarms.overflowed PROVE DropIsExplained
    BY DEF DropIsExplained
  <2>1. ASSUME NEW c \in present PROVE c \in ActiveCodes(alarms)
    <3>1. \E e \in Entries(alarms) : e.code = c /\ e.active
      BY DEF ListInv, AlarmInv, CodeStands
    <3>2. alarms \in Rows
      BY DEF ListInv, AlarmInv
    <3>. QED BY <3>1, <3>2, Views
  <2>2. open /\ ~emitted => ActiveCodes(alarms) \cap Critical # {}
    BY <2>1 DEF ListInv, HeldInv
  <2>3. ~open /\ uptime >= BootGraceS => "grace" \in ActiveCodes(alarms)
    BY <2>1 DEF ListInv, HeldInv
  <2>. QED BY <2>2, <2>3 DEF DropIsExplained
<1>. QED BY <1>1, ListInvariant, PTL

=============================================================================
