-------------------------- MODULE ControlCycleProofs --------------------------
(***************************************************************************)
(* Theorems about ControlCycle, for every value of its constants: its types, *)
(* its bookkeeping of the one compressor, what the arbiter promises any      *)
(* caller, and that the loop is one of them.  Then, for the CT-485 build     *)
(* (~HpMapped), what the equipment sees: no latch, the timers of burner and  *)
(* compressor, and the cap on cool starts.                                   *)
(***************************************************************************)
EXTENDS ControlCycle, FiniteSetTheorems, TLAPS

LEMMA Constants ==
  /\ MinOffS \in Nat /\ GasMinOffS \in Nat /\ BootHoldoffS \in Nat
  /\ MaxStartHistory \in Nat \ {0}
  /\ CoolMaxStartsPerH \in Nat
  /\ Steps \subseteq {0, 1} /\ Fans \subseteq BOOLEAN /\ MaxNow \in Nat
BY GuardConfig, ShaperConfig, CycleConfig

-----------------------------------------------------------------------------
(* Bounded histories, newest entry last. *)

(* A bounded history stays inside its array when an entry is pushed. *)
LEMMA PushKeepsBound ==
  ASSUME NEW n \in Nat \ {0}, NEW h \in History(n), NEW t \in Nat
  PROVE  Push(h, t, n) \in History(n)
  BY DEF Push, History

LEMMA EmptyHistory == ASSUME NEW n \in Nat PROVE <<>> \in History(n)
  BY DEF History

(* A history counted from its newest entry: pushing shifts it by one.  *)
Back(h, j) == h[Len(h) - j]

LEMMA PushBack ==
  ASSUME NEW n \in Nat \ {0}, NEW h \in Seq(Nat), Len(h) <= n, NEW t \in Nat
  PROVE  LET p == Push(h, t, n)
         IN /\ p \in Seq(Nat)
            /\ Len(p) = IF Len(h) < n THEN Len(h) + 1 ELSE n
            /\ Back(p, 0) = t
            /\ \A j \in 1..(Len(p) - 1) : j - 1 < Len(h) /\ Back(p, j) = Back(h, j - 1)
<1>. DEFINE p == Push(h, t, n)
<1>1. CASE Len(h) < n
  <2>1. p = Append(h, t)
    BY <1>1 DEF Push
  <2>. HIDE DEF p
  <2>2. p \in Seq(Nat) /\ Len(p) = Len(h) + 1 /\ p[Len(h) + 1] = t
        /\ \A i \in 1..Len(h) : p[i] = h[i]
    BY <2>1
  <2>3. ASSUME NEW j \in 1..(Len(p) - 1)
        PROVE  j - 1 < Len(h) /\ Back(p, j) = Back(h, j - 1)
    <3>1. /\ Len(p) - j \in 1..Len(h)
          /\ Len(p) - j = Len(h) - (j - 1) /\ j - 1 < Len(h)
      BY <2>2
    <3>2. p[Len(p) - j] = h[Len(p) - j]
      BY <2>2, <3>1
    <3>3. p[Len(p) - j] = h[Len(h) - (j - 1)]
      BY <3>1, <3>2
    <3>. QED BY <3>1, <3>3 DEF Back
  <2>4. Back(p, 0) = t
    BY <2>2 DEF Back
  <2>. QED BY <1>1, <2>2, <2>3, <2>4 DEF p
<1>2. CASE Len(h) = n
  <2>1. p = Append(Tail(h), t)
    BY <1>2 DEF Push
  <2>2. Tail(h) \in Seq(Nat) /\ Len(Tail(h)) = n - 1
        /\ \A i \in 1..(n - 1) : Tail(h)[i] = h[i + 1]
    BY <1>2
  <2>. HIDE DEF p
  <2>3. p \in Seq(Nat) /\ Len(p) = n /\ p[n] = t
        /\ \A i \in 1..(n - 1) : p[i] = h[i + 1]
    BY <2>1, <2>2
  <2>4. ASSUME NEW j \in 1..(Len(p) - 1)
        PROVE  j - 1 < Len(h) /\ Back(p, j) = Back(h, j - 1)
    <3>1. /\ n - j \in 1..(n - 1) /\ j - 1 < Len(h)
          /\ n - j + 1 = Len(h) - (j - 1)
      BY <1>2, <2>3
    <3>2. p[n - j] = h[n - j + 1]
      BY <2>3, <3>1
    <3>. QED BY <2>3, <3>1, <3>2 DEF Back
  <2>5. Back(p, 0) = t
    BY <2>3 DEF Back
  <2>. QED BY <1>2, <2>3, <2>4, <2>5 DEF p
<1>. QED BY <1>1, <1>2

(* Sorted, and nothing in it later than t. *)
Ordered(h, t) ==
  /\ \A j, k \in 0..(Len(h) - 1) : j <= k => Back(h, k) <= Back(h, j)
  /\ \A j \in 0..(Len(h) - 1) : Back(h, j) <= t

LEMMA PushOrdered ==
  ASSUME NEW n \in Nat \ {0}, NEW h \in Seq(Nat), Len(h) <= n, NEW t \in Nat,
         Ordered(h, t)
  PROVE  Ordered(Push(h, t, n), t)
<1>. DEFINE p == Push(h, t, n)
<1>1. /\ p \in Seq(Nat) /\ Len(p) \in Nat /\ Back(p, 0) = t
      /\ \A j \in 1..(Len(p) - 1) : j - 1 < Len(h) /\ Back(p, j) = Back(h, j - 1)
  BY PushBack
<1>. HIDE DEF p
<1>2. ASSUME NEW j \in 0..(Len(p) - 1) PROVE Back(p, j) <= t
  <2>1. CASE j = 0
    BY <1>1, <2>1
  <2>2. CASE j # 0
    <3>1. j \in 1..(Len(p) - 1) /\ j - 1 \in 0..(Len(h) - 1)
      BY <1>1, <2>2
    <3>. QED BY <1>1, <3>1 DEF Ordered
  <2>. QED BY <2>1, <2>2
<1>3. ASSUME NEW j \in 0..(Len(p) - 1), NEW k \in 0..(Len(p) - 1), j <= k
      PROVE  Back(p, k) <= Back(p, j)
  <2>1. CASE j = 0
    BY <1>1, <1>2, <2>1
  <2>2. CASE j # 0
    <3>0. j \in 1..(Len(p) - 1) /\ k \in 1..(Len(p) - 1)
      BY <1>1, <1>3, <2>2
    <3>1. /\ j \in 1..(Len(p) - 1) /\ k \in 1..(Len(p) - 1)
          /\ j - 1 < Len(h) /\ k - 1 < Len(h)
      BY <1>1, <3>0
    <3>2. j - 1 \in 0..(Len(h) - 1) /\ k - 1 \in 0..(Len(h) - 1) /\ j - 1 <= k - 1
      BY <1>3, <3>1
    <3>3. Back(p, j) = Back(h, j - 1) /\ Back(p, k) = Back(h, k - 1)
      BY <1>1, <3>1
    <3>. QED BY <3>2, <3>3 DEF Ordered
  <2>. QED BY <2>1, <2>2
<1>. QED BY <1>2, <1>3 DEF Ordered, p

-----------------------------------------------------------------------------
(* Counting on histories.  The positions of a history are finitely many, and *)
(* fewer of them count less.                                                 *)
LEMMA Positions ==
  ASSUME NEW h \in Seq(Nat), NEW S \in SUBSET DOMAIN h
  PROVE  /\ IsFiniteSet(S) /\ Cardinality(S) \in Nat
         /\ \A T \in SUBSET S : Cardinality(T) \in Nat /\ Cardinality(T) <= Cardinality(S)
<1>1. Len(h) \in Nat /\ DOMAIN h = 1..Len(h)
  OBVIOUS
<1>2. IsFiniteSet(1..Len(h))
  BY <1>1, FS_Interval
<1>3. IsFiniteSet(S)
  BY <1>1, <1>2, FS_Subset
<1>4. ASSUME NEW T \in SUBSET S PROVE Cardinality(T) \in Nat /\ Cardinality(T) <= Cardinality(S)
  BY <1>3, FS_Subset, FS_CardinalityType
<1>. QED BY <1>3, <1>4, FS_CardinalityType

LEMMA RecentType ==
  ASSUME NEW h \in Seq(Nat), NEW t \in Nat, NEW span \in Nat
  PROVE  Recent(h, t, span) \in Nat
BY Positions DEF Recent

(* When the m newest entries are young, at least m are counted.             *)
LEMMA NewestCount ==
  ASSUME NEW h \in Seq(Nat), NEW t \in Nat, NEW span \in Nat, NEW m \in Nat \ {0},
         m <= Len(h), \A j \in 0..(m - 1) : elapsedS(t, Back(h, j)) < span
  PROVE  Recent(h, t, span) >= m
<1>. DEFINE S == {i \in DOMAIN h : elapsedS(t, h[i]) < span}
            T == (Len(h) - m + 1)..Len(h)
<1>0. Len(h) \in Nat /\ DOMAIN h = 1..Len(h)
  OBVIOUS
<1>1. T \subseteq S
  <2>. SUFFICES ASSUME NEW i \in T PROVE i \in S
    OBVIOUS
  <2>1. i \in 1..Len(h) /\ Len(h) - i \in 0..(m - 1) /\ Len(h) - (Len(h) - i) = i
    BY <1>0
  <2>2. Back(h, Len(h) - i) = h[i]
    BY <2>1 DEF Back
  <2>. QED BY <1>0, <2>1, <2>2
<1>2. Cardinality(T) = m
  <2>1. Len(h) - m + 1 \in Int /\ Len(h) \in Int /\ ~(Len(h) - m + 1 > Len(h))
        /\ Len(h) - (Len(h) - m + 1) + 1 = m
    BY <1>0
  <2>. QED BY <2>1, FS_Interval
<1>3. S \in SUBSET DOMAIN h /\ Recent(h, t, span) = Cardinality(S)
  BY DEF Recent
<1>. HIDE DEF S, T
<1>. QED BY <1>1, <1>2, <1>3, Positions

LEMMA BackType ==
  ASSUME NEW h \in Seq(Nat), NEW j \in Nat, j < Len(h)
  PROVE  Back(h, j) \in Nat
BY DEF Back

(* A budget of m that is not spent: the m-th newest entry left the window. *)
LEMMA BudgetLeft ==
  ASSUME NEW h \in Seq(Nat), NEW t \in Nat, NEW span \in Nat, NEW m \in Nat \ {0},
         Ordered(h, t), Len(h) >= m, Recent(h, t, span) < m
  PROVE  t - Back(h, m - 1) >= span
<1>1. Len(h) \in Nat /\ m - 1 \in 0..(Len(h) - 1) /\ Back(h, m - 1) \in Nat
  BY BackType
<1>2. SUFFICES ASSUME t - Back(h, m - 1) < span PROVE FALSE
  BY <1>1
<1>3. ASSUME NEW j \in 0..(m - 1) PROVE elapsedS(t, Back(h, j)) < span
  <2>1. j \in 0..(Len(h) - 1) /\ j <= m - 1 /\ Back(h, j) \in Nat
    BY <1>1, BackType
  <2>2. Back(h, m - 1) <= Back(h, j) /\ Back(h, j) <= t
    BY <1>1, <2>1 DEF Ordered
  <2>. QED BY <1>1, <1>2, <2>1, <2>2 DEF elapsedS
<1>4. Recent(h, t, span) >= m
  BY <1>3, NewestCount
<1>5. Recent(h, t, span) \in Nat
  BY RecentType
<1>. QED BY <1>4, <1>5

-----------------------------------------------------------------------------
(* The operators of CompressorGuard return guards and blobs. *)
LEMMA SaveType == ASSUME NEW g \in Guard PROVE save(g) \in Blob
  BY DEF Guard, Blob, save

LEMMA StartedType ==
  ASSUME NEW g \in Guard, NEW t \in Nat PROVE Started(g, t) \in Guard
<1>1. Push(g.startTimes, t, MaxStartHistory) \in History(MaxStartHistory)
  BY GuardConfig, PushKeepsBound DEF Guard
<1>2. QED BY <1>1 DEF Guard, Started, Time

LEMMA StoppedType ==
  ASSUME NEW g \in Guard, NEW t \in Nat PROVE Stopped(g, t) \in Guard
  BY DEF Guard, Stopped, Time

LEMMA NewGuardType == NewGuard \in Guard
  BY GuardConfig, EmptyHistory DEF NewGuard, Guard, Time

LEMMA BootType ==
  ASSUME NEW b \in Blob \cup {NoBlob}, NEW t \in Nat, NEW abnormal \in BOOLEAN,
         NEW jitter \in Nat
  PROVE  bootRestore(b, t, abnormal, jitter) \in Guard
<1> DEFINE g == IF b = NoBlob THEN unknownState(t, jitter)
                              ELSE restoreFromBlob(b, t, jitter)
<1>1. g \in Guard
  <2>1. CASE b = NoBlob
    <3>1. t + BootHoldoffS + jitter \in Nat BY GuardConfig
    <3>2. QED BY <2>1, <3>1, NewGuardType DEF unknownState, Guard
  <2>2. CASE b # NoBlob
    BY <2>2 DEF restoreFromBlob, Guard, Blob, Time
  <2>3. QED BY <2>1, <2>2
<1>2. recordBoot(g, t) \in Guard
  <2>1. Push(g.bootTimes, t, MaxBootHistory) \in History(MaxBootHistory)
    BY <1>1, GuardConfig, PushKeepsBound DEF Guard
  <2>2. QED BY <1>1, <2>1 DEF recordBoot, Guard
<1>3. QED BY <1>1, <1>2 DEF bootRestore

-----------------------------------------------------------------------------
Conflictless(out) == ~Conflict(out)

(* set() returns a record of the right shape for any request. *)
LEMMA SetType ==
  ASSUME NEW a \in Arbiter, NEW t \in Nat,
         NEW req \in (SUBSET Channels) \cup {Invalid}
  PROVE  set(a, req, t) \in Arbiter
<1>1. CASE req = Invalid
  BY <1>1 DEF set, Arbiter
<1>2. CASE req # Invalid /\ (a.latched \/ Conflict(req))
  BY <1>2 DEF set, Arbiter, Tripped
<1>3. CASE req # Invalid /\ ~(a.latched \/ Conflict(req))
  <2>1. req \ Held(a, t) \in SUBSET Channels
    BY <1>3 
  <2>2. set(a, req, t) = Emitted(a, req \ Held(a, t), t)
    BY <1>3 DEF set
  <2>. QED BY <2>1, <2>2 DEF Emitted, Arbiter
<1>. QED BY <1>1, <1>2, <1>3

(* What reaches the wire never conflicts, whatever was asked for. *)
LEMMA SetSafe ==
  ASSUME NEW a \in Arbiter, NEW t \in Nat,
         NEW req \in (SUBSET Channels) \cup {Invalid}
  PROVE  Conflictless(set(a, req, t).out)
<1>0. Conflictless({})
  BY DEF Conflictless, Conflict, Heats, HeatFamily
<1>1. CASE req = Invalid
  BY <1>0, <1>1 DEF set, Arbiter
<1>2. CASE req # Invalid /\ (a.latched \/ Conflict(req))
  BY <1>0, <1>2 DEF set, Arbiter, Tripped
<1>3. CASE req # Invalid /\ ~(a.latched \/ Conflict(req))
  <2>1. set(a, req, t).out = req \ Held(a, t)
    BY <1>3 DEF set, Emitted, Arbiter
  <2>2. Conflictless(req \ Held(a, t))
    BY <1>3 DEF Conflictless, Conflict, Heats
  <2>. QED BY <2>1, <2>2
<1>. QED BY <1>1, <1>2, <1>3

(* The stamps set() leaves: the time of the emission for a family on the     *)
(* wire, the old one otherwise.                                              *)
LEMMA SetStamps ==
  ASSUME NEW a \in Arbiter, NEW t \in Nat,
         NEW req \in (SUBSET Channels) \cup {Invalid}
  PROVE  LET b == set(a, req, t)
         IN /\ b.lastHeat = IF Heats(b.out) THEN t ELSE a.lastHeat
            /\ b.lastCool = IF "cool" \in b.out THEN t ELSE a.lastCool
<1>0. ~Heats({})
  BY DEF Heats
<1>1. CASE req = Invalid
  BY <1>0, <1>1 DEF set, Arbiter
<1>2. CASE req # Invalid /\ (a.latched \/ Conflict(req))
  BY <1>0, <1>2 DEF set, Arbiter, Tripped
<1>3. CASE req # Invalid /\ ~(a.latched \/ Conflict(req))
  BY <1>3 DEF set, Emitted, Arbiter
<1>. QED BY <1>1, <1>2, <1>3

(* A family on the wire has waited out the other one's stamp. *)
LEMMA SetRests ==
  ASSUME NEW a \in Arbiter, NEW t \in Nat,
         a.lastHeat <= t, a.lastCool <= t,
         NEW req \in (SUBSET Channels) \cup {Invalid}
  PROVE  /\ Heats(set(a, req, t).out) => t - a.lastCool >= CoolToHeatDwellS
         /\ "cool" \in set(a, req, t).out => t - a.lastHeat >= HeatToCoolDwellS
<1>0. ~Heats({}) /\ "cool" \notin {}
  BY DEF Heats
<1>1. CASE req = Invalid
  BY <1>0, <1>1 DEF set, Arbiter
<1>2. CASE req # Invalid /\ (a.latched \/ Conflict(req))
  BY <1>0, <1>2 DEF set, Arbiter, Tripped
<1>3. CASE req # Invalid /\ ~(a.latched \/ Conflict(req))
  <2>1. set(a, req, t).out = req \ Held(a, t)
    BY <1>3 DEF set, Emitted, Arbiter
  <2>2. a.lastHeat \in Nat /\ a.lastCool \in Nat
    BY DEF Arbiter
  <2>3. ASSUME Heats(req \ Held(a, t))
        PROVE  t - a.lastCool >= CoolToHeatDwellS
    <3>1. ~(HeatFamily \subseteq Held(a, t))
      BY <2>3 DEF Heats
    <3>2. ~(elapsedS(t, a.lastCool) < CoolToHeatDwellS)
      BY <3>1 DEF Held
    <3>. QED BY <2>2, <3>2, DwellConfig DEF elapsedS
  <2>4. ASSUME "cool" \in req \ Held(a, t)
        PROVE  t - a.lastHeat >= HeatToCoolDwellS
    <3>1. ~(elapsedS(t, a.lastHeat) < HeatToCoolDwellS)
      BY <2>4 DEF Held
    <3>. QED BY <2>2, <3>1, DwellConfig DEF elapsedS
  <2>. QED BY <2>1, <2>3, <2>4
<1>. QED BY <1>1, <1>2, <1>3

(* A latched arbiter emits nothing. *)
LEMMA SetLatched ==
  ASSUME NEW a \in Arbiter, NEW t \in Nat,
         NEW req \in (SUBSET Channels) \cup {Invalid},
         set(a, req, t).latched \/ a.latched
  PROVE  set(a, req, t).out = {}
<1>1. CASE req = Invalid
  BY <1>1 DEF set, Arbiter
<1>2. CASE req # Invalid /\ (a.latched \/ Conflict(req))
  BY <1>2 DEF set, Arbiter, Tripped
<1>3. CASE req # Invalid /\ ~(a.latched \/ Conflict(req))
  BY <1>3 DEF set, Emitted, Arbiter
<1>. QED BY <1>1, <1>2, <1>3

-----------------------------------------------------------------------------
(* The shapers and the gate return records of their types. *)
LEMMA GasType ==
  ASSUME NEW g \in Gas, NEW t \in Nat, NEW req
  PROVE  shapeGas(g, req, t) \in Gas /\ forceStop(g, t) \in Gas
<1>1. Extinguished(g, t) \in Gas
  BY DEF Extinguished, Gas
<1>2. Dark(g, req, t) \in Gas
  BY DEF Dark, Gas
<1>3. Lit(g, req, t) \in Gas
  BY <1>1 DEF Lit, Gas
<1>. QED BY <1>1, <1>2, <1>3 DEF shapeGas, forceStop

LEMMA GateType ==
  ASSUME NEW c \in Compressor, NEW t \in Nat
  PROVE  /\ gateStart(c, t) \in Compressor
         /\ gateStop(c, t) \in Compressor
         /\ safetyStop(c, t) \in Compressor
<1>1. Started(c.guard, t) \in Guard /\ Stopped(c.guard, t) \in Guard
  BY StartedType, StoppedType DEF Compressor
<1>2. gateStart(c, t) \in Compressor
  BY <1>1 DEF gateStart, Compressor, Time
<1>3. gateStop(c, t) \in Compressor
  BY <1>1 DEF gateStop, Compressor
<1>4. safetyStop(c, t) \in Compressor
  BY <1>1 DEF safetyStop, Compressor
<1>. QED BY <1>2, <1>3, <1>4

LEMMA DutyType ==
  ASSUME NEW s \in Duty, NEW c \in Compressor, NEW t \in Nat
  PROVE  /\ resetShaper(s) \in Duty
         /\ \A m \in BOOLEAN : /\ TurnOn(s, c, t, m).shaper \in Duty
                               /\ TurnOn(s, c, t, m).gate \in Compressor
         /\ TurnOff(s, c, t).shaper \in Duty /\ TurnOff(s, c, t).gate \in Compressor
         /\ Stay(s, c).shaper \in Duty /\ Stay(s, c).gate \in Compressor
<1>1. Push(s.starts, t, MaxStartHistory) \in History(MaxStartHistory)
  BY GuardConfig, PushKeepsBound DEF Duty
<1>2. resetShaper(s) \in Duty
  BY DEF resetShaper, NewDuty, Duty, Time, NoTime
<1>3. ASSUME NEW m \in BOOLEAN
      PROVE  TurnOn(s, c, t, m).shaper \in Duty /\ TurnOn(s, c, t, m).gate \in Compressor
  BY <1>1, GateType DEF TurnOn, Duty, Time, NoTime
<1>4. TurnOff(s, c, t).shaper \in Duty /\ TurnOff(s, c, t).gate \in Compressor
  BY GateType DEF TurnOff, Duty
<1>5. Stay(s, c).shaper \in Duty /\ Stay(s, c).gate \in Compressor
  BY DEF Stay
<1>. QED BY <1>2, <1>3, <1>4, <1>5

LEMMA ShapeType ==
  ASSUME NEW s \in Duty, NEW c \in Compressor, NEW t \in Nat, NEW duty
  PROVE  /\ shapeHp(s, c, duty, t).shaper \in Duty
         /\ shapeHp(s, c, duty, t).gate \in Compressor
         /\ shapeCool(s, c, duty, t).shaper \in Duty
         /\ shapeCool(s, c, duty, t).gate \in Compressor
<1>1. Armed(s.armedAt, t) \in BOOLEAN
  BY DEF Armed
<1>2. shapeHp(s, c, duty, t) \in {TurnOn(s, c, t, FALSE), TurnOff(s, c, t), Stay(s, c)}
  BY DEF shapeHp
<1>3. shapeCool(s, c, duty, t) \in
        {TurnOn(s, c, t, Armed(s.armedAt, t)), TurnOff(s, c, t), Stay(s, c)}
  BY DEF shapeCool
<1>. QED BY <1>1, <1>2, <1>3, DutyType

(* What a shaper's turn does to its own flag and to the guard's: they change *)
(* together, and a shaper without a call never comes on.                     *)
LEMMA FlagsTogether ==
  ASSUME NEW s \in Duty, NEW c \in Compressor, NEW t \in Nat, NEW duty,
         NEW r \in {shapeHp(s, c, duty, t), shapeCool(s, c, duty, t)}
  PROVE  /\ r.shaper.on = s.on => r.gate.guard.running = c.guard.running
         /\ r.shaper.on # s.on => r.gate.guard.running = r.shaper.on
         /\ duty = "none" /\ ~s.on => ~r.shaper.on
<1>0. /\ s.on \in BOOLEAN /\ c.guard \in Guard /\ c.guard.running \in BOOLEAN
  BY DEF Duty, Compressor, Guard
<1>1. /\ Started(c.guard, t).running = TRUE
      /\ Stopped(c.guard, t).running = FALSE
  BY <1>0 DEF Started, Stopped, Guard
<1>2. \A m : /\ TurnOn(s, c, t, m).shaper.on = TRUE
             /\ TurnOn(s, c, t, m).gate.guard.running = TRUE
  BY <1>1 DEF TurnOn, gateStart, Duty, Compressor
<1>3. /\ TurnOff(s, c, t).shaper.on = FALSE
      /\ TurnOff(s, c, t).gate.guard.running = FALSE
  BY <1>1 DEF TurnOff, gateStop, Duty, Compressor
<1>4. /\ Stay(s, c).shaper.on = s.on
      /\ Stay(s, c).gate.guard.running = c.guard.running
  BY DEF Stay
<1>5. \/ r = Stay(s, c)
      \/ s.on /\ r = TurnOff(s, c, t)
      \/ ~s.on /\ duty # "none" /\ \E m : r = TurnOn(s, c, t, m)
  BY DEF shapeHp, shapeCool
<1>. QED BY <1>0, <1>2, <1>3, <1>4, <1>5
(* set() emits nothing that was not asked for. *)
LEMMA EmitsOnlyAsked ==
  ASSUME NEW a \in Arbiter, NEW t \in Nat, NEW req \in SUBSET Channels
  PROVE  set(a, req, t).out \subseteq req
<1>1. CASE req = Invalid
  BY <1>1 DEF set, Arbiter
<1>2. CASE req # Invalid
  BY <1>2 DEF set, Tripped, Emitted, Arbiter
<1>. QED BY <1>1, <1>2

-----------------------------------------------------------------------------
(* A call names at most one of the two compressor families. *)
LEMMA CallShape ==
  ASSUME NEW call \in Calls
  PROVE  call.hp = "none" \/ call.cool = "none"
BY DEF Calls, NoCall

LEMMA BootCompressor ==
  ASSUME NEW b \in {Blank, NoBlob}
  PROVE  /\ bootRestore(b, 0, FALSE, 0) \in Guard
         /\ bootRestore(b, 0, FALSE, 0).running = FALSE
<1>1. b \in Blob \cup {NoBlob}
  BY NewGuardType, SaveType DEF Blank
<1>2. bootRestore(b, 0, FALSE, 0) \in Guard
  BY <1>1, BootType
<1>3. bootRestore(b, 0, FALSE, 0).running = FALSE
  BY DEF bootRestore, restoreFromBlob, unknownState, NewGuard
<1>. QED BY <1>2, <1>3

LEMMA RequestType ==
  ASSUME NEW fan \in BOOLEAN PROVE Request(fan) \in SUBSET Channels
BY DEF Request, Channels

(* One cycle keeps every record's type. *)
LEMMA CycleComponents ==
  ASSUME TypeOK, NEW call,
         IF permitted' THEN Shape(call) ELSE Drop
  PROVE  gas' \in Gas /\ hp' \in Duty /\ cool' \in Duty /\ comp' \in Compressor
<1>0. /\ gas \in Gas /\ hp \in Duty /\ cool \in Duty
      /\ comp \in Compressor /\ now \in Nat
  BY DEF TypeOK
<1>1. CASE permitted'
  <2>1. Shape(call)
    BY <1>1
  <2>. DEFINE ask == Excluded(call)
              hpS == shapeHp(hp, comp, ask.hp, now)
              coolS == shapeCool(cool, hpS.gate, ask.cool, now)
  <2>2. /\ gas' = shapeGas(gas, ask.gas, now)
        /\ hp' = hpS.shaper /\ cool' = coolS.shaper /\ comp' = coolS.gate
    BY <2>1 DEF Shape
  <2>3. hpS.shaper \in Duty /\ hpS.gate \in Compressor
    BY <1>0, ShapeType
  <2>. HIDE DEF ask, hpS
  <2>4. coolS.shaper \in Duty /\ coolS.gate \in Compressor
    BY <1>0, <2>3, ShapeType
  <2>5. shapeGas(gas, ask.gas, now) \in Gas
    BY <1>0, GasType
  <2>. QED BY <2>2, <2>3, <2>4, <2>5
<1>2. CASE ~permitted'
  <2>1. Drop
    BY <1>2
  <2>2. forceStop(gas, now) \in Gas
    BY <1>0, GasType
  <2>3. /\ safetyStop(comp, now) \in Compressor
        /\ resetShaper(hp) \in Duty /\ resetShaper(cool) \in Duty
    BY <1>0, GateType, DutyType
  <2>. QED BY <1>0, <2>1, <2>2, <2>3 DEF Drop
<1>. QED BY <1>1, <1>2

LEMMA InitType == Init => TypeOK
<1>. SUFFICES ASSUME Init PROVE TypeOK
  OBVIOUS
<1>1. PICK b \in {Blank, NoBlob} :
        comp = [guard |-> bootRestore(b, 0, FALSE, 0), armedAt |-> NoTime,
                anchor |-> 0]
  BY DEF Init
<1>2. comp \in Compressor
  BY <1>1, BootCompressor DEF Compressor, Time
<1>3. NewDuty \in Duty
  BY Constants, EmptyHistory DEF NewDuty, Duty, Time
<1>4. NewGas(0) \in Gas /\ NewArbiter(0) \in Arbiter
  BY DEF NewGas, Gas, NewArbiter, Arbiter, Channels
<1>5. AllOff \in Contacts
  BY DEF AllOff, Contacts
<1>6. /\ onAt \in [Sources -> Time] /\ offAt \in [Sources -> Nat]
      /\ askedAt \in Time /\ coolStarts \in Seq(Nat)
  BY DEF Init, Time
<1>7. provenFor \in -2..2
  BY Constants DEF Init
<1>8. now \in Nat /\ permitted \in BOOLEAN /\ bootHoldEnd \in Nat /\ justChanged \in BOOLEAN
  BY Constants DEF Init
<1>9. gas \in Gas /\ hp \in Duty /\ cool \in Duty /\ arb \in Arbiter /\ coil \in Contacts
  BY <1>3, <1>4, <1>5 DEF Init
<1>. QED BY <1>2, <1>6, <1>7, <1>8, <1>9 DEF TypeOK

LEMMA UpdateType ==
  ASSUME NEW out \in Contacts, NEW demand, NEW idle, NEW tooSoon
  PROVE  update(out, demand, idle, tooSoon) \in Contacts
<1>1. ValveAsked(demand) \in BOOLEAN
  BY DEF ValveAsked
<1>2. Desired(out, demand, idle) \in Contacts
  BY <1>1 DEF Desired, Contacts
<1>. QED BY <1>2 DEF update

LEMMA StepType == TypeOK /\ [Next]_vars => TypeOK'
<1>. SUFFICES ASSUME TypeOK, [Next]_vars PROVE TypeOK'
  OBVIOUS
<1>0. /\ now \in Nat /\ arb \in Arbiter /\ coil \in Contacts
      /\ cool \in Duty /\ comp \in Compressor
  BY DEF TypeOK
<1>1. ASSUME NEW ok \in BOOLEAN, NEW fan \in Fans, NEW call \in Calls,
             NEW d \in Steps, NEW blower \in BOOLEAN, NEW tooSoon \in BOOLEAN,
             Cycle(ok, call, fan, blower, tooSoon, d)
      PROVE  TypeOK'
  <2>1. gas' \in Gas /\ hp' \in Duty /\ cool' \in Duty /\ comp' \in Compressor
    BY <1>1, CycleComponents DEF Cycle
  <2>2. arb' \in Arbiter
    BY <1>0, <1>1, Constants, RequestType, SetType DEF Cycle
  <2>3. coil' \in Contacts /\ justChanged' \in BOOLEAN
    <3>1. AllOff \in Contacts
      BY DEF AllOff, Contacts
    <3>2. CASE ~HpMapped
      BY <1>0, <1>1, <3>2 DEF Cycle, apply, TypeOK
    <3>3. CASE HpMapped
      <4>. DEFINE was == IF permitted' THEN coil ELSE AllOff
                  idle == provenIdle(comp', now, bootHoldEnd)
      <4>1. /\ coil' = update(was, proven(blower, arb'.out), idle, tooSoon)
            /\ justChanged' = (coil' # was)
        BY <1>1, <3>3 DEF Cycle, apply
      <4>2. was \in Contacts
        BY <1>0, <3>1
      <4>. HIDE DEF was, idle
      <4>. QED BY <4>1, <4>2, UpdateType
    <3>. QED BY <3>2, <3>3
  <2>4. now' \in Nat /\ permitted' \in BOOLEAN /\ bootHoldEnd' \in Nat
    <3>1. now \in Nat /\ bootHoldEnd \in Nat /\ d \in Nat
      BY <1>0, Constants DEF TypeOK
    <3>2. /\ now' = now + d /\ bootHoldEnd' = bootHoldEnd
          /\ permitted' = (ok /\ DemandStateSane)
      BY <1>1 DEF Cycle
    <3>. QED BY <3>1, <3>2
  <2>5. onAt' \in [Sources -> Time] /\ offAt' \in [Sources -> Nat] /\ askedAt' \in Time
    BY <1>0, <1>1 DEF Cycle, TypeOK, Time
  <2>6. coolStarts' \in Seq(Nat)
    BY <1>0, <1>1, Constants DEF Cycle, TypeOK, Push
  <2>7. provenFor' \in -2..2
    BY <1>1, Constants DEF Cycle, TypeOK
  <2>. QED BY <2>1, <2>2, <2>3, <2>4, <2>5, <2>6, <2>7 DEF TypeOK
<1>2. CASE UserAction
  <2>1. [comp EXCEPT !.armedAt = now] \in Compressor
    BY <1>0 DEF Compressor, Time
  <2>2. [cool EXCEPT !.armedAt = now] \in Duty
    BY <1>0 DEF Duty, Time
  <2>. QED BY <1>0, <1>2, <2>1, <2>2 DEF UserAction, TypeOK, Time
<1>3. CASE AckAlarms
  <2>1. clearInvariantAlarm(arb) \in Arbiter
    BY <1>0 DEF clearInvariantAlarm, Arbiter
  <2>. QED BY <1>3, <2>1 DEF AckAlarms, TypeOK, history
<1>4. CASE UNCHANGED vars
  BY <1>4 DEF vars, core, history, TypeOK
<1>. QED BY <1>1, <1>2, <1>3, <1>4 DEF Next

(* Every component keeps its type, for all dwells, minimums and caps. *)
THEOREM TypeCorrect == Spec => []TypeOK
BY InitType, StepType, PTL DEF Spec

-----------------------------------------------------------------------------
LEMMA InitOne == Init => OneCompressor
<1>. SUFFICES ASSUME Init PROVE OneCompressor
  OBVIOUS
<1>1. PICK b \in {Blank, NoBlob} :
        comp = [guard |-> bootRestore(b, 0, FALSE, 0), armedAt |-> NoTime,
                anchor |-> 0]
  BY DEF Init
<1>0. comp.guard.running = FALSE
  BY <1>1, BootCompressor
<1>2. hp.on = FALSE /\ cool.on = FALSE /\ arb.out = {}
  BY DEF Init, NewDuty, NewArbiter
<1>. QED BY <1>0, <1>2 DEF OneCompressor

LEMMA StepOne == TypeOK /\ OneCompressor /\ [Next]_vars => OneCompressor'
<1>. SUFFICES ASSUME TypeOK, OneCompressor, [Next]_vars PROVE OneCompressor'
  OBVIOUS
<1>0. /\ now \in Nat /\ arb \in Arbiter /\ hp \in Duty /\ cool \in Duty
      /\ comp \in Compressor
      /\ hp.on \in BOOLEAN /\ cool.on \in BOOLEAN
      /\ comp.guard.running \in BOOLEAN
  BY DEF TypeOK, Duty, Compressor, Guard
<1>1. ASSUME NEW ok \in BOOLEAN, NEW fan \in Fans, NEW call \in Calls,
             NEW d \in Steps, NEW blower \in BOOLEAN, NEW tooSoon \in BOOLEAN,
             Cycle(ok, call, fan, blower, tooSoon, d)
      PROVE  OneCompressor'
  <2>1. arb'.out \subseteq Request(fan)
    BY <1>0, <1>1, Constants, RequestType, EmitsOnlyAsked DEF Cycle
  <2>2. CASE permitted'
    <3>. DEFINE ask == Excluded(call)
                hpS == shapeHp(hp, comp, ask.hp, now)
                coolS == shapeCool(cool, hpS.gate, ask.cool, now)
    <3>1. hp' = hpS.shaper /\ cool' = coolS.shaper /\ comp' = coolS.gate
      BY <1>1, <2>2 DEF Cycle, Shape
    <3>2. /\ cool.on => ask.hp = "none"
          /\ hp.on => ask.cool = "none"
          /\ ask.hp = "none" \/ ask.cool = "none"
      BY CallShape DEF Excluded
    <3>3. /\ hpS.shaper \in Duty /\ hpS.gate \in Compressor
          /\ hpS.shaper.on = hp.on => hpS.gate.guard.running = comp.guard.running
          /\ hpS.shaper.on # hp.on => hpS.gate.guard.running = hpS.shaper.on
          /\ ask.hp = "none" /\ ~hp.on => ~hpS.shaper.on
      BY <1>0, ShapeType, FlagsTogether
    <3>. HIDE DEF ask, hpS
    <3>4. /\ coolS.shaper \in Duty /\ coolS.gate \in Compressor
          /\ coolS.shaper.on = cool.on =>
               coolS.gate.guard.running = hpS.gate.guard.running
          /\ coolS.shaper.on # cool.on =>
               coolS.gate.guard.running = coolS.shaper.on
          /\ ask.cool = "none" /\ ~cool.on => ~coolS.shaper.on
      BY <1>0, <3>3, ShapeType, FlagsTogether
    <3>. HIDE DEF coolS
    <3>5. /\ hpS.shaper.on \in BOOLEAN /\ coolS.shaper.on \in BOOLEAN
          /\ hpS.gate.guard.running \in BOOLEAN
          /\ coolS.gate.guard.running \in BOOLEAN
      BY <3>3, <3>4 DEF Duty, Compressor, Guard
    <3>6. /\ comp'.guard.running <=> hp'.on \/ cool'.on
          /\ ~(hp'.on /\ cool'.on)
      BY <1>0, <3>1, <3>2, <3>3, <3>4, <3>5 DEF OneCompressor
    <3>7. /\ "hp" \in arb'.out => hp'.on
          /\ "cool" \in arb'.out => cool'.on
      BY <2>1 DEF Request
    <3>. QED BY <3>6, <3>7 DEF OneCompressor
  <2>3. CASE ~permitted'
    <3>1. /\ comp' = safetyStop(comp, now)
          /\ hp' = resetShaper(hp) /\ cool' = resetShaper(cool)
      BY <1>1, <2>3 DEF Cycle, Drop
    <3>2. comp'.guard.running = FALSE
      BY <1>0, <3>1 DEF safetyStop, Stopped, Compressor, Guard
    <3>3. hp'.on = FALSE /\ cool'.on = FALSE
      BY <3>1 DEF resetShaper, NewDuty
    <3>4. arb'.out = {}
      BY <2>1, <2>3 DEF Request
    <3>. QED BY <3>2, <3>3, <3>4 DEF OneCompressor
  <2>. QED BY <2>2, <2>3
<1>2. CASE UserAction
  <2>1. /\ comp'.guard = comp.guard /\ cool'.on = cool.on
        /\ hp' = hp /\ arb' = arb
    BY <1>0, <1>2 DEF UserAction, Compressor, Duty
  <2>. QED BY <2>1 DEF OneCompressor
<1>3. CASE AckAlarms
  <2>1. /\ comp' = comp /\ cool' = cool /\ hp' = hp /\ arb'.out = arb.out
    BY <1>0, <1>3 DEF AckAlarms, clearInvariantAlarm, Arbiter
  <2>. QED BY <2>1 DEF OneCompressor
<1>4. CASE UNCHANGED vars
  BY <1>4 DEF vars, core, OneCompressor
<1>. QED BY <1>1, <1>2, <1>3, <1>4 DEF Next

(* The guard's belief and the two shapers that share it never part, and      *)
(* nothing that needs the compressor is emitted behind the guard's back.     *)
THEOREM OneCompressorHolds == Spec => []OneCompressor
BY TypeCorrect, InitOne, StepOne, PTL DEF Spec

-----------------------------------------------------------------------------
(* What CallCycle takes for granted of the compressor.                        *)
Runner == IF hp.on THEN "hp" ELSE IF cool.on THEN "cool" ELSE "off"
LongestRun == IF CoolMinOnS > MinOnS THEN CoolMinOnS ELSE MinOnS

RunsAsAsked(call) ==
  /\ \A f \in {"hp", "cool"} :
       /\ Runner # f /\ Runner' = f => Runner = "off" /\ call[f] # "none"
       /\ Runner = f /\ Runner' = f =>
            permitted' /\ (call[f] # "none" \/ elapsedS(now, comp.guard.lastStart) < LongestRun)
  /\ comp'.anchor = IF Runner # "off" /\ Runner' = "off" THEN now ELSE comp.anchor

(* The compressor starts from rest and for the family that is called, keeps    *)
(* running without a call for its minimum only and under no drop, and the      *)
(* anchor of compressorProvenIdle() is the moment its run ended, whichever     *)
(* shaper or drop ended it: Starts, Runs and compressorProvenIdle of CallCycle. *)
CompressorAsAsked ==
  [][/\ UserAction \/ AckAlarms => Runner' = Runner /\ comp'.anchor = comp.anchor
     /\ \A ok \in BOOLEAN, fan \in Fans, call \in Calls, d \in Steps,
           blower, tooSoon \in BOOLEAN :
          Cycle(ok, call, fan, blower, tooSoon, d) => RunsAsAsked(call)]_vars

(* The shaper that is on and the guard agree on when the run began.           *)
StartsTogether ==
  /\ hp.on => comp.guard.lastStart = hp.phaseStart
  /\ cool.on => comp.guard.lastStart = cool.phaseStart

(* A shaper's turn leaves all as it is, ends a run, or begins one it was       *)
(* asked for.                                                                  *)
Rests(s, c, r) == r.shaper = s /\ r.gate = c
EndsRun(s, c, t, r) ==
  s.on /\ ~r.shaper.on /\ r.gate.anchor = t /\ r.gate.guard.lastStart = c.guard.lastStart
BeginsRun(s, c, t, r) ==
  /\ ~s.on /\ r.shaper.on /\ r.gate.anchor = c.anchor
  /\ r.shaper.phaseStart = t /\ (~c.guard.running => r.gate.guard.lastStart = t)

LEMMA Turns ==
  ASSUME NEW s \in Duty, NEW c \in Compressor, NEW t \in Nat, NEW duty,
         NEW r \in {shapeHp(s, c, duty, t), shapeCool(s, c, duty, t)}
  PROVE  \/ Rests(s, c, r)
         \/ EndsRun(s, c, t, r)
         \/ duty # "none" /\ BeginsRun(s, c, t, r)
<1>0. /\ s.on \in BOOLEAN /\ c.guard \in Guard /\ c.guard.running \in BOOLEAN
  BY DEF Duty, Compressor, Guard
<1>1. /\ Stopped(c.guard, t).lastStart = c.guard.lastStart
      /\ ~c.guard.running => Started(c.guard, t).lastStart = t
  BY <1>0 DEF Started, Stopped, Guard
<1>2. ASSUME ~s.on, NEW m, r = TurnOn(s, c, t, m) PROVE BeginsRun(s, c, t, r)
  BY <1>1, <1>2 DEF TurnOn, gateStart, Duty, Compressor, BeginsRun
<1>3. ASSUME s.on, r = TurnOff(s, c, t) PROVE EndsRun(s, c, t, r)
  BY <1>1, <1>3 DEF TurnOff, gateStop, Duty, Compressor, EndsRun
<1>4. ASSUME r = Stay(s, c) PROVE Rests(s, c, r)
  BY <1>4 DEF Stay, Rests
<1>5. \/ r = Stay(s, c)
      \/ s.on /\ r = TurnOff(s, c, t)
      \/ ~s.on /\ duty # "none" /\ \E m : r = TurnOn(s, c, t, m)
  BY DEF shapeHp, shapeCool
<1>. QED BY <1>2, <1>3, <1>4, <1>5

(* A run outlives its call no longer than its minimum.                        *)
LEMMA Outlives ==
  ASSUME NEW s \in Duty, NEW c \in Compressor, NEW t \in Nat, s.on,
         s.phaseStart = c.guard.lastStart
  PROVE  /\ shapeHp(s, c, "none", t).shaper.on => elapsedS(t, c.guard.lastStart) < LongestRun
         /\ shapeCool(s, c, "none", t).shaper.on => elapsedS(t, c.guard.lastStart) < LongestRun
<1>0. /\ MinOnS \in Nat /\ CoolMinOnS \in Nat
      /\ c.guard.lastStart \in Nat /\ elapsedS(t, c.guard.lastStart) \in Nat
  BY GuardConfig, ShaperConfig DEF Duty, elapsedS
<1>1. ~TurnOff(s, c, t).shaper.on
  BY DEF TurnOff, Duty
<1>2. ~canStop(c, t) => elapsedS(t, c.guard.lastStart) < MinOnS
  BY <1>0 DEF canStop, StopAllowed
<1>3. ~CoolWantsOff(s, "none", t) => elapsedS(t, c.guard.lastStart) < CoolMinOnS
  BY <1>0 DEF CoolWantsOff, InPhase
<1>4. shapeHp(s, c, "none", t).shaper.on => ~canStop(c, t)
  BY <1>1 DEF shapeHp
<1>5. shapeCool(s, c, "none", t).shaper.on => ~canStop(c, t) \/ ~CoolWantsOff(s, "none", t)
  BY <1>1 DEF shapeCool
<1>. QED BY <1>0, <1>2, <1>3, <1>4, <1>5 DEF LongestRun

LEMMA ShapeAsAsked ==
  ASSUME TypeOK, OneCompressor, StartsTogether, NEW call \in Calls, Shape(call), permitted'
  PROVE  RunsAsAsked(call) /\ StartsTogether'
<1>0. /\ now \in Nat /\ hp \in Duty /\ cool \in Duty /\ comp \in Compressor
      /\ hp.on \in BOOLEAN /\ cool.on \in BOOLEAN /\ comp.guard.running \in BOOLEAN
      /\ ~(hp.on /\ cool.on) /\ (comp.guard.running <=> hp.on \/ cool.on)
  BY DEF TypeOK, Duty, Compressor, Guard, OneCompressor
<1>. DEFINE ask == Excluded(call)
            hpS == shapeHp(hp, comp, ask.hp, now)
            coolS == shapeCool(cool, hpS.gate, ask.cool, now)
<1>1. /\ hp' = hpS.shaper /\ cool' = coolS.shaper /\ comp' = coolS.gate
  BY DEF Shape
<1>2. /\ cool.on => ask.hp = "none"
      /\ hp.on => ask.cool = "none"
      /\ ask.hp = "none" \/ ask.cool = "none"
      /\ ask.hp # "none" => call.hp # "none"
      /\ ask.cool # "none" => call.cool # "none"
  BY CallShape DEF Excluded
<1>3. hpS.gate \in Compressor /\ hpS.shaper \in Duty
  BY <1>0, ShapeType
<1>4. \/ Rests(hp, comp, hpS)
      \/ EndsRun(hp, comp, now, hpS)
      \/ ask.hp # "none" /\ BeginsRun(hp, comp, now, hpS)
  BY <1>0, Turns
<1>5. \/ Rests(cool, hpS.gate, coolS)
      \/ EndsRun(cool, hpS.gate, now, coolS)
      \/ ask.cool # "none" /\ BeginsRun(cool, hpS.gate, now, coolS)
  BY <1>0, <1>3, Turns
<1>6. hp.on /\ ask.hp = "none" /\ hp'.on => elapsedS(now, comp.guard.lastStart) < LongestRun
  BY <1>0, <1>1, Outlives DEF StartsTogether
<1>7. cool.on /\ ask.cool = "none" /\ cool'.on /\ hpS.gate = comp
        => elapsedS(now, comp.guard.lastStart) < LongestRun
  BY <1>0, <1>1, Outlives DEF StartsTogether
<1>. HIDE DEF ask, hpS, coolS
<1>8. CASE hp.on
  <2>1. ~cool.on /\ Rests(cool, hpS.gate, coolS)
    BY <1>0, <1>2, <1>5, <1>8 DEF EndsRun
  <2>2. cool' = cool /\ comp' = hpS.gate
    BY <1>1, <2>1 DEF Rests
  <2>3. \/ hp' = hp /\ comp' = comp
        \/ ~hp'.on /\ comp'.anchor = now
    BY <1>1, <1>4, <1>8, <2>2 DEF Rests, EndsRun, BeginsRun
  <2>. QED BY <1>0, <1>2, <1>6, <1>8, <2>1, <2>2, <2>3 DEF Runner, RunsAsAsked, StartsTogether
<1>9. CASE cool.on
  <2>1. ~hp.on /\ Rests(hp, comp, hpS)
    BY <1>0, <1>2, <1>4, <1>9 DEF EndsRun
  <2>2. hp' = hp /\ hpS.gate = comp
    BY <1>1, <2>1 DEF Rests
  <2>3. \/ cool' = cool /\ comp' = comp
        \/ ~cool'.on /\ comp'.anchor = now
    BY <1>1, <1>5, <1>9, <2>2 DEF Rests, EndsRun, BeginsRun
  <2>. QED BY <1>0, <1>2, <1>7, <1>9, <2>1, <2>2, <2>3 DEF Runner, RunsAsAsked, StartsTogether
<1>10. CASE ~hp.on /\ ~cool.on
  <2>1. CASE ask.hp # "none"
    <3>1. cool' = cool /\ comp' = hpS.gate
      BY <1>1, <1>2, <1>5, <1>10, <2>1 DEF Rests, EndsRun
    <3>2. \/ hp' = hp /\ comp' = comp
          \/ hp'.on /\ comp'.anchor = comp.anchor /\ comp'.guard.lastStart = hp'.phaseStart
      BY <1>0, <1>1, <1>4, <1>10, <3>1 DEF Rests, EndsRun, BeginsRun
    <3>. QED BY <1>0, <1>2, <1>10, <2>1, <3>1, <3>2 DEF Runner, RunsAsAsked, StartsTogether
  <2>2. CASE ask.hp = "none"
    <3>1. hp' = hp /\ hpS.gate = comp
      BY <1>1, <1>4, <1>10, <2>2 DEF Rests, EndsRun
    <3>2. \/ cool' = cool /\ comp' = comp
          \/ /\ ask.cool # "none" /\ cool'.on /\ comp'.anchor = comp.anchor
             /\ comp'.guard.lastStart = cool'.phaseStart
      BY <1>0, <1>1, <1>5, <1>10, <3>1 DEF Rests, EndsRun, BeginsRun
    <3>. QED BY <1>0, <1>2, <1>10, <3>1, <3>2 DEF Runner, RunsAsAsked, StartsTogether
  <2>. QED BY <2>1, <2>2
<1>. QED BY <1>8, <1>9, <1>10

LEMMA DropAsAsked ==
  ASSUME TypeOK, OneCompressor, NEW call \in Calls, Drop
  PROVE  RunsAsAsked(call) /\ StartsTogether'
<1>1. ~hp'.on /\ ~cool'.on
  BY DEF Drop, resetShaper, NewDuty
<1>2. comp'.anchor = IF comp.guard.running THEN now ELSE comp.anchor
  BY DEF Drop, safetyStop, TypeOK, Compressor
<1>. QED BY <1>1, <1>2 DEF OneCompressor, RunsAsAsked, StartsTogether, Runner

LEMMA CycleAsAsked ==
  ASSUME TypeOK, OneCompressor, StartsTogether,
         NEW ok \in BOOLEAN, NEW fan \in Fans, NEW call \in Calls,
         NEW d \in Steps, NEW blower \in BOOLEAN, NEW tooSoon \in BOOLEAN,
         Cycle(ok, call, fan, blower, tooSoon, d)
  PROVE  RunsAsAsked(call) /\ StartsTogether'
<1>1. CASE permitted'
  BY <1>1, ShapeAsAsked DEF Cycle
<1>2. CASE ~permitted'
  BY <1>2, DropAsAsked DEF Cycle
<1>. QED BY <1>1, <1>2

LEMMA AloneAsAsked ==
  ASSUME TypeOK, UserAction \/ AckAlarms \/ UNCHANGED vars
  PROVE  /\ Runner' = Runner /\ comp'.anchor = comp.anchor
         /\ StartsTogether => StartsTogether'
<1>1. /\ comp'.guard = comp.guard /\ comp'.anchor = comp.anchor /\ hp' = hp
      /\ cool'.on = cool.on /\ cool'.phaseStart = cool.phaseStart
  BY DEF TypeOK, Compressor, Duty, UserAction, AckAlarms, vars, core
<1>. QED BY <1>1 DEF Runner, StartsTogether

LEMMA InitTogether == Init => StartsTogether
BY DEF Init, NewDuty, StartsTogether

LEMMA StepTogether ==
  TypeOK /\ OneCompressor /\ StartsTogether /\ [Next]_vars => StartsTogether'
BY CycleAsAsked, AloneAsAsked DEF Next

LEMMA StepAsAsked ==
  ASSUME TypeOK, OneCompressor, StartsTogether
  PROVE  /\ UserAction \/ AckAlarms => Runner' = Runner /\ comp'.anchor = comp.anchor
         /\ \A ok \in BOOLEAN, fan \in Fans, call \in Calls, d \in Steps,
               blower, tooSoon \in BOOLEAN :
              Cycle(ok, call, fan, blower, tooSoon, d) => RunsAsAsked(call)
BY CycleAsAsked, AloneAsAsked

(* The compressor runs as CallCycle assumes it to, in both builds.            *)
THEOREM CompressorAsAskedHolds == Spec => CompressorAsAsked
<1>1. Spec => []StartsTogether
  BY TypeCorrect, OneCompressorHolds, InitTogether, StepTogether, PTL DEF Spec
<1>. QED BY <1>1, TypeCorrect, OneCompressorHolds, StepAsAsked, PTL DEF Spec, CompressorAsAsked

-----------------------------------------------------------------------------
(* The arbiter under any caller.  ChangeoverRest is a property of a step, so   *)
(* it needs what the arbiter's record remembers of the steps before: the       *)
(* stamp of a family that is on the wire is at most one cycle old, and so is,  *)
(* seen from it, the moment the family left.                                   *)

(* ArbiterAlone's operators are the ones ControlCycle calls. *)
LEMMA SameSet ==
  /\ Alone!Channels = Channels /\ Alone!Sources = Sources
  /\ Alone!HeatFamily = HeatFamily /\ Alone!Invalid = Invalid
  /\ Alone!Arbiter = Arbiter /\ Alone!NewArbiter(0) = NewArbiter(0)
  /\ \A d : Alone!Heats(d) = Heats(d)
  /\ \A a : Alone!clearInvariantAlarm(a) = clearInvariantAlarm(a)
  /\ \A a, req, t : Alone!set(a, req, t) = set(a, req, t)
<1>1. HeatFamily = Alone!HeatFamily
  BY DEF HeatFamily, Alone!HeatFamily
<1>2. \A d : Heats(d) = Alone!Heats(d)
  BY <1>1 DEF Heats, Alone!Heats
<1>3. \A d : Conflict(d) = Alone!Conflict(d)
  BY <1>1, <1>2 DEF Conflict, Alone!Conflict
<1>4. \A a, t : Held(a, t) = Alone!Held(a, t)
  BY <1>1 DEF Held, Alone!Held, elapsedS, Alone!elapsedS
<1>5. \A a : Tripped(a) = Alone!Tripped(a)
  BY DEF Tripped, Alone!Tripped
<1>6. \A a, out, t : Emitted(a, out, t) = Alone!Emitted(a, out, t)
  BY <1>2 DEF Emitted, Alone!Emitted
<1>7. \A a, req, t : set(a, req, t) = Alone!set(a, req, t)
  BY <1>3, <1>4, <1>5, <1>6 DEF set, Alone!set, Invalid, Alone!Invalid
<1>. QED BY <1>1, <1>2, <1>7
          DEF Alone!Channels, Channels, Alone!Sources, Sources, Alone!Invalid, Invalid,
              Alone!Arbiter, Arbiter, Alone!NewArbiter, NewArbiter,
              Alone!clearInvariantAlarm, clearInvariantAlarm

(* A step of ArbiterAlone, in the operators of DemandArbiter. *)
Sets(req, d) ==
  /\ arb' = set(arb, req, now)
  /\ offAt' = [c \in Sources |-> IF c \in arb.out \ arb'.out THEN now ELSE offAt[c]]
  /\ now' = now + d

Clears == arb' = clearInvariantAlarm(arb) /\ UNCHANGED <<now, offAt>>

LEMMA AloneNext ==
  [Alone!Next]_(Alone!vars) =>
    \/ \E req \in (SUBSET Channels) \cup {Invalid}, d \in {0, 1} : Sets(req, d)
    \/ Clears
    \/ UNCHANGED <<now, arb, offAt>>
<1>1. ASSUME NEW req, NEW d, Alone!Emit(req, d) PROVE Sets(req, d)
  BY <1>1, SameSet DEF Alone!Emit, Sets
<1>. QED BY <1>1, SameSet DEF Alone!Next, Alone!Clear, Clears, Alone!vars

(* What the record knows of the wire; the last conjunct is why one cycle of  *)
(* the dwell is lost: the stamp is that of the last nonzero emission.        *)
Stamped(sources, stamp) ==
  /\ stamp <= now
  /\ \A c \in sources :
       /\ c \in arb.out => now <= stamp + 1
       /\ offAt[c] <= stamp + 1

AloneTypes == now \in Nat /\ arb \in Arbiter /\ offAt \in [Sources -> Nat]

AloneInv ==
  /\ AloneTypes
  /\ Conflictless(arb.out)
  /\ arb.latched => arb.out = {}
  /\ Stamped(HeatFamily, arb.lastHeat)
  /\ Stamped({"cool"}, arb.lastCool)

LEMMA DwellsNat == HeatToCoolDwellS \in Nat /\ CoolToHeatDwellS \in Nat
BY DwellConfig

LEMMA AloneInit == Alone!Init => AloneInv
<1>. SUFFICES ASSUME Alone!Init PROVE AloneInv
  OBVIOUS
<1>1. now = 0 /\ arb = NewArbiter(0) /\ offAt = [c \in Sources |-> 0]
  BY SameSet DEF Alone!Init
<1>2. arb \in Arbiter /\ arb.out = {} /\ arb.lastHeat = 0 /\ arb.lastCool = 0
  BY <1>1 DEF NewArbiter, Arbiter, Channels
<1>. QED BY <1>1, <1>2 DEF AloneInv, AloneTypes, Stamped, Conflictless, Conflict, Heats,
                           Sources, HeatFamily

LEMMA AloneStep == AloneInv /\ [Alone!Next]_(Alone!vars) => AloneInv'
<1>. SUFFICES ASSUME AloneInv, [Alone!Next]_(Alone!vars) PROVE AloneInv'
  OBVIOUS
<1>0. /\ now \in Nat /\ arb \in Arbiter /\ offAt \in [Sources -> Nat]
      /\ HeatFamily \subseteq Sources /\ {"cool"} \subseteq Sources
  BY DEF AloneInv, AloneTypes, Sources
<1>1. ASSUME NEW req \in (SUBSET Channels) \cup {Invalid}, NEW d \in {0, 1},
             Sets(req, d)
      PROVE  AloneInv'
  <2>1. arb' = set(arb, req, now) /\ arb' \in Arbiter
    BY <1>0, <1>1, SetType DEF Sets
  <2>2. /\ arb'.lastHeat = IF Heats(arb'.out) THEN now ELSE arb.lastHeat
        /\ arb'.lastCool = IF "cool" \in arb'.out THEN now ELSE arb.lastCool
    BY <1>0, <2>1, SetStamps
  <2>3. AloneTypes'
    BY <1>0, <1>1, <2>1 DEF Sets, AloneTypes
  <2>4. Conflictless(arb'.out)
    BY <1>0, <2>1, SetSafe
  <2>5. arb'.latched => arb'.out = {}
    BY <1>0, <2>1, SetLatched
  <2>6. now' \in now..(now + 1)
    BY <1>0, <1>1 DEF Sets
  <2>7. \A c \in Sources :
          offAt'[c] = IF c \in arb.out \ arb'.out THEN now ELSE offAt[c]
    BY <1>1 DEF Sets
  <2>8. /\ arb.lastHeat \in Nat /\ arb.lastCool \in Nat
        /\ \A c \in Sources : offAt[c] \in Nat
    BY <1>0 DEF Arbiter
  <2>9. Stamped(HeatFamily, arb.lastHeat)'
    <3>1. arb'.lastHeat <= now'
      BY <1>0, <2>2, <2>6, <2>8 DEF AloneInv, Stamped
    <3>2. ASSUME NEW c \in HeatFamily
          PROVE  /\ c \in arb'.out => now' <= arb'.lastHeat + 1
                 /\ offAt'[c] <= arb'.lastHeat + 1
      <4>1. c \in arb'.out => Heats(arb'.out)
        BY DEF Heats
      <4>2. /\ c \in arb.out => now <= arb.lastHeat + 1
            /\ offAt[c] <= arb.lastHeat + 1
            /\ arb.lastHeat <= now /\ offAt[c] \in Nat
        BY <1>0, <2>8 DEF AloneInv, Stamped
      <4>. QED BY <1>0, <2>2, <2>6, <2>7, <2>8, <4>1, <4>2
    <3>. QED BY <3>1, <3>2 DEF Stamped, HeatFamily
  <2>10. Stamped({"cool"}, arb.lastCool)'
    <3>1. /\ "cool" \in arb.out => now <= arb.lastCool + 1
          /\ offAt["cool"] <= arb.lastCool + 1
          /\ arb.lastCool <= now /\ offAt["cool"] \in Nat
      BY <1>0, <2>8 DEF AloneInv, Stamped
    <3>2. offAt'["cool"] = IF "cool" \in arb.out \ arb'.out THEN now
                                                      ELSE offAt["cool"]
      BY <1>0, <2>7
    <3>. QED BY <1>0, <2>2, <2>6, <2>8, <3>1, <3>2 DEF Stamped
  <2>. QED BY <2>3, <2>4, <2>5, <2>9, <2>10 DEF AloneInv, Conflictless, Conflict
<1>2. CASE Clears
  <2>1. /\ arb' = [arb EXCEPT !.latched = FALSE]
        /\ now' = now /\ offAt' = offAt
    BY <1>2 DEF Clears, clearInvariantAlarm
  <2>2. /\ arb' \in Arbiter /\ arb'.latched = FALSE /\ arb'.out = arb.out
        /\ arb'.lastHeat = arb.lastHeat /\ arb'.lastCool = arb.lastCool
    BY <1>0, <2>1 DEF Arbiter
  <2>3. /\ Stamped(HeatFamily, arb.lastHeat)'
        /\ Stamped({"cool"}, arb.lastCool)'
    BY <2>1, <2>2 DEF AloneInv, Stamped, HeatFamily
  <2>. QED BY <1>0, <2>1, <2>2, <2>3 DEF AloneInv, AloneTypes, Conflictless, Conflict
<1>3. CASE UNCHANGED <<now, arb, offAt>>
  BY <1>3 DEF AloneInv, AloneTypes, Stamped, Conflictless, Conflict, HeatFamily
<1>. QED BY <1>1, <1>2, <1>3, AloneNext

LEMMA AloneInvariance == Alone!Spec => []AloneInv
BY AloneInit, AloneStep, PTL DEF Alone!Spec

(* The types of the arbiter's record, for all dwells. *)
THEOREM ArbiterTypeCorrect == Alone!Spec => [](Alone!TypeOK)
<1>1. AloneInv => Alone!TypeOK
  BY SameSet DEF AloneInv, AloneTypes, Alone!TypeOK
<1>. QED BY <1>1, AloneInvariance, PTL

(* No request sequence puts two conflicting demands on the wire. *)
THEOREM NoConflictEmitted == Alone!Spec => [](Alone!NeverConflicting)
<1>1. AloneInv => Alone!NeverConflicting
  <2>. SUFFICES ASSUME AloneInv PROVE Alone!NeverConflicting
    OBVIOUS
  <2>1. arb.out \subseteq Channels /\ ~Conflict(arb.out)
    BY DEF AloneInv, AloneTypes, Arbiter, Conflictless
  <2>2. "cool" \in arb.out => arb.out \subseteq {"cool", "fan"}
    BY <2>1 DEF Conflict, Heats, HeatFamily, Channels
  <2>3. "gas" \in arb.out => arb.out \subseteq {"gas", "fan"}
    BY <2>1 DEF Conflict, Heats, HeatFamily, Channels
  <2>. QED BY <2>2, <2>3 DEF Alone!NeverConflicting
<1>. QED BY <1>1, AloneInvariance, PTL

(* Once tripped, the wire stays empty until and through the clear. *)
THEOREM LatchHoldsAlways == Alone!Spec => Alone!LatchHolds
<1>1. AloneInv /\ [Alone!Next]_(Alone!vars) =>
        [arb.latched => arb'.out = {}]_(Alone!vars)
  <2>. SUFFICES ASSUME AloneInv, [Alone!Next]_(Alone!vars), arb.latched PROVE arb'.out = {}
    OBVIOUS
  <2>0. now \in Nat /\ arb \in Arbiter /\ arb.out = {}
    BY DEF AloneInv, AloneTypes
  <2>1. ASSUME NEW req \in (SUBSET Channels) \cup {Invalid}, NEW d \in {0, 1},
               Sets(req, d)
        PROVE  arb'.out = {}
    BY <2>0, <2>1, SetLatched DEF Sets
  <2>2. CASE Clears
    BY <2>0, <2>2 DEF Clears, clearInvariantAlarm, Arbiter
  <2>. QED BY <2>0, <2>1, <2>2, AloneNext
<1>. QED BY <1>1, AloneInvariance, PTL DEF Alone!Spec, Alone!LatchHolds

(* Every changeover rests, whatever requests, trips and clears lie between.  *)
THEOREM ChangeoverNeedsRest == Alone!Spec => Alone!ChangeoverRest
<1>. DEFINE HeatStarts ==
              Heats(arb'.out) /\ ~Heats(arb.out) =>
                "cool" \notin arb.out /\ now - offAt["cool"] >= CoolToHeatDwellS - 1
            CoolStarts ==
              "cool" \in arb'.out /\ "cool" \notin arb.out =>
                /\ ~Heats(arb.out)
                /\ \A c \in HeatFamily : now - offAt[c] >= HeatToCoolDwellS - 1
<1>1. AloneInv /\ [Alone!Next]_(Alone!vars) =>
        [HeatStarts /\ CoolStarts]_(Alone!vars)
  <2>. SUFFICES ASSUME AloneInv, [Alone!Next]_(Alone!vars) PROVE HeatStarts /\ CoolStarts
    OBVIOUS
  <2>0. /\ now \in Nat /\ arb \in Arbiter
        /\ arb.lastHeat \in Nat /\ arb.lastCool \in Nat
        /\ arb.lastHeat <= now /\ arb.lastCool <= now
    BY DEF AloneInv, AloneTypes, Stamped, Arbiter
  <2>1. ASSUME NEW req \in (SUBSET Channels) \cup {Invalid}, NEW d \in {0, 1},
               Sets(req, d)
        PROVE  HeatStarts /\ CoolStarts
    <3>1. /\ Heats(arb'.out) => now - arb.lastCool >= CoolToHeatDwellS
          /\ "cool" \in arb'.out => now - arb.lastHeat >= HeatToCoolDwellS
      BY <2>0, <2>1, SetRests DEF Sets
    <3>2. HeatStarts
      <4>1. /\ "cool" \in arb.out => now <= arb.lastCool + 1
            /\ offAt["cool"] <= arb.lastCool + 1
            /\ offAt["cool"] \in Nat
        BY DEF AloneInv, Stamped, AloneTypes, Sources
      <4>. QED BY <2>0, <3>1, <4>1, DwellsNat, DwellConfig
    <3>3. CoolStarts
      <4>1. ASSUME NEW c \in HeatFamily
            PROVE  /\ c \in arb.out => now <= arb.lastHeat + 1
                   /\ offAt[c] <= arb.lastHeat + 1
                   /\ offAt[c] \in Nat
        BY DEF AloneInv, Stamped, AloneTypes, Sources
      <4>2. ASSUME "cool" \in arb'.out, NEW c \in HeatFamily
            PROVE  c \notin arb.out /\ now - offAt[c] >= HeatToCoolDwellS - 1
        BY <2>0, <3>1, <4>1, <4>2, DwellsNat, DwellConfig
      <4>. QED BY <4>2 DEF Heats
    <3>. QED BY <3>2, <3>3
  <2>2. CASE Clears \/ UNCHANGED <<now, arb, offAt>>
    <3>1. arb'.out = arb.out
      BY <2>0, <2>2 DEF Clears, clearInvariantAlarm, Arbiter
    <3>. QED BY <3>1 DEF Heats
  <2>. QED BY <2>1, <2>2, AloneNext
<1>2. [HeatStarts /\ CoolStarts]_(Alone!vars) =>
        [/\ Alone!Heats(arb'.out) /\ ~Alone!Heats(arb.out) =>
              "cool" \notin arb.out /\ now - offAt["cool"] >= CoolToHeatDwellS - 1
         /\ "cool" \in arb'.out /\ "cool" \notin arb.out =>
              /\ ~Alone!Heats(arb.out)
              /\ \A c \in Alone!HeatFamily :
                   now - offAt[c] >= HeatToCoolDwellS - 1]_(Alone!vars)
  BY SameSet
<1>. QED BY <1>1, <1>2, AloneInvariance, PTL DEF Alone!Spec, Alone!ChangeoverRest


-----------------------------------------------------------------------------
(* A cycle of the loop is a set() of the arbiter, an ack is its clear, and   *)
(* everything else leaves the arbiter alone.                                 *)
LEMMA CallsArbiter == Spec => Alone!Spec
<1>1. Init => Alone!Init
  BY DEF Init, Alone!Init, Sources, Alone!Sources, HeatFamily, Alone!HeatFamily,
         NewArbiter, Alone!NewArbiter
<1>2. [Next]_vars => [Alone!Next]_(Alone!vars)
  <2>. SUFFICES ASSUME [Next]_vars PROVE Alone!Next \/ UNCHANGED Alone!vars
    OBVIOUS
  <2>1. ASSUME NEW ok \in BOOLEAN, NEW fan \in Fans, NEW call \in Calls,
               NEW d \in Steps, NEW blower \in BOOLEAN, NEW tooSoon \in BOOLEAN,
               Cycle(ok, call, fan, blower, tooSoon, d)
        PROVE  Alone!Next
    <3>1. /\ Request(fan) \in SUBSET Alone!Channels /\ d \in {0, 1}
      BY Constants, RequestType DEF Channels, Alone!Channels
    <3>2. Alone!Emit(Request(fan), d)
      <4>1. /\ now + d <= MaxNow /\ now' = now + d
            /\ arb' = set(arb, Request(fan), now)
            /\ offAt' = [c \in Sources |->
                           IF c \in arb.out \ arb'.out THEN now ELSE offAt[c]]
        BY <2>1 DEF Cycle
      <4>2. Sources = Alone!Sources
        BY DEF Sources, Alone!Sources, HeatFamily, Alone!HeatFamily
      <4>3. set(arb, Request(fan), now) = Alone!set(arb, Request(fan), now)
        BY SameSet
      <4>. QED BY <4>1, <4>2, <4>3 DEF Alone!Emit
    <3>. QED BY <3>1, <3>2 DEF Alone!Next
  <2>2. CASE UserAction
    BY <2>2 DEF UserAction, Alone!vars
  <2>3. CASE AckAlarms
    BY <2>3 DEF AckAlarms, history, Alone!Next, Alone!Clear,
                clearInvariantAlarm, Alone!clearInvariantAlarm
  <2>4. CASE UNCHANGED vars
    BY <2>4 DEF vars, core, history, Alone!vars
  <2>. QED BY <2>1, <2>2, <2>3, <2>4 DEF Next
<1>. QED BY <1>1, <1>2, PTL DEF Spec, Alone!Spec

(* Every changeover the loop makes rests, whatever calls, drops, trips and    *)
(* acks lie between.                                                          *)
THEOREM ChangeoverRestsHolds == Spec => ChangeoverRests
BY CallsArbiter, ChangeoverNeedsRest DEF ChangeoverRests

-----------------------------------------------------------------------------
(* Y and the blower.  The valve never leaves its cooling position: only an    *)
(* idle compressor lets it move, and what would ask it to has the guard      *)
(* running.                                                                   *)
ValveStays == coil.ob = FALSE

(* What a cycle does to the contacts. *)
LEMMA CycleContacts ==
  ASSUME TypeOK, OneCompressor', ValveStays,
         NEW ok \in BOOLEAN, NEW fan \in Fans, NEW call \in Calls,
         NEW d \in Steps, NEW blower \in BOOLEAN, NEW tooSoon \in BOOLEAN,
         Cycle(ok, call, fan, blower, tooSoon, d)
  PROVE  /\ ValveStays'
         /\ coil'.y1 /\ ~coil.y1 => coil.g /\ comp'.guard.running
<1>1. CASE ~HpMapped
  BY <1>1 DEF Cycle, apply, ValveStays
<1>2. CASE HpMapped
  <2> DEFINE was == IF permitted' THEN coil ELSE AllOff
             idle == provenIdle(comp', now, bootHoldEnd)
             demand == proven(blower, arb'.out)
  <2>1. /\ blower => coil.g
        /\ coil' = update(was, demand, idle, tooSoon)
    BY <1>2 DEF Cycle, apply, was, idle, demand
  <2>2. /\ was.ob = FALSE
        /\ was.y1 => coil.y1
    BY DEF was, TypeOK, Contacts, AllOff, ValveStays
  <2>3. "hp" \in demand \/ "cool" \in demand =>
          blower /\ comp'.guard.running /\ ~idle
    <3>1. "hp" \in demand \/ "cool" \in demand =>
            blower /\ {"hp", "cool"} \cap arb'.out # {}
      BY DEF demand, proven
    <3>2. QED BY <3>1 DEF idle, OneCompressor, provenIdle
  <2>4. idle \in BOOLEAN BY DEF idle, provenIdle
  <2>5. /\ coil'.ob = FALSE
        /\ coil'.y1 => was.y1 \/ "hp" \in demand \/ "cool" \in demand
    <3>1. CASE tooSoon
      <4>1. coil' = was BY <2>1, <3>1 DEF update
      <4>2. QED BY <2>2, <4>1
    <3>2. CASE ~tooSoon
      <4>1. coil' = Desired(was, demand, idle) BY <2>1, <3>2 DEF update
      <4>2. coil'.ob = IF ~was.y1 /\ idle
                       THEN IF ("hp" \in demand) # ("cool" \in demand)
                            THEN "hp" \in demand ELSE was.ob
                       ELSE was.ob
        BY <4>1 DEF Desired, ValveAsked
      <4>3. coil'.y1 => ("hp" \in demand) # ("cool" \in demand)
        BY <4>1 DEF Desired
      <4>4. QED BY <2>2, <2>3, <4>2, <4>3
    <3>3. QED BY <3>1, <3>2
  <2>6. QED BY <2>1, <2>2, <2>3, <2>5 DEF ValveStays
<1>3. QED BY <1>1, <1>2

LEMMA ValveStep ==
  TypeOK /\ OneCompressor' /\ ValveStays /\ [Next]_vars =>
    /\ ValveStays'
    /\ [coil'.y1 /\ ~coil.y1 => coil.g /\ comp'.guard.running /\ ~coil.ob]_vars
<1>. SUFFICES ASSUME TypeOK, OneCompressor', ValveStays, [Next]_vars
              PROVE  /\ ValveStays'
                     /\ coil'.y1 /\ ~coil.y1 =>
                          coil.g /\ comp'.guard.running /\ ~coil.ob
  OBVIOUS
<1>1. ASSUME NEW ok \in BOOLEAN, NEW fan \in Fans, NEW call \in Calls, NEW d \in Steps,
             NEW blower \in IF HpMapped THEN BOOLEAN ELSE {FALSE},
             NEW tooSoon \in IF HpMapped THEN BOOLEAN ELSE {FALSE},
             Cycle(ok, call, fan, blower, tooSoon, d)
      PROVE  /\ ValveStays'
             /\ coil'.y1 /\ ~coil.y1 => coil.g /\ comp'.guard.running
  <2>1. blower \in BOOLEAN /\ tooSoon \in BOOLEAN
    OBVIOUS
  <2>. QED BY <1>1, <2>1, CycleContacts
<1>2. CASE UserAction \/ AckAlarms \/ UNCHANGED vars
  <2>1. coil' = coil
    BY <1>2 DEF UserAction, AckAlarms, vars, core
  <2>. QED BY <2>1 DEF ValveStays
<1>3. CASE \E ok \in BOOLEAN, fan \in Fans, call \in Calls, d \in Steps,
              blower, tooSoon \in IF HpMapped THEN BOOLEAN ELSE {FALSE} :
             Cycle(ok, call, fan, blower, tooSoon, d)
  <2>1. /\ ValveStays'
        /\ coil'.y1 /\ ~coil.y1 => coil.g /\ comp'.guard.running
    BY <1>1, <1>3, ZenonT(40)
  <2>. QED BY <2>1 DEF ValveStays
<1>. QED BY <1>2, <1>3 DEF Next

-----------------------------------------------------------------------------
(* A cool demand and Y.  The chatter guard spaces two changes of the contacts, *)
(* so it costs a demand, or its end, at most the first cycle: one that left Y  *)
(* where it was cannot have changed a contact.                                 *)
ReachInv ==
  /\ provenFor > 0 => coil.y1 \/ ~justChanged
  /\ provenFor = 2 => coil.y1
  /\ provenFor < 0 => ~coil.y1 \/ ~justChanged
  /\ provenFor = -2 => ~coil.y1

LEMMA ReachStep ==
  TypeOK /\ OneCompressor' /\ ValveStays /\ Alone!NeverConflicting' /\ ReachInv
    /\ [Next]_vars => ReachInv'
<1>. SUFFICES ASSUME TypeOK, OneCompressor', ValveStays, Alone!NeverConflicting',
                     ReachInv, [Next]_vars
              PROVE  ReachInv'
  OBVIOUS
<1>1. ASSUME NEW ok \in BOOLEAN, NEW fan \in Fans, NEW call \in Calls,
             NEW d \in Steps, NEW blower \in BOOLEAN, NEW tooSoon \in BOOLEAN,
             Cycle(ok, call, fan, blower, tooSoon, d)
      PROVE  ReachInv'
  <2>. DEFINE demand == proven(blower, arb'.out)
              idle == provenIdle(comp', now, bootHoldEnd)
  <2>1. provenFor' = IF ~HpMapped THEN 0
                     ELSE IF "cool" \in demand
                       THEN IF provenFor > 0 THEN 2 ELSE 1
                       ELSE IF provenFor < 0 THEN -2 ELSE -1
    BY <1>1 DEF Cycle
  <2>2. CASE ~HpMapped
    BY <2>1, <2>2 DEF ReachInv
  <2>3. ASSUME HpMapped
        PROVE  LET was == IF permitted' THEN coil ELSE AllOff
               IN /\ tooSoon => justChanged
                  /\ coil' = update(was, demand, idle, tooSoon)
                  /\ justChanged' = (coil' # was)
    BY <1>1, <2>3 DEF Cycle, apply
  <2>4. arb'.out \subseteq Request(fan)
    <3>1. arb \in Arbiter /\ now \in Nat
      BY DEF TypeOK
    <3>. QED BY <1>1, <3>1, Constants, RequestType, EmitsOnlyAsked DEF Cycle
  <2>5. CASE HpMapped /\ "cool" \in demand
    <3>1. "cool" \in arb'.out /\ "hp" \notin demand
      BY <2>5 DEF proven, Alone!NeverConflicting
    <3>2. permitted'
      BY <2>4, <3>1 DEF Request
    <3>3. /\ tooSoon => justChanged
          /\ coil' = update(coil, demand, idle, tooSoon)
          /\ justChanged' = (coil' # coil)
      BY <2>3, <2>5, <3>2
    <3>4. CASE ~tooSoon
      <4>1. coil' = Desired(coil, demand, idle)
        BY <3>3, <3>4 DEF update
      <4>2. ("hp" \in demand) = FALSE /\ ("cool" \in demand) = TRUE
        BY <2>5, <3>1
      <4>3. provenFor' > 0
        BY <2>1, <2>5
      <4>. HIDE DEF demand, idle
      <4>4. coil'.y1
        BY <4>1, <4>2 DEF Desired, ValveAsked, ValveStays
      <4>. QED BY <4>3, <4>4, <2>1, <2>5 DEF ReachInv
    <3>5. CASE tooSoon
      <4>1. coil' = coil /\ ~justChanged' /\ justChanged
        BY <3>3, <3>5 DEF update
      <4>2. provenFor \in -2..2 /\ (provenFor > 0 => coil.y1)
        BY <4>1 DEF TypeOK, ReachInv
      <4>. QED BY <2>1, <2>5, <4>1, <4>2 DEF ReachInv
    <3>. QED BY <3>4, <3>5
  <2>6. CASE HpMapped /\ "cool" \notin demand
    <3>1. provenFor' = IF provenFor < 0 THEN -2 ELSE -1
      BY <2>1, <2>6
    <3>2. provenFor \in -2..2
      BY DEF TypeOK
    <3>3. CASE ~permitted'
      <4>1. demand = {}
        BY <2>4, <3>3 DEF Request, proven
      <4>2. coil' = update(AllOff, demand, idle, tooSoon)
        BY <2>3, <2>6, <3>3
      <4>. HIDE DEF demand, idle
      <4>3. ~coil'.y1
        BY <4>1, <4>2 DEF update, Desired, AllOff
      <4>. QED BY <3>1, <3>2, <4>3 DEF ReachInv
    <3>4. CASE permitted' /\ ~tooSoon
      <4>1. coil' = Desired(coil, demand, idle)
        BY <2>3, <2>6, <3>4 DEF update
      <4>2. "cool" \notin demand
        BY <2>6
      <4>. HIDE DEF demand, idle
      <4>3. CASE "hp" \in demand
        <5>1. ValveAsked(demand) = TRUE /\ (("hp" \in demand) # ("cool" \in demand))
          BY <4>2, <4>3 DEF ValveAsked
        <5>2. coil'.y1 = FALSE
          BY <4>1, <5>1, Zenon DEF Desired, ValveStays
        <5>. QED BY <3>1, <3>2, <5>2 DEF ReachInv
      <4>4. CASE "hp" \notin demand
        <5>1. ~(("hp" \in demand) # ("cool" \in demand))
          BY <4>2, <4>4
        <5>2. coil'.y1 = FALSE
          BY <4>1, <5>1, Zenon DEF Desired
        <5>. QED BY <3>1, <3>2, <5>2 DEF ReachInv
      <4>. QED BY <4>3, <4>4
    <3>5. CASE permitted' /\ tooSoon
      <4>1. coil' = coil /\ ~justChanged' /\ justChanged
        BY <2>3, <2>6, <3>5 DEF update
      <4>2. provenFor < 0 => ~coil.y1
        BY <4>1 DEF ReachInv
      <4>. QED BY <3>1, <3>2, <4>1, <4>2 DEF ReachInv
    <3>. QED BY <3>3, <3>4, <3>5
  <2>. QED BY <2>2, <2>5, <2>6
<1>2. CASE UserAction \/ AckAlarms \/ UNCHANGED vars
  <2>1. UNCHANGED <<coil, justChanged, provenFor>>
    BY <1>2 DEF UserAction, AckAlarms, vars, core, history
  <2>. QED BY <2>1 DEF ReachInv
<1>3. CASE \E ok \in BOOLEAN, fan \in Fans, call \in Calls, d \in Steps,
              blower, tooSoon \in IF HpMapped THEN BOOLEAN ELSE {FALSE} :
             Cycle(ok, call, fan, blower, tooSoon, d)
  BY <1>1, <1>3
<1>. QED BY <1>2, <1>3 DEF Next

LEMMA Reaches == Spec => [](ReachInv /\ ValveStays)
<1>1. Init => ReachInv /\ ValveStays
  BY DEF Init, ReachInv, ValveStays, AllOff
<1>2. TypeOK /\ OneCompressor' /\ ValveStays /\ [Next]_vars => ValveStays'
  BY ValveStep
<1>3. Spec => [](Alone!NeverConflicting)
  BY CallsArbiter, NoConflictEmitted
<1>. QED BY <1>1, <1>2, <1>3, ReachStep, TypeCorrect, OneCompressorHolds, PTL DEF Spec

(* In the relay build a cool demand closes Y once the blower has been proven  *)
(* for two cycles, whatever the contacts did before.                          *)
THEOREM CoolReachesYHolds == Spec => []CoolReachesY
<1>1. ReachInv => CoolReachesY
  BY DEF ReachInv, CoolReachesY
<1>. QED BY <1>1, Reaches, PTL

(* In the relay build Y closes only on a blower that G had started, with the  *)
(* guard's knowledge, and never against the valve; and it opens within two     *)
(* cycles of losing its blower or its demand.                                  *)
THEOREM YNeedsBlowerHolds == Spec => YNeedsBlower
<1>1. TypeOK /\ OneCompressor' /\ ValveStays /\ ReachInv' /\ [Next]_vars =>
        [/\ coil'.y1 /\ ~coil.y1 => coil.g /\ comp'.guard.running /\ ~coil.ob
         /\ provenFor' = -2 => ~coil'.y1]_vars
  BY ValveStep DEF ReachInv
<1>. QED BY <1>1, Reaches, TypeCorrect, OneCompressorHolds, PTL DEF Spec, YNeedsBlower

-----------------------------------------------------------------------------
(* The CT-485 build: HP calls are served with gas, so gas and cool are the     *)
(* two families.  What one cycle does to each, to the wire and to history.     *)
GasTurn ==
  \/ /\ gas'.lit = gas.lit /\ gas'.runStart = gas.runStart
     /\ gas'.offSince = gas.offSince
  \/ /\ ~gas.lit /\ gas'.lit /\ ~cool.on /\ ~cool'.on
     /\ gas'.runStart = now /\ gas'.offSince = gas.offSince /\ GasRested(gas, now)
  \/ /\ gas.lit /\ ~gas'.lit
     /\ gas'.runStart = gas.runStart /\ gas'.offSince = now

CoolTurn ==
  \/ /\ cool'.on = cool.on /\ cool'.starts = cool.starts
     /\ cool.on => permitted' /\ cool'.phaseStart = cool.phaseStart
     /\ comp'.guard = comp.guard /\ comp'.armedAt = comp.armedAt
  \/ /\ permitted' /\ ~cool.on /\ cool'.on /\ ~gas.lit /\ ~gas'.lit
     /\ cool'.phaseStart = now
     /\ cool'.starts = Push(cool.starts, now, MaxStartHistory)
     /\ Recent(cool.starts, now, HourS) < CoolMaxStartsPerH
     /\ MinOffServed(comp.guard, now) \/ Armed(comp.armedAt, now)
     /\ comp'.guard.lastStop = comp.guard.lastStop
     /\ comp'.armedAt \in {comp.armedAt, NoTime}
  \/ /\ cool.on /\ ~cool'.on /\ cool'.starts = cool.starts
     /\ permitted' => elapsedS(now, cool.phaseStart) >= CoolMinOnS
     /\ comp'.guard.lastStop = now /\ comp'.armedAt = comp.armedAt

Emission ==
  /\ ~arb'.latched /\ arb'.out \subseteq {"gas", "cool", "fan"}
  /\ "gas" \in arb'.out <=>
       gas'.lit /\ elapsedS(now, arb.lastCool) >= CoolToHeatDwellS
  /\ "cool" \in arb'.out <=>
       cool'.on /\ elapsedS(now, arb.lastHeat) >= HeatToCoolDwellS
  /\ arb'.lastHeat = IF "gas" \in arb'.out THEN now ELSE arb.lastHeat
  /\ arb'.lastCool = IF "cool" \in arb'.out THEN now ELSE arb.lastCool

Recorded ==
  /\ onAt' = [c \in Sources |-> IF c \in arb'.out \ arb.out THEN now ELSE onAt[c]]
  /\ offAt' = [c \in Sources |-> IF c \in arb.out \ arb'.out THEN now ELSE offAt[c]]
  /\ coolStarts' = IF "cool" \in arb'.out \ arb.out
                   THEN Push(coolStarts, now, CoolMaxStartsPerH + 1) ELSE coolStarts
  /\ askedAt' = askedAt

OneCycle ==
  /\ GasTurn /\ CoolTurn /\ Emission /\ Recorded
  /\ ~hp'.on /\ cool'.phaseStart \in {cool.phaseStart, now, 0}
  /\ now' \in {now, now + 1}

(* Between cycles only the arms and the latch change. *)
Between ==
  /\ UNCHANGED <<now, gas, hp, onAt, offAt, coolStarts>>
  /\ cool'.on = cool.on /\ cool'.starts = cool.starts
  /\ cool'.phaseStart = cool.phaseStart
  /\ comp'.guard = comp.guard
  /\ arb'.out = arb.out /\ (arb'.latched => arb.latched)
  /\ arb'.lastHeat = arb.lastHeat /\ arb'.lastCool = arb.lastCool
  /\ \/ comp'.armedAt = now /\ askedAt' = now
     \/ comp'.armedAt = comp.armedAt /\ askedAt' = askedAt

(* "A min-on-held output can never coincide with the opposite family": gas     *)
(* and cool are never both held on, so no request trips the arbiter.           *)
OneFamily ==
  /\ ~hp.on /\ ~(gas.lit /\ cool.on) /\ ~arb.latched
  /\ arb.out \subseteq {"gas", "cool", "fan"}
  /\ "gas" \in arb.out => gas.lit
  /\ "cool" \in arb.out => cool.on

LEMMA GasTurns ==
  ASSUME NEW g \in Gas, NEW t \in Nat, NEW req
  PROVE  LET n == shapeGas(g, req, t)
         IN \/ n.lit = g.lit /\ n.runStart = g.runStart /\ n.offSince = g.offSince
            \/ /\ ~g.lit /\ n.lit /\ req = "fire" /\ n.runStart = t
               /\ n.offSince = g.offSince /\ GasRested(g, t)
            \/ /\ g.lit /\ ~n.lit /\ n.offSince = t /\ n.runStart = g.runStart
<1>1. CASE g.lit
  BY <1>1 DEF shapeGas, Lit, Extinguished, Gas
<1>2. CASE ~g.lit
  BY <1>2 DEF shapeGas, Dark, Gas
<1>. QED BY <1>1, <1>2

LEMMA HpStays ==
  ASSUME NEW s \in Duty, ~s.on, NEW c, NEW t
  PROVE  shapeHp(s, c, "none", t) = Stay(s, c)
BY DEF shapeHp

(* The cool shaper's turn, for a guard that runs exactly while it is on. *)
LEMMA CoolTurns ==
  ASSUME NEW s \in Duty, NEW c \in Compressor, NEW t \in Nat, NEW duty,
         c.guard.running = s.on
  PROVE  LET n == shapeCool(s, c, duty, t).shaper
             k == shapeCool(s, c, duty, t).gate
         IN \/ n = s /\ k = c
            \/ /\ ~s.on /\ n.on /\ duty # "none" /\ n.phaseStart = t
               /\ n.starts = Push(s.starts, t, MaxStartHistory)
               /\ Recent(s.starts, t, HourS) < CoolMaxStartsPerH
               /\ MinOffServed(c.guard, t) \/ Armed(c.armedAt, t)
               /\ k.guard.lastStop = c.guard.lastStop
               /\ k.armedAt \in {c.armedAt, NoTime}
            \/ /\ s.on /\ ~n.on /\ n.starts = s.starts /\ n.phaseStart = t
               /\ elapsedS(t, s.phaseStart) >= CoolMinOnS
               /\ k.guard.lastStop = t /\ k.armedAt = c.armedAt
<1>. DEFINE manual == Armed(s.armedAt, t)
            r == shapeCool(s, c, duty, t)
<1>0. c.guard \in Guard /\ manual \in BOOLEAN
  BY DEF Compressor, Armed
<1>1. \/ r = Stay(s, c)
      \/ s.on /\ CoolWantsOff(s, duty, t) /\ r = TurnOff(s, c, t)
      \/ /\ ~s.on /\ duty # "none" /\ Recent(s.starts, t, HourS) < CoolMaxStartsPerH
         /\ canStart(c, t) /\ r = TurnOn(s, c, t, manual)
  BY DEF shapeCool
<1>. HIDE DEF r, manual
<1>2. CASE r = Stay(s, c)
  BY <1>2 DEF Stay, r
<1>3. CASE s.on /\ CoolWantsOff(s, duty, t) /\ r = TurnOff(s, c, t)
  <2>1. /\ r.shaper = [s EXCEPT !.on = FALSE, !.phaseStart = t]
        /\ r.gate = [c EXCEPT !.guard = Stopped(c.guard, t), !.anchor = t]
    BY <1>3 DEF TurnOff, gateStop
  <2>2. elapsedS(t, s.phaseStart) >= CoolMinOnS
    <3>1. elapsedS(t, s.phaseStart) \in Nat
      BY DEF elapsedS, Duty
    <3>. QED BY <1>3, <3>1, ShaperConfig DEF CoolWantsOff, InPhase
  <2>3. /\ ~r.shaper.on /\ r.shaper.starts = s.starts /\ r.shaper.phaseStart = t
    BY <2>1 DEF Duty
  <2>4. Stopped(c.guard, t).lastStop = t
    BY <1>0, <1>3 DEF Stopped, Guard
  <2>5. r.gate.guard = Stopped(c.guard, t) /\ r.gate.armedAt = c.armedAt
    BY <2>1 DEF Compressor
  <2>. QED BY <1>3, <2>2, <2>3, <2>4, <2>5 DEF r
<1>4. CASE /\ ~s.on /\ duty # "none" /\ Recent(s.starts, t, HourS) < CoolMaxStartsPerH
           /\ canStart(c, t) /\ r = TurnOn(s, c, t, manual)
  <2>1. MinOffServed(c.guard, t) \/ Armed(c.armedAt, t)
    BY <1>4 DEF canStart, StartAllowed
  <2>2. /\ r.shaper.on /\ r.shaper.phaseStart = t
        /\ r.shaper.starts = Push(s.starts, t, MaxStartHistory)
    BY <1>4 DEF TurnOn, Duty
  <2>3. r.gate = gateStart(c, t)
    BY <1>4 DEF TurnOn
  <2>4. /\ r.gate.guard = Started(c.guard, t)
        /\ r.gate.armedAt \in {c.armedAt, NoTime}
    BY <2>3 DEF gateStart, Compressor
  <2>5. Started(c.guard, t).lastStop = c.guard.lastStop
    BY <1>0 DEF Started, Guard
  <2>. QED BY <1>4, <2>1, <2>2, <2>4, <2>5 DEF r
<1>. QED BY <1>1, <1>2, <1>3, <1>4

(* What the wire carries of a request of one family. *)
LEMMA Emits ==
  ASSUME NEW a \in Arbiter, NEW t \in Nat, NEW req \in SUBSET {"gas", "cool", "fan"},
         ~a.latched, ~({"gas", "cool"} \subseteq req)
  PROVE  LET b == set(a, req, t)
         IN /\ ~b.latched /\ b.out \subseteq req
            /\ "gas" \in b.out <=>
                 "gas" \in req /\ elapsedS(t, a.lastCool) >= CoolToHeatDwellS
            /\ "cool" \in b.out <=>
                 "cool" \in req /\ elapsedS(t, a.lastHeat) >= HeatToCoolDwellS
            /\ b.lastHeat = IF "gas" \in b.out THEN t ELSE a.lastHeat
            /\ b.lastCool = IF "cool" \in b.out THEN t ELSE a.lastCool
<1>. DEFINE out == req \ Held(a, t)
<1>1. ~Conflict(req) /\ req # Invalid /\ req \in SUBSET Channels
  BY DEF Conflict, Heats, HeatFamily, Invalid, Channels
<1>2. set(a, req, t) = Emitted(a, out, t)
  BY <1>1 DEF set
<1>3. /\ elapsedS(t, a.lastCool) \in Nat /\ elapsedS(t, a.lastHeat) \in Nat
  BY DEF elapsedS, Arbiter
<1>4. /\ "gas" \in Held(a, t) <=> elapsedS(t, a.lastCool) < CoolToHeatDwellS
      /\ "cool" \in Held(a, t) <=> elapsedS(t, a.lastHeat) < HeatToCoolDwellS
  BY DEF Held, HeatFamily
<1>5. Heats(out) <=> "gas" \in out
  BY DEF Heats, HeatFamily
<1>. HIDE DEF out
<1>6. /\ Emitted(a, out, t).out = out /\ Emitted(a, out, t).latched = a.latched
      /\ Emitted(a, out, t).lastHeat = IF "gas" \in out THEN t ELSE a.lastHeat
      /\ Emitted(a, out, t).lastCool = IF "cool" \in out THEN t ELSE a.lastCool
  BY <1>5 DEF Emitted, Arbiter
<1>7. /\ "gas" \in out <=> "gas" \in req /\ elapsedS(t, a.lastCool) >= CoolToHeatDwellS
      /\ "cool" \in out <=> "cool" \in req /\ elapsedS(t, a.lastHeat) >= HeatToCoolDwellS
      /\ out \subseteq req
  BY <1>3, <1>4, DwellsNat DEF out
<1>. QED BY <1>2, <1>6, <1>7

LEMMA CycleIsOne ==
  ASSUME ~HpMapped, TypeOK, OneCompressor, OneFamily,
         NEW ok \in BOOLEAN, NEW fan \in Fans, NEW call \in Calls,
         NEW d \in Steps, NEW blower, NEW tooSoon,
         Cycle(ok, call, fan, blower, tooSoon, d)
  PROVE  OneCycle /\ OneFamily'
<1>0. /\ now \in Nat /\ arb \in Arbiter /\ hp \in Duty /\ cool \in Duty /\ gas \in Gas
      /\ comp \in Compressor /\ comp.guard.running = cool.on
      /\ cool.on \in BOOLEAN /\ gas.lit \in BOOLEAN /\ d \in {0, 1}
  <2>1. comp.guard.running \in BOOLEAN /\ cool.on \in BOOLEAN
    BY DEF TypeOK, Duty, Compressor, Guard
  <2>. QED BY <2>1, Constants DEF TypeOK, Gas, OneCompressor, OneFamily
<1>1. /\ call.hp = "none" /\ call.gas \in {"off", "band", "fire"}
      /\ call.gas = "off" \/ call.cool = "none"
  BY DEF Calls, NoCall
<1>2. /\ GasTurn /\ CoolTurn /\ ~hp'.on /\ cool'.phaseStart \in {cool.phaseStart, now, 0}
      /\ ~(gas'.lit /\ cool'.on)
      /\ ~permitted' => ~gas'.lit /\ ~cool'.on
  <2>1. CASE permitted'
    <3>. DEFINE ask == Excluded(call)
    <3>1. /\ gas' = shapeGas(gas, ask.gas, now)
          /\ hp' = shapeHp(hp, comp, ask.hp, now).shaper
          /\ cool' = shapeCool(cool, shapeHp(hp, comp, ask.hp, now).gate, ask.cool, now).shaper
          /\ comp' = shapeCool(cool, shapeHp(hp, comp, ask.hp, now).gate, ask.cool, now).gate
      BY <2>1 DEF Cycle, Shape
    <3>2. /\ ask.hp = "none"
          /\ ask.gas = IF cool.on THEN "off" ELSE call.gas
          /\ ask.cool = IF gas.lit \/ hp.on THEN "none" ELSE call.cool
      BY <1>1 DEF Excluded
    <3>. HIDE DEF ask
    <3>3. /\ hp' = hp
          /\ cool' = shapeCool(cool, comp, ask.cool, now).shaper
          /\ comp' = shapeCool(cool, comp, ask.cool, now).gate
      <4>1. shapeHp(hp, comp, "none", now) = Stay(hp, comp)
        BY <1>0, HpStays DEF OneFamily
      <4>. QED BY <3>1, <3>2, <4>1 DEF Stay
    <3>4. \/ gas'.lit = gas.lit /\ gas'.runStart = gas.runStart /\ gas'.offSince = gas.offSince
          \/ /\ ~gas.lit /\ gas'.lit /\ ask.gas = "fire" /\ gas'.runStart = now
             /\ gas'.offSince = gas.offSince /\ GasRested(gas, now)
          \/ /\ gas.lit /\ ~gas'.lit /\ gas'.offSince = now /\ gas'.runStart = gas.runStart
      BY <1>0, <3>1, GasTurns
    <3>5. \/ cool' = cool /\ comp' = comp
          \/ /\ ~cool.on /\ cool'.on /\ ask.cool # "none" /\ cool'.phaseStart = now
             /\ cool'.starts = Push(cool.starts, now, MaxStartHistory)
             /\ Recent(cool.starts, now, HourS) < CoolMaxStartsPerH
             /\ MinOffServed(comp.guard, now) \/ Armed(comp.armedAt, now)
             /\ comp'.guard.lastStop = comp.guard.lastStop
             /\ comp'.armedAt \in {comp.armedAt, NoTime}
          \/ /\ cool.on /\ ~cool'.on /\ cool'.starts = cool.starts /\ cool'.phaseStart = now
             /\ elapsedS(now, cool.phaseStart) >= CoolMinOnS
             /\ comp'.guard.lastStop = now /\ comp'.armedAt = comp.armedAt
      BY <1>0, <3>3, CoolTurns
    <3>6. /\ ask.gas = "fire" => ~cool.on /\ ask.cool = "none"
          /\ ask.cool # "none" => ~gas.lit /\ ask.gas # "fire"
      BY <1>1, <3>2
    <3>7. gas'.lit \in BOOLEAN /\ cool'.on \in BOOLEAN
      BY <1>0, <3>4, <3>5, <3>1, <3>3, GasType, ShapeType DEF Gas, Duty
    <3>8. GasTurn
      BY <1>0, <3>4, <3>5, <3>6, <3>7 DEF GasTurn
    <3>9. CoolTurn
      BY <1>0, <2>1, <3>4, <3>5, <3>6, <3>7 DEF CoolTurn
    <3>. QED BY <1>0, <2>1, <3>3, <3>4, <3>5, <3>6, <3>7, <3>8, <3>9 DEF OneFamily
  <2>2. CASE ~permitted'
    <3>1. /\ gas' = IF gas.lit THEN forceStop(gas, now) ELSE gas
          /\ comp' = safetyStop(comp, now)
          /\ hp' = resetShaper(hp) /\ cool' = resetShaper(cool)
      BY <2>2 DEF Cycle, Drop
    <3>2. GasTurn /\ ~gas'.lit
      BY <1>0, <3>1 DEF GasTurn, forceStop, Extinguished, Gas
    <3>3. /\ ~hp'.on /\ ~cool'.on /\ cool'.starts = cool.starts /\ cool'.phaseStart = 0
      BY <1>0, <3>1 DEF resetShaper, NewDuty
    <3>4. /\ cool.on => comp'.guard.lastStop = now /\ comp'.armedAt = comp.armedAt
          /\ ~cool.on => comp' = comp
      BY <1>0, <3>1 DEF safetyStop, Stopped, Compressor, Guard
    <3>5. CoolTurn
      <4>1. CASE cool.on
        BY <2>2, <3>3, <3>4, <4>1 DEF CoolTurn
      <4>2. CASE ~cool.on
        <5>1. cool'.on = FALSE /\ cool.on = FALSE
          BY <1>0, <3>1, <4>2 DEF resetShaper, NewDuty
        <5>. QED BY <3>3, <3>4, <4>2, <5>1 DEF CoolTurn
      <4>. QED BY <4>1, <4>2
    <3>. QED BY <2>2, <3>2, <3>3, <3>5
  <2>. QED BY <2>1, <2>2
<1>3. /\ arb' = set(arb, Request(fan), now)
      /\ Request(fan) \in SUBSET {"gas", "cool", "fan"}
      /\ "gas" \in Request(fan) <=> gas'.lit
      /\ "cool" \in Request(fan) <=> cool'.on
  BY <1>2 DEF Cycle, Request
<1>4. Emission
  BY <1>0, <1>2, <1>3, Emits DEF OneFamily, Emission
<1>5. Recorded /\ now' \in {now, now + 1}
  BY <1>0 DEF Cycle, Recorded
<1>6. OneFamily'
  BY <1>2, <1>4 DEF OneFamily, Emission
<1>. QED BY <1>2, <1>4, <1>5, <1>6 DEF OneCycle

LEMMA StepIsOne ==
  ASSUME ~HpMapped, TypeOK, OneCompressor, OneFamily, [Next]_vars
  PROVE  (OneCycle \/ Between) /\ OneFamily'
<1>1. ASSUME NEW ok \in BOOLEAN, NEW fan \in Fans, NEW call \in Calls, NEW d \in Steps,
             NEW blower, NEW tooSoon, Cycle(ok, call, fan, blower, tooSoon, d)
      PROVE  OneCycle /\ OneFamily'
  BY <1>1, CycleIsOne
<1>2. CASE UserAction \/ AckAlarms \/ UNCHANGED vars
  <2>1. arb \in Arbiter /\ cool \in Duty /\ comp \in Compressor
    BY DEF TypeOK
  <2>2. Between
    <3>1. CASE UserAction
      BY <2>1, <3>1 DEF UserAction, Between, Duty, Compressor
    <3>2. CASE AckAlarms
      BY <2>1, <3>2 DEF AckAlarms, history, clearInvariantAlarm, Between, Arbiter
    <3>3. CASE UNCHANGED vars
      BY <3>3 DEF vars, core, history, Between
    <3>. QED BY <1>2, <3>1, <3>2, <3>3
  <2>. QED BY <2>2 DEF Between, OneFamily
<1>. QED BY <1>1, <1>2 DEF Next

LEMMA InitFamily == Init => OneFamily
BY DEF Init, OneFamily, NewGas, NewDuty, NewArbiter

LEMMA FamilyInvariant == ASSUME ~HpMapped PROVE Spec => []OneFamily
<1>1. TypeOK /\ OneCompressor /\ OneFamily /\ [Next]_vars => OneFamily'
  BY StepIsOne
<1>. QED BY <1>1, InitFamily, TypeCorrect, OneCompressorHolds, PTL DEF Spec

(* No sequence of calls, drops and user actions latches the arbiter of the    *)
(* CT-485 build, whatever the timers: each family waits for the other one's   *)
(* shaper to let go.                                                          *)
THEOREM NeverLatchedHolds == ASSUME ~HpMapped PROVE Spec => []NeverLatched
<1>1. OneFamily => NeverLatched
  BY DEF OneFamily, NeverLatched
<1>. QED BY <1>1, FamilyInvariant, PTL

-----------------------------------------------------------------------------
(* The CT-485 build's timers.  The shapers time what they ask for, the wire   *)
(* what it carries; the arbiter's dwell may lie between the two.              *)
WireStamped ==
  /\ gas.offSince <= now /\ gas.runStart <= now /\ cool.phaseStart <= now
  /\ arb.lastHeat <= now /\ arb.lastCool <= now /\ askedAt <= now
  /\ \A c \in {"gas", "cool"} : onAt[c] <= now /\ offAt[c] <= now
  /\ "gas" \in arb.out => now - arb.lastCool >= CoolToHeatDwellS
  /\ "cool" \in arb.out => now - arb.lastHeat >= HeatToCoolDwellS

(* A burn under way was lit after a rest, as the wire counts it.             *)
BurnRested ==
  /\ gas.lit => \/ "gas" \in arb.out \/ onAt["gas"] = NoTime
                \/ gas.runStart - offAt["gas"] >= GasMinOffS
  /\ ~gas.lit => offAt["gas"] <= gas.offSince

(* On, and held off the wire by the dwell.                                   *)
Pending == cool.on /\ "cool" \notin arb.out

CoolTimed ==
  /\ cool.on => arb.lastHeat <= cool.phaseStart
  /\ Pending => now <= cool.phaseStart + HeatToCoolDwellS
  /\ "cool" \in arb.out =>
       /\ cool.phaseStart <= onAt["cool"]
       /\ onAt["cool"] <= cool.phaseStart + HeatToCoolDwellS

(* A start that is still to reach the wire was rested or asked for.          *)
StartRested ==
  /\ comp.armedAt # NoTime => comp.armedAt <= askedAt
  /\ ~cool.on /\ onAt["cool"] # NoTime =>
       comp.guard.lastStop # NoTime /\ offAt["cool"] <= comp.guard.lastStop
  /\ comp.guard.lastStop <= now
  /\ Pending /\ onAt["cool"] # NoTime =>
       \/ cool.phaseStart - offAt["cool"] >= MinOffS
       \/ askedAt # NoTime /\ cool.phaseStart - askedAt <= ManualWindowS

LEMMA Numbers ==
  ASSUME TypeOK
  PROVE  /\ now \in Nat /\ gas.offSince \in Nat /\ gas.runStart \in Nat
         /\ gas.lit \in BOOLEAN /\ cool.on \in BOOLEAN /\ cool.phaseStart \in Nat
         /\ arb.lastHeat \in Nat /\ arb.lastCool \in Nat /\ askedAt \in Time
         /\ comp.armedAt \in Time /\ comp.guard.lastStop \in Time
         /\ \A c \in {"gas", "cool"} : onAt[c] \in Time /\ offAt[c] \in Nat
<1>1. now \in Nat /\ gas \in Gas /\ cool \in Duty /\ arb \in Arbiter
      /\ comp \in Compressor /\ askedAt \in Time
      /\ onAt \in [Sources -> Time] /\ offAt \in [Sources -> Nat]
  BY DEF TypeOK
<1>2. \A c \in {"gas", "cool"} : c \in Sources
  BY DEF Sources, HeatFamily
<1>3. \A c \in {"gas", "cool"} : onAt[c] \in Time /\ offAt[c] \in Nat
  BY <1>1, <1>2
<1>. QED BY <1>1, <1>3 DEF Gas, Duty, Arbiter, Compressor, Guard

(* What the history records of the two families.                             *)
LEMMA WireTimes ==
  ASSUME Recorded, NEW c \in {"gas", "cool"}
  PROVE  /\ onAt'[c] = IF c \in arb'.out /\ c \notin arb.out THEN now ELSE onAt[c]
         /\ offAt'[c] = IF c \in arb.out /\ c \notin arb'.out THEN now ELSE offAt[c]
<1>1. c \in Sources
  BY DEF Sources, HeatFamily
<1>. QED BY <1>1 DEF Recorded

LEMMA StampsKept ==
  ASSUME TypeOK, TypeOK', OneFamily, OneFamily', WireStamped, OneCycle \/ Between
  PROVE  WireStamped'
<1>1. CASE OneCycle
  <2>1. /\ gas'.offSince \in {gas.offSince, now} /\ gas'.runStart \in {gas.runStart, now}
        /\ cool'.phaseStart \in {cool.phaseStart, now, 0}
        /\ now' >= now /\ askedAt' = askedAt
    BY <1>1, Numbers DEF OneCycle, GasTurn, Recorded
  <2>2. ASSUME NEW c \in {"gas", "cool"}
        PROVE  onAt'[c] <= now' /\ offAt'[c] <= now'
    <3>1. onAt'[c] \in {onAt[c], now} /\ offAt'[c] \in {offAt[c], now}
      BY <1>1, WireTimes DEF OneCycle
    <3>2. onAt[c] <= now /\ offAt[c] <= now
      BY DEF WireStamped
    <3>3. onAt[c] \in Int /\ offAt[c] \in Int /\ now \in Int /\ now' \in Int
      BY Numbers, SMTT(30) DEF Time, NoTime, TypeOK
    <3>. QED BY <2>1, <3>1, <3>2, <3>3
  <2>3. arb'.lastHeat \in {arb.lastHeat, now} /\ arb'.lastCool \in {arb.lastCool, now}
    BY <1>1 DEF OneCycle, Emission
  <2>4. ASSUME "gas" \in arb'.out
        PROVE  now' - arb'.lastCool >= CoolToHeatDwellS
    <3>1. "cool" \notin arb'.out /\ arb'.lastCool = arb.lastCool
      BY <1>1, <2>4 DEF OneCycle, Emission, OneFamily
    <3>2. elapsedS(now, arb.lastCool) >= CoolToHeatDwellS
      BY <1>1, <2>4 DEF OneCycle, Emission
    <3>3. now' \in Nat
      BY DEF TypeOK
    <3>. QED BY <2>1, <3>1, <3>2, <3>3, Numbers, DwellsNat DEF elapsedS, WireStamped
  <2>5. ASSUME "cool" \in arb'.out
        PROVE  now' - arb'.lastHeat >= HeatToCoolDwellS
    <3>1. "gas" \notin arb'.out /\ arb'.lastHeat = arb.lastHeat
      BY <1>1, <2>5 DEF OneCycle, Emission, OneFamily
    <3>2. elapsedS(now, arb.lastHeat) >= HeatToCoolDwellS
      BY <1>1, <2>5 DEF OneCycle, Emission
    <3>3. now' \in Nat
      BY DEF TypeOK
    <3>. QED BY <2>1, <3>1, <3>2, <3>3, Numbers, DwellsNat DEF elapsedS, WireStamped
  <2>6. /\ gas'.offSince <= now' /\ gas'.runStart <= now' /\ cool'.phaseStart <= now'
        /\ arb'.lastHeat <= now' /\ arb'.lastCool <= now' /\ askedAt' <= now'
    BY <2>1, <2>3, Numbers, <1>1 DEF WireStamped, OneCycle, Time, NoTime
  <2>. QED BY <2>2, <2>4, <2>5, <2>6 DEF WireStamped
<1>2. CASE Between
  BY <1>2, Numbers DEF Between, WireStamped
<1>. QED BY <1>1, <1>2

LEMMA BurnKept ==
  ASSUME TypeOK, TypeOK', OneFamily, OneFamily', WireStamped, BurnRested,
         OneCycle \/ Between
  PROVE  /\ BurnRested'
         /\ "gas" \in arb'.out \ arb.out /\ onAt["gas"] # NoTime
              => now - offAt["gas"] >= GasMinOffS
<1>0. /\ now \in Nat /\ gas.offSince \in Nat /\ gas.runStart \in Nat
      /\ gas.lit \in BOOLEAN /\ gas'.lit \in BOOLEAN
      /\ onAt["gas"] \in Time /\ offAt["gas"] \in Nat
  BY Numbers DEF TypeOK, Gas
<1>1. CASE OneCycle
  <2>1. /\ onAt'["gas"] = IF "gas" \in arb'.out /\ "gas" \notin arb.out
                          THEN now ELSE onAt["gas"]
        /\ offAt'["gas"] = IF "gas" \in arb.out /\ "gas" \notin arb'.out
                           THEN now ELSE offAt["gas"]
    BY <1>1, WireTimes DEF OneCycle
  <2>2. /\ "gas" \in arb.out /\ gas'.lit => "gas" \in arb'.out
        /\ "gas" \in arb'.out => gas'.lit
    BY <1>1, Numbers DEF OneCycle, Emission, WireStamped, elapsedS
  <2>3. ~gas.lit => "gas" \notin arb.out
    BY DEF OneFamily
  <2>4. CASE /\ gas'.lit = gas.lit /\ gas'.runStart = gas.runStart
             /\ gas'.offSince = gas.offSince
    <3>1. CASE gas.lit
      <4>1. gas.lit = TRUE /\ gas'.lit = TRUE
        BY <1>0, <2>4, <3>1
      <4>2. \/ "gas" \in arb'.out
            \/ "gas" \notin arb.out /\ "gas" \notin arb'.out
        BY <2>2, <4>1
      <4>3. CASE "gas" \in arb'.out
        <5>1. BurnRested'
          BY <4>1, <4>3 DEF BurnRested
        <5>. QED BY <1>0, <3>1, <5>1, Constants DEF BurnRested, WireStamped
      <4>4. CASE "gas" \notin arb.out /\ "gas" \notin arb'.out
        BY <2>1, <2>4, <3>1, <4>1, <4>4 DEF BurnRested
      <4>. QED BY <4>2, <4>3, <4>4
    <3>2. CASE ~gas.lit
      BY <1>0, <2>1, <2>2, <2>3, <2>4, <3>2 DEF BurnRested, WireStamped
    <3>. QED BY <3>1, <3>2
  <2>5. CASE /\ ~gas.lit /\ gas'.lit /\ gas'.runStart = now /\ GasRested(gas, now)
    <3>1. now - offAt["gas"] >= GasMinOffS
      BY <1>0, <2>5, Constants DEF GasRested, elapsedS, BurnRested, WireStamped
    <3>. QED BY <1>0, <2>1, <2>2, <2>3, <2>5, <3>1 DEF BurnRested
  <2>6. CASE gas.lit /\ ~gas'.lit /\ gas'.offSince = now
    BY <1>0, <2>1, <2>2, <2>6 DEF BurnRested, WireStamped
  <2>. QED BY <1>1, <2>4, <2>5, <2>6 DEF OneCycle, GasTurn
<1>2. CASE Between
  BY <1>2 DEF Between, BurnRested
<1>. QED BY <1>1, <1>2

(* A step of the shaper, or of the arms between two cycles.                   *)
LEMMA CoolTimesKept ==
  ASSUME TypeOK, TypeOK', OneFamily, OneFamily', WireStamped, CoolTimed,
         OneCycle \/ Between
  PROVE  /\ CoolTimed'
         /\ "cool" \in arb.out \ arb'.out /\ permitted'
              => now - onAt["cool"] >= CoolMinOnS - HeatToCoolDwellS
<1>0. /\ now \in Nat /\ now' \in Nat /\ cool.phaseStart \in Nat /\ cool'.phaseStart \in Nat
      /\ cool.on \in BOOLEAN /\ cool'.on \in BOOLEAN
      /\ arb.lastHeat \in Nat /\ arb'.lastHeat \in Nat
      /\ onAt["cool"] \in Int /\ HeatToCoolDwellS \in Nat /\ CoolMinOnS \in Nat
  <2>1. CoolMinOnS \in Nat
    BY ShaperConfig
  <2>2. /\ now \in Nat /\ now' \in Nat /\ cool \in Duty /\ cool' \in Duty
        /\ arb \in Arbiter /\ arb' \in Arbiter
    BY DEF TypeOK
  <2>3. onAt["cool"] \in Int
    BY Numbers DEF Time, NoTime
  <2>. QED BY <2>1, <2>2, <2>3, DwellsNat DEF Duty, Arbiter
<1>1. CASE OneCycle
  <2>1. onAt'["cool"] = IF "cool" \in arb'.out /\ "cool" \notin arb.out
                        THEN now ELSE onAt["cool"]
    BY <1>1, WireTimes DEF OneCycle
  <2>2. cool'.on => arb'.lastHeat = arb.lastHeat
    BY <1>1 DEF OneCycle, Emission, OneFamily
  <2>3. /\ "cool" \in arb.out => cool.on
        /\ "cool" \in arb'.out => cool'.on
    BY DEF OneFamily
  <2>4. "cool" \in arb.out /\ cool'.on => "cool" \in arb'.out
    BY <1>0, <1>1 DEF OneCycle, Emission, WireStamped, elapsedS
  <2>5. now' >= now /\ now' <= now + 1
    BY <1>0, <1>1 DEF OneCycle
  <2>6. Pending' => arb.lastHeat + HeatToCoolDwellS > now
    BY <1>0, <1>1 DEF OneCycle, Emission, Pending, elapsedS
  <2>7. CASE /\ cool'.on = cool.on
             /\ cool.on => permitted' /\ cool'.phaseStart = cool.phaseStart
    <3>1. CASE cool.on
      <4>1. /\ cool.on = TRUE /\ cool'.on = TRUE
            /\ cool'.phaseStart = cool.phaseStart /\ arb'.lastHeat = arb.lastHeat
        BY <1>0, <2>2, <2>7, <3>1
      <4>2. arb.lastHeat <= cool.phaseStart
        BY <3>1 DEF CoolTimed
      <4>3. Pending' => now' <= cool'.phaseStart + HeatToCoolDwellS
        BY <1>0, <2>5, <2>6, <4>1, <4>2
      <4>4. ASSUME "cool" \in arb'.out
            PROVE  /\ cool'.phaseStart <= onAt'["cool"]
                   /\ onAt'["cool"] <= cool'.phaseStart + HeatToCoolDwellS
        <5>1. CASE "cool" \in arb.out
          BY <2>1, <4>1, <5>1 DEF CoolTimed
        <5>2. CASE "cool" \notin arb.out
          <6>1. now <= cool.phaseStart + HeatToCoolDwellS /\ cool.phaseStart <= now
            BY <4>1, <5>2 DEF CoolTimed, Pending, WireStamped
          <6>. QED BY <2>1, <4>1, <4>4, <5>2, <6>1
        <5>. QED BY <5>1, <5>2
      <4>5. CoolTimed'
        BY <4>1, <4>2, <4>3, <4>4 DEF CoolTimed
      <4>. QED BY <2>4, <4>1, <4>5
    <3>2. CASE ~cool.on
      <4>1. cool'.on = FALSE /\ cool.on = FALSE
        BY <1>0, <2>7, <3>2
      <4>. QED BY <2>3, <4>1 DEF CoolTimed, Pending
    <3>. QED BY <3>1, <3>2
  <2>8. CASE ~cool.on /\ cool'.on /\ cool'.phaseStart = now
    <3>1. arb'.lastHeat <= cool'.phaseStart
      BY <2>2, <2>8 DEF WireStamped
    <3>2. Pending' => now' <= cool'.phaseStart + HeatToCoolDwellS
      BY <1>0, <2>5, <2>6, <2>8 DEF WireStamped
    <3>3. "cool" \in arb'.out => onAt'["cool"] = now
      BY <2>1, <2>3, <2>8
    <3>4. CoolTimed'
      BY <1>0, <2>8, <3>1, <3>2, <3>3 DEF CoolTimed
    <3>. QED BY <2>3, <2>8, <3>4
  <2>9. CASE /\ cool.on /\ ~cool'.on
             /\ permitted' => elapsedS(now, cool.phaseStart) >= CoolMinOnS
    <3>1. CoolTimed'
      BY <2>3, <2>9 DEF CoolTimed, Pending
    <3>2. ASSUME "cool" \in arb.out, permitted'
          PROVE  now - onAt["cool"] >= CoolMinOnS - HeatToCoolDwellS
      <4>1. onAt["cool"] <= cool.phaseStart + HeatToCoolDwellS
        BY <3>2 DEF CoolTimed
      <4>2. now - cool.phaseStart >= CoolMinOnS
        BY <1>0, <2>9, <3>2 DEF elapsedS, WireStamped
      <4>. QED BY <1>0, <4>1, <4>2
    <3>. QED BY <3>1, <3>2
  <2>. QED BY <1>1, <2>7, <2>8, <2>9 DEF OneCycle, CoolTurn
<1>2. CASE Between
  BY <1>2 DEF Between, CoolTimed, Pending
<1>. QED BY <1>1, <1>2

LEMMA StartsKept ==
  ASSUME TypeOK, TypeOK', OneFamily, OneFamily', WireStamped, CoolTimed, StartRested,
         OneCycle \/ Between
  PROVE  /\ StartRested'
         /\ "cool" \in arb'.out \ arb.out /\ onAt["cool"] # NoTime =>
              \/ now - offAt["cool"] >= MinOffS
              \/ askedAt # NoTime /\ now - askedAt <= ManualWindowS + HeatToCoolDwellS
<1>. DEFINE Rested == \/ cool.phaseStart - offAt["cool"] >= MinOffS
                      \/ askedAt # NoTime /\ cool.phaseStart - askedAt <= ManualWindowS
<1>0. /\ now \in Nat /\ now' \in Nat /\ cool.phaseStart \in Nat /\ cool'.phaseStart \in Nat
      /\ cool.on \in BOOLEAN /\ cool'.on \in BOOLEAN
      /\ onAt["cool"] \in Int /\ offAt["cool"] \in Nat /\ askedAt \in Int
      /\ comp.armedAt \in Int /\ comp.guard.lastStop \in Int
      /\ HeatToCoolDwellS \in Nat /\ MinOffS \in Nat /\ ManualWindowS \in Nat
  <2>1. ManualWindowS \in Nat
    BY ShaperConfig
  <2>2. now \in Nat /\ now' \in Nat /\ cool \in Duty /\ cool' \in Duty
    BY DEF TypeOK
  <2>3. /\ onAt["cool"] \in Int /\ offAt["cool"] \in Nat /\ askedAt \in Int
        /\ comp.armedAt \in Int /\ comp.guard.lastStop \in Int
    BY Numbers DEF Time, NoTime
  <2>. QED BY <2>1, <2>2, <2>3, DwellsNat, Constants DEF Duty
<1>1. CASE OneCycle
  <2>1. /\ onAt'["cool"] = IF "cool" \in arb'.out /\ "cool" \notin arb.out
                           THEN now ELSE onAt["cool"]
        /\ offAt'["cool"] = IF "cool" \in arb.out /\ "cool" \notin arb'.out
                            THEN now ELSE offAt["cool"]
        /\ askedAt' = askedAt
    BY <1>1, WireTimes DEF OneCycle, Recorded
  <2>2. /\ "cool" \in arb.out => cool.on
        /\ "cool" \in arb'.out => cool'.on
    BY DEF OneFamily
  <2>3. "cool" \in arb.out /\ cool'.on => "cool" \in arb'.out
    BY <1>0, <1>1, DwellsNat, Numbers DEF OneCycle, Emission, WireStamped, elapsedS
  <2>4. now' >= now
    BY <1>0, <1>1 DEF OneCycle
  <2>5. CASE /\ cool'.on = cool.on
             /\ cool.on => permitted' /\ cool'.phaseStart = cool.phaseStart
             /\ comp'.guard = comp.guard /\ comp'.armedAt = comp.armedAt
    <3>1. CASE cool.on
      <4>1. cool.on = TRUE /\ cool'.on = TRUE /\ cool'.phaseStart = cool.phaseStart
        BY <1>0, <2>5, <3>1
      <4>2. Pending /\ onAt["cool"] # NoTime => Rested
        BY DEF StartRested
      <4>3. Pending' => Pending /\ onAt'["cool"] = onAt["cool"] /\ offAt'["cool"] = offAt["cool"]
        BY <2>1, <2>3, <4>1 DEF Pending
      <4>4. StartRested'
        BY <1>0, <2>1, <2>4, <2>5, <4>1, <4>2, <4>3 DEF StartRested
      <4>5. ASSUME "cool" \in arb'.out \ arb.out, onAt["cool"] # NoTime
            PROVE  \/ now - offAt["cool"] >= MinOffS
                   \/ askedAt # NoTime /\ now - askedAt <= ManualWindowS + HeatToCoolDwellS
        <5>1. Rested /\ now <= cool.phaseStart + HeatToCoolDwellS
          BY <4>1, <4>2, <4>5 DEF Pending, CoolTimed
        <5>2. cool.phaseStart <= now
          BY DEF WireStamped
        <5>. QED BY <1>0, <5>1, <5>2
      <4>. QED BY <4>4, <4>5
    <3>2. CASE ~cool.on
      <4>1. cool.on = FALSE /\ cool'.on = FALSE
        BY <1>0, <2>5, <3>2
      <4>2. /\ onAt'["cool"] = onAt["cool"] /\ offAt'["cool"] = offAt["cool"]
            /\ "cool" \notin arb'.out
        BY <2>1, <2>2, <4>1
      <4>. QED BY <1>0, <2>1, <2>4, <2>5, <4>1, <4>2 DEF StartRested, Pending
    <3>. QED BY <3>1, <3>2
  <2>6. CASE /\ ~cool.on /\ cool'.on /\ cool'.phaseStart = now
             /\ MinOffServed(comp.guard, now) \/ Armed(comp.armedAt, now)
             /\ comp'.guard.lastStop = comp.guard.lastStop
             /\ comp'.armedAt \in {comp.armedAt, NoTime}
    <3>1. "cool" \notin arb.out /\ offAt'["cool"] = offAt["cool"]
      BY <2>1, <2>2, <2>6
    <3>2. /\ comp.guard.lastStop <= now
          /\ comp.armedAt # NoTime => comp.armedAt <= askedAt
      BY DEF StartRested
    <3>3. ASSUME onAt["cool"] # NoTime
          PROVE  \/ now - offAt["cool"] >= MinOffS
                 \/ askedAt # NoTime /\ now - askedAt <= ManualWindowS
      <4>1. comp.guard.lastStop # NoTime /\ offAt["cool"] <= comp.guard.lastStop
        BY <2>6, <3>3 DEF StartRested
      <4>2. CASE MinOffServed(comp.guard, now)
        BY <1>0, <3>2, <4>1, <4>2 DEF MinOffServed, elapsedS
      <4>3. CASE Armed(comp.armedAt, now)
        <5>1. /\ comp.armedAt # NoTime /\ comp.armedAt <= askedAt /\ askedAt <= now
              /\ now - comp.armedAt <= ManualWindowS
          BY <1>0, <3>2, <4>3 DEF Armed, elapsedS, WireStamped
        <5>2. askedAt # NoTime
          BY <5>1, Numbers DEF NoTime, Time
        <5>. QED BY <1>0, <5>1, <5>2
      <4>. QED BY <2>6, <4>2, <4>3
    <3>4. Pending' => onAt'["cool"] = onAt["cool"]
      BY <2>1 DEF Pending
    <3>5. comp'.armedAt # NoTime => comp'.armedAt <= askedAt'
      BY <2>1, <2>6, <3>2
    <3>6. comp'.guard.lastStop <= now'
      BY <1>0, <2>4, <2>6, <3>2
    <3>7. StartRested'
      BY <2>1, <2>6, <3>1, <3>3, <3>4, <3>5, <3>6 DEF StartRested
    <3>. QED BY <1>0, <3>3, <3>7
  <2>7. CASE /\ cool.on /\ ~cool'.on
             /\ comp'.guard.lastStop = now /\ comp'.armedAt = comp.armedAt
    <3>1. offAt["cool"] <= now
      BY DEF WireStamped
    <3>2. offAt'["cool"] <= now /\ now # NoTime
      BY <1>0, <2>1, <3>1 DEF NoTime
    <3>3. "cool" \notin arb'.out
      BY <2>2, <2>7
    <3>. QED BY <1>0, <2>1, <2>4, <2>7, <3>2, <3>3 DEF StartRested, Pending
  <2>. QED BY <1>1, <2>5, <2>6, <2>7 DEF OneCycle, CoolTurn
<1>2. CASE Between
  <2>1. /\ now' = now /\ onAt' = onAt /\ offAt' = offAt /\ arb'.out = arb.out
        /\ cool'.on = cool.on /\ cool'.phaseStart = cool.phaseStart
        /\ comp'.guard = comp.guard
        /\ \/ comp'.armedAt = now /\ askedAt' = now
           \/ comp'.armedAt = comp.armedAt /\ askedAt' = askedAt
    BY <1>2 DEF Between
  <2>2. CASE comp'.armedAt = now /\ askedAt' = now
    <3>1. cool.phaseStart <= now /\ now # NoTime
      BY <1>0 DEF WireStamped, NoTime
    <3>. QED BY <1>0, <2>1, <2>2, <3>1 DEF StartRested, Pending
  <2>3. CASE comp'.armedAt = comp.armedAt /\ askedAt' = askedAt
    BY <2>1, <2>3 DEF StartRested, Pending
  <2>. QED BY <2>1, <2>2, <2>3
<1>. QED BY <1>1, <1>2

TimersInv == WireStamped /\ BurnRested /\ CoolTimed /\ StartRested

LEMMA InitTimers == Init => TimersInv
<1>. SUFFICES ASSUME Init PROVE TimersInv
  OBVIOUS
<1>1. /\ now = 0 /\ gas.lit = FALSE /\ gas.offSince = 0 /\ gas.runStart = 0
      /\ cool.on = FALSE /\ cool.phaseStart = 0
      /\ arb.out = {} /\ arb.lastHeat = 0 /\ arb.lastCool = 0
      /\ askedAt = NoTime /\ comp.armedAt = NoTime
  BY DEF Init, NewGas, NewDuty, NewArbiter
<1>2. \A c \in {"gas", "cool"} : onAt[c] = NoTime /\ offAt[c] = 0
  <2>1. \A c \in {"gas", "cool"} : c \in Sources
    BY DEF Sources, HeatFamily
  <2>. QED BY <2>1 DEF Init
<1>3. comp.guard.lastStop <= 0
  <2>1. PICK b \in {Blank, NoBlob} : comp.guard = bootRestore(b, 0, FALSE, 0)
    <3>1. PICK b \in {Blank, NoBlob} :
            comp = [guard |-> bootRestore(b, 0, FALSE, 0), armedAt |-> NoTime, anchor |-> 0]
      BY DEF Init
    <3>2. comp.guard = bootRestore(b, 0, FALSE, 0)
      BY <3>1
    <3>. QED BY <3>2
  <2>2. comp.guard = IF b = NoBlob THEN unknownState(0, 0) ELSE restoreFromBlob(b, 0, 0)
    BY <2>1 DEF bootRestore
  <2>3. unknownState(0, 0).lastStop = NoTime
    BY DEF unknownState, NewGuard
  <2>4. b # NoBlob => restoreFromBlob(b, 0, 0).lastStop \in {0, NoTime}
    BY <2>1 DEF restoreFromBlob, Blank, save, NewGuard
  <2>. QED BY <2>2, <2>3, <2>4 DEF NoTime
<1>. QED BY <1>1, <1>2, <1>3 DEF TimersInv, WireStamped, BurnRested, CoolTimed, StartRested, Pending, NoTime

LEMMA TimersInvariant == ASSUME ~HpMapped PROVE Spec => []TimersInv
<1>1. /\ TypeOK /\ TypeOK' /\ OneCompressor /\ OneFamily /\ TimersInv
      /\ [Next]_vars
      => TimersInv'
  BY StepIsOne, StampsKept, BurnKept, CoolTimesKept, StartsKept DEF TimersInv
<1>. QED BY <1>1, InitTimers, TypeCorrect, OneCompressorHolds, FamilyInvariant, PTL
     DEF Spec

(* The furnace of the CT-485 build rests GasMinOffS between burns as the wire *)
(* carries them, whatever ended the burn: comfort, the runtime cap or a drop. *)
THEOREM GasRestsBetweenBurnsHolds ==
  ASSUME ~HpMapped PROVE Spec => GasRestsBetweenBurns
<1>1. /\ TypeOK /\ TypeOK' /\ OneCompressor /\ OneFamily /\ TimersInv
      /\ [Next]_vars
      => [("gas" \in arb'.out \ arb.out /\ onAt["gas"] # NoTime
             => now - offAt["gas"] >= GasMinOffS)]_vars
  BY StepIsOne, BurnKept DEF TimersInv
<1>. QED BY <1>1, TypeCorrect, OneCompressorHolds, FamilyInvariant, TimersInvariant, PTL
     DEF Spec, GasRestsBetweenBurns

(* The compressor of the CT-485 build runs MinOnS unless dropped and rests    *)
(* MinOffS unless a person asked, as the wire carries it, provided the        *)
(* shaper's own minimum leaves room for the dwell that may hold a start back. *)
THEOREM CompressorKeepsTimeHolds ==
  ASSUME ~HpMapped, CoolMinOnS - HeatToCoolDwellS >= MinOnS
  PROVE  Spec => CompressorKeepsTime
<1>1. ASSUME TypeOK, TypeOK', OneCompressor, OneFamily, TimersInv, [Next]_vars
      PROVE  \A c \in {"hp", "cool"} : RunsLongEnough(c) /\ RestsBetween(c)
  <2>1. OneFamily' /\ (OneCycle \/ Between)
    BY <1>1, StepIsOne
  <2>2. RunsLongEnough("hp") /\ RestsBetween("hp")
    BY <1>1, <2>1 DEF OneFamily, RunsLongEnough, RestsBetween
  <2>3. RunsLongEnough("cool")
    <3>1. "cool" \in arb.out \ arb'.out /\ permitted'
            => now - onAt["cool"] >= CoolMinOnS - HeatToCoolDwellS
      BY <1>1, <2>1, CoolTimesKept DEF TimersInv
    <3>2. now \in Int /\ onAt["cool"] \in Int
      BY <1>1, Numbers DEF Time, NoTime
    <3>3. CoolMinOnS \in Int /\ HeatToCoolDwellS \in Int /\ MinOnS \in Int
      BY ShaperConfig, GuardConfig, DwellsNat
    <3>. QED BY <3>1, <3>2, <3>3 DEF RunsLongEnough
  <2>4. RestsBetween("cool")
    BY <1>1, <2>1, StartsKept DEF TimersInv, RestsBetween
  <2>. QED BY <2>2, <2>3, <2>4
<1>. QED BY <1>1, TypeCorrect, OneCompressorHolds, FamilyInvariant, TimersInvariant, PTL
     DEF Spec, CompressorKeepsTime

-----------------------------------------------------------------------------
(* The cool shaper's own history of starts, and the wire's: entry by entry,   *)
(* counted from the newest, the wire's is at most one dwell later.  While a   *)
(* start is pending the wire is one entry behind.                             *)
StartsKnown ==
  /\ Ordered(cool.starts, now)
  /\ cool.on => Len(cool.starts) > 0 /\ Back(cool.starts, 0) = cool.phaseStart

Lags(lag, last) ==
  \A j \in 0..last : j < Len(coolStarts) =>
    /\ j + lag < Len(cool.starts)
    /\ Back(coolStarts, j) <= Back(cool.starts, j + lag) + HeatToCoolDwellS

Aligned ==
  /\ Len(coolStarts) <= CoolMaxStartsPerH + 1
  /\ Lags(0, CoolMaxStartsPerH - 1)
  /\ Pending =>
       /\ Lags(1, CoolMaxStartsPerH - 2)
       /\ Len(coolStarts) >= CoolMaxStartsPerH =>
            Back(coolStarts, CoolMaxStartsPerH - 1)
              <= cool.phaseStart - HourS + HeatToCoolDwellS

LEMMA StartNumbers ==
  ASSUME TypeOK
  PROVE  /\ now \in Nat /\ cool.phaseStart \in Nat /\ cool.on \in BOOLEAN
         /\ cool.starts \in Seq(Nat) /\ Len(cool.starts) <= MaxStartHistory
         /\ Len(cool.starts) \in Nat
         /\ coolStarts \in Seq(Nat) /\ Len(coolStarts) \in Nat
         /\ \A j \in Nat : /\ j < Len(cool.starts) => Back(cool.starts, j) \in Nat
                           /\ j < Len(coolStarts) => Back(coolStarts, j) \in Nat
<1>1. cool \in Duty /\ now \in Nat /\ coolStarts \in Seq(Nat)
  BY DEF TypeOK
<1>2. cool.starts \in Seq(Nat) /\ Len(cool.starts) <= MaxStartHistory
  BY <1>1 DEF Duty, History
<1>3. ASSUME NEW h \in Seq(Nat), NEW j \in Nat, j < Len(h) PROVE Back(h, j) \in Nat
  <2>1. Len(h) - j \in 1..Len(h)
    BY <1>3
  <2>. QED BY <2>1 DEF Back
<1>4. cool.phaseStart \in Nat /\ cool.on \in BOOLEAN
  BY <1>1 DEF Duty
<1>. QED BY <1>1, <1>2, <1>3, <1>4

LEMMA CapNumbers ==
  /\ CoolMaxStartsPerH \in Nat \ {0} /\ CoolMaxStartsPerH <= MaxStartHistory
  /\ MaxStartHistory \in Nat \ {0} /\ HourS \in Nat /\ HeatToCoolDwellS \in Nat
<1>1. CoolMaxStartsPerH \in 1..MaxStartHistory
  BY ShaperConfig
<1>2. MaxStartHistory \in Nat \ {0} /\ HourS \in Nat
  BY GuardConfig
<1>. QED BY <1>1, <1>2, DwellsNat

(* A start of the shaper: its budget had room, so the entry that leaves it    *)
(* is an hour old.                                                            *)
LEMMA StartAligns ==
  ASSUME TypeOK, TypeOK', StartsKnown, Aligned, ~Pending,
         cool'.starts = Push(cool.starts, now, MaxStartHistory),
         cool'.phaseStart = now,
         Recent(cool.starts, now, HourS) < CoolMaxStartsPerH
  PROVE  /\ Ordered(cool'.starts, now)
         /\ Len(cool'.starts) > 0 /\ Back(cool'.starts, 0) = now
         /\ \A j \in 0..(CoolMaxStartsPerH - 2) : j < Len(coolStarts) =>
              /\ j + 1 < Len(cool'.starts)
              /\ Back(coolStarts, j) <= Back(cool'.starts, j + 1) + HeatToCoolDwellS
         /\ \A j \in 0..(CoolMaxStartsPerH - 1) : j < Len(coolStarts) =>
              /\ j < Len(cool'.starts)
              /\ Back(coolStarts, j) <= Back(cool'.starts, j) + HeatToCoolDwellS
         /\ Len(coolStarts) >= CoolMaxStartsPerH =>
              Back(coolStarts, CoolMaxStartsPerH - 1) <= now - HourS + HeatToCoolDwellS
<1>. DEFINE s == cool.starts
            n == cool'.starts
            C == CoolMaxStartsPerH
            D == HeatToCoolDwellS
<1>1. /\ n \in Seq(Nat) /\ Len(n) \in Nat /\ Back(n, 0) = now
      /\ Len(n) = IF Len(s) < MaxStartHistory THEN Len(s) + 1 ELSE MaxStartHistory
      /\ \A j \in 1..(Len(n) - 1) : j - 1 < Len(s) /\ Back(n, j) = Back(s, j - 1)
  <2>1. /\ cool.starts \in Seq(Nat) /\ Len(cool.starts) <= MaxStartHistory
        /\ now \in Nat /\ MaxStartHistory \in Nat \ {0}
    BY StartNumbers, CapNumbers
  <2>2. LET p == Push(cool.starts, now, MaxStartHistory)
        IN /\ p \in Seq(Nat)
           /\ Len(p) = IF Len(cool.starts) < MaxStartHistory
                       THEN Len(cool.starts) + 1 ELSE MaxStartHistory
           /\ Back(p, 0) = now
           /\ \A j \in 1..(Len(p) - 1) :
                j - 1 < Len(cool.starts) /\ Back(p, j) = Back(cool.starts, j - 1)
    BY <2>1, PushBack, ZenonT(40)
  <2>3. Len(n) \in Nat
    BY <2>2
  <2>. QED BY <2>2, <2>3
<1>2. Ordered(n, now)
  BY PushOrdered, StartNumbers, CapNumbers DEF StartsKnown
<1>3. ASSUME NEW j \in 0..(C - 1), j < Len(coolStarts)
      PROVE  /\ j < Len(s) /\ Back(coolStarts, j) <= Back(s, j) + D
             /\ j < Len(n)
             /\ j + 1 < Len(n) => Back(n, j + 1) = Back(s, j)
             /\ j + 1 <= C - 1 => j + 1 < Len(n)
  <2>1. j \in Nat /\ j + 0 = j
    OBVIOUS
  <2>2. j < Len(s) /\ Back(coolStarts, j) <= Back(s, j) + D
    BY <1>3, <2>1 DEF Aligned, Lags
  <2>3. j < Len(n) /\ (j + 1 <= C - 1 => j + 1 < Len(n))
    <3>1. /\ Len(s) \in Nat /\ Len(n) \in Nat /\ C \in Nat
          /\ C <= MaxStartHistory /\ MaxStartHistory \in Nat /\ j <= C - 1
      BY <1>1, StartNumbers, CapNumbers
    <3>. HIDE DEF s, n, C
    <3>. QED BY <1>1, <2>1, <2>2, <3>1
  <2>4. j + 1 < Len(n) => Back(n, j + 1) = Back(s, j)
    <3>. SUFFICES ASSUME j + 1 < Len(n) PROVE Back(n, j + 1) = Back(s, j)
      OBVIOUS
    <3>1. j + 1 \in 1..(Len(n) - 1) /\ (j + 1) - 1 = j
      BY <1>1
    <3>. QED BY <1>1, <3>1
  <2>. QED BY <2>2, <2>3, <2>4
<1>. HIDE DEF s, n, C, D
<1>4. ASSUME NEW j \in 0..(C - 2), j < Len(coolStarts)
      PROVE  j + 1 < Len(n) /\ Back(coolStarts, j) <= Back(n, j + 1) + D
  <2>1. j \in 0..(C - 1) /\ j + 1 <= C - 1
    BY CapNumbers DEF C
  <2>. QED BY <1>3, <1>4, <2>1
<1>5. ASSUME NEW j \in 0..(C - 1), j < Len(coolStarts)
      PROVE  j < Len(n) /\ Back(coolStarts, j) <= Back(n, j) + D
  <2>1. /\ j < Len(s) /\ Back(coolStarts, j) <= Back(s, j) + D /\ j < Len(n)
        /\ Back(coolStarts, j) \in Nat /\ Back(s, j) \in Nat
    BY <1>3, <1>5, StartNumbers DEF s
  <2>2. Back(s, j) <= Back(n, j) /\ Back(n, j) \in Nat
    <3>1. CASE j = 0
      <4>1. j \in 0..(Len(s) - 1)
        BY <2>1, StartNumbers DEF s
      <4>2. Back(s, j) <= now
        BY <4>1 DEF StartsKnown, Ordered, s
      <4>. QED BY <1>1, <3>1, <4>2, StartNumbers
    <3>2. CASE j # 0
      <4>1. /\ j \in 1..(Len(n) - 1) /\ j - 1 \in 0..(Len(s) - 1)
            /\ j \in 0..(Len(s) - 1) /\ j - 1 <= j /\ j - 1 \in Nat
        BY <1>1, <2>1, <3>2, StartNumbers, SMTT(30) DEF s
      <4>2. Back(n, j) = Back(s, j - 1)
        BY <1>1, <4>1
      <4>3. Back(s, j) <= Back(s, j - 1)
        BY <4>1 DEF StartsKnown, Ordered, s
      <4>4. Back(s, j - 1) \in Nat
        BY <4>1, StartNumbers DEF s
      <4>. QED BY <4>2, <4>3, <4>4
    <3>. QED BY <3>1, <3>2
  <2>. QED BY <2>1, <2>2, CapNumbers DEF D
<1>6. ASSUME Len(coolStarts) >= C
      PROVE  Back(coolStarts, C - 1) <= now - HourS + D
  <2>1. C - 1 \in 0..(C - 1) /\ C - 1 < Len(coolStarts) /\ C - 1 \in Nat
    BY <1>6, CapNumbers, StartNumbers DEF C
  <2>2. C - 1 < Len(s) /\ Back(coolStarts, C - 1) <= Back(s, C - 1) + D
    BY <1>3, <2>1
  <2>3. now - Back(s, C - 1) >= HourS
    <3>1. Len(s) >= C
      BY <2>2, CapNumbers, StartNumbers DEF C, s
    <3>. QED BY <3>1, BudgetLeft, CapNumbers, StartNumbers DEF C, s, StartsKnown
  <2>4. Back(s, C - 1) \in Nat /\ Back(coolStarts, C - 1) \in Nat
    BY <2>1, <2>2, StartNumbers DEF s
  <2>. QED BY <2>2, <2>3, <2>4, CapNumbers, StartNumbers DEF D
<1>7. Len(n) > 0
  BY <1>1, CapNumbers, StartNumbers DEF s
<1>. QED BY <1>1, <1>2, <1>4, <1>5, <1>6, <1>7 DEF n, C, D

(* A start reaches the wire. *)
LEMMA WireStart ==
  ASSUME TypeOK, TypeOK', Len(coolStarts) <= CoolMaxStartsPerH + 1,
         coolStarts' = Push(coolStarts, now, CoolMaxStartsPerH + 1),
         "cool" \in arb'.out,
         Len(cool'.starts) > 0, now <= Back(cool'.starts, 0) + HeatToCoolDwellS,
         \A j \in 0..(CoolMaxStartsPerH - 2) : j < Len(coolStarts) =>
           /\ j + 1 < Len(cool'.starts)
           /\ Back(coolStarts, j) <= Back(cool'.starts, j + 1) + HeatToCoolDwellS,
         Len(coolStarts) >= CoolMaxStartsPerH =>
           Back(coolStarts, CoolMaxStartsPerH - 1) <= now - HourS + HeatToCoolDwellS
  PROVE  Aligned' /\ CoolStartsCapped'
<1>. DEFINE h == coolStarts
            w == coolStarts'
            n == cool'.starts
            C == CoolMaxStartsPerH
            D == HeatToCoolDwellS
<1>0. /\ C \in Nat \ {0} /\ HourS \in Nat /\ D \in Nat /\ now \in Nat
      /\ h \in Seq(Nat) /\ Len(h) \in Nat /\ Len(h) <= C + 1
      /\ \A j \in Nat : j < Len(h) => Back(h, j) \in Nat
      /\ n \in Seq(Nat) /\ Len(n) \in Nat
  <2>1. cool'.starts \in Seq(Nat) /\ Len(cool'.starts) \in Nat
    BY DEF TypeOK, Duty, History
  <2>. QED BY <2>1, StartNumbers, CapNumbers
<1>1. /\ w \in Seq(Nat) /\ Len(w) \in Nat /\ Back(w, 0) = now
      /\ Len(w) = IF Len(h) < C + 1 THEN Len(h) + 1 ELSE C + 1
      /\ \A j \in 1..(Len(w) - 1) : j - 1 < Len(h) /\ Back(w, j) = Back(h, j - 1)
  <2>1. C + 1 \in Nat \ {0}
    BY <1>0
  <2>2. LET p == Push(h, now, C + 1)
        IN /\ p \in Seq(Nat)
           /\ Len(p) = IF Len(h) < C + 1 THEN Len(h) + 1 ELSE C + 1
           /\ Back(p, 0) = now
           /\ \A j \in 1..(Len(p) - 1) : j - 1 < Len(h) /\ Back(p, j) = Back(h, j - 1)
    <3>. HIDE DEF h, C
    <3>. QED BY <1>0, <2>1, PushBack, ZenonT(40)
  <2>3. Len(w) \in Nat
    BY <2>2
  <2>. QED BY <2>2, <2>3
<1>2. ASSUME NEW j \in 0..(C - 1), j < Len(w)
      PROVE  j + 0 < Len(n) /\ Back(w, j) <= Back(n, j + 0) + D
  <2>1. CASE j = 0
    <3>1. j + 0 = 0
      BY <2>1
    <3>. QED BY <1>1, <2>1, <3>1
  <2>2. CASE j # 0
    <3>1. /\ j \in 1..(Len(w) - 1) /\ j - 1 \in 0..(C - 2) /\ (j - 1) + 1 = j /\ j + 0 = j
      <4>. HIDE DEF w, C
      <4>. QED BY <1>0, <1>1, <1>2, <2>2
    <3>2. j - 1 < Len(h) /\ Back(w, j) = Back(h, j - 1)
      BY <1>1, <3>1
    <3>3. /\ (j - 1) + 1 < Len(n)
          /\ Back(h, j - 1) <= Back(n, (j - 1) + 1) + D
      BY <3>1, <3>2
    <3>. QED BY <3>1, <3>2, <3>3
  <2>. QED BY <2>1, <2>2
<1>3. Len(w) <= C + 1
  <2>. HIDE DEF w, C, h
  <2>. QED BY <1>0, <1>1
<1>4. Aligned'
  <2>1. Lags(0, C - 1)'
    BY <1>2 DEF Lags
  <2>. QED BY <1>3, <2>1 DEF Aligned, Pending
<1>5. CoolStartsCapped'
  <2>. SUFFICES ASSUME Len(w) > C
                PROVE  w[Len(w)] - w[1] >= HourS - D
    BY DEF CoolStartsCapped
  <2>1. Len(w) = C + 1 /\ C \in 1..(Len(w) - 1) /\ Len(w) - C = 1 /\ Len(w) - 0 = Len(w)
    <3>. HIDE DEF w, C, h
    <3>. QED BY <1>0, <1>1, <1>3
  <2>2. w[Len(w)] = now /\ w[1] = Back(h, C - 1) /\ C - 1 < Len(h)
    <3>1. w[Len(w)] = Back(w, 0) /\ w[1] = Back(w, C)
      BY <2>1 DEF Back
    <3>2. Back(w, C) = Back(h, C - 1) /\ C - 1 < Len(h)
      BY <1>1, <2>1
    <3>. QED BY <1>1, <3>1, <3>2
  <2>3. C - 1 \in Nat /\ Len(h) >= C
    <3>. HIDE DEF w, C, h
    <3>. QED BY <1>0, <2>2
  <2>4. Back(h, C - 1) <= now - HourS + D /\ Back(h, C - 1) \in Nat
    BY <1>0, <2>2, <2>3
  <2>. HIDE DEF w, C, h, D
  <2>. QED BY <1>0, <2>2, <2>4
<1>. QED BY <1>4, <1>5

LEMMA AlignedKept ==
  ASSUME TypeOK, TypeOK', OneFamily, OneFamily', WireStamped, CoolTimed,
         StartsKnown, Aligned, CoolStartsCapped, OneCycle \/ Between
  PROVE  StartsKnown' /\ Aligned' /\ CoolStartsCapped'
<1>0. /\ now \in Nat /\ now' \in Nat /\ cool.on \in BOOLEAN /\ cool'.on \in BOOLEAN
      /\ HeatToCoolDwellS \in Nat /\ HourS \in Nat /\ cool.phaseStart \in Nat
  BY StartNumbers, CapNumbers DEF TypeOK, Duty
<1>1. CASE OneCycle
  <2>1. /\ coolStarts' = IF "cool" \in arb'.out /\ "cool" \notin arb.out
                         THEN Push(coolStarts, now, CoolMaxStartsPerH + 1) ELSE coolStarts
        /\ now' >= now
    BY <1>0, <1>1 DEF OneCycle, Recorded
  <2>2. /\ "cool" \in arb.out => cool.on
        /\ "cool" \in arb'.out => cool'.on
    BY DEF OneFamily
  <2>3. "cool" \in arb.out /\ cool'.on => "cool" \in arb'.out
    BY <1>0, <1>1, DwellsNat, Numbers DEF OneCycle, Emission, WireStamped, elapsedS
  <2>4. ASSUME NEW s \in Seq(Nat), Ordered(s, now)
        PROVE  Ordered(s, now')
    <3>1. \A j \in 0..(Len(s) - 1) : Back(s, j) \in Nat
      <4>. SUFFICES ASSUME NEW j \in 0..(Len(s) - 1) PROVE Back(s, j) \in Nat
        OBVIOUS
      <4>1. Len(s) - j \in 1..Len(s)
        OBVIOUS
      <4>. QED BY <4>1 DEF Back
    <3>. QED BY <1>0, <2>1, <2>4, <3>1 DEF Ordered
  <2>5. CASE /\ cool'.on = cool.on /\ cool'.starts = cool.starts
             /\ cool.on => permitted' /\ cool'.phaseStart = cool.phaseStart
    <3>1. CASE cool.on
      <4>1. /\ cool.on = TRUE /\ cool'.on = TRUE /\ cool'.starts = cool.starts
            /\ cool'.phaseStart = cool.phaseStart
        BY <1>0, <2>5, <3>1
      <4>2. StartsKnown'
        BY <2>4, <4>1, StartNumbers DEF StartsKnown
      <4>3. CASE "cool" \in arb'.out /\ "cool" \notin arb.out
        <5>1. /\ Lags(1, CoolMaxStartsPerH - 2) /\ Len(coolStarts) <= CoolMaxStartsPerH + 1
              /\ now <= cool.phaseStart + HeatToCoolDwellS /\ cool.phaseStart <= now
              /\ Len(coolStarts) >= CoolMaxStartsPerH =>
                   Back(coolStarts, CoolMaxStartsPerH - 1)
                     <= cool.phaseStart - HourS + HeatToCoolDwellS
          BY <4>1, <4>3 DEF Aligned, Pending, CoolTimed, WireStamped
        <5>2. Len(coolStarts) >= CoolMaxStartsPerH =>
                Back(coolStarts, CoolMaxStartsPerH - 1) <= now - HourS + HeatToCoolDwellS
          <6>. SUFFICES ASSUME Len(coolStarts) >= CoolMaxStartsPerH
                        PROVE  Back(coolStarts, CoolMaxStartsPerH - 1)
                                 <= now - HourS + HeatToCoolDwellS
            OBVIOUS
          <6>1. CoolMaxStartsPerH - 1 \in Nat /\ CoolMaxStartsPerH - 1 < Len(coolStarts)
            BY CapNumbers, StartNumbers
          <6>2. Back(coolStarts, CoolMaxStartsPerH - 1) \in Nat
            BY <6>1, StartNumbers
          <6>. QED BY <1>0, <5>1, <6>2
        <5>3. coolStarts' = Push(coolStarts, now, CoolMaxStartsPerH + 1)
          BY <2>1, <4>3
        <5>4. Len(cool'.starts) > 0 /\ now <= Back(cool'.starts, 0) + HeatToCoolDwellS
          BY <4>1, <5>1 DEF StartsKnown
        <5>5. \A j \in 0..(CoolMaxStartsPerH - 2) : j < Len(coolStarts) =>
                /\ j + 1 < Len(cool'.starts)
                /\ Back(coolStarts, j) <= Back(cool'.starts, j + 1) + HeatToCoolDwellS
          BY <4>1, <5>1 DEF Lags
        <5>. QED BY <4>2, <4>3, <5>1, <5>2, <5>3, <5>4, <5>5, WireStart
      <4>4. CASE ~("cool" \in arb'.out /\ "cool" \notin arb.out)
        <5>1. coolStarts' = coolStarts
          BY <2>1, <4>4
        <5>2. Pending' <=> Pending
          BY <2>3, <4>1, <4>4 DEF Pending
        <5>. QED BY <4>1, <4>2, <5>1, <5>2 DEF Aligned, Lags, CoolStartsCapped
      <4>. QED BY <4>3, <4>4
    <3>2. CASE ~cool.on
      <4>1. cool.on = FALSE /\ cool'.on = FALSE
        BY <1>0, <2>5, <3>2
      <4>2. coolStarts' = coolStarts
        BY <2>1, <2>2, <4>1
      <4>3. StartsKnown'
        BY <2>4, <2>5, <4>1, StartNumbers DEF StartsKnown
      <4>. QED BY <2>5, <4>1, <4>2, <4>3 DEF Aligned, Lags, Pending, CoolStartsCapped
    <3>. QED BY <3>1, <3>2
  <2>6. CASE /\ ~cool.on /\ cool'.on /\ cool'.phaseStart = now
             /\ cool'.starts = Push(cool.starts, now, MaxStartHistory)
             /\ Recent(cool.starts, now, HourS) < CoolMaxStartsPerH
    <3>1. ~Pending
      BY <2>6 DEF Pending
    <3>2. /\ Ordered(cool'.starts, now)
          /\ Len(cool'.starts) > 0 /\ Back(cool'.starts, 0) = now
          /\ \A j \in 0..(CoolMaxStartsPerH - 2) : j < Len(coolStarts) =>
               /\ j + 1 < Len(cool'.starts)
               /\ Back(coolStarts, j) <= Back(cool'.starts, j + 1) + HeatToCoolDwellS
          /\ \A j \in 0..(CoolMaxStartsPerH - 1) : j < Len(coolStarts) =>
               /\ j < Len(cool'.starts)
               /\ Back(coolStarts, j) <= Back(cool'.starts, j) + HeatToCoolDwellS
          /\ Len(coolStarts) >= CoolMaxStartsPerH =>
               Back(coolStarts, CoolMaxStartsPerH - 1) <= now - HourS + HeatToCoolDwellS
      BY <2>6, <3>1, StartAligns
    <3>3. StartsKnown'
      <4>1. cool'.starts \in Seq(Nat)
        BY DEF TypeOK, Duty, History
      <4>. QED BY <2>4, <2>6, <3>2, <4>1 DEF StartsKnown
    <3>4. CASE "cool" \in arb'.out
      <4>1. coolStarts' = Push(coolStarts, now, CoolMaxStartsPerH + 1)
        BY <2>1, <2>2, <2>6, <3>4
      <4>2. now <= Back(cool'.starts, 0) + HeatToCoolDwellS
        BY <1>0, <3>2
      <4>3. Len(coolStarts) <= CoolMaxStartsPerH + 1
        BY DEF Aligned
      <4>. QED BY <3>2, <3>3, <3>4, <4>1, <4>2, <4>3, WireStart
    <3>5. CASE "cool" \notin arb'.out
      <4>1. coolStarts' = coolStarts
        BY <2>1, <3>5
      <4>2. ASSUME NEW j \in 0..(CoolMaxStartsPerH - 1), j < Len(coolStarts)
            PROVE  /\ j + 0 < Len(cool'.starts)
                   /\ Back(coolStarts, j) <= Back(cool'.starts, j + 0) + HeatToCoolDwellS
        <5>1. j + 0 = j
          OBVIOUS
        <5>. QED BY <3>2, <4>2, <5>1
      <4>3. Lags(0, CoolMaxStartsPerH - 1)'
        BY <4>1, <4>2 DEF Lags
      <4>4. Lags(1, CoolMaxStartsPerH - 2)'
        BY <3>2, <4>1 DEF Lags
      <4>5. Aligned'
        BY <2>6, <3>2, <4>1, <4>3, <4>4 DEF Aligned
      <4>. QED BY <3>3, <4>1, <4>5 DEF CoolStartsCapped
    <3>. QED BY <3>4, <3>5
  <2>7. CASE cool.on /\ ~cool'.on /\ cool'.starts = cool.starts
    <3>1. coolStarts' = coolStarts /\ ~Pending'
      BY <2>1, <2>2, <2>7 DEF Pending
    <3>2. StartsKnown'
      BY <2>4, <2>7, StartNumbers DEF StartsKnown
    <3>. QED BY <2>7, <3>1, <3>2 DEF Aligned, Lags, CoolStartsCapped
  <2>. QED BY <1>1, <2>5, <2>6, <2>7 DEF OneCycle, CoolTurn
<1>2. CASE Between
  <2>1. /\ now' = now /\ coolStarts' = coolStarts /\ arb'.out = arb.out
        /\ cool'.on = cool.on /\ cool'.starts = cool.starts
        /\ cool'.phaseStart = cool.phaseStart
    BY <1>2 DEF Between
  <2>. QED BY <2>1 DEF StartsKnown, Aligned, Lags, Pending, CoolStartsCapped
<1>. QED BY <1>1, <1>2

StartsInv == StartsKnown /\ Aligned /\ CoolStartsCapped

LEMMA InitStarts == Init => StartsInv
<1>. SUFFICES ASSUME Init PROVE StartsInv
  OBVIOUS
<1>1. /\ cool.on = FALSE /\ cool.starts = <<>> /\ coolStarts = <<>>
      /\ Len(<<>>) = 0 /\ CoolMaxStartsPerH \in Nat
  BY CapNumbers DEF Init, NewDuty
<1>. QED BY <1>1 DEF StartsInv, StartsKnown, Aligned, Lags, Pending, Ordered,
                     CoolStartsCapped

(* No order of calls, drops, recoveries and user actions starts the           *)
(* compressor of the CT-485 build more than CoolMaxStartsPerH times in an     *)
(* hour, less what the dwell may delay the first of them: a drop refills no    *)
(* budget and an arm skips none.                                              *)
THEOREM CoolStartsCappedHolds == ASSUME ~HpMapped PROVE Spec => []CoolStartsCapped
<1>1. /\ TypeOK /\ TypeOK' /\ OneCompressor /\ OneFamily /\ TimersInv /\ StartsInv
      /\ [Next]_vars
      => StartsInv'
  BY StepIsOne, AlignedKept DEF TimersInv, StartsInv
<1>2. StartsInv => CoolStartsCapped
  BY DEF StartsInv
<1>. QED BY <1>1, <1>2, InitStarts, TypeCorrect, OneCompressorHolds, FamilyInvariant,
            TimersInvariant, PTL DEF Spec
=============================================================================
