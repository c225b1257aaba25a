------------------------- MODULE GuardLifecycleProofs -------------------------
(***************************************************************************)
(* Theorems about GuardLifecycle, for every value of its constants: the rest  *)
(* between runs and the promise of AntiShortCycle, the latch on reset loops,  *)
(* and the wait that a denied start reports.                                 *)
(***************************************************************************)
EXTENDS GuardLifecycle, FiniteSetTheorems, TLAPS

(* The assumptions on the constants, one by one. *)
LEMMA Constants ==
  /\ MinOffS \in Nat /\ HourS \in Nat /\ BootHoldoffS \in Nat
  /\ BootHoldoffS >= MinOffS
  /\ MaxStartHistory \in Nat \ {0} /\ MaxBootHistory \in Nat \ {0}
  /\ ResetLoopCount \in Nat \ {0}
  /\ MaxJitterS \in Nat /\ ManualWindowS \in Nat /\ MaxReal \in Nat
  /\ MaxDownS \in Nat \ {0}
  BY GuardConfig, LifecycleConfig

-----------------------------------------------------------------------------
(* Bounded histories, newest entry last. *)

(* A bounded history stays inside its array when an entry is pushed. *)
LEMMA PushKeepsBound ==
  ASSUME NEW n \in Nat \ {0}, NEW h \in History(n), NEW t \in Nat
  PROVE  Push(h, t, n) \in History(n)
  BY DEF Push, History

LEMMA EmptyHistory == ASSUME NEW n \in Nat PROVE <<>> \in History(n)
  BY DEF History

(* A history counted from its newest entry: pushing shifts it by one.  *)
Back(h, j) == h[Len(h) - j]

LEMMA PushBack ==
  ASSUME NEW n \in Nat \ {0}, NEW h \in Seq(Nat), Len(h) <= n, NEW t \in Nat
  PROVE  LET p == Push(h, t, n)
         IN /\ p \in Seq(Nat)
            /\ Len(p) = IF Len(h) < n THEN Len(h) + 1 ELSE n
            /\ Back(p, 0) = t
            /\ \A j \in 1..(Len(p) - 1) : j - 1 < Len(h) /\ Back(p, j) = Back(h, j - 1)
<1>. DEFINE p == Push(h, t, n)
<1>1. CASE Len(h) < n
  <2>1. p = Append(h, t)
    BY <1>1 DEF Push
  <2>. HIDE DEF p
  <2>2. p \in Seq(Nat) /\ Len(p) = Len(h) + 1 /\ p[Len(h) + 1] = t
        /\ \A i \in 1..Len(h) : p[i] = h[i]
    BY <2>1
  <2>3. ASSUME NEW j \in 1..(Len(p) - 1)
        PROVE  j - 1 < Len(h) /\ Back(p, j) = Back(h, j - 1)
    <3>1. /\ Len(p) - j \in 1..Len(h)
          /\ Len(p) - j = Len(h) - (j - 1) /\ j - 1 < Len(h)
      BY <2>2
    <3>2. p[Len(p) - j] = h[Len(p) - j]
      BY <2>2, <3>1
    <3>3. p[Len(p) - j] = h[Len(h) - (j - 1)]
      BY <3>1, <3>2
    <3>. QED BY <3>1, <3>3 DEF Back
  <2>4. Back(p, 0) = t
    BY <2>2 DEF Back
  <2>. QED BY <1>1, <2>2, <2>3, <2>4 DEF p
<1>2. CASE Len(h) = n
  <2>1. p = Append(Tail(h), t)
    BY <1>2 DEF Push
  <2>2. Tail(h) \in Seq(Nat) /\ Len(Tail(h)) = n - 1
        /\ \A i \in 1..(n - 1) : Tail(h)[i] = h[i + 1]
    BY <1>2
  <2>. HIDE DEF p
  <2>3. p \in Seq(Nat) /\ Len(p) = n /\ p[n] = t
        /\ \A i \in 1..(n - 1) : p[i] = h[i + 1]
    BY <2>1, <2>2
  <2>4. ASSUME NEW j \in 1..(Len(p) - 1)
        PROVE  j - 1 < Len(h) /\ Back(p, j) = Back(h, j - 1)
    <3>1. /\ n - j \in 1..(n - 1) /\ j - 1 < Len(h)
          /\ n - j + 1 = Len(h) - (j - 1)
      BY <1>2, <2>3
    <3>2. p[n - j] = h[n - j + 1]
      BY <2>3, <3>1
    <3>. QED BY <2>3, <3>1, <3>2 DEF Back
  <2>5. Back(p, 0) = t
    BY <2>3 DEF Back
  <2>. QED BY <1>2, <2>3, <2>4, <2>5 DEF p
<1>. QED BY <1>1, <1>2

(* Sorted, and nothing in it later than t. *)
Ordered(h, t) ==
  /\ \A j, k \in 0..(Len(h) - 1) : j <= k => Back(h, k) <= Back(h, j)
  /\ \A j \in 0..(Len(h) - 1) : Back(h, j) <= t

LEMMA PushOrdered ==
  ASSUME NEW n \in Nat \ {0}, NEW h \in Seq(Nat), Len(h) <= n, NEW t \in Nat,
         Ordered(h, t)
  PROVE  Ordered(Push(h, t, n), t)
<1>. DEFINE p == Push(h, t, n)
<1>1. /\ p \in Seq(Nat) /\ Len(p) \in Nat /\ Back(p, 0) = t
      /\ \A j \in 1..(Len(p) - 1) : j - 1 < Len(h) /\ Back(p, j) = Back(h, j - 1)
  BY PushBack
<1>. HIDE DEF p
<1>2. ASSUME NEW j \in 0..(Len(p) - 1) PROVE Back(p, j) <= t
  <2>1. CASE j = 0
    BY <1>1, <2>1
  <2>2. CASE j # 0
    <3>1. j \in 1..(Len(p) - 1) /\ j - 1 \in 0..(Len(h) - 1)
      BY <1>1, <2>2
    <3>. QED BY <1>1, <3>1 DEF Ordered
  <2>. QED BY <2>1, <2>2
<1>3. ASSUME NEW j \in 0..(Len(p) - 1), NEW k \in 0..(Len(p) - 1), j <= k
      PROVE  Back(p, k) <= Back(p, j)
  <2>1. CASE j = 0
    BY <1>1, <1>2, <2>1
  <2>2. CASE j # 0
    <3>0. j \in 1..(Len(p) - 1) /\ k \in 1..(Len(p) - 1)
      BY <1>1, <1>3, <2>2
    <3>1. /\ j \in 1..(Len(p) - 1) /\ k \in 1..(Len(p) - 1)
          /\ j - 1 < Len(h) /\ k - 1 < Len(h)
      BY <1>1, <3>0
    <3>2. j - 1 \in 0..(Len(h) - 1) /\ k - 1 \in 0..(Len(h) - 1) /\ j - 1 <= k - 1
      BY <1>3, <3>1
    <3>3. Back(p, j) = Back(h, j - 1) /\ Back(p, k) = Back(h, k - 1)
      BY <1>1, <3>1
    <3>. QED BY <3>2, <3>3 DEF Ordered
  <2>. QED BY <2>1, <2>2
<1>. QED BY <1>2, <1>3 DEF Ordered, p

-----------------------------------------------------------------------------
(* The least of some numbers, and the greatest of four.                      *)
LEMMA LeastNatural ==
  ASSUME NEW S \in SUBSET Nat, S # {}
  PROVE  \E m \in S : \A k \in S : m <= k
<1>1. PICK m \in S : \A k \in S : <<k, m>> \notin OpToRel(<, Nat)
  BY WFMin, NatLessThanWellFounded, Zenon
<1>2. ASSUME NEW k \in S PROVE m <= k
  <2>1. ~(k < m)
    BY <1>1, Zenon DEF OpToRel
  <2>. QED BY <2>1
<1>. QED BY <1>2

LEMMA GreatestOfFour ==
  ASSUME NEW a \in Int, NEW b \in Int, NEW c \in Int, NEW S \in SUBSET {0, a, b, c},
         0 \in S
  PROVE  \E w \in S : \A v \in S : v <= w
<1>1. \A x, y \in S : x \in Int /\ y \in Int /\ (x <= y \/ y <= x)
  OBVIOUS
<1>2. PICK p \in S : (a \in S => a <= p) /\ 0 <= p
  BY <1>1
<1>3. PICK q \in S : (b \in S => b <= q) /\ p <= q
  BY <1>1
<1>4. PICK r \in S : (c \in S => c <= r) /\ q <= r
  BY <1>1
<1>5. p \in Int /\ q \in Int /\ r \in Int
  BY <1>1
<1>6. ASSUME NEW v \in S PROVE v <= r
  <2>1. v = 0 \/ v = a \/ v = b \/ v = c
    OBVIOUS
  <2>. QED BY <1>2, <1>3, <1>4, <1>5, <2>1
<1>. QED BY <1>6

-----------------------------------------------------------------------------
(* Counting on histories.  The positions of a history are finitely many, and *)
(* fewer of them count less.                                                 *)
LEMMA Positions ==
  ASSUME NEW h \in Seq(Nat), NEW S \in SUBSET DOMAIN h
  PROVE  /\ IsFiniteSet(S) /\ Cardinality(S) \in Nat
         /\ \A T \in SUBSET S : Cardinality(T) \in Nat /\ Cardinality(T) <= Cardinality(S)
<1>1. Len(h) \in Nat /\ DOMAIN h = 1..Len(h)
  OBVIOUS
<1>2. IsFiniteSet(1..Len(h))
  BY <1>1, FS_Interval
<1>3. IsFiniteSet(S)
  BY <1>1, <1>2, FS_Subset
<1>4. ASSUME NEW T \in SUBSET S PROVE Cardinality(T) \in Nat /\ Cardinality(T) <= Cardinality(S)
  BY <1>3, FS_Subset, FS_CardinalityType
<1>. QED BY <1>3, <1>4, FS_CardinalityType

LEMMA RecentType ==
  ASSUME NEW h \in Seq(Nat), NEW t \in Nat, NEW span \in Nat
  PROVE  Recent(h, t, span) \in Nat
BY Positions DEF Recent

(* When the m newest entries are young, at least m are counted.             *)
LEMMA NewestCount ==
  ASSUME NEW h \in Seq(Nat), NEW t \in Nat, NEW span \in Nat, NEW m \in Nat \ {0},
         m <= Len(h), \A j \in 0..(m - 1) : elapsedS(t, Back(h, j)) < span
  PROVE  Recent(h, t, span) >= m
<1>. DEFINE S == {i \in DOMAIN h : elapsedS(t, h[i]) < span}
            T == (Len(h) - m + 1)..Len(h)
<1>0. Len(h) \in Nat /\ DOMAIN h = 1..Len(h)
  OBVIOUS
<1>1. T \subseteq S
  <2>. SUFFICES ASSUME NEW i \in T PROVE i \in S
    OBVIOUS
  <2>1. i \in 1..Len(h) /\ Len(h) - i \in 0..(m - 1) /\ Len(h) - (Len(h) - i) = i
    BY <1>0
  <2>2. Back(h, Len(h) - i) = h[i]
    BY <2>1 DEF Back
  <2>. QED BY <1>0, <2>1, <2>2
<1>2. Cardinality(T) = m
  <2>1. Len(h) - m + 1 \in Int /\ Len(h) \in Int /\ ~(Len(h) - m + 1 > Len(h))
        /\ Len(h) - (Len(h) - m + 1) + 1 = m
    BY <1>0
  <2>. QED BY <2>1, FS_Interval
<1>3. S \in SUBSET DOMAIN h /\ Recent(h, t, span) = Cardinality(S)
  BY DEF Recent
<1>. HIDE DEF S, T
<1>. QED BY <1>1, <1>2, <1>3, Positions

(* The count only shrinks as time passes.                                   *)
LEMMA RecentShrinks ==
  ASSUME NEW h \in Seq(Nat), NEW t \in Nat, NEW u \in Nat, t <= u, NEW span \in Nat
  PROVE  Recent(h, u, span) <= Recent(h, t, span)
<1>. DEFINE S == {i \in DOMAIN h : elapsedS(t, h[i]) < span}
            T == {i \in DOMAIN h : elapsedS(u, h[i]) < span}
<1>1. T \subseteq S
  BY DEF elapsedS
<1>2. /\ S \in SUBSET DOMAIN h
      /\ Recent(h, t, span) = Cardinality(S) /\ Recent(h, u, span) = Cardinality(T)
  BY DEF Recent
<1>. HIDE DEF S, T
<1>. QED BY <1>1, <1>2, Positions

(* A push adds one entry to the count, whatever falls out of the array.     *)
LEMMA PushCounts ==
  ASSUME NEW n \in Nat \ {0}, NEW h \in History(n), NEW t \in Nat, NEW span \in Nat
  PROVE  Recent(Push(h, t, n), t, span) <= Recent(h, t, span) + 1
<1>. DEFINE p == Push(h, t, n)
            S == {i \in DOMAIN h : elapsedS(t, h[i]) < span}
            P == {i \in DOMAIN p : elapsedS(t, p[i]) < span}
            Old == P \ {Len(p)}
            back == IF Len(h) < n THEN 0 ELSE 1
            f == [i \in Old |-> i + back]
<1>1. h \in Seq(Nat) /\ Len(h) \in Nat /\ Len(h) <= n /\ DOMAIN h = 1..Len(h)
  BY DEF History
<1>2. /\ p \in Seq(Nat) /\ Len(p) \in Nat /\ DOMAIN p = 1..Len(p)
      /\ \A i \in 1..(Len(p) - 1) : i + back \in 1..Len(h) /\ p[i] = h[i + back]
  <2>1. CASE Len(h) < n
    <3>1. p = Append(h, t) /\ back = 0
      BY <2>1 DEF Push
    <3>. HIDE DEF p, back
    <3>2. p \in Seq(Nat) /\ Len(p) = Len(h) + 1 /\ \A i \in 1..Len(h) : p[i] = h[i]
      BY <1>1, <3>1
    <3>. QED BY <1>1, <3>1, <3>2
  <2>2. CASE Len(h) = n
    <3>1. Tail(h) \in Seq(Nat) /\ Len(Tail(h)) = n - 1
          /\ \A i \in 1..(n - 1) : Tail(h)[i] = h[i + 1]
      BY <1>1, <2>2
    <3>2. p = Append(Tail(h), t) /\ back = 1
      BY <2>2 DEF Push
    <3>. HIDE DEF p, back
    <3>3. p \in Seq(Nat) /\ Len(p) = n /\ \A i \in 1..(n - 1) : p[i] = Tail(h)[i]
      BY <3>1, <3>2
    <3>. QED BY <1>1, <2>2, <3>1, <3>2, <3>3
  <2>. HIDE DEF p, back
  <2>3. Len(h) < n \/ Len(h) = n
    <3>1. n \in Int /\ Len(h) \in Int /\ Len(h) <= n
      BY <1>1
    <3>. QED BY <3>1
  <2>. QED BY <2>1, <2>2, <2>3
<1>. HIDE DEF p, back
<1>3. ASSUME NEW i \in Old PROVE i \in 1..(Len(p) - 1) /\ i + back \in S
  BY <1>1, <1>2
<1>4. f \in Injection(Old, S)
  <2>1. f \in [Old -> S]
    BY <1>3
  <2>2. ASSUME NEW i \in Old, NEW j \in Old, f[i] = f[j] PROVE i = j
    <3>1. i \in Int /\ j \in Int /\ back \in Int
      BY <1>3 DEF back
    <3>. QED BY <2>2, <3>1
  <2>. QED BY <2>1, <2>2 DEF Injection, IsInjective
<1>5. S \in SUBSET DOMAIN h /\ Old \in SUBSET DOMAIN p /\ P \subseteq Old \cup {Len(p)}
  OBVIOUS
<1>6. Recent(p, t, span) = Cardinality(P) /\ Recent(h, t, span) = Cardinality(S)
  BY DEF Recent
<1>7. P \in SUBSET DOMAIN p
  OBVIOUS
<1>. HIDE DEF S, P, Old, f
<1>8. /\ IsFiniteSet(S) /\ Cardinality(S) \in Nat
      /\ IsFiniteSet(Old) /\ Cardinality(Old) \in Nat
      /\ Cardinality(P) \in Nat
  BY <1>1, <1>2, <1>5, <1>7, Positions
<1>9. Cardinality(Old) <= Cardinality(S)
  BY <1>4, <1>8, FS_Injection
<1>10. /\ IsFiniteSet(Old \cup {Len(p)})
       /\ Cardinality(Old \cup {Len(p)}) \in {Cardinality(Old), Cardinality(Old) + 1}
  BY <1>8, FS_AddElement
<1>11. Cardinality(P) <= Cardinality(Old \cup {Len(p)})
  BY <1>5, <1>10, FS_Subset
<1>. QED BY <1>6, <1>8, <1>9, <1>10, <1>11 DEF p

LEMMA BackType ==
  ASSUME NEW h \in Seq(Nat), NEW j \in Nat, j < Len(h)
  PROVE  Back(h, j) \in Nat
BY DEF Back

-----------------------------------------------------------------------------
(* Two histories of the same events, h by the firmware's clock t and k by    *)
(* the wall clock r: the n newest entries of h never look older than they    *)
(* are.                                                                      *)
NoOlder(h, t, k, r, n) ==
  \A j \in 0..(Len(k) - 1) : j < n =>
    /\ j < Len(h)
    /\ elapsedS(t, Back(h, j)) <= r - Back(k, j)

(* The firmware's clock may fall back, and gains no more than the wall's.    *)
LEMMA NoOlderLater ==
  ASSUME NEW h \in Seq(Nat), NEW k \in Seq(Nat), NEW n \in Nat,
         NEW t \in Nat, NEW u \in Nat, NEW r \in Nat, NEW s \in Nat, NEW d \in Nat,
         u <= t + d, s >= r + d, NoOlder(h, t, k, r, n)
  PROVE  NoOlder(h, u, k, s, n)
<1>. SUFFICES ASSUME NEW j \in 0..(Len(k) - 1), j < n
              PROVE  j < Len(h) /\ elapsedS(u, Back(h, j)) <= s - Back(k, j)
  BY DEF NoOlder
<1>1. j < Len(h) /\ elapsedS(t, Back(h, j)) <= r - Back(k, j)
  BY DEF NoOlder
<1>2. Back(h, j) \in Nat /\ Back(k, j) \in Nat
  BY <1>1, BackType
<1>3. elapsedS(u, Back(h, j)) <= elapsedS(t, Back(h, j)) + d
  BY <1>2 DEF elapsedS
<1>4. elapsedS(u, Back(h, j)) \in Nat /\ elapsedS(t, Back(h, j)) \in Nat
  BY <1>2 DEF elapsedS
<1>. QED BY <1>1, <1>2, <1>3, <1>4

(* An event enters both. *)
LEMMA NoOlderPush ==
  ASSUME NEW n \in Nat \ {0}, NEW h \in Seq(Nat), Len(h) <= n,
         NEW m \in Nat \ {0}, NEW k \in Seq(Nat), Len(k) <= m,
         NEW t \in Nat, NEW r \in Nat, NEW l \in Nat, l <= n, NoOlder(h, t, k, r, l)
  PROVE  NoOlder(Push(h, t, n), t, Push(k, r, m), r, l)
<1>. DEFINE p == Push(h, t, n)
            q == Push(k, r, m)
<1>1. /\ p \in Seq(Nat) /\ Len(p) = (IF Len(h) < n THEN Len(h) + 1 ELSE n)
      /\ Back(p, 0) = t
      /\ \A j \in 1..(Len(p) - 1) : j - 1 < Len(h) /\ Back(p, j) = Back(h, j - 1)
  BY PushBack
<1>2. /\ q \in Seq(Nat) /\ Len(q) = (IF Len(k) < m THEN Len(k) + 1 ELSE m)
      /\ Back(q, 0) = r
      /\ \A j \in 1..(Len(q) - 1) : j - 1 < Len(k) /\ Back(q, j) = Back(k, j - 1)
  BY PushBack
<1>. HIDE DEF p, q
<1>. SUFFICES ASSUME NEW j \in 0..(Len(q) - 1), j < l
              PROVE  j < Len(p) /\ elapsedS(t, Back(p, j)) <= r - Back(q, j)
  BY DEF NoOlder, p, q
<1>3. CASE j = 0
  BY <1>1, <1>2, <1>3 DEF elapsedS
<1>4. CASE j # 0
  <2>1. j \in 1..(Len(q) - 1) /\ j - 1 \in Nat
    BY <1>2, <1>4
  <2>2. j - 1 \in 0..(Len(k) - 1) /\ Back(q, j) = Back(k, j - 1)
    BY <1>2, <2>1
  <2>3. j - 1 < Len(h) /\ elapsedS(t, Back(h, j - 1)) <= r - Back(k, j - 1)
    BY <2>1, <2>2 DEF NoOlder
  <2>4. j \in 1..(Len(p) - 1)
    BY <1>1, <2>1, <2>3
  <2>. QED BY <1>1, <2>2, <2>3, <2>4, SMTT(30)
<1>. QED BY <1>3, <1>4

(* What the firmware counts is then no less than what happened.             *)
LEMMA NoOlderCounts ==
  ASSUME NEW h \in Seq(Nat), NEW k \in Seq(Nat), NEW n \in Nat, NEW m \in Nat \ {0},
         m <= n, NEW t \in Nat, NEW r \in Nat, NEW span \in Nat,
         NoOlder(h, t, k, r, n), Ordered(k, r), Recent(h, t, span) < m
  PROVE  Cardinality({i \in DOMAIN k : r - k[i] < span}) < m
<1>. DEFINE Y == {i \in DOMAIN k : r - k[i] < span}
<1>0. Len(k) \in Nat /\ DOMAIN k = 1..Len(k) /\ \A i \in 1..Len(k) : k[i] \in Nat
  OBVIOUS
<1>1. CASE Len(k) < m
  <2>1. Cardinality(1..Len(k)) = Len(k)
    <3>1. 1 \in Int /\ Len(k) \in Int
          /\ IF 1 > Len(k) THEN Len(k) = 0 ELSE Len(k) - 1 + 1 = Len(k)
      BY <1>0
    <3>. QED BY <3>1, FS_Interval
  <2>2. Y \subseteq DOMAIN k
    OBVIOUS
  <2>. HIDE DEF Y
  <2>3. Cardinality(Y) <= Len(k) /\ Cardinality(Y) \in Nat
    BY <1>0, <2>1, <2>2, Positions
  <2>. QED BY <1>1, <2>3 DEF Y
<1>2. CASE Len(k) >= m
  <2>1. ~(r - Back(k, m - 1) < span)
    <3>. SUFFICES ASSUME r - Back(k, m - 1) < span PROVE FALSE
      OBVIOUS
    <3>1. ASSUME NEW j \in 0..(m - 1)
          PROVE  j < Len(h) /\ elapsedS(t, Back(h, j)) < span
      <4>1. /\ j \in 0..(Len(k) - 1) /\ m - 1 \in 0..(Len(k) - 1)
            /\ j <= m - 1 /\ j < n
        BY <1>0, <1>2
      <4>2. Back(k, m - 1) <= Back(k, j)
        BY <4>1 DEF Ordered
      <4>3. j < Len(h) /\ elapsedS(t, Back(h, j)) <= r - Back(k, j)
        BY <4>1 DEF NoOlder
      <4>4. Back(k, m - 1) \in Nat /\ Back(k, j) \in Nat /\ Back(h, j) \in Nat
        <5>1. j \in Nat /\ m - 1 \in Nat /\ j < Len(k) /\ m - 1 < Len(k)
          BY <1>0, <4>1
        <5>. QED BY <4>3, <5>1, BackType
      <4>5. elapsedS(t, Back(h, j)) \in Int
        BY <4>4 DEF elapsedS
      <4>. QED BY <4>2, <4>3, <4>4, <4>5
    <3>2. m - 1 \in 0..(m - 1) /\ Len(h) \in Nat
      OBVIOUS
    <3>3. m <= Len(h)
      BY <3>1, <3>2
    <3>4. Recent(h, t, span) >= m
      BY <3>1, <3>3, NewestCount
    <3>5. Recent(h, t, span) \in Nat
      BY RecentType
    <3>. QED BY <3>4, <3>5
  <2>2. ASSUME NEW i \in Y PROVE i \in (Len(k) - m + 2)..Len(k)
    <3>. SUFFICES ASSUME i < Len(k) - m + 2 PROVE FALSE
      BY <1>0
    <3>1. /\ i \in 1..Len(k) /\ Len(k) - i \in 0..(Len(k) - 1)
          /\ m - 1 \in 0..(Len(k) - 1) /\ m - 1 <= Len(k) - i
          /\ Len(k) - (Len(k) - i) = i
      BY <1>0, <1>2, SMTT(30)
    <3>2. Back(k, Len(k) - i) <= Back(k, m - 1) /\ Back(k, Len(k) - i) = k[i]
      BY <3>1 DEF Ordered, Back
    <3>3. Back(k, m - 1) \in Nat
      <4>1. m - 1 \in Nat /\ m - 1 < Len(k)
        BY <1>0, <3>1
      <4>. QED BY <4>1, BackType
    <3>4. r - k[i] < span /\ k[i] \in Nat
      BY <1>0, <3>1
    <3>. QED BY <2>1, <3>2, <3>3, <3>4
  <2>3. Y \subseteq (Len(k) - m + 2)..Len(k)
    BY <2>2
  <2>4. /\ IsFiniteSet((Len(k) - m + 2)..Len(k))
        /\ Cardinality((Len(k) - m + 2)..Len(k)) = m - 1
    <3>1. Len(k) - m + 2 \in Int /\ Len(k) \in Int
      BY <1>0
    <3>2. IF Len(k) - m + 2 > Len(k) THEN m - 1 = 0
          ELSE Len(k) - (Len(k) - m + 2) + 1 = m - 1
      BY <1>0, <1>2
    <3>. QED BY <3>1, <3>2, FS_Interval
  <2>5. Y \subseteq DOMAIN k
    OBVIOUS
  <2>. HIDE DEF Y
  <2>6. Cardinality(Y) <= m - 1
    BY <2>3, <2>4, FS_Subset
  <2>7. Cardinality(Y) \in Nat
    BY <2>5, Positions
  <2>. QED BY <2>6, <2>7 DEF Y
<1>. QED BY <1>0, <1>1, <1>2

-----------------------------------------------------------------------------
(* The operators of CompressorGuard return guards and blobs. *)
LEMMA SaveType == ASSUME NEW g \in Guard PROVE save(g) \in Blob
  BY DEF Guard, Blob, save

LEMMA StartedType ==
  ASSUME NEW g \in Guard, NEW t \in Nat PROVE Started(g, t) \in Guard
<1>1. Push(g.startTimes, t, MaxStartHistory) \in History(MaxStartHistory)
  BY GuardConfig, PushKeepsBound DEF Guard
<1>2. QED BY <1>1 DEF Guard, Started, Time

LEMMA StoppedType ==
  ASSUME NEW g \in Guard, NEW t \in Nat PROVE Stopped(g, t) \in Guard
  BY DEF Guard, Stopped, Time

LEMMA NewGuardType == NewGuard \in Guard
  BY GuardConfig, EmptyHistory DEF NewGuard, Guard, Time

LEMMA BootType ==
  ASSUME NEW b \in Blob \cup {NoBlob}, NEW t \in Nat, NEW abnormal \in BOOLEAN,
         NEW jitter \in Nat
  PROVE  bootRestore(b, t, abnormal, jitter) \in Guard
<1> DEFINE g == IF b = NoBlob THEN unknownState(t, jitter)
                              ELSE restoreFromBlob(b, t, jitter)
<1>1. g \in Guard
  <2>1. CASE b = NoBlob
    <3>1. t + BootHoldoffS + jitter \in Nat BY GuardConfig
    <3>2. QED BY <2>1, <3>1, NewGuardType DEF unknownState, Guard
  <2>2. CASE b # NoBlob
    BY <2>2 DEF restoreFromBlob, Guard, Blob, Time
  <2>3. QED BY <2>1, <2>2
<1>2. recordBoot(g, t) \in Guard
  <2>1. Push(g.bootTimes, t, MaxBootHistory) \in History(MaxBootHistory)
    BY <1>1, GuardConfig, PushKeepsBound DEF Guard
  <2>2. QED BY <1>1, <2>1 DEF recordBoot, Guard
<1>3. QED BY <1>1, <1>2 DEF bootRestore

LEMMA CountBootType ==
  ASSUME NEW r \in Resets, NEW t \in Nat, NEW abnormal \in BOOLEAN
  PROVE  countBoot(r, t, abnormal) \in Resets
<1>1. Push(r.times, t, MaxBootHistory) \in History(MaxBootHistory)
  BY GuardConfig, PushKeepsBound DEF Resets
<1>2. QED BY <1>1 DEF countBoot, Resets

-----------------------------------------------------------------------------
(* Every step keeps the types: the constants' assumptions suffice. *)
LEMMA TypeStep == TypeOK /\ [Next]_vars => TypeOK'
<1> SUFFICES ASSUME TypeOK, [Next]_vars PROVE TypeOK'
  OBVIOUS
<1>1. ASSUME NEW down \in 1..MaxDownS, NEW jitter \in 0..MaxJitterS,
             Boot(down, jitter)
      PROVE  TypeOK'
  <2>1. nvs.clk + 1 \in Nat /\ real + down \in Nat /\ jitter \in Nat
    <3>1. nvs.clk \in Nat /\ real \in Nat BY DEF TypeOK
    <3>2. down \in Nat /\ jitter \in Nat BY Constants
    <3>3. QED BY <3>1, <3>2
  <2>2. guard' \in Guard
    BY <1>1, <2>1, BootType DEF Boot, TypeOK
  <2>3. rl' \in Resets
    BY <1>1, <2>1, CountBootType DEF Boot, TypeOK
  <2>4. crashes' \in Seq(Nat)
    <3>1. crashes \in Seq(Nat) /\ real + down \in Nat BY <2>1 DEF TypeOK
    <3>2. ResetLoopCount \in Nat \ {0} BY Constants
    <3>3. Push(crashes, real + down, ResetLoopCount) \in Seq(Nat)
      BY <3>1, <3>2 DEF Push
    <3>4. QED BY <1>1, <3>1, <3>3 DEF Boot
  <2>5. real' \in Nat /\ heldUntil' \in Nat
    <3>1. BootHoldoffS \in Nat BY Constants
    <3>2. real + down + BootHoldoffS \in Nat BY <2>1, <3>1
    <3>3. heldUntil \in Nat BY DEF TypeOK
    <3>4. real' = real + down BY <1>1 DEF Boot
    <3>5. heldUntil' \in {real' + BootHoldoffS, heldUntil} BY <1>1 DEF Boot
    <3>6. QED BY <2>1, <3>2, <3>3, <3>4, <3>5
  <2>6. nvs' \in [cg : Blob \cup {NoBlob}, clk : Nat, rl : Resets]
    BY <1>1, <2>3 DEF Boot, TypeOK
  <2>7. starts' \in Seq(Nat) /\ offAt' \in Time
    BY <1>1 DEF Boot, TypeOK
  <2>8. now' \in Nat /\ shadow' = NewShadow /\ reason' = reason
        /\ up' = TRUE /\ phase' = "idle" /\ armedAt' = NoTime /\ askedAt' = NoTime
    BY <1>1, <2>1 DEF Boot
  <2>9. QED
    BY <2>2, <2>3, <2>4, <2>5, <2>6, <2>7, <2>8 DEF TypeOK, NewShadow, Time
<1>2. NoResets \in Resets
  BY Constants, EmptyHistory DEF Resets, NoResets
<1>3. ASSUME NEW why \in {"power", "abnormal", "software"}, GoDown(why),
             nvs' \in [cg : Blob \cup {NoBlob}, clk : Nat, rl : Resets],
             crashes' \in Seq(Nat)
      PROVE  TypeOK'
  BY <1>2, <1>3, NewGuardType DEF GoDown, TypeOK, NewShadow, Time
<1>4. ASSUME NEW why \in {"power", "abnormal"}, Reset(why) PROVE TypeOK'
  BY <1>3, <1>4 DEF Reset, TypeOK
<1>5. CASE uiClearReducedMode
  <2>1. nvs' \in [cg : Blob \cup {NoBlob}, clk : Nat, rl : Resets]
    BY <1>2, <1>5 DEF uiClearReducedMode, TypeOK
  <2>2. QED BY <1>3, <1>5, <2>1 DEF uiClearReducedMode
<1>6. ASSUME NEW newLayout \in BOOLEAN, NewFirmware(newLayout) PROVE TypeOK'
  <2>1. nvs' \in [cg : Blob \cup {NoBlob}, clk : Nat, rl : Resets]
    BY <1>2, <1>6 DEF NewFirmware, TypeOK
  <2>2. QED BY <1>3, <1>6, <2>1 DEF NewFirmware
<1>7. CASE UserAction
  BY <1>7 DEF UserAction, ControlOnly, TypeOK, Time
<1>8. CASE canStart
  <2>1. guard' \in Guard BY <1>8, StartedType DEF canStart, TypeOK
  <2>2. starts' \in Seq(Nat) BY <1>8 DEF canStart, TypeOK
  <2>3. armedAt' \in Time /\ askedAt' \in Time BY <1>8 DEF canStart, TypeOK, Time
  <2>4. QED BY <1>8, <2>1, <2>2, <2>3 DEF canStart, ControlOnly, TypeOK
<1>9. CASE NoDecision
  BY <1>9 DEF NoDecision, ControlOnly, TypeOK
<1>10. CASE persistOnChange
  BY <1>10, SaveType DEF persistOnChange, history, TypeOK, Guard
<1>11. CASE Tick
  BY <1>11 DEF Tick, TypeOK
<1>12. ASSUME NEW safety \in BOOLEAN, Halt(safety) PROVE TypeOK'
  BY <1>12, StoppedType DEF Halt, ControlOnly, TypeOK, Time
<1>13. CASE UNCHANGED vars
  BY <1>13 DEF vars, ram, history, TypeOK
<1>14. QED
  BY <1>1, <1>4, <1>5, <1>6, <1>7, <1>8, <1>9, <1>10, <1>11, <1>12, <1>13
     DEF Next

(* The device's variables keep their types and its histories their arrays. *)
THEOREM TypeCorrect == Spec => []TypeOK
<1>1. Init => TypeOK
  <2>1. NoResets \in Resets BY Constants, EmptyHistory DEF Resets, NoResets
  <2>2. ASSUME Init PROVE nvs \in [cg : Blob \cup {NoBlob}, clk : Nat, rl : Resets]
    BY <2>1, <2>2 DEF Init
  <2>3. ASSUME Init
        PROVE  shadow \in [running : BOOLEAN, guardSaved : Nat, clockSaved : Nat]
    BY <2>3 DEF Init, NewShadow
  <2>4. ASSUME Init
        PROVE  /\ guard \in Guard /\ rl \in Resets
               /\ armedAt \in Time /\ offAt \in Time /\ askedAt \in Time
               /\ starts \in Seq(Nat) /\ crashes \in Seq(Nat)
    BY <2>1, <2>4, NewGuardType DEF Init, Time
  <2>5. ASSUME Init
        PROVE  /\ up \in BOOLEAN
               /\ reason \in {"power", "abnormal", "software"}
               /\ phase \in {"idle", "persist"}
               /\ now \in Nat /\ real \in Nat /\ heldUntil \in Nat
    BY <2>5 DEF Init
  <2>6. QED BY <2>2, <2>3, <2>4, <2>5 DEF TypeOK
<1>2. QED BY <1>1, TypeStep, PTL DEF Spec

-----------------------------------------------------------------------------
(* A latched lockout and a running compressor exclude each other. *)
THEOREM LatchedMeansOffHolds == Spec => []LatchedMeansOff
<1>1. Init => LatchedMeansOff
  BY DEF Init, NewGuard, NoResets, LatchedMeansOff
<1>2. TypeOK /\ LatchedMeansOff /\ [Next]_vars => LatchedMeansOff'
  <2> SUFFICES ASSUME TypeOK, LatchedMeansOff, [Next]_vars PROVE LatchedMeansOff'
    OBVIOUS
  <2>1. ASSUME NEW down \in 1..MaxDownS, NEW jitter \in 0..MaxJitterS,
               Boot(down, jitter)
        PROVE  LatchedMeansOff'
    <3>1. ASSUME NEW b, NEW t, NEW a PROVE ~bootRestore(b, t, a, jitter).running
      BY DEF bootRestore, recordBoot, restoreFromBlob, unknownState, NewGuard
    <3>2. QED BY <2>1, <3>1 DEF Boot, LatchedMeansOff
  <2>2. ASSUME NEW why, GoDown(why) PROVE LatchedMeansOff'
    BY <2>2 DEF GoDown, NewGuard, LatchedMeansOff
  <2>3. CASE canStart
    BY <2>3 DEF canStart, ControlOnly, StartAllowed, Started, LatchedMeansOff, TypeOK, Guard
  <2>4. ASSUME NEW safety \in BOOLEAN, Halt(safety) PROVE LatchedMeansOff'
    BY <2>4 DEF Halt, ControlOnly, Stopped, LatchedMeansOff, TypeOK, Guard
  <2>5. CASE UNCHANGED <<guard, rl>>
    BY <2>5 DEF LatchedMeansOff
  <2>6. QED
    BY <2>1, <2>2, <2>3, <2>4, <2>5
       DEF Next, vars, ram, history, ControlOnly, Reset, uiClearReducedMode,
           NewFirmware, UserAction, NoDecision, persistOnChange, Tick
<1>3. QED BY <1>1, <1>2, TypeCorrect, PTL DEF Spec

-----------------------------------------------------------------------------
(* The rest between runs.  What makes it inductive: the firmware never       *)
(* thinks that more time has passed since the last stop than has (RamRest,    *)
(* and BlobRest for what a reboot would restore), a running compressor is     *)
(* known to be running in flash before the next reset can happen              *)
(* (RunIsSaved), and the one-shot of a user action ages with the wall clock.  *)
ClockLags == nvs.clk <= now /\ offAt <= real

ArmAges ==
  up /\ armedAt # NoTime =>
    askedAt # NoTime /\ real - askedAt = now - armedAt

RamRest ==
  up /\ ~guard.running /\ offAt # NoTime =>
    /\ guard.lastStop # NoTime
    /\ elapsedS(now, guard.lastStop) <= real - offAt

BlobRest ==
  /\ nvs.cg = NoBlob => offAt = NoTime
  /\ nvs.cg # NoBlob /\ ~nvs.cg.running /\ offAt # NoTime =>
       /\ nvs.cg.lastStop # NoTime
       /\ elapsedS(now, nvs.cg.lastStop) <= real - offAt

RunIsSaved ==
  /\ shadow.running => nvs.cg # NoBlob /\ nvs.cg.running
  /\ up /\ phase = "idle" => shadow.running = guard.running

RestInv == ClockLags /\ ArmAges /\ RamRest /\ BlobRest /\ RunIsSaved

LEMMA RestInit == Init => RestInv
  BY DEF Init, RestInv, ClockLags, ArmAges, RamRest, BlobRest, RunIsSaved,
         NewShadow, NewGuard, NoTime

(* The lagging clock never makes a stop look older than it is. *)
LEMMA ElapsedLags ==
  ASSUME NEW s \in Time, s # NoTime, NEW t \in Nat, NEW u \in Nat,
         NEW d \in Nat, u <= t + d
  PROVE  elapsedS(u, s) <= elapsedS(t, s) + d
  BY DEF elapsedS, Time

LEMMA RestBoot ==
  ASSUME TypeOK, RestInv, NEW down \in 1..MaxDownS, NEW jitter \in 0..MaxJitterS,
         Boot(down, jitter)
  PROVE  RestInv'
<1> DEFINE t == nvs.clk + 1
           g == bootRestore(nvs.cg, t, reason = "abnormal", jitter)
<1>1. /\ t \in Nat /\ now \in Nat /\ real \in Nat /\ offAt \in Time
      /\ now' = t /\ real' = real + down /\ guard' = g /\ offAt' = offAt
      /\ nvs'.cg = nvs.cg /\ nvs'.clk = nvs.clk
      /\ down \in Nat /\ down >= 1
  <2>1. t \in Nat /\ now \in Nat /\ real \in Nat /\ offAt \in Time BY DEF TypeOK
  <2>2. now' = t /\ real' = real + down /\ guard' = g /\ offAt' = offAt BY DEF Boot
  <2>3. nvs'.cg = nvs.cg /\ nvs'.clk = nvs.clk BY DEF Boot, TypeOK
  <2>4. down \in Nat /\ down >= 1 BY Constants
  <2>5. QED BY <2>1, <2>2, <2>3, <2>4
<1>2. t <= now + 1 BY DEF RestInv, ClockLags, TypeOK
<1>3. ClockLags' BY <1>1, <1>2 DEF t, RestInv, ClockLags, TypeOK, Time, NoTime
<1>4. ArmAges' BY DEF Boot, ArmAges
<1>5. /\ g.running = FALSE
      /\ nvs.cg # NoBlob => g.lastStop = IF nvs.cg.running THEN t ELSE nvs.cg.lastStop
  BY DEF bootRestore, recordBoot, restoreFromBlob, unknownState, NewGuard
<1> HIDE DEF t, g
<1>6. ASSUME nvs.cg # NoBlob, ~nvs.cg.running, offAt # NoTime
      PROVE  /\ nvs.cg.lastStop # NoTime
             /\ elapsedS(t, nvs.cg.lastStop) <= real + down - offAt
  <2>1. nvs.cg.lastStop \in Time BY <1>6 DEF TypeOK, Blob
  <2>2. /\ nvs.cg.lastStop # NoTime
        /\ elapsedS(now, nvs.cg.lastStop) <= real - offAt
    BY <1>6 DEF RestInv, BlobRest
  <2>3. elapsedS(t, nvs.cg.lastStop) <= elapsedS(now, nvs.cg.lastStop) + 1
    BY <1>1, <1>2, <2>1, <2>2, ElapsedLags
  <2>4. elapsedS(now, nvs.cg.lastStop) \in Nat /\ elapsedS(t, nvs.cg.lastStop) \in Nat
    BY <1>1, <2>1, <2>2 DEF elapsedS, Time, NoTime
  <2>5. QED BY <1>1, <2>2, <2>3, <2>4 DEF Time, NoTime
<1>7. BlobRest'
  BY <1>1, <1>6 DEF RestInv, BlobRest, elapsedS, Time, NoTime
<1>8. RamRest'
  <2> SUFFICES ASSUME offAt # NoTime
               PROVE  /\ g.lastStop # NoTime
                      /\ elapsedS(t, g.lastStop) <= real + down - offAt
    BY <1>1 DEF RamRest, elapsedS, Time, NoTime
  <2>1. nvs.cg # NoBlob BY DEF RestInv, BlobRest
  <2>2. CASE nvs.cg.running
    <3>1. g.lastStop = t /\ elapsedS(t, t) = 0 /\ t # NoTime
      BY <1>1, <1>5, <2>1, <2>2 DEF elapsedS, NoTime
    <3>2. offAt <= real BY DEF RestInv, ClockLags
    <3>3. QED BY <1>1, <3>1, <3>2 DEF Time, NoTime
  <2>3. CASE ~nvs.cg.running BY <1>5, <1>6, <2>1, <2>3
  <2>4. QED BY <2>2, <2>3
<1>9. RunIsSaved' BY <1>1, <1>5 DEF Boot, RunIsSaved, NewShadow
<1>10. QED BY <1>3, <1>4, <1>7, <1>8, <1>9 DEF RestInv

(* Down between two cycles: a run that ends here is on record in flash. *)
LEMMA RestGoDown ==
  ASSUME TypeOK, RestInv, ~MidCycleReset, NEW why, GoDown(why),
         nvs'.cg = nvs.cg, nvs'.clk = nvs.clk
  PROVE  RestInv'
<1>1. /\ now' = now /\ real' = real /\ up' = FALSE
      /\ now \in Nat /\ real \in Nat /\ offAt \in Time
  BY DEF GoDown, TypeOK
<1>2. guard.running => nvs.cg # NoBlob /\ nvs.cg.running
  BY DEF GoDown, RestInv, RunIsSaved
<1>3. CASE guard.running
  <2>1. offAt' = real BY <1>3 DEF GoDown
  <2>2. BlobRest' BY <1>2, <1>3 DEF BlobRest
  <2>3. ClockLags' BY <1>1, <2>1 DEF RestInv, ClockLags
  <2>4. QED
    BY <1>1, <2>2, <2>3 DEF RestInv, ArmAges, RamRest, RunIsSaved, GoDown, NewShadow
<1>4. CASE ~guard.running
  <2>1. offAt' = offAt BY <1>4 DEF GoDown
  <2>2. BlobRest'
    BY <1>1, <2>1 DEF RestInv, BlobRest, elapsedS, Time, NoTime
  <2>3. QED
    BY <1>1, <2>1, <2>2
       DEF RestInv, ClockLags, ArmAges, RamRest, RunIsSaved, GoDown, NewShadow
<1>5. QED BY <1>3, <1>4

LEMMA RestStart == ASSUME TypeOK, RestInv, canStart PROVE RestInv'
<1>1. /\ now' = now /\ real' = real /\ offAt' = offAt /\ nvs' = nvs
      /\ up' = up /\ shadow' = shadow /\ phase' = "persist"
      /\ guard' = Started(guard, now)
  BY DEF canStart, ControlOnly
<1>2. guard'.running BY <1>1 DEF Started, TypeOK, Guard
<1>3. ArmAges' BY DEF RestInv, ArmAges, canStart, ControlOnly, TypeOK, Time, NoTime
<1>4. BlobRest' BY <1>1 DEF RestInv, BlobRest, elapsedS
<1>5. QED
  BY <1>1, <1>2, <1>3, <1>4 DEF RestInv, ClockLags, RamRest, RunIsSaved

LEMMA RestHalt ==
  ASSUME TypeOK, RestInv, NEW safety \in BOOLEAN, Halt(safety) PROVE RestInv'
<1>1. /\ now' = now /\ real' = real /\ offAt' = real /\ nvs' = nvs
      /\ up' = up /\ shadow' = shadow /\ phase' = "persist"
      /\ armedAt' = armedAt /\ askedAt' = askedAt
      /\ guard' = Stopped(guard, now) /\ guard.running
      /\ now \in Nat /\ real \in Nat
  BY DEF Halt, ControlOnly, TypeOK
<1>2. guard'.lastStop = now /\ elapsedS(now, now) = 0 /\ now # NoTime
  BY <1>1 DEF Stopped, elapsedS, TypeOK, Guard, NoTime
<1>3. RamRest' BY <1>1, <1>2 DEF RamRest, elapsedS
<1>4. nvs.cg # NoBlob /\ nvs.cg.running
  BY DEF Halt, Idle, RestInv, RunIsSaved
<1>5. BlobRest' BY <1>1, <1>4 DEF BlobRest
<1>6. QED
  BY <1>1, <1>3, <1>5 DEF RestInv, ClockLags, ArmAges, RunIsSaved, Time, NoTime

LEMMA RestPersist == ASSUME TypeOK, RestInv, persistOnChange PROVE RestInv'
<1>1. /\ now' = now /\ real' = real /\ offAt' = offAt /\ up' = up /\ up
      /\ guard' = guard /\ armedAt' = armedAt /\ askedAt' = askedAt
      /\ now \in Nat /\ guard \in Guard
  BY DEF persistOnChange, history, TypeOK
<1>2. /\ nvs'.cg \in {nvs.cg, save(guard)}
      /\ nvs'.clk \in {nvs.clk, now}
  BY DEF persistOnChange, TypeOK
<1>3. save(guard) # NoBlob /\ save(guard).running = guard.running
      /\ save(guard).lastStop = guard.lastStop
  BY DEF save, NoBlob
<1>4. BlobRest'
  BY <1>1, <1>2, <1>3 DEF RestInv, BlobRest, RamRest, elapsedS
<1>5. RunIsSaved'
  <2>1. CASE guard.running # shadow.running \/ now - shadow.guardSaved >= GuardSaveS
    BY <1>1, <1>3, <2>1 DEF persistOnChange, RunIsSaved, TypeOK, Guard
  <2>2. CASE ~(guard.running # shadow.running \/ now - shadow.guardSaved >= GuardSaveS)
    BY <1>1, <2>2 DEF persistOnChange, RestInv, RunIsSaved, TypeOK
  <2>3. QED BY <2>1, <2>2
<1>6. ClockLags' BY <1>1, <1>2 DEF RestInv, ClockLags, TypeOK
<1>7. RamRest' BY <1>1 DEF RestInv, RamRest, elapsedS
<1>8. ArmAges' BY <1>1 DEF RestInv, ArmAges
<1>9. QED BY <1>4, <1>5, <1>6, <1>7, <1>8 DEF RestInv

LEMMA RestTick == ASSUME TypeOK, RestInv, Tick PROVE RestInv'
<1>1. /\ now' = now + 1 /\ real' = real + 1 /\ now \in Nat /\ real \in Nat
      /\ up' = up /\ guard' = guard /\ nvs' = nvs /\ offAt' = offAt
      /\ armedAt' = armedAt /\ askedAt' = askedAt /\ shadow' = shadow
      /\ phase' = phase
      /\ offAt \in Time /\ armedAt \in Time /\ askedAt \in Time
  BY DEF Tick, TypeOK
<1>2. RamRest'
  BY <1>1 DEF RestInv, RamRest, elapsedS, TypeOK, Guard, Time, NoTime
<1>3. BlobRest'
  <2>1. nvs.cg # NoBlob => nvs.cg.lastStop \in Time BY DEF TypeOK, Blob
  <2>2. QED BY <1>1, <2>1 DEF RestInv, BlobRest, elapsedS, Time, NoTime
<1>4. ClockLags' BY <1>1 DEF RestInv, ClockLags, TypeOK, Time, NoTime
<1>5. ArmAges' BY <1>1 DEF RestInv, ArmAges, Time, NoTime
<1>6. RunIsSaved' BY <1>1 DEF RestInv, RunIsSaved
<1>7. QED BY <1>2, <1>3, <1>4, <1>5, <1>6 DEF RestInv

(* Nothing that the rest depends on moves, or only the one-shot does. *)
LEMMA RestUserAction == ASSUME TypeOK, RestInv, UserAction PROVE RestInv'
  BY DEF UserAction, ControlOnly, Idle, RestInv, ClockLags, ArmAges, RamRest,
         BlobRest, RunIsSaved, TypeOK, elapsedS, NoTime

LEMMA RestNoDecision ==
  ASSUME TypeOK, RestInv, NoDecision \/ UNCHANGED vars PROVE RestInv'
  BY DEF NoDecision, ControlOnly, Idle, RestInv, ClockLags, ArmAges, RamRest,
         BlobRest, RunIsSaved, vars, ram, history, elapsedS

LEMMA RestStep ==
  ASSUME ~MidCycleReset, ~BlobLoss, TypeOK, RestInv, [Next]_vars PROVE RestInv'
<1>1. ASSUME NEW why, Reset(why) PROVE RestInv'
  BY <1>1, RestGoDown DEF Reset
<1>2. CASE uiClearReducedMode
  <2>1. nvs'.cg = nvs.cg /\ nvs'.clk = nvs.clk
    BY <1>2 DEF uiClearReducedMode, TypeOK
  <2>2. QED BY <1>2, <2>1, RestGoDown DEF uiClearReducedMode
<1>3. ASSUME NEW newLayout \in BOOLEAN, NewFirmware(newLayout) PROVE RestInv'
  <2>1. nvs'.cg = nvs.cg /\ nvs'.clk = nvs.clk
    BY <1>3 DEF NewFirmware, TypeOK
  <2>2. QED BY <1>3, <2>1, RestGoDown DEF NewFirmware
<1>4. QED
  BY <1>1, <1>2, <1>3, RestBoot, RestStart, RestHalt, RestPersist, RestTick,
     RestUserAction, RestNoDecision DEF Next

(* A start that the guard allows is rested or freshly asked for, by the wall *)
(* clock: the firmware's clocks only ever err towards waiting longer.        *)
LEMMA StartIsRested ==
  ASSUME TypeOK, RestInv, canStart, ~guard.running
  PROVE  \/ offAt = NoTime \/ real - offAt >= MinOffS
         \/ askedAt # NoTime /\ real - askedAt <= ManualWindowS
<1>1. CASE armedAt # NoTime /\ now - armedAt <= ManualWindowS
  BY <1>1 DEF canStart, Idle, RestInv, ArmAges
<1>2. CASE ~(armedAt # NoTime /\ now - armedAt <= ManualWindowS)
  <2>1. MinOffServed(guard, now)
    BY <1>2 DEF canStart, StartAllowed
  <2>2. SUFFICES ASSUME offAt # NoTime PROVE real - offAt >= MinOffS
    OBVIOUS
  <2>3. /\ guard.lastStop # NoTime
        /\ elapsedS(now, guard.lastStop) <= real - offAt
        /\ guard.lastStop \in Time /\ now \in Nat /\ real \in Nat /\ offAt \in Time
    BY <2>2 DEF canStart, Idle, RestInv, RamRest, TypeOK, Guard
  <2>4. elapsedS(now, guard.lastStop) >= MinOffS BY <2>1, <2>3 DEF MinOffServed
  <2>5. elapsedS(now, guard.lastStop) \in Nat BY <2>3 DEF elapsedS, Time
  <2>6. QED BY <2>2, <2>3, <2>4, <2>5, Constants DEF Time, NoTime
<1>3. QED BY <1>1, <1>2

(* A reboot cannot erase a pending min-off: as long as resets fall between   *)
(* control cycles and the flash keeps the blob, an automatic start comes     *)
(* MinOffS of wall-clock time after the last stop.  The two assumptions are  *)
(* needed: a reset between a start and its save restores a blob that knows   *)
(* nothing of the run, and guard_holdoff shows what a lost blob leads to.    *)
THEOREM RestHonoured ==
  ASSUME ~MidCycleReset, ~BlobLoss PROVE Spec => RestsBetweenRuns
<1> DEFINE Rested == \/ offAt = NoTime \/ real - offAt >= MinOffS
                     \/ askedAt # NoTime /\ real - askedAt <= ManualWindowS
<1>1. TypeOK /\ RestInv /\ [Next]_vars => RestInv'
  BY RestStep
<1>2. TypeOK /\ RestInv /\ [Next]_vars
        => [~guard.running /\ guard'.running => Rested]_vars
  <2> SUFFICES ASSUME TypeOK, RestInv, [Next]_vars, ~guard.running, guard'.running
               PROVE  Rested
    OBVIOUS
  <2>1. ASSUME NEW down, NEW jitter, Boot(down, jitter) PROVE FALSE
    BY <2>1 DEF Boot, bootRestore, recordBoot, restoreFromBlob, unknownState, NewGuard
  <2>2. ASSUME NEW why, GoDown(why) PROVE FALSE
    BY <2>2 DEF GoDown, NewGuard
  <2>3. ASSUME NEW safety, Halt(safety) PROVE FALSE
    BY <2>3 DEF Halt
  <2>4. CASE canStart BY <2>4, StartIsRested
  <2>5. CASE guard' = guard BY <2>5
  <2>6. QED
    BY <2>1, <2>2, <2>3, <2>4, <2>5
       DEF Next, vars, ram, history, Reset, uiClearReducedMode, NewFirmware,
           UserAction, NoDecision, persistOnChange, Tick
<1>3. QED
  BY <1>1, <1>2, RestInit, TypeCorrect, PTL DEF Spec, RestsBetweenRuns


-----------------------------------------------------------------------------
(* KeepsPromise.  Besides the rest: the guard's history of starts, in RAM    *)
(* and in flash, never looks older than the starts were (RamStarts,          *)
(* BlobStarts), so the hour it counts holds at least the true one; and the   *)
(* one-shot is armed exactly while the licence it stands for is unspent.     *)
ArmKnown == up => (armedAt = NoTime <=> askedAt = NoTime)
DownOff  == ~up => ~guard.running

RamStarts ==
  up => NoOlder(guard.startTimes, now, starts, real, MaxStartHistory)

BlobStarts ==
  \/ nvs.cg # NoBlob
     /\ NoOlder(nvs.cg.startTimes, now, starts, real, MaxStartHistory)
  \/ nvs.cg = NoBlob /\ starts = <<>>
  \/ up /\ phase = "persist" /\ guard.running /\ ~shadow.running

StartsInv ==
  ArmKnown /\ DownOff /\ RamStarts /\ BlobStarts /\ Ordered(starts, real)

LEMMA StartsInit == Init => StartsInv
<1>. SUFFICES ASSUME Init PROVE StartsInv
  OBVIOUS
<1>1. up = FALSE /\ starts = <<>> /\ nvs.cg = NoBlob /\ ~guard.running
  BY DEF Init, NewGuard
<1>2. Ordered(starts, real)
  BY <1>1 DEF Ordered
<1>. QED BY <1>1, <1>2 DEF StartsInv, ArmKnown, DownOff, RamStarts, BlobStarts

(* The histories in use are sequences of numbers inside their arrays. *)
LEMMA Histories ==
  ASSUME TypeOK
  PROVE  /\ guard.startTimes \in Seq(Nat) /\ Len(guard.startTimes) <= MaxStartHistory
         /\ nvs.cg # NoBlob => /\ nvs.cg.startTimes \in Seq(Nat)
                               /\ Len(nvs.cg.startTimes) <= MaxStartHistory
         /\ nvs.rl.times \in Seq(Nat) /\ Len(nvs.rl.times) <= MaxBootHistory
         /\ starts \in Seq(Nat) /\ crashes \in Seq(Nat)
         /\ now \in Nat /\ real \in Nat /\ nvs.clk \in Nat
<1>1. guard.startTimes \in History(MaxStartHistory)
  BY DEF TypeOK, Guard
<1>2. nvs.cg # NoBlob => nvs.cg.startTimes \in History(MaxStartHistory)
  BY DEF TypeOK, Blob
<1>3. nvs.rl.times \in History(MaxBootHistory)
  BY DEF TypeOK, Resets
<1>. QED BY <1>1, <1>2, <1>3 DEF History, TypeOK

LEMMA OrderedLater ==
  ASSUME NEW h \in Seq(Nat), NEW t \in Nat, NEW u \in Nat, t <= u, Ordered(h, t)
  PROVE  Ordered(h, u)
<1>1. ASSUME NEW j \in 0..(Len(h) - 1) PROVE Back(h, j) <= u
  <2>1. j \in Nat /\ j < Len(h)
    OBVIOUS
  <2>2. Back(h, j) \in Nat /\ Back(h, j) <= t
    BY <2>1, BackType DEF Ordered
  <2>. QED BY <2>2
<1>. QED BY <1>1 DEF Ordered

LEMMA StartsBoot ==
  ASSUME TypeOK, ClockLags, StartsInv, NEW down \in 1..MaxDownS,
         NEW jitter \in 0..MaxJitterS, Boot(down, jitter)
  PROVE  StartsInv'
<1>. DEFINE t == nvs.clk + 1
            g == bootRestore(nvs.cg, t, reason = "abnormal", jitter)
<1>1. /\ t \in Nat /\ now \in Nat /\ real \in Nat /\ down \in Nat /\ down >= 1
      /\ now' = t /\ real' = real + down /\ guard' = g /\ nvs'.cg = nvs.cg
      /\ ~up /\ up' /\ phase' = "idle" /\ armedAt' = NoTime /\ askedAt' = NoTime
      /\ starts' = IF nvs.cg = NoBlob THEN <<>> ELSE starts
      /\ t <= now + 1
  <2>1. nvs'.cg = nvs.cg
    BY DEF Boot, TypeOK
  <2>2. /\ nvs.clk \in Nat /\ now \in Nat /\ real \in Nat /\ nvs.clk <= now
        /\ down \in Nat /\ down >= 1
    BY Histories, Constants DEF ClockLags
  <2>3. t \in Nat /\ t <= now + 1
    BY <2>2
  <2>. QED BY <2>1, <2>2, <2>3 DEF Boot
<1>2. g.startTimes = IF nvs.cg = NoBlob THEN <<>> ELSE nvs.cg.startTimes
  BY DEF bootRestore, recordBoot, restoreFromBlob, unknownState, NewGuard
<1>. HIDE DEF t, g
<1>3. CASE nvs.cg = NoBlob
  <2>1. NoOlder(g.startTimes, t, starts', real', MaxStartHistory)
    BY <1>1, <1>3 DEF NoOlder
  <2>2. Ordered(starts', real')
    BY <1>1, <1>3 DEF Ordered
  <2>. QED BY <1>1, <1>3, <2>1, <2>2
           DEF StartsInv, ArmKnown, DownOff, RamStarts, BlobStarts
<1>4. CASE nvs.cg # NoBlob
  <2>1. NoOlder(nvs.cg.startTimes, now, starts, real, MaxStartHistory)
    BY <1>1, <1>4 DEF StartsInv, BlobStarts
  <2>2. NoOlder(nvs.cg.startTimes, t, starts, real + down, MaxStartHistory)
    <3>1. /\ 1 \in Nat /\ real + down \in Nat /\ real + down >= real + 1
          /\ MaxStartHistory \in Nat
      BY <1>1, Constants
    <3>2. nvs.cg.startTimes \in Seq(Nat) /\ starts \in Seq(Nat)
      BY <1>4, Histories
    <3>. QED BY <1>1, <2>1, <3>1, <3>2, NoOlderLater
  <2>3. Ordered(starts, real + down)
    BY <1>1, Histories, OrderedLater DEF StartsInv
  <2>. QED BY <1>1, <1>2, <1>4, <2>2, <2>3
           DEF StartsInv, ArmKnown, DownOff, RamStarts, BlobStarts
<1>. QED BY <1>3, <1>4

LEMMA StartsGoDown ==
  ASSUME TypeOK, StartsInv, ~MidCycleReset, NEW why, GoDown(why), nvs'.cg = nvs.cg
  PROVE  StartsInv'
<1>1. /\ now' = now /\ real' = real /\ starts' = starts /\ ~up' /\ ~guard'.running
      /\ up /\ phase = "idle"
  BY DEF GoDown, NewGuard
<1>2. Ordered(starts', real') <=> Ordered(starts, real)
  BY <1>1
<1>3. BlobStarts'
  BY <1>1 DEF StartsInv, BlobStarts
<1>. QED BY <1>1, <1>2, <1>3 DEF StartsInv, ArmKnown, DownOff, RamStarts

LEMMA StartsStart == ASSUME TypeOK, RestInv, StartsInv, canStart PROVE StartsInv'
<1>1. /\ now' = now /\ real' = real /\ nvs' = nvs /\ up /\ up' /\ phase = "idle"
      /\ shadow' = shadow /\ phase' = "persist" /\ guard' = Started(guard, now)
      /\ starts' = IF guard.running THEN starts ELSE Append(starts, real)
  BY DEF canStart, ControlOnly, Idle
<1>2. guard'.running
  BY <1>1 DEF Started, TypeOK, Guard
<1>3. ArmKnown'
  BY DEF StartsInv, ArmKnown, canStart, ControlOnly, Idle
<1>4. CASE guard.running
  <2>1. guard' = guard /\ starts' = starts
    BY <1>1, <1>4 DEF Started
  <2>2. BlobStarts'
    BY <1>1, <2>1 DEF StartsInv, BlobStarts
  <2>. QED BY <1>1, <1>3, <2>1, <2>2 DEF StartsInv, DownOff, RamStarts, Ordered
<1>5. CASE ~guard.running
  <2>1. /\ guard'.startTimes = Push(guard.startTimes, now, MaxStartHistory)
        /\ starts' = Append(starts, real)
    BY <1>1, <1>5 DEF Started, TypeOK, Guard
  <2>2. /\ Len(starts) + 1 \in Nat \ {0} /\ Len(starts) <= Len(starts) + 1
        /\ Append(starts, real) = Push(starts, real, Len(starts) + 1)
    BY Histories DEF Push
  <2>3. NoOlder(Push(guard.startTimes, now, MaxStartHistory), now,
                Push(starts, real, Len(starts) + 1), real, MaxStartHistory)
    <3>1. NoOlder(guard.startTimes, now, starts, real, MaxStartHistory)
      BY <1>1 DEF StartsInv, RamStarts
    <3>2. MaxStartHistory \in Nat \ {0} /\ MaxStartHistory \in Nat
          /\ MaxStartHistory <= MaxStartHistory
      BY Constants
    <3>. QED BY <2>2, <3>1, <3>2, Histories, NoOlderPush
  <2>4. Ordered(Push(starts, real, Len(starts) + 1), real)
    BY <2>2, Histories, PushOrdered DEF StartsInv
  <2>5. BlobStarts'
    BY <1>1, <1>2, <1>5 DEF BlobStarts, RestInv, RunIsSaved
  <2>. QED BY <1>1, <1>3, <2>1, <2>2, <2>3, <2>4, <2>5
           DEF StartsInv, DownOff, RamStarts
<1>. QED BY <1>4, <1>5

LEMMA StartsPersist ==
  ASSUME TypeOK, StartsInv, persistOnChange PROVE StartsInv'
<1>1. /\ now' = now /\ real' = real /\ starts' = starts /\ up' = up /\ up
      /\ guard' = guard /\ armedAt' = armedAt /\ askedAt' = askedAt
      /\ phase' = "idle"
  BY DEF persistOnChange, history
<1>2. \/ nvs'.cg = save(guard)
      \/ nvs'.cg = nvs.cg /\ guard.running = shadow.running
  BY DEF persistOnChange, TypeOK, Guard
<1>3. save(guard) # NoBlob /\ save(guard).startTimes = guard.startTimes
  BY DEF save, NoBlob
<1>4. BlobStarts'
  <2>1. CASE nvs'.cg = save(guard)
    BY <1>1, <1>3, <2>1 DEF StartsInv, RamStarts, BlobStarts
  <2>2. CASE nvs'.cg = nvs.cg /\ guard.running = shadow.running
    BY <1>1, <2>2 DEF StartsInv, BlobStarts
  <2>. QED BY <1>2, <2>1, <2>2
<1>. QED BY <1>1, <1>4 DEF StartsInv, ArmKnown, DownOff, RamStarts, Ordered

LEMMA StartsTick == ASSUME TypeOK, StartsInv, Tick PROVE StartsInv'
<1>1. /\ now' = now + 1 /\ real' = real + 1 /\ starts' = starts /\ up' = up
      /\ guard' = guard /\ nvs' = nvs /\ phase' = phase /\ shadow' = shadow
      /\ armedAt' = armedAt /\ askedAt' = askedAt /\ up /\ phase = "idle"
  BY DEF Tick, Idle
<1>2. ASSUME NEW h \in Seq(Nat), NoOlder(h, now, starts, real, MaxStartHistory)
      PROVE  NoOlder(h, now + 1, starts, real + 1, MaxStartHistory)
  <2>1. /\ 1 \in Nat /\ now \in Nat /\ real \in Nat /\ MaxStartHistory \in Nat
        /\ starts \in Seq(Nat)
    BY Histories, Constants
  <2>2. /\ now + 1 \in Nat /\ real + 1 \in Nat /\ now + 1 <= now + 1
        /\ real + 1 >= real + 1
    BY <2>1
  <2>. QED BY <1>2, <2>1, <2>2, NoOlderLater
<1>3. RamStarts'
  BY <1>1, <1>2, Histories DEF StartsInv, RamStarts
<1>4. BlobStarts'
  BY <1>1, <1>2, Histories DEF StartsInv, BlobStarts
<1>5. Ordered(starts, real + 1)
  BY Histories, OrderedLater DEF StartsInv
<1>. QED BY <1>1, <1>3, <1>4, <1>5 DEF StartsInv, ArmKnown, DownOff

(* Nothing the counts depend on moves. *)
LEMMA StartsOther ==
  ASSUME TypeOK, StartsInv,
         \/ UserAction \/ NoDecision \/ UNCHANGED vars
         \/ \E safety \in BOOLEAN : Halt(safety)
  PROVE  StartsInv'
<1>1. /\ now' = now /\ real' = real /\ starts' = starts /\ up' = up /\ nvs' = nvs
      /\ shadow' = shadow
      /\ guard'.startTimes = guard.startTimes
      /\ guard'.running => guard.running
  BY DEF UserAction, NoDecision, Halt, ControlOnly, vars, ram, history, Stopped,
         TypeOK, Guard
<1>2. ArmKnown'
  <2>1. CASE UserAction
    BY <2>1 DEF UserAction, ControlOnly, ArmKnown, NoTime, TypeOK
  <2>2. CASE armedAt' = armedAt /\ askedAt' = askedAt
    BY <1>1, <2>2 DEF StartsInv, ArmKnown
  <2>. QED BY <2>1, <2>2 DEF NoDecision, Halt, vars, ram, history
<1>3. BlobStarts'
  <2>1. CASE up /\ phase = "idle"
    BY <1>1, <2>1 DEF StartsInv, BlobStarts
  <2>2. CASE UNCHANGED vars
    BY <2>2 DEF StartsInv, BlobStarts, vars, ram, history
  <2>. QED BY <2>1, <2>2 DEF UserAction, NoDecision, Halt, Idle
<1>. QED BY <1>1, <1>2, <1>3 DEF StartsInv, DownOff, RamStarts, Ordered

LEMMA StartsStep ==
  ASSUME ~MidCycleReset, ~BlobLoss, TypeOK, RestInv, StartsInv, [Next]_vars
  PROVE  StartsInv'
<1>1. ASSUME NEW why, Reset(why) PROVE StartsInv'
  BY <1>1, StartsGoDown DEF Reset
<1>2. CASE uiClearReducedMode
  <2>1. nvs'.cg = nvs.cg
    BY <1>2 DEF uiClearReducedMode, TypeOK
  <2>. QED BY <1>2, <2>1, StartsGoDown DEF uiClearReducedMode
<1>3. ASSUME NEW newLayout \in BOOLEAN, NewFirmware(newLayout) PROVE StartsInv'
  <2>1. nvs'.cg = nvs.cg
    BY <1>3 DEF NewFirmware, TypeOK
  <2>. QED BY <1>3, <2>1, StartsGoDown DEF NewFirmware
<1>. QED
  BY <1>1, <1>2, <1>3, StartsBoot, StartsStart, StartsPersist, StartsTick, StartsOther
     DEF Next, RestInv

(* A start leaves room in the true hour and is rested or freshly asked for.  *)
LEMMA StartIsAllowed ==
  ASSUME TypeOK, RestInv, StartsInv, canStart, ~guard.running
  PROVE  Promise!Start
<1>. DEFINE manual == armedAt # NoTime /\ now - armedAt <= ManualWindowS
<1>1. /\ up /\ guard' = Started(guard, now) /\ StartAllowed(guard, now, manual)
      /\ real' = real /\ offAt' = offAt /\ starts' = Append(starts, real)
      /\ askedAt' = IF manual THEN NoTime ELSE askedAt
  BY DEF canStart, ControlOnly, Idle
<1>2. manual <=> Promise!Asked
  <2>1. armedAt = NoTime <=> askedAt = NoTime
    BY <1>1 DEF StartsInv, ArmKnown
  <2>2. armedAt # NoTime => real - askedAt = now - armedAt
    BY <1>1 DEF RestInv, ArmAges
  <2>. QED BY <2>1, <2>2 DEF Promise!Asked, Promise!NoTime, NoTime
<1>3. Promise!Rested \/ Promise!Asked
  BY StartIsRested DEF Promise!Rested, Promise!Asked, Promise!NoTime, NoTime
<1>4. Promise!StartsInTheHour < MaxStartsPerHour
  <2>1. Recent(guard.startTimes, now, HourS) < MaxStartsPerHour
    BY <1>1 DEF StartAllowed, startsInWindow
  <2>2. NoOlder(guard.startTimes, now, starts, real, MaxStartHistory)
    BY <1>1 DEF StartsInv, RamStarts
  <2>3. /\ MaxStartsPerHour \in Nat \ {0} /\ MaxStartHistory \in Nat /\ HourS \in Nat
        /\ MaxStartsPerHour <= MaxStartHistory
    BY GuardConfig
  <2>4. Ordered(starts, real)
    BY DEF StartsInv
  <2>5. /\ guard.startTimes \in Seq(Nat) /\ starts \in Seq(Nat)
        /\ now \in Nat /\ real \in Nat
    BY Histories
  <2>6. Cardinality({i \in DOMAIN starts : real - starts[i] < HourS}) < MaxStartsPerHour
    BY <2>1, <2>2, <2>3, <2>4, <2>5, NoOlderCounts
  <2>. QED BY <2>6 DEF Promise!StartsInTheHour, Promise!Cardinality, Cardinality
<1>5. guard'.running
  BY <1>1 DEF Started, TypeOK, Guard
<1>. HIDE DEF manual
<1>. QED BY <1>1, <1>2, <1>3, <1>4, <1>5 DEF Promise!Start, Promise!NoTime, NoTime

(* Every step of the device is a step of the promise, or none.               *)
LEMMA PromiseStep ==
  ASSUME ~MidCycleReset, TypeOK, RestInv, StartsInv, [Next]_vars
  PROVE  [Promise!Next]_(Promise!vars)
<1>1. ASSUME NEW down \in 1..MaxDownS, NEW jitter \in 0..MaxJitterS, Boot(down, jitter)
      PROVE  Promise!Next
  <2>1. down \in 0..MaxReal
    <3>1. down \in Nat /\ real \in Nat /\ MaxReal \in Nat
      BY <1>1, Constants, Histories
    <3>2. real + down <= MaxReal
      BY <1>1 DEF Boot
    <3>. QED BY <3>1, <3>2
  <2>2. ~guard.running /\ ~guard'.running
    BY <1>1 DEF Boot, bootRestore, recordBoot, restoreFromBlob, unknownState,
                NewGuard, StartsInv, DownOff
  <2>3. guard'.running = FALSE /\ guard.running = FALSE
    <3>1. guard'.running \in BOOLEAN /\ guard.running \in BOOLEAN
      <4>1. guard' \in Guard
        BY TypeStep DEF TypeOK
      <4>. QED BY <4>1 DEF TypeOK, Guard
    <3>. QED BY <2>2, <3>1
  <2>4. /\ real' = real + down /\ askedAt' = NoTime /\ offAt' = offAt
        /\ starts' = IF nvs.cg = NoBlob THEN <<>> ELSE starts
    BY <1>1 DEF Boot
  <2>5. Promise!Reboot(down) \/ Promise!Forget(down)
    BY <2>3, <2>4 DEF Promise!Reboot, Promise!Forget, Promise!NoTime, NoTime
  <2>. QED BY <2>1, <2>5 DEF Promise!Next
<1>2. ASSUME NEW why, GoDown(why) PROVE [Promise!Next]_(Promise!vars)
  <2>1. /\ guard'.running = FALSE /\ real' = real /\ starts' = starts
        /\ askedAt' = askedAt /\ offAt' = IF guard.running THEN real ELSE offAt
    BY <1>2 DEF GoDown, NewGuard
  <2>2. CASE guard.running
    BY <2>1, <2>2 DEF Promise!Next, Promise!Stop
  <2>3. CASE ~guard.running
    <3>1. guard.running = FALSE
      BY <2>3 DEF TypeOK, Guard
    <3>. QED BY <2>1, <3>1 DEF Promise!vars
  <2>. QED BY <2>2, <2>3
<1>3. CASE UserAction
  BY <1>3 DEF UserAction, ControlOnly, Promise!Next, Promise!UserAsks
<1>4. CASE canStart /\ ~guard.running
  BY <1>4, StartIsAllowed DEF Promise!Next
<1>5. CASE canStart /\ guard.running
  <2>1. /\ guard' = guard /\ real' = real /\ starts' = starts /\ offAt' = offAt
        /\ askedAt' \in {NoTime, askedAt}
    BY <1>5 DEF canStart, ControlOnly, Started
  <2>. QED BY <2>1 DEF Promise!Next, Promise!Spend, Promise!vars, Promise!NoTime, NoTime
<1>6. ASSUME NEW safety \in BOOLEAN, Halt(safety) PROVE Promise!Next
  <2>1. /\ guard.running /\ guard'.running = FALSE /\ offAt' = real
        /\ real' = real /\ starts' = starts /\ askedAt' = askedAt
    BY <1>6 DEF Halt, ControlOnly, Stopped, TypeOK, Guard
  <2>. QED BY <2>1 DEF Promise!Next, Promise!Stop
<1>7. CASE Tick
  <2>1. /\ guard' = guard /\ real' = real + 1 /\ starts' = starts /\ offAt' = offAt
        /\ askedAt' = askedAt /\ 1 \in 0..MaxReal
    BY <1>7, Constants DEF Tick, TypeOK
  <2>. QED BY <2>1 DEF Promise!Next, Promise!TimePasses
<1>8. CASE NoDecision \/ persistOnChange \/ UNCHANGED vars
  <2>1. guard' = guard /\ UNCHANGED <<real, offAt, starts, askedAt>>
    BY <1>8 DEF NoDecision, ControlOnly, persistOnChange, vars, ram, history
  <2>. QED BY <2>1 DEF Promise!vars
<1>. QED
  BY <1>1, <1>2, <1>3, <1>4, <1>5, <1>6, <1>7, <1>8
     DEF Next, Reset, uiClearReducedMode, NewFirmware

(* The device keeps the promise of AntiShortCycle: over any sequence of      *)
(* resets and outages, with a clock that falls behind and a blob saved now   *)
(* and then, the compressor rests MinOffS between runs unless a person has   *)
(* just asked, and starts at most MaxStartsPerHour times in any hour.        *)
THEOREM PromiseKept == ASSUME ~MidCycleReset, ~BlobLoss PROVE Spec => KeepsPromise
<1>1. TypeOK /\ RestInv /\ StartsInv /\ [Next]_vars => RestInv' /\ StartsInv'
  BY RestStep, StartsStep
<1>2. TypeOK /\ RestInv /\ StartsInv /\ [Next]_vars => [Promise!Next]_(Promise!vars)
  BY PromiseStep
<1>3. Init => Promise!Init
  BY DEF Init, Promise!Init, NewGuard, Promise!NoTime, NoTime
<1>. QED
  BY <1>1, <1>2, <1>3, RestInit, StartsInit, TypeCorrect, PTL
     DEF Spec, KeepsPromise, Promise!Spec

-----------------------------------------------------------------------------
(* Reset loops.  The boots in flash never look older than the abnormal boots  *)
(* were, so ResetLoopCount of these inside the window are counted there; and  *)
(* what flash holds is what RAM holds while the device is up.                *)
RamResets == up => rl = nvs.rl

CrashesKnown ==
  /\ Len(crashes) <= ResetLoopCount
  /\ NoOlder(nvs.rl.times, now, crashes, real, ResetLoopCount)
  /\ Ordered(crashes, real)

CrashesLatch ==
  /\ Len(crashes) = ResetLoopCount
  /\ crashes[ResetLoopCount] - crashes[1] <= ResetLoopWindowS
  => nvs.rl.latched

ResetsInv == RamResets /\ CrashesKnown /\ CrashesLatch

LEMMA NoCrashes ==
  ASSUME NEW h, NEW t, NEW r PROVE NoOlder(h, t, <<>>, r, ResetLoopCount)
BY DEF NoOlder

LEMMA ResetsInit == Init => ResetsInv
<1>. SUFFICES ASSUME Init PROVE ResetsInv
  OBVIOUS
<1>1. up = FALSE /\ crashes = <<>>
  BY DEF Init
<1>2. Len(crashes) = 0 /\ ResetLoopCount > 0
  BY <1>1, Constants
<1>3. Ordered(crashes, real)
  BY <1>1 DEF Ordered
<1>. QED BY <1>1, <1>2, <1>3, NoCrashes, Constants
         DEF ResetsInv, RamResets, CrashesKnown, CrashesLatch

(* An abnormal boot is counted with its age as the device knows it.          *)
LEMMA CrashCounts ==
  ASSUME TypeOK, ClockLags, ResetsInv, NEW down \in 1..MaxDownS,
         NEW jitter \in 0..MaxJitterS, Boot(down, jitter), reason = "abnormal"
  PROVE  CrashesKnown' /\ CrashesLatch'
<1>. DEFINE t == nvs.clk + 1
            r == real + down
            times == Push(nvs.rl.times, t, MaxBootHistory)
            boots == Push(crashes, r, ResetLoopCount)
<1>1. /\ nvs.clk \in Nat /\ now \in Nat /\ real \in Nat /\ nvs.clk <= now
      /\ down \in Nat /\ down >= 1
  BY Histories, Constants DEF ClockLags
<1>2. /\ t \in Nat /\ r \in Nat /\ t <= now + 1 /\ r >= real + 1 /\ 1 \in Nat
      /\ ResetLoopCount \in Nat \ {0} /\ ResetLoopCount \in Nat
      /\ MaxBootHistory \in Nat \ {0} /\ ResetLoopCount <= MaxBootHistory
      /\ ResetLoopWindowS + 1 \in Nat
  BY <1>1, GuardConfig, LifecycleConfig
<1>3. /\ nvs.rl.times \in Seq(Nat) /\ Len(nvs.rl.times) <= MaxBootHistory
      /\ crashes \in Seq(Nat) /\ Len(crashes) <= ResetLoopCount
  BY Histories DEF ResetsInv, CrashesKnown
<1>4. /\ now' = t /\ real' = r /\ crashes' = boots
      /\ nvs'.rl = [times |-> times,
                    latched |-> \/ nvs.rl.latched
                                \/ Recent(times, t, ResetLoopWindowS + 1) >= ResetLoopCount]
  <2>1. nvs'.rl = countBoot(nvs.rl, t, TRUE)
    BY DEF Boot, TypeOK
  <2>. QED BY <2>1 DEF Boot, countBoot
<1>. HIDE DEF t, r
<1>5. NoOlder(nvs.rl.times, t, crashes, r, ResetLoopCount)
  <2>1. NoOlder(nvs.rl.times, now, crashes, real, ResetLoopCount)
    BY DEF ResetsInv, CrashesKnown
  <2>. QED BY <1>1, <1>2, <1>3, <2>1, NoOlderLater
<1>6. NoOlder(times, t, boots, r, ResetLoopCount)
  BY <1>2, <1>3, <1>5, NoOlderPush
<1>7. /\ times \in Seq(Nat) /\ boots \in Seq(Nat)
      /\ Len(boots) <= ResetLoopCount
      /\ Back(boots, 0) = r
  <2>1. times \in Seq(Nat)
    BY <1>2, <1>3, PushBack
  <2>2. /\ boots \in Seq(Nat) /\ Back(boots, 0) = r
        /\ Len(boots) = IF Len(crashes) < ResetLoopCount
                        THEN Len(crashes) + 1 ELSE ResetLoopCount
    BY <1>2, <1>3, PushBack
  <2>. HIDE DEF times, boots
  <2>3. Len(boots) <= ResetLoopCount
    BY <1>2, <1>3, <2>2
  <2>. QED BY <2>1, <2>2, <2>3
<1>8. Ordered(boots, r)
  <2>1. Ordered(crashes, r)
    <3>1. Ordered(crashes, real) /\ real <= r
      BY <1>1, <1>2 DEF ResetsInv, CrashesKnown
    <3>. QED BY <1>1, <1>2, <1>3, <3>1, OrderedLater
  <2>. QED BY <1>2, <1>3, <2>1, PushOrdered
<1>. HIDE DEF times, boots
<1>9. CrashesKnown'
  BY <1>4, <1>6, <1>7, <1>8 DEF CrashesKnown
<1>10. ASSUME Len(boots) = ResetLoopCount,
              boots[ResetLoopCount] - boots[1] <= ResetLoopWindowS
       PROVE  Recent(times, t, ResetLoopWindowS + 1) >= ResetLoopCount
  <2>1. boots[ResetLoopCount] = r /\ boots[1] = Back(boots, ResetLoopCount - 1)
    BY <1>2, <1>7, <1>10 DEF Back
  <2>2. ASSUME NEW j \in 0..(ResetLoopCount - 1)
        PROVE  j < Len(times) /\ elapsedS(t, Back(times, j)) < ResetLoopWindowS + 1
    <3>1. /\ j \in 0..(Len(boots) - 1) /\ ResetLoopCount - 1 \in 0..(Len(boots) - 1)
          /\ j <= ResetLoopCount - 1 /\ j < ResetLoopCount
          /\ j \in Nat /\ j < Len(boots) /\ ResetLoopCount - 1 < Len(boots)
          /\ ResetLoopCount - 1 \in Nat
      BY <1>2, <1>10
    <3>2. j < Len(times) /\ elapsedS(t, Back(times, j)) <= r - Back(boots, j)
      BY <1>6, <3>1 DEF NoOlder
    <3>3. Back(boots, ResetLoopCount - 1) <= Back(boots, j)
      BY <1>8, <3>1 DEF Ordered
    <3>4. /\ Back(boots, j) \in Nat /\ Back(boots, ResetLoopCount - 1) \in Nat
          /\ Back(times, j) \in Nat
      BY <1>7, <3>1, <3>2, BackType
    <3>5. elapsedS(t, Back(times, j)) \in Nat
      BY <1>2, <3>4 DEF elapsedS
    <3>6. r - Back(boots, ResetLoopCount - 1) <= ResetLoopWindowS
      BY <1>10, <2>1
    <3>7. ResetLoopWindowS \in Nat
      BY GuardConfig
    <3>. QED BY <1>2, <3>2, <3>3, <3>4, <3>5, <3>6, <3>7
  <2>3. ResetLoopCount <= Len(times)
    <3>1. ResetLoopCount - 1 \in 0..(ResetLoopCount - 1) /\ Len(times) \in Nat
      BY <1>2, <1>7
    <3>. QED BY <1>2, <2>2, <3>1
  <2>. QED BY <1>2, <1>7, <2>2, <2>3, NewestCount
<1>11. CrashesLatch'
  BY <1>4, <1>10 DEF CrashesLatch
<1>. QED BY <1>9, <1>11

LEMMA ResetsBoot ==
  ASSUME TypeOK, ClockLags, ResetsInv, NEW down \in 1..MaxDownS,
         NEW jitter \in 0..MaxJitterS, Boot(down, jitter)
  PROVE  ResetsInv'
<1>1. RamResets'
  BY DEF Boot, RamResets, TypeOK
<1>2. CASE reason = "abnormal"
  BY <1>1, <1>2, CrashCounts DEF ResetsInv
<1>3. CASE reason # "abnormal"
  <2>1. /\ now' = nvs.clk + 1 /\ real' = real + down /\ crashes' = crashes
        /\ nvs'.rl = nvs.rl
    BY <1>3 DEF Boot, countBoot, TypeOK
  <2>2. /\ nvs.clk + 1 \in Nat /\ real + down \in Nat /\ now \in Nat /\ real \in Nat
        /\ nvs.clk + 1 <= now + 1 /\ real + down >= real + 1 /\ real <= real + down
        /\ 1 \in Nat /\ ResetLoopCount \in Nat
    <3>1. /\ nvs.clk \in Nat /\ now \in Nat /\ real \in Nat /\ nvs.clk <= now
          /\ down \in Nat /\ down >= 1 /\ ResetLoopCount \in Nat
      BY Histories, Constants DEF ClockLags
    <3>. QED BY <3>1
  <2>3. NoOlder(nvs.rl.times, nvs.clk + 1, crashes, real + down, ResetLoopCount)
    <3>. DEFINE t == nvs.clk + 1
                r == real + down
    <3>1. /\ nvs.rl.times \in Seq(Nat) /\ crashes \in Seq(Nat)
          /\ NoOlder(nvs.rl.times, now, crashes, real, ResetLoopCount)
      BY Histories DEF ResetsInv, CrashesKnown
    <3>2. t \in Nat /\ r \in Nat /\ t <= now + 1 /\ r >= real + 1
      BY <2>2
    <3>. HIDE DEF t, r
    <3>3. NoOlder(nvs.rl.times, t, crashes, r, ResetLoopCount)
      BY <2>2, <3>1, <3>2, NoOlderLater
    <3>. QED BY <3>3 DEF t, r
  <2>4. Ordered(crashes, real + down)
    BY <2>2, Histories, OrderedLater DEF ResetsInv, CrashesKnown
  <2>. QED BY <1>1, <2>1, <2>3, <2>4 DEF ResetsInv, CrashesKnown, CrashesLatch
<1>. QED BY <1>2, <1>3

LEMMA ResetsTick == ASSUME TypeOK, ResetsInv, Tick PROVE ResetsInv'
<1>1. /\ now' = now + 1 /\ real' = real + 1 /\ crashes' = crashes /\ nvs' = nvs
      /\ up' = up /\ rl' = rl
  BY DEF Tick
<1>2. /\ now + 1 \in Nat /\ real + 1 \in Nat /\ now \in Nat /\ real \in Nat
      /\ now + 1 <= now + 1 /\ real + 1 >= real + 1 /\ real <= real + 1
      /\ 1 \in Nat /\ ResetLoopCount \in Nat
  BY Histories, Constants
<1>3. NoOlder(nvs.rl.times, now + 1, crashes, real + 1, ResetLoopCount)
  BY <1>2, Histories, NoOlderLater DEF ResetsInv, CrashesKnown
<1>4. Ordered(crashes, real + 1)
  BY <1>2, Histories, OrderedLater DEF ResetsInv, CrashesKnown
<1>. QED BY <1>1, <1>3, <1>4 DEF ResetsInv, RamResets, CrashesKnown, CrashesLatch

LEMMA ResetsStep == ASSUME TypeOK, ClockLags, ResetsInv, [Next]_vars PROVE ResetsInv'
<1>1. ASSUME NEW why, GoDown(why), nvs'.rl = nvs.rl, crashes' = crashes PROVE ResetsInv'
  <2>1. now' = now /\ real' = real /\ ~up'
    BY <1>1 DEF GoDown
  <2>. QED BY <1>1, <2>1 DEF ResetsInv, RamResets, CrashesKnown, CrashesLatch, Ordered
<1>2. ASSUME NEW why, GoDown(why), nvs'.rl = NoResets, crashes' = <<>> PROVE ResetsInv'
  <2>1. ~up' /\ Len(crashes') = 0 /\ ResetLoopCount > 0 /\ Ordered(crashes', real')
    BY <1>2, Constants DEF GoDown, Ordered
  <2>. QED BY <1>2, <2>1, NoCrashes, Constants
           DEF ResetsInv, RamResets, CrashesKnown, CrashesLatch
<1>3. ASSUME NEW why, Reset(why) PROVE ResetsInv'
  BY <1>1, <1>3 DEF Reset
<1>4. CASE uiClearReducedMode
  BY <1>2, <1>4 DEF uiClearReducedMode, TypeOK
<1>5. ASSUME NEW newLayout, NewFirmware(newLayout) PROVE ResetsInv'
  BY <1>2, <1>5 DEF NewFirmware, TypeOK
<1>6. ASSUME /\ nvs'.rl = nvs.rl /\ crashes' = crashes /\ now' = now /\ real' = real
             /\ up' = up /\ rl' = rl
      PROVE  ResetsInv'
  BY <1>6 DEF ResetsInv, RamResets, CrashesKnown, CrashesLatch, Ordered
<1>7. CASE persistOnChange
  BY <1>6, <1>7 DEF persistOnChange, history, TypeOK
<1>. QED
  BY <1>3, <1>4, <1>5, <1>6, <1>7, ResetsBoot, ResetsTick
     DEF Next, UserAction, canStart, NoDecision, Halt, ControlOnly, vars, ram, history

(* The saved clock never leads and no stop lies ahead; this needs no more,   *)
(* so it holds with resets inside a cycle and lost blobs as well.            *)
LEMMA ClockStep == ASSUME TypeOK, ClockLags, [Next]_vars PROVE ClockLags'
<1>0. /\ nvs.clk \in Nat /\ now \in Nat /\ real \in Nat /\ offAt \in Time
      /\ nvs.clk <= now /\ offAt <= real
  BY DEF TypeOK, ClockLags
<1>1. ASSUME NEW down \in 1..MaxDownS, NEW jitter, Boot(down, jitter) PROVE ClockLags'
  <2>1. /\ nvs'.clk = nvs.clk /\ now' = nvs.clk + 1 /\ real' = real + down
        /\ offAt' = offAt /\ down \in Nat
    BY <1>1, Constants, SMTT(30) DEF Boot, TypeOK
  <2>. QED BY <1>0, <2>1 DEF ClockLags, Time, NoTime
<1>2. ASSUME NEW why, GoDown(why), nvs'.clk = nvs.clk PROVE ClockLags'
  BY <1>0, <1>2 DEF GoDown, ClockLags
<1>3. ASSUME NEW why, Reset(why) PROVE ClockLags'
  BY <1>2, <1>3 DEF Reset
<1>4. CASE uiClearReducedMode
  BY <1>2, <1>4 DEF uiClearReducedMode, TypeOK
<1>5. ASSUME NEW newLayout, NewFirmware(newLayout) PROVE ClockLags'
  BY <1>2, <1>5 DEF NewFirmware, TypeOK
<1>6. ASSUME NEW safety, Halt(safety) PROVE ClockLags'
  BY <1>0, <1>6 DEF Halt, ControlOnly, ClockLags
<1>7. CASE persistOnChange
  BY <1>0, <1>7 DEF persistOnChange, history, ClockLags, TypeOK
<1>8. CASE Tick
  BY <1>0, <1>8 DEF Tick, ClockLags, Time, NoTime
<1>9. CASE UNCHANGED <<nvs, now, real, offAt>>
  BY <1>0, <1>9 DEF ClockLags
<1>. QED
  BY <1>1, <1>3, <1>4, <1>5, <1>6, <1>7, <1>8, <1>9
     DEF Next, UserAction, canStart, NoDecision, ControlOnly, vars, ram, history

(* A reset loop, by the wall clock, stops the compressor, and only a clear or *)
(* an update frees it, whatever the saved clock lost between the boots, with  *)
(* resets at any moment and with lost blobs.                                  *)
THEOREM ResetLoopStopsHolds == Spec => []ResetLoopStops
<1>1. Init => ClockLags /\ ResetsInv
  BY RestInit, ResetsInit DEF RestInv
<1>2. TypeOK /\ ClockLags /\ ResetsInv /\ [Next]_vars => ClockLags' /\ ResetsInv'
  BY ClockStep, ResetsStep
<1>3. ResetsInv /\ LatchedMeansOff => ResetLoopStops
  BY DEF ResetsInv, RamResets, CrashesLatch, ResetLoopStops, ResetLoopLatches
<1>. QED BY <1>1, <1>2, <1>3, TypeCorrect, LatchedMeansOffHolds, PTL DEF Spec

-----------------------------------------------------------------------------
(* The reported wait.  The guard's history of starts never holds more young   *)
(* starts than the cap when its newest entry is no later than now (Budgeted), *)
(* so the first of them to leave the hour makes room.                         *)
Budgeted(h) == Len(h) > 0 => Recent(h, Back(h, 0), HourS) <= MaxStartsPerHour

BudgetInv ==
  /\ Budgeted(guard.startTimes)
  /\ nvs.cg # NoBlob => Budgeted(nvs.cg.startTimes)
  /\ up => guard.booted

LEMMA BudgetInit == Init => BudgetInv
  BY DEF Init, BudgetInv, Budgeted, NewGuard

LEMMA BudgetPushed ==
  ASSUME NEW h \in History(MaxStartHistory), NEW t \in Nat,
         Recent(h, t, HourS) < MaxStartsPerHour
  PROVE  Budgeted(Push(h, t, MaxStartHistory))
<1>1. /\ MaxStartHistory \in Nat \ {0} /\ HourS \in Nat
      /\ MaxStartsPerHour \in Nat /\ h \in Seq(Nat) /\ Len(h) <= MaxStartHistory
  BY GuardConfig DEF History
<1>2. Push(h, t, MaxStartHistory) \in Seq(Nat) /\ Back(Push(h, t, MaxStartHistory), 0) = t
  BY <1>1, PushBack
<1>3. Recent(Push(h, t, MaxStartHistory), t, HourS) <= Recent(h, t, HourS) + 1
  BY <1>1, PushCounts
<1>4. /\ Recent(h, t, HourS) \in Nat
      /\ Recent(Push(h, t, MaxStartHistory), t, HourS) \in Nat
  BY <1>1, <1>2, RecentType
<1>5. Recent(Push(h, t, MaxStartHistory), t, HourS) <= MaxStartsPerHour
  BY <1>1, <1>3, <1>4
<1>. QED BY <1>2, <1>5 DEF Budgeted

LEMMA BudgetStep == ASSUME TypeOK, BudgetInv, [Next]_vars PROVE BudgetInv'
<1>1. ASSUME NEW down, NEW jitter, Boot(down, jitter) PROVE BudgetInv'
  <2>1. /\ guard' = bootRestore(nvs.cg, nvs.clk + 1, reason = "abnormal", jitter)
        /\ nvs'.cg = nvs.cg
    BY <1>1 DEF Boot, TypeOK
  <2>2. /\ guard'.booted
        /\ guard'.startTimes = IF nvs.cg = NoBlob THEN <<>> ELSE nvs.cg.startTimes
    BY <2>1 DEF bootRestore, recordBoot, restoreFromBlob, unknownState, NewGuard
  <2>. QED BY <2>1, <2>2 DEF BudgetInv, Budgeted
<1>2. ASSUME NEW why, GoDown(why), nvs'.cg \in {nvs.cg, NoBlob} PROVE BudgetInv'
  BY <1>2 DEF GoDown, NewGuard, BudgetInv, Budgeted
<1>3. ASSUME NEW why, Reset(why) PROVE BudgetInv'
  BY <1>2, <1>3 DEF Reset
<1>4. CASE uiClearReducedMode
  BY <1>2, <1>4 DEF uiClearReducedMode, TypeOK
<1>5. ASSUME NEW newLayout, NewFirmware(newLayout) PROVE BudgetInv'
  BY <1>2, <1>5 DEF NewFirmware, TypeOK
<1>6. CASE canStart
  <2>1. /\ guard' = Started(guard, now) /\ nvs' = nvs /\ up' = up
        /\ ~guard.running => Recent(guard.startTimes, now, HourS) < MaxStartsPerHour
    BY <1>6 DEF canStart, ControlOnly, StartAllowed, startsInWindow
  <2>2. /\ guard.startTimes \in History(MaxStartHistory) /\ now \in Nat
        /\ guard \in Guard
    BY DEF TypeOK, Guard
  <2>3. guard'.booted = guard.booted
    BY <2>1, <2>2 DEF Started, Guard
  <2>4. Budgeted(guard'.startTimes)
    <3>1. CASE guard.running
      BY <2>1, <3>1 DEF Started, BudgetInv
    <3>2. CASE ~guard.running
      <4>1. guard'.startTimes = Push(guard.startTimes, now, MaxStartHistory)
        BY <2>1, <2>2, <3>2 DEF Started, Guard
      <4>. QED BY <2>1, <2>2, <3>2, <4>1, BudgetPushed
    <3>. QED BY <3>1, <3>2
  <2>. QED BY <2>1, <2>3, <2>4 DEF BudgetInv
<1>7. ASSUME NEW safety, Halt(safety) PROVE BudgetInv'
  BY <1>7 DEF Halt, ControlOnly, Stopped, BudgetInv, TypeOK, Guard
<1>8. CASE persistOnChange
  BY <1>8 DEF persistOnChange, save, BudgetInv, TypeOK
<1>9. CASE UNCHANGED <<guard, nvs, up>>
  BY <1>9 DEF BudgetInv
<1>. QED
  BY <1>1, <1>3, <1>4, <1>5, <1>6, <1>7, <1>8, <1>9
     DEF Next, UserAction, NoDecision, ControlOnly, Tick, vars, ram, history
(* The wait for room: the first of the young starts to leave the hour.       *)
Room(h, t) ==
  LET left == {HourS - elapsedS(t, h[i]) : i \in DOMAIN h}
  IN {w \in left : w > 0 /\ \A v \in left : v > 0 => w <= v}

LEMMA RoomType ==
  ASSUME NEW h \in Seq(Nat), NEW t \in Nat
  PROVE  /\ \E c \in Int : Room(h, t) \subseteq {c}
         /\ \A w \in Room(h, t) :
              /\ w \in Nat /\ w > 0
              /\ \E i \in DOMAIN h : w = HourS - elapsedS(t, h[i])
              /\ \A i \in DOMAIN h : elapsedS(t, h[i]) < HourS
                                       => w <= HourS - elapsedS(t, h[i])
         /\ Recent(h, t, HourS) > 0 => Room(h, t) # {}
<1>. DEFINE left == {HourS - elapsedS(t, h[i]) : i \in DOMAIN h}
            young == {w \in left : w > 0}
<1>1. /\ HourS \in Nat
      /\ \A i \in DOMAIN h : h[i] \in Nat /\ elapsedS(t, h[i]) \in Nat
  BY Constants DEF elapsedS
<1>2. \A v \in left : v \in Int
  BY <1>1
<1>3. Room(h, t) = {w \in left : w > 0 /\ \A v \in left : v > 0 => w <= v}
  BY DEF Room
<1>4. \E c \in Int : Room(h, t) \subseteq {c}
  <2>. HIDE DEF left
  <2>1. \A x, y \in Room(h, t) : x \in Int /\ y \in Int /\ x <= y /\ y <= x
    BY <1>2, <1>3
  <2>2. \A x, y \in Room(h, t) : x = y
    BY <2>1
  <2>3. CASE Room(h, t) = {}
    BY <2>3
  <2>4. CASE Room(h, t) # {}
    <3>1. PICK c \in Room(h, t) : TRUE
      BY <2>4
    <3>. QED BY <2>1, <2>2, <3>1
  <2>. QED BY <2>3, <2>4
<1>5. ASSUME NEW w \in Room(h, t)
      PROVE  /\ w \in Nat /\ w > 0
             /\ \E i \in DOMAIN h : w = HourS - elapsedS(t, h[i])
             /\ \A i \in DOMAIN h : elapsedS(t, h[i]) < HourS
                                      => w <= HourS - elapsedS(t, h[i])
  <2>1. w \in left /\ w > 0 /\ \A v \in left : v > 0 => w <= v
    BY <1>3
  <2>2. \A i \in DOMAIN h : elapsedS(t, h[i]) < HourS => w <= HourS - elapsedS(t, h[i])
    <3>. SUFFICES ASSUME NEW i \in DOMAIN h, elapsedS(t, h[i]) < HourS
                  PROVE  w <= HourS - elapsedS(t, h[i])
      OBVIOUS
    <3>1. HourS - elapsedS(t, h[i]) \in left /\ HourS - elapsedS(t, h[i]) > 0
      BY <1>1
    <3>. QED BY <2>1, <3>1
  <2>3. \E i \in DOMAIN h : w = HourS - elapsedS(t, h[i])
    BY <2>1
  <2>4. w \in Int
    BY <1>2, <2>1
  <2>. QED BY <2>1, <2>2, <2>3, <2>4
<1>6. ASSUME Recent(h, t, HourS) > 0 PROVE Room(h, t) # {}
  <2>1. PICK i \in DOMAIN h : elapsedS(t, h[i]) < HourS
    <3>. SUFFICES ASSUME \A i \in DOMAIN h : ~(elapsedS(t, h[i]) < HourS) PROVE FALSE
      OBVIOUS
    <3>1. {i \in DOMAIN h : elapsedS(t, h[i]) < HourS} = {}
      OBVIOUS
    <3>2. Recent(h, t, HourS) = 0
      BY <3>1, FS_EmptySet DEF Recent
    <3>. QED BY <1>6, <3>2
  <2>2. HourS - elapsedS(t, h[i]) \in young
    BY <1>1, <2>1
  <2>3. young \in SUBSET Nat
    BY <1>2
  <2>. HIDE DEF young
  <2>4. PICK w \in young : \A v \in young : w <= v
    BY <2>2, <2>3, LeastNatural
  <2>. QED BY <1>3, <2>4 DEF young
<1>. QED BY <1>4, <1>5, <1>6

(* The young starts of now are still young a moment before the first of them *)
(* leaves, and one of them is not when it has.                               *)
LEMMA RoomExact ==
  ASSUME NEW h \in Seq(Nat), NEW t \in Nat, NEW w \in Room(h, t)
  PROVE  /\ Recent(h, t + w - 1, HourS) >= Recent(h, t, HourS)
         /\ \A u \in Nat : u >= t + w /\ (\A i \in DOMAIN h : h[i] <= t)
              => Recent(h, u, HourS) < Recent(h, t, HourS)
<1>. DEFINE Young(u) == {i \in DOMAIN h : elapsedS(u, h[i]) < HourS}
<1>1. /\ w \in Nat /\ w > 0 /\ HourS \in Nat /\ t + w - 1 \in Nat
      /\ \A i \in DOMAIN h : h[i] \in Nat
      /\ \A i \in DOMAIN h : elapsedS(t, h[i]) < HourS
                               => w <= HourS - elapsedS(t, h[i])
  BY RoomType, Constants
<1>2. PICK k \in DOMAIN h : w = HourS - elapsedS(t, h[k])
  BY RoomType
<1>3. \A u : Young(u) \in SUBSET DOMAIN h /\ Recent(h, u, HourS) = Cardinality(Young(u))
  BY DEF Recent
<1>4. Young(t) \subseteq Young(t + w - 1)
  <2>. SUFFICES ASSUME NEW i \in DOMAIN h, elapsedS(t, h[i]) < HourS
                PROVE  elapsedS(t + w - 1, h[i]) < HourS
    OBVIOUS
  <2>1. h[i] \in Nat /\ w <= HourS - elapsedS(t, h[i])
    BY <1>1
  <2>. QED BY <1>1, <2>1 DEF elapsedS
<1>5. ASSUME NEW u \in Nat, u >= t + w, \A i \in DOMAIN h : h[i] <= t
      PROVE  Young(u) \subseteq Young(t) \ {k} /\ k \in Young(t)
  <2>1. \A i \in DOMAIN h : /\ elapsedS(t, h[i]) = t - h[i]
                            /\ elapsedS(u, h[i]) = u - h[i]
                            /\ elapsedS(t, h[i]) <= elapsedS(u, h[i])
    BY <1>1, <1>5 DEF elapsedS
  <2>2. ~(elapsedS(u, h[k]) < HourS) /\ elapsedS(t, h[k]) < HourS
    <3>1. h[k] \in Nat /\ elapsedS(t, h[k]) = t - h[k] /\ elapsedS(u, h[k]) = u - h[k]
      BY <1>1, <2>1
    <3>2. w \in Nat /\ w > 0 /\ HourS \in Nat /\ u >= t + w
      BY <1>1, <1>5
    <3>3. w = HourS - (t - h[k])
      BY <1>2, <3>1
    <3>. QED BY <3>1, <3>2, <3>3, SMTT(30)
  <2>3. \A i \in DOMAIN h : elapsedS(u, h[i]) < HourS => elapsedS(t, h[i]) < HourS
    BY <1>1, <1>5, <2>1
  <2>. QED BY <2>2, <2>3
<1>. HIDE DEF Young
<1>6. Recent(h, t + w - 1, HourS) >= Recent(h, t, HourS)
  <2>1. /\ Cardinality(Young(t)) \in Nat /\ Cardinality(Young(t + w - 1)) \in Nat
        /\ Cardinality(Young(t)) <= Cardinality(Young(t + w - 1))
    BY <1>3, <1>4, Positions
  <2>. QED BY <1>3, <2>1
<1>7. ASSUME NEW u \in Nat, u >= t + w, \A i \in DOMAIN h : h[i] <= t
      PROVE  Recent(h, u, HourS) < Recent(h, t, HourS)
  <2>1. Young(u) \subseteq Young(t) \ {k} /\ k \in Young(t)
    BY <1>5, <1>7
  <2>2. IsFiniteSet(Young(t)) /\ Cardinality(Young(t)) \in Nat
    BY <1>3, Positions
  <2>3. /\ IsFiniteSet(Young(t) \ {k})
        /\ Cardinality(Young(t) \ {k}) = Cardinality(Young(t)) - 1
    BY <2>1, <2>2, FS_RemoveElement
  <2>4. Cardinality(Young(u)) <= Cardinality(Young(t) \ {k})
    BY <2>1, <2>3, FS_Subset
  <2>5. Cardinality(Young(u)) \in Nat
    BY <1>3, Positions
  <2>. QED BY <1>3, <2>2, <2>3, <2>4, <2>5
<1>. QED BY <1>6, <1>7
(* Each gate that denies the start reports how long it stays closed; the      *)
(* longest of them is the wait.                                              *)
LEMMA WaitIsLongest ==
  ASSUME NEW g \in Guard, NEW t \in Nat, NEW manual \in BOOLEAN
  PROVE  /\ waitS(g, t, manual) \in StartWaits(g, t, manual)
         /\ \A v \in StartWaits(g, t, manual) : v <= waitS(g, t, manual)
         /\ waitS(g, t, manual) \in Nat
<1>. DEFINE held  == IF g.booted /\ t < g.holdoffEnd THEN {g.holdoffEnd - t} ELSE {}
            rests == IF ~manual /\ ~MinOffServed(g, t)
                     THEN {MinOffS - elapsedS(t, g.lastStop)} ELSE {}
            full  == IF startsInWindow(g, t) >= MaxStartsPerHour
                     THEN Room(g.startTimes, t) ELSE {}
            W == StartWaits(g, t, manual)
<1>1. W = {0} \cup held \cup rests \cup full
  BY DEF StartWaits, Room
<1>2. /\ g.holdoffEnd \in Nat /\ MinOffS \in Nat /\ g.startTimes \in Seq(Nat)
      /\ (g.lastStop \in Nat \/ g.lastStop = NoTime)
  BY Constants DEF Guard, Time, History
<1>3. ~MinOffServed(g, t) => MinOffS - elapsedS(t, g.lastStop) \in Nat
  BY <1>2 DEF MinOffServed, elapsedS
<1>4. PICK a \in Int : held \subseteq {a}
  <2>1. g.holdoffEnd - t \in Int
    BY <1>2
  <2>. QED BY <2>1
<1>5. PICK b \in Int : rests \subseteq {b}
  <2>1. CASE rests = {}
    BY <2>1
  <2>2. CASE rests # {}
    <3>1. rests = {MinOffS - elapsedS(t, g.lastStop)}
          /\ MinOffS - elapsedS(t, g.lastStop) \in Int
      BY <1>3, <2>2
    <3>. QED BY <3>1
  <2>. QED BY <2>1, <2>2
<1>6. PICK c \in Int : full \subseteq {c}
  <2>1. PICK c \in Int : Room(g.startTimes, t) \subseteq {c}
    BY <1>2, RoomType
  <2>. QED BY <2>1
<1>7. W \in SUBSET {0, a, b, c} /\ 0 \in W
  BY <1>1, <1>4, <1>5, <1>6
<1>7a. \A v \in W : v \in Int
  <2>. HIDE DEF W
  <2>1. a \in Int /\ b \in Int /\ c \in Int /\ 0 \in Int
    BY <1>4, <1>5, <1>6
  <2>. QED BY <1>7, <2>1
<1>. HIDE DEF held, rests, full, W
<1>8. \E w \in W : \A v \in W : v <= w
  BY <1>4, <1>5, <1>6, <1>7, GreatestOfFour
<1>9. waitS(g, t, manual) \in W /\ \A v \in W : v <= waitS(g, t, manual)
  BY <1>8 DEF waitS, W
<1>10. waitS(g, t, manual) \in Int /\ 0 <= waitS(g, t, manual)
  <2>1. waitS(g, t, manual) \in Int
    BY <1>9, <1>7a
  <2>2. 0 <= waitS(g, t, manual)
    BY <1>7, <1>9
  <2>. QED BY <2>1, <2>2
<1>. QED BY <1>9, <1>10 DEF W

LEMMA WaitExact ==
  ASSUME NEW g \in Guard, NEW t \in Nat, NEW manual \in BOOLEAN,
         g.booted, ~g.running, ~g.lockedOut, Budgeted(g.startTimes)
  PROVE  LET w == waitS(g, t, manual)
             stamps == {g.lastStop} \cup {g.startTimes[i] : i \in DOMAIN g.startTimes}
         IN /\ w > 0 => ~StartAllowed(g, t + w - 1, manual)
            /\ (\A s \in stamps : s <= t) => StartAllowed(g, t + w, manual)
<1>. DEFINE w == waitS(g, t, manual)
            h == g.startTimes
<1>1. /\ w \in StartWaits(g, t, manual) /\ w \in Nat
      /\ \A v \in StartWaits(g, t, manual) : v <= w
  BY WaitIsLongest
<1>2. /\ g.holdoffEnd \in Nat /\ MinOffS \in Nat /\ HourS \in Nat
      /\ MaxStartsPerHour \in Nat \ {0} /\ h \in Seq(Nat)
      /\ (g.lastStop \in Nat \/ g.lastStop = NoTime)
  BY Constants, GuardConfig DEF Guard, Time, History
<1>. HIDE DEF w
<1>3. \/ w = 0
      \/ g.booted /\ t < g.holdoffEnd /\ w = g.holdoffEnd - t
      \/ ~manual /\ ~MinOffServed(g, t) /\ w = MinOffS - elapsedS(t, g.lastStop)
      \/ Recent(h, t, HourS) >= MaxStartsPerHour /\ w \in Room(h, t)
  BY <1>1 DEF StartWaits, Room, startsInWindow
<1>4. ASSUME w > 0 PROVE ~StartAllowed(g, t + w - 1, manual)
  <2>1. CASE t < g.holdoffEnd /\ w = g.holdoffEnd - t
    BY <1>2, <2>1 DEF StartAllowed, HoldoffServed
  <2>2. CASE ~manual /\ ~MinOffServed(g, t) /\ w = MinOffS - elapsedS(t, g.lastStop)
    <3>1. ~MinOffServed(g, t + w - 1)
      BY <1>1, <1>2, <1>4, <2>2 DEF MinOffServed, elapsedS
    <3>. QED BY <2>2, <3>1 DEF StartAllowed
  <2>3. CASE Recent(h, t, HourS) >= MaxStartsPerHour /\ w \in Room(h, t)
    <3>1. Recent(h, t + w - 1, HourS) >= Recent(h, t, HourS)
      BY <1>2, <2>3, RoomExact
    <3>2. t + w - 1 \in Nat
      BY <1>1, <1>4
    <3>3. Recent(h, t + w - 1, HourS) \in Nat /\ Recent(h, t, HourS) \in Nat
      BY <1>2, <3>2, RecentType
    <3>4. ~(Recent(h, t + w - 1, HourS) < MaxStartsPerHour)
      BY <1>2, <2>3, <3>1, <3>3
    <3>. QED BY <3>4 DEF StartAllowed, startsInWindow
  <2>. QED BY <1>3, <1>4, <2>1, <2>2, <2>3
<1>5. ASSUME g.lastStop <= t, \A i \in DOMAIN h : h[i] <= t
      PROVE  StartAllowed(g, t + w, manual)
  <2>1. HoldoffServed(g, t + w)
    <3>1. CASE t < g.holdoffEnd
      <4>1. g.holdoffEnd - t \in StartWaits(g, t, manual)
        BY <3>1 DEF StartWaits
      <4>2. g.holdoffEnd - t <= w
        BY <1>1, <4>1
      <4>. QED BY <1>1, <1>2, <4>2 DEF HoldoffServed
    <3>2. CASE ~(t < g.holdoffEnd)
      BY <1>1, <1>2, <3>2 DEF HoldoffServed
    <3>. QED BY <3>1, <3>2
  <2>2. manual \/ MinOffServed(g, t + w)
    <3>1. CASE ~manual /\ ~MinOffServed(g, t)
      <4>1. MinOffS - elapsedS(t, g.lastStop) \in StartWaits(g, t, manual)
        BY <3>1 DEF StartWaits
      <4>2. MinOffS - elapsedS(t, g.lastStop) <= w
        BY <1>1, <4>1
      <4>. QED BY <1>1, <1>2, <1>5, <4>2 DEF MinOffServed, elapsedS
    <3>2. CASE MinOffServed(g, t)
      BY <1>1, <1>2, <1>5, <3>2 DEF MinOffServed, elapsedS
    <3>. QED BY <3>1, <3>2
  <2>3. Recent(h, t + w, HourS) < MaxStartsPerHour
    <3>0. t + w \in Nat /\ t <= t + w
      BY <1>1
    <3>1. Recent(h, t, HourS) \in Nat /\ Recent(h, t + w, HourS) \in Nat
          /\ Recent(h, t + w, HourS) <= Recent(h, t, HourS)
      BY <1>2, <3>0, RecentType, RecentShrinks
    <3>2. CASE Recent(h, t, HourS) < MaxStartsPerHour
      BY <1>2, <3>1, <3>2
    <3>3. CASE Recent(h, t, HourS) >= MaxStartsPerHour
      <4>1. PICK r \in Room(h, t) : TRUE
        BY <1>2, <3>1, <3>3, RoomType
      <4>2. r \in StartWaits(g, t, manual)
        BY <3>3, <4>1 DEF StartWaits, Room, startsInWindow
      <4>3. r \in Nat /\ r <= w
        BY <1>1, <1>2, <4>2, RoomType
      <4>4. Recent(h, t + w, HourS) < Recent(h, t, HourS)
        <5>1. t + w >= t + r
          BY <1>1, <4>3
        <5>. QED BY <1>2, <1>5, <3>0, <5>1, RoomExact
      <4>5. Recent(h, t, HourS) <= MaxStartsPerHour
        <5>1. Len(h) > 0
          <6>. SUFFICES ASSUME Len(h) = 0 PROVE FALSE
            BY <1>2
          <6>1. {i \in DOMAIN h : elapsedS(t, h[i]) < HourS} = {}
            BY <1>2
          <6>2. Recent(h, t, HourS) = 0
            BY <6>1, FS_EmptySet DEF Recent
          <6>. QED BY <1>2, <3>3, <6>2
        <5>2. Back(h, 0) \in Nat /\ Back(h, 0) <= t
          BY <1>2, <1>5, <5>1 DEF Back
        <5>3. Recent(h, Back(h, 0), HourS) <= MaxStartsPerHour
          BY <5>1 DEF Budgeted
        <5>4. /\ Recent(h, t, HourS) <= Recent(h, Back(h, 0), HourS)
              /\ Recent(h, Back(h, 0), HourS) \in Nat
          BY <1>2, <5>2, RecentShrinks, RecentType
        <5>. QED BY <1>2, <3>1, <5>3, <5>4
      <4>. QED BY <1>2, <3>1, <4>4, <4>5
    <3>. QED BY <1>2, <3>1, <3>2, <3>3
  <2>. QED BY <2>1, <2>2, <2>3 DEF StartAllowed, startsInWindow
<1>. QED BY <1>4, <1>5 DEF w

(* The wait a denied start reports is exact, on every device in every state:  *)
(* no start is allowed earlier, and unless the clock fell behind a stamp the  *)
(* start is allowed then.                                                     *)
THEOREM WaitIsExactHolds == Spec => []WaitIsExact
<1>1. TypeOK /\ BudgetInv => WaitIsExact
  <2>. SUFFICES ASSUME TypeOK, BudgetInv, up, ~guard.running, ~guard.lockedOut,
                       NEW manual \in BOOLEAN
                PROVE  LET w == waitS(guard, now, manual)
                           stamps == {guard.lastStop} \cup
                                     {guard.startTimes[i] : i \in DOMAIN guard.startTimes}
                       IN /\ w > 0 => ~StartAllowed(guard, now + w - 1, manual)
                          /\ (\A t \in stamps : t <= now)
                               => StartAllowed(guard, now + w, manual)
    BY DEF WaitIsExact
  <2>1. guard \in Guard /\ now \in Nat /\ guard.booted /\ Budgeted(guard.startTimes)
    BY DEF TypeOK, BudgetInv
  <2>. QED BY <2>1, WaitExact
<1>2. TypeOK /\ BudgetInv /\ [Next]_vars => BudgetInv'
  BY BudgetStep
<1>. QED BY <1>1, <1>2, BudgetInit, TypeCorrect, PTL DEF Spec

-----------------------------------------------------------------------------
(* The rest without the two assumptions.  A reset may fall between a start    *)
(* and its save, and a blob may become unreadable; then the run that the      *)
(* flash knows nothing of is one of no length, or the record begins anew.     *)
(* Recorded says that neither is so of the last run.                          *)
Latest == starts[Len(starts)]
Recorded == starts # <<>> /\ Latest < offAt

(* A run under way began after the last stop; one not yet saved began now.    *)
RunIsFresh ==
  up /\ guard.running =>
    /\ starts # <<>> /\ offAt <= Latest
    /\ ~shadow.running => phase = "persist" /\ Latest = real

RamKnows ==
  up /\ ~guard.running /\ Recorded =>
    /\ guard.lastStop # NoTime
    /\ elapsedS(now, guard.lastStop) <= real - offAt

BlobKnows ==
  /\ up /\ nvs.cg = NoBlob => starts = <<>> \/ guard.running
  /\ nvs.cg # NoBlob /\ ~nvs.cg.running /\ Recorded =>
       /\ nvs.cg.lastStop # NoTime
       /\ elapsedS(now, nvs.cg.lastStop) <= real - offAt

RecordInv == ClockLags /\ ArmAges /\ RunIsSaved /\ RunIsFresh /\ RamKnows /\ BlobKnows

LEMMA RecordInit == Init => RecordInv
  BY DEF Init, RecordInv, ClockLags, ArmAges, RunIsSaved, RunIsFresh, RamKnows, BlobKnows,
         Recorded, NewShadow, NewGuard, NoTime

LEMMA RecordBoot ==
  ASSUME TypeOK, RecordInv, NEW down \in 1..MaxDownS, NEW jitter \in 0..MaxJitterS,
         Boot(down, jitter)
  PROVE  RecordInv'
<1> DEFINE t == nvs.clk + 1
           g == bootRestore(nvs.cg, t, reason = "abnormal", jitter)
<1>1. /\ t \in Nat /\ now \in Nat /\ real \in Nat /\ offAt \in Time
      /\ now' = t /\ real' = real + down /\ guard' = g /\ offAt' = offAt
      /\ nvs'.cg = nvs.cg /\ nvs'.clk = nvs.clk
      /\ down \in Nat /\ down >= 1
  <2>1. t \in Nat /\ now \in Nat /\ real \in Nat /\ offAt \in Time BY DEF TypeOK
  <2>2. now' = t /\ real' = real + down /\ guard' = g /\ offAt' = offAt BY DEF Boot
  <2>3. nvs'.cg = nvs.cg /\ nvs'.clk = nvs.clk BY DEF Boot, TypeOK
  <2>4. down \in Nat /\ down >= 1 BY Constants
  <2>5. QED BY <2>1, <2>2, <2>3, <2>4
<1>2. t <= now + 1 BY DEF RecordInv, ClockLags, TypeOK
<1>3. ClockLags' BY <1>1, <1>2 DEF t, RecordInv, ClockLags, TypeOK, Time, NoTime
<1>4. ArmAges' BY DEF Boot, ArmAges
<1>5. /\ g.running = FALSE
      /\ nvs.cg # NoBlob => g.lastStop = IF nvs.cg.running THEN t ELSE nvs.cg.lastStop
  BY DEF bootRestore, recordBoot, restoreFromBlob, unknownState, NewGuard
<1> HIDE DEF t, g
<1>s. /\ nvs.cg = NoBlob => starts' = <<>>
      /\ nvs.cg # NoBlob => starts' = starts
      /\ Recorded' => Recorded /\ nvs.cg # NoBlob
  BY <1>1 DEF Boot, Recorded, Latest
<1>6. ASSUME nvs.cg # NoBlob, ~nvs.cg.running, Recorded
      PROVE  /\ nvs.cg.lastStop # NoTime
             /\ elapsedS(t, nvs.cg.lastStop) <= real + down - offAt
  <2>1. nvs.cg.lastStop \in Time BY <1>6 DEF TypeOK, Blob
  <2>2. /\ nvs.cg.lastStop # NoTime
        /\ elapsedS(now, nvs.cg.lastStop) <= real - offAt
    BY <1>6 DEF RecordInv, BlobKnows
  <2>3. elapsedS(t, nvs.cg.lastStop) <= elapsedS(now, nvs.cg.lastStop) + 1
    BY <1>1, <1>2, <2>1, <2>2, ElapsedLags
  <2>4. elapsedS(now, nvs.cg.lastStop) \in Nat /\ elapsedS(t, nvs.cg.lastStop) \in Nat
    BY <1>1, <2>1, <2>2 DEF elapsedS, Time, NoTime
  <2>5. QED BY <1>1, <2>2, <2>3, <2>4 DEF Time, NoTime
<1>7. BlobKnows'
  <2>1. ASSUME nvs'.cg # NoBlob, ~nvs'.cg.running, Recorded'
        PROVE  /\ nvs'.cg.lastStop # NoTime
               /\ elapsedS(now', nvs'.cg.lastStop) <= real' - offAt'
    <3>1. nvs.cg # NoBlob /\ ~nvs.cg.running /\ Recorded
      BY <1>1, <1>s, <2>1
    <3>2. /\ nvs.cg.lastStop # NoTime
          /\ elapsedS(t, nvs.cg.lastStop) <= real + down - offAt
      BY <3>1, <1>6
    <3>3. nvs'.cg.lastStop = nvs.cg.lastStop
      BY <1>1
    <3>4. now' = t /\ real' = real + down /\ offAt' = offAt
      BY <1>1
    <3>5. elapsedS(now', nvs'.cg.lastStop) = elapsedS(t, nvs.cg.lastStop)
      BY <3>3, <3>4 DEF elapsedS
    <3>. QED BY <1>1, <3>2, <3>3, <3>4 DEF elapsedS, Time, NoTime
  <2>. QED BY <1>1, <1>s, <2>1 DEF BlobKnows
<1>8. RamKnows'
  <2> SUFFICES ASSUME Recorded'
               PROVE  /\ g.lastStop # NoTime
                      /\ elapsedS(t, g.lastStop) <= real + down - offAt
    BY <1>1 DEF RamKnows, elapsedS, Time, NoTime
  <2>1. nvs.cg # NoBlob /\ Recorded BY <1>s
  <2>2. CASE nvs.cg.running
    <3>1. g.lastStop = t /\ elapsedS(t, t) = 0 /\ t # NoTime
      BY <1>1, <1>5, <2>1, <2>2 DEF elapsedS, NoTime
    <3>2. offAt <= real BY DEF RecordInv, ClockLags
    <3>3. QED BY <1>1, <3>1, <3>2 DEF Time, NoTime
  <2>3. CASE ~nvs.cg.running BY <1>5, <1>6, <2>1, <2>3
  <2>4. QED BY <2>2, <2>3
<1>9. RunIsSaved' BY <1>1, <1>5 DEF Boot, RunIsSaved, NewShadow
<1>10. RunIsFresh' BY <1>1, <1>5 DEF RunIsFresh
<1>11. QED BY <1>3, <1>4, <1>7, <1>8, <1>9, <1>10 DEF RecordInv

(* Down at any moment, also with the blob lost: a run not on record in flash  *)
(* is one that began this very second.                                        *)
LEMMA RecordGoDown ==
  ASSUME TypeOK, RecordInv, NEW why, GoDown(why),
         nvs'.cg = nvs.cg \/ nvs'.cg = NoBlob, nvs'.clk = nvs.clk
  PROVE  RecordInv'
<1>1. /\ now' = now /\ real' = real /\ up' = FALSE /\ starts' = starts
      /\ now \in Nat /\ real \in Nat /\ offAt \in Time /\ up
      /\ offAt' = IF guard.running THEN real ELSE offAt
  BY DEF GoDown, TypeOK
<1>2. BlobKnows'
  <2> SUFFICES ASSUME nvs'.cg # NoBlob, ~nvs'.cg.running, Recorded'
               PROVE  /\ nvs.cg.lastStop # NoTime
                      /\ elapsedS(now, nvs.cg.lastStop) <= real - offAt'
    BY <1>1 DEF BlobKnows
  <2>1. ~guard.running
    <3> SUFFICES ASSUME guard.running PROVE FALSE
      OBVIOUS
    <3>1. ~shadow.running
      BY DEF RecordInv, RunIsSaved
    <3>2. Latest = real
      BY <1>1, <3>1 DEF RecordInv, RunIsFresh
    <3>. QED BY <1>1, <3>2 DEF Recorded, Latest
  <2>2. offAt' = offAt /\ Recorded
    BY <1>1, <2>1 DEF Recorded, Latest
  <2>. QED BY <2>2 DEF RecordInv, BlobKnows
<1>3. ClockLags' BY <1>1 DEF RecordInv, ClockLags
<1>4. QED
  BY <1>1, <1>2, <1>3 DEF RecordInv, ArmAges, RamKnows, RunIsSaved, RunIsFresh, GoDown, NewShadow

LEMMA RecordStart == ASSUME TypeOK, RecordInv, canStart PROVE RecordInv'
<1>1. /\ now' = now /\ real' = real /\ offAt' = offAt /\ nvs' = nvs
      /\ up' = up /\ up /\ shadow' = shadow /\ phase' = "persist" /\ phase = "idle"
      /\ guard' = Started(guard, now) /\ starts \in Seq(Nat) /\ real \in Nat
      /\ starts' = IF guard.running THEN starts ELSE Append(starts, real)
  BY DEF canStart, ControlOnly, Idle, TypeOK
<1>2. guard'.running BY <1>1 DEF Started, TypeOK, Guard
<1>3. ArmAges' BY DEF RecordInv, ArmAges, canStart, ControlOnly, TypeOK, Time, NoTime
<1>4. offAt <= real /\ shadow.running = guard.running
  BY <1>1 DEF RecordInv, ClockLags, RunIsSaved
<1>5. CASE guard.running
  <2>1. starts' = starts
    BY <1>1, <1>5
  <2>2. RunIsFresh'
    BY <1>1, <1>4, <1>5, <2>1 DEF RecordInv, RunIsFresh, Latest
  <2>3. BlobKnows'
    BY <1>1, <1>2, <2>1 DEF RecordInv, BlobKnows, Recorded, Latest
  <2>. QED BY <1>1, <1>2, <1>3, <2>2, <2>3 DEF RecordInv, ClockLags, RamKnows, RunIsSaved
<1>6. CASE ~guard.running
  <2>1. starts' # <<>> /\ starts'[Len(starts')] = real
    BY <1>1, <1>6
  <2>2. RunIsFresh'
    BY <1>1, <1>4, <2>1 DEF RunIsFresh, Latest
  <2>3. offAt \in Int
    BY DEF TypeOK, Time, NoTime
  <2>4. ~Recorded'
    BY <1>1, <1>4, <2>1, <2>3 DEF Recorded, Latest
  <2>5. BlobKnows'
    BY <1>2, <2>4 DEF BlobKnows
  <2>. QED BY <1>1, <1>2, <1>3, <2>2, <2>5 DEF RecordInv, ClockLags, RamKnows, RunIsSaved
<1>7. QED BY <1>5, <1>6

LEMMA RecordHalt ==
  ASSUME TypeOK, RecordInv, NEW safety \in BOOLEAN, Halt(safety) PROVE RecordInv'
<1>1. /\ now' = now /\ real' = real /\ offAt' = real /\ nvs' = nvs
      /\ up' = up /\ shadow' = shadow /\ phase' = "persist"
      /\ armedAt' = armedAt /\ askedAt' = askedAt
      /\ guard' = Stopped(guard, now) /\ guard.running
      /\ now \in Nat /\ real \in Nat
  BY DEF Halt, ControlOnly, TypeOK
<1>2. /\ guard'.lastStop = now /\ elapsedS(now, now) = 0 /\ now # NoTime
      /\ guard'.running = FALSE
  BY <1>1 DEF Stopped, elapsedS, TypeOK, Guard, NoTime
<1>3. RamKnows' BY <1>1, <1>2 DEF RamKnows, elapsedS
<1>4. nvs.cg # NoBlob /\ nvs.cg.running
  BY DEF Halt, Idle, RecordInv, RunIsSaved
<1>5. BlobKnows' BY <1>1, <1>4 DEF BlobKnows
<1>6. QED
  BY <1>1, <1>2, <1>3, <1>5
     DEF RecordInv, ClockLags, ArmAges, RunIsSaved, RunIsFresh, Time, NoTime

LEMMA RecordPersist == ASSUME TypeOK, RecordInv, persistOnChange PROVE RecordInv'
<1>1. /\ now' = now /\ real' = real /\ offAt' = offAt /\ up' = up /\ up
      /\ guard' = guard /\ armedAt' = armedAt /\ askedAt' = askedAt /\ starts' = starts
      /\ now \in Nat /\ guard \in Guard
  BY DEF persistOnChange, history, TypeOK
<1>2. /\ nvs'.cg \in {nvs.cg, save(guard)}
      /\ nvs'.clk \in {nvs.clk, now}
  BY DEF persistOnChange, TypeOK
<1>3. save(guard) # NoBlob /\ save(guard).running = guard.running
      /\ save(guard).lastStop = guard.lastStop
  BY DEF save, NoBlob
<1>r. Recorded' <=> Recorded
  BY <1>1 DEF Recorded, Latest
<1>4. BlobKnows'
  BY <1>1, <1>2, <1>3, <1>r DEF RecordInv, BlobKnows, RamKnows, elapsedS
<1>5. RunIsSaved' /\ (guard.running => shadow'.running)
  <2>1. CASE guard.running # shadow.running \/ now - shadow.guardSaved >= GuardSaveS
    BY <1>1, <1>3, <2>1 DEF persistOnChange, RunIsSaved, TypeOK, Guard
  <2>2. CASE ~(guard.running # shadow.running \/ now - shadow.guardSaved >= GuardSaveS)
    BY <1>1, <2>2 DEF persistOnChange, RecordInv, RunIsSaved, TypeOK
  <2>3. QED BY <2>1, <2>2
<1>6. ClockLags' BY <1>1, <1>2 DEF RecordInv, ClockLags, TypeOK
<1>7. RamKnows' BY <1>1, <1>r DEF RecordInv, RamKnows, elapsedS
<1>8. ArmAges' BY <1>1 DEF RecordInv, ArmAges
<1>9. RunIsFresh' BY <1>1, <1>5 DEF RecordInv, RunIsFresh, Latest
<1>10. QED BY <1>4, <1>5, <1>6, <1>7, <1>8, <1>9 DEF RecordInv

LEMMA RecordTick == ASSUME TypeOK, RecordInv, Tick PROVE RecordInv'
<1>1. /\ now' = now + 1 /\ real' = real + 1 /\ now \in Nat /\ real \in Nat
      /\ up' = up /\ guard' = guard /\ nvs' = nvs /\ offAt' = offAt /\ starts' = starts
      /\ armedAt' = armedAt /\ askedAt' = askedAt /\ shadow' = shadow
      /\ phase' = phase /\ phase = "idle" /\ up
      /\ offAt \in Time /\ armedAt \in Time /\ askedAt \in Time
  BY DEF Tick, Idle, TypeOK
<1>r. Recorded' <=> Recorded
  BY <1>1 DEF Recorded, Latest
<1>2. RamKnows'
  BY <1>1, <1>r DEF RecordInv, RamKnows, elapsedS, TypeOK, Guard, Time, NoTime
<1>3. BlobKnows'
  <2>1. nvs.cg # NoBlob => nvs.cg.lastStop \in Time BY DEF TypeOK, Blob
  <2>2. QED BY <1>1, <1>r, <2>1 DEF RecordInv, BlobKnows, elapsedS, Time, NoTime
<1>4. ClockLags' BY <1>1 DEF RecordInv, ClockLags, TypeOK, Time, NoTime
<1>5. ArmAges' BY <1>1 DEF RecordInv, ArmAges, Time, NoTime
<1>6. RunIsSaved' BY <1>1 DEF RecordInv, RunIsSaved
<1>7. RunIsFresh'
  <2>1. guard.running => shadow.running
    BY <1>1 DEF RecordInv, RunIsSaved
  <2>. QED BY <1>1, <2>1 DEF RecordInv, RunIsFresh, Latest
<1>8. QED BY <1>2, <1>3, <1>4, <1>5, <1>6, <1>7 DEF RecordInv

LEMMA RecordOther ==
  ASSUME TypeOK, RecordInv, UserAction \/ NoDecision \/ UNCHANGED vars PROVE RecordInv'
<1>1. /\ now' = now /\ real' = real /\ offAt' = offAt /\ up' = up /\ starts' = starts
      /\ guard' = guard /\ nvs' = nvs /\ shadow' = shadow
  BY DEF UserAction, NoDecision, ControlOnly, vars, ram, history
<1>2. phase' = phase \/ phase' = "persist"
  BY DEF UserAction, NoDecision, ControlOnly, vars, ram
<1>3. ArmAges'
  <2>1. CASE UserAction
    BY <1>1, <2>1 DEF UserAction, ArmAges, TypeOK, NoTime
  <2>2. CASE NoDecision \/ UNCHANGED vars
    <3>1. armedAt' = armedAt /\ askedAt' = askedAt
      BY <2>2 DEF NoDecision, vars, ram, history
    <3>. QED BY <1>1, <3>1 DEF RecordInv, ArmAges
  <2>. QED BY <2>1, <2>2
<1>r. (Recorded' <=> Recorded) /\ Latest' = Latest
  BY <1>1 DEF Recorded, Latest
<1>4. RunIsSaved' /\ RunIsFresh'
  BY <1>1, <1>2, <1>r DEF RecordInv, RunIsSaved, RunIsFresh
<1>5. RamKnows' /\ BlobKnows' /\ ClockLags'
  BY <1>1, <1>r DEF RecordInv, RamKnows, BlobKnows, ClockLags, elapsedS
<1>. QED BY <1>3, <1>4, <1>5 DEF RecordInv

LEMMA RecordStep == ASSUME TypeOK, RecordInv, [Next]_vars PROVE RecordInv'
<1>1. ASSUME NEW why, Reset(why) PROVE RecordInv'
  BY <1>1, RecordGoDown DEF Reset
<1>2. CASE uiClearReducedMode
  <2>1. nvs'.cg = nvs.cg /\ nvs'.clk = nvs.clk
    BY <1>2 DEF uiClearReducedMode, TypeOK
  <2>2. QED BY <1>2, <2>1, RecordGoDown DEF uiClearReducedMode
<1>3. ASSUME NEW newLayout \in BOOLEAN, NewFirmware(newLayout) PROVE RecordInv'
  <2>1. (nvs'.cg = nvs.cg \/ nvs'.cg = NoBlob) /\ nvs'.clk = nvs.clk
    BY <1>3 DEF NewFirmware, TypeOK
  <2>2. QED BY <1>3, <2>1, RecordGoDown DEF NewFirmware
<1>4. QED
  BY <1>1, <1>2, <1>3, RecordBoot, RecordStart, RecordHalt, RecordPersist, RecordTick,
     RecordOther DEF Next

(* Whatever resets fall wherever, and whatever becomes of the blob, an        *)
(* automatic start comes MinOffS after the last stop, by the wall clock,      *)
(* unless the record began anew after that run, or the run was cut in the     *)
(* second in which it began.  (persistOnChange() saves a start at once.)      *)
RestsOnRecord ==
  [][~guard.running /\ guard'.running =>
       \/ ~Recorded \/ real - offAt >= MinOffS
       \/ askedAt # NoTime /\ real - askedAt <= ManualWindowS]_vars

THEOREM RestOnRecord == Spec => RestsOnRecord
<1> DEFINE Rested == \/ ~Recorded \/ real - offAt >= MinOffS
                     \/ askedAt # NoTime /\ real - askedAt <= ManualWindowS
<1>1. TypeOK /\ RecordInv /\ [Next]_vars => RecordInv'
  BY RecordStep
<1>2. TypeOK /\ RecordInv /\ [Next]_vars
        => [~guard.running /\ guard'.running => Rested]_vars
  <2> SUFFICES ASSUME TypeOK, RecordInv, [Next]_vars, ~guard.running, guard'.running
               PROVE  Rested
    OBVIOUS
  <2>1. ASSUME NEW down, NEW jitter, Boot(down, jitter) PROVE FALSE
    BY <2>1 DEF Boot, bootRestore, recordBoot, restoreFromBlob, unknownState, NewGuard
  <2>2. ASSUME NEW why, GoDown(why) PROVE FALSE
    BY <2>2 DEF GoDown, NewGuard
  <2>3. ASSUME NEW safety, Halt(safety) PROVE FALSE
    BY <2>3 DEF Halt
  <2>4. CASE canStart
    <3>1. CASE armedAt # NoTime /\ now - armedAt <= ManualWindowS
      BY <2>4, <3>1 DEF canStart, Idle, RecordInv, ArmAges
    <3>2. CASE ~(armedAt # NoTime /\ now - armedAt <= ManualWindowS)
      <4>1. MinOffServed(guard, now)
        BY <2>4, <3>2 DEF canStart, StartAllowed
      <4>2. SUFFICES ASSUME Recorded PROVE real - offAt >= MinOffS
        OBVIOUS
      <4>3. /\ guard.lastStop # NoTime
            /\ elapsedS(now, guard.lastStop) <= real - offAt
            /\ guard.lastStop \in Time /\ now \in Nat /\ real \in Nat /\ offAt \in Time
        BY <2>4, <4>2 DEF canStart, Idle, RecordInv, RamKnows, TypeOK, Guard
      <4>4. elapsedS(now, guard.lastStop) >= MinOffS BY <4>1, <4>3 DEF MinOffServed
      <4>5. elapsedS(now, guard.lastStop) \in Nat BY <4>3 DEF elapsedS, Time
      <4>6. QED BY <4>3, <4>4, <4>5, Constants DEF Time, NoTime
    <3>3. QED BY <3>1, <3>2
  <2>5. CASE guard' = guard BY <2>5
  <2>6. QED
    BY <2>1, <2>2, <2>3, <2>4, <2>5
       DEF Next, vars, ram, history, Reset, uiClearReducedMode, NewFirmware,
           UserAction, NoDecision, persistOnChange, Tick
<1>3. QED
  BY <1>1, <1>2, RecordInit, TypeCorrect, PTL DEF Spec, RestsOnRecord

===============================================================================
