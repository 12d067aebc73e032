------------------------ MODULE ContextEngineProofs ------------------------
(***************************************************************************)
(* Proofs about ContextEngine, for every set of metrics, values and frames *)
(* and every change cap.                                                   *)
(***************************************************************************)
EXTENDS ContextEngine, WellFoundedInduction, TLAPS

-----------------------------------------------------------------------------
(* Lemmas on the operators.                                                *)

LEMMA MaxChangeType ==
  ASSUME NEW b \in Int
  PROVE  MaxChange(b) \in Int
<1>1. ChangeCapPct \in Int
  BY CapAssumption
<1>2. b * ChangeCapPct \in Int
  BY <1>1
<1>3. QED
  BY <1>2 DEF MaxChange

\* A clamped value is an integer within the cap of the baseline, whichever
\* way the sign of the baseline turns the two comparisons.
LEMMA ClampBounds ==
  ASSUME NEW b \in Int, NEW v \in Int
  PROVE  /\ Clamp(b, v) \in Int
         /\ Distance(Clamp(b, v), b) <= Magnitude(MaxChange(b))
<1> DEFINE c == MaxChange(b)
<1>1. c \in Int
  BY MaxChangeType
<1>2. Clamp(b, v) = IF v > b + c THEN b + c ELSE IF v < b - c THEN b - c ELSE v
  BY DEF Clamp
<1> HIDE DEF c
<1>3. CASE v > b + c
  BY <1>1, <1>2, <1>3 DEF Distance, Magnitude, c
<1>4. CASE ~(v > b + c) /\ v < b - c
  BY <1>1, <1>2, <1>4 DEF Distance, Magnitude, c
<1>5. CASE ~(v > b + c) /\ ~(v < b - c)
  BY <1>1, <1>2, <1>5 DEF Distance, Magnitude, c
<1>6. QED
  BY <1>3, <1>4, <1>5

LEMMA AtBaseline ==
  ASSUME NEW b \in Int
  PROVE  Distance(b, b) <= Magnitude(MaxChange(b))
BY MaxChangeType DEF Distance, Magnitude

-----------------------------------------------------------------------------
(* Type correctness.                                                       *)

LEMMA TypeStep == TypeOK /\ [Next]_vars => TypeOK'
<1> SUFFICES ASSUME TypeOK, [Next]_vars PROVE TypeOK'
  OBVIOUS
<1> USE DEF TypeOK
<1>1. ASSUME NEW f \in Frames, Decline(f)
      PROVE  TypeOK'
  BY <1>1 DEF Decline, vars, metrics, history
<1>2. ASSUME NEW k \in Keys, NEW v \in Values, NEW f \in Frames,
             AdjustMetric(k, v, f)
      PROVE  TypeOK'
  <2> DEFINE b == IF k \in known THEN baseline[k] ELSE v
  <2>1. v \in Int /\ b \in Int
    BY ValuesAssumption
  <2>2. Clamp(b, v) \in Int
    BY <2>1, ClampBounds
  <2>3. /\ baseline' = [baseline EXCEPT ![k] = b]
        /\ current' = [current EXCEPT ![k] = Clamp(b, v)]
        /\ origin' = [origin EXCEPT ![k] = IF k \in known THEN @ ELSE v]
        /\ dayBase' = [dayBase EXCEPT ![k] = IF k \in known THEN @ ELSE v]
        /\ known' = known \cup {k}
        /\ UNCHANGED <<successes, recorded>>
    BY <1>2 DEF AdjustMetric
  <2> HIDE DEF b
  <2>4. QED
    BY <2>1, <2>2, <2>3
<1>3. ASSUME NEW k \in Keys, RecordSuccess(k)
      PROVE  TypeOK'
  BY <1>3 DEF RecordSuccess
<1>4. ASSUME NEW k \in Keys, Rollback(k)
      PROVE  TypeOK'
  BY <1>4 DEF Rollback, history
<1>5. CASE NewDay
  BY <1>5 DEF NewDay, metrics
<1>6. CASE UNCHANGED vars
  BY <1>6 DEF vars, metrics, history
<1>7. QED
  BY <1>1, <1>2, <1>3, <1>4, <1>5, <1>6 DEF Next

\* The counter of consecutive successes is 0 or 1 between calls, and every
\* value stays a number, whatever the callers propose.
THEOREM EngineTypeCorrect == Spec => []TypeOK
<1>1. Init => TypeOK
  BY DEF Init, TypeOK
<1>2. QED
  BY <1>1, TypeStep, PTL DEF Spec

-----------------------------------------------------------------------------
(* The cap.                                                                *)

LEMMA CapStep == TypeOK /\ CapRespected /\ [Next]_vars => CapRespected'
<1> SUFFICES ASSUME TypeOK, CapRespected, [Next]_vars,
                    NEW j \in known'
             PROVE  (Distance(current[j], baseline[j])
                       <= Magnitude(MaxChange(baseline[j])))'
  BY DEF CapRespected
<1> USE DEF TypeOK
<1>0. j \in known => Distance(current[j], baseline[j])
                       <= Magnitude(MaxChange(baseline[j]))
  BY DEF CapRespected
<1>1. CASE j \in known /\ UNCHANGED <<current[j], baseline[j]>>
  BY <1>0, <1>1 DEF Distance, Magnitude, MaxChange
<1>2. ASSUME NEW k \in Keys, NEW v \in Values, NEW f \in Frames,
             AdjustMetric(k, v, f)
      PROVE  \/ j \in known /\ UNCHANGED <<current[j], baseline[j]>>
             \/ /\ baseline'[j] \in Int
                /\ current'[j] = Clamp(baseline'[j], v)
  BY <1>2, ValuesAssumption DEF AdjustMetric
<1>3. ASSUME NEW k \in Keys, RecordSuccess(k) \/ Rollback(k)
      PROVE  \/ j \in known /\ UNCHANGED <<current[j], baseline[j]>>
             \/ baseline'[j] \in Int /\ current'[j] = baseline'[j]
  BY <1>3 DEF RecordSuccess, Rollback
<1>4. ASSUME NEW f \in Frames, Decline(f)
      PROVE  j \in known /\ UNCHANGED <<current[j], baseline[j]>>
  BY <1>4 DEF Decline, vars, metrics
<1>5. CASE UNCHANGED metrics
  BY <1>0, <1>1, <1>5 DEF metrics
<1>6. ASSUME NEW v \in Values, baseline'[j] \in Int,
             current'[j] = Clamp(baseline'[j], v)
      PROVE  Distance(current'[j], baseline'[j])
               <= Magnitude(MaxChange(baseline'[j]))
  BY <1>6, ClampBounds, ValuesAssumption
<1>7. ASSUME baseline'[j] \in Int, current'[j] = baseline'[j]
      PROVE  Distance(current'[j], baseline'[j])
               <= Magnitude(MaxChange(baseline'[j]))
  BY <1>7, AtBaseline
<1>8. UNCHANGED vars \/ NewDay => UNCHANGED metrics
  BY DEF NewDay, vars
<1>9. QED
  BY <1>1, <1>2, <1>3, <1>4, <1>5, <1>6, <1>7, <1>8
  DEF Next, Distance, Magnitude, MaxChange

\* Adjustments, adoptions and rollbacks of any number of callers keep the
\* value in force within the cap around the baseline in force.
THEOREM CapAlwaysRespected == Spec => []CapRespected
<1>1. Init => CapRespected
  BY DEF Init, CapRespected
<1>2. QED
  BY <1>1, CapStep, EngineTypeCorrect, PTL DEF Spec

-----------------------------------------------------------------------------
(* Induction and recursion on the natural numbers, with sets and functions *)
(* in the place of predicates, for Floor and Ceiling.                      *)

LEMMA LeastNatural ==
  ASSUME NEW T \in SUBSET Nat, T # {}
  PROVE  \E m \in T : \A k \in T : m <= k
<1>1. IsWellFoundedOn(OpToRel(<, Nat), Nat)
  BY NatLessThanWellFounded
<1>2. PICK m \in T : \A k \in T : <<k, m>> \notin OpToRel(<, Nat)
  BY <1>1, WFMin
<1>3. \A k \in T : ~(k < m)
  BY <1>2 DEF OpToRel
<1>4. QED
  BY <1>3

LEMMA Induction ==
  ASSUME NEW S, 0 \in S, \A n \in Nat : n \in S => n + 1 \in S
  PROVE  \A n \in Nat : n \in S
<1>1. SUFFICES ASSUME Nat \ S # {} PROVE FALSE
  OBVIOUS
<1>2. PICK m \in Nat \ S : \A k \in Nat \ S : m <= k
  BY <1>1, LeastNatural
<1>3. m # 0 /\ m - 1 \in Nat
  BY <1>2
<1>4. m - 1 \in S
  BY <1>2, <1>3
<1>5. QED
  BY <1>2, <1>3, <1>4

\* There is a function that starts with x and goes on with step.
Recurs(X, x, step) ==
  \E F \in [Nat -> X] : F[0] = x /\ \A n \in Nat : F[n + 1] = step[n][F[n]]

\* It is defined for every number: its beginnings are, and agree with each other.
LEMMA Recursion ==
  ASSUME NEW X, NEW x \in X, NEW step \in [Nat -> [X -> X]]
  PROVE  Recurs(X, x, step)
<1> DEFINE Begins(n) == {g \in [0..n -> X] :
             g[0] = x /\ \A k \in 0..(n - 1) : g[k + 1] = step[k][g[k]]}
<1>1. \A n \in Nat : Begins(n) # {}
  <2> DEFINE S == {n \in Nat : Begins(n) # {}}
  <2>1. 0 \in S
    <3>1. [k \in 0..0 |-> x] \in Begins(0)
      OBVIOUS
    <3>2. QED
      BY <3>1
  <2>2. ASSUME NEW n \in Nat, n \in S
        PROVE  n + 1 \in S
    <3>1. PICK g \in Begins(n) : TRUE
      BY <2>2
    <3> DEFINE h == [k \in 0..(n + 1) |-> IF k = n + 1 THEN step[n][g[n]] ELSE g[k]]
    <3>2. g[n] \in X /\ step[n][g[n]] \in X
      BY <3>1
    <3>3. h \in [0..(n + 1) -> X]
      BY <3>1, <3>2
    <3>4. h[0] = x
      BY <3>1
    <3>5. \A k \in 0..n : h[k + 1] = step[k][h[k]]
      BY <3>1
    <3>6. h \in Begins(n + 1)
      BY <3>3, <3>4, <3>5
    <3> HIDE DEF h, Begins
    <3>7. Begins(n + 1) # {} /\ n + 1 \in Nat
      BY <3>6
    <3>8. QED
      BY <3>7
  <2> HIDE DEF S
  <2>3. \A n \in Nat : n \in S
    BY <2>1, <2>2, Induction
  <2>4. QED
    BY <2>3 DEF S
<1>2. \A n \in Nat : \A g \in Begins(n) :
        g[0] = x /\ \A k \in 0..n : g[k] \in X /\ (k < n => g[k + 1] = step[k][g[k]])
  OBVIOUS
<1> HIDE DEF Begins
<1> DEFINE Agree(k) == \A n, m \in Nat : k <= n /\ k <= m =>
             \A g \in Begins(n), h \in Begins(m) : g[k] = h[k]
<1>3. \A k \in Nat : Agree(k)
  <2> DEFINE S == {k \in Nat : Agree(k)}
  <2>1. Agree(0)
    BY <1>2
  <2>2. ASSUME NEW k \in Nat, Agree(k)
        PROVE  Agree(k + 1)
    <3>1. SUFFICES ASSUME NEW n \in Nat, NEW m \in Nat, k + 1 <= n, k + 1 <= m,
                          NEW g \in Begins(n), NEW h \in Begins(m)
                   PROVE  g[k + 1] = h[k + 1]
      OBVIOUS
    <3>2. k <= n /\ k <= m /\ k < n /\ k < m /\ k \in 0..n /\ k \in 0..m
      BY <3>1
    <3>3. g[k] = h[k]
      BY <2>2, <3>2
    <3>4. g[k + 1] = step[k][g[k]] /\ h[k + 1] = step[k][h[k]]
      BY <1>2, <3>2
    <3>5. QED
      BY <3>3, <3>4
  <2> HIDE DEF Agree
  <2>3. 0 \in S /\ \A k \in Nat : k \in S => k + 1 \in S
    BY <2>1, <2>2
  <2> HIDE DEF S
  <2>4. \A k \in Nat : k \in S
    BY <2>3, Induction
  <2>5. QED
    BY <2>4 DEF S
<1> DEFINE G(n) == CHOOSE g \in Begins(n) : TRUE
           F == [n \in Nat |-> G(n)[n]]
<1>4. \A n \in Nat : G(n) \in Begins(n)
  BY <1>1
<1> HIDE DEF G
<1>5. F \in [Nat -> X]
  BY <1>2, <1>4
<1>6. F[0] = x
  BY <1>2, <1>4
<1>7. ASSUME NEW n \in Nat
      PROVE  F[n + 1] = step[n][F[n]]
  <2>1. G(n + 1) \in Begins(n + 1) /\ G(n) \in Begins(n)
    BY <1>4
  <2>2. G(n + 1)[n + 1] = step[n][G(n + 1)[n]]
    BY <1>2, <2>1
  <2>3. G(n + 1)[n] = G(n)[n]
    BY <1>3, <2>1
  <2>4. QED
    BY <2>2, <2>3
<1>8. QED
  BY <1>5, <1>6, <1>7 DEF Recurs

\* Steps of a walk over the integers, the same at every number.
LEMMA Walk ==
  ASSUME NEW b \in Int, NEW f \in [Int -> Int]
  PROVE  \E F \in [Nat -> Int] : F[0] = b /\ \A n \in Nat : F[n + 1] = f[F[n]]
<1> DEFINE step == [n \in Nat |-> f]
<1>1. step \in [Nat -> [Int -> Int]]
  OBVIOUS
<1>2. Recurs(Int, b, step)
  <2> HIDE DEF step
  <2>1. QED
    BY <1>1, Recursion
<1>3. QED
  BY <1>2 DEF Recurs

LEMMA CeilingIs ==
  ASSUME NEW b \in Int
  PROVE  /\ Ceiling(b, 0) = b
         /\ \A n \in Nat :
              /\ Ceiling(b, n) \in Int
              /\ Ceiling(b, n + 1) = Ceiling(b, n) + MaxChange(Ceiling(b, n))
<1> DEFINE f == [x \in Int |-> x + MaxChange(x)]
<1>1. f \in [Int -> Int]
  BY MaxChangeType
<1>2. PICK F \in [Nat -> Int] : F[0] = b /\ \A n \in Nat : F[n + 1] = f[F[n]]
  <2> HIDE DEF f
  <2>1. QED
    BY <1>1, Walk
<1>3. \A n \in Nat : F[n] \in Int /\ F[n + 1] = F[n] + MaxChange(F[n])
  <2>1. \A x \in Int : f[x] = x + MaxChange(x)
    OBVIOUS
  <2> HIDE DEF f
  <2>2. QED
    BY <1>2, <2>1
<1> HIDE DEF f
<1>4. ASSUME NEW n \in Nat
      PROVE  Ceiling(b, n) = F[n]
  <2> DEFINE Step(g) == [i \in 0 .. n |-> IF i = 0 THEN b ELSE g[i - 1] + MaxChange(g[i - 1])]
             up == CHOOSE g : g = Step(g)
             h == [i \in 0 .. n |-> F[i]]
  <2>1. Ceiling(b, n) = up[n]
    BY DEF Ceiling
  <2>2. h = Step(h)
    <3>1. ASSUME NEW i \in 0 .. n
          PROVE  h[i] = IF i = 0 THEN b ELSE h[i - 1] + MaxChange(h[i - 1])
      <4>1. i # 0 => i - 1 \in Nat /\ i - 1 \in 0 .. n /\ (i - 1) + 1 = i
        OBVIOUS
      <4>2. i # 0 => F[i] = F[i - 1] + MaxChange(F[i - 1])
        BY <1>3, <4>1
      <4>3. QED
        BY <1>2, <4>1, <4>2
    <3>2. QED
      BY <3>1
  <2>3. up = Step(up)
    <3> HIDE DEF Step, h
    <3>1. QED
      BY <2>2
  <2> HIDE DEF up, h
  <2>4. \A i \in 0 .. n : up[i] = IF i = 0 THEN b ELSE up[i - 1] + MaxChange(up[i - 1])
    BY <2>3
  <2> HIDE DEF Step
  <2>5. up[n] = F[n]
    <3> DEFINE S == {i \in Nat : i <= n => up[i] = F[i]}
    <3>1. 0 \in S
      BY <1>2, <2>4
    <3>2. ASSUME NEW i \in Nat, i \in S
          PROVE  i + 1 \in S
      <4>1. i + 1 <= n => i + 1 \in 0 .. n /\ i + 1 # 0 /\ (i + 1) - 1 = i /\ i <= n
        OBVIOUS
      <4>2. i + 1 <= n => up[i + 1] = F[i] + MaxChange(F[i])
        BY <2>4, <3>2, <4>1
      <4>3. QED
        BY <1>3, <4>1, <4>2
    <3> HIDE DEF S
    <3>3. n \in S
      BY <3>1, <3>2, Induction
    <3>4. QED
      BY <3>3 DEF S
  <2>6. QED
    BY <2>1, <2>5
<1>5. QED
  BY <1>2, <1>4, <1>3

LEMMA FloorIs ==
  ASSUME NEW b \in Int
  PROVE  /\ Floor(b, 0) = b
         /\ \A n \in Nat :
              /\ Floor(b, n) \in Int
              /\ Floor(b, n + 1) = Floor(b, n) - MaxChange(Floor(b, n))
<1> DEFINE f == [x \in Int |-> x - MaxChange(x)]
<1>1. f \in [Int -> Int]
  BY MaxChangeType
<1>2. PICK F \in [Nat -> Int] : F[0] = b /\ \A n \in Nat : F[n + 1] = f[F[n]]
  <2> HIDE DEF f
  <2>1. QED
    BY <1>1, Walk
<1>3. \A n \in Nat : F[n] \in Int /\ F[n + 1] = F[n] - MaxChange(F[n])
  <2>1. \A x \in Int : f[x] = x - MaxChange(x)
    OBVIOUS
  <2> HIDE DEF f
  <2>2. QED
    BY <1>2, <2>1
<1> HIDE DEF f
<1>4. ASSUME NEW n \in Nat
      PROVE  Floor(b, n) = F[n]
  <2> DEFINE Step(g) == [i \in 0 .. n |-> IF i = 0 THEN b ELSE g[i - 1] - MaxChange(g[i - 1])]
             down == CHOOSE g : g = Step(g)
             h == [i \in 0 .. n |-> F[i]]
  <2>1. Floor(b, n) = down[n]
    BY DEF Floor
  <2>2. h = Step(h)
    <3>1. ASSUME NEW i \in 0 .. n
          PROVE  h[i] = IF i = 0 THEN b ELSE h[i - 1] - MaxChange(h[i - 1])
      <4>1. i # 0 => i - 1 \in Nat /\ i - 1 \in 0 .. n /\ (i - 1) + 1 = i
        OBVIOUS
      <4>2. i # 0 => F[i] = F[i - 1] - MaxChange(F[i - 1])
        BY <1>3, <4>1
      <4>3. QED
        BY <1>2, <4>1, <4>2
    <3>2. QED
      BY <3>1
  <2>3. down = Step(down)
    <3> HIDE DEF Step, h
    <3>1. QED
      BY <2>2
  <2> HIDE DEF down, h
  <2>4. \A i \in 0 .. n : down[i] = IF i = 0 THEN b ELSE down[i - 1] - MaxChange(down[i - 1])
    BY <2>3
  <2> HIDE DEF Step
  <2>5. down[n] = F[n]
    <3> DEFINE S == {i \in Nat : i <= n => down[i] = F[i]}
    <3>1. 0 \in S
      BY <1>2, <2>4
    <3>2. ASSUME NEW i \in Nat, i \in S
          PROVE  i + 1 \in S
      <4>1. i + 1 <= n => i + 1 \in 0 .. n /\ i + 1 # 0 /\ (i + 1) - 1 = i /\ i <= n
        OBVIOUS
      <4>2. i + 1 <= n => down[i + 1] = F[i] - MaxChange(F[i])
        BY <2>4, <3>2, <4>1
      <4>3. QED
        BY <1>3, <4>1, <4>2
    <3> HIDE DEF S
    <3>3. n \in S
      BY <3>1, <3>2, Induction
    <3>4. QED
      BY <3>3 DEF S
  <2>6. QED
    BY <2>1, <2>5
<1>5. QED
  BY <1>2, <1>4, <1>3

\* The caps that ServerConfig::validate admits; main validates the configuration
\* before it builds the engine.  A larger one takes the range below zero.
ValidatedCap == ChangeCapPct <= 100

LEMMA CapIsMonotone ==
  ASSUME ValidatedCap, NEW x \in Nat, NEW y \in Nat, x <= y
  PROVE  /\ MaxChange(x) \in Nat /\ MaxChange(x) <= x
         /\ MaxChange(x) <= MaxChange(y)
         /\ x - MaxChange(x) <= y - MaxChange(y)
<1> DEFINE p == ChangeCapPct
<1>1. p \in 0 .. 100
  BY CapAssumption DEF ValidatedCap
<1>2. x * p \in Nat /\ y * p \in Nat /\ (y - x) * p \in Nat
  BY <1>1
<1>3. x * p <= 100 * x /\ (y - x) * p <= 100 * (y - x)
  BY <1>1
<1>4. y * p = x * p + (y - x) * p
  BY <1>1
<1> DEFINE u == x * p
           v == y * p
<1>5. u \in Nat /\ v \in Nat /\ u <= v /\ v <= u + 100 * (y - x) /\ u <= 100 * x
  BY <1>2, <1>3, <1>4
<1>6. MaxChange(x) = u \div 100 /\ MaxChange(y) = v \div 100
  BY DEF MaxChange
<1> HIDE DEF u, v
<1>7. QED
  BY <1>5, <1>6

-----------------------------------------------------------------------------
(* The pace of the drift.                                                  *)

\* From a value that is not negative, the range only grows with the adoptions,
\* and stays on this side of zero.
LEMMA RangeWidens ==
  ASSUME ValidatedCap, NEW b \in Nat, NEW m \in Nat, NEW n \in Nat, m <= n
  PROVE  /\ Floor(b, n) \in Nat /\ Floor(b, n) <= Floor(b, m)
         /\ Ceiling(b, m) \in Nat /\ Ceiling(b, m) <= Ceiling(b, n)
<1> DEFINE S == {i \in Nat : Floor(b, i) \in Nat /\ Ceiling(b, i) \in Nat}
<1>1. 0 \in S
  BY FloorIs, CeilingIs
<1>2. ASSUME NEW i \in Nat, i \in S
      PROVE  i + 1 \in S
  <2>1. /\ Floor(b, i) \in Nat /\ Floor(b, i + 1) = Floor(b, i) - MaxChange(Floor(b, i))
        /\ Ceiling(b, i) \in Nat
        /\ Ceiling(b, i + 1) = Ceiling(b, i) + MaxChange(Ceiling(b, i))
    BY <1>2, FloorIs, CeilingIs
  <2>2. /\ MaxChange(Floor(b, i)) \in Nat /\ MaxChange(Floor(b, i)) <= Floor(b, i)
        /\ MaxChange(Ceiling(b, i)) \in Nat
    BY <2>1, CapIsMonotone
  <2>3. QED
    BY <2>1, <2>2
<1> HIDE DEF S
<1>3. \A i \in Nat : i \in S
  BY <1>1, <1>2, Induction
<1>4. \A i \in Nat : Floor(b, i) \in Nat /\ Ceiling(b, i) \in Nat
  BY <1>3 DEF S
<1>5. ASSUME NEW i \in Nat
      PROVE  Floor(b, i + 1) <= Floor(b, i) /\ Ceiling(b, i) <= Ceiling(b, i + 1)
  <2>1. /\ Floor(b, i + 1) = Floor(b, i) - MaxChange(Floor(b, i))
        /\ Ceiling(b, i + 1) = Ceiling(b, i) + MaxChange(Ceiling(b, i))
    BY FloorIs, CeilingIs
  <2>2. MaxChange(Floor(b, i)) \in Nat /\ MaxChange(Ceiling(b, i)) \in Nat
    BY <1>4, CapIsMonotone
  <2>3. QED
    BY <1>4, <2>1, <2>2
<1> DEFINE D == {d \in Nat : Floor(b, m + d) <= Floor(b, m) /\ Ceiling(b, m) <= Ceiling(b, m + d)}
<1>6. 0 \in D
  BY <1>4
<1>7. ASSUME NEW d \in Nat, d \in D
      PROVE  d + 1 \in D
  <2>1. m + d \in Nat /\ m + (d + 1) = (m + d) + 1 /\ m + d + 1 \in Nat
    OBVIOUS
  <2>2. /\ Floor(b, m + (d + 1)) <= Floor(b, m + d) /\ Floor(b, m + d) <= Floor(b, m)
        /\ Ceiling(b, m) <= Ceiling(b, m + d) /\ Ceiling(b, m + d) <= Ceiling(b, m + (d + 1))
    BY <1>5, <1>7, <2>1
  <2>3. /\ {Floor(b, m), Floor(b, m + d), Floor(b, m + (d + 1))} \subseteq Int
        /\ {Ceiling(b, m), Ceiling(b, m + d), Ceiling(b, m + (d + 1))} \subseteq Int
    BY <1>4, <2>1
  <2>4. QED
    BY <2>2, <2>3
<1> HIDE DEF D
<1>8. n - m \in D
  BY <1>6, <1>7, Induction
<1>9. m + (n - m) = n
  OBVIOUS
<1>10. QED
  BY <1>4, <1>8, <1>9 DEF D

\* A baseline has been adopted m times, for which two successes each were
\* recorded; the one that may be under way counts for none.
PacedAt(k, m) ==
  /\ 2 * m + successes[k] <= recorded[k]
  /\ Floor(origin[k], m) <= baseline[k] /\ baseline[k] <= Ceiling(origin[k], m)

Paced ==
  /\ \A k \in Keys \ known : successes[k] = 0
  /\ \A k \in known : origin[k] >= 0 => \E m \in Nat : PacedAt(k, m)

LEMMA PacedImplies == ValidatedCap /\ TypeOK /\ Paced => DriftPaced
<1> SUFFICES ASSUME ValidatedCap, TypeOK, Paced, NEW k \in known, origin[k] >= 0
             PROVE  baseline[k] \in Floor(origin[k], recorded[k] \div 2)
                                      .. Ceiling(origin[k], recorded[k] \div 2)
  BY DEF DriftPaced
<1>1. PICK m \in Nat : PacedAt(k, m)
  BY DEF Paced
<1> DEFINE n == recorded[k] \div 2
<1>2. origin[k] \in Nat /\ recorded[k] \in Nat /\ successes[k] \in {0, 1} /\ baseline[k] \in Int
  BY DEF TypeOK
<1>3. n \in Nat /\ m <= n
  BY <1>1, <1>2 DEF PacedAt
<1> HIDE DEF n
<1>4. /\ Floor(origin[k], n) \in Nat /\ Floor(origin[k], n) <= Floor(origin[k], m)
      /\ Ceiling(origin[k], m) \in Nat /\ Ceiling(origin[k], m) <= Ceiling(origin[k], n)
      /\ Floor(origin[k], m) \in Nat /\ Ceiling(origin[k], n) \in Nat
  <2>1. ASSUME NEW b \in Nat, NEW i \in Nat
        PROVE  Floor(b, i) \in Nat /\ Ceiling(b, i) \in Nat
    BY RangeWidens
  <2>2. /\ Floor(origin[k], n) <= Floor(origin[k], m)
        /\ Ceiling(origin[k], m) <= Ceiling(origin[k], n)
    BY <1>2, <1>3, RangeWidens
  <2>3. QED
    BY <1>2, <1>3, <2>1, <2>2
<1>5. Floor(origin[k], n) <= baseline[k] /\ baseline[k] <= Ceiling(origin[k], n)
  BY <1>1, <1>2, <1>4 DEF PacedAt
<1>6. QED
  BY <1>2, <1>4, <1>5 DEF n

\* An adopted value is within the cap of a baseline within the range.
LEMMA AdoptedInRange ==
  ASSUME ValidatedCap, NEW b \in Nat, NEW m \in Nat, NEW x \in Int, NEW c \in Int,
         Floor(b, m) <= x, x <= Ceiling(b, m), Distance(c, x) <= Magnitude(MaxChange(x))
  PROVE  Floor(b, m + 1) <= c /\ c <= Ceiling(b, m + 1)
<1>1. Floor(b, m) \in Nat /\ Ceiling(b, m) \in Nat
  BY RangeWidens
<1>2. x \in Nat
  BY <1>1
<1>3. /\ MaxChange(x) \in Nat /\ MaxChange(Floor(b, m)) \in Nat /\ MaxChange(Ceiling(b, m)) \in Nat
      /\ Floor(b, m) - MaxChange(Floor(b, m)) <= x - MaxChange(x)
      /\ MaxChange(x) <= MaxChange(Ceiling(b, m))
  BY <1>1, <1>2, CapIsMonotone
<1>4. x - MaxChange(x) <= c /\ c <= x + MaxChange(x)
  BY <1>2, <1>3 DEF Distance, Magnitude
<1>5. /\ Floor(b, m + 1) = Floor(b, m) - MaxChange(Floor(b, m))
      /\ Ceiling(b, m + 1) = Ceiling(b, m) + MaxChange(Ceiling(b, m))
  BY FloorIs, CeilingIs
<1>6. QED
  BY <1>1, <1>2, <1>3, <1>4, <1>5

LEMMA PacedStep ==
  ValidatedCap /\ TypeOK /\ CapRespected /\ Paced /\ [Next]_vars => Paced'
<1> SUFFICES ASSUME ValidatedCap, TypeOK, CapRespected, Paced, [Next]_vars
             PROVE  Paced'
  OBVIOUS
<1> USE DEF TypeOK
<1>1. ASSUME NEW k \in Keys, NEW v \in Values, NEW f \in Frames, AdjustMetric(k, v, f)
      PROVE  Paced'
  <2>1. /\ known' = known \cup {k} /\ UNCHANGED <<successes, recorded>>
        /\ \A j \in known : origin'[j] = origin[j] /\ baseline'[j] = baseline[j]
        /\ k \notin known => origin'[k] = v /\ baseline'[k] = v
    BY <1>1 DEF AdjustMetric
  <2>2. ASSUME k \notin known, v >= 0
        PROVE  PacedAt(k, 0)'
    <3>1. v \in Nat /\ successes[k] = 0 /\ recorded[k] \in Nat
      BY <2>2, ValuesAssumption DEF Paced
    <3>2. Floor(v, 0) = v /\ Ceiling(v, 0) = v
      BY <3>1, FloorIs, CeilingIs
    <3>3. QED
      BY <2>1, <2>2, <3>1, <3>2 DEF PacedAt
  <2>3. ASSUME NEW j \in known, NEW m \in Nat, PacedAt(j, m)
        PROVE  PacedAt(j, m)'
    BY <2>1, <2>3 DEF PacedAt
  <2>4. ASSUME NEW j \in known', origin'[j] >= 0
        PROVE  \E m \in Nat : PacedAt(j, m)'
    <3>1. CASE j \in known
      BY <2>1, <2>3, <2>4, <3>1 DEF Paced
    <3>2. CASE j \notin known
      BY <2>1, <2>2, <2>4, <3>2
    <3>3. QED
      BY <3>1, <3>2
  <2>5. QED
    BY <2>1, <2>4 DEF Paced
<1>2. ASSUME NEW k \in Keys, RecordSuccess(k)
      PROVE  Paced'
  <2>1. /\ k \in known /\ UNCHANGED <<known, origin>>
        /\ recorded'[k] = recorded[k] + 1
        /\ \A j \in Keys \ {k} : /\ recorded'[j] = recorded[j] /\ successes'[j] = successes[j]
                                /\ baseline'[j] = baseline[j]
        /\ \/ /\ successes[k] = 1 /\ successes'[k] = 0 /\ baseline'[k] = current[k]
           \/ /\ successes[k] = 0 /\ successes'[k] = 1 /\ baseline'[k] = baseline[k]
    BY <1>2 DEF RecordSuccess
  <2>2. ASSUME NEW m \in Nat, PacedAt(k, m), origin[k] >= 0
        PROVE  \E n \in Nat : PacedAt(k, n)'
    <3>1. CASE successes[k] = 1
      <4>1. successes'[k] = 0 /\ baseline'[k] = current[k] /\ m + 1 \in Nat
        BY <2>1, <3>1
      <4>2. Floor(origin[k], m + 1) <= current[k] /\ current[k] <= Ceiling(origin[k], m + 1)
        BY <2>1, <2>2, AdoptedInRange DEF PacedAt, CapRespected
      <4>3. 2 * (m + 1) + successes'[k] <= recorded'[k]
        BY <2>1, <2>2, <3>1, <4>1 DEF PacedAt
      <4>4. PacedAt(k, m + 1)'
        BY <2>1, <4>1, <4>2, <4>3 DEF PacedAt
      <4>5. QED
        BY <4>1, <4>4
    <3>2. CASE successes[k] = 0
      BY <2>1, <2>2, <3>2 DEF PacedAt
    <3>3. QED
      BY <3>1, <3>2
  <2>3. ASSUME NEW j \in known \ {k}, NEW m \in Nat, PacedAt(j, m)
        PROVE  PacedAt(j, m)'
    BY <2>1, <2>3 DEF PacedAt
  <2>4. QED
    BY <2>1, <2>2, <2>3 DEF Paced
<1>3. ASSUME NEW k \in Keys, Rollback(k)
      PROVE  Paced'
  <2>1. /\ UNCHANGED <<known, baseline, origin, recorded>>
        /\ \A j \in Keys : successes'[j] \in {0, successes[j]}
    BY <1>3 DEF Rollback, history
  <2>2. ASSUME NEW j \in known, NEW m \in Nat, PacedAt(j, m)
        PROVE  PacedAt(j, m)'
    BY <2>1, <2>2 DEF PacedAt
  <2>3. QED
    BY <2>1, <2>2 DEF Paced
<1>4. CASE UNCHANGED <<metrics, origin, recorded>>
  BY <1>4 DEF metrics, Paced, PacedAt
<1>5. QED
  BY <1>1, <1>2, <1>3, <1>4 DEF Next, Decline, NewDay, vars, history

\* For every cap that ServerConfig::validate admits and every order of calls: the
\* baseline has moved by at most one cap for every two successes.
THEOREM DriftIsPaced ==
  ASSUME ValidatedCap
  PROVE  Spec => []DriftPaced
<1>1. Init => Paced
  BY DEF Init, Paced
<1>2. TypeOK /\ CapRespected /\ Paced /\ [Next]_vars => Paced'
  BY PacedStep
<1>3. TypeOK /\ Paced => DriftPaced
  BY PacedImplies
<1>4. Spec => []Paced
  BY <1>1, <1>2, EngineTypeCorrect, CapAlwaysRespected, PTL DEF Spec
<1>5. QED
  BY <1>3, <1>4, EngineTypeCorrect, PTL
=============================================================================
