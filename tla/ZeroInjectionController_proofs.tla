-------------------- MODULE ZeroInjectionController_proofs --------------------
(* What the decision law guarantees for every plant, target, threshold and *)
(* measurement, and the controller's type and safety invariants for every  *)
(* plant, configuration, load and number of disturbances.                  *)
EXTENDS ZeroInjectionController, TLAPS

-----------------------------------------------------------------------------
(* The decision law.                                                       *)

(* Dividing by a positive integer yields an integer.                       *)
LEMMA QuotientIsInt ==
  ASSUME NEW n \in Int, NEW d \in Nat \ {0}
  PROVE  n \div d \in Int
  OBVIOUS

LEMMA RoundIsInt ==
  ASSUME NEW num \in Int, NEW den \in Nat \ {0}
  PROVE  RoundAwayFromZero(num, den) \in Int
<1>1. 2 * den \in Nat \ {0}
  OBVIOUS
<1>2. (2 * num + den) \div (2 * den) \in Int
  BY <1>1, QuotientIsInt
<1>3. (2 * (-num) + den) \div (2 * den) \in Int
  BY <1>1, QuotientIsInt
<1> QED
  BY <1>2, <1>3 DEF RoundAwayFromZero

LEMMA TargetsAreLimits ==
  ASSUME NEW grid \in Int, NEW measured \in Int, NEW current \in Limits
  PROVE  /\ FineTarget(grid, current) \in Limits
         /\ FineLimit(grid, current) \in Limits
         /\ PredictiveLimit(grid, measured) \in Limits
<1> USE DecisionAssumption
<1>1. GridError(grid) * 100 \in Int /\ (measured + grid - Target) * 100 \in Int
  BY DEF GridError
<1>2. /\ RoundAwayFromZero(GridError(grid) * 100, NominalPower) \in Int
      /\ RoundAwayFromZero((measured + grid - Target) * 100, NominalPower) \in Int
  BY <1>1, RoundIsInt
<1>3. ASSUME NEW n \in Int PROVE Clamp(n, MinimumLimit, MaximumLimit) \in Limits
  BY DEF Clamp, Limits, MinimumLimit, MaximumLimit
<1>4. current \in Int
  BY DEF Limits, MinimumLimit, MaximumLimit
<1>5. FineTarget(grid, current) \in Limits
  BY <1>2, <1>3, <1>4 DEF FineTarget
<1>6. PredictiveLimit(grid, measured) \in Limits
  BY <1>2, <1>3 DEF PredictiveLimit
<1>7. Clamp(FineTarget(grid, current) - current, -FineStep, FineStep) \in Int
  BY <1>4, <1>5 DEF Clamp, Limits, MinimumLimit, MaximumLimit
<1>8. FineLimit(grid, current) \in Limits
  BY <1>3, <1>4, <1>7 DEF FineLimit
<1> QED
  BY <1>5, <1>6, <1>8

(* Whatever is measured, the limit applied is one the DTU accepts.         *)
THEOREM AppliedLimitIsLegal ==
  ASSUME NEW grid \in Int, NEW measured \in Int, NEW current \in Limits
  PROVE  AppliedLimit(grid, measured, current) \in Limits
  BY TargetsAreLimits DEF AppliedLimit

(* A correction below the predictive threshold moves the limit by at most  *)
(* FineStep, and never away from the target: importing more than wanted    *)
(* does not lower it and exporting more than wanted does not raise it.     *)
THEOREM FineCorrectionIsCautious ==
  ASSUME NEW grid \in Int, NEW measured \in Int, NEW current \in Limits,
         Magnitude(GridError(grid)) < PredictiveThreshold
  PROVE  /\ Magnitude(AppliedLimit(grid, measured, current) - current) <= FineStep
         /\ GridError(grid) >= 0 => AppliedLimit(grid, measured, current) >= current
         /\ GridError(grid) <= 0 => AppliedLimit(grid, measured, current) <= current
<1> USE DecisionAssumption
<1> DEFINE rounded == RoundAwayFromZero(GridError(grid) * 100, NominalPower)
           step == Clamp(FineTarget(grid, current) - current, -FineStep, FineStep)
<1>1. current \in Int /\ current >= MinimumLimit /\ current <= MaximumLimit
  BY DEF Limits, MinimumLimit, MaximumLimit
<1>2. GridError(grid) \in Int /\ GridError(grid) * 100 \in Int
  BY DEF GridError
<1>3. /\ rounded \in Int
      /\ GridError(grid) >= 0 => rounded >= 0
      /\ GridError(grid) <= 0 => rounded <= 0
  <2>1. rounded \in Int
    BY <1>2, RoundIsInt
  <2>2. ASSUME NEW n \in Nat PROVE (2 * n + NominalPower) \div (2 * NominalPower) >= 0
    OBVIOUS
  <2>3. CASE GridError(grid) >= 0
    <3>1. rounded = (2 * (GridError(grid) * 100) + NominalPower) \div (2 * NominalPower)
      BY <1>2, <2>3 DEF RoundAwayFromZero
    <3>2. rounded >= 0
      BY <1>2, <2>2, <2>3, <3>1
    <3>3. GridError(grid) <= 0 => rounded <= 0
      <4> SUFFICES ASSUME GridError(grid) = 0 PROVE rounded = 0
        BY <1>2, <2>3
      <4>1. rounded = NominalPower \div (2 * NominalPower)
        BY <3>1
      <4> QED BY <4>1
    <3> QED BY <2>1, <2>3, <3>2, <3>3
  <2>4. CASE GridError(grid) < 0
    <3>1. rounded
            = -((2 * (-(GridError(grid) * 100)) + NominalPower) \div (2 * NominalPower))
      BY <1>2, <2>4 DEF RoundAwayFromZero
    <3>2. -(GridError(grid) * 100) \in Nat
      BY <1>2, <2>4
    <3>3. (2 * (-(GridError(grid) * 100)) + NominalPower) \div (2 * NominalPower) >= 0
      BY <2>2, <3>2
    <3> HIDE DEF rounded
    <3> DEFINE q == (2 * (-(GridError(grid) * 100)) + NominalPower) \div (2 * NominalPower)
    <3>4. rounded = -q /\ q >= 0
      BY <3>1, <3>3
    <3>5. q \in Int
      BY <1>2
    <3> HIDE DEF q
    <3> QED BY <1>2, <2>1, <2>4, <3>4, <3>5
  <2> QED BY <1>2, <2>3, <2>4
<1>4. /\ FineTarget(grid, current) \in Int
      /\ GridError(grid) >= 0 => FineTarget(grid, current) >= current
      /\ GridError(grid) <= 0 => FineTarget(grid, current) <= current
  <2> HIDE DEF rounded
  <2>1. FineTarget(grid, current) = Clamp(current + rounded, MinimumLimit, MaximumLimit)
    BY DEF FineTarget, rounded
  <2> QED
    BY <1>1, <1>2, <1>3, <2>1 DEF Clamp, MinimumLimit, MaximumLimit
<1>5. /\ step \in -FineStep..FineStep
      /\ GridError(grid) >= 0 => step >= 0
      /\ GridError(grid) <= 0 => step <= 0
  BY <1>1, <1>2, <1>4 DEF Clamp
<1> HIDE DEF step
<1>6. FineLimit(grid, current) = Clamp(current + step, MinimumLimit, MaximumLimit)
  BY DEF FineLimit, step
<1>7. /\ Magnitude(FineLimit(grid, current) - current) <= FineStep
      /\ GridError(grid) >= 0 => FineLimit(grid, current) >= current
      /\ GridError(grid) <= 0 => FineLimit(grid, current) <= current
  BY <1>1, <1>2, <1>5, <1>6 DEF Clamp, MinimumLimit, MaximumLimit, Magnitude
<1>8. AppliedLimit(grid, measured, current) = current
      \/ AppliedLimit(grid, measured, current) = FineLimit(grid, current)
  BY <1>2 DEF AppliedLimit, Magnitude
<1> QED
  BY <1>1, <1>7, <1>8 DEF Magnitude

(* A rounded quotient is at most half a unit away from the exact one.      *)
LEMMA DivisionBounds ==
  ASSUME NEW a \in Nat, NEW b \in Nat \ {0}
  PROVE  a \div b \in Nat /\ b * (a \div b) <= a /\ a < b * (a \div b) + b
  OBVIOUS

LEMMA RoundedIsClose ==
  ASSUME NEW n \in Nat, NEW d \in Nat \ {0}
  PROVE  LET q == (2 * n + d) \div (2 * d)
         IN q \in Nat /\ 2 * (d * q) <= 2 * n + d /\ 2 * n < 2 * (d * q) + d
<1> DEFINE a == 2 * n + d
           b == 2 * d
           q == a \div b
<1>1. b \in Nat \ {0} /\ a \in Nat
  OBVIOUS
<1> HIDE DEF a, b
<1>2. q \in Nat /\ b * q <= a /\ a < b * q + b
  BY <1>1, DivisionBounds
<1> HIDE DEF q
<1>3. b * q = 2 * (d * q) /\ d * q \in Nat
  BY <1>2 DEF b
<1>4. q \in Nat /\ 2 * (d * q) <= a /\ a < 2 * (d * q) + 2 * d
  BY <1>2, <1>3 DEF b
<1> DEFINE p == d * q
<1>5. p \in Nat /\ 2 * p <= 2 * n + d /\ 2 * n + d < 2 * p + 2 * d
  BY <1>3, <1>4 DEF a
<1> HIDE DEF p
<1>6. 2 * p <= 2 * n + d /\ 2 * n < 2 * p + d
  BY <1>5
<1> QED
  BY <1>2, <1>6 DEF p, q, a, b

LEMMA RoundIsClose ==
  ASSUME NEW num \in Int, NEW den \in Nat \ {0}
  PROVE  LET q == RoundAwayFromZero(num, den)
         IN /\ q \in Int /\ den * q \in Int
            /\ 2 * (den * q) <= 2 * num + den /\ 2 * num <= 2 * (den * q) + den
            /\ num >= 0 => q >= 0
            /\ num <= 0 => q <= 0
<1>1. CASE num >= 0
  <2> DEFINE q == (2 * num + den) \div (2 * den)
  <2>0. num \in Nat
    BY <1>1
  <2>1. q \in Nat /\ 2 * (den * q) <= 2 * num + den /\ 2 * num < 2 * (den * q) + den
    BY <2>0, RoundedIsClose
  <2>2. RoundAwayFromZero(num, den) = q
    BY <1>1 DEF RoundAwayFromZero
  <2>3. num = 0 => q = 0
    OBVIOUS
  <2> HIDE DEF q
  <2>4. den * q \in Nat
    BY <2>1
  <2> QED
    BY <1>1, <2>1, <2>2, <2>3, <2>4
<1>2. CASE num < 0
  <2> DEFINE m == -num
             q == (2 * m + den) \div (2 * den)
  <2>0. m \in Nat
    BY <1>2
  <2> HIDE DEF m
  <2>1. q \in Nat /\ 2 * (den * q) <= 2 * m + den /\ 2 * m < 2 * (den * q) + den
    BY <2>0, RoundedIsClose
  <2>2. RoundAwayFromZero(num, den) = -q
    BY <1>2 DEF RoundAwayFromZero, m
  <2> HIDE DEF q
  <2>3. den * (-q) = -(den * q) /\ den * q \in Nat
    BY <2>1
  <2>4. num = -m
    BY DEF m
  <2> DEFINE p == den * q
             s == -q
  <2>5. s \in Int /\ den * s = -p /\ p \in Nat /\ s <= 0
        /\ 2 * p <= 2 * m + den /\ 2 * m < 2 * p + den
    BY <2>1, <2>3
  <2>6. RoundAwayFromZero(num, den) = s
    BY <2>2
  <2> HIDE DEF p, s
  <2>7. /\ -p \in Int /\ 2 * (-p) <= 2 * num + den /\ 2 * num <= 2 * (-p) + den
    BY <2>0, <2>4, <2>5
  <2> QED
    BY <1>2, <2>5, <2>6, <2>7
<1> QED
  BY <1>1, <1>2

LEMMA ProductIsMonotone ==
  ASSUME NEW n \in Nat, NEW a \in Int, NEW b \in Int, a <= b
  PROVE  n * a \in Int /\ n * b \in Int /\ n * a <= n * b
<1>1. b - a \in Nat /\ n * (b - a) \in Nat
  OBVIOUS
<1>2. n * (b - a) = n * b - n * a
  OBVIOUS
<1> QED
  BY <1>1, <1>2

(* One large correction is enough: once the plant produces what the limit  *)
(* of calculate_predictive_power_limit allows, and pv has been read again, *)
(* the same load asks for no other limit, be the limit reached or cut off  *)
(* at 2 or 100 percent.  A deadband narrower than half a percent of the    *)
(* plant would not do: a rounded half then leaves an error that rounds     *)
(* back.                                                                   *)
THEOREM OneCorrectionIsEnough ==
  ASSUME NEW house \in Int, NEW before \in Int, NEW after \in Int,
         200 * Deadband >= NominalPower,
         100 * after = PredictiveLimit(house - before, before) * NominalPower
  PROVE  ~CommandNeeded(house - after, after, PredictiveLimit(house - before, before))
<1> USE DecisionAssumption
<1> DEFINE L == PredictiveLimit(house - before, before)
           num == (house - Target) * 100
           R == RoundAwayFromZero(num, NominalPower)
           P == NominalPower * R
           grid == house - after
           e == GridError(grid)
           q == RoundAwayFromZero(e * 100, NominalPower)
<1>1. /\ before + (house - before) - Target = house - Target
      /\ after + (house - after) - Target = house - Target
      /\ num \in Int /\ e \in Int /\ e * 100 \in Int /\ 100 * e = num - 100 * after
  BY DEF GridError
<1>2. /\ R \in Int /\ P \in Int
      /\ 2 * P <= 2 * num + NominalPower /\ 2 * num <= 2 * P + NominalPower
  BY <1>1, RoundIsClose
<1>3. q \in Int /\ (e >= 0 => q >= 0) /\ (e <= 0 => q <= 0)
  <2> HIDE DEF e
  <2>1. e * 100 >= 0 <=> e >= 0
    BY <1>1
  <2>2. e * 100 <= 0 <=> e <= 0
    BY <1>1
  <2> QED
    BY <1>1, <2>1, <2>2, RoundIsClose
<1>4. /\ L = Clamp(R, MinimumLimit, MaximumLimit)
      /\ PredictiveLimit(grid, after) = L
  BY <1>1 DEF PredictiveLimit
<1> HIDE DEF L, num, R, e, q, grid
<1>5. /\ L \in MinimumLimit..MaximumLimit
      /\ R \in MinimumLimit..MaximumLimit => L = R
      /\ R < MinimumLimit => L = MinimumLimit
      /\ R > MaximumLimit => L = MaximumLimit
  BY <1>2, <1>4 DEF Clamp, MinimumLimit, MaximumLimit
<1>6. FineTarget(grid, L) = Clamp(L + q, MinimumLimit, MaximumLimit)
  BY DEF FineTarget, q, e
<1>7. FineTarget(grid, L) = L => FineLimit(grid, L) = L
  BY <1>5 DEF FineLimit, Clamp, MinimumLimit, MaximumLimit
<1>8. WithinDeadband(grid) \/ FineTarget(grid, L) = L
  <2>1. 200 * e = 2 * num - 2 * (L * NominalPower)
    <3>1. 100 * after = L * NominalPower
      BY DEF L
    <3> QED
      BY <1>1, <3>1
  <2>2. L * NominalPower = NominalPower * L /\ NominalPower * L \in Int
    BY <1>5 DEF MinimumLimit, MaximumLimit
  <2>3. CASE R \in MinimumLimit..MaximumLimit
    <3>1. L * NominalPower = P
      BY <1>5, <2>2, <2>3
    <3> HIDE DEF P
    <3>2. 200 * e <= NominalPower /\ -NominalPower <= 200 * e
      BY <1>1, <1>2, <2>1, <3>1
    <3>3. e <= Deadband /\ -Deadband <= e
      BY <1>1, <3>2
    <3> QED
      BY <1>1, <3>3 DEF WithinDeadband, Magnitude, e
  <2>4. CASE R < MinimumLimit
    <3>1. L = 2 /\ L * NominalPower = 2 * NominalPower
      BY <1>5, <2>4 DEF MinimumLimit
    <3>2. P <= NominalPower
      <4>1. R <= 1
        BY <1>2, <2>4 DEF MinimumLimit
      <4>2. NominalPower * R <= NominalPower * 1
        BY <1>2, <4>1, ProductIsMonotone
      <4> QED
        BY <4>2
    <3> HIDE DEF P
    <3>3. e <= 0
      BY <1>1, <1>2, <2>1, <3>1, <3>2
    <3> QED
      BY <1>1, <1>3, <1>6, <3>1, <3>3 DEF Clamp, MinimumLimit, MaximumLimit
  <2>5. CASE R > MaximumLimit
    <3>1. L = 100 /\ L * NominalPower = 100 * NominalPower
      BY <1>5, <2>5 DEF MaximumLimit
    <3>2. 101 * NominalPower <= P
      <4>1. 101 <= R
        BY <1>2, <2>5 DEF MaximumLimit
      <4>2. NominalPower * 101 <= NominalPower * R
        BY <1>2, <4>1, ProductIsMonotone
      <4> QED
        BY <4>2
    <3> HIDE DEF P
    <3>3. e >= 0
      BY <1>1, <1>2, <2>1, <3>1, <3>2
    <3> QED
      BY <1>1, <1>3, <1>6, <3>1, <3>3 DEF Clamp, MinimumLimit, MaximumLimit
  <2> QED
    BY <1>2, <2>3, <2>4, <2>5 DEF MinimumLimit, MaximumLimit
<1> QED
  BY <1>4, <1>7, <1>8 DEF CommandNeeded, AppliedLimit, grid, L

(* Every fine correction brings the grid nearer to its target: it never    *)
(* overshoots by as much as it corrects, so the loop cannot oscillate      *)
(* between two limits, and the corrections of an unchanged load are fewer  *)
(* than its first error has watts.                                         *)
THEOREM EveryFineCorrectionHelps ==
  ASSUME NEW house \in Int, NEW before \in Int, NEW after \in Int, NEW measured \in Int,
         NEW current \in Limits,
         200 * Deadband >= NominalPower,
         100 * before = current * NominalPower,
         CommandNeeded(house - before, measured, current),
         Magnitude(GridError(house - before)) < PredictiveThreshold,
         100 * after = AppliedLimit(house - before, measured, current) * NominalPower
  PROVE  Magnitude(GridError(house - after)) < Magnitude(GridError(house - before))
<1> USE DecisionAssumption
<1> DEFINE grid == house - before
           e == GridError(grid)
           q == RoundAwayFromZero(e * 100, NominalPower)
           P == NominalPower * q
           f == FineLimit(grid, current)
           s == f - current
           S == NominalPower * s
           rest == GridError(house - after)
<1>1. /\ e \in Int /\ e * 100 \in Int /\ rest \in Int
      /\ rest = e + before - after
  BY DEF GridError
<1>2. /\ q \in Int /\ P \in Int
      /\ 2 * P <= 200 * e + NominalPower /\ 200 * e <= 2 * P + NominalPower
      /\ e >= 0 => q >= 0
      /\ e <= 0 => q <= 0
  <2> HIDE DEF e
  <2> DEFINE num == e * 100
  <2>1. /\ num \in Int /\ 2 * num = 200 * e /\ (num >= 0 <=> e >= 0) /\ (num <= 0 <=> e <= 0)
    BY <1>1
  <2> HIDE DEF num
  <2> DEFINE r == RoundAwayFromZero(num, NominalPower)
  <2>2. /\ r \in Int /\ NominalPower * r \in Int
        /\ 2 * (NominalPower * r) <= 2 * num + NominalPower
        /\ 2 * num <= 2 * (NominalPower * r) + NominalPower
        /\ num >= 0 => r >= 0
        /\ num <= 0 => r <= 0
    BY <2>1, RoundIsClose
  <2>3. r = q
    BY DEF num
  <2> HIDE DEF r, q
  <2> QED
    BY <2>1, <2>2, <2>3
<1>3. ~WithinDeadband(grid) /\ AppliedLimit(grid, measured, current) = f /\ f # current
  <2>1. AppliedLimit(grid, measured, current) # current
    BY DEF CommandNeeded
  <2>2. ~WithinDeadband(grid)
    BY <2>1 DEF AppliedLimit
  <2>3. ~(Magnitude(GridError(grid)) >= PredictiveThreshold)
    BY <1>1 DEF Magnitude
  <2> QED
    BY <2>1, <2>2, <2>3 DEF AppliedLimit
<1>4. e > Deadband \/ -e > Deadband
  BY <1>1, <1>3 DEF WithinDeadband, Magnitude
<1> HIDE DEF e, q
<1>5. /\ s \in Int /\ s # 0
      /\ q >= 0 => s <= q /\ s >= 0
      /\ q <= 0 => q <= s /\ s <= 0
  <2>1. current \in Int /\ current >= MinimumLimit /\ current <= MaximumLimit
    BY DEF Limits, MinimumLimit, MaximumLimit
  <2> DEFINE target == FineTarget(grid, current)
             step == Clamp(target - current, -FineStep, FineStep)
  <2>2. target = Clamp(current + q, MinimumLimit, MaximumLimit)
    BY DEF FineTarget, q, e
  <2> HIDE DEF target
  <2>3. /\ target \in Int
        /\ q >= 0 => target >= current /\ target - current <= q
        /\ q <= 0 => target <= current /\ q <= target - current
    BY <1>2, <2>1, <2>2 DEF Clamp, MinimumLimit, MaximumLimit
  <2>4. /\ step \in Int
        /\ q >= 0 => step >= 0 /\ step <= q
        /\ q <= 0 => step <= 0 /\ q <= step
    BY <1>2, <2>1, <2>3 DEF Clamp
  <2> HIDE DEF step
  <2>5. f = Clamp(current + step, MinimumLimit, MaximumLimit)
    BY DEF FineLimit, step, target
  <2> QED
    BY <1>2, <1>3, <2>1, <2>4, <2>5 DEF Clamp, MinimumLimit, MaximumLimit
<1>6. 200 * rest = 200 * e - 2 * S /\ S \in Int
  <2>1. 100 * before = current * NominalPower /\ 100 * after = f * NominalPower
    BY <1>3
  <2>2. f = current + s /\ current \in Int
    <3>1. f \in Limits
      <4>1. grid \in Int
        OBVIOUS
      <4> HIDE DEF grid
      <4> QED
        BY <4>1, TargetsAreLimits
    <3> HIDE DEF f
    <3> QED
      BY <3>1 DEF Limits, MinimumLimit, MaximumLimit
  <2> HIDE DEF f, s
  <2>3. f * NominalPower = current * NominalPower + S /\ S \in Int
        /\ current * NominalPower \in Int
    BY <1>5, <2>2
  <2> HIDE DEF S
  <2> DEFINE A == current * NominalPower
             B == f * NominalPower
  <2>4. 100 * before = A /\ 100 * after = B /\ B = A + S /\ A \in Int
    BY <2>1, <2>3
  <2> HIDE DEF A, B, rest
  <2> QED
    BY <1>1, <2>3, <2>4
<1> HIDE DEF s, rest
<1>7. CASE e > Deadband
  <2>1. q >= 0 /\ s >= 1 /\ s <= q
    BY <1>1, <1>2, <1>5, <1>7
  <2>2. NominalPower * 1 <= S /\ S <= P
    BY <1>2, <1>5, <2>1, ProductIsMonotone
  <2> HIDE DEF S, P
  <2>3. rest < e /\ -e < rest
    BY <1>1, <1>2, <1>6, <1>7, <2>2
  <2> QED
    BY <1>1, <1>7, <2>3 DEF Magnitude, rest, e
<1>8. CASE -e > Deadband
  <2>1. q <= 0 /\ s <= -1 /\ q <= s
    BY <1>1, <1>2, <1>5, <1>8
  <2>2. P <= S /\ S <= NominalPower * (-1)
    BY <1>2, <1>5, <2>1, ProductIsMonotone
  <2>3. NominalPower * (-1) = -NominalPower
    OBVIOUS
  <2> HIDE DEF S, P
  <2>4. e < rest /\ rest < -e
    BY <1>1, <1>2, <1>6, <1>8, <2>2, <2>3
  <2> QED
    BY <1>1, <1>8, <2>4 DEF Magnitude, rest, e
<1> QED
  BY <1>4, <1>7, <1>8

-----------------------------------------------------------------------------
(* The scheduler.                                                          *)

(* Every method of the scheduler returns a scheduler and keeps the lock    *)
(* accounting: only a start takes the lock, only an end frees it, and what *)
(* leaves it held leaves the state alone.                                  *)
LEMMA SchedulerMethods ==
  ASSUME NEW s \in Scheduler, NEW delay \in StabilizationDelays
  PROVE  /\ NewScheduler(delay) \in Scheduler /\ ~NewScheduler(delay).locked
         /\ AfterConfigure(s, delay) \in Scheduler
         /\ AfterConfigure(s, delay).locked = s.locked
         /\ AfterConfigure(s, delay).state = s.state
         /\ AfterPause(s) \in Scheduler /\ AfterPause(s).locked = s.locked
         /\ s.locked => AfterPause(s) = s
         /\ AfterReset(s) \in Scheduler /\ AfterReset(s).locked = s.locked
         /\ s.locked => AfterReset(s) = s
         /\ AfterBlock(s) \in Scheduler /\ AfterBlock(s).locked = s.locked
         /\ AfterStart(s) \in Scheduler
         /\ AfterStart(s).locked /\ AfterStart(s).state = "Writing"
         /\ AfterConfirmation(s) \in Scheduler /\ ~AfterConfirmation(s).locked
         /\ AfterFailure(s) \in Scheduler /\ ~AfterFailure(s).locked
         /\ Stabilizing(s) => AfterElapse(s) \in Scheduler
         /\ AfterElapse(s).locked = s.locked /\ AfterElapse(s).state = s.state
<1> USE StabilizationAssumption DEF Scheduler, SchedulerState
<1>1. NewScheduler(delay) \in Scheduler /\ ~NewScheduler(delay).locked
  BY DEF NewScheduler
<1>2. /\ AfterConfigure(s, delay) \in Scheduler
      /\ AfterConfigure(s, delay).locked = s.locked
      /\ AfterConfigure(s, delay).state = s.state
  BY DEF AfterConfigure
<1>3. /\ AfterPause(s) \in Scheduler /\ AfterPause(s).locked = s.locked
      /\ s.locked => AfterPause(s) = s
  BY DEF AfterPause
<1>4. /\ AfterReset(s) \in Scheduler /\ AfterReset(s).locked = s.locked
      /\ s.locked => AfterReset(s) = s
  BY DEF AfterReset
<1>5. AfterBlock(s) \in Scheduler /\ AfterBlock(s).locked = s.locked
  BY DEF AfterBlock
<1>6. /\ AfterStart(s) \in Scheduler
      /\ AfterStart(s).locked /\ AfterStart(s).state = "Writing"
  BY DEF AfterStart
<1>7. AfterConfirmation(s) \in Scheduler /\ ~AfterConfirmation(s).locked
  BY DEF AfterConfirmation
<1>8. AfterFailure(s) \in Scheduler /\ ~AfterFailure(s).locked
  BY DEF AfterFailure
<1>9. /\ Stabilizing(s) => AfterElapse(s) \in Scheduler
      /\ AfterElapse(s).locked = s.locked /\ AfterElapse(s).state = s.state
  BY DEF AfterElapse, Stabilizing
<1> QED
  BY <1>1, <1>2, <1>3, <1>4, <1>5, <1>6, <1>7, <1>8, <1>9

(* Before a tick writes, its scheduler has been through resets at most.    *)
LEMMA RecoveredIsScheduler ==
  ASSUME scheduler \in Scheduler
  PROVE  /\ AfterGrid \in Scheduler /\ AfterGrid.locked = scheduler.locked
         /\ Recovered \in Scheduler /\ Recovered.locked = scheduler.locked
<1>1. scheduler.delay \in StabilizationDelays
  BY DEF Scheduler
<1>2. AfterGrid \in Scheduler /\ AfterGrid.locked = scheduler.locked
  BY <1>1, SchedulerMethods DEF AfterGrid
<1>3. AfterReset(AfterGrid) \in Scheduler /\ AfterReset(AfterGrid).locked = AfterGrid.locked
  BY <1>1, <1>2, SchedulerMethods
<1> QED
  BY <1>2, <1>3 DEF Recovered

(* The inductive invariant is the conjunction of what is claimed: that a   *)
(* command's end frees the scheduler needs the accounting of the lock, and *)
(* that accounting needs the types.                                        *)
ControllerInv == TypeOK /\ CommandOwnsScheduler /\ ManualForgets

LEMMA PlantIsInt == WattsPerPercent \in Int /\ Limits \subseteq Int
<1>1. NominalPower \div 100 \in Int
  BY DecisionAssumption, QuotientIsInt
<1> QED
  BY <1>1 DEF WattsPerPercent, Limits, MinimumLimit, MaximumLimit

LEMMA InitEstablishes == Init => ControllerInv
<1> SUFFICES ASSUME Init PROVE ControllerInv
  OBVIOUS
<1> USE ControllerAssumption
<1>1. PICK delay \in StabilizationDelays : scheduler = NewScheduler(delay)
  BY DEF Init
<1>2. scheduler \in Scheduler /\ ~scheduler.locked
  BY <1>1 DEF NewScheduler, Scheduler, SchedulerState
<1>3. limit \in Limits /\ limit * WattsPerPercent \in Int
  BY PlantIsInt DEF Init
<1>4. TypeOK
  <2>1. takeoverPending \in BOOLEAN
    BY Zenon DEF Init
  <2>2. evaluated \in [grid : Int, pv : Int, limit : Limits \cup {0}]
    BY DEF Init, NoSnapshot
  <2>3. validGrid \in 0..(ValidRequired + 1) /\ validInARow \in 0..ValidRequired
    BY DEF Init
  <2>4. /\ mode \in {"Disabled", "Production"} /\ configChanged = TRUE /\ tick = "idle"
        /\ commanded = limit /\ reference \in {"writable", "none"}
        /\ synchronized = TRUE /\ manualWrite = FALSE /\ telemetryFresh = TRUE
        /\ gridSensor \in BOOLEAN /\ load \in Loads
        /\ output = limit * WattsPerPercent /\ pv = output
        /\ disturbed = 0 /\ settling = 0
    BY Zenon DEF Init
  <2> QED
    <3>1. 0 \in 0..MaxDisturbances
      OBVIOUS
    <3>2. commanded \in Limits /\ output \in Int /\ pv \in Int /\ settling \in Nat
      BY <1>3, <2>4
    <3> QED
      BY <1>2, <1>3, <2>1, <2>2, <2>3, <2>4, <3>1, <3>2, Zenon DEF TypeOK
<1>5. CommandOwnsScheduler /\ ManualForgets
  BY <1>2 DEF Init, CommandOwnsScheduler, Awaiting, ManualForgets
<1> QED
  BY <1>4, <1>5 DEF ControllerInv

-----------------------------------------------------------------------------
(* The ticks.                                                              *)

LEMMA TickPreserves == ControllerInv /\ Tick => ControllerInv'
<1> SUFFICES ASSUME ControllerInv, Tick PROVE ControllerInv'
  OBVIOUS
<1> USE ControllerAssumption DEF ControllerInv, coordinatorVars, houseVars, historyVars,
                                decisionVars, CommandOwnsScheduler, ManualForgets, Awaiting
<1>1. scheduler \in Scheduler /\ scheduler.delay \in StabilizationDelays
  BY DEF TypeOK, Scheduler
<1>2. /\ AfterGrid \in Scheduler /\ AfterGrid.locked = scheduler.locked
      /\ Recovered \in Scheduler /\ Recovered.locked = scheduler.locked
  BY <1>1, RecoveredIsScheduler
<1>3. /\ AfterPause(AfterGrid) \in Scheduler
       /\ AfterPause(AfterGrid).locked = scheduler.locked
  BY <1>1, <1>2, SchedulerMethods
<1>4. /\ AfterPause(Recovered) \in Scheduler
       /\ AfterPause(Recovered).locked = scheduler.locked
       /\ AfterBlock(Recovered) \in Scheduler
       /\ AfterBlock(Recovered).locked = scheduler.locked
       /\ AfterStart(Recovered) \in Scheduler
       /\ AfterStart(Recovered).locked
       /\ AfterStart(Recovered).state = "Writing"
  BY <1>1, <1>2, SchedulerMethods
<1>5. Snapshot \in [grid : Int, pv : Int, limit : Limits \cup {0}]
  BY DEF Snapshot, Grid, TypeOK
<1>6. AppliedLimit(Grid, pv, limit) \in Limits
  <2>1. Grid \in Int /\ pv \in Int /\ limit \in Limits
    BY DEF Grid, TypeOK
  <2> QED BY <2>1, AppliedLimitIsLegal
<1>7. ASSUME Decided
       PROVE  /\ evaluated' \in [grid : Int, pv : Int, limit : Limits \cup {0}]
              /\ mode' # "Disabled" /\ ~scheduler.locked
  BY <1>5, <1>7 DEF Decided, GridTrusted, GridRead, TickBegins, TypeOK
<1>8. ASSUME Decided, scheduler' \in Scheduler, tick' \in {"idle", "command"},
              commanded' \in Limits
       PROVE  TypeOK'
  <2>1. GridRead /\ configChanged' = FALSE
    BY <1>8 DEF Decided, GridTrusted
  <2> HIDE DEF ControllerInv
  <2>2. validGrid' \in 0..(ValidRequired + 1) /\ validInARow' \in 0..ValidRequired
    BY <2>1 DEF GridRead, TypeOK, ControllerInv
  <2>3. UNCHANGED <<mode, takeoverPending, coordinatorVars, houseVars, settling>>
    BY <2>1 DEF GridRead, TickBegins
  <2> QED
    BY <1>7, <1>8, <2>1, <2>2, <2>3 DEF TypeOK, ControllerInv
<1>9. CASE TickDisabled
  BY <1>9 DEF TickDisabled, TypeOK
<1>10. CASE TickNoGrid
  BY <1>1, <1>10, SchedulerMethods DEF TickNoGrid, TickBegins, TypeOK
<1>11. CASE TickCountingGrid
  BY <1>1, <1>11, SchedulerMethods DEF TickCountingGrid, GridRead, TickBegins, TypeOK
<1>12. CASE TickNoReference
  BY <1>3, <1>12
     DEF TickNoReference, GridTrusted, GridRead, TickBegins, TypeOK
<1>13. CASE TickUnsynchronized
  BY <1>2, <1>13 DEF TickUnsynchronized, GridTrusted, GridRead, TickBegins, TypeOK
<1>14. CASE TickUnchanged
  BY <1>2, <1>14 DEF TickUnchanged, GridTrusted, GridRead, TickBegins, TypeOK
<1>15. CASE TickNoCommand
  <2>1. TypeOK'
    BY <1>2, <1>15, <1>8 DEF TickNoCommand, TypeOK
  <2> QED
    BY <1>2, <1>15, <1>7, <2>1 DEF TickNoCommand
<1>16. CASE TickBlocked
  <2>1. TypeOK'
    BY <1>16, <1>4, <1>8 DEF TickBlocked, TypeOK
  <2> QED
    BY <1>16, <1>4, <1>7, <2>1 DEF TickBlocked
<1>17. CASE TickWritesUnavailable
  <2>1. TypeOK'
    BY <1>17, <1>4, <1>8 DEF TickWritesUnavailable, TypeOK
  <2> QED
    BY <1>17, <1>4, <1>7, <2>1 DEF TickWritesUnavailable
<1>18. CASE TickCommand
  <2>1. TypeOK'
    BY <1>6, <1>18, <1>4, <1>8 DEF TickCommand
  <2> QED
    BY <1>18, <1>4, <1>7, <2>1 DEF TickCommand
<1>19. CASE TickTakeoverBlocked
  BY <1>1, <1>19, SchedulerMethods DEF TickTakeoverBlocked, TypeOK
<1>20. CASE TickTakeover
  BY <1>1, <1>20, SchedulerMethods DEF TickTakeover, TypeOK
<1> QED
  BY <1>9, <1>10, <1>11, <1>12, <1>13, <1>14, <1>15, <1>16, <1>17, <1>18, <1>19, <1>20 DEF Tick

-----------------------------------------------------------------------------
(* The end of a command, and everybody else.                               *)

LEMMA DisturbanceIsCounted ==
  ASSUME TypeOK, NEW kind, Disturb(kind)
  PROVE  disturbed' \in 0..MaxDisturbances
  BY ControllerAssumption DEF TypeOK, Disturb

LEMMA CommandEndPreserves == ControllerInv /\ CommandReturns => ControllerInv'
<1> SUFFICES ASSUME ControllerInv, CommandReturns PROVE ControllerInv'
  OBVIOUS
<1> USE ControllerAssumption DEF ControllerInv, houseVars, historyVars, decisionVars,
                                CommandOwnsScheduler, ManualForgets, Awaiting
<1>1. scheduler \in Scheduler /\ scheduler.delay \in StabilizationDelays
  BY DEF TypeOK, Scheduler
<1>2. scheduler.delay \in Nat
  BY <1>1, StabilizationAssumption
<1>3. /\ AfterConfirmation(scheduler) \in Scheduler /\ ~AfterConfirmation(scheduler).locked
      /\ AfterFailure(scheduler) \in Scheduler /\ ~AfterFailure(scheduler).locked
  BY <1>1, SchedulerMethods
<1>4. AfterTakeover \in BOOLEAN /\ (~takeoverPending => ~AfterTakeover)
  BY DEF AfterTakeover, TypeOK
<1>5. CASE CommandSucceeds
  BY <1>2, <1>3, <1>4, <1>5 DEF CommandSucceeds, TypeOK
<1>6. CASE CommandFails
  <2>1. synchronized' \in BOOLEAN
    BY <1>6 DEF CommandFails, TypeOK
  <2>2. disturbed' \in 0..MaxDisturbances
    BY <1>6, DisturbanceIsCounted DEF CommandFails
  <2> QED
    BY <1>3, <1>4, <1>6, <2>1, <2>2 DEF CommandFails, TypeOK
<1> QED
  BY <1>5, <1>6 DEF CommandReturns

LEMMA UserPreserves == ControllerInv /\ User => ControllerInv'
<1> SUFFICES ASSUME ControllerInv, User PROVE ControllerInv'
  OBVIOUS
<1> USE ControllerAssumption DEF ControllerInv, coordinatorVars, historyVars, decisionVars,
                                CommandOwnsScheduler, ManualForgets, Awaiting
<1>1. scheduler \in Scheduler /\ scheduler.delay \in StabilizationDelays
  BY DEF TypeOK, Scheduler
<1>2. /\ AfterReset(scheduler) \in Scheduler
      /\ AfterReset(scheduler).locked = scheduler.locked
      /\ scheduler.locked => AfterReset(scheduler) = scheduler
  BY <1>1, SchedulerMethods
<1>3. NoSnapshot \in [grid : Int, pv : Int, limit : Limits \cup {0}]
  BY DEF NoSnapshot
<1>4. CASE SelectManual
  <2>1. disturbed' \in 0..MaxDisturbances
    BY <1>4, DisturbanceIsCounted DEF SelectManual
  <2> QED
    BY <1>2, <1>3, <1>4, <2>1 DEF SelectManual, TypeOK
<1>5. CASE SelectAutomatic
  <2>1. disturbed' \in 0..MaxDisturbances
    BY <1>5, DisturbanceIsCounted DEF SelectAutomatic
  <2> QED
    BY <1>2, <1>5, <2>1 DEF SelectAutomatic, TypeOK
<1>6. CASE ChangeConfiguration
  <2>1. PICK delay \in StabilizationDelays : scheduler' = AfterConfigure(scheduler, delay)
    BY <1>6 DEF ChangeConfiguration
  <2>2. /\ scheduler' \in Scheduler /\ scheduler'.locked = scheduler.locked
        /\ scheduler'.state = scheduler.state
    BY <1>1, <2>1, SchedulerMethods
  <2>3. disturbed' \in 0..MaxDisturbances
    BY <1>6, DisturbanceIsCounted DEF ChangeConfiguration
  <2> QED
    BY <1>6, <2>2, <2>3 DEF ChangeConfiguration, TypeOK
<1>7. CASE ManualWriteStarts
  <2>1. disturbed' \in 0..MaxDisturbances
    BY <1>7, DisturbanceIsCounted DEF ManualWriteStarts
  <2> QED
    BY <1>7, <2>1 DEF ManualWriteStarts, TypeOK
<1> QED
  BY <1>4, <1>5, <1>6, <1>7 DEF User

LEMMA ManualWriteEndPreserves == ControllerInv /\ ManualWriteReturns => ControllerInv'
<1> SUFFICES ASSUME ControllerInv, ManualWriteReturns PROVE ControllerInv'
  OBVIOUS
<1> USE ControllerAssumption DEF ControllerInv, houseVars, historyVars, decisionVars,
                                CommandOwnsScheduler, ManualForgets, Awaiting
<1>1. scheduler \in Scheduler /\ scheduler.delay \in StabilizationDelays
  BY DEF TypeOK, Scheduler
<1>2. /\ AfterPause(scheduler) \in Scheduler
      /\ AfterPause(scheduler).locked = scheduler.locked
      /\ scheduler.locked => AfterPause(scheduler) = scheduler
  BY <1>1, SchedulerMethods
<1>3. CASE ManualWriteSucceeds
  BY <1>3 DEF ManualWriteSucceeds, TypeOK
<1>4. CASE ManualWriteFails
  <2>1. disturbed' \in 0..MaxDisturbances
    BY <1>4, DisturbanceIsCounted DEF ManualWriteFails
  <2> QED
    BY <1>2, <1>4, <2>1 DEF ManualWriteFails, TypeOK
<1> QED
  BY <1>3, <1>4 DEF ManualWriteReturns

LEMMA EnvironmentPreserves == ControllerInv /\ Environment => ControllerInv'
<1> SUFFICES ASSUME ControllerInv, Environment PROVE ControllerInv'
  OBVIOUS
<1> USE ControllerAssumption
    DEF ControllerInv, controllerVars, coordinatorVars, houseVars, historyVars, decisionVars,
        CommandOwnsScheduler, ManualForgets, Awaiting
<1>1. scheduler \in Scheduler /\ scheduler.delay \in StabilizationDelays
  BY DEF TypeOK, Scheduler
<1>2. limit * WattsPerPercent \in Int
  BY PlantIsInt DEF TypeOK
<1>3. CASE RefreshTelemetry
  BY <1>3 DEF RefreshTelemetry, TypeOK
<1>4. CASE TelemetryAges
  <2>1. disturbed' \in 0..MaxDisturbances
    BY <1>4, DisturbanceIsCounted DEF TelemetryAges
  <2> QED
    BY <1>4, <2>1 DEF TelemetryAges, TypeOK
<1>5. CASE ReferenceFades
  <2>1. disturbed' \in 0..MaxDisturbances
    BY <1>5, DisturbanceIsCounted DEF ReferenceFades
  <2> QED
    BY <1>5, <2>1 DEF ReferenceFades, TypeOK
<1>6. CASE ReferenceRead
  BY <1>6 DEF ReferenceRead, TypeOK
<1>7. CASE GridSensorFails
  <2>1. disturbed' \in 0..MaxDisturbances
    BY <1>7, DisturbanceIsCounted DEF GridSensorFails
  <2> QED
    BY <1>7, <2>1 DEF GridSensorFails, TypeOK
<1>8. CASE GridSensorRecovers
  BY <1>8 DEF GridSensorRecovers, TypeOK
<1>9. CASE LoadChanges
  <2>1. disturbed' \in 0..MaxDisturbances
    BY <1>9, DisturbanceIsCounted DEF LoadChanges
  <2> QED
    BY <1>9, <2>1 DEF LoadChanges, TypeOK
<1>10. CASE OutputFollows
  BY <1>2, <1>10 DEF OutputFollows, TypeOK
<1>11. CASE TimePasses
  <2>1. /\ Stabilizing(scheduler) => AfterElapse(scheduler) \in Scheduler
        /\ AfterElapse(scheduler).locked = scheduler.locked
        /\ AfterElapse(scheduler).state = scheduler.state
    BY <1>1, SchedulerMethods
  <2> QED
    BY <1>11, <2>1 DEF TimePasses, TypeOK
<1> QED
  BY <1>3, <1>4, <1>5, <1>6, <1>7, <1>8, <1>9, <1>10, <1>11 DEF Environment

LEMMA StepPreserves == ControllerInv /\ [Next]_vars => ControllerInv'
<1> SUFFICES ASSUME ControllerInv, [Next]_vars PROVE ControllerInv'
  OBVIOUS
<1>1. CASE Next
  BY <1>1, TickPreserves, CommandEndPreserves, UserPreserves, ManualWriteEndPreserves,
     EnvironmentPreserves DEF Next
<1>2. CASE UNCHANGED vars
  BY <1>2 DEF vars, decisionVars, coordinatorVars, houseVars, historyVars, ControllerInv,
              TypeOK, CommandOwnsScheduler, ManualForgets, Awaiting
<1> QED
  BY <1>1, <1>2

LEMMA ControllerInvariant == Spec => []ControllerInv
  BY InitEstablishes, StepPreserves, PTL DEF Spec

-----------------------------------------------------------------------------
(* Every variable keeps its type; in particular every limit that is        *)
(* commanded is between 2 and 100 percent, whatever the sensors report.    *)
THEOREM ControllerTypes == Spec => []TypeOK
<1>1. ControllerInv => TypeOK
  BY DEF ControllerInv
<1> QED
  BY <1>1, ControllerInvariant, PTL

(* While a command is in flight its scheduler is not disturbed, whatever   *)
(* the user and the coordinator do meanwhile.                              *)
THEOREM CommandKeepsScheduler == Spec => []CommandOwnsScheduler
<1>1. ControllerInv => CommandOwnsScheduler
  BY DEF ControllerInv
<1> QED
  BY <1>1, ControllerInvariant, PTL

(* Manual mode keeps nothing of the last session, even if it is selected   *)
(* while a takeover or a correction is in flight.                          *)
THEOREM ManualForgetsTheSession == Spec => []ManualForgets
<1>1. ControllerInv => ManualForgets
  BY DEF ControllerInv
<1> QED
  BY <1>1, ControllerInvariant, PTL

-----------------------------------------------------------------------------
(* The series of usable readings.                                          *)

(* As long as the user does not switch modes, the counter a tick compares  *)
(* with ValidRequired is the length of the present series.  (In Manual a   *)
(* tick displays the readings without counting them, so a series survives  *)
(* a stay in Manual in the counter and not in the history.)                *)
SeriesIsCounted ==
  mode = "Production"
    => validInARow = IF validGrid >= ValidRequired THEN ValidRequired ELSE validGrid

LEMMA SeriesStep ==
  ASSUME "mode" \notin Disturbances, TypeOK, SeriesIsCounted, [Next]_vars
  PROVE  SeriesIsCounted' /\ (CorrectionStarts => validInARow' = ValidRequired)
<1> USE ControllerAssumption
<1>1. validGrid \in 0..(ValidRequired + 1) /\ validInARow \in 0..ValidRequired
      /\ ValidRequired \in Nat \ {0}
  BY DEF TypeOK
<1>2. CASE GridRead
  <2>1. /\ mode = "Production" /\ mode' = mode
        /\ validGrid' = IF validGrid > ValidRequired THEN validGrid ELSE validGrid + 1
        /\ validInARow' = IF validInARow = ValidRequired THEN validInARow ELSE validInARow + 1
    BY <1>2 DEF GridRead, TickBegins
  <2>2. validInARow = IF validGrid >= ValidRequired THEN ValidRequired ELSE validGrid
    BY <2>1 DEF SeriesIsCounted
  <2>3. SeriesIsCounted'
    BY <1>1, <2>1, <2>2 DEF SeriesIsCounted
  <2>4. validGrid + 1 >= ValidRequired => validInARow' = ValidRequired
    BY <1>1, <2>1, <2>2
  <2>5. CorrectionStarts => validGrid + 1 >= ValidRequired
    <3> SUFFICES ASSUME tick = "due", tick' = "command" PROVE validGrid + 1 >= ValidRequired
      BY DEF CorrectionStarts
    <3>1. Next
      BY <2>1, <1>1 DEF vars
    <3>2. TickCommand
      BY <3>1, <2>1
      DEF Next, Tick, TickDisabled, TickNoGrid, TickCountingGrid, TickNoReference,
          TickUnsynchronized, TickUnchanged, TickNoCommand, TickBlocked,
          TickWritesUnavailable, TickTakeoverBlocked, TickTakeover, CommandReturns,
          CommandSucceeds, CommandFails, Awaiting, User, SelectManual, SelectAutomatic,
          ChangeConfiguration, ManualWriteStarts, ManualWriteReturns, ManualWriteSucceeds,
          ManualWriteFails, Environment, RefreshTelemetry, TelemetryAges, ReferenceFades,
          ReferenceRead, GridSensorFails, GridSensorRecovers, LoadChanges, OutputFollows,
          TimePasses, controllerVars
    <3> QED
      BY <3>2 DEF TickCommand, Decided, GridTrusted
  <2> QED
    BY <2>3, <2>4, <2>5
<1>3. CASE ~GridRead
  <2>1. ~TickCommand
    BY <1>3 DEF TickCommand, Decided, GridTrusted
  <2>2. ~Disturb("mode")
    BY DEF Disturb
  <2>3. ~SelectManual /\ ~SelectAutomatic
    BY <2>2 DEF SelectManual, SelectAutomatic
  <2>4. CASE TickDisabled
    BY <2>4 DEF TickDisabled, SeriesIsCounted, CorrectionStarts
  <2>5. CASE TickNoGrid
    BY <1>1, <2>5 DEF TickNoGrid, TickBegins, SeriesIsCounted, CorrectionStarts
  <2>6. CASE TickTakeoverBlocked \/ TickTakeover
    BY <2>6 DEF TickTakeoverBlocked, TickTakeover, historyVars, SeriesIsCounted, CorrectionStarts
  <2>7. CASE CommandReturns
    BY <2>7 DEF CommandReturns, CommandSucceeds, CommandFails, historyVars, SeriesIsCounted,
                CorrectionStarts
  <2>8. CASE ChangeConfiguration \/ ManualWriteStarts \/ ManualWriteReturns
    BY <2>8 DEF ChangeConfiguration, ManualWriteStarts, ManualWriteReturns,
                ManualWriteSucceeds, ManualWriteFails, historyVars, SeriesIsCounted,
                CorrectionStarts
  <2>9. CASE Environment
    BY <2>9 DEF Environment, RefreshTelemetry, TelemetryAges, ReferenceFades, ReferenceRead,
                GridSensorFails, GridSensorRecovers, LoadChanges, OutputFollows, TimePasses,
                controllerVars, historyVars, SeriesIsCounted, CorrectionStarts
  <2>10. CASE UNCHANGED vars
    BY <2>10 DEF vars, historyVars, SeriesIsCounted, CorrectionStarts
  <2>11. ~(TickCountingGrid \/ TickNoReference \/ TickUnsynchronized \/ TickUnchanged
           \/ TickNoCommand \/ TickBlocked \/ TickWritesUnavailable)
    BY <1>3 DEF TickCountingGrid, TickNoReference, TickUnsynchronized, TickUnchanged,
                TickNoCommand, TickBlocked, TickWritesUnavailable, Decided, GridTrusted
  <2> QED
    BY <2>1, <2>3, <2>4, <2>5, <2>6, <2>7, <2>8, <2>9, <2>10, <2>11 DEF Next, Tick, User
<1> QED
  BY <1>2, <1>3

(* A correction starts only after ValidRequired usable readings in a row,  *)
(* for every load, sensor failure, refresh and configuration, as long as   *)
(* the session lasts.                                                      *)
THEOREM InterruptionsRequireANewSeries ==
  ASSUME "mode" \notin Disturbances
  PROVE  Spec => InterruptionRequiresNewSeries
<1>1. Init => SeriesIsCounted
  BY ControllerAssumption DEF Init, SeriesIsCounted
<1>2. TypeOK /\ SeriesIsCounted /\ [Next]_vars => SeriesIsCounted'
  BY SeriesStep
<1>3. TypeOK /\ SeriesIsCounted /\ [Next]_vars
        => [CorrectionStarts => validInARow' = ValidRequired]_vars
  BY SeriesStep
<1> QED
  BY <1>1, <1>2, <1>3, ControllerTypes, PTL DEF Spec, InterruptionRequiresNewSeries

=============================================================================
