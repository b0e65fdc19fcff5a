--------------------------- MODULE Driver_proofs ----------------------------
(***************************************************************************)
(* The smoother bank's invariants under its own interface (SmootherBank),  *)
(* then the block driver's, and that it implements the frame-by-frame      *)
(* timeline: for every grid period, block size, timeline, event schedule   *)
(* and parameter list.                                                     *)
(***************************************************************************)
EXTENDS Driver, SmootherBank, WellFoundedInduction, TLAPS

\* Quotients by a positive divisor, as the solver needs them.
LEMMA Quotient ==
  ASSUME NEW a \in Nat, NEW b \in Nat \ {0}
  PROVE  /\ a \div b \in Nat
         /\ b * (a \div b) <= a
         /\ a < b * (a \div b) + b
  BY Z3

\* Products by the same factor keep an order, and lose none.
LEMMA TimesMono ==
  ASSUME NEW a \in Int, NEW b \in Int, NEW c \in Nat, a <= b
  PROVE  a * c <= b * c
  BY SMT

\* ... and lose none.
LEMMA TimesCancel ==
  ASSUME NEW a \in Int, NEW b \in Int, NEW c \in Nat \ {0}, a * c <= b * c
  PROVE  a <= b
  BY SMT

-----------------------------------------------------------------------------
\* A write's argument: a number or a non-finite one.
Writes == Int \cup {NonFinite}

LEMMA InfoFacts ==
  ASSUME NEW p \in Param
  PROVE  /\ Info[p].shape \in Shape
         /\ Info[p].lo \in Int /\ Info[p].hi \in Int /\ Info[p].default \in Int
         /\ Info[p].num \in Nat \ {0} /\ Info[p].den \in Nat \ {0}
         /\ Info[p].lo <= Info[p].default /\ Info[p].default <= Info[p].hi
         /\ Info[p].den <= Info[p].num
  BY InfoAssumption DEF InfoType

\* Clamping lands in the declared range and leaves what is inside alone.
LEMMA ClampFacts ==
  ASSUME NEW p \in Param, NEW v \in Int
  PROVE  /\ Clamp(p, v) \in Int
         /\ Info[p].lo <= Clamp(p, v) /\ Clamp(p, v) <= Info[p].hi
         /\ Info[p].lo <= v /\ v <= Info[p].hi => Clamp(p, v) = v
  BY InfoFacts DEF Clamp

\* ceil(steps) is at least one, and one step fewer is less than the full time.
LEMMA CeilFacts ==
  ASSUME NEW p \in Param
  PROVE  /\ CeilSteps(p) \in Nat /\ CeilSteps(p) >= 1
         /\ (CeilSteps(p) - 1) * Info[p].den < Info[p].num
<1> DEFINE n == Info[p].num
           d == Info[p].den
<1>1. n \in Nat \ {0} /\ d \in Nat \ {0}
  BY InfoFacts
<1> DEFINE c == CeilSteps(p)
<1>2. c = (n + d - 1) \div d
  BY DEF CeilSteps
<1>3. n + d - 1 \in Nat
  BY <1>1
<1>4. c \in Nat /\ d * c <= n + d - 1 /\ n + d - 1 < d * c + d
  BY <1>1, <1>2, <1>3, Quotient
<1> HIDE DEF n, d, c
<1>5. c >= 1
  BY <1>1, <1>4, SMT
<1>6. (c - 1) * d = d * c - d
  BY <1>1, <1>4, SMT
<1>7. (c - 1) * d < n
  BY <1>1, <1>4, <1>6
<1> QED
  BY <1>4, <1>5, <1>7 DEF n, d, c

LEMMA DistFacts ==
  ASSUME NEW a \in Int, NEW b \in Int
  PROVE  Dist(a, b) \in Nat /\ (Dist(a, b) = 0 <=> a = b)
  BY DEF Dist

\* Moving by no more than the distance stays between the two ends.
LEMMA TowardFacts ==
  ASSUME NEW a \in Int, NEW b \in Int, NEW d \in Nat
  PROVE  /\ Toward(a, b, d) \in Int
         /\ d <= Dist(a, b) =>
              /\ Dist(Toward(a, b, d), b) = Dist(a, b) - d
              /\ \/ a <= Toward(a, b, d) /\ Toward(a, b, d) <= b
                 \/ b <= Toward(a, b, d) /\ Toward(a, b, d) <= a
  BY DEF Dist, Toward

(***************************************************************************)
(* A Linear ramp's step, taken in every update but the last, does not      *)
(* cover more than the distance it was computed from.                      *)
(***************************************************************************)
LEMMA LinearDeltaFits ==
  ASSUME NEW p \in Param, NEW dist \in Nat
  PROVE  /\ LinearDelta(p, dist) \in Nat
         /\ (CeilSteps(p) - 1) * LinearDelta(p, dist) <= dist
<1> DEFINE n == Info[p].num
           d == Info[p].den
           c == CeilSteps(p) - 1
           m == dist * d
           q == LinearDelta(p, dist)
<1>1. n \in Nat \ {0} /\ d \in Nat \ {0}
  BY InfoFacts
<1>2. c \in Nat /\ c * d <= n
  BY <1>1, CeilFacts
<1>3. m \in Nat
  BY <1>1
<1>4. q = m \div n
  BY DEF LinearDelta
<1>5. q \in Nat /\ n * q <= m
  <2> HIDE DEF m, n
  <2> QED BY <1>1, <1>3, <1>4, Quotient
<1> HIDE DEF n, d, c, q
<1>6. (n * q) * c <= (dist * d) * c
  BY <1>1, <1>2, <1>3, <1>5, TimesMono DEF m
<1>7. (c * d) * dist <= n * dist
  BY <1>1, <1>2, TimesMono
<1>8. (n * q) * c = (c * q) * n /\ (dist * d) * c = (c * d) * dist
      /\ n * dist = dist * n
  BY <1>1, <1>2, <1>5, SMT
<1>9. (c * q) * n <= dist * n
  <2>1. (c * q) * n \in Int /\ (c * d) * dist \in Int /\ dist * n \in Int
    BY <1>1, <1>2, <1>5
  <2> QED BY <2>1, <1>6, <1>7, <1>8
<1>10. c * q <= dist
  <2>1. c * q \in Int
    BY <1>2, <1>5
  <2> HIDE DEF c, q
  <2> QED BY <1>1, <1>9, <2>1, TimesCancel
<1> QED
  BY <1>5, <1>10 DEF c, q

-----------------------------------------------------------------------------
\* A latched target: the value stays, and the new target replaces the old.
LEMMA RetargetFacts ==
  ASSUME NEW p \in Param, NEW s \in Smoother, NEW t \in Int
  PROVE  /\ Retarget(p, s, t) \in Smoother
         /\ Retarget(p, s, t).cur = s.cur
         /\ Retarget(p, s, t).target = t
<1>1. CeilSteps(p) \in Nat
  BY CeilFacts
<1>2. LinearDelta(p, Dist(s.cur, t)) \in Nat
  BY LinearDeltaFits, DistFacts DEF Smoother
<1>3. ExpDelta(p, Dist(s.cur, t)) \in Nat
  <2> DEFINE m == Dist(s.cur, t) * Info[p].den + Info[p].num - 1
  <2>1. Info[p].num \in Nat \ {0} /\ Info[p].den \in Nat \ {0}
    BY InfoFacts
  <2>2. Dist(s.cur, t) \in Nat
    BY DistFacts DEF Smoother
  <2>3. Dist(s.cur, t) * Info[p].den \in Nat
    BY <2>1, <2>2
  <2>4. m \in Nat
    BY <2>1, <2>3
  <2> HIDE DEF m
  <2>5. m \div Info[p].num \in Nat
    BY <2>1, <2>4, Quotient
  <2> QED BY <2>5 DEF ExpDelta, m
<1> QED
  BY <1>1, <1>2, <1>3 DEF Retarget, Smoother

LEMMA SetTargetType ==
  ASSUME NEW b \in Bank, NEW p, NEW v \in Writes
  PROVE  SetTarget(b, p, v) \in Bank
<1>1. CASE p \in Param /\ v # NonFinite
  <2>1. Clamp(p, v) \in Int
    BY <1>1, ClampFacts DEF Writes
  <2>2. Retarget(p, b[p], Clamp(p, v)) \in Smoother
    BY <1>1, <2>1, RetargetFacts DEF Bank
  <2> QED BY <1>1, <2>2 DEF SetTarget, Bank
<1>2. CASE ~(p \in Param /\ v # NonFinite)
  BY <1>2 DEF SetTarget
<1> QED BY <1>1, <1>2

LEMMA SetImmediateType ==
  ASSUME NEW b \in Bank, NEW p, NEW v \in Writes
  PROVE  SetImmediate(b, p, v) \in Bank
<1>1. CASE p \in Param /\ v # NonFinite
  <2>1. Clamp(p, v) \in Int
    BY <1>1, ClampFacts DEF Writes
  <2> QED BY <1>1, <2>1 DEF SetImmediate, At, Bank, Smoother
<1>2. CASE ~(p \in Param /\ v # NonFinite)
  BY <1>2 DEF SetImmediate
<1> QED BY <1>1, <1>2

LEMMA ShapeStepType ==
  ASSUME NEW p \in Param, NEW s \in Smoother
  PROVE  ShapeStep(p, s) \in Smoother
<1>1. At(s, s.target) \in Smoother /\ [s EXCEPT !.cur = s.target] \in Smoother
  BY DEF At, Smoother
<1> DEFINE Moved(v) == [s EXCEPT !.cur = v, !.left = s.left - 1]
<1>5. ASSUME NEW v \in Int, ~(s.left <= 1)
      PROVE  Moved(v) \in Smoother
  <2>1. s.left - 1 \in Nat
    BY <1>5 DEF Smoother
  <2> QED BY <2>1 DEF Smoother
<1> HIDE DEF Moved
<1>2. LinearStep(s) \in Smoother
  <2>1. Toward(s.cur, s.target, s.delta) \in Int
    BY TowardFacts DEF Smoother
  <2> QED BY <1>1, <1>5, <2>1 DEF LinearStep, Moved
<1>3. ExpStep(s) \in Smoother
  <2>1. ExpMove(s) \in Int
    BY TowardFacts DEF ExpMove, Smoother
  <2> QED BY <1>1, <1>5, <2>1 DEF ExpStep, Moved
<1>4. PoleStep(s) \in Smoother
  <2> DEFINE q == Dist(s.cur, s.target) \div PoleDiv
  <2>1. q \in Nat
    <3>1. Dist(s.cur, s.target) \in Nat /\ PoleDiv \in Nat \ {0}
      BY DistFacts, PoleAssumption DEF Smoother
    <3> QED BY <3>1, Quotient
  <2> HIDE DEF q
  <2>2. Toward(s.cur, s.target, q) \in Int
    BY <2>1, TowardFacts DEF Smoother
  <2>3. PoleStep(s) = [s EXCEPT !.cur = Toward(s.cur, s.target, q)]
    BY DEF PoleStep, q
  <2> QED BY <2>2, <2>3 DEF Smoother
<1> QED
  BY <1>1, <1>2, <1>3, <1>4 DEF ShapeStep

LEMMA StepOneType ==
  ASSUME NEW p \in Param, NEW s \in Smoother
  PROVE  /\ StepOne(p, s) \in Smoother
         /\ StepOne(p, s).target = ShapeStep(p, s).target
         /\ StepOne(p, s).left = ShapeStep(p, s).left
         /\ StepOne(p, s).delta = ShapeStep(p, s).delta
         /\ StepOne(p, s).cur = Clamp(p, ShapeStep(p, s).cur)
<1> DEFINE z == ShapeStep(p, s)
<1>1. z \in Smoother
  BY ShapeStepType
<1>2. Clamp(p, z.cur) \in Int
  BY <1>1, ClampFacts DEF Smoother
<1>3. StepOne(p, s) = [z EXCEPT !.cur = Clamp(p, z.cur)]
  BY DEF StepOne
<1> HIDE DEF z
<1>4. [z EXCEPT !.cur = Clamp(p, z.cur)] \in Smoother
  BY <1>1, <1>2 DEF Smoother
<1>5. /\ StepOne(p, s).target = z.target /\ StepOne(p, s).left = z.left
      /\ StepOne(p, s).delta = z.delta /\ StepOne(p, s).cur = Clamp(p, z.cur)
  BY <1>1, <1>3 DEF Smoother
<1> QED BY <1>3, <1>4, <1>5 DEF z

LEMMA StepBankType ==
  ASSUME NEW b \in Bank
  PROVE  StepBank(b) \in Bank
  BY StepOneType DEF StepBank, Bank

LEMMA ResetBankType ==
  ASSUME NEW b \in Bank
  PROVE  ResetBank(b) \in Bank
  BY InfoFacts DEF ResetBank, At, Bank, Smoother

LEMMA NewBankType == NewBank \in Bank
  BY InfoFacts DEF NewBank, Bank, Smoother

-----------------------------------------------------------------------------
LEMMA ValuesAreWrites == Values \cup {NonFinite} \subseteq Writes
  BY ValuesAssumption DEF Writes

-----------------------------------------------------------------------------
\* One smoother's share of InRange.
Ranged(p, s) == /\ Info[p].lo <= s.cur    /\ s.cur <= Info[p].hi
                /\ Info[p].lo <= s.target /\ s.target <= Info[p].hi

\* The inductive invariant of one smoother: what its ramp still owes.
Good(p, s, a) == Ranged(p, s) /\ RampOK(p, s, a)

RampInv == BankTypeOK /\ \A p \in Param : Good(p, smoothers[p], age[p])

\* A smoother at rest is good at any age.
LEMMA AtRest ==
  ASSUME NEW p \in Param, NEW s \in Smoother, NEW a \in Nat, Ranged(p, s),
         s.cur = s.target, s.left = 0
  PROVE  Good(p, s, a)
<1>1. CeilSteps(p) \in Nat
  BY CeilFacts
<1>2. Dist(s.cur, s.target) = 0
  BY DistFacts DEF Smoother
<1>3. (s.left - 1) * s.delta <= 0
  <2>1. s.delta \in Nat /\ s.left - 1 = -1
    BY DEF Smoother
  <2> QED BY <2>1
<1> QED
  BY <1>1, <1>2, <1>3 DEF Good, RampOK

\* A written value, clamped, is where the smoother rests.
LEMMA AtIsGood ==
  ASSUME NEW p \in Param, NEW s \in Smoother, NEW a \in Nat, NEW v \in Int,
         Info[p].lo <= v, v <= Info[p].hi
  PROVE  At(s, v) \in Smoother /\ Good(p, At(s, v), a)
<1>1. At(s, v) \in Smoother
  BY DEF At, Smoother
<1>2. Ranged(p, At(s, v)) /\ At(s, v).cur = At(s, v).target /\ At(s, v).left = 0
  BY DEF At, Ranged
<1> QED BY <1>1, <1>2, AtRest

\* A new target starts a ramp that fits its countdown.
LEMMA RetargetIsGood ==
  ASSUME NEW p \in Param, NEW s \in Smoother, Ranged(p, s),
         NEW t \in Int, Info[p].lo <= t, t <= Info[p].hi,
         s.left <= CeilSteps(p)
  PROVE  Good(p, Retarget(p, s, t), 0)
<1> DEFINE r == Retarget(p, s, t)
<1>1. r \in Smoother /\ r.cur = s.cur /\ r.target = t
  BY RetargetFacts
<1>2. Ranged(p, r)
  BY <1>1 DEF Ranged
<1>3. CeilSteps(p) \in Nat /\ CeilSteps(p) >= 1
  BY CeilFacts
<1>4. r.left <= CeilSteps(p)
  BY <1>3 DEF Retarget, Smoother
<1>5. Info[p].shape \in {"Linear", "Exponential"} => r.left = CeilSteps(p)
  BY DEF Retarget
<1>6. Info[p].shape = "Linear" => (r.left - 1) * r.delta <= Dist(r.cur, r.target)
  <2> SUFFICES ASSUME Info[p].shape = "Linear"
               PROVE  (r.left - 1) * r.delta <= Dist(r.cur, r.target)
    OBVIOUS
  <2>1. r.left = CeilSteps(p) /\ r.delta = LinearDelta(p, Dist(s.cur, t))
    BY DEF Retarget
  <2>2. Dist(s.cur, t) \in Nat
    BY DistFacts DEF Smoother
  <2>3. (CeilSteps(p) - 1) * LinearDelta(p, Dist(s.cur, t)) <= Dist(s.cur, t)
    BY <2>2, LinearDeltaFits
  <2> HIDE DEF r
  <2> QED BY <1>1, <2>1, <2>3
<1> HIDE DEF r
<1>7. RampOK(p, r, 0)
  BY <1>1, <1>3, <1>4, <1>5, <1>6 DEF RampOK
<1> QED BY <1>2, <1>7 DEF Good, r

(***************************************************************************)
(* One control step of one good smoother: it moves toward its target, does *)
(* not pass it, and stays good one step older.                             *)
(***************************************************************************)
LEMMA ShapeStepIsGood ==
  ASSUME NEW p \in Param, NEW s \in Smoother, NEW a \in Nat, Good(p, s, a)
  PROVE  LET z == ShapeStep(p, s) IN
         /\ z.target = s.target
         /\ Between(s.cur, z.cur, s.target)
         /\ RampOK(p, z, a + 1)
<1> DEFINE z == ShapeStep(p, s)
           D == Dist(s.cur, s.target)
<1>1. CeilSteps(p) \in Nat /\ CeilSteps(p) >= 1
  BY CeilFacts
<1>2. z \in Smoother
  BY ShapeStepType
<1>3. s.cur \in Int /\ s.target \in Int /\ s.left \in Nat /\ s.delta \in Nat
  BY DEF Smoother
<1>4. D \in Nat
  BY <1>3, DistFacts
<1>5. Info[p].shape \in Shape
  BY InfoFacts
<1>6. /\ s.left <= CeilSteps(p)
      /\ Info[p].shape \in {"Linear", "Exponential"} /\ s.cur # s.target =>
           s.left >= 1 /\ s.left + a <= CeilSteps(p)
      /\ Info[p].shape = "Linear" => (s.left - 1) * s.delta <= D
  BY DEF Good, RampOK
<1> DEFINE Arrived == Info[p].shape \in {"Linear", "Exponential"}
                      /\ (s.cur = s.target \/ s.left <= 1)
<1>7. CASE Arrived
  <2>1. z = At(s, s.target)
    BY <1>7 DEF ShapeStep, LinearStep, ExpStep
  <2>2. Good(p, z, a + 1)
    BY <2>1, <1>3, AtIsGood DEF Good, Ranged
  <2> QED BY <2>1, <2>2, <1>3 DEF At, Between, Good
<1>8. CASE Info[p].shape = "Linear" /\ ~Arrived
  <2>1. z = [s EXCEPT !.cur = Toward(s.cur, s.target, s.delta), !.left = s.left - 1]
    BY <1>8 DEF ShapeStep, LinearStep
  <2>2. s.left > 1 /\ s.cur # s.target
    BY <1>8, <1>3
  <2>3. s.delta <= (s.left - 1) * s.delta
    <3>1. 1 <= s.left - 1 /\ s.left - 1 \in Int
      BY <1>3, <2>2
    <3>2. 1 * s.delta <= (s.left - 1) * s.delta
      BY <1>3, <3>1, TimesMono
    <3> QED BY <1>3, <3>2
  <2>4. s.delta <= D
    <3>1. (s.left - 1) * s.delta \in Int
      BY <1>3
    <3> QED BY <1>3, <1>4, <1>6, <1>8, <2>3, <3>1
  <2>5. /\ Between(s.cur, Toward(s.cur, s.target, s.delta), s.target)
        /\ Dist(Toward(s.cur, s.target, s.delta), s.target) = D - s.delta
    BY <1>3, <2>4, TowardFacts DEF Between
  <2>6. /\ z.cur = Toward(s.cur, s.target, s.delta) /\ z.target = s.target
        /\ z.left = s.left - 1 /\ z.delta = s.delta
    BY <2>1 DEF Smoother
  <2>7. (z.left - 1) * z.delta <= Dist(z.cur, z.target)
    <3>1. (z.left - 1) * z.delta = (s.left - 1) * s.delta - s.delta
      BY <1>3, <2>6
    <3>2. (s.left - 1) * s.delta \in Int
      BY <1>3
    <3> HIDE DEF z
    <3> QED BY <1>3, <1>4, <1>6, <1>8, <2>5, <2>6, <3>1, <3>2
  <2>8. z.left >= 1 /\ z.left + (a + 1) <= CeilSteps(p) /\ z.left <= CeilSteps(p)
    BY <1>1, <1>3, <1>6, <1>8, <2>2, <2>6
  <2> HIDE DEF z
  <2>9. RampOK(p, z, a + 1)
    BY <1>8, <2>7, <2>8 DEF RampOK
  <2> QED BY <2>5, <2>6, <2>9 DEF z
<1>9. CASE Info[p].shape = "Exponential" /\ ~Arrived
  <2>1. z = [s EXCEPT !.cur = ExpMove(s), !.left = s.left - 1]
    BY <1>9 DEF ShapeStep, ExpStep
  <2>2. s.left > 1 /\ s.cur # s.target
    BY <1>9, <1>3
  <2>3. Between(s.cur, ExpMove(s), s.target)
    <3>1. CASE s.delta >= D
      BY <1>3, <3>1 DEF ExpMove, Between
    <3>2. CASE ~(s.delta >= D)
      <4>1. s.delta <= D
        BY <1>3, <1>4, <3>2
      <4>2. Between(s.cur, Toward(s.cur, s.target, s.delta), s.target)
        BY <1>3, <4>1, TowardFacts DEF Between
      <4> QED BY <3>2, <4>2 DEF ExpMove
    <3> QED BY <3>1, <3>2
  <2>4. /\ z.cur = ExpMove(s) /\ z.target = s.target /\ z.left = s.left - 1
    BY <2>1 DEF Smoother
  <2>5. z.left >= 1 /\ z.left + (a + 1) <= CeilSteps(p) /\ z.left <= CeilSteps(p)
    BY <1>1, <1>3, <1>6, <1>9, <2>2, <2>4
  <2> HIDE DEF z
  <2>6. RampOK(p, z, a + 1)
    BY <1>9, <2>5 DEF RampOK
  <2> QED BY <2>3, <2>4, <2>6 DEF z
<1>10. CASE Info[p].shape = "OnePole"
  <2> DEFINE q == D \div PoleDiv
  <2>1. q \in Nat /\ q <= D
    <3>1. PoleDiv \in Nat \ {0} /\ 1 <= PoleDiv
      BY PoleAssumption
    <3>2. q \in Nat /\ PoleDiv * q <= D
      <4> HIDE DEF D
      <4> QED BY <1>4, <3>1, Quotient
    <3> HIDE DEF q, D
    <3>3. 1 * q <= PoleDiv * q
      BY <3>1, <3>2, TimesMono
    <3>4. PoleDiv * q \in Int
      BY <3>1, <3>2
    <3> QED BY <1>4, <3>2, <3>3, <3>4
  <2>2. z = [s EXCEPT !.cur = Toward(s.cur, s.target, q)]
    BY <1>10 DEF ShapeStep, PoleStep
  <2> HIDE DEF q
  <2>3. /\ z.cur = Toward(s.cur, s.target, q) /\ z.target = s.target /\ z.left = s.left
    BY <2>2 DEF Smoother
  <2>4. Between(s.cur, z.cur, s.target)
    <3> HIDE DEF z
    <3>1. Between(s.cur, Toward(s.cur, s.target, q), s.target)
      BY <1>3, <2>1, TowardFacts DEF Between
    <3> QED BY <2>3, <3>1
  <2> HIDE DEF z
  <2>5. RampOK(p, z, a + 1)
    BY <1>6, <1>10, <2>3 DEF RampOK
  <2> QED BY <2>3, <2>4, <2>5 DEF z
<1>11. CASE Info[p].shape = "Step"
  <2>1. z = [s EXCEPT !.cur = s.target]
    BY <1>11 DEF ShapeStep
  <2>2. z.cur = s.target /\ z.target = s.target /\ z.left = s.left
    BY <2>1 DEF Smoother
  <2>3. Between(s.cur, z.cur, s.target)
    BY <1>3, <2>2 DEF Between
  <2> HIDE DEF z
  <2>4. RampOK(p, z, a + 1)
    BY <1>6, <1>11, <2>2 DEF RampOK
  <2> QED BY <2>2, <2>3, <2>4 DEF z
<1> QED
  BY <1>5, <1>7, <1>8, <1>9, <1>10, <1>11 DEF Shape

\* With the final clamp, which never bites, the whole step of one smoother.
LEMMA StepOneIsGood ==
  ASSUME NEW p \in Param, NEW s \in Smoother, NEW a \in Nat, Good(p, s, a)
  PROVE  /\ Between(s.cur, StepOne(p, s).cur, s.target)
         /\ StepOne(p, s).target = s.target
         /\ Good(p, StepOne(p, s), a + 1)
<1> DEFINE z == ShapeStep(p, s)
           r == StepOne(p, s)
<1>1. z \in Smoother /\ r \in Smoother
  BY ShapeStepType, StepOneType
<1>2. z.target = s.target /\ Between(s.cur, z.cur, s.target) /\ RampOK(p, z, a + 1)
  BY ShapeStepIsGood
<1>3. /\ r.target = z.target /\ r.left = z.left /\ r.delta = z.delta
      /\ r.cur = Clamp(p, z.cur)
  BY StepOneType
<1> HIDE DEF z, r
<1>4. Info[p].lo <= z.cur /\ z.cur <= Info[p].hi
  BY <1>1, <1>2, InfoFacts DEF Good, Ranged, Between, Smoother
<1>5. r.cur = z.cur
  BY <1>1, <1>3, <1>4, ClampFacts DEF Smoother
<1>6. RampOK(p, r, a + 1)
  BY <1>2, <1>3, <1>5 DEF RampOK
<1>7. Ranged(p, r)
  BY <1>2, <1>3, <1>4, <1>5 DEF Ranged, Good
<1> QED BY <1>2, <1>3, <1>5, <1>6, <1>7 DEF Good, r

\* Growing older within the cap costs a ramp nothing more than one step does.
LEMMA Younger ==
  ASSUME NEW p \in Param, NEW s, NEW a \in Nat, NEW b \in Nat, b <= a,
         a = 0 => b = 0, Good(p, s, a),
         s.left \in Nat
  PROVE  Good(p, s, b)
<1>1. CeilSteps(p) \in Nat
  BY CeilFacts
<1> QED BY <1>1 DEF Good, RampOK

-----------------------------------------------------------------------------
LEMMA InitGood == BankInit => RampInv
<1> SUFFICES ASSUME BankInit PROVE RampInv
  OBVIOUS
<1>1. BankTypeOK
  BY NewBankType DEF BankInit, BankTypeOK
<1>2. ASSUME NEW p \in Param PROVE Good(p, smoothers[p], age[p])
  <2>1. smoothers[p] = [cur |-> Info[p].default, target |-> Info[p].default,
                   left |-> 0, delta |-> 0]
    BY DEF BankInit, NewBank
  <2>2. Ranged(p, smoothers[p]) /\ smoothers[p].cur = smoothers[p].target /\ smoothers[p].left = 0
    BY <2>1, InfoFacts DEF Ranged
  <2>3. smoothers[p] \in Smoother /\ age[p] \in Nat
    BY <1>1 DEF BankTypeOK, Bank
  <2> QED BY <2>2, <2>3, AtRest
<1> QED BY <1>1, <1>2 DEF RampInv

\* A write to q leaves every smoother good, q's ramp restarted if its target moved.
LEMMA WriteKeeps ==
  ASSUME RampInv, NEW q \in Param, NEW v \in Values \cup {NonFinite}, Write(q, v)
  PROVE  \A p \in Param : Good(p, smoothers'[p], age'[p])
<1> SUFFICES ASSUME NEW p \in Param PROVE Good(p, smoothers'[p], age'[p])
  OBVIOUS
<1>1. /\ smoothers \in Bank /\ smoothers[p] \in Smoother /\ smoothers[q] \in Smoother
      /\ age \in [Param -> Nat] /\ Good(p, smoothers[p], age[p]) /\ Good(q, smoothers[q], age[q])
  BY DEF RampInv, BankTypeOK, Bank
<1>2. CASE v = NonFinite \/ Clamp(q, v) = smoothers[q].target
  BY <1>1, <1>2 DEF Write, SetTarget
<1>3. CASE v # NonFinite /\ Clamp(q, v) # smoothers[q].target
  <2> DEFINE r == Retarget(q, smoothers[q], Clamp(q, v))
  <2>1. v \in Int
    BY <1>3, ValuesAssumption
  <2>2. /\ Clamp(q, v) \in Int
        /\ Info[q].lo <= Clamp(q, v) /\ Clamp(q, v) <= Info[q].hi
    BY <2>1, ClampFacts
  <2>3. Good(q, r, 0) /\ r.target = Clamp(q, v)
    <3>1. Ranged(q, smoothers[q]) /\ smoothers[q].left <= CeilSteps(q)
      BY <1>1 DEF Good, RampOK
    <3> QED BY <1>1, <2>2, <3>1, RetargetIsGood, RetargetFacts
  <2>4. smoothers' = [smoothers EXCEPT ![q] = r]
    BY <1>3 DEF Write, SetTarget
  <2> HIDE DEF r
  <2>5. smoothers'[q] = r /\ (p # q => smoothers'[p] = smoothers[p])
    BY <1>1, <2>4 DEF Bank
  <2>6. age'[q] = 0 /\ (p # q => age'[p] = age[p])
    BY <1>1, <1>3, <2>3, <2>5 DEF Write
  <2> QED BY <1>1, <2>3, <2>5, <2>6
<1> QED BY <1>2, <1>3

LEMMA WriteNowKeeps ==
  ASSUME RampInv, NEW q \in Param, NEW v \in Values \cup {NonFinite}, WriteNow(q, v)
  PROVE  \A p \in Param : Good(p, smoothers'[p], age'[p])
<1> SUFFICES ASSUME NEW p \in Param PROVE Good(p, smoothers'[p], age'[p])
  OBVIOUS
<1>1. /\ smoothers \in Bank /\ smoothers[q] \in Smoother
      /\ age \in [Param -> Nat] /\ Good(p, smoothers[p], age[p])
  BY DEF RampInv, BankTypeOK, Bank
<1>2. CASE v = NonFinite
  BY <1>1, <1>2 DEF WriteNow, SetImmediate
<1>3. CASE v # NonFinite
  <2>1. v \in Int
    BY <1>3, ValuesAssumption
  <2>2. \A a \in Nat : Good(q, At(smoothers[q], Clamp(q, v)), a)
    BY <1>1, <2>1, ClampFacts, AtIsGood
  <2>3. smoothers' = [smoothers EXCEPT ![q] = At(smoothers[q], Clamp(q, v))]
    BY <1>3 DEF WriteNow, SetImmediate
  <2>4. smoothers'[q] = At(smoothers[q], Clamp(q, v)) /\ (p # q => smoothers'[p] = smoothers[p])
    BY <1>1, <2>3 DEF Bank
  <2>5. age'[q] \in Nat /\ (p # q => age'[p] = age[p])
    BY <1>1 DEF WriteNow
  <2> QED BY <1>1, <2>2, <2>4, <2>5
<1> QED BY <1>2, <1>3

LEMMA StepKeeps ==
  ASSUME RampInv, Step
  PROVE  \A p \in Param : /\ Good(p, smoothers'[p], age'[p])
                          /\ Between(smoothers[p].cur, smoothers'[p].cur, smoothers[p].target)
<1> SUFFICES ASSUME NEW p \in Param
             PROVE  /\ Good(p, smoothers'[p], age'[p])
                    /\ Between(smoothers[p].cur, smoothers'[p].cur, smoothers[p].target)
  OBVIOUS
<1>1. smoothers[p] \in Smoother /\ age[p] \in Nat /\ Good(p, smoothers[p], age[p])
  BY DEF RampInv, BankTypeOK, Bank
<1>2. smoothers'[p] = StepOne(p, smoothers[p])
  BY DEF Step, StepBank
<1>3. /\ Between(smoothers[p].cur, smoothers'[p].cur, smoothers[p].target)
      /\ Good(p, smoothers'[p], age[p] + 1)
  BY <1>1, <1>2, StepOneIsGood
<1>4. smoothers'[p].left \in Nat
  BY <1>1, <1>2, StepOneType DEF Smoother
<1>5. age'[p] \in Nat /\ age'[p] <= age[p] + 1 /\ (age[p] + 1 = 0 => age'[p] = 0)
  BY <1>1 DEF Step
<1> QED BY <1>1, <1>3, <1>4, <1>5, Younger

LEMMA ResetKeeps ==
  ASSUME RampInv, Reset
  PROVE  \A p \in Param : Good(p, smoothers'[p], age'[p])
<1> SUFFICES ASSUME NEW p \in Param PROVE Good(p, smoothers'[p], age'[p])
  OBVIOUS
<1>1. smoothers[p] \in Smoother
  BY DEF RampInv, BankTypeOK, Bank
<1>2. smoothers'[p] = At(smoothers[p], Info[p].default) /\ age'[p] \in Nat
  BY DEF Reset, ResetBank
<1> QED BY <1>1, <1>2, InfoFacts, AtIsGood

LEMMA NextGood == RampInv /\ [BankNext]_bankVars => RampInv'
<1> SUFFICES ASSUME RampInv, [BankNext]_bankVars PROVE RampInv'
  OBVIOUS
<1>1. BankTypeOK'
  <2>1. ASSUME NEW p \in Param, NEW v \in Values \cup {NonFinite}, Write(p, v)
        PROVE  BankTypeOK'
    <3>1. smoothers' \in Bank
      BY <2>1, SetTargetType, ValuesAreWrites DEF Write, BankTypeOK, RampInv
    <3> QED BY <2>1, <3>1 DEF Write, BankTypeOK, RampInv
  <2>2. ASSUME NEW p \in Param, NEW v \in Values \cup {NonFinite}, WriteNow(p, v)
        PROVE  BankTypeOK'
    <3>1. smoothers' \in Bank
      BY <2>2, SetImmediateType, ValuesAreWrites DEF WriteNow, BankTypeOK, RampInv
    <3> QED BY <2>2, <3>1 DEF WriteNow, BankTypeOK, RampInv
  <2>3. CASE Step
    <3>1. smoothers' \in Bank
      BY <2>3, StepBankType DEF Step, BankTypeOK, RampInv
    <3> QED BY <2>3, <3>1, CeilFacts DEF Step, BankTypeOK, RampInv
  <2>4. CASE Reset
    <3>1. smoothers' \in Bank
      BY <2>4, ResetBankType DEF Reset, BankTypeOK, RampInv
    <3> QED BY <2>4, <3>1 DEF Reset, BankTypeOK, RampInv
  <2>5. CASE UNCHANGED bankVars
    BY <2>5 DEF bankVars, BankTypeOK, RampInv
  <2> QED
    BY <2>1, <2>2, <2>3, <2>4, <2>5 DEF BankNext
<1>2. \A p \in Param : Good(p, smoothers'[p], age'[p])
  <2>1. ASSUME NEW q \in Param, NEW v \in Values \cup {NonFinite}, Write(q, v)
        PROVE  \A p \in Param : Good(p, smoothers'[p], age'[p])
    BY <2>1, WriteKeeps
  <2>2. ASSUME NEW q \in Param, NEW v \in Values \cup {NonFinite}, WriteNow(q, v)
        PROVE  \A p \in Param : Good(p, smoothers'[p], age'[p])
    BY <2>2, WriteNowKeeps
  <2>3. CASE Step
    BY <2>3, StepKeeps
  <2>4. CASE Reset
    BY <2>4, ResetKeeps
  <2>5. CASE UNCHANGED bankVars
    BY <2>5 DEF bankVars, RampInv
  <2> QED
    BY <2>1, <2>2, <2>3, <2>4, <2>5 DEF BankNext
<1> QED BY <1>1, <1>2 DEF RampInv

(***************************************************************************)
(* The inductive invariant: types, ranges and, for every ramp in flight,   *)
(* enough updates left to arrive and not so many that a step overshoots.   *)
(***************************************************************************)
THEOREM BankInductive == BankSpec => []RampInv
<1>1. BankInit => RampInv
  BY InitGood
<1>2. RampInv /\ [BankNext]_bankVars => RampInv'
  BY NextGood
<1> QED
  BY <1>1, <1>2, PTL DEF BankSpec

-----------------------------------------------------------------------------
(***************************************************************************)
(* Every reachable bank is a bank: in particular the unsigned countdown of *)
(* a ramp never passes zero.                                               *)
(***************************************************************************)
THEOREM BankTypeCorrect == BankSpec => []BankTypeOK
<1>1. RampInv => BankTypeOK
  BY DEF RampInv
<1> QED
  BY <1>1, BankInductive, PTL

(***************************************************************************)
(* Whatever is written and whenever the bank is stepped or reset, values   *)
(* and targets stay in the declared range.                                 *)
(***************************************************************************)
THEOREM RangeKept == BankSpec => []InRange
<1>1. RampInv => InRange
  BY DEF RampInv, InRange, Good, Ranged
<1> QED
  BY <1>1, BankInductive, PTL

(***************************************************************************)
(* The documented deadline of every ramp: ceil(steps) control updates      *)
(* after the last change of target (one for Step) the value has arrived.   *)
(***************************************************************************)
THEOREM DeadlineKept == BankSpec => []RampDeadline
<1>1. RampInv => RampDeadline
  <2> SUFFICES ASSUME RampInv, NEW p \in Param, Info[p].shape # "OnePole",
                      age[p] >= Deadline(p), ~ Settled(p)
               PROVE  FALSE
    BY DEF RampDeadline
  <2>1. RampOK(p, smoothers[p], age[p]) /\ age[p] \in Nat /\ smoothers[p].left \in Nat
    BY DEF RampInv, Good, BankTypeOK, Bank, Smoother
  <2>2. CeilSteps(p) \in Nat /\ Info[p].shape \in Shape
    BY CeilFacts, InfoFacts
  <2> QED BY <2>1, <2>2 DEF RampOK, Deadline, Settled, Shape
<1> QED
  BY <1>1, BankInductive, PTL

(***************************************************************************)
(* No control step carries a parameter past its target, although nothing   *)
(* in the Linear branch clips there.                                       *)
(***************************************************************************)
THEOREM NeverPast == BankSpec => NoOvershoot
<1>1. RampInv /\ [BankNext]_bankVars =>
        [Step => \A p \in Param : Between(smoothers[p].cur, smoothers'[p].cur, smoothers[p].target)]_bankVars
  BY StepKeeps
<1> QED
  BY <1>1, BankInductive, PTL DEF BankSpec, NoOvershoot

-----------------------------------------------------------------------------
\* The quotient is the one number that fits.
LEMMA QuotientUnique ==
  ASSUME NEW a \in Nat, NEW b \in Nat \ {0}, NEW q \in Int,
         b * q <= a, a < b * q + b
  PROVE  a \div b = q
<1>1. /\ a \div b \in Nat /\ b * (a \div b) <= a /\ a < b * (a \div b) + b
  BY Quotient
<1> DEFINE r == a \div b
<1> HIDE DEF r
<1>2. r \in Nat /\ b * r <= a /\ a < b * r + b
  BY <1>1 DEF r
<1>3. b * q \in Int /\ b * r \in Int
  BY <1>2
<1>4. ~ (r < q)
  <2> SUFFICES ASSUME r < q PROVE FALSE
    OBVIOUS
  <2>1. r + 1 <= q /\ r + 1 \in Int
    BY <1>2
  <2>2. (r + 1) * b <= q * b
    BY <2>1, TimesMono
  <2>3. (r + 1) * b = b * r + b /\ q * b = b * q
    BY <1>2, SMT
  <2> QED BY <1>2, <1>3, <2>2, <2>3
<1>5. ~ (q < r)
  <2> SUFFICES ASSUME q < r PROVE FALSE
    OBVIOUS
  <2>1. q + 1 <= r /\ q + 1 \in Int
    BY <1>2
  <2>2. (q + 1) * b <= r * b
    BY <1>2, <2>1, TimesMono
  <2>3. (q + 1) * b = b * q + b /\ r * b = b * r
    BY <1>2, SMT
  <2> QED BY <1>2, <1>3, <2>2, <2>3
<1> QED BY <1>2, <1>4, <1>5 DEF r

-----------------------------------------------------------------------------
\* Clamped and moved values are numbers.
LEMMA MovesAreNumbers ==
  ASSUME NEW p \in Param, NEW a \in Int, NEW b \in Int
  PROVE  /\ Clamp(p, a) \in Int /\ Dist(a, b) \in Nat
         /\ \A d \in Nat : Toward(a, b, d) \in Int
  BY InfoFacts DEF Clamp, Dist, Toward

\* A new target leaves a smoother: its countdown and step are naturals.
LEMMA RetargetType ==
  ASSUME NEW p \in Param, NEW s \in Smoother, NEW t \in Int
  PROVE  Retarget(p, s, t) \in Smoother
<1> DEFINE n == Info[p].num
           d == Info[p].den
           m == Dist(s.cur, t) * d
<1>1. n \in Nat \ {0} /\ d \in Nat \ {0} /\ Dist(s.cur, t) \in Nat
  BY InfoFacts, MovesAreNumbers DEF Smoother
<1>2. m \in Nat
  BY <1>1
<1>3. /\ CeilSteps(p) = (n + d - 1) \div d
      /\ LinearDelta(p, Dist(s.cur, t)) = m \div n
      /\ ExpDelta(p, Dist(s.cur, t)) = (m + n - 1) \div n
  BY DEF CeilSteps, LinearDelta, ExpDelta
<1> HIDE DEF n, d, m
<1>4. n + d - 1 \in Nat /\ m + n - 1 \in Nat
  BY <1>1, <1>2
<1>5. CeilSteps(p) \in Nat /\ LinearDelta(p, Dist(s.cur, t)) \in Nat
      /\ ExpDelta(p, Dist(s.cur, t)) \in Nat
  BY <1>1, <1>2, <1>3, <1>4, Quotient
<1> QED BY <1>5 DEF Retarget, Smoother

\* New, stepped and reset banks are banks.
LEMMA BankTypes ==
  /\ NewBank \in Bank
  /\ \A b \in Bank : StepBank(b) \in Bank /\ ResetBank(b) \in Bank
  BY StepOneType, InfoFacts DEF NewBank, StepBank, ResetBank, At, Bank, Smoother

-----------------------------------------------------------------------------
\* Boundaries before a frame inside cell q (not on its first frame): q + 1 of them.
LEMMA BoundariesIn ==
  ASSUME NEW f \in Nat, NEW q \in Nat, Period * q < f, f <= Period * q + Period
  PROVE  Boundaries(f) = q + 1
<1>1. Period \in Nat \ {0}
  BY DriverAssumption
<1>2. f + Period - 1 \in Nat /\ q + 1 \in Int /\ Period * q \in Nat
  BY <1>1
<1>3. Period * (q + 1) = Period * q + Period
  BY <1>1, SMT
<1>4. Period * (q + 1) <= f + Period - 1 /\ f + Period - 1 < Period * (q + 1) + Period
  BY <1>1, <1>2, <1>3
<1>5. (f + Period - 1) \div Period = q + 1
  <2> DEFINE a == f + Period - 1
             c == q + 1
  <2>1. a \in Nat /\ c \in Int /\ Period * c <= a /\ a < Period * c + Period
    BY <1>2, <1>4
  <2> HIDE DEF a, c
  <2>2. a \div Period = c
    BY <1>1, <2>1, QuotientUnique
  <2> QED BY <2>2 DEF a, c
<1> QED BY <1>5 DEF Boundaries

\* Nothing lies behind frame zero.
LEMMA BoundariesZero == Boundaries(0) = 0
<1>1. Period \in Nat \ {0}
  BY DriverAssumption
<1> DEFINE a == 0 + Period - 1
<1>2. a \in Nat /\ 0 \in Int /\ Period * 0 <= a /\ a < Period * 0 + Period
  BY <1>1
<1> HIDE DEF a
<1>3. a \div Period = 0
  BY <1>1, <1>2, QuotientUnique
<1> QED BY <1>3 DEF Boundaries, a

\* The driver's first pending cell is the number of boundaries behind it.
LEMMA FirstPendingExact ==
  ASSUME NEW f \in Nat
  PROVE  FirstPending(f) = Boundaries(f) /\ Boundaries(f) \in Nat
<1>1. CASE f = 0
  BY <1>1, BoundariesZero DEF FirstPending
<1>2. CASE f # 0
  <2> DEFINE q == (f - 1) \div Period
  <2>1. Period \in Nat \ {0} /\ f - 1 \in Nat
    BY <1>2, DriverAssumption
  <2>2. q \in Nat /\ Period * q <= f - 1 /\ f - 1 < Period * q + Period
    <3> DEFINE a == f - 1
    <3>1. a \in Nat
      BY <2>1
    <3> HIDE DEF a
    <3>2. a \div Period \in Nat /\ Period * (a \div Period) <= a
          /\ a < Period * (a \div Period) + Period
      BY <2>1, <3>1, Quotient
    <3> QED BY <3>2 DEF a
  <2> HIDE DEF q
  <2>3. Period * q \in Nat
    BY <2>1, <2>2
  <2>4. Period * q < f /\ f <= Period * q + Period
    BY <2>1, <2>2, <2>3
  <2>5. Boundaries(f) = q + 1
    BY <2>2, <2>4, BoundariesIn
  <2> QED BY <1>2, <2>2, <2>5 DEF FirstPending, q
<1> QED BY <1>1, <1>2

\* The cell of a frame, and the boundaries before the frame.
LEMMA CellFacts ==
  ASSUME NEW f \in Nat
  PROVE  /\ f \div Period \in Nat
         /\ Period * (f \div Period) <= f
         /\ f < Period * (f \div Period) + Period
         /\ f % Period = f - Period * (f \div Period)
         /\ Boundaries(f) \in {f \div Period, (f \div Period) + 1}
<1>1. Period \in Nat \ {0}
  BY DriverAssumption
<1> DEFINE q == f \div Period
<1>2. q \in Nat /\ Period * q <= f /\ f < Period * q + Period
  BY <1>1, Quotient
<1>3. f % Period = f - Period * q
  BY <1>1, Z3
<1> HIDE DEF q
<1>4. Period * q \in Nat
  BY <1>1, <1>2
<1>5. ASSUME Period * q < f PROVE Boundaries(f) \in {q, q + 1}
  <2>1. f <= Period * q + Period
    BY <1>1, <1>2, <1>4
  <2>2. Boundaries(f) = q + 1
    BY <1>2, <1>5, <2>1, BoundariesIn
  <2> QED BY <2>2
<1>6. ASSUME Period * q = f PROVE Boundaries(f) \in {q, q + 1}
  <2>1. CASE f = 0
    <3>1. q = 0
      BY <1>1, <1>2, <1>6, <2>1, SMT
    <3> QED BY <2>1, <3>1, BoundariesZero
  <2>2. CASE f # 0
    <3>1. q # 0
      BY <1>1, <1>2, <1>6, <2>2, SMT
    <3>2. q - 1 \in Nat /\ Period * (q - 1) = Period * q - Period
      BY <1>1, <1>2, <3>1, SMT
    <3> DEFINE r == q - 1
    <3>3. r \in Nat /\ Period * r < f /\ f <= Period * r + Period
      BY <1>1, <1>4, <1>6, <3>2
    <3> HIDE DEF r
    <3>4. Boundaries(f) = r + 1
      BY <3>3, BoundariesIn
    <3> QED BY <1>2, <3>4 DEF r
  <2> QED BY <2>1, <2>2
<1>7. Boundaries(f) \in {q, q + 1}
  BY <1>2, <1>4, <1>5, <1>6
<1> QED BY <1>2, <1>3, <1>7 DEF q

-----------------------------------------------------------------------------
(***************************************************************************)
(* The inductive invariant.  Inside a call, pending counts the boundaries  *)
(* stepped since frame zero; outside one, sample_pos determines it again.  *)
(***************************************************************************)
Now == sample_pos + start

GridInv ==
  /\ pc = "idle" => start = 0 /\ frames = 0
  /\ pc = "idle" => steps = Boundaries(sample_pos) - Boundaries(origin)
  /\ pc # "idle" => steps = pending - Boundaries(origin)
  /\ pc \in {"latch", "drain", "return"} => pending = Boundaries(Now)
  /\ pc = "step" => pending \in {Boundaries(Now), Cell + 1}
  /\ pc = "render" => pending = Cell + 1
  /\ pc \in {"latch", "step", "render"} => start < frames
  /\ pc \in {"drain", "return"} => start = frames

Sorted == \A i, j \in DOMAIN events : i < j => events[i].offset <= events[j].offset

LatchInv ==
  /\ Sorted
  /\ pc = "latch" => \A i \in DOMAIN events : i < ev => events[i].offset <= start
  /\ LatchExact

IInv == TypeOK /\ GridInv /\ LatchInv /\ RunInCell

\* The invariant holds at the start, and each action keeps it.
LEMMA InitIInv == Init => IInv
<1> SUFFICES ASSUME Init PROVE IInv
  OBVIOUS
<1>1. TypeOK
  BY BankTypes DEF Init, TypeOK, Pcs
<1>2. GridInv
  BY BoundariesZero DEF Init, GridInv, Now
<1>3. LatchInv /\ RunInCell
  BY DEF Init, LatchInv, Sorted, LatchExact, RunInCell
<1> QED BY <1>1, <1>2, <1>3 DEF IInv

\* A block's events are well typed and sorted, because the script is.
LEMMA BlockEventsFacts ==
  ASSUME script \in Scripts, NEW f \in Nat,
         NEW from \in 0..Len(script), NEW to \in 0..Len(script), CutAt(f, from)
  PROVE  /\ BlockEvents(f, from, to) \in Seq(ParamEvent)
         /\ \A i, j \in DOMAIN BlockEvents(f, from, to) :
              i < j => BlockEvents(f, from, to)[i].offset
                         <= BlockEvents(f, from, to)[j].offset
<1> DEFINE B == BlockEvents(f, from, to)
           n == IF from <= to THEN to - from ELSE 0
<1>1. script \in Seq(Stamped) /\ Len(script) \in Nat /\ DOMAIN script = 1..Len(script)
  BY ScriptAssumption
<1>2. n \in Nat /\ 1..(to - from) = 1..n
  BY <1>1
<1>3. ASSUME NEW i \in 1..n
      PROVE  /\ from + i \in DOMAIN script
             /\ script[from + i] \in Stamped
             /\ script[from + i].at - f \in Nat
  <2>1. from + i \in DOMAIN script
    BY <1>1, <1>3
  <2>2. script[from + i] \in Stamped
    BY <1>1, <2>1
  <2>3. script[from + i].at \in Nat
    BY <2>2 DEF Stamped
  <2>4. ~ (script[from + i].at < f)
    <3>1. ~ (from + i <= from)
      BY <1>1, <1>3
    <3> QED BY <2>1, <3>1 DEF CutAt
  <2>5. script[from + i].at - f \in Nat
    BY <2>3, <2>4
  <2> QED BY <2>1, <2>2, <2>5
<1>4. B = [i \in 1..n |-> [offset |-> script[from + i].at - f,
                          param |-> script[from + i].param,
                          value |-> script[from + i].value]]
  BY <1>2 DEF BlockEvents
<1>5. ASSUME NEW i \in 1..n PROVE B[i] \in ParamEvent /\ B[i].offset = script[from + i].at - f
  <2> DEFINE s == script[from + i]
             o == script[from + i].at - f
  <2>1. s \in Stamped /\ o \in Nat
    BY <1>3
  <2>2. B[i] = [offset |-> o, param |-> s.param, value |-> s.value]
    BY <1>4, <1>5
  <2> HIDE DEF s, o, B
  <2>3. B[i] \in ParamEvent /\ B[i].offset = o
    BY <2>1, <2>2 DEF ParamEvent, Stamped
  <2> QED BY <2>3 DEF o
<1>6. B \in [1..n -> ParamEvent]
  BY <1>4, <1>5
<1>7. B \in Seq(ParamEvent)
  BY <1>2, <1>6
<1>8. ASSUME NEW i \in 1..n, NEW j \in 1..n, i < j PROVE B[i].offset <= B[j].offset
  <2>1. from + i < from + j
    BY <1>1, <1>2, <1>8
  <2>2. script[from + i].at <= script[from + j].at
    BY <1>3, <2>1, ScriptAssumption
  <2>3. script[from + i].at \in Nat /\ script[from + j].at \in Nat
    BY <1>3 DEF Stamped
  <2> DEFINE x == script[from + i].at
             y == script[from + j].at
  <2>4. B[i].offset = x - f /\ B[j].offset = y - f
    BY <1>5
  <2>5. x \in Nat /\ y \in Nat /\ x <= y
    BY <2>2, <2>3
  <2> HIDE DEF x, y, B
  <2>6. x - f <= y - f
    BY <2>5
  <2> QED BY <2>4, <2>6
<1>9. DOMAIN B = 1..n
  BY <1>6
<1> HIDE DEF B
<1> QED BY <1>7, <1>8, <1>9 DEF B

\* A run ends after it starts, within the block, and within its cell.
LEMMA RunEndFacts ==
  ASSUME TypeOK, start < frames
  PROVE  /\ RunEnd \in 0..frames
         /\ start < RunEnd
         /\ sample_pos + RunEnd <= Period * Cell + Period
<1> DEFINE abs == sample_pos + start
           q == abs \div Period
<1>1. /\ sample_pos \in Nat /\ frames \in Nat /\ start \in 0..frames /\ start \in Nat
      /\ Period \in Nat \ {0} /\ abs \in Nat
  BY DriverAssumption DEF TypeOK
<1>2. /\ q \in Nat /\ Period * q <= abs /\ abs < Period * q + Period
      /\ abs % Period = abs - Period * q
  <2> HIDE DEF abs
  <2> QED BY <1>1, CellFacts
<1>3. Cell = q
  BY DEF Cell
<1>4. Period * q \in Nat
  BY <1>1, <1>2
<1>5. RunEnd = IF (Period * q + Period) - sample_pos < frames
              THEN (Period * q + Period) - sample_pos ELSE frames
  <2>1. (abs - (abs % Period)) + Period = Period * q + Period
    <3> HIDE DEF abs, q
    <3> QED BY <1>1, <1>2, <1>4
  <2> QED BY <2>1 DEF RunEnd
<1>6. abs = sample_pos + start
  OBVIOUS
<1> HIDE DEF q, abs
<1> QED BY <1>1, <1>2, <1>3, <1>4, <1>5, <1>6

-----------------------------------------------------------------------------
LEMMA BeginKeeps ==
  ASSUME IInv, NEW n \in 0..MaxBlock, NEW extra \in 0..LookAhead, Begin(n, extra)
  PROVE  IInv'
<1> USE DEF IInv
<1>1. PICK from \in 0..Len(script), to \in 0..Len(script) :
        /\ CutAt(sample_pos, from)
        /\ events' = BlockEvents(sample_pos, from, to)
  BY DEF Begin
<1>2. n \in Nat /\ sample_pos \in Nat /\ script \in Scripts
  BY DriverAssumption DEF TypeOK
<1>3. events' \in Seq(ParamEvent) /\ Sorted'
  BY <1>1, <1>2, BlockEventsFacts DEF Sorted
<1>4. FirstPending(sample_pos) = Boundaries(sample_pos) /\ Boundaries(sample_pos) \in Nat
  BY <1>2, FirstPendingExact
<1>5. /\ pc' = (IF n = 0 THEN "return" ELSE "latch") /\ frames' = n /\ start' = 0
      /\ ev' = 1 /\ pending' = Boundaries(sample_pos)
      /\ UNCHANGED <<script, sample_pos, bank, out, mark, origin, steps>>
  BY <1>4 DEF Begin, histVars
<1>6. TypeOK'
  <2>1. Len(events') \in Nat
    BY <1>3
  <2> QED BY <1>2, <1>3, <1>4, <1>5, <2>1 DEF TypeOK, Pcs
<1>7. GridInv'
  <2>1. steps = Boundaries(sample_pos) - Boundaries(origin)
    BY DEF Begin, GridInv
  <2>2. (Boundaries(sample_pos))' = Boundaries(sample_pos)
        /\ (Boundaries(origin))' = Boundaries(origin)
    BY <1>5
  <2>3. (Boundaries(Now))' = Boundaries(sample_pos)
    BY <1>2, <1>5 DEF Now
  <2> QED BY <1>2, <1>5, <2>1, <2>2, <2>3 DEF GridInv
<1>8. LatchInv'
  BY <1>3, <1>5 DEF LatchInv, LatchExact
<1>9. RunInCell'
  BY <1>5 DEF RunInCell
<1> QED BY <1>6, <1>7, <1>8, <1>9

\* Offsets of a block's events are frame counts.
LEMMA OffsetsNat ==
  ASSUME TypeOK, NEW i \in DOMAIN events
  PROVE  events[i].offset \in Nat
<1>1. events \in Seq(ParamEvent)
  BY DEF TypeOK
<1>2. events[i] \in ParamEvent
  BY <1>1
<1> QED BY <1>2 DEF ParamEvent

LEMMA LatchEventKeeps ==
  ASSUME IInv, LatchEvent
  PROVE  IInv'
<1> USE DEF IInv
<1>1. /\ pc \in {"latch", "drain"} /\ EventDue /\ ev' = ev + 1
      /\ UNCHANGED <<script, sample_pos, pc, frames, events, start, pending,
                     out, mark, origin, steps>>
  BY DEF LatchEvent, histVars
<1>2. /\ events \in Seq(ParamEvent) /\ Len(events) \in Nat /\ ev \in Nat /\ ev >= 1
      /\ ev <= Len(events) /\ ev \in DOMAIN events /\ DOMAIN events = 1..Len(events)
  BY <1>1 DEF TypeOK, EventDue
<1>3. bank' \in Bank
  <2>1. events[ev] \in ParamEvent
    BY <1>2
  <2>2. events[ev].value \in Writes
    BY <2>1 DEF ParamEvent, Writes
  <2>3. SetTarget(bank, events[ev].param, events[ev].value) \in Bank
    BY <2>2, SetTargetType DEF TypeOK
  <2> QED BY <2>3 DEF LatchEvent, TypeOK
<1>4. TypeOK'
  BY <1>1, <1>2, <1>3 DEF TypeOK
<1>5. GridInv'
  BY <1>1 DEF GridInv, Now, Cell
<1>6. LatchInv'
  <2>1. pc = "latch" => events[ev].offset <= start
    BY <1>1 DEF EventDue, Upto
  <2> QED BY <1>1, <1>2, <2>1 DEF LatchInv, LatchExact, Sorted
<1>7. RunInCell'
  BY <1>1 DEF RunInCell
<1> QED BY <1>4, <1>5, <1>6, <1>7

LEMMA LatchDoneKeeps ==
  ASSUME IInv, LatchDone
  PROVE  IInv'
<1> USE DEF IInv
<1>1. /\ pc \in {"latch", "drain"} /\ ~ EventDue
      /\ pc' = (IF pc = "latch" THEN "step" ELSE "return")
      /\ UNCHANGED <<script, sample_pos, bank, frames, events, start, ev, pending,
                     out, mark, origin, steps>>
  BY DEF LatchDone, callVars, histVars
<1>2. TypeOK'
  BY <1>1 DEF TypeOK, Pcs
<1>3. GridInv'
  BY <1>1 DEF GridInv, Now, Cell
<1>4. LatchInv'
  <2>1. CASE pc = "drain"
    BY <1>1, <2>1 DEF LatchInv, LatchExact, Sorted
  <2>2. CASE pc = "latch"
    <3>1. /\ events \in Seq(ParamEvent) /\ Len(events) \in Nat
          /\ DOMAIN events = 1..Len(events) /\ ev \in Nat /\ start \in Nat
      BY DEF TypeOK
    <3>2. ASSUME NEW i \in DOMAIN events PROVE events[i].offset \in Nat
      BY <3>2, OffsetsNat
    <3>3. ASSUME NEW i \in DOMAIN events, ~ (i < ev) PROVE ~ (events[i].offset <= start)
      <4>1. ev \in DOMAIN events /\ ev <= Len(events)
        BY <3>1, <3>3 DEF TypeOK
      <4>2. ~ (events[ev].offset <= start)
        BY <1>1, <2>2, <4>1 DEF EventDue, Upto
      <4>3. i = ev \/ ev < i
        BY <3>1, <3>3
      <4>4. events[ev].offset <= events[i].offset
        BY <3>2, <4>1, <4>3 DEF LatchInv, Sorted
      <4> QED BY <3>1, <3>2, <4>1, <4>2, <4>4
    <3>4. \A i \in DOMAIN events : i < ev <=> events[i].offset <= start
      BY <2>2, <3>3 DEF LatchInv
    <3> QED BY <1>1, <2>2, <3>4 DEF LatchInv, LatchExact, Sorted
  <2> QED BY <1>1, <2>1, <2>2
<1>5. RunInCell'
  BY <1>1 DEF RunInCell
<1> QED BY <1>2, <1>3, <1>4, <1>5

\* Inside the step loop no more than one boundary is ever behind.
LEMMA StepPending ==
  ASSUME IInv, pc = "step"
  PROVE  /\ Cell \in Nat /\ pending \in {Cell, Cell + 1}
<1>1. Now \in Nat /\ Cell = Now \div Period
  BY DEF IInv, TypeOK, Now, Cell
<1>2. Cell \in Nat /\ Boundaries(Now) \in {Cell, Cell + 1}
  BY <1>1, CellFacts
<1> QED BY <1>2 DEF IInv, GridInv

LEMMA StepGridKeeps ==
  ASSUME IInv, StepGrid
  PROVE  IInv'
<1> USE DEF IInv
<1>1. /\ pc = "step" /\ pending <= Cell /\ pending' = pending + 1 /\ steps' = steps + 1
      /\ bank' = StepBank(bank)
      /\ UNCHANGED <<script, sample_pos, pc, frames, events, start, ev, out, mark, origin>>
  BY DEF StepGrid
<1>2. Cell \in Nat /\ pending = Cell
  BY <1>1, StepPending
<1>3. Cell' = Cell
  BY <1>1 DEF Cell
<1>4. bank' \in Bank
  BY <1>1, BankTypes DEF TypeOK
<1>5. TypeOK'
  BY <1>1, <1>4 DEF TypeOK
<1>6. GridInv'
  <2>1. steps = pending - Boundaries(origin) /\ start < frames
    BY <1>1 DEF GridInv
  <2>2. origin \in Nat /\ Boundaries(origin) \in Nat
    BY FirstPendingExact DEF TypeOK
  <2>3. (Boundaries(origin))' = Boundaries(origin)
    BY <1>1
  <2> QED BY <1>1, <1>2, <1>3, <2>1, <2>2, <2>3 DEF GridInv
<1>7. LatchInv'
  BY <1>1 DEF LatchInv, LatchExact, Sorted
<1>8. RunInCell'
  BY <1>1 DEF RunInCell
<1> QED BY <1>5, <1>6, <1>7, <1>8

LEMMA StepDoneKeeps ==
  ASSUME IInv, StepDone
  PROVE  IInv'
<1> USE DEF IInv
<1>1. /\ pc = "step" /\ pending > Cell /\ pc' = "render"
      /\ UNCHANGED <<script, sample_pos, bank, frames, events, start, ev, pending,
                     out, mark, origin, steps>>
  BY DEF StepDone, callVars, histVars
<1>2. Cell \in Nat /\ pending = Cell + 1
  BY <1>1, StepPending
<1>3. TypeOK'
  BY <1>1 DEF TypeOK, Pcs
<1>4. GridInv'
  BY <1>1, <1>2 DEF GridInv, Cell
<1>5. LatchInv'
  BY <1>1 DEF LatchInv, LatchExact, Sorted
<1>6. RunInCell'
  BY <1>1 DEF RunInCell
<1> QED BY <1>3, <1>4, <1>5, <1>6

LEMMA RenderKeeps ==
  ASSUME IInv, Render
  PROVE  IInv'
<1> USE DEF IInv
<1> DEFINE e == RunEnd
<1>1. /\ pc = "render" /\ start' = e
      /\ pc' = (IF e < frames THEN "latch" ELSE "drain")
      /\ mark' = [bank |-> bank, seen |-> sample_pos + start + 1]
      /\ UNCHANGED <<script, sample_pos, bank, frames, events, ev, pending, origin, steps>>
      /\ out' = [from |-> sample_pos + start,
                 values |-> [k \in 1..(e - start) |-> CurrentValues(bank)]]
  BY DEF Render
<1>2. /\ sample_pos \in Nat /\ frames \in Nat /\ start \in Nat /\ Period \in Nat \ {0}
      /\ start < frames /\ pending = Cell + 1
  BY <1>1, DriverAssumption DEF TypeOK, GridInv
<1>3. e \in 0..frames /\ start < e /\ sample_pos + e <= Period * Cell + Period
  BY <1>2, RunEndFacts
<1>4. /\ Cell \in Nat /\ Period * Cell <= sample_pos + start
      /\ Cell = (sample_pos + start) \div Period
  <2> DEFINE abs == sample_pos + start
  <2>1. abs \in Nat
    BY <1>2
  <2>2. Cell = abs \div Period
    BY DEF Cell
  <2> HIDE DEF abs
  <2>3. abs \div Period \in Nat /\ Period * (abs \div Period) <= abs
    BY <2>1, CellFacts
  <2> QED BY <2>2, <2>3 DEF abs
<1> HIDE DEF e
<1>5. TypeOK'
  BY <1>1, <1>2, <1>3 DEF TypeOK, Pcs
<1>6. Period * Cell \in Nat
  BY <1>2, <1>4
<1>7. (Boundaries(Now))' = Cell + 1
  <2> DEFINE now == sample_pos + e
  <2>1. now \in Nat /\ Period * Cell < now /\ now <= Period * Cell + Period
    BY <1>2, <1>3, <1>4, <1>6
  <2>2. Now' = now
    BY <1>1 DEF Now
  <2> HIDE DEF now
  <2>3. Boundaries(now) = Cell + 1
    BY <1>4, <2>1, BoundariesIn
  <2>4. (Boundaries(Now))' = Boundaries(now)
    BY <2>2 DEF Boundaries
  <2> QED BY <2>3, <2>4
<1>8. GridInv'
  <2>1. steps = pending - Boundaries(origin)
    BY <1>1 DEF GridInv
  <2>2. (Boundaries(origin))' = Boundaries(origin)
    BY <1>1
  <2> QED BY <1>1, <1>2, <1>3, <1>7, <2>1, <2>2 DEF GridInv
<1>9. LatchInv'
  <2>1. \A i \in DOMAIN events : i < ev => events[i].offset <= start
    BY <1>1 DEF LatchInv, LatchExact
  <2>2. \A i \in DOMAIN events : events[i].offset \in Nat
    BY OffsetsNat
  <2>3. \A i \in DOMAIN events : i < ev => events[i].offset <= e
    BY <1>2, <1>3, <2>1, <2>2
  <2> QED BY <1>1, <2>3 DEF LatchInv, LatchExact, Sorted
<1>10. RunInCell'
  <2> DEFINE n == e - start
             from == sample_pos + start
             last == from + n - 1
  <2>1. n \in Nat /\ from \in Nat /\ last \in Nat /\ from <= last
    BY <1>2, <1>3
  <2>2. out'.from = from /\ Len(out'.values) = n
    <3>1. out'.values = [k \in 1..n |-> CurrentValues(bank)]
      BY <1>1
    <3> HIDE DEF n
    <3>2. Len([k \in 1..n |-> CurrentValues(bank)]) = n
      BY <2>1
    <3> QED BY <1>1, <3>1, <3>2
  <2>3. last = sample_pos + e - 1
    BY <1>2, <1>3
  <2>4. Period * Cell <= last /\ last < Period * Cell + Period
    BY <1>2, <1>3, <1>4, <1>6, <2>1, <2>3
  <2> HIDE DEF last
  <2>5. last \div Period = Cell
    <3> DEFINE c == Cell
    <3>1. c \in Int /\ Period * c <= last /\ last < Period * c + Period
      BY <1>4, <2>4
    <3> HIDE DEF c
    <3>2. last \div Period = c
      BY <1>2, <2>1, <3>1, QuotientUnique
    <3> QED BY <3>2 DEF c
  <2>6. out'.from + Len(out'.values) - 1 = last
    BY <2>2 DEF last
  <2> HIDE DEF n, from
  <2> QED BY <1>4, <2>1, <2>2, <2>5, <2>6 DEF RunInCell, from
<1> QED BY <1>5, <1>8, <1>9, <1>10

LEMMA ReturnKeeps ==
  ASSUME IInv, Return
  PROVE  IInv'
<1> USE DEF IInv
<1>1. /\ pc = "return" /\ sample_pos' = sample_pos + frames /\ pc' = "idle"
      /\ frames' = 0 /\ events' = <<>> /\ start' = 0 /\ ev' = 1 /\ pending' = 0
      /\ mark' = [bank |-> bank, seen |-> sample_pos']
      /\ UNCHANGED <<script, bank, out, origin, steps>>
  BY DEF Return
<1>2. TypeOK'
  BY <1>1 DEF TypeOK, Pcs
<1>3. GridInv'
  <2>1. steps = pending - Boundaries(origin) /\ pending = Boundaries(Now) /\ start = frames
    BY <1>1 DEF GridInv
  <2>2. (Boundaries(origin))' = Boundaries(origin)
        /\ (Boundaries(sample_pos))' = Boundaries(Now)
    BY <1>1, <2>1 DEF Boundaries, Now
  <2> QED BY <1>1, <2>1, <2>2 DEF GridInv
<1>4. LatchInv'
  BY <1>1 DEF LatchInv, LatchExact, Sorted
<1>5. RunInCell'
  BY <1>1 DEF RunInCell
<1> QED BY <1>2, <1>3, <1>4, <1>5

LEMMA MoveKeeps ==
  ASSUME IInv, NEW q \in Nat, MoveTo(q)
  PROVE  IInv'
<1> USE DEF IInv
<1>1. /\ pc = "idle" /\ bank' = ResetBank(bank) /\ sample_pos' = q /\ origin' = q
      /\ steps' = 0 /\ mark' = [bank |-> bank', seen |-> q]
      /\ UNCHANGED <<script, pc, frames, events, start, ev, pending, out>>
  BY DEF MoveTo, callVars
<1>2. TypeOK'
  BY <1>1, BankTypes DEF TypeOK
<1>3. GridInv'
  <2>1. (Boundaries(sample_pos))' = Boundaries(q) /\ (Boundaries(origin))' = Boundaries(q)
    BY <1>1 DEF Boundaries
  <2>2. Boundaries(q) \in Nat
    BY FirstPendingExact
  <2> QED BY <1>1, <2>1, <2>2 DEF GridInv
<1>4. LatchInv' /\ RunInCell'
  BY <1>1 DEF LatchInv, LatchExact, Sorted, RunInCell
<1> QED BY <1>2, <1>3, <1>4

LEMMA SetKeeps ==
  ASSUME IInv, NEW p \in Param, NEW v \in Writable, SetParameterImmediate(p, v)
  PROVE  IInv'
<1> USE DEF IInv
<1>1. /\ pc = "idle" /\ bank' = SetImmediate(bank, p, v)
      /\ mark' = [bank |-> bank', seen |-> sample_pos]
      /\ UNCHANGED <<script, sample_pos, pc, frames, events, start, ev, pending, out,
                     origin, steps>>
  BY DEF SetParameterImmediate, callVars
<1>2. TypeOK'
  <2>1. v \in Writes
    BY DriverAssumption DEF Writes
  <2>2. bank' \in Bank
    BY <1>1, <2>1, SetImmediateType DEF TypeOK
  <2> QED BY <1>1, <2>2 DEF TypeOK
<1>3. GridInv' /\ LatchInv' /\ RunInCell'
  BY <1>1 DEF GridInv, Now, Cell, LatchInv, LatchExact, Sorted, RunInCell, Boundaries
<1> QED BY <1>2, <1>3

LEMMA StutterKeeps ==
  ASSUME IInv, UNCHANGED vars
  PROVE  IInv'
<1>1. UNCHANGED <<script, sample_pos, bank, pc, frames, events, start, ev, pending,
                  out, mark, origin, steps>>
  BY DEF vars, callVars, histVars
<1>2. TypeOK'
  BY <1>1 DEF IInv, TypeOK
<1>3. GridInv' /\ LatchInv' /\ RunInCell'
  BY <1>1 DEF IInv, GridInv, Now, Cell, LatchInv, LatchExact, Sorted, RunInCell, Boundaries
<1> QED BY <1>2, <1>3 DEF IInv

(***************************************************************************)
(* The inductive invariant holds of every behaviour of the driver.         *)
(***************************************************************************)
THEOREM Inductive == Spec => []IInv
<1>1. Init => IInv
  BY InitIInv
<1>2. IInv /\ [Next]_vars => IInv'
  <2> SUFFICES ASSUME IInv, [Next]_vars PROVE IInv'
    OBVIOUS
  <2>1. ASSUME NEW n \in 0..MaxBlock, NEW extra \in 0..LookAhead, Begin(n, extra)
        PROVE  IInv'
    BY <2>1, BeginKeeps
  <2>2. CASE LatchEvent
    BY <2>2, LatchEventKeeps
  <2>3. CASE LatchDone
    BY <2>3, LatchDoneKeeps
  <2>4. CASE StepGrid
    BY <2>4, StepGridKeeps
  <2>5. CASE StepDone
    BY <2>5, StepDoneKeeps
  <2>6. CASE Render
    BY <2>6, RenderKeeps
  <2>7. CASE Return
    BY <2>7, ReturnKeeps
  <2>8. CASE Restart
    BY <2>8, MoveKeeps DEF Restart
  <2>9. ASSUME NEW q \in SeekTo, Seek(q) PROVE IInv'
    <3>1. q \in Nat
      BY DriverAssumption
    <3> QED BY <2>9, <3>1, MoveKeeps DEF Seek
  <2>10. ASSUME NEW p \in Param, NEW v \in Writable, SetParameterImmediate(p, v)
         PROVE  IInv'
    BY <2>10, SetKeeps
  <2>11. CASE UNCHANGED vars
    BY <2>11, StutterKeeps
  <2> QED
    BY <2>1, <2>2, <2>3, <2>4, <2>5, <2>6, <2>7, <2>8, <2>9, <2>10, <2>11 DEF Next
<1> QED
  BY <1>1, <1>2, PTL DEF Spec

-----------------------------------------------------------------------------
\* Every reachable state is well typed.
THEOREM TypeCorrect == Spec => []TypeOK
<1>1. IInv => TypeOK
  BY DEF IInv
<1> QED BY <1>1, Inductive, PTL

\* However the host cuts its blocks, each boundary it has crossed since the
\* timeline was placed was stepped exactly once.
THEOREM GridStepsExact == Spec => []GridExact
<1>1. IInv => GridExact
  BY DEF IInv, GridInv, GridExact
<1> QED BY <1>1, Inductive, PTL

\* At every step and every run, exactly the targets stamped at or before the
\* run's first frame have been latched.
THEOREM LatchedOnTime == Spec => []LatchExact
<1>1. IInv => LatchExact
  BY DEF IInv, LatchInv
<1> QED BY <1>1, Inductive, PTL

\* No run handed to a kernel is empty or crosses a grid boundary.
THEOREM RunsFitScratch == Spec => []RunInCell
<1>1. IInv => RunInCell
  BY DEF IInv
<1> QED BY <1>1, Inductive, PTL

-----------------------------------------------------------------------------
(* Recursion over the naturals. *)

Below == {p \in Nat \X Nat : p[1] < p[2]}

\* Induction over the naturals, on sets.
LEMMA NatInd ==
  ASSUME NEW S \in SUBSET Nat, 0 \in S, \A n \in S : n + 1 \in S
  PROVE  S = Nat
<1> SUFFICES ASSUME S # Nat PROVE FALSE
  OBVIOUS
<1> DEFINE T == Nat \ S
<1>1. T \subseteq Nat /\ T # {}
  OBVIOUS
<1>2. IsWellFoundedOn(Below, Nat)
  BY NatLessThanWellFounded DEF OpToRel, Below
<1>3. PICK m \in T : \A k \in T : ~ (<<k, m>> \in Below)
  <2> HIDE DEF T
  <2> QED BY <1>1, <1>2, WFMin, Zenon
<1>4. m \in Nat /\ m # 0 /\ m \notin S
  BY <1>3
<1>5. m - 1 \in Nat /\ <<m - 1, m>> \in Below
  BY <1>4 DEF Below
<1>6. m - 1 \in S /\ (m - 1) + 1 = m
  BY <1>3, <1>4, <1>5
<1> QED BY <1>4, <1>6

\* Induction up to a bound.
LEMMA UpTo ==
  ASSUME NEW n \in Nat, NEW S, 0 \in S, \A k \in 1..n : k - 1 \in S => k \in S
  PROVE  0..n \subseteq S
<1> DEFINE A == {m \in Nat : m <= n => m \in S}
<1>1. 0 \in A
  OBVIOUS
<1>2. ASSUME NEW m \in A PROVE m + 1 \in A
  <2>1. ASSUME m + 1 <= n PROVE m + 1 \in S
    <3>1. m \in Nat /\ m + 1 \in 1..n /\ (m + 1) - 1 = m /\ m \in S
      BY <2>1
    <3> DEFINE k == m + 1
    <3>2. k \in 1..n /\ k - 1 \in S
      BY <3>1
    <3> HIDE DEF k
    <3>3. k \in S
      BY <3>2
    <3> QED BY <3>3 DEF k
  <2> QED BY <2>1
<1>3. A = Nat
  <2>1. A \in SUBSET Nat
    OBVIOUS
  <2> HIDE DEF A
  <2> QED BY <1>1, <1>2, <2>1, NatInd
<1> QED BY <1>3

\* g starts from b and takes the k-th step of F to its k-th value.
Iterates(g, n, X, b, F) ==
  g \in [0..n -> X] /\ g[0] = b /\ \A k \in 1..n : g[k] = F[k][g[k - 1]]

\* There is such a g.
LEMMA Iteration ==
  ASSUME NEW n \in Nat, NEW X, NEW b \in X, NEW F, \A k \in 1..n : F[k] \in [X -> X]
  PROVE  \E g : Iterates(g, n, X, b, F)
<1> DEFINE A == {m \in 0..n : \E g : Iterates(g, m, X, b, F)}
<1>1. 0 \in A
  <2> DEFINE g == [k \in 0..0 |-> b]
  <2>1. Iterates(g, 0, X, b, F)
    BY DEF Iterates
  <2> QED BY <2>1
<1>2. ASSUME NEW k \in 1..n, k - 1 \in A PROVE k \in A
  <2>1. PICK g : Iterates(g, k - 1, X, b, F)
    BY <1>2
  <2> DEFINE j == k - 1
             h == [i \in 0..k |-> IF i = k THEN F[k][g[j]] ELSE g[i]]
  <2>2. j \in Nat /\ k = j + 1 /\ k \in Nat
    OBVIOUS
  <2>3. Iterates(g, j, X, b, F)
    BY <2>1
  <2> HIDE DEF j
  <2>4. g[j] \in X
    BY <2>2, <2>3 DEF Iterates
  <2>5. F[k][g[j]] \in X
    BY <2>4
  <2>6. h \in [0..k -> X] /\ h[0] = b
    <3>1. \A i \in 0..k : i = k \/ i \in 0..j
      BY <2>2
    <3>2. \A i \in 0..j : g[i] \in X
      BY <2>3 DEF Iterates
    <3> QED BY <2>2, <2>3, <2>5, <3>1, <3>2 DEF Iterates
  <2>7. ASSUME NEW i \in 1..k PROVE h[i] = F[i][h[i - 1]]
    <3>1. CASE i = k
      <4>1. h[k - 1] = g[j] /\ h[k] = F[k][g[j]]
        BY <2>2
      <4> QED BY <3>1, <4>1
    <3>2. CASE i # k
      <4>1. i \in 1..j /\ i - 1 \in 0..k /\ i - 1 # k /\ i \in 0..k
        BY <2>2, <3>2
      <4>2. h[i] = g[i] /\ h[i - 1] = g[i - 1]
        BY <3>2, <4>1
      <4>3. g[i] = F[i][g[i - 1]]
        BY <2>3, <4>1 DEF Iterates
      <4> QED BY <4>2, <4>3
    <3> QED BY <3>1, <3>2
  <2> HIDE DEF h
  <2>8. Iterates(h, k, X, b, F)
    BY <2>6, <2>7 DEF Iterates
  <2> QED BY <2>8
<1> HIDE DEF A
<1>3. 0..n \subseteq A
  BY <1>1, <1>2, UpTo
<1>4. n \in A
  BY <1>3
<1> QED BY <1>4 DEF A

-----------------------------------------------------------------------------
(* The targets of a schedule, latched in order. *)

\* One step of latching the targets of es at S.
Latched(c, es, S, k) ==
  IF k \in S THEN SetTarget(c, es[k].param, es[k].value) ELSE c

\* g is the bank after each event of es, from b, with the targets at S latched.
Latching(g, b, es, S) ==
  /\ g \in [0..Len(es) -> Bank] /\ g[0] = b
  /\ \A k \in 1..Len(es) : g[k] = Latched(g[k - 1], es, S, k)

\* A step of latching leaves a bank.
LEMMA LatchedType ==
  ASSUME NEW es \in Seq(Stamped), NEW k \in 1..Len(es), NEW c \in Bank, NEW S
  PROVE  Latched(c, es, S, k) \in Bank
<1>1. es[k] \in Stamped
  OBVIOUS
<1>2. es[k].value \in Writes
  BY <1>1 DEF Stamped, Writes
<1> DEFINE p == es[k].param
           v == es[k].value
<1> HIDE DEF p, v
<1>3. SetTarget(c, p, v) \in Bank
  BY <1>2, SetTargetType DEF v
<1> QED BY <1>3 DEF Latched, p, v

\* A schedule can be latched.
LEMMA LatchingExists ==
  ASSUME NEW es \in Seq(Stamped), NEW b \in Bank, NEW S
  PROVE  \E g : Latching(g, b, es, S)
<1> DEFINE n == Len(es)
           F == [k \in 1..n |-> [c \in Bank |-> Latched(c, es, S, k)]]
<1>1. n \in Nat
  OBVIOUS
<1>2. \A k \in 1..n : F[k] \in [Bank -> Bank]
  BY LatchedType
<1>3. \A k \in 1..n, c \in Bank : F[k][c] = Latched(c, es, S, k)
  OBVIOUS
<1> HIDE DEF n, F
<1>4. PICK g : Iterates(g, n, Bank, b, F)
  BY <1>1, <1>2, Iteration
<1>5. \A k \in 1..n : k - 1 \in 0..n
  BY <1>1
<1>6. Latching(g, b, es, S)
  BY <1>3, <1>4, <1>5 DEF Iterates, Latching, n
<1> QED BY <1>6

\* What SetTargets computes.
LEMMA SetTargetsIs ==
  ASSUME NEW es \in Seq(Stamped), NEW b \in Bank, NEW S
  PROVE  \E g : Latching(g, b, es, S) /\ SetTargets(b, es, S) = g[Len(es)]
<1> DEFINE Body(f) == [k \in 0..Len(es) |->
                         IF k = 0 THEN b
                         ELSE IF k \in S THEN SetTarget(f[k - 1], es[k].param, es[k].value)
                         ELSE f[k - 1]]
           after == CHOOSE f : f = Body(f)
<1>1. PICK g : Latching(g, b, es, S)
  BY LatchingExists
<1>2. g = Body(g)
  <2>1. ASSUME NEW k \in 0..Len(es)
        PROVE  g[k] = IF k = 0 THEN b
                      ELSE IF k \in S THEN SetTarget(g[k - 1], es[k].param, es[k].value)
                      ELSE g[k - 1]
    <3>1. k = 0 \/ k \in 1..Len(es)
      OBVIOUS
    <3> QED BY <1>1, <3>1 DEF Latching, Latched
  <2>2. g \in [0..Len(es) -> Bank]
    BY <1>1 DEF Latching
  <2> QED BY <2>1, <2>2
<1>3. after = Body(after)
  <2> HIDE DEF Body
  <2> QED BY <1>2
<1>4. SetTargets(b, es, S) = after[Len(es)]
  BY DEF SetTargets
<1> HIDE DEF after
<1>5. /\ after = [k \in 0..Len(es) |-> after[k]] /\ after[0] = b
      /\ \A k \in 1..Len(es) : after[k] = Latched(after[k - 1], es, S, k)
  <2>1. ASSUME NEW k \in 0..Len(es)
        PROVE  after[k] = IF k = 0 THEN b
                          ELSE IF k \in S THEN SetTarget(after[k - 1], es[k].param, es[k].value)
                          ELSE after[k - 1]
    BY <1>3
  <2>2. DOMAIN after = 0..Len(es) /\ after = [k \in 0..Len(es) |-> after[k]]
    BY <1>3
  <2>3. 0 \in 0..Len(es) /\ \A k \in 1..Len(es) : k \in 0..Len(es) /\ k # 0
    OBVIOUS
  <2> QED BY <2>1, <2>2, <2>3 DEF Latched
<1>6. 0..Len(es) \subseteq {k \in 0..Len(es) : after[k] \in Bank}
  <2> DEFINE A == {k \in 0..Len(es) : after[k] \in Bank}
  <2>1. 0 \in A
    BY <1>5
  <2>2. \A k \in 1..Len(es) : k - 1 \in A => k \in A
    BY <1>5, LatchedType
  <2>3. Len(es) \in Nat
    OBVIOUS
  <2> HIDE DEF A
  <2>4. 0..Len(es) \subseteq A
    BY <2>1, <2>2, <2>3, UpTo
  <2> QED BY <2>4 DEF A
<1>7. Latching(after, b, es, S)
  BY <1>5, <1>6 DEF Latching
<1> QED BY <1>4, <1>7

\* There is one way to latch.
LEMMA LatchingUnique ==
  ASSUME NEW es \in Seq(Stamped), NEW b, NEW S, NEW g, NEW h,
         Latching(g, b, es, S), Latching(h, b, es, S)
  PROVE  g[Len(es)] = h[Len(es)]
<1> DEFINE n == Len(es)
           A == {k \in 0..n : g[k] = h[k]}
<1>1. n \in Nat
  OBVIOUS
<1>2. 0 \in A
  BY DEF Latching
<1>3. \A k \in 1..n : k - 1 \in A => k \in A
  BY DEF Latching
<1> HIDE DEF n, A
<1>4. 0..n \subseteq A
  BY <1>1, <1>2, <1>3, UpTo
<1>5. n \in A
  BY <1>1, <1>4
<1> QED BY <1>5 DEF A, n

\* Where no target is taken the bank stays.
LEMMA Quiet ==
  ASSUME NEW es \in Seq(Stamped), NEW b, NEW S, NEW g, Latching(g, b, es, S),
         NEW i \in 0..Len(es), NEW j \in 0..Len(es), i <= j,
         \A k \in 1..Len(es) : i < k /\ k <= j => k \notin S
  PROVE  g[i] = g[j]
<1> DEFINE n == Len(es)
           A == {k \in 0..n : i <= k /\ k <= j => g[k] = g[i]}
<1>1. n \in Nat
  OBVIOUS
<1>2. 0 \in A
  <2>1. i <= 0 => i = 0
    OBVIOUS
  <2> QED BY <2>1
<1>3. ASSUME NEW k \in 1..n, k - 1 \in A PROVE k \in A
  <2>1. ASSUME i <= k, k <= j PROVE g[k] = g[i]
    <3>1. CASE i = k
      BY <3>1
    <3>2. CASE i < k
      <4>1. i <= k - 1 /\ k - 1 <= j
        BY <2>1, <3>2
      <4>2. g[k - 1] = g[i]
        BY <1>3, <4>1
      <4>3. k \notin S
        BY <2>1, <3>2
      <4>4. g[k] = g[k - 1]
        BY <4>3 DEF Latching, Latched
      <4> QED BY <4>2, <4>4
    <3> QED BY <2>1, <3>1, <3>2
  <2> QED BY <2>1
<1>4. n = Len(es)
  OBVIOUS
<1>5. j \in A => g[j] = g[i]
  OBVIOUS
<1> HIDE DEF n, A
<1>6. 0..n \subseteq A
  BY <1>1, <1>2, <1>3, UpTo
<1> QED BY <1>4, <1>5, <1>6

\* Latching leaves a bank.
LEMMA SetTargetsType ==
  ASSUME NEW es \in Seq(Stamped), NEW b \in Bank, NEW S
  PROVE  SetTargets(b, es, S) \in Bank
<1>1. PICK g : Latching(g, b, es, S) /\ SetTargets(b, es, S) = g[Len(es)]
  BY SetTargetsIs
<1>2. Len(es) \in 0..Len(es)
  OBVIOUS
<1> QED BY <1>1, <1>2 DEF Latching

\* No targets, no change.
LEMMA NoTargets ==
  ASSUME NEW es \in Seq(Stamped), NEW b \in Bank
  PROVE  SetTargets(b, es, {}) = b
<1>1. PICK g : Latching(g, b, es, {}) /\ SetTargets(b, es, {}) = g[Len(es)]
  BY SetTargetsIs
<1>2. g[0] = g[Len(es)]
  <2>1. 0 \in 0..Len(es) /\ Len(es) \in 0..Len(es) /\ 0 <= Len(es)
    OBVIOUS
  <2>2. \A k \in 1..Len(es) : k \notin {}
    OBVIOUS
  <2> DEFINE z == 0
             n == Len(es)
             S == {}
  <2>3. /\ z \in 0..Len(es) /\ n \in 0..Len(es) /\ z <= n /\ Latching(g, b, es, S)
        /\ \A k \in 1..Len(es) : z < k /\ k <= n => k \notin S
    BY <1>1, <2>1, <2>2
  <2> HIDE DEF z, n, S
  <2>4. g[z] = g[n]
    BY <2>3, Quiet
  <2> QED BY <2>4 DEF z, n
<1> QED BY <1>1, <1>2 DEF Latching

\* Earlier targets and then later ones: all of them.
LEMMA Compose ==
  ASSUME NEW es \in Seq(Stamped), NEW b \in Bank,
         NEW S \in SUBSET DOMAIN es, NEW T \in SUBSET DOMAIN es,
         \A i \in S, j \in T : i < j
  PROVE  SetTargets(SetTargets(b, es, S), es, T) = SetTargets(b, es, S \cup T)
<1> DEFINE n == Len(es)
           U == S \cup T
           c == SetTargets(b, es, S)
           Late(k) == \E j \in T : j <= k
<1>1. n \in Nat /\ n = Len(es) /\ DOMAIN es = 1..n
  OBVIOUS
<1>2. c \in Bank
  BY SetTargetsType
<1>3. PICK g : Latching(g, b, es, S) /\ c = g[n]
  BY SetTargetsIs
<1> HIDE DEF c
<1>4. PICK h : Latching(h, c, es, T) /\ SetTargets(c, es, T) = h[n]
  BY <1>2, SetTargetsIs
<1>5. PICK w : Latching(w, b, es, U) /\ SetTargets(b, es, U) = w[n]
  BY SetTargetsIs
<1> HIDE DEF n, U
<1> DEFINE x == [k \in 0..n |-> IF Late(k) THEN h[k] ELSE g[k]]
<1>6. \A k \in 0..n : x[k] = (IF Late(k) THEN h[k] ELSE g[k]) /\ g[k] \in Bank /\ h[k] \in Bank
  BY <1>1, <1>3, <1>4 DEF Latching
<1>7. x \in [0..n -> Bank]
  BY <1>6
<1>8. ~ Late(0)
  BY <1>1
<1>9. x[0] = b
  <2>1. 0 \in 0..n
    BY <1>1
  <2>2. x[0] = g[0]
    BY <1>6, <1>8, <2>1
  <2> QED BY <1>3, <2>2 DEF Latching
<1>10. ASSUME NEW k \in 1..n PROVE x[k] = Latched(x[k - 1], es, U, k)
  <2>1. /\ k \in 0..n /\ k - 1 \in 0..n /\ k \in Nat /\ k - 1 \in Nat
        /\ g[k] = Latched(g[k - 1], es, S, k) /\ h[k] = Latched(h[k - 1], es, T, k)
    BY <1>1, <1>3, <1>4 DEF Latching
  <2>2. \A j \in T : j \in Nat
    BY <1>1
  <2>3. Late(k) <=> Late(k - 1) \/ k \in T
    BY <2>1, <2>2
  <2>4. CASE Late(k - 1)
    <3>1. PICK j \in T : j <= k - 1
      BY <2>4
    <3>2. k \notin S
      <4> SUFFICES ASSUME k \in S PROVE FALSE
        OBVIOUS
      <4>1. k < j
        BY <3>1
      <4> QED BY <2>1, <2>2, <3>1, <4>1
    <3>3. x[k] = h[k] /\ x[k - 1] = h[k - 1]
      BY <1>6, <2>1, <2>3, <2>4
    <3> QED BY <2>1, <3>2, <3>3 DEF Latched, U
  <2>5. CASE ~ Late(k - 1) /\ k \in T
    <3>1. x[k] = h[k] /\ x[k - 1] = g[k - 1]
      BY <1>6, <2>1, <2>3, <2>5
    <3> DEFINE m == k - 1
               z == 0
    <3>2. z \in 0..Len(es) /\ m \in 0..Len(es) /\ n \in 0..Len(es) /\ z <= m /\ m <= n
      BY <1>1, <2>1
    <3>3. \A i \in 1..Len(es) : m < i /\ i <= n => i \notin S
      <4> SUFFICES ASSUME NEW i \in 1..Len(es), m < i, i \in S PROVE FALSE
        OBVIOUS
      <4>1. i < k
        BY <2>5
      <4> QED BY <4>1
    <3>4. \A i \in 1..Len(es) : z < i /\ i <= m => i \notin T
      BY <2>5
    <3>5. g[k - 1] = g[m] /\ h[k - 1] = h[m] /\ h[z] = h[0]
      OBVIOUS
    <3> HIDE DEF m, z
    <3>6. g[m] = g[n]
      BY <1>3, <3>2, <3>3, Quiet
    <3>7. h[z] = h[m]
      BY <1>4, <3>2, <3>4, Quiet
    <3>8. h[0] = c
      BY <1>4 DEF Latching
    <3>9. g[k - 1] = h[k - 1]
      BY <1>3, <3>5, <3>6, <3>7, <3>8
    <3> QED BY <2>1, <2>5, <3>1, <3>9 DEF Latched, U
  <2>6. CASE ~ Late(k - 1) /\ k \notin T
    <3>1. x[k] = g[k] /\ x[k - 1] = g[k - 1]
      BY <1>6, <2>1, <2>3, <2>6
    <3> QED BY <2>1, <2>6, <3>1 DEF Latched, U
  <2> QED BY <2>4, <2>5, <2>6
<1>11. x[n] = h[n]
  <2>1. n \in 0..n
    BY <1>1
  <2>2. CASE Late(n)
    BY <1>6, <2>1, <2>2
  <2>3. CASE ~ Late(n)
    <3>1. x[n] = g[n]
      BY <1>6, <2>1, <2>3
    <3>2. T = {}
      <4>1. \A j \in T : j <= n
        BY <1>1
      <4> QED BY <2>3, <4>1
    <3> DEFINE z == 0
    <3>3. z \in 0..Len(es) /\ n \in 0..Len(es) /\ z <= n
          /\ \A i \in 1..Len(es) : z < i /\ i <= n => i \notin T
      BY <1>1, <3>2
    <3>4. h[z] = c
      BY <1>4 DEF Latching
    <3> HIDE DEF z
    <3>5. h[z] = h[n]
      BY <1>4, <3>3, Quiet
    <3> QED BY <1>3, <3>1, <3>4, <3>5
  <2> QED BY <2>2, <2>3
<1> HIDE DEF x, Late
<1>12. Latching(x, b, es, U)
  BY <1>1, <1>7, <1>9, <1>10 DEF Latching
<1>13. x[n] = w[n]
  BY <1>1, <1>5, <1>12, LatchingUnique
<1> QED BY <1>4, <1>5, <1>11, <1>13 DEF c, U

\* One target.
LEMMA OneTarget ==
  ASSUME NEW es \in Seq(Stamped), NEW b \in Bank, NEW m \in DOMAIN es
  PROVE  SetTargets(b, es, {m}) = SetTarget(b, es[m].param, es[m].value)
<1> DEFINE n == Len(es)
           S == {m}
<1>1. n \in Nat /\ n = Len(es) /\ m \in 1..n /\ m - 1 \in 0..n /\ m \in 0..n /\ n \in 0..n
  OBVIOUS
<1>2. PICK g : Latching(g, b, es, S) /\ SetTargets(b, es, S) = g[n]
  BY SetTargetsIs
<1> HIDE DEF n
<1>3. g[0] = g[m - 1]
  <2> DEFINE z == 0
             l == m - 1
  <2>1. z \in 0..Len(es) /\ l \in 0..Len(es) /\ z <= l
        /\ \A k \in 1..Len(es) : z < k /\ k <= l => k \notin S
    BY <1>1
  <2> HIDE DEF z, l, S
  <2>2. g[z] = g[l]
    BY <1>2, <2>1, Quiet
  <2> QED BY <2>2 DEF z, l
<1>4. g[m] = g[n]
  <2>1. m \in 0..Len(es) /\ n \in 0..Len(es) /\ m <= n
        /\ \A k \in 1..Len(es) : m < k /\ k <= n => k \notin S
    BY <1>1
  <2> HIDE DEF S
  <2> QED BY <1>2, <2>1, Quiet
<1>5. g[m] = SetTarget(g[m - 1], es[m].param, es[m].value)
  BY <1>1, <1>2 DEF Latching, Latched
<1>6. g[0] = b
  BY <1>2 DEF Latching
<1> QED BY <1>2, <1>3, <1>4, <1>5, <1>6

\* A target moves no value: the ramp only starts.
LEMMA TargetKeepsValues ==
  ASSUME NEW b \in Bank, NEW p, NEW v \in Writes
  PROVE  CurrentValues(SetTarget(b, p, v)) = CurrentValues(b)
<1>1. CASE p \in Param /\ v # NonFinite
  <2> DEFINE t == Clamp(p, v)
             s == Retarget(p, b[p], t)
             c == [b EXCEPT ![p] = s]
  <2>1. s.cur = b[p].cur
    BY <1>1 DEF Retarget, Bank, Smoother
  <2>2. SetTarget(b, p, v) \in {b, c}
    BY DEF SetTarget
  <2> HIDE DEF s
  <2>3. \A q \in Param : c[q].cur = b[q].cur
    BY <2>1 DEF Bank
  <2> HIDE DEF c
  <2> QED BY <2>2, <2>3 DEF CurrentValues
<1>2. CASE ~(p \in Param /\ v # NonFinite)
  BY <1>2 DEF SetTarget
<1> QED BY <1>1, <1>2

\* Nor do any number of targets.
LEMMA TargetsKeepValues ==
  ASSUME NEW es \in Seq(Stamped), NEW b \in Bank, NEW S
  PROVE  CurrentValues(SetTargets(b, es, S)) = CurrentValues(b)
<1> DEFINE n == Len(es)
<1>1. n \in Nat /\ n = Len(es)
  OBVIOUS
<1>2. PICK g : Latching(g, b, es, S) /\ SetTargets(b, es, S) = g[n]
  BY SetTargetsIs
<1> HIDE DEF n
<1> DEFINE A == {k \in 0..n : CurrentValues(g[k]) = CurrentValues(b)}
<1>3. 0 \in A
  BY <1>1, <1>2 DEF Latching
<1>4. ASSUME NEW k \in 1..n, k - 1 \in A PROVE k \in A
  <2>1. k \in 0..n /\ k - 1 \in 0..n /\ g[k - 1] \in Bank /\ g[k] = Latched(g[k - 1], es, S, k)
    BY <1>1, <1>2 DEF Latching
  <2>2. es[k].value \in Writes
    <3>1. es[k] \in Stamped
      BY <1>1
    <3> QED BY <3>1 DEF Stamped, Writes
  <2> DEFINE c == g[k - 1]
             p == es[k].param
             v == es[k].value
  <2> HIDE DEF c, p, v
  <2>3. CurrentValues(SetTarget(c, p, v)) = CurrentValues(c)
    BY <2>1, <2>2, TargetKeepsValues DEF c, v
  <2>4. CurrentValues(g[k]) = CurrentValues(c)
    BY <2>1, <2>3 DEF Latched, c, p, v
  <2>5. CurrentValues(c) = CurrentValues(b)
    BY <1>4 DEF c
  <2> QED BY <2>1, <2>4, <2>5
<1>5. n \in A => CurrentValues(g[n]) = CurrentValues(b)
  OBVIOUS
<1> HIDE DEF A
<1>6. 0..n \subseteq A
  BY <1>1, <1>3, <1>4, UpTo
<1> QED BY <1>1, <1>2, <1>5, <1>6

-----------------------------------------------------------------------------
(***************************************************************************)
(* What the bank holds at each step of a call, in the timeline's terms.    *)
(* The block's events are the script's from + 1 to to; of them ev - 1 are  *)
(* consumed; those that the last run has not seen and that are stamped     *)
(* inside the block are in the bank.                                       *)
(***************************************************************************)
Stamps(a, b) == {i \in DOMAIN script : a <= script[i].at /\ script[i].at < b}

Window(from, to) ==
  /\ CutAt(sample_pos, from)
  /\ from <= to
  /\ \A i \in DOMAIN script : script[i].at < sample_pos + frames => i <= to
  /\ events = BlockEvents(sample_pos, from, to)

\* The events before the n-th that the last run has not seen.
Held(n) == {i \in Stamps(mark.seen, sample_pos + frames) : i < n}

Unseen(n) == \A i \in DOMAIN script : n <= i => mark.seen <= script[i].at

\* What the bank holds when every target up to the present frame is latched.
Present == SetTargets(mark.bank, script, Stamps(mark.seen, Now + 1))

BankInv ==
  /\ mark.seen <= Now
  /\ pc = "idle" => bank = mark.bank /\ mark.seen = sample_pos
  /\ pc # "idle" => \E from, to \in 0..Len(script) :
       /\ Window(from, to)
       /\ Unseen(from + ev)
       /\ pc \in {"latch", "drain"} => bank = SetTargets(mark.bank, script, Held(from + ev))
  /\ pc = "step" =>
       bank = IF Now % Period = 0 /\ pending = Cell + 1 THEN StepBank(Present) ELSE Present
  /\ pc = "render" => bank = IF Now % Period = 0 THEN StepBank(Present) ELSE Present
  /\ pc = "return" => bank = SetTargets(mark.bank, script, Stamps(mark.seen, Now))

\* The script and the history, as the solvers need them.
LEMMA ScriptFacts ==
  ASSUME TypeOK
  PROVE  /\ script \in Seq(Stamped) /\ Len(script) \in Nat /\ DOMAIN script = 1..Len(script)
         /\ \A i \in DOMAIN script : script[i].at \in Nat /\ script[i].value \in Writes
         /\ mark.bank \in Bank /\ mark.seen \in Nat
         /\ Len(events) \in Nat /\ DOMAIN events = 1..Len(events)
         /\ sample_pos \in Nat /\ frames \in Nat /\ start \in Nat /\ start <= frames
         /\ ev \in Nat /\ ev >= 1 /\ Now \in Nat
<1>1. script \in Seq(Stamped)
  BY ScriptAssumption DEF TypeOK
<1>2. Len(script) \in Nat /\ DOMAIN script = 1..Len(script)
  BY <1>1
<1>3. ASSUME NEW i \in DOMAIN script PROVE script[i].at \in Nat /\ script[i].value \in Writes
  <2>1. script[i] \in Stamped
    BY <1>1, <1>2
  <2> QED BY <2>1 DEF Stamped, Writes
<1>4. Len(events) \in Nat /\ DOMAIN events = 1..Len(events)
  BY DEF TypeOK
<1>5. mark.bank \in Bank /\ mark.seen \in Nat
  BY DEF TypeOK
<1>6. sample_pos \in Nat /\ frames \in Nat /\ start \in Nat /\ start <= frames
      /\ ev \in Nat /\ ev >= 1 /\ Now \in Nat
  BY <1>4 DEF TypeOK, Now
<1> QED BY <1>1, <1>2, <1>3, <1>4, <1>5, <1>6

\* A block's events are the script's, stamps made relative.
LEMMA WindowFacts ==
  ASSUME TypeOK, NEW from \in 0..Len(script), NEW to \in 0..Len(script), Window(from, to)
  PROVE  /\ Len(events) = to - from
         /\ \A i \in DOMAIN events :
              /\ from + i \in DOMAIN script
              /\ sample_pos + events[i].offset = script[from + i].at
              /\ events[i].param = script[from + i].param
              /\ events[i].value = script[from + i].value
         /\ \A i \in DOMAIN script : script[i].at < sample_pos <=> i <= from
<1> DEFINE n == to - from
<1>1. /\ from \in Nat /\ to \in Nat /\ n \in Nat /\ to <= Len(script) /\ to = from + n
      /\ DOMAIN script = 1..Len(script) /\ Len(script) \in Nat /\ sample_pos \in Nat
  BY ScriptFacts DEF Window
<1>2. events = [i \in 1..n |-> [offset |-> script[from + i].at - sample_pos,
                               param |-> script[from + i].param,
                               value |-> script[from + i].value]]
  BY DEF Window, BlockEvents
<1> HIDE DEF n
<1>3. Len(events) = n /\ DOMAIN events = 1..n
  BY <1>1, <1>2
<1>4. ASSUME NEW i \in 1..n
      PROVE  /\ from + i \in DOMAIN script
             /\ sample_pos + events[i].offset = script[from + i].at
             /\ events[i].param = script[from + i].param
             /\ events[i].value = script[from + i].value
  <2>1. from + i \in DOMAIN script
    BY <1>1
  <2>2. script[from + i].at \in Nat
    BY <2>1, ScriptFacts
  <2> DEFINE s == script[from + i]
  <2>3. events[i] = [offset |-> s.at - sample_pos, param |-> s.param, value |-> s.value]
    BY <1>2
  <2> HIDE DEF s
  <2>4. events[i].offset = s.at - sample_pos /\ events[i].param = s.param
        /\ events[i].value = s.value
    BY <2>3
  <2>5. s.at \in Nat
    BY <2>2 DEF s
  <2>6. sample_pos + events[i].offset = s.at
    BY <1>1, <2>4, <2>5
  <2> QED BY <2>1, <2>4, <2>6 DEF s
<1>5. \A i \in DOMAIN script : script[i].at < sample_pos <=> i <= from
  BY DEF Window, CutAt
<1> QED BY <1>3, <1>4, <1>5 DEF n

\* Once the targets due are latched, those consumed are those stamped up to the present.
LEMMA Consumed ==
  ASSUME TypeOK, NEW from \in 0..Len(script), NEW to \in 0..Len(script), Window(from, to),
         start < frames,
         \A j \in DOMAIN events : j < ev <=> events[j].offset <= start
  PROVE  \A i \in DOMAIN script : i < from + ev <=> script[i].at < Now + 1
<1> SUFFICES ASSUME NEW i \in DOMAIN script PROVE i < from + ev <=> script[i].at < Now + 1
  OBVIOUS
<1> DEFINE at == script[i].at
<1>1. /\ from \in Nat /\ to \in Nat /\ i \in Nat /\ at \in Nat
      /\ sample_pos \in Nat /\ frames \in Nat /\ start \in Nat /\ ev \in Nat /\ ev >= 1
      /\ Now = sample_pos + start
  BY ScriptFacts DEF Now
<1>2. (at < sample_pos <=> i <= from) /\ (at < sample_pos + frames => i <= to)
  BY WindowFacts DEF Window
<1>3. Len(events) = to - from /\ DOMAIN events = 1..Len(events)
  BY WindowFacts, ScriptFacts
<1>4. ASSUME from < i, i <= to
      PROVE  i < from + ev <=> at < Now + 1
  <2> DEFINE j == i - from
  <2>1. j \in DOMAIN events /\ from + j = i /\ j \in Nat
    <3> DEFINE l == Len(events)
    <3>1. l = to - from /\ DOMAIN events = 1..l
      BY <1>3
    <3> HIDE DEF l, at
    <3>2. j \in 1..l /\ from + j = i /\ j \in Nat
      BY <1>1, <1>4, <3>1
    <3> QED BY <3>1, <3>2
  <2>2. i < from + ev <=> j < ev
    BY <1>1
  <2> HIDE DEF j
  <2>3. events[j].offset \in Nat
    BY <2>1, OffsetsNat
  <2>4. sample_pos + events[j].offset = script[from + j].at
    BY <2>1, WindowFacts
  <2>5. sample_pos + events[j].offset = at
    BY <2>1, <2>4
  <2> HIDE DEF at
  <2>6. events[j].offset <= start <=> at < Now + 1
    BY <1>1, <2>3, <2>5
  <2> QED BY <2>1, <2>2, <2>6
<1> HIDE DEF at
<1>5. ASSUME i <= from PROVE i < from + ev <=> at < Now + 1
  BY <1>1, <1>2, <1>5
<1>6. ASSUME ~ (i <= from), ~ (i <= to) PROVE i < from + ev <=> at < Now + 1
  <2>1. to >= from
    BY DEF Window
  <2>2. ev <= Len(events) + 1
    BY DEF TypeOK
  <2>3. ~ (i < from + ev)
    BY <1>1, <1>3, <1>6, <2>1, <2>2
  <2>4. ~ (at < Now + 1)
    BY <1>1, <1>2, <1>6
  <2> QED BY <2>3, <2>4
<1>7. i < from + ev <=> at < Now + 1
  BY <1>1, <1>4, <1>5, <1>6
<1> QED BY <1>7 DEF at

\* On a boundary the boundaries behind are the cells behind, off it one more.
LEMMA BoundariesGrid ==
  ASSUME NEW f \in Nat
  PROVE  /\ f % Period = 0 => Boundaries(f) = f \div Period
         /\ f % Period # 0 => Boundaries(f) = (f \div Period) + 1
<1> DEFINE q == f \div Period
<1>1. /\ Period \in Nat \ {0} /\ q \in Nat /\ Period * q <= f /\ f < Period * q + Period
      /\ f % Period = f - Period * q
  BY DriverAssumption, CellFacts
<1> HIDE DEF q
<1>2. Period * q \in Nat
  BY <1>1
<1>3. ASSUME f = Period * q PROVE Boundaries(f) = q
  <2> DEFINE a == f + Period - 1
  <2>1. a \in Nat /\ Period * q <= a /\ a < Period * q + Period
    BY <1>1, <1>2, <1>3
  <2> HIDE DEF a
  <2>2. a \div Period = q
    BY <1>1, <2>1, QuotientUnique
  <2> QED BY <2>2 DEF Boundaries, a
<1>4. ASSUME f # Period * q PROVE Boundaries(f) = q + 1
  <2>1. Period * q < f /\ f <= Period * q + Period
    BY <1>1, <1>2, <1>4
  <2> QED BY <1>1, <2>1, BoundariesIn
<1>5. f % Period = 0 <=> f = Period * q
  BY <1>1, <1>2
<1> QED BY <1>3, <1>4, <1>5 DEF q

-----------------------------------------------------------------------------
\* BankInv holds at the start, and each action keeps it.
LEMMA InitBank == Init => BankInv
<1> SUFFICES ASSUME Init PROVE BankInv
  OBVIOUS
<1> QED BY DEF Init, BankInv, Now

\* A call takes the script's events of its block, and has latched none.
LEMMA BeginBank ==
  ASSUME IInv, IInv', BankInv,
         NEW n \in 0..MaxBlock, NEW extra \in 0..LookAhead, Begin(n, extra)
  PROVE  BankInv'
<1>1. /\ pc = "idle" /\ pc' = (IF n = 0 THEN "return" ELSE "latch") /\ frames' = n
      /\ start' = 0 /\ ev' = 1
      /\ UNCHANGED <<script, sample_pos, bank, mark>>
  BY DEF Begin, histVars
<1>2. PICK from \in 0..Len(script), to \in 0..Len(script) :
        /\ CutAt(sample_pos, from)
        /\ CutAt(sample_pos + n + extra, to)
        /\ events' = BlockEvents(sample_pos, from, to)
  BY DEF Begin
<1>3. /\ script \in Seq(Stamped) /\ Len(script) \in Nat /\ DOMAIN script = 1..Len(script)
      /\ \A i \in DOMAIN script : script[i].at \in Nat
      /\ sample_pos \in Nat /\ n \in Nat /\ extra \in Nat /\ mark.bank \in Bank
      /\ from \in Nat /\ to \in Nat
  BY ScriptFacts, DriverAssumption DEF IInv
<1>4. /\ \A i \in DOMAIN script : script[i].at < sample_pos <=> i <= from
      /\ \A i \in DOMAIN script : script[i].at < sample_pos + n + extra <=> i <= to
  BY <1>2 DEF CutAt
<1>5. \A i \in DOMAIN script : script[i].at < sample_pos + n => i <= to
  <2> SUFFICES ASSUME NEW i \in DOMAIN script, script[i].at < sample_pos + n PROVE i <= to
    OBVIOUS
  <2> DEFINE at == script[i].at
  <2>1. at \in Nat /\ at < sample_pos + n
    BY <1>3
  <2> HIDE DEF at
  <2>2. at < sample_pos + n + extra
    BY <1>3, <2>1
  <2> QED BY <1>4, <2>2 DEF at
<1>6. from <= to
  <2> SUFFICES ASSUME to < from PROVE FALSE
    BY <1>3
  <2>1. from \in DOMAIN script /\ ~ (from <= to)
    BY <1>3
  <2> DEFINE at == script[from].at
  <2>2. at \in Nat /\ at < sample_pos /\ ~ (at < sample_pos + n + extra)
    BY <1>3, <1>4, <2>1
  <2> HIDE DEF at
  <2> QED BY <1>3, <2>2
<1>7. bank = mark.bank /\ mark.seen = sample_pos
  BY <1>1 DEF BankInv
<1>8. start = 0 /\ Now = sample_pos /\ Now' = sample_pos
  BY <1>1, <1>3 DEF IInv, GridInv, Now
<1>9. Window(from, to)'
  BY <1>1, <1>2, <1>5, <1>6 DEF Window, CutAt, BlockEvents
<1>10. Unseen(from + ev)'
  <2>1. \A i \in DOMAIN script : from + 1 <= i => sample_pos <= script[i].at
    BY <1>3, <1>4
  <2> QED BY <1>1, <1>7, <2>1 DEF Unseen
<1>11. bank' = SetTargets(mark.bank, script, {})
  BY <1>1, <1>3, <1>7, NoTargets
<1>12. Held(from + ev)' = {}
  <2>1. \A i \in DOMAIN script : i < from + 1 => ~ (sample_pos <= script[i].at)
    BY <1>3, <1>4
  <2> QED BY <1>1, <1>7, <2>1 DEF Held, Stamps
<1>13. Stamps(mark.seen, Now)' = {}
  <2>1. \A i \in DOMAIN script : ~ (sample_pos <= script[i].at /\ script[i].at < sample_pos)
    BY <1>3
  <2> QED BY <1>1, <1>7, <1>8, <2>1 DEF Stamps
<1>14. bank' = SetTargets(mark.bank, script, Held(from + ev))'
  BY <1>1, <1>11, <1>12
<1>15. bank' = SetTargets(mark.bank, script, Stamps(mark.seen, Now))'
  BY <1>1, <1>11, <1>13
<1>16. (mark.seen <= Now)'
  BY <1>1, <1>3, <1>7, <1>8
<1>17. \E f, t \in (0..Len(script))' :
         /\ Window(f, t)'
         /\ Unseen(f + ev)'
         /\ bank' = SetTargets(mark.bank, script, Held(f + ev))'
  <2>1. from \in (0..Len(script))' /\ to \in (0..Len(script))'
    BY <1>1
  <2> QED BY <1>9, <1>10, <1>14, <2>1
<1> QED BY <1>1, <1>15, <1>16, <1>17 DEF BankInv

\* Consuming an event latches its target if it is stamped inside the block.
LEMMA LatchEventBank ==
  ASSUME IInv, BankInv, LatchEvent
  PROVE  BankInv'
<1>1. /\ pc \in {"latch", "drain"} /\ EventDue /\ ev' = ev + 1
      /\ bank' = (IF Usable(events[ev])
                  THEN SetTarget(bank, events[ev].param, events[ev].value) ELSE bank)
      /\ UNCHANGED <<script, sample_pos, pc, frames, events, start, pending, mark>>
  BY DEF LatchEvent, histVars
<1>2. PICK from \in 0..Len(script), to \in 0..Len(script) :
        /\ Window(from, to)
        /\ Unseen(from + ev)
        /\ bank = SetTargets(mark.bank, script, Held(from + ev))
  BY <1>1 DEF BankInv
<1> DEFINE m == from + ev
           at == script[m].at
           held == Held(m)
<1>3. /\ script \in Seq(Stamped) /\ DOMAIN script = 1..Len(script) /\ Len(script) \in Nat
      /\ mark.bank \in Bank /\ mark.seen \in Nat
      /\ sample_pos \in Nat /\ frames \in Nat /\ ev \in Nat /\ from \in Nat
  BY ScriptFacts DEF IInv
<1>4. ev \in DOMAIN events
  <2>1. ev <= Len(events) /\ Len(events) \in Nat /\ DOMAIN events = 1..Len(events) /\ ev >= 1
    BY <1>1, ScriptFacts DEF EventDue, IInv
  <2> QED BY <1>3, <2>1
<1>5. /\ m \in DOMAIN script /\ sample_pos + events[ev].offset = at
      /\ events[ev].param = script[m].param /\ events[ev].value = script[m].value
  BY <1>2, <1>4, WindowFacts DEF IInv
<1>6. at \in Nat /\ m \in Nat /\ events[ev].offset \in Nat /\ script[m].value \in Writes
  <2>1. m \in Nat
    BY <1>3
  <2>2. at \in Nat /\ script[m].value \in Writes
    <3> HIDE DEF m
    <3> QED BY <1>5, ScriptFacts DEF IInv
  <2>3. events[ev].offset \in Nat
    BY <1>4, OffsetsNat DEF IInv
  <2> QED BY <2>1, <2>2, <2>3
<1>7. mark.seen <= at
  BY <1>2, <1>5, <1>6 DEF Unseen
<1>8. bank' = SetTargets(mark.bank, script, Held(m + 1))
  <2>1. CASE events[ev].offset < frames
    <3>1. at < sample_pos + frames
      BY <1>3, <1>5, <1>6, <2>1
    <3>2. Held(m + 1) = held \cup {m}
      <4>1. m \in Stamps(mark.seen, sample_pos + frames)
        BY <1>5, <1>7, <3>1 DEF Stamps
      <4>2. \A i \in DOMAIN script : i < m + 1 <=> i < m \/ i = m
        BY <1>3, <1>6
      <4>3. \A i \in Stamps(mark.seen, sample_pos + frames) : i \in DOMAIN script
        BY DEF Stamps
      <4> HIDE DEF m
      <4> QED BY <4>1, <4>2, <4>3 DEF Held, held
    <3>3. held \in SUBSET DOMAIN script /\ {m} \in SUBSET DOMAIN script
          /\ \A i \in held, j \in {m} : i < j
      <4> HIDE DEF m
      <4> QED BY <1>5 DEF Held, Stamps
    <3>4. bank = SetTargets(mark.bank, script, held) /\ bank \in Bank
      BY <1>2 DEF IInv, TypeOK
    <3> HIDE DEF m, held
    <3>5. SetTargets(bank, script, {m}) = SetTargets(mark.bank, script, held \cup {m})
      BY <1>3, <3>3, <3>4, Compose
    <3>6. SetTargets(bank, script, {m}) = SetTarget(bank, script[m].param, script[m].value)
      BY <1>3, <1>5, <3>4, OneTarget
    <3>7. bank' = SetTarget(bank, script[m].param, script[m].value)
      <4>1. CASE Usable(events[ev])
        BY <1>1, <1>5, <4>1
      <4>2. CASE ~ Usable(events[ev])
        <5>1. script[m].value = NonFinite
          BY <1>5, <2>1, <4>2 DEF Usable
        <5> QED BY <1>1, <4>2, <5>1 DEF SetTarget
      <4> QED BY <4>1, <4>2
    <3> QED BY <3>2, <3>5, <3>6, <3>7
  <2>2. CASE ~ (events[ev].offset < frames)
    <3>1. ~ (at < sample_pos + frames)
      BY <1>3, <1>5, <1>6, <2>2
    <3>2. Held(m + 1) = held
      <4>1. m \notin Stamps(mark.seen, sample_pos + frames)
        BY <3>1 DEF Stamps
      <4>2. \A i \in DOMAIN script : i < m + 1 <=> i < m \/ i = m
        BY <1>3, <1>6
      <4>3. \A i \in Stamps(mark.seen, sample_pos + frames) : i \in DOMAIN script
        BY DEF Stamps
      <4> HIDE DEF m
      <4> QED BY <4>1, <4>2, <4>3 DEF Held, held
    <3>3. bank' = bank
      BY <1>1, <2>2 DEF Usable
    <3> QED BY <1>2, <3>2, <3>3
  <2> QED BY <2>1, <2>2
<1>9. from + ev' = m + 1
  BY <1>1, <1>3
<1>10. Unseen(m + 1)
  <2>1. \A i \in DOMAIN script : m + 1 <= i => m <= i
    BY <1>3, <1>6
  <2> HIDE DEF m
  <2>2. Unseen(m)
    BY <1>2 DEF m
  <2> QED BY <2>1, <2>2 DEF Unseen
<1> HIDE DEF m
<1>11. /\ Window(from, to)'
       /\ Unseen(from + ev)'
       /\ bank' = SetTargets(mark.bank, script, Held(from + ev))'
  <2>1. Window(from, to)'
    BY <1>1, <1>2 DEF Window, CutAt, BlockEvents
  <2>2. Unseen(from + ev)'
    BY <1>1, <1>9, <1>10 DEF Unseen
  <2>3. Held(from + ev)' = Held(m + 1)
    BY <1>1, <1>9 DEF Held, Stamps
  <2> QED BY <1>1, <1>8, <2>1, <2>2, <2>3
<1>12. \E f, t \in (0..Len(script))' :
         /\ Window(f, t)'
         /\ Unseen(f + ev)'
         /\ bank' = SetTargets(mark.bank, script, Held(f + ev))'
  <2>1. from \in (0..Len(script))' /\ to \in (0..Len(script))'
    BY <1>1
  <2> QED BY <1>11, <2>1
<1>13. (mark.seen <= Now)'
  BY <1>1 DEF BankInv, Now
<1> QED BY <1>1, <1>12, <1>13 DEF BankInv

\* A block's window outlives the steps that leave the block alone.
LEMMA WindowKept ==
  ASSUME BankInv, pc # "idle",
         UNCHANGED <<script, sample_pos, frames, events, ev, mark>>
  PROVE  \E f, t \in (0..Len(script))' : Window(f, t)' /\ Unseen(f + ev)'
<1>1. PICK from \in 0..Len(script), to \in 0..Len(script) :
        Window(from, to) /\ Unseen(from + ev)
  BY DEF BankInv
<1>2. Window(from, to)' /\ Unseen(from + ev)'
  BY <1>1 DEF Window, CutAt, BlockEvents, Unseen
<1>3. from \in (0..Len(script))' /\ to \in (0..Len(script))'
  OBVIOUS
<1> QED BY <1>2, <1>3

\* When no event is due, what is latched is what is stamped up to the present, or to the end.
LEMMA LatchDoneBank ==
  ASSUME IInv, IInv', BankInv, LatchDone
  PROVE  BankInv'
<1>1. /\ pc \in {"latch", "drain"} /\ ~ EventDue
      /\ pc' = (IF pc = "latch" THEN "step" ELSE "return")
      /\ UNCHANGED <<script, sample_pos, bank, frames, events, start, ev, pending, mark>>
  BY DEF LatchDone, callVars, histVars
<1>2. PICK from \in 0..Len(script), to \in 0..Len(script) :
        /\ Window(from, to)
        /\ bank = SetTargets(mark.bank, script, Held(from + ev))
  BY <1>1 DEF BankInv
<1>3. /\ DOMAIN script = 1..Len(script) /\ Len(script) \in Nat
      /\ \A i \in DOMAIN script : script[i].at \in Nat
      /\ sample_pos \in Nat /\ frames \in Nat /\ start \in Nat /\ ev \in Nat /\ ev >= 1
      /\ from \in Nat /\ to \in Nat /\ Now \in Nat /\ Now = sample_pos + start
  BY ScriptFacts DEF IInv, Now
<1>4. \E f, t \in (0..Len(script))' : Window(f, t)' /\ Unseen(f + ev)'
  BY <1>1, WindowKept
<1>5. (mark.seen <= Now)'
  BY <1>1 DEF BankInv, Now
<1>6. CASE pc = "latch"
  <2>1. start < frames /\ pending = Boundaries(Now)
    BY <1>6 DEF IInv, GridInv
  <2>2. \A j \in DOMAIN events : j < ev <=> events[j].offset <= start
    BY <1>1, <1>6 DEF IInv, LatchInv, LatchExact
  <2>3. \A i \in DOMAIN script : i < from + ev <=> script[i].at < Now + 1
    BY <1>2, <2>1, <2>2, Consumed DEF IInv
  <2>4. \A i \in DOMAIN script : script[i].at < Now + 1 => script[i].at < sample_pos + frames
    <3> SUFFICES ASSUME NEW i \in DOMAIN script, script[i].at < Now + 1
                 PROVE  script[i].at < sample_pos + frames
      OBVIOUS
    <3> DEFINE at == script[i].at
    <3>1. at \in Nat /\ at < Now + 1
      BY <1>3
    <3> HIDE DEF at
    <3>2. at < sample_pos + frames
      BY <1>3, <2>1, <3>1
    <3> QED BY <3>2 DEF at
  <2>5. Held(from + ev) = Stamps(mark.seen, Now + 1)
    BY <2>3, <2>4 DEF Held, Stamps
  <2>6. bank = Present
    BY <1>2, <2>5 DEF Present
  <2>7. ~ (Now % Period = 0 /\ pending = Cell + 1)
    <3>1. Cell = Now \div Period /\ Cell \in Nat
      BY <1>3, CellFacts DEF Cell, Now
    <3>2. Now % Period = 0 => Boundaries(Now) = Cell
      BY <1>3, <3>1, BoundariesGrid
    <3> QED BY <2>1, <3>1, <3>2
  <2>8. Present' = Present /\ (Now % Period)' = Now % Period /\ Cell' = Cell
    BY <1>1 DEF Present, Now, Cell, Stamps
  <2>9. bank' = (IF Now % Period = 0 /\ pending = Cell + 1 THEN StepBank(Present) ELSE Present)'
    BY <1>1, <2>6, <2>7, <2>8
  <2> QED BY <1>1, <1>4, <1>5, <1>6, <2>9 DEF BankInv
<1>7. CASE pc = "drain"
  <2>1. start = frames /\ Now = sample_pos + frames
    BY <1>7 DEF IInv, GridInv, Now
  <2>2. ~ (ev <= Len(events) /\ events[ev].offset <= frames)
    BY <1>1, <1>7 DEF EventDue, Upto
  <2>3. ASSUME NEW i \in DOMAIN script, script[i].at < sample_pos + frames
        PROVE  i < from + ev
    <3>1. i <= to /\ i \in Nat /\ script[i].at \in Nat
      BY <1>2, <1>3, <2>3 DEF Window
    <3>2. Len(events) = to - from /\ DOMAIN events = 1..Len(events) /\ Len(events) \in Nat
      BY <1>2, WindowFacts, ScriptFacts DEF IInv
    <3>3. CASE i <= from
      BY <1>3, <3>1, <3>3
    <3>4. CASE from < i
      <4> SUFFICES ASSUME ~ (i < from + ev) PROVE FALSE
        OBVIOUS
      <4> DEFINE j == i - from
                 l == Len(events)
      <4>1. l = to - from /\ DOMAIN events = 1..l /\ l \in Nat
        BY <3>2
      <4> HIDE DEF l
      <4>2. j \in 1..l /\ j \in Nat /\ ev \in 1..l /\ ev <= j /\ from + j = i
        BY <1>3, <3>1, <3>4, <4>1
      <4> HIDE DEF j
      <4>3. j \in DOMAIN events /\ ev \in DOMAIN events
        BY <4>1, <4>2
      <4>4. events[ev].offset \in Nat /\ events[j].offset \in Nat
        BY <4>3, OffsetsNat DEF IInv
      <4>5. events[ev].offset <= events[j].offset
        <5>1. CASE ev = j
          BY <4>4, <5>1
        <5>2. CASE ev # j
          <6>1. ev < j
            BY <1>3, <4>2, <5>2
          <6> QED BY <4>3, <6>1 DEF IInv, LatchInv, Sorted
        <5> QED BY <5>1, <5>2
      <4>6. sample_pos + events[j].offset = script[i].at
        BY <1>2, <4>2, <4>3, WindowFacts DEF IInv
      <4>7. ev <= Len(events)
        BY <4>1, <4>2 DEF l
      <4>8. ~ (events[ev].offset <= frames)
        BY <2>2, <4>7
      <4>9. events[j].offset < frames
        BY <1>3, <2>3, <3>1, <4>4, <4>6
      <4> QED BY <1>3, <4>4, <4>5, <4>8, <4>9
    <3> QED BY <1>3, <3>1, <3>3, <3>4
  <2>4. Held(from + ev) = Stamps(mark.seen, Now)
    BY <2>1, <2>3 DEF Held, Stamps
  <2>5. Stamps(mark.seen, Now)' = Stamps(mark.seen, Now)
    BY <1>1 DEF Stamps, Now
  <2>6. bank' = SetTargets(mark.bank, script, Stamps(mark.seen, Now))'
    BY <1>1, <1>2, <2>4, <2>5
  <2> QED BY <1>1, <1>4, <1>5, <1>7, <2>6 DEF BankInv
<1> QED BY <1>1, <1>6, <1>7

\* The step loop runs once, on a boundary.
LEMMA StepGridBank ==
  ASSUME IInv, BankInv, StepGrid
  PROVE  BankInv'
<1>1. /\ pc = "step" /\ pending <= Cell /\ pending' = pending + 1 /\ bank' = StepBank(bank)
      /\ UNCHANGED <<script, sample_pos, pc, frames, events, start, ev, mark>>
  BY DEF StepGrid
<1>2. Cell \in Nat /\ pending = Cell
  BY <1>1, StepPending
<1>3. Now \in Nat /\ Cell = Now \div Period
  BY ScriptFacts DEF IInv, Cell, Now
<1>4. pending \in {Boundaries(Now), Cell + 1}
  BY <1>1 DEF IInv, GridInv
<1>5. Now % Period = 0
  <2>1. Boundaries(Now) = Cell
    BY <1>2, <1>4
  <2>2. Now % Period # 0 => Boundaries(Now) = Cell + 1
    BY <1>3, BoundariesGrid
  <2> QED BY <1>2, <2>1, <2>2
<1>6. bank = Present
  BY <1>1, <1>2 DEF BankInv
<1>7. Present' = Present /\ (Now % Period)' = Now % Period /\ Cell' = Cell
  BY <1>1 DEF Present, Now, Cell, Stamps
<1>8. bank' = (IF Now % Period = 0 /\ pending = Cell + 1 THEN StepBank(Present) ELSE Present)'
  BY <1>1, <1>2, <1>5, <1>6, <1>7
<1>9. \E f, t \in (0..Len(script))' : Window(f, t)' /\ Unseen(f + ev)'
  BY <1>1, WindowKept
<1>10. (mark.seen <= Now)'
  BY <1>1 DEF BankInv, Now
<1> QED BY <1>1, <1>8, <1>9, <1>10 DEF BankInv

\* Past it, the boundary under the present frame is behind.
LEMMA StepDoneBank ==
  ASSUME IInv, BankInv, StepDone
  PROVE  BankInv'
<1>1. /\ pc = "step" /\ pending > Cell /\ pc' = "render"
      /\ UNCHANGED <<script, sample_pos, bank, frames, events, start, ev, pending, mark>>
  BY DEF StepDone, callVars, histVars
<1>2. Cell \in Nat /\ pending = Cell + 1
  BY <1>1, StepPending
<1>3. Present' = Present /\ (Now % Period)' = Now % Period
  BY <1>1 DEF Present, Now, Stamps
<1>4. bank' = (IF Now % Period = 0 THEN StepBank(Present) ELSE Present)'
  BY <1>1, <1>2, <1>3 DEF BankInv
<1>5. \E f, t \in (0..Len(script))' : Window(f, t)' /\ Unseen(f + ev)'
  BY <1>1, WindowKept
<1>6. (mark.seen <= Now)'
  BY <1>1 DEF BankInv, Now
<1> QED BY <1>1, <1>4, <1>5, <1>6 DEF BankInv

\* A run leaves a bank that has seen its first frame's targets and no later ones.
LEMMA RenderBank ==
  ASSUME IInv, IInv', BankInv, Render
  PROVE  BankInv'
<1> DEFINE e == RunEnd
<1>1. /\ pc = "render" /\ start' = e
      /\ pc' = (IF e < frames THEN "latch" ELSE "drain")
      /\ mark' = [bank |-> bank, seen |-> sample_pos + start + 1]
      /\ UNCHANGED <<script, sample_pos, bank, frames, events, ev>>
  BY DEF Render
<1>2. mark'.bank = bank /\ mark'.seen = Now + 1
  BY <1>1 DEF Now
<1>3. PICK from \in 0..Len(script), to \in 0..Len(script) :
        Window(from, to) /\ Unseen(from + ev)
  BY <1>1 DEF BankInv
<1>4. start < frames
  BY <1>1 DEF IInv, GridInv
<1>5. e \in 0..frames /\ start < e
  BY <1>4, RunEndFacts DEF IInv
<1> HIDE DEF e
<1>6. /\ script \in Seq(Stamped) /\ DOMAIN script = 1..Len(script) /\ Len(script) \in Nat
      /\ \A i \in DOMAIN script : script[i].at \in Nat
      /\ sample_pos \in Nat /\ frames \in Nat /\ start \in Nat /\ ev \in Nat
      /\ from \in Nat /\ to \in Nat /\ Now \in Nat /\ Now = sample_pos + start
      /\ bank \in Bank
  BY ScriptFacts DEF IInv, Now, TypeOK
<1>7. \A i \in DOMAIN script : i < from + ev <=> script[i].at < Now + 1
  <2>1. \A j \in DOMAIN events : j < ev <=> events[j].offset <= start
    BY <1>1 DEF IInv, LatchInv, LatchExact
  <2> QED BY <1>3, <1>4, <2>1, Consumed DEF IInv
<1>8. Window(from, to)'
  BY <1>1, <1>3 DEF Window, CutAt, BlockEvents
<1>9. Unseen(from + ev)'
  <2>1. ASSUME NEW i \in DOMAIN script, from + ev <= i PROVE Now + 1 <= script[i].at
    <3> DEFINE at == script[i].at
    <3>1. at \in Nat /\ ~ (at < Now + 1)
      BY <1>6, <1>7, <2>1
    <3> HIDE DEF at
    <3>2. Now + 1 <= at
      BY <1>6, <3>1
    <3> QED BY <3>2 DEF at
  <2> QED BY <1>1, <1>2, <2>1 DEF Unseen
<1>10. Held(from + ev)' = {}
  <2>1. ASSUME NEW i \in DOMAIN script, i < from + ev PROVE ~ (Now + 1 <= script[i].at)
    <3> DEFINE at == script[i].at
    <3>1. at \in Nat /\ at < Now + 1
      BY <1>6, <1>7, <2>1
    <3> HIDE DEF at
    <3>2. ~ (Now + 1 <= at)
      BY <1>6, <3>1
    <3> QED BY <3>2 DEF at
  <2> QED BY <1>1, <1>2, <2>1 DEF Held, Stamps
<1>11. SetTargets(bank, script, {}) = bank
  BY <1>6, NoTargets
<1>12. bank' = SetTargets(mark.bank, script, Held(from + ev))'
  BY <1>1, <1>2, <1>10, <1>11
<1>13. (mark.seen <= Now)'
  <2>1. Now + 1 <= sample_pos + e
    BY <1>5, <1>6
  <2> QED BY <1>1, <1>2, <2>1 DEF Now
<1>14. \E f, t \in (0..Len(script))' :
         /\ Window(f, t)'
         /\ Unseen(f + ev)'
         /\ bank' = SetTargets(mark.bank, script, Held(f + ev))'
  <2>1. from \in (0..Len(script))' /\ to \in (0..Len(script))'
    BY <1>1
  <2> QED BY <1>8, <1>9, <1>12, <2>1
<1> QED BY <1>1, <1>13, <1>14 DEF BankInv

\* Between calls the bank has seen everything.
LEMMA IdleBank ==
  ASSUME IInv, BankInv,
         \/ Return
         \/ \E q \in Nat : MoveTo(q)
         \/ \E p \in Param, v \in Writable : SetParameterImmediate(p, v)
  PROVE  BankInv'
<1>1. /\ pc' = "idle" /\ start' = 0
      /\ mark' = [bank |-> bank', seen |-> sample_pos'] /\ sample_pos' \in Nat
  <2>1. ASSUME Return
        PROVE  /\ pc' = "idle" /\ start' = 0
               /\ mark' = [bank |-> bank', seen |-> sample_pos'] /\ sample_pos' \in Nat
    BY <2>1, ScriptFacts DEF Return, IInv
  <2>2. ASSUME NEW q \in Nat, MoveTo(q)
        PROVE  /\ pc' = "idle" /\ start' = 0
               /\ mark' = [bank |-> bank', seen |-> sample_pos'] /\ sample_pos' \in Nat
    BY <2>2 DEF MoveTo, callVars, IInv, GridInv
  <2>3. ASSUME NEW p \in Param, NEW v \in Writable, SetParameterImmediate(p, v)
        PROVE  /\ pc' = "idle" /\ start' = 0
               /\ mark' = [bank |-> bank', seen |-> sample_pos'] /\ sample_pos' \in Nat
    BY <2>3, ScriptFacts DEF SetParameterImmediate, callVars, IInv, GridInv
  <2> QED BY <2>1, <2>2, <2>3
<1>2. mark'.bank = bank' /\ mark'.seen = sample_pos' /\ Now' = sample_pos'
  <2>1. mark'.bank = bank' /\ mark'.seen = sample_pos'
    BY <1>1
  <2>2. sample_pos' + 0 = sample_pos'
    <3>1. \A x \in Nat : x + 0 = x
      OBVIOUS
    <3>2. sample_pos' \in Nat
      BY <1>1
    <3> HIDE <1>1
    <3> QED BY <3>1, <3>2, Zenon
  <2>3. Now' = sample_pos'
    BY <1>1, <2>2 DEF Now
  <2> QED BY <2>1, <2>3
<1>3. (mark.seen <= Now)'
  BY <1>1, <1>2
<1> QED BY <1>1, <1>2, <1>3 DEF BankInv

\* A stutter changes nothing.
LEMMA StutterBank ==
  ASSUME BankInv, UNCHANGED vars
  PROVE  BankInv'
<1>1. UNCHANGED <<script, sample_pos, bank, pc, frames, events, start, ev, pending, mark>>
  BY DEF vars, callVars, histVars
<1>2. Now' = Now /\ Cell' = Cell /\ Present' = Present
      /\ Stamps(mark.seen, Now)' = Stamps(mark.seen, Now)
  BY <1>1 DEF Now, Cell, Present, Stamps
<1>3. ASSUME pc # "idle"
      PROVE  \E f, t \in (0..Len(script))' :
                /\ Window(f, t)'
                /\ Unseen(f + ev)'
                /\ (pc \in {"latch", "drain"} =>
                     bank = SetTargets(mark.bank, script, Held(f + ev)))'
  <2>1. PICK from \in 0..Len(script), to \in 0..Len(script) :
          /\ Window(from, to)
          /\ Unseen(from + ev)
          /\ pc \in {"latch", "drain"} => bank = SetTargets(mark.bank, script, Held(from + ev))
    BY <1>3 DEF BankInv
  <2>2. Window(from, to)' /\ Unseen(from + ev)'
    BY <1>1, <2>1 DEF Window, CutAt, BlockEvents, Unseen
  <2>3. Held(from + ev)' = Held(from + ev)
    BY <1>1 DEF Held, Stamps
  <2>4. from \in (0..Len(script))' /\ to \in (0..Len(script))'
    BY <1>1
  <2>5. (pc \in {"latch", "drain"} => bank = SetTargets(mark.bank, script, Held(from + ev)))'
    BY <1>1, <2>1, <2>3
  <2> QED BY <2>2, <2>4, <2>5
<1> QED BY <1>1, <1>2, <1>3 DEF BankInv

(***************************************************************************)
(* At every step of drive the bank holds what BankInv says of it.          *)
(***************************************************************************)
THEOREM InductiveBank == Spec => []BankInv
<1>1. Init => BankInv
  BY InitBank
<1>2. IInv /\ IInv' /\ BankInv /\ [Next]_vars => BankInv'
  <2> SUFFICES ASSUME IInv, IInv', BankInv, [Next]_vars PROVE BankInv'
    OBVIOUS
  <2>1. ASSUME NEW n \in 0..MaxBlock, NEW extra \in 0..LookAhead, Begin(n, extra)
        PROVE  BankInv'
    BY <2>1, BeginBank
  <2>2. CASE LatchEvent
    BY <2>2, LatchEventBank
  <2>3. CASE LatchDone
    BY <2>3, LatchDoneBank
  <2>4. CASE StepGrid
    BY <2>4, StepGridBank
  <2>5. CASE StepDone
    BY <2>5, StepDoneBank
  <2>6. CASE Render
    BY <2>6, RenderBank
  <2>7. CASE Return
    BY <2>7, IdleBank
  <2>8. CASE Restart
    <3>1. \E q \in Nat : MoveTo(q)
      BY <2>8 DEF Restart
    <3> QED BY <3>1, IdleBank
  <2>9. ASSUME NEW q \in SeekTo, Seek(q) PROVE BankInv'
    <3>1. \E r \in Nat : MoveTo(r)
      BY <2>9, DriverAssumption DEF Seek
    <3> QED BY <3>1, IdleBank
  <2>10. ASSUME NEW p \in Param, NEW v \in Writable, SetParameterImmediate(p, v)
         PROVE  BankInv'
    BY <2>10, IdleBank
  <2>11. CASE UNCHANGED vars
    BY <2>11, StutterBank
  <2> QED
    BY <2>1, <2>2, <2>3, <2>4, <2>5, <2>6, <2>7, <2>8, <2>9, <2>10, <2>11 DEF Next
<1> QED BY <1>1, <1>2, Inductive, PTL DEF Spec

-----------------------------------------------------------------------------
(* The driver implements the frame-by-frame timeline. *)

\* The timeline's bank.
Abs == SetTargets(mark.bank, script, InsideRun)

\* Stamps order the script: the targets of an interval, then those of the next.
LEMMA StampsCompose ==
  ASSUME TypeOK, NEW b \in Bank, NEW x \in Nat, NEW y \in Nat, NEW z \in Nat, x <= y, y <= z
  PROVE  SetTargets(SetTargets(b, script, Stamps(x, y)), script, Stamps(y, z))
           = SetTargets(b, script, Stamps(x, z))
<1> DEFINE S == Stamps(x, y)
           T == Stamps(y, z)
<1>1. /\ script \in Seq(Stamped) /\ DOMAIN script = 1..Len(script) /\ Len(script) \in Nat
      /\ \A i \in DOMAIN script : script[i].at \in Nat
  BY ScriptFacts
<1>2. \A i, j \in DOMAIN script : i < j => script[i].at <= script[j].at
  BY ScriptAssumption DEF TypeOK
<1>3. S \in SUBSET DOMAIN script /\ T \in SUBSET DOMAIN script
  BY DEF Stamps
<1>4. ASSUME NEW i \in S, NEW j \in T PROVE i < j
  <2> SUFFICES ASSUME ~ (i < j) PROVE FALSE
    OBVIOUS
  <2>1. i \in DOMAIN script /\ j \in DOMAIN script /\ script[i].at < y /\ y <= script[j].at
    BY DEF Stamps
  <2>2. i \in Nat /\ j \in Nat /\ i # j
    BY <1>1, <2>1
  <2>3. script[j].at <= script[i].at
    BY <1>2, <2>1, <2>2
  <2>4. script[i].at \in Nat /\ script[j].at \in Nat
    BY <1>1, <2>1
  <2> QED BY <2>1, <2>3, <2>4
<1>5. S \cup T = Stamps(x, z)
  <2>1. ASSUME NEW i \in DOMAIN script
        PROVE  (x <= script[i].at /\ script[i].at < z) <=>
               \/ x <= script[i].at /\ script[i].at < y
               \/ y <= script[i].at /\ script[i].at < z
    <3> DEFINE a == script[i].at
    <3>1. a \in Nat
      BY <1>1
    <3> HIDE DEF a
    <3>2. (x <= a /\ a < z) <=> \/ x <= a /\ a < y
                                \/ y <= a /\ a < z
      BY <3>1
    <3> QED BY <3>2 DEF a
  <2> QED BY <2>1 DEF Stamps
<1> HIDE DEF S, T
<1>6. SetTargets(SetTargets(b, script, S), script, T) = SetTargets(b, script, S \cup T)
  BY <1>1, <1>3, <1>4, Compose
<1> QED BY <1>5, <1>6 DEF S, T

\* No frames, no targets.
LEMMA NoStamps ==
  ASSUME TypeOK, NEW b \in Bank, NEW x \in Nat
  PROVE  SetTargets(b, script, Stamps(x, x)) = b
<1>1. script \in Seq(Stamped) /\ \A i \in DOMAIN script : script[i].at \in Nat
  BY ScriptFacts
<1>2. Stamps(x, x) = {}
  <2>1. \A a \in Nat : ~ (x <= a /\ a < x)
    OBVIOUS
  <2> QED BY <1>1, <2>1 DEF Stamps
<1> QED BY <1>1, <1>2, NoTargets

\* Outside the loop the timeline's bank is the driver's.
LEMMA AbsFacts ==
  ASSUME IInv, BankInv
  PROVE  /\ InsideRun = Stamps(mark.seen, Now)
         /\ Abs \in Bank
         /\ pc = "idle" => Abs = bank /\ start = 0
         /\ pc = "return" => Abs = bank /\ start = frames
<1>1. InsideRun = Stamps(mark.seen, Now)
  BY DEF InsideRun, Stamps, Now
<1>2. script \in Seq(Stamped) /\ mark.bank \in Bank /\ sample_pos \in Nat
  BY ScriptFacts DEF IInv
<1>3. Abs \in Bank
  BY <1>2, SetTargetsType DEF Abs
<1>4. ASSUME pc = "idle" PROVE Abs = bank /\ start = 0
  <2>1. bank = mark.bank /\ mark.seen = sample_pos /\ start = 0
    BY <1>4 DEF BankInv, IInv, GridInv
  <2>2. Now = sample_pos
    BY <1>2, <2>1 DEF Now
  <2>3. SetTargets(mark.bank, script, Stamps(sample_pos, sample_pos)) = mark.bank
    BY <1>2, NoStamps DEF IInv
  <2> QED BY <1>1, <2>1, <2>2, <2>3 DEF Abs
<1>5. ASSUME pc = "return" PROVE Abs = bank /\ start = frames
  BY <1>1, <1>5 DEF BankInv, IInv, GridInv, Abs
<1> QED BY <1>1, <1>3, <1>4, <1>5

\* The timeline's smoothers are the driver's.
LEMMA SameTargets ==
  ASSUME NEW b, NEW es, NEW S
  PROVE  Timeline!SetTargets(b, es, S) = SetTargets(b, es, S)
  BY Zenon DEF SetTargets, SetTarget, Retarget, Clamp, CeilSteps, LinearDelta, ExpDelta, Dist,
     Timeline!SetTargets, Timeline!SetTarget, Timeline!Retarget, Timeline!Clamp,
     Timeline!CeilSteps, Timeline!LinearDelta, Timeline!ExpDelta, Timeline!Dist

LEMMA SameBanks ==
  /\ Timeline!NewBank = NewBank
  /\ \A b : Timeline!ResetBank(b) = ResetBank(b)
  /\ \A b, p, v : Timeline!SetImmediate(b, p, v) = SetImmediate(b, p, v)
  /\ \A b : Timeline!CurrentValues(b) = CurrentValues(b)
<1>1. Timeline!NewBank = NewBank
  BY Zenon DEF NewBank, Timeline!NewBank
<1>2. \A b : Timeline!ResetBank(b) = ResetBank(b)
  BY Zenon DEF ResetBank, At, Timeline!ResetBank, Timeline!At
<1>3. \A b, p, v : Timeline!SetImmediate(b, p, v) = SetImmediate(b, p, v)
  BY Zenon DEF SetImmediate, At, Clamp, Timeline!SetImmediate, Timeline!At, Timeline!Clamp
<1>4. \A b : Timeline!CurrentValues(b) = CurrentValues(b)
  BY Zenon DEF CurrentValues, Timeline!CurrentValues
<1> QED BY <1>1, <1>2, <1>3, <1>4

LEMMA SameStep ==
  ASSUME NEW b
  PROVE  Timeline!StepBank(b) = StepBank(b)
  BY Zenon DEF StepBank, StepOne, ShapeStep, LinearStep, ExpStep, ExpMove, PoleStep, At, Clamp,
     Toward, Dist, Timeline!StepBank, Timeline!StepOne, Timeline!ShapeStep, Timeline!LinearStep,
     Timeline!ExpStep, Timeline!ExpMove, Timeline!PoleStep, Timeline!At, Timeline!Clamp,
     Timeline!Toward, Timeline!Dist

\* The timeline's bank at a frame, in terms of stamps.
LEMMA AtFrameIs ==
  ASSUME TypeOK, NEW c, NEW f \in Nat
  PROVE  Timeline!AtFrame(c, f) =
           IF f % Period = 0 THEN StepBank(SetTargets(c, script, Stamps(f, f + 1)))
           ELSE SetTargets(c, script, Stamps(f, f + 1))
<1>1. {i \in DOMAIN script : script[i].at = f} = Stamps(f, f + 1)
  <2>1. \A i \in DOMAIN script : script[i].at \in Nat
    BY ScriptFacts
  <2>2. \A a \in Nat : a = f <=> f <= a /\ a < f + 1
    OBVIOUS
  <2> QED BY <2>1, <2>2 DEF Stamps
<1> QED BY <1>1, SameTargets, SameStep DEF Timeline!AtFrame, Timeline!StampedAt

\* The frames of a run: the first latches and steps as the driver did, the others only latch.
LEMMA RunFrames ==
  ASSUME IInv, BankInv, pc = "render"
  PROVE  /\ RunEnd - start \in 1..Period
         /\ Timeline!AtFrame(Abs, Now) = bank
         /\ \A k \in 1..(RunEnd - start) :
              k > 1 => (Now + k - 1) % Period # 0
<1> DEFINE n == RunEnd - start
           e == RunEnd
<1>1. /\ sample_pos \in Nat /\ start \in Nat /\ frames \in Nat /\ Period \in Nat \ {0}
      /\ Now \in Nat /\ Now = sample_pos + start /\ mark.seen \in Nat /\ mark.bank \in Bank
  BY ScriptFacts, DriverAssumption DEF IInv, Now
<1>2. e \in 0..frames /\ start < e /\ sample_pos + e <= Period * Cell + Period
  BY RunEndFacts DEF IInv, GridInv
<1>3. /\ Cell \in Nat /\ Cell = Now \div Period
      /\ Period * Cell <= Now /\ Now < Period * Cell + Period
  BY <1>1, CellFacts DEF Cell, Now
<1>4. Period * Cell \in Nat
  BY <1>1, <1>3
<1> DEFINE z == Period * Cell
<1> HIDE DEF e
<1>5. n = e - start /\ n \in 1..Period
  <2>1. n = e - start
    BY DEF e
  <2>2. z \in Nat /\ z <= Now /\ sample_pos + e <= z + Period
    BY <1>2, <1>3, <1>4
  <2> HIDE DEF z, n
  <2> QED BY <1>1, <1>2, <2>1, <2>2
<1>6. Timeline!AtFrame(Abs, Now) = bank
  <2>1. mark.seen <= Now /\ bank = IF Now % Period = 0 THEN StepBank(Present) ELSE Present
    BY DEF BankInv
  <2>2. Abs = SetTargets(mark.bank, script, Stamps(mark.seen, Now))
    BY AbsFacts DEF Abs
  <2> DEFINE x == mark.seen
             y == Now + 1
             b == mark.bank
  <2>3. x \in Nat /\ y \in Nat /\ b \in Bank /\ x <= Now /\ Now <= y
    BY <1>1, <2>1
  <2> HIDE DEF x, y, b
  <2>4. SetTargets(SetTargets(b, script, Stamps(x, Now)), script, Stamps(Now, y))
          = SetTargets(b, script, Stamps(x, y))
    BY <1>1, <2>3, StampsCompose DEF IInv
  <2>5. SetTargets(Abs, script, Stamps(Now, Now + 1)) = Present
    BY <2>2, <2>4 DEF Present, x, y, b
  <2>6. Timeline!AtFrame(Abs, Now) =
          IF Now % Period = 0 THEN StepBank(SetTargets(Abs, script, Stamps(Now, Now + 1)))
          ELSE SetTargets(Abs, script, Stamps(Now, Now + 1))
    BY <1>1, AtFrameIs DEF IInv
  <2> QED BY <2>1, <2>5, <2>6
<1>7. ASSUME NEW k \in 1..n, k > 1 PROVE (Now + k - 1) % Period # 0
  <2> DEFINE f == Now + k - 1
             c == Cell
  <2>1. z = Period * c /\ c \in Nat /\ z \in Nat /\ z <= Now /\ sample_pos + e <= z + Period
    BY <1>2, <1>3, <1>4
  <2>2. k \in Nat /\ k <= e - start
    BY <1>5, <1>7
  <2> HIDE DEF z, c
  <2>3. f \in Nat /\ z < f /\ f < z + Period
    BY <1>1, <1>2, <1>7, <2>1, <2>2
  <2> HIDE DEF f
  <2>4. f \div Period = c
    BY <1>1, <2>1, <2>3, QuotientUnique
  <2>5. f % Period = f - Period * (f \div Period)
    BY <2>3, CellFacts
  <2>6. f % Period = f - z
    BY <2>1, <2>4, <2>5
  <2>7. f % Period # 0
    BY <2>1, <2>3, <2>6
  <2> QED BY <2>7 DEF f
<1> QED BY <1>5, <1>6, <1>7

\* A run plays its frames.
LEMMA RenderPlays ==
  ASSUME IInv, BankInv, Render, NEW n \in 1..Period, n = RunEnd - start
  PROVE  Timeline!Play(n)
<1> DEFINE Body(f) == [k \in 0..n |-> IF k = 0 THEN Abs
                                     ELSE Timeline!AtFrame(f[k - 1], Now + k - 1)]
           after == CHOOSE f : f = Body(f)
           y == [k \in 0..n |-> IF k = 0 THEN Abs
                                ELSE SetTargets(bank, script, Stamps(Now + 1, Now + k))]
<1>1. /\ pc = "render" /\ start' = RunEnd
      /\ mark' = [bank |-> bank, seen |-> sample_pos + start + 1]
      /\ out' = [from |-> sample_pos + start,
                 values |-> [k \in 1..(RunEnd - start) |-> CurrentValues(bank)]]
      /\ UNCHANGED <<script, sample_pos, bank>>
  BY DEF Render
<1>2. /\ Now \in Nat /\ Now = sample_pos + start /\ n \in Nat /\ n >= 1 /\ bank \in Bank
      /\ Abs \in Bank /\ sample_pos \in Nat /\ start \in Nat
  BY ScriptFacts, AbsFacts, DriverAssumption DEF IInv, TypeOK, Now
<1>3. /\ Timeline!AtFrame(Abs, Now) = bank
      /\ \A k \in 1..n : k > 1 => (Now + k - 1) % Period # 0
  BY <1>1, RunFrames
<1>4. script \in Seq(Stamped)
  BY ScriptFacts DEF IInv
<1>5. ASSUME NEW k \in 1..n
      PROVE  y[k] = Timeline!AtFrame(y[k - 1], Now + k - 1)
  <2>1. CASE k = 1
    <3>1. y[1] = SetTargets(bank, script, Stamps(Now + 1, Now + 1)) /\ y[0] = Abs
      BY <1>2
    <3> DEFINE x == Now + 1
    <3>2. x \in Nat
      BY <1>2
    <3> HIDE DEF x
    <3>3. SetTargets(bank, script, Stamps(x, x)) = bank
      BY <1>2, <3>2, NoStamps DEF IInv
    <3>4. Now + 1 - 1 = Now
      BY <1>2
    <3> QED BY <1>3, <2>1, <3>1, <3>3, <3>4 DEF x
  <2>2. CASE k # 1
    <3> DEFINE x == Now + 1
               f == Now + k - 1
               w == Now + k
               c == SetTargets(bank, script, Stamps(x, f))
    <3>1. /\ x \in Nat /\ f \in Nat /\ w \in Nat /\ x <= f /\ f <= w /\ w = f + 1
          /\ k - 1 \in 0..n /\ k - 1 # 0 /\ k \in 0..n /\ k # 0 /\ k > 1
          /\ Now + (k - 1) = f
      BY <1>2, <2>2
    <3>2. y[k] = SetTargets(bank, script, Stamps(x, w))
      BY <3>1
    <3>3. y[k - 1] = c
      <4>1. y[k - 1] = SetTargets(bank, script, Stamps(Now + 1, Now + (k - 1)))
        BY <3>1
      <4> QED BY <3>1, <4>1
    <3>4. f % Period # 0
      BY <1>3, <3>1
    <3> HIDE DEF x, f, w, y
    <3>5. c = SetTargets(bank, script, Stamps(x, f))
      OBVIOUS
    <3> HIDE DEF c
    <3>6. Timeline!AtFrame(c, f) = SetTargets(c, script, Stamps(f, f + 1))
      BY <3>1, <3>4, AtFrameIs DEF IInv
    <3>7. SetTargets(c, script, Stamps(f, w)) = SetTargets(bank, script, Stamps(x, w))
      BY <1>2, <3>1, <3>5, StampsCompose DEF IInv
    <3>8. y[k] = Timeline!AtFrame(y[k - 1], f)
      BY <3>1, <3>2, <3>3, <3>6, <3>7
    <3> QED BY <3>8 DEF f
  <2> QED BY <2>1, <2>2
<1>6. y = Body(y)
  <2>1. ASSUME NEW k \in 0..n
        PROVE  y[k] = IF k = 0 THEN Abs ELSE Timeline!AtFrame(y[k - 1], Now + k - 1)
    <3>1. CASE k = 0
      BY <3>1
    <3>2. CASE k # 0
      <4>1. k \in 1..n
        BY <3>2
      <4> HIDE DEF y
      <4> QED BY <1>5, <3>2, <4>1
    <3> QED BY <3>1, <3>2
  <2>2. y = [k \in 0..n |-> y[k]]
    OBVIOUS
  <2> HIDE DEF y
  <2> QED BY <2>1, <2>2
<1>7. after = Body(after)
  <2> HIDE DEF Body, y
  <2> QED BY <1>6
<1> HIDE DEF after
<1>8. /\ after[0] = Abs
      /\ \A k \in 1..n : after[k] = Timeline!AtFrame(after[k - 1], Now + k - 1)
  <2>1. ASSUME NEW k \in 0..n
        PROVE  after[k] = IF k = 0 THEN Abs ELSE Timeline!AtFrame(after[k - 1], Now + k - 1)
    BY <1>7
  <2>2. 0 \in 0..n /\ \A k \in 1..n : k \in 0..n /\ k # 0
    BY <1>2
  <2> QED BY <2>1, <2>2
<1>9. ASSUME NEW k \in 0..n PROVE after[k] = y[k]
  <2> DEFINE A == {i \in 0..n : after[i] = y[i]}
  <2>1. 0 \in A
    BY <1>2, <1>8
  <2>2. \A i \in 1..n : i - 1 \in A => i \in A
    <3> HIDE DEF y
    <3> QED BY <1>2, <1>5, <1>8
  <2> HIDE DEF A
  <2>3. 0..n \subseteq A
    BY <1>2, <2>1, <2>2, UpTo
  <2> QED BY <2>3 DEF A
<1>10. /\ n \in 0..n /\ n # 0 /\ \A k \in 1..n : k \in 0..n /\ k # 0
  BY <1>2
<1>11. Abs' = after[n]
  <2>1. after[n] = SetTargets(bank, script, Stamps(Now + 1, Now + n))
    BY <1>9, <1>10
  <2>2. Now' = Now + n
    <3>1. RunEnd \in Int
      BY RunEndFacts, <1>1 DEF IInv, GridInv
    <3> DEFINE e == RunEnd
    <3>2. n = e - start /\ e \in Int /\ Now' = sample_pos + e
      BY <1>1, <3>1 DEF Now
    <3> HIDE DEF e
    <3> QED BY <1>2, <3>2
  <2>3. mark'.bank = bank /\ mark'.seen = Now + 1 /\ script' = script
    BY <1>1 DEF Now
  <2>4. InsideRun' = Stamps(mark.seen, Now)'
    BY DEF InsideRun, Stamps, Now
  <2>5. InsideRun' = Stamps(Now + 1, Now + n)
    BY <2>2, <2>3, <2>4 DEF Stamps
  <2> QED BY <2>1, <2>3, <2>5 DEF Abs
<1>12. (sample_pos + start)' = sample_pos + start + n
  <2>1. RunEnd \in Int
    BY RunEndFacts, <1>1 DEF IInv, GridInv
  <2> DEFINE e == RunEnd
  <2>2. n = e - start /\ e \in Int /\ (sample_pos + start)' = sample_pos + e
    BY <1>1, <2>1
  <2> HIDE DEF e
  <2> QED BY <1>2, <2>2
<1>13. out' = [from |-> sample_pos + start,
               values |-> [k \in 1..n |-> Timeline!CurrentValues(after[k])]]
  <2>1. ASSUME NEW k \in 1..n PROVE Timeline!CurrentValues(after[k]) = CurrentValues(bank)
    <3>1. after[k] = SetTargets(bank, script, Stamps(Now + 1, Now + k))
      BY <1>9, <1>10
    <3>2. CurrentValues(after[k]) = CurrentValues(bank)
      BY <1>2, <1>4, <3>1, TargetsKeepValues
    <3> QED BY <3>2 DEF CurrentValues, Timeline!CurrentValues
  <2> QED BY <1>1, <2>1
<1>14. after = CHOOSE f : f = [k \in 0..n |->
                 IF k = 0 THEN SetTargets(mark.bank, script, InsideRun)
                 ELSE Timeline!AtFrame(f[k - 1], sample_pos + start + k - 1)]
  BY DEF after, Abs, Now
<1> HIDE DEF Body, y
<1>15. script' = script
  BY <1>1
<1>16. (SetTargets(mark.bank, script, InsideRun))' = after[n]
  BY <1>11 DEF Abs
<1> QED BY <1>12, <1>13, <1>14, <1>15, <1>16 DEF Timeline!Play

\* A step that moves neither the history nor the present is a stutter of the timeline.
LEMMA Stutters ==
  ASSUME UNCHANGED <<script, sample_pos, start, mark, out>>
  PROVE  UNCHANGED Timeline!vars
<1>1. InsideRun' = InsideRun
  BY DEF InsideRun
<1> QED BY <1>1 DEF Timeline!vars

\* A call's return is a stutter: the block's end is where the timeline stands.
LEMMA ReturnStutters ==
  ASSUME IInv, IInv', BankInv, BankInv', Return
  PROVE  UNCHANGED Timeline!vars
<1>1. /\ pc = "return" /\ pc' = "idle" /\ sample_pos' = sample_pos + frames /\ start' = 0
      /\ UNCHANGED <<script, bank, out>>
  BY DEF Return
<1>2. Abs = bank /\ start = frames
  BY <1>1, AbsFacts
<1>3. (IInv /\ BankInv => (pc = "idle" => Abs = bank /\ start = 0))'
  BY AbsFacts, PTL
<1>4. Abs' = bank'
  BY <1>1, <1>3
<1>5. sample_pos \in Nat /\ frames \in Nat
  BY ScriptFacts DEF IInv
<1>6. (sample_pos + start)' = sample_pos + start
  BY <1>1, <1>2, <1>5
<1>7. (SetTargets(mark.bank, script, InsideRun))' = SetTargets(mark.bank, script, InsideRun)
  BY <1>1, <1>2, <1>4 DEF Abs
<1> QED BY <1>1, <1>6, <1>7 DEF Timeline!vars

\* A call that places the timeline places the abstract one.
LEMMA MoveMoves ==
  ASSUME IInv, IInv', BankInv, BankInv', NEW q \in Nat, MoveTo(q)
  PROVE  Timeline!MoveTo(q)
<1>1. /\ pc = "idle" /\ pc' = "idle" /\ sample_pos' = q /\ start' = start
      /\ bank' = ResetBank(bank)
      /\ UNCHANGED <<script, out>>
  BY DEF MoveTo, callVars
<1>2. Abs = bank /\ start = 0
  BY <1>1, AbsFacts
<1>3. (IInv /\ BankInv => (pc = "idle" => Abs = bank /\ start = 0))'
  BY AbsFacts, PTL
<1>4. Abs' = bank'
  BY <1>1, <1>3
<1>5. (sample_pos + start)' = q
  BY <1>1, <1>2
<1>6. (SetTargets(mark.bank, script, InsideRun))'
        = Timeline!ResetBank(SetTargets(mark.bank, script, InsideRun))
  BY <1>1, <1>2, <1>4, SameBanks DEF Abs
<1> QED BY <1>1, <1>5, <1>6 DEF Timeline!MoveTo

\* A direct write writes the timeline's bank.
LEMMA SetWrites ==
  ASSUME IInv, IInv', BankInv, BankInv',
         NEW p \in Param, NEW v \in Writable, SetParameterImmediate(p, v)
  PROVE  Timeline!WriteNow(p, v)
<1>1. /\ pc = "idle" /\ pc' = "idle" /\ bank' = SetImmediate(bank, p, v)
      /\ UNCHANGED <<script, sample_pos, start, out>>
  BY DEF SetParameterImmediate, callVars
<1>2. Abs = bank
  BY <1>1, AbsFacts
<1>3. (IInv /\ BankInv => (pc = "idle" => Abs = bank /\ start = 0))'
  BY AbsFacts, PTL
<1>4. Abs' = bank'
  BY <1>1, <1>3
<1>5. (SetTargets(mark.bank, script, InsideRun))'
        = Timeline!SetImmediate(SetTargets(mark.bank, script, InsideRun), p, v)
  BY <1>1, <1>2, <1>4, SameBanks DEF Abs
<1> QED BY <1>1, <1>5 DEF Timeline!WriteNow

\* A new driver is a new timeline.
LEMMA InitTimeline == Init => Timeline!Init
<1> SUFFICES ASSUME Init PROVE Timeline!Init
  OBVIOUS
<1>1. /\ script \in Scripts /\ sample_pos = 0 /\ start = 0 /\ out = Nothing
      /\ bank = NewBank
  BY DEF Init
<1>2. IInv /\ BankInv /\ pc = "idle"
  BY InitIInv, InitBank DEF Init
<1>3. Abs = bank
  BY <1>2, AbsFacts
<1>4. SetTargets(mark.bank, script, InsideRun) = Timeline!NewBank
  BY <1>1, <1>3, SameBanks DEF Abs
<1>5. sample_pos + start = 0
  BY <1>1
<1> QED BY <1>1, <1>4, <1>5 DEF Timeline!Init, Timeline!Nothing, Nothing

(***************************************************************************)
(* Bit-identical output under any block splitting: whatever the blocks,    *)
(* the events, the parameters and the grid, drive (dsp/driver.rs) plays    *)
(* the frame-by-frame timeline.                                            *)
(***************************************************************************)
THEOREM BlocksInvisible == Spec => SplitInvariance
<1>1. Init => Timeline!Init
  BY InitTimeline
<1>2. IInv /\ IInv' /\ BankInv /\ BankInv' /\ [Next]_vars => [Timeline!Next]_(Timeline!vars)
  <2> SUFFICES ASSUME IInv, IInv', BankInv, BankInv', [Next]_vars
               PROVE  Timeline!Next \/ UNCHANGED Timeline!vars
    OBVIOUS
  <2>1. ASSUME NEW n \in 0..MaxBlock, NEW extra \in 0..LookAhead, Begin(n, extra)
        PROVE  UNCHANGED Timeline!vars
    <3>1. pc = "idle" /\ start' = 0 /\ UNCHANGED <<script, sample_pos, mark, out>>
      BY <2>1 DEF Begin, histVars
    <3>2. start' = start
      BY <3>1, AbsFacts
    <3> QED BY <3>1, <3>2, Stutters
  <2>2. CASE LatchEvent
    BY <2>2, Stutters DEF LatchEvent, histVars
  <2>3. CASE LatchDone
    BY <2>3, Stutters DEF LatchDone, callVars, histVars
  <2>4. CASE StepGrid
    BY <2>4, Stutters DEF StepGrid
  <2>5. CASE StepDone
    BY <2>5, Stutters DEF StepDone, callVars, histVars
  <2>6. CASE Render
    <3>1. pc = "render"
      BY <2>6 DEF Render
    <3>2. PICK n \in 1..Period : n = RunEnd - start
      BY <3>1, RunFrames
    <3>3. Timeline!Play(n)
      BY <2>6, <3>2, RenderPlays
    <3> QED BY <3>3 DEF Timeline!Next
  <2>7. CASE Return
    BY <2>7, ReturnStutters
  <2>8. CASE Restart
    <3>1. Timeline!MoveTo(0)
      BY <2>8, MoveMoves DEF Restart
    <3> QED BY <3>1 DEF Timeline!Next
  <2>9. ASSUME NEW q \in SeekTo, Seek(q) PROVE Timeline!Next
    <3>1. Timeline!MoveTo(q)
      BY <2>9, MoveMoves, DriverAssumption DEF Seek
    <3> QED BY <3>1 DEF Timeline!Next
  <2>10. ASSUME NEW p \in Param, NEW v \in Writable, SetParameterImmediate(p, v)
         PROVE  Timeline!Next
    <3>1. Timeline!WriteNow(p, v)
      BY <2>10, SetWrites
    <3> QED BY <3>1 DEF Timeline!Next
  <2>11. CASE UNCHANGED vars
    BY <2>11, Stutters DEF vars, callVars, histVars
  <2> QED
    BY <2>1, <2>2, <2>3, <2>4, <2>5, <2>6, <2>7, <2>8, <2>9, <2>10, <2>11 DEF Next
<1> QED BY <1>1, <1>2, Inductive, InductiveBank, PTL DEF Spec, SplitInvariance, Timeline!Spec
=============================================================================
