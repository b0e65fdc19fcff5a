---------------------------- MODULE Delay_proofs ----------------------------
(***************************************************************************)
(* Proofs about the feedback delay, for every control period, ring length, *)
(* number of passes, set of parameter values and cut of the stream.        *)
(***************************************************************************)
EXTENDS Delay, WellFoundedInduction, TLAPS

-----------------------------------------------------------------------------
(***************************************************************************)
(* Induction over the naturals, on sets: < is well founded.                *)
(***************************************************************************)
Below == {p \in Nat \X Nat : p[1] < p[2]}

\* The order the induction below uses.
LEMMA BelowWellFounded == IsWellFoundedOn(Below, Nat)
  BY NatLessThanWellFounded DEF OpToRel, Below

\* Induction over the natural numbers, for a set in place of a predicate.
LEMMA NatInd ==
  ASSUME NEW S \in SUBSET Nat, 0 \in S, \A n \in S : n + 1 \in S
  PROVE  S = Nat
<1> SUFFICES ASSUME S # Nat PROVE FALSE
  OBVIOUS
<1> DEFINE T == Nat \ S
<1>1. T \subseteq Nat /\ T # {}
  OBVIOUS
<1>2. PICK m \in T : \A k \in T : ~ (<<k, m>> \in Below)
  <2> HIDE DEF T
  <2> QED BY <1>1, BelowWellFounded, WFMin, Zenon
<1>3. m \in Nat /\ m # 0 /\ m \notin S
  BY <1>2
<1>4. m - 1 \in Nat /\ <<m - 1, m>> \in Below
  BY <1>3 DEF Below
<1>5. m - 1 \in S
  BY <1>2, <1>4
<1>6. m - 1 + 1 = m
  BY <1>3
<1> QED BY <1>3, <1>5, <1>6

-----------------------------------------------------------------------------
\* The write position goes round the ring.
NextSlot(p) == IF p = MaxDelay THEN 0 ELSE p + 1

\* What the assumptions say of the sizes, as the provers need it.
LEMMA Sizes ==
  /\ RingLen \in Nat \ {0} /\ MaxDelay \in Nat \ {0} /\ RingLen = MaxDelay + 1
  /\ Period \in Nat \ {0} /\ XFADE_FRAMES \in Nat \ {0} /\ XFADE_FRAMES = Period
  /\ Passes \in Nat /\ Slots = 0..MaxDelay /\ Levels = 0..Passes
  BY DelayAssumption DEF RingLen, XFADE_FRAMES, Slots, Levels

\* Quotients by a positive divisor, as the solver needs them.
LEMMA Quotient ==
  ASSUME NEW a \in Nat, NEW b \in Nat \ {0}
  PROVE  /\ a \div b \in Nat
         /\ b * (a \div b) <= a
         /\ a < b * (a \div b) + b
  BY Z3

\* Products by the same factor keep an order, and lose none.
LEMMA TimesMono ==
  ASSUME NEW a \in Int, NEW b \in Int, NEW c \in Nat, a <= b
  PROVE  a * c <= b * c
  BY SMT

\* The quotient is the one number that fits.
LEMMA QuotientUnique ==
  ASSUME NEW a \in Nat, NEW b \in Nat \ {0}, NEW q \in Int,
         b * q <= a, a < b * q + b
  PROVE  a \div b = q
<1>1. /\ a \div b \in Nat /\ b * (a \div b) <= a /\ a < b * (a \div b) + b
  BY Quotient
<1> DEFINE r == a \div b
<1> HIDE DEF r
<1>2. r \in Nat /\ b * r <= a /\ a < b * r + b
  BY <1>1 DEF r
<1>3. b * q \in Int /\ b * r \in Int
  BY <1>2
<1>4. ~ (r < q)
  <2> SUFFICES ASSUME r < q PROVE FALSE
    OBVIOUS
  <2>1. r + 1 <= q /\ r + 1 \in Int
    BY <1>2
  <2>2. (r + 1) * b <= q * b
    BY <2>1, TimesMono
  <2>3. (r + 1) * b = b * r + b /\ q * b = b * q
    BY <1>2, SMT
  <2> QED BY <1>2, <1>3, <2>2, <2>3
<1>5. ~ (q < r)
  <2> SUFFICES ASSUME q < r PROVE FALSE
    OBVIOUS
  <2>1. q + 1 <= r /\ q + 1 \in Int
    BY <1>2
  <2>2. (q + 1) * b <= r * b
    BY <1>2, <2>1, TimesMono
  <2>3. (q + 1) * b = b * q + b /\ r * b = b * r
    BY <1>2, SMT
  <2> QED BY <1>2, <1>3, <2>2, <2>3
<1> QED BY <1>2, <1>4, <1>5 DEF r

\* Remainders, one after another.
LEMMA ModNext ==
  ASSUME NEW a \in Nat, NEW b \in Nat \ {0}
  PROVE  /\ a % b \in 0..(b - 1)
         /\ (a + 1) % b = IF (a % b) + 1 = b THEN 0 ELSE (a % b) + 1
         /\ a < b => a % b = a
<1> DEFINE q == a \div b
           r == a - b * q
<1>1. q \in Nat /\ b * q <= a /\ a < b * q + b /\ b * q \in Nat
  BY Quotient, Z3
<1>2. a % b = a - b * q /\ (a + 1) % b = (a + 1) - b * ((a + 1) \div b)
  BY Z3
<1> HIDE DEF q
<1>3. r \in 0..(b - 1) /\ a % b = r
  BY <1>1, <1>2
<1>4. ASSUME r + 1 = b PROVE (a + 1) % b = 0
  <2> DEFINE c == q + 1
             x == a + 1
  <2>1. b * c = b * q + b
    BY <1>1, SMT
  <2>2. x \in Nat /\ c \in Int /\ b * c <= x /\ x < b * c + b
    BY <1>1, <1>4, <2>1
  <2> HIDE DEF c, x
  <2>3. x \div b = c
    BY <2>2, QuotientUnique
  <2> QED BY <1>1, <1>2, <1>3, <1>4, <2>1, <2>3 DEF x
<1>5. ASSUME r + 1 # b PROVE (a + 1) % b = r + 1
  <2> DEFINE x == a + 1
  <2>1. x \in Nat /\ b * q <= x /\ x < b * q + b /\ q \in Int
    BY <1>1, <1>3, <1>5
  <2> HIDE DEF x
  <2>2. x \div b = q
    BY <2>1, QuotientUnique
  <2> QED BY <1>1, <1>2, <1>3, <1>5, <2>2 DEF x
<1>6. (a + 1) % b = IF r + 1 = b THEN 0 ELSE r + 1
  BY <1>4, <1>5
<1>7. ASSUME a < b PROVE a % b = a
  <2> DEFINE z == 0
  <2>1. z \in Int /\ b * z <= a /\ a < b * z + b /\ b * z = 0
    BY <1>7
  <2> HIDE DEF z
  <2>2. a \div b = z
    BY <2>1, QuotientUnique
  <2> QED BY <1>2, <2>1, <2>2 DEF q
<1> QED BY <1>3, <1>6, <1>7

\* The slot the i-th frame of a run is written to.
At(i) == (pos + i - 1) % RingLen

\* Where a position of the line is in the ring.
LEMMA AtFacts ==
  ASSUME pos \in Slots
  PROVE  /\ At(1) = pos /\ pos % RingLen = pos
         /\ \A i \in Nat \ {0} : At(i) \in Slots /\ At(i + 1) = NextSlot(At(i))
         /\ \A i \in Nat : (pos + i) % RingLen = At(i + 1)
<1>1. pos \in Nat /\ pos < RingLen
  BY Sizes
<1>2. pos % RingLen = pos
  BY <1>1, Sizes, ModNext
<1>3. At(1) = pos
  <2>1. pos + 1 - 1 = pos
    BY <1>1
  <2> QED BY <1>2, <2>1 DEF At
<1>4. ASSUME NEW i \in Nat \ {0}
      PROVE  At(i) \in Slots /\ At(i + 1) = NextSlot(At(i))
  <2> DEFINE a == pos + i - 1
  <2>1. a \in Nat /\ pos + (i + 1) - 1 = a + 1
    BY <1>1
  <2>2. At(i) = a % RingLen /\ At(i + 1) = (a + 1) % RingLen
    BY <2>1 DEF At
  <2> HIDE DEF a
  <2>3. /\ a % RingLen \in 0..(RingLen - 1)
        /\ (a + 1) % RingLen = IF (a % RingLen) + 1 = RingLen THEN 0 ELSE (a % RingLen) + 1
    BY <2>1, Sizes, ModNext
  <2> DEFINE r == a % RingLen
  <2> HIDE DEF r
  <2>4. r \in 0..(RingLen - 1) /\ (a + 1) % RingLen = IF r + 1 = RingLen THEN 0 ELSE r + 1
    BY <2>3 DEF r
  <2>5. At(i) = r /\ At(i + 1) = (a + 1) % RingLen
    BY <2>2 DEF r
  <2> QED BY <2>4, <2>5, Sizes DEF NextSlot
<1>5. ASSUME NEW i \in Nat PROVE (pos + i) % RingLen = At(i + 1)
  <2>1. pos + (i + 1) - 1 = pos + i
    BY <1>1
  <2> QED BY <2>1 DEF At
<1> QED BY <1>2, <1>3, <1>4, <1>5

\* The slots of one round, seen from the write position, before and after it moves.
LEMMA SlotFacts ==
  ASSUME NEW p \in Slots
  PROVE  /\ NextSlot(p) \in Slots
         /\ \A d \in 1..RingLen : ReadSlot(p, d) \in Slots
         /\ ReadSlot(NextSlot(p), 1) = p
         /\ \A d \in 2..RingLen : /\ d - 1 \in 1..MaxDelay
                                  /\ ReadSlot(NextSlot(p), d) = ReadSlot(p, d - 1)
                                  /\ ReadSlot(p, d - 1) # p
         /\ \A s \in Slots : \E d \in 1..RingLen : s = ReadSlot(p, d)
<1>1. p \in Nat /\ p <= MaxDelay
  BY Sizes
<1>2. ASSUME NEW s \in Slots PROVE \E d \in 1..RingLen : s = ReadSlot(p, d)
  <2>1. CASE s < p
    <3>1. p - s \in 1..RingLen /\ p >= p - s /\ p - (p - s) = s
      BY <1>1, <2>1, Sizes
    <3> QED BY <3>1 DEF ReadSlot
  <2>2. CASE ~ (s < p)
    <3>1. p + RingLen - s \in 1..RingLen /\ ~ (p >= p + RingLen - s)
          /\ p + RingLen - (p + RingLen - s) = s
      BY <1>1, <2>2, Sizes
    <3> QED BY <3>1 DEF ReadSlot
  <2> QED BY <2>1, <2>2
<1> QED BY <1>1, <1>2, Sizes DEF NextSlot, ReadSlot

-----------------------------------------------------------------------------
(***************************************************************************)
(* What a frame hears, and what it leaves in the ring.                     *)
(***************************************************************************)
RingType == [Slots -> [frame : Nat, level : Levels]]
FadeType == [cur : 1..MaxDelay, prev : 1..MaxDelay]

\* The larger of two levels.
LEMMA MaxOfTwo ==
  ASSUME NEW a \in Int, NEW b \in Int, NEW c \in BOOLEAN
  PROVE  Max({a} \cup (IF c THEN {b} ELSE {})) \in {a, b}
<1> DEFINE S == {a} \cup (IF c THEN {b} ELSE {})
<1>1. \E m \in S : \A x \in S : m >= x
  <2>1. CASE c /\ a < b
    BY <2>1
  <2>2. CASE ~ (c /\ a < b)
    BY <2>2
  <2> QED BY <2>1, <2>2
<1>2. Max(S) \in S
  <2> HIDE DEF S
  <2> QED BY <1>1 DEF Max
<1> QED BY <1>2

\* What a tap hears is in the ring.
LEMMA HeardFacts ==
  ASSUME NEW r \in RingType, NEW p \in Slots, NEW f \in FadeType, NEW k \in Nat,
         NEW fb \in {0, 1}
  PROVE  /\ ReadDelayed(r, p, f, k, fb).level \in
              {r[ReadSlot(p, f.cur)].level, r[ReadSlot(p, f.prev)].level}
         /\ ReadDelayed(r, p, f, k, fb).level \in Levels
         /\ ReadDelayed(r, p, f, k, fb).echo =
              [new |-> r[ReadSlot(p, f.cur)].frame,
               old |-> IF k < XFADE_FRAMES THEN r[ReadSlot(p, f.prev)].frame ELSE 0,
               cur |-> f.cur, prev |-> IF k < XFADE_FRAMES THEN f.prev ELSE 0,
               k |-> Smaller(k, XFADE_FRAMES), feedback |-> fb]
         /\ k # 0 => ReadDelayed(r, p, f, k, fb).echo \in Echoes
<1> DEFINE new == r[ReadSlot(p, f.cur)]
           old == r[ReadSlot(p, f.prev)]
           e == ReadDelayed(r, p, f, k, fb)
<1>1. f.cur \in 1..RingLen /\ f.prev \in 1..RingLen /\ f.cur \in 1..MaxDelay /\ f.prev \in 1..MaxDelay
  BY Sizes DEF FadeType
<1>2. new \in [frame : Nat, level : Levels] /\ old \in [frame : Nat, level : Levels]
  BY <1>1, SlotFacts DEF RingType
<1>3. /\ e.level = Max({new.level} \cup (IF k < XFADE_FRAMES THEN {old.level} ELSE {}))
      /\ e.echo = [new |-> new.frame, old |-> IF k < XFADE_FRAMES THEN old.frame ELSE 0,
                   cur |-> f.cur, prev |-> IF k < XFADE_FRAMES THEN f.prev ELSE 0,
                   k |-> Smaller(k, XFADE_FRAMES), feedback |-> fb]
  BY DEF ReadDelayed
<1> HIDE DEF new, old, e
<1>4. new.level \in Levels /\ old.level \in Levels /\ (k < XFADE_FRAMES) \in BOOLEAN
      /\ new.level \in Int /\ old.level \in Int
  BY <1>2, Sizes
<1>5. e.level \in {new.level, old.level}
  BY <1>3, <1>4, MaxOfTwo
<1>6. k # 0 => e.echo \in Echoes
  <2>1. k # 0 => Smaller(k, XFADE_FRAMES) \in 1..XFADE_FRAMES
    BY Sizes DEF Smaller
  <2>2. new.frame \in Nat /\ old.frame \in Nat /\ 0 \in 0..MaxDelay /\ f.prev \in 0..MaxDelay
    BY <1>1, <1>2, Sizes
  <2> QED BY <1>1, <1>3, <2>1, <2>2 DEF Echoes
<1>7. e.level \in Levels
  BY <1>4, <1>5
<1> QED BY <1>3, <1>5, <1>6, <1>7 DEF e, new, old

\* The i-th frame of a run from this state.
Hear(r, i, f, start, fb) == ReadDelayed(r, At(i), f, Stepped(start, i), fb)
Played(r, i, f, start, fb, write) ==
  [r EXCEPT ![At(i)] = [frame |-> count + i, level |-> write[Hear(r, i, f, start, fb).level]]]

\* The rings a run goes through, as Loop chooses them.
Rings(n, f, start, fb, write, g) ==
  g = [i \in 0..n |-> IF i = 0 THEN ring ELSE Played(g[i - 1], i, f, start, fb, write)]

Playable(n, f, start, fb, write) ==
  /\ n \in Nat /\ f \in FadeType /\ start \in 0..XFADE_FRAMES /\ fb \in {0, 1}
  /\ write \in [Levels -> Levels]
  /\ ring \in RingType /\ pos \in Slots /\ count \in Nat

\* What a run plays are frames and levels.
LEMMA PlayedType ==
  ASSUME NEW n, NEW f, NEW start, NEW fb, NEW write, Playable(n, f, start, fb, write),
         NEW r \in RingType, NEW i \in Nat \ {0}
  PROVE  Played(r, i, f, start, fb, write) \in RingType
<1>1. At(i) \in Slots /\ count + i \in Nat /\ Stepped(start, i) \in Nat
  <2>1. At(i) \in Slots
    BY AtFacts DEF Playable
  <2> QED BY <2>1, Sizes DEF Playable, Stepped
<1>2. Hear(r, i, f, start, fb).level \in Levels
  BY <1>1, HeardFacts DEF Playable, Hear
<1>3. write[Hear(r, i, f, start, fb).level] \in Levels
  BY <1>2 DEF Playable
<1> DEFINE l == write[Hear(r, i, f, start, fb).level]
<1> HIDE DEF l
<1>4. [r EXCEPT ![At(i)] = [frame |-> count + i, level |-> l]] \in RingType
  BY <1>1, <1>3 DEF RingType, l
<1> QED BY <1>4 DEF Played, l

\* A run of any length has its rings.
LEMMA RingsExist ==
  ASSUME NEW n, NEW f, NEW start, NEW fb, NEW write, Playable(n, f, start, fb, write)
  PROVE  \E g \in [0..n -> RingType] : Rings(n, f, start, fb, write, g)
<1> DEFINE Next0(r, i) == Played(r, i, f, start, fb, write)
           Ok(m, g) == g[0] = ring /\ \A i \in 1..m : g[i] = Next0(g[i - 1], i)
           S == {m \in Nat : \E g \in [0..m -> RingType] : Ok(m, g)}
<1>1. \A r \in RingType, i \in Nat \ {0} : Next0(r, i) \in RingType
  BY PlayedType
<1>2. ring \in RingType /\ n \in Nat
  BY DEF Playable
<1> HIDE DEF Next0
<1>3. 0 \in S
  <2> DEFINE g == [i \in 0..0 |-> ring]
  <2>1. g \in [0..0 -> RingType] /\ Ok(0, g)
    BY <1>2
  <2> QED BY <2>1
<1>4. ASSUME NEW m \in S PROVE m + 1 \in S
  <2>1. PICK g \in [0..m -> RingType] : Ok(m, g)
    OBVIOUS
  <2>2. m \in Nat /\ m + 1 \in Nat /\ m \in 0..m
    OBVIOUS
  <2> DEFINE h == [i \in 0..(m + 1) |-> IF i <= m THEN g[i] ELSE Next0(g[m], m + 1)]
  <2>3. Next0(g[m], m + 1) \in RingType
    BY <1>1, <2>2
  <2>4. h \in [0..(m + 1) -> RingType]
    BY <2>2, <2>3
  <2>5. h[0] = ring
    BY <2>1, <2>2
  <2>6. ASSUME NEW i \in 1..(m + 1) PROVE h[i] = Next0(h[i - 1], i)
    <3>1. i - 1 \in 0..m /\ h[i - 1] = g[i - 1]
      BY <2>2
    <3>2. CASE i <= m
      <4>1. i \in 1..m
        BY <2>2, <3>2
      <4> QED BY <2>1, <3>1, <3>2, <4>1
    <3>3. CASE ~ (i <= m)
      <4>1. i = m + 1 /\ i - 1 = m
        BY <2>2, <3>3
      <4> QED BY <2>2, <3>1, <3>3, <4>1
    <3> QED BY <3>2, <3>3
  <2> HIDE DEF h
  <2> QED BY <2>2, <2>4, <2>5, <2>6
<1>5. S = Nat
  <2>1. S \in SUBSET Nat
    OBVIOUS
  <2> HIDE DEF S
  <2> QED BY <1>3, <1>4, <2>1, NatInd
<1>6. PICK g \in [0..n -> RingType] : Ok(n, g)
  BY <1>2, <1>5
<1>7. g = [i \in 0..n |-> IF i = 0 THEN ring ELSE Next0(g[i - 1], i)]
  <2>1. \A i \in 0..n : i # 0 => i \in 1..n
    BY <1>2
  <2>2. \A i \in 0..n : g[i] = IF i = 0 THEN ring ELSE Next0(g[i - 1], i)
    BY <1>6, <2>1
  <2> QED BY <1>6, <2>2
<1> QED BY <1>6, <1>7 DEF Rings, Next0

\* A run unrolled: the rings between its frames.
LEMMA LoopPlays ==
  ASSUME NEW n, NEW f, NEW start, NEW fb, NEW write, Playable(n, f, start, fb, write),
         Loop(n, f, start, fb, write)
  PROVE  \E g \in [0..n -> RingType] :
           /\ g[0] = ring
           /\ \A i \in 1..n : g[i] = Played(g[i - 1], i, f, start, fb, write)
           /\ ring' = g[n]
           /\ echoes' = [i \in 1..n |-> Hear(g[i - 1], i, f, start, fb).echo]
           /\ pos' = At(n + 1) /\ count' = count + n
           /\ xfade_pos' = Smaller(start + n, XFADE_FRAMES)
<1> DEFINE g == CHOOSE h : Rings(n, f, start, fb, write, h)
<1>1. /\ ring' = g[n] /\ echoes' = [i \in 1..n |-> Hear(g[i - 1], i, f, start, fb).echo]
      /\ pos' = (pos + n) % RingLen
      /\ count' = count + n
      /\ xfade_pos' = Smaller(start + n, XFADE_FRAMES)
  BY DEF Loop, At, Hear, Rings, Played
<1>2. PICK h \in [0..n -> RingType] : Rings(n, f, start, fb, write, h)
  BY RingsExist
<1>3. Rings(n, f, start, fb, write, g)
  BY <1>2
<1> HIDE DEF g
<1>4. n \in Nat /\ pos \in Slots
  BY DEF Playable
<1>5. g[0] = ring /\ \A i \in 1..n : g[i] = Played(g[i - 1], i, f, start, fb, write)
  <2> DEFINE Next0(r, i) == Played(r, i, f, start, fb, write)
  <2>1. g = [i \in 0..n |-> IF i = 0 THEN ring ELSE Next0(g[i - 1], i)]
    BY <1>3 DEF Rings
  <2> HIDE DEF Next0
  <2>2. g[0] = ring /\ \A i \in 1..n : g[i] = Next0(g[i - 1], i)
    BY <1>4, <2>1
  <2> QED BY <2>2 DEF Next0
<1>6. g \in [0..n -> RingType]
  <2> DEFINE S == {m \in Nat : m <= n => g[m] \in RingType}
  <2>1. 0 \in S /\ S \in SUBSET Nat
    BY <1>5 DEF Playable
  <2>2. ASSUME NEW m \in S PROVE m + 1 \in S
    <3>1. m \in Nat /\ m + 1 \in Nat \ {0} /\ m + 1 - 1 = m
      OBVIOUS
    <3>2. ASSUME m + 1 <= n PROVE g[m + 1] \in RingType
      <4>1. m + 1 \in 1..n /\ m <= n
        BY <1>4, <3>1, <3>2
      <4>2. g[m + 1] = Played(g[m], m + 1, f, start, fb, write) /\ g[m] \in RingType
        BY <1>5, <3>1, <4>1
      <4> QED BY <3>1, <4>2, PlayedType
    <3> QED BY <3>1, <3>2
  <2> HIDE DEF S
  <2>3. S = Nat
    BY <2>1, <2>2, NatInd
  <2>4. \A i \in 0..n : g[i] \in RingType
    BY <1>4, <2>3 DEF S
  <2>5. g = [i \in 0..n |-> g[i]]
    BY <1>3 DEF Rings
  <2> QED BY <2>4, <2>5
<1>7. (pos + n) % RingLen = At(n + 1)
  BY <1>4, AtFacts
<1> QED BY <1>1, <1>5, <1>6, <1>7

-----------------------------------------------------------------------------
(***************************************************************************)
(* What the ring holds, seen from the write position p after c frames: d   *)
(* frames back is the frame c + 1 - d; and s frames into a drain, a level  *)
(* of l takes RingLen frames for each pass it has lost.                    *)
(***************************************************************************)
Framed(r, p, c) ==
  \A d \in 1..RingLen : r[ReadSlot(p, d)].frame = IF c >= d THEN c + 1 - d ELSE 0

Paced(l, s, d) == l = 0 \/ s + 1 - d <= RingLen * (Passes - l)

Decayed(r, p, s) == \A d \in 1..RingLen : Paced(r[ReadSlot(p, d)].level, s, d)

\* Writing one frame keeps the ring framed.
LEMMA FramedStep ==
  ASSUME NEW r \in RingType, NEW p \in Slots, NEW c \in Nat, Framed(r, p, c), NEW l \in Levels
  PROVE  Framed([r EXCEPT ![p] = [frame |-> c + 1, level |-> l]], NextSlot(p), c + 1)
<1> DEFINE z == [r EXCEPT ![p] = [frame |-> c + 1, level |-> l]]
           q == NextSlot(p)
<1>1. ASSUME NEW d \in 1..RingLen
      PROVE  z[ReadSlot(q, d)].frame = IF c + 1 >= d THEN c + 1 + 1 - d ELSE 0
  <2>1. CASE d = 1
    BY <2>1, SlotFacts DEF RingType
  <2>2. CASE d # 1
    <3>1. d \in 2..RingLen /\ d - 1 \in 1..RingLen
      BY <2>2, Sizes
    <3>2. ReadSlot(q, d) = ReadSlot(p, d - 1) /\ ReadSlot(p, d - 1) # p
          /\ ReadSlot(p, d - 1) \in Slots
      BY <3>1, SlotFacts
    <3>3. z[ReadSlot(q, d)] = r[ReadSlot(p, d - 1)]
      BY <3>2 DEF RingType
    <3> DEFINE e == d - 1
    <3>4. e \in 1..RingLen /\ r[ReadSlot(p, e)].frame = IF c >= e THEN c + 1 - e ELSE 0
      BY <3>1 DEF Framed
    <3> HIDE DEF z
    <3> QED BY <3>1, <3>3, <3>4
  <2> QED BY <2>1, <2>2
<1> QED BY <1>1 DEF Framed

\* The largest number of passes a drain can take, in rounds of the ring.
LEMMA Rounds ==
  ASSUME NEW l \in Levels
  PROVE  /\ RingLen * (Passes - l) \in Nat
         /\ l # 0 => l - 1 \in Levels
                     /\ RingLen * (Passes - (l - 1)) = RingLen * (Passes - l) + RingLen
         /\ RingLen * (Passes - l) <= RingLen * Passes
<1>1. /\ RingLen \in Nat \ {0} /\ Passes \in Nat /\ l \in Nat /\ l <= Passes
      /\ Levels = 0..Passes
  BY Sizes
<1>2. Passes - l \in Nat /\ Passes - l <= Passes
  BY <1>1
<1>3. RingLen * (Passes - l) \in Nat
  BY <1>1, <1>2
<1>4. (Passes - l) * RingLen <= Passes * RingLen
  BY <1>1, <1>2, TimesMono
<1>5. RingLen * (Passes - l) <= RingLen * Passes
  <2> DEFINE a == Passes - l
  <2>1. a \in Nat /\ a * RingLen <= Passes * RingLen
    BY <1>2, <1>4
  <2> HIDE DEF a
  <2>2. RingLen * a = a * RingLen /\ RingLen * Passes = Passes * RingLen
    BY <1>1, <2>1, SMT
  <2>3. RingLen * a <= RingLen * Passes
    BY <2>1, <2>2, Zenon
  <2> QED BY <2>3 DEF a
<1>6. ASSUME l # 0 PROVE l - 1 \in Levels
                     /\ RingLen * (Passes - (l - 1)) = RingLen * (Passes - l) + RingLen
  <2>1. l - 1 \in Levels
    BY <1>1, <1>6
  <2> DEFINE a == Passes - l
  <2>2. Passes - (l - 1) = a + 1 /\ a \in Nat
    BY <1>1, <1>2
  <2> HIDE DEF a
  <2>3. RingLen * (a + 1) = RingLen * a + RingLen
    BY <1>1, <2>2, SMT
  <2> QED BY <2>1, <2>2, <2>3 DEF a
<1> QED BY <1>3, <1>5, <1>6

\* One frame of a drain: what is fed back came at most MaxDelay frames before.
LEMMA DecayedStep ==
  ASSUME NEW r \in RingType, NEW p \in Slots, NEW s \in Nat, Decayed(r, p, s),
         NEW l \in Levels, NEW fb \in {0, 1}, NEW m, NEW b \in 1..MaxDelay,
         l = r[ReadSlot(p, b)].level
  PROVE  Decayed([r EXCEPT ![p] = [frame |-> m, level |-> FedBack(l, fb)]], NextSlot(p), s + 1)
<1> DEFINE v == FedBack(l, fb)
           z == [r EXCEPT ![p] = [frame |-> m, level |-> v]]
           q == NextSlot(p)
<1>1. Paced(l, s, b)
  BY Sizes DEF Decayed
<1>2. Paced(v, s + 1, 1)
  <2>1. CASE fb = 0 \/ l = 0
    BY <2>1 DEF FedBack, Paced
  <2>2. CASE ~ (fb = 0 \/ l = 0)
    <3>1. v = l - 1 /\ s + 1 - b <= RingLen * (Passes - l)
      BY <1>1, <2>2 DEF FedBack, Paced
    <3>2. RingLen * (Passes - (l - 1)) = RingLen * (Passes - l) + RingLen
          /\ RingLen * (Passes - l) \in Nat
      BY <2>2, Rounds
    <3>3. s + 1 + 1 - 1 <= RingLen * (Passes - (l - 1))
      <4> DEFINE x == RingLen * (Passes - l)
                 y == RingLen * (Passes - (l - 1))
      <4>1. y = x + RingLen /\ x \in Nat /\ s + 1 - b <= x
        BY <3>1, <3>2
      <4> HIDE DEF x, y
      <4>2. s + 1 + 1 - 1 <= y
        BY <4>1, Sizes
      <4> QED BY <4>2 DEF y
    <3> QED BY <3>1, <3>3 DEF Paced
  <2> QED BY <2>1, <2>2
<1> HIDE DEF v
<1>3. ASSUME NEW d \in 1..RingLen PROVE Paced(z[ReadSlot(q, d)].level, s + 1, d)
  <2>1. CASE d = 1
    <3>1. z[ReadSlot(q, d)].level = v
      BY <2>1, SlotFacts DEF RingType
    <3> QED BY <1>2, <2>1, <3>1
  <2>2. CASE d # 1
    <3>1. d \in 2..RingLen /\ d - 1 \in 1..RingLen
      BY <2>2, Sizes
    <3>2. ReadSlot(q, d) = ReadSlot(p, d - 1) /\ ReadSlot(p, d - 1) # p
          /\ ReadSlot(p, d - 1) \in Slots
      BY <3>1, SlotFacts
    <3>3. z[ReadSlot(q, d)] = r[ReadSlot(p, d - 1)]
      BY <3>2 DEF RingType
    <3>4. Paced(r[ReadSlot(p, d - 1)].level, s, d - 1)
      BY <3>1 DEF Decayed
    <3>5. s + 1 - (d - 1) = s + 1 + 1 - d
      BY <3>1
    <3> QED BY <3>3, <3>4, <3>5 DEF Paced
  <2> QED BY <2>1, <2>2
<1> QED BY <1>3 DEF Decayed, v

\* What the i-th frame hears: the frames its taps mean.
EchoAt(i, f, start, fb) ==
  [new |-> IF count + i > f.cur THEN (count + i) - f.cur ELSE 0,
   old |-> IF start + i < XFADE_FRAMES /\ count + i > f.prev THEN (count + i) - f.prev ELSE 0,
   cur |-> f.cur, prev |-> IF start + i < XFADE_FRAMES THEN f.prev ELSE 0,
   k |-> Smaller(start + i, XFADE_FRAMES), feedback |-> fb]

\* A run leaves a ring that still holds the frames its positions mean.
LEMMA RunFacts ==
  ASSUME NEW n, NEW f, NEW start, NEW fb, NEW write, Playable(n, f, start, fb, write),
         Loop(n, f, start, fb, write), Framed(ring, pos, count)
  PROVE  /\ ring' \in RingType /\ pos' \in Slots /\ count' \in Nat /\ count' = count + n
         /\ xfade_pos' = Smaller(start + n, XFADE_FRAMES)
         /\ Framed(ring', pos', count')
         /\ echoes' \in Seq(Echoes) /\ Len(echoes') = n
         /\ \A i \in 1..n : echoes'[i] = EchoAt(i, f, start, fb)
<1>1. PICK g \in [0..n -> RingType] :
           /\ g[0] = ring
           /\ \A i \in 1..n : g[i] = Played(g[i - 1], i, f, start, fb, write)
           /\ ring' = g[n]
           /\ echoes' = [i \in 1..n |-> Hear(g[i - 1], i, f, start, fb).echo]
           /\ pos' = At(n + 1) /\ count' = count + n
           /\ xfade_pos' = Smaller(start + n, XFADE_FRAMES)
  BY LoopPlays
<1>2. n \in Nat /\ count \in Nat /\ pos \in Slots /\ f \in FadeType /\ start \in Nat /\ fb \in {0, 1}
      /\ write \in [Levels -> Levels]
  BY Sizes DEF Playable
<1>3. At(1) = pos /\ \A i \in Nat \ {0} : At(i) \in Slots /\ At(i + 1) = NextSlot(At(i))
  BY <1>2, AtFacts
<1>4. \A i \in 0..n : Framed(g[i], At(i + 1), count + i)
  <2> DEFINE S == {i \in Nat : i <= n => Framed(g[i], At(i + 1), count + i)}
  <2>1. 0 \in S /\ S \in SUBSET Nat
    BY <1>1, <1>2, <1>3
  <2>2. ASSUME NEW i \in S PROVE i + 1 \in S
    <3>1. i \in Nat /\ i + 1 \in Nat \ {0} /\ i + 1 - 1 = i
      OBVIOUS
    <3>2. ASSUME i + 1 <= n PROVE Framed(g[i + 1], At(i + 1 + 1), count + (i + 1))
      <4>1. i + 1 \in 1..n /\ i <= n /\ i \in 0..n /\ g[i] \in RingType
        BY <1>2, <3>1, <3>2
      <4>2. /\ At(i + 1) \in Slots /\ At(i + 1 + 1) = NextSlot(At(i + 1))
        BY <1>3, <3>1
      <4>3. Framed(g[i], At(i + 1), count + i)
        BY <4>1
      <4> DEFINE l == write[Hear(g[i], i + 1, f, start, fb).level]
                 c == count + i
      <4>4. l \in Levels
        <5>1. Stepped(start, i + 1) \in Nat
          BY <1>2, <3>1 DEF Stepped
        <5>2. Hear(g[i], i + 1, f, start, fb).level \in Levels
          BY <1>2, <4>1, <4>2, <5>1, HeardFacts DEF Hear
        <5> QED BY <1>2, <5>2
      <4>5. g[i + 1] = [g[i] EXCEPT ![At(i + 1)] = [frame |-> c + 1, level |-> l]]
        <5>1. g[i + 1] = Played(g[i], i + 1, f, start, fb, write)
          BY <1>1, <3>1, <4>1
        <5>2. count + (i + 1) = c + 1
          BY <1>2, <3>1
        <5> QED BY <5>1, <5>2 DEF Played
      <4>6. c \in Nat /\ count + (i + 1) = c + 1
        BY <1>2, <3>1
      <4> HIDE DEF l, c
      <4>7. Framed(g[i], At(i + 1), c)
        BY <4>3 DEF c
      <4> QED BY <4>1, <4>2, <4>4, <4>5, <4>6, <4>7, FramedStep
    <3> QED BY <3>1, <3>2
  <2> HIDE DEF S
  <2>3. S = Nat
    BY <2>1, <2>2, NatInd
  <2> QED BY <1>2, <2>3 DEF S
<1>5. ASSUME NEW i \in 1..n
      PROVE  Hear(g[i - 1], i, f, start, fb).echo = EchoAt(i, f, start, fb)
             /\ Hear(g[i - 1], i, f, start, fb).echo \in Echoes
  <2>1. i - 1 \in 0..n /\ i - 1 + 1 = i /\ g[i - 1] \in RingType /\ i \in Nat \ {0}
    BY <1>2
  <2> DEFINE c == count + (i - 1)
             r == g[i - 1]
             p == At(i)
             k == start + i
  <2>2. Framed(r, p, c) /\ r \in RingType /\ p \in Slots
    BY <1>3, <1>4, <2>1
  <2>3. f.cur \in 1..RingLen /\ f.prev \in 1..RingLen /\ f.cur \in Nat /\ f.prev \in Nat
    BY <1>2, Sizes DEF FadeType
  <2>4. c + 1 = count + i /\ c \in Nat /\ k \in Nat /\ k # 0
    BY <1>2, <2>1
  <2> HIDE DEF c, r, p
  <2>5. /\ r[ReadSlot(p, f.cur)].frame = IF count + i > f.cur THEN (count + i) - f.cur ELSE 0
        /\ r[ReadSlot(p, f.prev)].frame = IF count + i > f.prev THEN (count + i) - f.prev ELSE 0
    <3>1. \A d \in 1..RingLen : r[ReadSlot(p, d)].frame = IF c >= d THEN c + 1 - d ELSE 0
      BY <2>2 DEF Framed
    <3> DEFINE m == count + i
    <3>2. m = c + 1 /\ m \in Nat
      BY <2>4
    <3> HIDE DEF m
    <3>3. \A d \in 1..RingLen : r[ReadSlot(p, d)].frame = IF m > d THEN m - d ELSE 0
      <4>1. ASSUME NEW d \in 1..RingLen PROVE r[ReadSlot(p, d)].frame = IF m > d THEN m - d ELSE 0
        <5>1. (c >= d <=> m > d) /\ c + 1 - d = m - d
          BY <2>4, <3>2
        <5> QED BY <3>1, <5>1
      <4> QED BY <4>1
    <3> DEFINE Back(t, d) == IF t > d THEN t - d ELSE 0
    <3>4. /\ r[ReadSlot(p, f.cur)].frame = Back(m, f.cur)
          /\ r[ReadSlot(p, f.prev)].frame = Back(m, f.prev)
      BY <2>3, <3>3
    <3>5. m = count + i
      BY DEF m
    <3> HIDE DEF Back
    <3>6. /\ r[ReadSlot(p, f.cur)].frame = Back(count + i, f.cur)
          /\ r[ReadSlot(p, f.prev)].frame = Back(count + i, f.prev)
      BY <3>4, <3>5, Zenon
    <3> QED BY <3>6 DEF Back
  <2> HIDE DEF k
  <2>6. /\ ReadDelayed(r, p, f, k, fb).echo =
             [new |-> r[ReadSlot(p, f.cur)].frame,
              old |-> IF k < XFADE_FRAMES THEN r[ReadSlot(p, f.prev)].frame ELSE 0,
              cur |-> f.cur, prev |-> IF k < XFADE_FRAMES THEN f.prev ELSE 0,
              k |-> Smaller(k, XFADE_FRAMES), feedback |-> fb]
        /\ ReadDelayed(r, p, f, k, fb).echo \in Echoes
    BY <1>2, <2>2, <2>4, HeardFacts
  <2>7. Hear(g[i - 1], i, f, start, fb) = ReadDelayed(r, p, f, k, fb)
    BY DEF Hear, Stepped, r, p, k
  <2>8. ReadDelayed(r, p, f, k, fb).echo =
             [new |-> IF count + i > f.cur THEN (count + i) - f.cur ELSE 0,
              old |-> IF k < XFADE_FRAMES /\ count + i > f.prev THEN (count + i) - f.prev ELSE 0,
              cur |-> f.cur, prev |-> IF k < XFADE_FRAMES THEN f.prev ELSE 0,
              k |-> Smaller(k, XFADE_FRAMES), feedback |-> fb]
    BY <2>5, <2>6
  <2> QED BY <2>6, <2>7, <2>8 DEF EchoAt, k
<1>6. /\ echoes' \in [1..n -> Echoes] /\ \A i \in 1..n : echoes'[i] = EchoAt(i, f, start, fb)
  BY <1>1, <1>5
<1>7. echoes' \in Seq(Echoes) /\ Len(echoes') = n
  <2> DEFINE s == echoes'
  <2>1. s \in [1..n -> Echoes]
    BY <1>6
  <2> HIDE DEF s
  <2>2. s \in Seq(Echoes) /\ Len(s) = n
    BY <1>2, <2>1
  <2> QED BY <2>2 DEF s
<1>8. ring' \in RingType /\ pos' \in Slots /\ count' \in Nat /\ Framed(ring', pos', count')
  <2>1. n \in 0..n /\ n + 1 \in Nat \ {0}
    BY <1>2
  <2> QED BY <1>1, <1>2, <1>3, <1>4, <2>1
<1> QED BY <1>1, <1>6, <1>7, <1>8

\* A drain of n frames takes the ring n frames further down.
LEMMA DrainFacts ==
  ASSUME NEW n, NEW f, NEW start, NEW fb, NEW s \in Nat,
         Playable(n, f, start, fb, [l \in Levels |-> FedBack(l, fb)]),
         Loop(n, f, start, fb, [l \in Levels |-> FedBack(l, fb)]),
         Decayed(ring, pos, s)
  PROVE  Decayed(ring', pos', s + n)
<1> DEFINE write == [l \in Levels |-> FedBack(l, fb)]
<1>1. PICK g \in [0..n -> RingType] :
           /\ g[0] = ring
           /\ \A i \in 1..n : g[i] = Played(g[i - 1], i, f, start, fb, write)
           /\ ring' = g[n] /\ pos' = At(n + 1)
  <2> HIDE DEF write
  <2>1. Playable(n, f, start, fb, write) /\ Loop(n, f, start, fb, write)
    BY DEF write
  <2> QED BY <2>1, LoopPlays
<1>2. n \in Nat /\ count \in Nat /\ pos \in Slots /\ f \in FadeType /\ start \in Nat /\ fb \in {0, 1}
  BY Sizes DEF Playable
<1>3. At(1) = pos /\ \A i \in Nat \ {0} : At(i) \in Slots /\ At(i + 1) = NextSlot(At(i))
  BY <1>2, AtFacts
<1> DEFINE S == {i \in Nat : i <= n => Decayed(g[i], At(i + 1), s + i)}
<1>4. 0 \in S /\ S \in SUBSET Nat
  BY <1>1, <1>2, <1>3
<1>5. ASSUME NEW i \in S PROVE i + 1 \in S
  <2>1. i \in Nat /\ i + 1 \in Nat \ {0} /\ i + 1 - 1 = i
    OBVIOUS
  <2>2. ASSUME i + 1 <= n PROVE Decayed(g[i + 1], At(i + 1 + 1), s + (i + 1))
    <3>1. i + 1 \in 1..n /\ i <= n /\ i \in 0..n /\ g[i] \in RingType
      BY <1>2, <2>1, <2>2
    <3>2. /\ At(i + 1) \in Slots /\ At(i + 1 + 1) = NextSlot(At(i + 1))
      BY <1>3, <2>1
    <3>3. Decayed(g[i], At(i + 1), s + i)
      BY <3>1
    <3> DEFINE l == Hear(g[i], i + 1, f, start, fb).level
               r == g[i]
               p == At(i + 1)
               c == s + i
    <3>4. l \in Levels /\ l \in {r[ReadSlot(p, f.cur)].level, r[ReadSlot(p, f.prev)].level}
      <4>1. Stepped(start, i + 1) \in Nat
        BY <1>2, <2>1 DEF Stepped
      <4> QED BY <1>2, <3>1, <3>2, <4>1, HeardFacts DEF Hear
    <3>5. g[i + 1] = [r EXCEPT ![p] = [frame |-> count + (i + 1), level |-> FedBack(l, fb)]]
      <4>1. g[i + 1] = Played(g[i], i + 1, f, start, fb, write)
        BY <1>1, <2>1, <3>1
      <4>2. write[l] = FedBack(l, fb)
        <5> HIDE DEF l
        <5> QED BY <3>4
      <4> QED BY <4>1, <4>2 DEF Played
    <3>6. r \in RingType /\ p \in Slots /\ c \in Nat /\ Decayed(r, p, c) /\ s + (i + 1) = c + 1
      BY <2>1, <3>1, <3>2, <3>3
    <3>7. PICK b \in 1..MaxDelay : l = r[ReadSlot(p, b)].level
      BY <1>2, <3>4 DEF FadeType
    <3> DEFINE m == count + (i + 1)
    <3> HIDE DEF l, r, p, c, m
    <3>8. Decayed([r EXCEPT ![p] = [frame |-> m, level |-> FedBack(l, fb)]], NextSlot(p), c + 1)
      BY <1>2, <3>4, <3>6, <3>7, DecayedStep
    <3> QED BY <3>2, <3>5, <3>6, <3>8 DEF p, m
  <2> QED BY <2>1, <2>2
<1>6. S = Nat
  <2> HIDE DEF S
  <2> QED BY <1>4, <1>5, NatInd
<1> QED BY <1>1, <1>2, <1>6

\* What has been draining for the declared tail has decayed; what has not begun need not.
LEMMA DrainEnds ==
  ASSUME NEW r \in RingType, NEW p \in Slots
  PROVE  /\ Decayed(r, p, TailBound) => Quiet(r)
         /\ \A s \in Int : Quiet(r) => Decayed(r, p, s)
         /\ Decayed(r, p, 0)
<1>1. \A x \in Slots : r[x].level \in Levels
  BY DEF RingType
<1>2. TailBound = RingLen + RingLen * Passes /\ RingLen * Passes \in Nat /\ RingLen \in Nat \ {0}
  BY Sizes, SMT DEF TailBound
<1>3. ASSUME Decayed(r, p, TailBound), NEW x \in Slots PROVE r[x].level = 0
  <2>1. PICK d \in 1..RingLen : x = ReadSlot(p, d)
    BY SlotFacts
  <2> DEFINE l == r[x].level
             v == RingLen * Passes
             w == RingLen * (Passes - l)
  <2>2. w <= v /\ w \in Nat /\ v \in Nat
    <3>1. l \in Levels
      BY <1>1
    <3> HIDE DEF l
    <3> QED BY <1>2, <3>1, Rounds
  <2>3. l = 0 \/ TailBound + 1 - d <= w
    BY <1>3, <2>1 DEF Decayed, Paced
  <2>4. TailBound = RingLen + v
    BY <1>2
  <2> HIDE DEF l, v, w
  <2>5. l = 0
    BY <1>2, <2>2, <2>3, <2>4
  <2> QED BY <2>5 DEF l
<1>4. ASSUME NEW s \in Int, Quiet(r) PROVE Decayed(r, p, s)
  BY <1>4, SlotFacts DEF Quiet, Decayed, Paced
<1>5. Decayed(r, p, 0)
  <2> SUFFICES ASSUME NEW d \in 1..RingLen PROVE 0 + 1 - d <= RingLen * (Passes - r[ReadSlot(p, d)].level)
    BY DEF Decayed, Paced
  <2> DEFINE w == RingLen * (Passes - r[ReadSlot(p, d)].level)
  <2>1. w \in Nat
    BY <1>1, SlotFacts, Rounds
  <2> HIDE DEF w
  <2>2. 0 + 1 - d <= w
    BY <1>2, <2>1
  <2> QED BY <2>2 DEF w
<1> QED BY <1>3, <1>4, <1>5 DEF Quiet

-----------------------------------------------------------------------------
(***************************************************************************)
(* The inductive invariant.  The ring holds the frames its positions mean  *)
(* and, in a drain, levels no higher than the drain has left them; the     *)
(* last echo is that of the fade as it stands; and while direct writes     *)
(* keep to the boundaries, a fade is over at the next one and the tap is   *)
(* then the one that is wanted.                                            *)
(***************************************************************************)
LastHeard ==
  echoes # <<>> => /\ echoes[Len(echoes)].cur = tap_cur
                   /\ echoes[Len(echoes)].k = xfade_pos
                   /\ echoes[Len(echoes)].prev = IF xfade_pos < XFADE_FRAMES THEN tap_prev ELSE 0

GridKept ==
  on_grid => IF sample_pos % Period = 0 THEN xfade_pos = XFADE_FRAMES
             ELSE ~ fresh /\ tap_cur = Clamped(params.tap) /\ xfade_pos >= sample_pos % Period

IInv ==
  /\ TypeOK
  /\ Framed(ring, pos, count)
  /\ Decayed(ring, pos, flushed)
  /\ LastHeard
  /\ GridKept

\* A clamped delay is a tap of the ring.
LEMMA ClampedType ==
  ASSUME NEW d \in Nat
  PROVE  Clamped(d) \in 1..MaxDelay
  BY Sizes DEF Clamped, Smaller

\* The values the kernel is handed are parameters.
LEMMA ParamsType ==
  /\ \A p \in Params : p.tap \in Nat /\ p.feedback \in {0, 1} /\ Clamped(p.tap) \in 1..MaxDelay
  /\ Default \in Params
<1>1. ASSUME NEW p \in Params PROVE p.tap \in Nat /\ p.feedback \in {0, 1}
  BY DelayAssumption
<1> QED BY <1>1, ClampedType, DelayAssumption

\* The frame of the control cell, before and after a run that stays inside.
LEMMA CellFacts ==
  ASSUME NEW s \in Nat, NEW n \in 1..Period, n <= Period - (s % Period)
  PROVE  /\ s % Period \in 0..(Period - 1)
         /\ (s + n) % Period = IF (s % Period) + n = Period THEN 0 ELSE (s % Period) + n
<1>1. s % Period \in 0..(Period - 1)
  BY Sizes, ModNext
<1> DEFINE o == s % Period
           S == {m \in Nat : m <= n => (s + m) % Period = IF o + m = Period THEN 0 ELSE o + m}
<1>2. 0 \in S
  <2>1. s + 0 = s /\ o + 0 = o /\ o # Period
    BY <1>1
  <2> QED BY <2>1
<1>3. ASSUME NEW m \in S PROVE m + 1 \in S
  <2> SUFFICES ASSUME m + 1 <= n
               PROVE  (s + (m + 1)) % Period = IF o + (m + 1) = Period THEN 0 ELSE o + (m + 1)
    OBVIOUS
  <2>1. o \in 0..(Period - 1) /\ n <= Period - o /\ m \in Nat /\ Period \in Nat
    BY <1>1, Sizes
  <2> HIDE DEF o
  <2>2. m <= n /\ o + m # Period
    BY <2>1
  <2>3. (s + m) % Period = o + m
    BY <2>2
  <2> DEFINE a == s + m
  <2>4. a \in Nat /\ s + (m + 1) = a + 1
    BY <2>1
  <2>5. a % Period = o + m
    BY <2>3
  <2> HIDE DEF a
  <2>6. (a + 1) % Period = IF (a % Period) + 1 = Period THEN 0 ELSE (a % Period) + 1
    BY <2>4, Sizes, ModNext
  <2>7. o + (m + 1) = (o + m) + 1
    BY <2>1
  <2> QED BY <2>4, <2>5, <2>6, <2>7
<1>4. S = Nat
  <2>1. S \in SUBSET Nat
    OBVIOUS
  <2> HIDE DEF S
  <2> QED BY <1>2, <1>3, <2>1, NatInd
<1>5. n \in S /\ n <= n
  BY <1>4
<1> HIDE DEF o
<1> QED BY <1>1, <1>5 DEF o

\* A call that plays frames keeps what is said of the ring and the last echo.
LEMMA LoopKeeps ==
  ASSUME NEW n \in Nat \ {0}, NEW f, NEW start, NEW fb, NEW write,
         Playable(n, f, start, fb, write), Loop(n, f, start, fb, write),
         Framed(ring, pos, count), tap_cur' = f.cur, tap_prev' = f.prev
  PROVE  /\ ring' \in RingType /\ pos' \in Slots /\ count' \in Nat
         /\ Framed(ring', pos', count')
         /\ xfade_pos' \in 0..XFADE_FRAMES /\ xfade_pos' = Smaller(start + n, XFADE_FRAMES)
         /\ echoes' \in Seq(Echoes)
         /\ tap_cur' \in 1..MaxDelay /\ tap_prev' \in 1..MaxDelay
         /\ LastHeard'
<1>1. /\ ring' \in RingType /\ pos' \in Slots /\ count' \in Nat
      /\ Framed(ring', pos', count') /\ xfade_pos' = Smaller(start + n, XFADE_FRAMES)
      /\ echoes' \in Seq(Echoes) /\ Len(echoes') = n
      /\ \A i \in 1..n : echoes'[i] = EchoAt(i, f, start, fb)
  BY RunFacts
<1>2. start \in Nat /\ start + n \in Nat /\ f \in FadeType
  BY Sizes DEF Playable
<1>3. xfade_pos' \in 0..XFADE_FRAMES
      /\ (xfade_pos' < XFADE_FRAMES <=> start + n < XFADE_FRAMES)
  BY <1>1, <1>2, Sizes DEF Smaller
<1>4. echoes'[Len(echoes')] = EchoAt(n, f, start, fb)
  BY <1>1
<1>5. LastHeard'
  BY <1>1, <1>3, <1>4 DEF LastHeard, EchoAt
<1> QED BY <1>1, <1>2, <1>3, <1>5 DEF FadeType

\* The invariant holds initially.
LEMMA InitInv == Init => IInv
<1> SUFFICES ASSUME Init PROVE IInv
  OBVIOUS
<1>1. /\ ring = Silent /\ pos = 0 /\ count = 0 /\ flushed = 0 /\ echoes = <<>>
      /\ xfade_pos = XFADE_FRAMES /\ sample_pos = 0
  BY DEF Init
<1>2. Silent \in RingType /\ 0 \in Slots /\ 0 \in Levels
  BY Sizes DEF Silent, RingType
<1>3. Framed(Silent, 0, 0)
  <2>1. \A d \in 1..RingLen : ReadSlot(0, d) \in Slots /\ ~ (0 >= d)
    BY <1>2, SlotFacts
  <2> QED BY <2>1 DEF Framed, Silent
<1>4. Decayed(Silent, 0, 0)
  BY <1>2, DrainEnds
<1>5. TailBound \in Nat
  BY Sizes, SMT DEF TailBound
<1>6. TypeOK
  <2>1. sample_pos \in Nat /\ moves \in 0..MaxMoves
    BY <1>1, DelayAssumption DEF Init
  <2>5. params \in Params /\ fresh \in BOOLEAN /\ on_grid \in BOOLEAN
    BY ParamsType DEF Init
  <2>4. echoes \in Seq(Echoes)
    BY <1>1
  <2>2. /\ tap_cur \in 1..MaxDelay /\ tap_prev \in 1..MaxDelay /\ flush_feedback \in {0, 1}
    BY ParamsType DEF Init
  <2>3. xfade_pos \in 0..XFADE_FRAMES /\ flushed \in 0..TailBound /\ count \in Nat
    BY <1>1, <1>5, Sizes
  <2> QED BY <1>1, <1>2, <2>1, <2>2, <2>3, <2>4, <2>5 DEF TypeOK, RingType
<1>7. GridKept
  <2>1. 0 % Period = 0
    BY Sizes, ModNext
  <2> QED BY <1>1, <2>1 DEF GridKept
<1> QED BY <1>1, <1>3, <1>4, <1>6, <1>7 DEF IInv, LastHeard

\* What an action needs of the invariant, without the type's other parts.
LEMMA Typed ==
  ASSUME TypeOK
  PROVE  /\ ring \in RingType /\ pos \in Slots /\ count \in Nat
         /\ tap_cur \in 1..MaxDelay /\ tap_prev \in 1..MaxDelay
         /\ xfade_pos \in 0..XFADE_FRAMES /\ flush_feedback \in {0, 1}
         /\ flushed \in 0..TailBound /\ TailBound \in Nat
         /\ sample_pos \in Nat /\ params \in Params
<1>1. TailBound \in Nat
  BY Sizes, SMT DEF TailBound
<1> QED BY <1>1, DelayAssumption DEF TypeOK, RingType

\* The fade of a run, and where it stands.
BegunAt(d) == IF Turns(d) THEN 0 ELSE xfade_pos

\* A fade that may begin leaves the taps in the ring.
LEMMA BegunType ==
  ASSUME TypeOK, NEW d \in 1..MaxDelay
  PROVE  Begun(d) \in FadeType /\ BegunAt(d) \in 0..XFADE_FRAMES
  BY Typed, Sizes DEF Begun, BegunAt, FadeType

\* A run of render keeps the invariant.
LEMMA RunKeeps ==
  ASSUME IInv, NEW n \in 1..Period, Run(n)
  PROVE  IInv'
<1> DEFINE d == Clamped(params'.tap)
           f == Begun(d)
           start == BegunAt(d)
           fb == params'.feedback
<1>1. /\ TypeOK /\ Framed(ring, pos, count) /\ GridKept
      /\ n \in Nat \ {0} /\ n <= Period - (sample_pos % Period)
      /\ sample_pos + n <= MaxPos /\ sample_pos \in Nat
  <2>1. TypeOK /\ Framed(ring, pos, count) /\ GridKept
    BY DEF IInv
  <2>2. n \in Nat \ {0} /\ sample_pos \in Nat
    BY <2>1, Sizes, Typed
  <2> QED BY <2>1, <2>2 DEF Run
<1>2. params' \in Params /\ d \in 1..MaxDelay /\ fb \in {0, 1}
  <2>1. params' \in Params
    BY <1>1 DEF Run, TypeOK
  <2> QED BY <2>1, ParamsType
<1>3. f \in FadeType /\ start \in 0..XFADE_FRAMES
  <2> HIDE DEF d
  <2> QED BY <1>1, <1>2, BegunType
<1>4. PICK l \in Loudness : Loop(n, f, start, fb, [m \in Levels |-> l])
  BY DEF Run, BegunAt
<1>5. /\ tap_cur' = f.cur /\ tap_prev' = f.prev /\ flush_feedback' = fb /\ flushed' = 0
      /\ sample_pos' = sample_pos + n /\ fresh' = FALSE /\ on_grid' = on_grid /\ moves' = moves
      /\ params' \in IF sample_pos % Period = 0 THEN Params ELSE {params}
  BY DEF Run
<1> DEFINE write == [m \in Levels |-> l]
<1>6. write \in [Levels -> Levels]
  BY <1>4, DelayAssumption, Sizes
<1>7. /\ f.cur = IF Turns(d) THEN d ELSE tap_cur
      /\ start = IF Turns(d) THEN 0 ELSE xfade_pos
  BY DEF Begun, BegunAt
<1> HIDE DEF f, start, fb, write, d
<1>8. Playable(n, f, start, fb, write) /\ Loop(n, f, start, fb, write)
  BY <1>1, <1>2, <1>3, <1>4, <1>6, Typed DEF Playable, write
<1>9. /\ ring' \in RingType /\ pos' \in Slots /\ count' \in Nat
      /\ Framed(ring', pos', count')
      /\ xfade_pos' \in 0..XFADE_FRAMES /\ xfade_pos' = Smaller(start + n, XFADE_FRAMES)
      /\ echoes' \in Seq(Echoes)
      /\ tap_cur' \in 1..MaxDelay /\ tap_prev' \in 1..MaxDelay
      /\ LastHeard'
  BY <1>1, <1>5, <1>8, LoopKeeps
<1>10. Decayed(ring', pos', flushed')
  BY <1>5, <1>9, DrainEnds
<1>11. TypeOK'
  <2>1. TailBound \in Nat
    BY <1>1, Typed
  <2>2. 0 \in 0..TailBound
    BY <2>1
  <2>3. sample_pos' \in Nat
    BY <1>1, <1>5
  <2> QED BY <1>1, <1>2, <1>5, <1>9, <2>2, <2>3 DEF TypeOK, RingType
<1>12. GridKept'
  <2> SUFFICES ASSUME on_grid
               PROVE  IF sample_pos' % Period = 0 THEN xfade_pos' = XFADE_FRAMES
                      ELSE ~ fresh' /\ tap_cur' = Clamped(params'.tap)
                           /\ xfade_pos' >= sample_pos' % Period
    BY <1>5 DEF GridKept
  <2> DEFINE o == sample_pos % Period
  <2>1. o \in 0..(Period - 1) /\ n <= Period - o
        /\ sample_pos' % Period = IF o + n = Period THEN 0 ELSE o + n
    BY <1>1, <1>5, CellFacts
  <2>2. IF o = 0 THEN xfade_pos = XFADE_FRAMES
        ELSE ~ fresh /\ tap_cur = Clamped(params.tap) /\ xfade_pos >= o
    BY <1>1 DEF GridKept
  <2>3. o # 0 => params' = params
    BY <1>5
  <2> HIDE DEF o
  <2>4. xfade_pos \in Nat /\ XFADE_FRAMES = Period /\ Period \in Nat \ {0} /\ XFADE_FRAMES \in Nat
    BY <1>1, Typed, Sizes
  \* The tap is now the one wanted, and the fade is no shorter than the cell.
  <2>5. f.cur = d /\ start \in Nat /\ start >= o
    <3>1. CASE o = 0
      BY <1>7, <2>1, <2>2, <2>4, <3>1 DEF Turns
    <3>2. CASE o # 0
      <4>1. ~ Turns(d) /\ tap_cur = d
        BY <2>2, <2>3, <3>2 DEF Turns, d
      <4> QED BY <1>7, <2>2, <2>4, <3>2, <4>1
    <3> QED BY <3>1, <3>2
  <2>6. start + n < XFADE_FRAMES => xfade_pos' = start + n
    BY <1>9, <2>4, <2>5 DEF Smaller
  <2>7. ~ (start + n < XFADE_FRAMES) => xfade_pos' = XFADE_FRAMES
    BY <1>1, <1>9, <2>4, <2>5 DEF Smaller
  <2>8. tap_cur' = Clamped(params'.tap)
    BY <1>5, <2>5 DEF d
  <2> QED BY <1>1, <1>5, <2>1, <2>4, <2>5, <2>6, <2>7, <2>8
<1> QED BY <1>9, <1>10, <1>11, <1>12 DEF IInv

\* A flush with nothing left to do keeps the invariant.
LEMMA FlushNothingKeeps ==
  ASSUME IInv, FlushNothing
  PROVE  IInv'
<1>1. /\ Over \/ Quiet(ring)
      /\ flushed' = TailBound
      /\ UNCHANGED <<sample_pos, moves, params, fresh, on_grid, ring, pos, count,
                     tap_cur, tap_prev, xfade_pos, flush_feedback, echoes>>
  BY DEF FlushNothing, hostVars, ringVars, fadeVars
<1>2. TailBound \in Nat /\ flushed \in 0..TailBound /\ ring \in RingType /\ pos \in Slots
  BY Typed DEF IInv
<1>3. Decayed(ring, pos, TailBound)
  <2>1. CASE Over
    <3>1. flushed = TailBound
      BY <1>2, <2>1 DEF Over
    <3> QED BY <3>1 DEF IInv
  <2>2. CASE Quiet(ring)
    BY <1>2, <2>2, DrainEnds
  <2> QED BY <1>1, <2>1, <2>2
<1>4. TypeOK'
  BY <1>1, <1>2 DEF IInv, TypeOK
<1> QED BY <1>1, <1>3, <1>4 DEF IInv, LastHeard, GridKept

\* A flush that produces frames keeps the invariant.
LEMMA FlushSomeKeeps ==
  ASSUME IInv, NEW m \in Offers, FlushSome(m)
  PROVE  IInv'
<1> DEFINE n == Smaller(m, TailBound - flushed)
           f == [cur |-> tap_cur, prev |-> tap_prev]
           fb == flush_feedback
           write == [l \in Levels |-> FedBack(l, fb)]
<1>1. /\ ~ Over /\ Loop(n, f, xfade_pos, fb, write)
      /\ flushed' = IF Quiet(ring') THEN TailBound ELSE flushed + n
      /\ UNCHANGED <<sample_pos, moves, params, fresh, on_grid, tap_cur, tap_prev, flush_feedback>>
  BY DEF FlushSome, hostVars
<1>2. /\ TypeOK /\ TailBound \in Nat /\ flushed \in 0..TailBound /\ ring \in RingType /\ pos \in Slots
      /\ tap_cur \in 1..MaxDelay /\ tap_prev \in 1..MaxDelay /\ count \in Nat
      /\ xfade_pos \in 0..XFADE_FRAMES /\ fb \in {0, 1}
  BY Typed DEF IInv
<1>3. n \in Nat \ {0} /\ flushed + n \in 0..TailBound
  BY <1>1, <1>2, DelayAssumption DEF Over, Smaller
<1>4. f \in FadeType /\ f.cur = tap_cur /\ f.prev = tap_prev
  BY <1>2 DEF FadeType
<1>5. write \in [Levels -> Levels]
  BY Sizes DEF FedBack
<1> HIDE DEF n, f
<1>6. Playable(n, f, xfade_pos, fb, write)
  BY <1>2, <1>3, <1>4, <1>5 DEF Playable
<1>7. /\ ring' \in RingType /\ pos' \in Slots /\ count' \in Nat
      /\ Framed(ring', pos', count')
      /\ xfade_pos' \in 0..XFADE_FRAMES /\ xfade_pos' = Smaller(xfade_pos + n, XFADE_FRAMES)
      /\ echoes' \in Seq(Echoes) /\ LastHeard'
  <2>1. tap_cur' = f.cur /\ tap_prev' = f.prev /\ Framed(ring, pos, count)
    BY <1>1, <1>4 DEF IInv
  <2> HIDE DEF write, fb
  <2> QED BY <1>1, <1>3, <1>6, <2>1, LoopKeeps
<1>8. Decayed(ring', pos', flushed')
  <2>1. Decayed(ring', pos', flushed + n)
    <3>1. flushed \in Nat /\ Decayed(ring, pos, flushed)
      BY <1>2 DEF IInv
    <3> QED BY <1>1, <1>6, <3>1, DrainFacts
  <2>2. CASE Quiet(ring')
    BY <1>1, <1>2, <1>7, <2>2, DrainEnds
  <2>3. CASE ~ Quiet(ring')
    BY <1>1, <2>1, <2>3
  <2> QED BY <2>2, <2>3
<1>9. TypeOK'
  <2>1. flushed' \in 0..TailBound
    BY <1>1, <1>2, <1>3
  <2> HIDE DEF write
  <2> QED BY <1>1, <1>2, <1>7, <2>1 DEF TypeOK, RingType
<1>10. GridKept'
  <2>1. xfade_pos' >= xfade_pos
    BY <1>2, <1>3, <1>7, Sizes DEF Smaller
  <2>2. xfade_pos = XFADE_FRAMES => xfade_pos' = XFADE_FRAMES
    BY <1>2, <1>7, <2>1, Sizes
  <2>3. xfade_pos \in Nat /\ xfade_pos' \in Nat /\ sample_pos % Period \in Nat
    <3>1. sample_pos \in Nat
      BY <1>2, Typed
    <3>2. sample_pos % Period \in 0..(Period - 1)
      BY <3>1, Sizes, ModNext
    <3> QED BY <1>2, <1>7, <3>2, Sizes
  <2>4. sample_pos' % Period = sample_pos % Period
    BY <1>1
  <2> DEFINE o == sample_pos % Period
  <2>5. GridKept
    BY DEF IInv
  <2> QED BY <1>1, <2>1, <2>2, <2>3, <2>4, <2>5 DEF GridKept
<1> QED BY <1>7, <1>8, <1>9, <1>10 DEF IInv

\* A restart or a seek keeps the invariant.
LEMMA MoveKeeps ==
  ASSUME IInv, NEW q \in Nat, MoveTo(q)
  PROVE  IInv'
<1>1. /\ moves < MaxMoves /\ moves' = moves + 1 /\ sample_pos' = q /\ params' = Default
      /\ ring' = Silent /\ pos' = 0 /\ count' = 0 /\ flushed' = 0 /\ echoes' = <<>>
      /\ tap_cur' = Clamped(Default.tap) /\ tap_prev' = Clamped(Default.tap)
      /\ xfade_pos' = XFADE_FRAMES /\ flush_feedback' = Default.feedback
  BY DEF MoveTo, ResetFlushState
<1>2. fresh' = FALSE /\ on_grid' = TRUE
  BY DEF MoveTo
<1>3. Silent \in RingType /\ 0 \in Slots /\ 0 \in Levels
  BY Sizes DEF Silent, RingType
<1>4. Framed(Silent, 0, 0)
  <2>1. \A d \in 1..RingLen : ReadSlot(0, d) \in Slots /\ ~ (0 >= d)
    BY <1>3, SlotFacts
  <2> QED BY <2>1 DEF Framed, Silent
<1>5. Decayed(Silent, 0, 0)
  BY <1>3, DrainEnds
<1>6. /\ moves' \in 0..MaxMoves /\ xfade_pos' \in 0..XFADE_FRAMES /\ flushed' \in 0..TailBound
      /\ count' \in Nat
  <2>1. moves \in 0..MaxMoves /\ MaxMoves \in Nat /\ TailBound \in Nat
    BY DelayAssumption, Typed DEF IInv, TypeOK
  <2> QED BY <1>1, <2>1, Sizes
<1>7. /\ tap_cur' \in 1..MaxDelay /\ tap_prev' \in 1..MaxDelay /\ flush_feedback' \in {0, 1}
      /\ params' \in Params /\ echoes' \in Seq(Echoes)
  BY <1>1, ParamsType
<1>8. TypeOK'
  BY <1>1, <1>2, <1>3, <1>6, <1>7 DEF TypeOK, RingType
<1>9. GridKept'
  <2> DEFINE o == sample_pos' % Period
  <2>1. o \in 0..(Period - 1)
    BY <1>1, Sizes, ModNext
  <2> HIDE DEF o
  <2>2. xfade_pos' = Period /\ Period \in Nat
    BY <1>1, Sizes
  <2>3. xfade_pos' >= o
    BY <2>1, <2>2
  <2>4. tap_cur' = Clamped(params'.tap)
    BY <1>1
  <2> QED BY <1>1, <1>2, <2>3, <2>4 DEF GridKept, o
<1> QED BY <1>1, <1>4, <1>5, <1>8, <1>9 DEF IInv, LastHeard

\* A direct write keeps the invariant.
LEMMA WriteKeeps ==
  ASSUME IInv, NEW p \in Params, SetParameterImmediate(p)
  PROVE  IInv'
<1>1. /\ params' = p
      /\ UNCHANGED <<sample_pos, moves, ring, pos, count, tap_cur, tap_prev, xfade_pos,
                     flush_feedback, flushed, echoes>>
  BY DEF SetParameterImmediate, ringVars, fadeVars
<1>2. fresh' = TRUE /\ on_grid' = (on_grid /\ sample_pos % Period = 0)
  BY DEF SetParameterImmediate
<1>3. TypeOK'
  <2>1. fresh' \in BOOLEAN /\ on_grid' \in BOOLEAN
    BY <1>2
  <2> QED BY <1>1, <2>1 DEF IInv, TypeOK
<1>4. GridKept'
  BY <1>1, <1>2 DEF IInv, GridKept
<1> QED BY <1>1, <1>3, <1>4 DEF IInv, LastHeard

\* Every step keeps the invariant.
LEMMA NextInv ==
  ASSUME IInv, [Next]_vars
  PROVE  IInv'
<1>1. CASE \E n \in 1..Period : Run(n)
  BY <1>1, RunKeeps
<1>2. CASE \E n \in Offers : Flush(n)
  BY <1>2, FlushNothingKeeps, FlushSomeKeeps DEF Flush
<1>3. CASE \E q \in SeekTo \cup {0} : MoveTo(q)
  <2>1. PICK q \in SeekTo \cup {0} : MoveTo(q)
    BY <1>3
  <2>2. q \in Nat
    BY DelayAssumption
  <2> QED BY <2>1, <2>2, MoveKeeps
<1>4. CASE \E p \in Params : SetParameterImmediate(p)
  BY <1>4, WriteKeeps
<1>5. CASE UNCHANGED vars
  <2>1. UNCHANGED <<sample_pos, moves, params, fresh, on_grid, ring, pos, count, tap_cur, tap_prev,
                    xfade_pos, flush_feedback, flushed, echoes>>
    BY <1>5 DEF vars, hostVars, ringVars, fadeVars
  <2> QED BY <2>1 DEF IInv, TypeOK, LastHeard, GridKept
<1> QED BY <1>1, <1>2, <1>3, <1>4, <1>5 DEF Next

(***************************************************************************)
(* The invariant the theorems below rest on.                               *)
(***************************************************************************)
THEOREM Inductive == Spec => []IInv
  BY InitInv, NextInv, PTL DEF Spec

(***************************************************************************)
(* Every variable keeps its type: whatever tap is wanted, the taps stay in *)
(* the ring, and the drain gives no more than it declared.                 *)
(***************************************************************************)
THEOREM TypeCorrect == Spec => []TypeOK
<1>1. IInv => TypeOK
  BY DEF IInv
<1> QED BY <1>1, Inductive, PTL

(***************************************************************************)
(* flush is done only when the ring has decayed: the declared tail is      *)
(* enough for every ring, feedback, fade and cut of the drain.             *)
(***************************************************************************)
THEOREM TailCovers == Spec => []DrainedDry
<1>1. IInv => DrainedDry
  BY Typed, DrainEnds DEF IInv, DrainedDry
<1> QED BY <1>1, Inductive, PTL

-----------------------------------------------------------------------------
(***************************************************************************)
(* Taps change softly.                                                     *)
(***************************************************************************)
\* The weight of tap d k frames into a fade from prev to cur.
Share(cur, prev, k, d) ==
  (IF d = cur THEN k ELSE 0) + (IF k < XFADE_FRAMES /\ d = prev THEN XFADE_FRAMES - k ELSE 0)

\* From one frame to the next, a tap's share moves by at most one step of the fade.
LEMMA ShareStep ==
  ASSUME NEW cur \in 1..MaxDelay, NEW prev \in 1..MaxDelay, NEW d \in 1..MaxDelay,
         NEW k \in 0..XFADE_FRAMES
  PROVE  /\ Share(cur, prev, k, d) \in Int
         /\ Share(cur, prev, Smaller(k + 1, XFADE_FRAMES), d) - Share(cur, prev, k, d) \in -1..1
<1> DEFINE X == XFADE_FRAMES
           j == Smaller(k + 1, X)
<1>1. X \in Nat \ {0} /\ k \in Nat /\ k <= X /\ j \in Nat /\ j = IF k < X THEN k + 1 ELSE X
  BY Sizes DEF Smaller
<1> HIDE DEF X, j
<1> DEFINE a == IF d = cur THEN k ELSE 0
           b == IF k < X /\ d = prev THEN X - k ELSE 0
           a1 == IF d = cur THEN j ELSE 0
           b1 == IF j < X /\ d = prev THEN X - j ELSE 0
<1>2. a \in Int /\ b \in Int /\ a1 \in Int /\ b1 \in Int
      /\ (a1 = a \/ a1 = a + 1) /\ (b1 = b \/ b1 = b - 1)
  BY <1>1
<1>3. Share(cur, prev, k, d) = a + b /\ Share(cur, prev, j, d) = a1 + b1
  BY DEF Share, X
<1> HIDE DEF a, b, a1, b1
<1>4. a + b \in Int /\ (a1 + b1) - (a + b) \in -1..1
  BY <1>2
<1> QED BY <1>3, <1>4 DEF j, X

\* The shares of the taps a played frame was mixed from.
LEMMA EchoShare ==
  ASSUME NEW f \in FadeType, NEW start \in 0..XFADE_FRAMES, NEW fb, NEW i \in Nat,
         NEW d \in 1..MaxDelay
  PROVE  Weight(EchoAt(i, f, start, fb), d)
           = Share(f.cur, f.prev, Smaller(start + i, XFADE_FRAMES), d)
<1> DEFINE k == Smaller(start + i, XFADE_FRAMES)
           e == EchoAt(i, f, start, fb)
<1>1. k \in Nat /\ (k < XFADE_FRAMES <=> start + i < XFADE_FRAMES) /\ d # 0
  BY Sizes DEF Smaller
<1>2. e.cur = f.cur /\ e.k = k /\ e.prev = IF start + i < XFADE_FRAMES THEN f.prev ELSE 0
  BY DEF EchoAt
<1> HIDE DEF k, e
<1>3. Weight(e, d) = (IF d = e.cur THEN e.k ELSE 0)
                     + (IF d = e.prev THEN XFADE_FRAMES - e.k ELSE 0)
  BY DEF Weight
<1>4. (IF d = e.prev THEN XFADE_FRAMES - e.k ELSE 0)
      = (IF k < XFADE_FRAMES /\ d = f.prev THEN XFADE_FRAMES - k ELSE 0)
  BY <1>1, <1>2
<1>5. Weight(e, d) = Share(f.cur, f.prev, k, d)
  BY <1>2, <1>3, <1>4 DEF Share
<1> QED BY <1>5 DEF k, e

\* The last echo has the weights of the fade as it stands.
LEMMA LastShare ==
  ASSUME IInv, echoes # <<>>, NEW d \in 1..MaxDelay
  PROVE  Weight(echoes[Len(echoes)], d) = Share(tap_cur, tap_prev, xfade_pos, d)
<1> DEFINE e == echoes[Len(echoes)]
<1>1. e.cur = tap_cur /\ e.k = xfade_pos
      /\ e.prev = IF xfade_pos < XFADE_FRAMES THEN tap_prev ELSE 0
  BY DEF IInv, LastHeard
<1>2. d # 0 /\ xfade_pos \in 0..XFADE_FRAMES /\ XFADE_FRAMES \in Nat
  BY Typed, Sizes DEF IInv
<1> HIDE DEF e
<1>3. Weight(e, d) = (IF d = e.cur THEN e.k ELSE 0)
                     + (IF d = e.prev THEN XFADE_FRAMES - e.k ELSE 0)
  BY DEF Weight
<1>4. (IF d = e.prev THEN XFADE_FRAMES - e.k ELSE 0)
      = (IF xfade_pos < XFADE_FRAMES /\ d = tap_prev THEN XFADE_FRAMES - xfade_pos ELSE 0)
  BY <1>1, <1>2
<1>5. Weight(e, d) = Share(tap_cur, tap_prev, xfade_pos, d)
  BY <1>1, <1>3, <1>4 DEF Share
<1> QED BY <1>5 DEF e

\* One step of ClickSafe.
Softly ==
  echoes # <<>> /\ echoes' # <<>> /\ count' > count =>
    LET heard == <<echoes[Len(echoes)]>> \o echoes'
    IN  \A i \in 1..(Len(heard) - 1), d \in 1..MaxDelay :
          Weight(heard[i + 1], d) - Weight(heard[i], d) \in -1..1

\* Frames that play on from the fade last heard change no weight by more than a frame's.
LEMMA PlayedSoftly ==
  ASSUME IInv, echoes # <<>>, NEW n \in Nat, NEW f \in FadeType,
         NEW start \in 0..XFADE_FRAMES, NEW fb,
         echoes' \in Seq(Echoes), Len(echoes') = n,
         \A i \in 1..n : echoes'[i] = EchoAt(i, f, start, fb),
         \A d \in 1..MaxDelay : Share(f.cur, f.prev, start, d)
                                = Share(tap_cur, tap_prev, xfade_pos, d)
  PROVE  Softly
<1> DEFINE last == echoes[Len(echoes)]
           next == echoes'
           heard == <<last>> \o next
           k(i) == Smaller(start + i, XFADE_FRAMES)
<1>1. last \in Echoes /\ next \in Seq(Echoes) /\ Len(next) = n
  <2>1. echoes \in Seq(Echoes) /\ Len(echoes) \in 1..Len(echoes)
    <3>1. echoes \in Seq(Echoes)
      BY DEF IInv, TypeOK
    <3> QED BY <3>1
  <2> QED BY <2>1
<1>2. \A d \in 1..MaxDelay : Weight(last, d) = Share(f.cur, f.prev, start, d)
  BY LastShare
<1>3. \A i \in 1..n, d \in 1..MaxDelay : Weight(next[i], d) = Share(f.cur, f.prev, k(i), d)
  <2>1. ASSUME NEW i \in 1..n, NEW d \in 1..MaxDelay
        PROVE  Weight(next[i], d) = Share(f.cur, f.prev, k(i), d)
    <3>1. Weight(EchoAt(i, f, start, fb), d) = Share(f.cur, f.prev, k(i), d)
      BY EchoShare
    <3> QED BY <3>1
  <2> QED BY <2>1
<1>4. f.cur \in 1..MaxDelay /\ f.prev \in 1..MaxDelay
  BY DEF FadeType
<1>5. start = k(0) /\ \A i \in Nat : k(i) \in 0..XFADE_FRAMES
                                    /\ k(i + 1) = Smaller(k(i) + 1, XFADE_FRAMES)
  BY Sizes DEF Smaller
<1> HIDE DEF last, next, k
<1>6. /\ Len(heard) = n + 1 /\ heard[1] = last
      /\ \A i \in 1..n : heard[i + 1] = next[i]
  BY <1>1
<1> HIDE DEF heard
<1>7. ASSUME NEW i \in 1..n, NEW d \in 1..MaxDelay
      PROVE  Weight(heard[i + 1], d) - Weight(heard[i], d) \in -1..1
  <2>1. Weight(heard[i + 1], d) = Share(f.cur, f.prev, k(i), d)
    BY <1>3, <1>6
  <2>2. Weight(heard[i], d) = Share(f.cur, f.prev, k(i - 1), d)
    <3>1. CASE i = 1
      <4>1. heard[i] = last /\ i - 1 = 0
        BY <1>6, <3>1
      <4> QED BY <1>2, <1>5, <4>1
    <3>2. CASE i # 1
      <4>1. i - 1 \in 1..n /\ (i - 1) + 1 = i
        BY <3>2
      <4>2. heard[i] = next[i - 1]
        BY <1>6, <4>1
      <4> QED BY <1>3, <4>1, <4>2
    <3> QED BY <3>1, <3>2
  <2>3. i - 1 \in Nat /\ (i - 1) + 1 = i
    OBVIOUS
  <2>4. k(i) = Smaller(k(i - 1) + 1, XFADE_FRAMES) /\ k(i - 1) \in 0..XFADE_FRAMES
    BY <1>5, <2>3
  <2> DEFINE p == f.cur
             q == f.prev
             j == k(i - 1)
  <2>5. p \in 1..MaxDelay /\ q \in 1..MaxDelay /\ j \in 0..XFADE_FRAMES
    BY <1>4, <2>4
  <2>6. Share(p, q, Smaller(j + 1, XFADE_FRAMES), d) - Share(p, q, j, d) \in -1..1
    <3> HIDE DEF p, q, j
    <3> QED BY <2>5, ShareStep
  <2>7. Share(f.cur, f.prev, k(i), d) - Share(f.cur, f.prev, k(i - 1), d) \in -1..1
    BY <2>4, <2>6
  <2> QED BY <2>1, <2>2, <2>7
<1>8. Len(heard) - 1 = n
  BY <1>6
<1> QED BY <1>7, <1>8 DEF heard, last, next, Softly

\* No tap jumps within a run or from the run before it.
LEMMA RunSoftly ==
  ASSUME IInv, NEW n \in 1..Period, Run(n)
  PROVE  Softly
<1> SUFFICES ASSUME echoes # <<>> PROVE Softly
  BY DEF Softly
<1> DEFINE c == Clamped(params'.tap)
           f == Begun(c)
           start == BegunAt(c)
           fb == params'.feedback
<1>1. PICK l \in Loudness : Loop(n, f, start, fb, [m \in Levels |-> l])
  BY DEF Run, BegunAt
<1> DEFINE write == [m \in Levels |-> l]
<1>2. /\ TypeOK /\ Framed(ring, pos, count) /\ n \in Nat /\ fb \in {0, 1} /\ c \in 1..MaxDelay
  <2>1. params' \in Params /\ TypeOK
    BY DEF IInv, TypeOK, Run
  <2> QED BY <2>1, ParamsType, Sizes DEF IInv
<1>3. f \in FadeType /\ start \in 0..XFADE_FRAMES
  <2> HIDE DEF c
  <2> QED BY <1>2, BegunType
<1>4. \A d \in 1..MaxDelay : Share(f.cur, f.prev, start, d)
                             = Share(tap_cur, tap_prev, xfade_pos, d)
  <2>1. CASE Turns(c)
    <3>1. xfade_pos = XFADE_FRAMES /\ f.cur = c /\ f.prev = tap_cur /\ start = 0
          /\ XFADE_FRAMES \in Nat \ {0} /\ c # tap_cur
      BY <1>2, <2>1, Typed, Sizes DEF Turns, Begun, BegunAt
    <3> HIDE DEF f, start, c
    <3> QED BY <3>1 DEF Share
  <2>2. CASE ~ Turns(c)
    BY <2>2 DEF Begun, BegunAt
  <2> QED BY <2>1, <2>2
<1>5. write \in [Levels -> Levels]
  BY <1>1, DelayAssumption, Sizes
<1> HIDE DEF f, start, fb, write, c
<1>6. Playable(n, f, start, fb, write) /\ Loop(n, f, start, fb, write)
  BY <1>1, <1>2, <1>3, <1>5, Typed DEF Playable, write
<1>7. /\ echoes' \in Seq(Echoes) /\ Len(echoes') = n
      /\ \A i \in 1..n : echoes'[i] = EchoAt(i, f, start, fb)
  BY <1>2, <1>6, RunFacts
<1> QED BY <1>2, <1>3, <1>4, <1>7, PlayedSoftly

\* No tap jumps within a drain.
LEMMA FlushSoftly ==
  ASSUME IInv, NEW m \in Offers, FlushSome(m)
  PROVE  Softly
<1> SUFFICES ASSUME echoes # <<>> PROVE Softly
  BY DEF Softly
<1> DEFINE n == Smaller(m, TailBound - flushed)
           f == [cur |-> tap_cur, prev |-> tap_prev]
           fb == flush_feedback
           write == [l \in Levels |-> FedBack(l, fb)]
<1>1. ~ Over /\ Loop(n, f, xfade_pos, fb, write)
  BY DEF FlushSome
<1>2. /\ TypeOK /\ TailBound \in Nat /\ flushed \in 0..TailBound /\ ring \in RingType /\ pos \in Slots
      /\ tap_cur \in 1..MaxDelay /\ tap_prev \in 1..MaxDelay /\ count \in Nat
      /\ xfade_pos \in 0..XFADE_FRAMES /\ fb \in {0, 1} /\ Framed(ring, pos, count)
  BY Typed DEF IInv
<1>3. n \in Nat
  BY <1>1, <1>2, DelayAssumption DEF Over, Smaller
<1>4. f \in FadeType /\ f.cur = tap_cur /\ f.prev = tap_prev
  BY <1>2 DEF FadeType
<1>5. write \in [Levels -> Levels]
  BY Sizes DEF FedBack
<1> HIDE DEF n, f, write, fb
<1>6. Playable(n, f, xfade_pos, fb, write)
  BY <1>2, <1>3, <1>4, <1>5 DEF Playable
<1>7. /\ echoes' \in Seq(Echoes) /\ Len(echoes') = n
      /\ \A i \in 1..n : echoes'[i] = EchoAt(i, f, xfade_pos, fb)
  BY <1>1, <1>2, <1>6, RunFacts
<1> QED BY <1>2, <1>3, <1>4, <1>7, PlayedSoftly

(***************************************************************************)
(* A change of the delay time is click-safe: from frame to frame, across   *)
(* runs, redirected targets and the drain, no tap's weight moves by more   *)
(* than the fade's step.                                                   *)
(***************************************************************************)
THEOREM TapsMoveSoftly == Spec => ClickSafe
<1>1. IInv /\ [Next]_vars => Softly
  <2> SUFFICES ASSUME IInv, [Next]_vars PROVE Softly
    OBVIOUS
  <2>1. CASE \E n \in 1..Period : Run(n)
    BY <2>1, RunSoftly
  <2>2. CASE \E n \in Offers : Flush(n)
    <3>1. CASE \E n \in Offers : FlushSome(n)
      BY <3>1, FlushSoftly
    <3>2. CASE FlushNothing
      <4>1. count' = count /\ count \in Nat
        BY <3>2, Typed DEF FlushNothing, ringVars, IInv
      <4> QED BY <4>1 DEF Softly
    <3> QED BY <2>2, <3>1, <3>2 DEF Flush
  <2>3. CASE \E q \in SeekTo \cup {0} : MoveTo(q)
    BY <2>3 DEF MoveTo, Softly
  <2>4. CASE (\E p \in Params : SetParameterImmediate(p)) \/ UNCHANGED vars
    <3>1. count' = count /\ count \in Nat
      BY <2>4, Typed DEF SetParameterImmediate, vars, ringVars, IInv
    <3> QED BY <3>1 DEF Softly
  <2> QED BY <2>1, <2>2, <2>3, <2>4 DEF Next
<1> QED BY <1>1, Inductive, PTL DEF Spec, ClickSafe, Softly

-----------------------------------------------------------------------------
(***************************************************************************)
(* The delay implements the echo line.                                     *)
(***************************************************************************)
\* The nearest tap there is.
LEMMA TapIs ==
  ASSUME NEW p, p.tap \in Nat
  PROVE  Line!Tap(p) = Clamped(p.tap)
<1> DEFINE t == p.tap
           c == Clamped(t)
           Sq(d) == (d - t) * (d - t)
<1>1. t \in Nat /\ c \in 1..MaxDelay /\ MaxDelay \in Nat \ {0}
  BY ClampedType, Sizes
<1>2. c = IF t < 1 THEN 1 ELSE IF t <= MaxDelay THEN t ELSE MaxDelay
  BY DEF Clamped, Smaller
<1> HIDE DEF t, c
\* Every other tap is further away.
<1>3. ASSUME NEW e \in 1..MaxDelay, e # c PROVE Sq(c) < Sq(e)
  <2> DEFINE x == IF t <= c THEN c - t ELSE t - c
             y == IF t <= e THEN e - t ELSE t - e
  <2>1. x \in Nat /\ y \in Nat /\ x + 1 <= y
    BY <1>1, <1>2, <1>3
  <2>2. (c - t = x \/ c - t = -x) /\ (e - t = y \/ e - t = -y)
    BY <1>1
  <2> HIDE DEF x, y
  <2>3. x * x <= x * y /\ x * y \in Nat /\ x * x \in Nat
    <3>1. x * x <= y * x /\ x * y = y * x
      BY <2>1, SMT
    <3> QED BY <2>1, <3>1, SMT
  <2>4. x * y + y <= y * y
    <3>1. (x + 1) * y <= y * y
      BY <2>1, TimesMono
    <3>2. (x + 1) * y = x * y + y
      BY <2>1, SMT
    <3> QED BY <3>1, <3>2
  <2>5. (c - t) * (c - t) = x * x
    <3> DEFINE u == c - t
    <3>1. u = x \/ u = -x
      BY <2>2
    <3> HIDE DEF u
    <3>2. u * u = x * x
      BY <2>1, <3>1, SMT
    <3> QED BY <3>2 DEF u
  <2>6. (e - t) * (e - t) = y * y
    <3> DEFINE u == e - t
    <3>1. u = y \/ u = -y
      BY <2>2
    <3> HIDE DEF u
    <3>2. u * u = y * y
      BY <2>1, <3>1, SMT
    <3> QED BY <3>2 DEF u
  <2> DEFINE a == x * x
             b == x * y
             v == y * y
  <2>7. a <= b /\ b + y <= v /\ a \in Nat /\ b \in Nat /\ y \in Nat \ {0} /\ v \in Int
    <3>1. y * y \in Int
      BY <2>1, SMT
    <3> QED BY <2>1, <2>3, <2>4, <3>1
  <2> HIDE DEF a, b, v
  <2>8. a < v
    BY <2>7
  <2> QED BY <2>5, <2>6, <2>8 DEF a, v
<1>4. \A e \in 1..MaxDelay : Sq(e) \in Int
  BY <1>1, SMT
<1> HIDE DEF Sq
<1>5. \A e \in 1..MaxDelay : Sq(c) <= Sq(e)
  BY <1>1, <1>3, <1>4
<1>6. \A d \in 1..MaxDelay : (\A e \in 1..MaxDelay : Sq(d) <= Sq(e)) => d = c
  BY <1>1, <1>3, <1>4
<1>7. (CHOOSE d \in 1..MaxDelay : \A e \in 1..MaxDelay : Sq(d) <= Sq(e)) = c
  BY <1>1, <1>5, <1>6
<1>8. Line!Tap(p) = CHOOSE d \in 1..MaxDelay : \A e \in 1..MaxDelay : Sq(d) <= Sq(e)
  BY DEF Line!Tap, Sq, t
<1> QED BY <1>7, <1>8 DEF c, t

\* The fade of a run, i frames on, as the line sees it.
FadeOf(f, start, i) ==
  [cur |-> f.cur,
   prev |-> IF Smaller(start + i, XFADE_FRAMES) = XFADE_FRAMES THEN f.cur ELSE f.prev,
   k |-> Smaller(start + i, XFADE_FRAMES)]

\* The line's fade advances as the run's does.
LEMMA Advances ==
  ASSUME NEW f \in FadeType, NEW start \in 0..XFADE_FRAMES, NEW i \in Nat
  PROVE  Line!Advance(FadeOf(f, start, i)) = FadeOf(f, start, i + 1)
<1> DEFINE X == XFADE_FRAMES
           k == Smaller(start + i, X)
           j == Smaller(start + (i + 1), X)
           l == FadeOf(f, start, i)
<1>1. X \in Nat \ {0} /\ X = Period /\ k \in Nat /\ k <= X /\ j = (IF k + 1 >= X THEN X ELSE k + 1)
  BY Sizes DEF Smaller
<1>2. l = [cur |-> f.cur, prev |-> IF k = X THEN f.cur ELSE f.prev, k |-> k]
  BY DEF FadeOf
<1>3. FadeOf(f, start, i + 1) = [cur |-> f.cur, prev |-> IF j = X THEN f.cur ELSE f.prev, k |-> j]
  BY DEF FadeOf
<1> HIDE DEF X, k, j, l
<1>4. CASE k + 1 >= X
  <2>1. Line!Advance(l) = [cur |-> f.cur, prev |-> f.cur, k |-> X]
    BY <1>1, <1>2, <1>4 DEF Line!Advance, Line!Settled
  <2> QED BY <1>1, <1>3, <1>4, <2>1 DEF l
<1>5. CASE ~ (k + 1 >= X)
  <2>1. k # X /\ j # X /\ j = k + 1
    BY <1>1, <1>5
  <2>2. Line!Advance(l) = [l EXCEPT !.k = k + 1]
    BY <1>1, <1>2, <1>5 DEF Line!Advance
  <2>3. [l EXCEPT !.k = k + 1] = [cur |-> f.cur, prev |-> f.prev, k |-> k + 1]
    BY <1>2, <2>1
  <2> QED BY <1>3, <2>1, <2>2, <2>3 DEF l
<1> QED BY <1>4, <1>5

\* While no fade begins inside a run, the line plays the frames the kernel plays.
LEMMA EchoesAlike ==
  ASSUME NEW f \in FadeType, NEW start \in 0..XFADE_FRAMES, NEW i \in Nat, NEW fb
  PROVE  Line!Echo(count + i, FadeOf(f, start, i), fb) = EchoAt(i, f, start, fb)
<1> DEFINE X == XFADE_FRAMES
           k == Smaller(start + i, X)
           l == FadeOf(f, start, i)
           m == count + i
<1>1. X = Period /\ (start + i < X <=> k # X)
  BY Sizes DEF Smaller
<1>2. l.cur = f.cur /\ l.prev = (IF k = X THEN f.cur ELSE f.prev) /\ l.k = k
  BY DEF FadeOf
<1>3. EchoAt(i, f, start, fb) =
        [new |-> IF m > f.cur THEN m - f.cur ELSE 0,
         old |-> IF start + i < X /\ m > f.prev THEN m - f.prev ELSE 0,
         cur |-> f.cur, prev |-> IF start + i < X THEN f.prev ELSE 0,
         k |-> k, feedback |-> fb]
  BY DEF EchoAt
<1>4. Line!Echo(m, l, fb) =
        [new |-> IF m > l.cur THEN m - l.cur ELSE 0,
         old |-> IF l.k = Period THEN 0 ELSE IF m > l.prev THEN m - l.prev ELSE 0,
         cur |-> l.cur, prev |-> IF l.k = Period THEN 0 ELSE l.prev,
         k |-> l.k, feedback |-> fb]
  BY DEF Line!Echo, Line!Heard
<1> HIDE DEF X, k, l, m
<1>5. (IF l.k = Period THEN 0 ELSE IF m > l.prev THEN m - l.prev ELSE 0)
      = (IF start + i < X /\ m > f.prev THEN m - f.prev ELSE 0)
  BY <1>1, <1>2
<1>6. (IF l.k = Period THEN 0 ELSE l.prev) = (IF start + i < X THEN f.prev ELSE 0)
  BY <1>1, <1>2
<1>7. Line!Echo(m, l, fb) = EchoAt(i, f, start, fb)
  BY <1>2, <1>3, <1>4, <1>5, <1>6
<1> QED BY <1>7 DEF m, l

\* The line as the delay's fade, and the fades Through chooses.
LineNow == [cur |-> tap_cur, prev |-> IF xfade_pos = XFADE_FRAMES THEN tap_cur ELSE tap_prev,
            k |-> xfade_pos]

Fades(n, d, g) ==
  g = [i \in 0..n |-> IF i = 0 THEN LineNow
                      ELSE Line!Advance(IF i = 1 THEN Line!Turn(g[0], d) ELSE g[i - 1])]

\* If the line, turned to a tap, is the run's fade, the run is a stretch of the line's frames.
LEMMA PlaysThrough ==
  ASSUME NEW n \in Nat \ {0}, NEW d, NEW fb, NEW f \in FadeType, NEW start \in 0..XFADE_FRAMES,
         Line!Turn(LineNow, d) = FadeOf(f, start, 0),
         count' = count + n, LineNow' = FadeOf(f, start, n),
         echoes' \in [1..n -> Echoes],
         \A i \in 1..n : echoes'[i] = EchoAt(i, f, start, fb)
  PROVE  Line!Through(n, d, fb)
<1> DEFINE g == CHOOSE h : Fades(n, d, h)
           a == [i \in 0..n |-> IF i = 0 THEN LineNow ELSE FadeOf(f, start, i)]
<1>1. \A i \in Nat : Line!Advance(FadeOf(f, start, i)) = FadeOf(f, start, i + 1)
  BY Advances
<1>2. Fades(n, d, a)
  <2>1. ASSUME NEW i \in 0..n
        PROVE  a[i] = IF i = 0 THEN LineNow
                      ELSE Line!Advance(IF i = 1 THEN Line!Turn(a[0], d) ELSE a[i - 1])
    <3>1. CASE i = 0
      BY <3>1
    <3>2. CASE i = 1
      <4>1. a[0] = LineNow /\ a[i] = FadeOf(f, start, 1) /\ 0 + 1 = 1
        BY <3>2
      <4>2. Line!Advance(FadeOf(f, start, 0)) = FadeOf(f, start, 1)
        BY <1>1, <4>1
      <4> HIDE DEF a
      <4> QED BY <3>2, <4>1, <4>2
    <3>3. CASE i # 0 /\ i # 1
      <4>1. i - 1 \in 0..n /\ i - 1 # 0 /\ i - 1 \in Nat /\ i - 1 + 1 = i
        BY <3>3
      <4>2. a[i - 1] = FadeOf(f, start, i - 1) /\ a[i] = FadeOf(f, start, i)
        BY <3>3, <4>1
      <4>3. Line!Advance(FadeOf(f, start, i - 1)) = FadeOf(f, start, i)
        BY <1>1, <4>1
      <4> HIDE DEF a
      <4> QED BY <3>3, <4>2, <4>3
    <3> QED BY <3>1, <3>2, <3>3
  <2>2. a = [i \in 0..n |-> a[i]]
    OBVIOUS
  <2> HIDE DEF a
  <2> QED BY <2>1, <2>2 DEF Fades
<1>3. Fades(n, d, g)
  BY <1>2
<1> HIDE DEF g
<1>4. /\ g[0] = LineNow /\ g[1] = FadeOf(f, start, 1)
      /\ \A i \in 2..n : g[i] = Line!Advance(g[i - 1])
  <2>1. \A i \in 0..n : g[i] = IF i = 0 THEN LineNow
                               ELSE Line!Advance(IF i = 1 THEN Line!Turn(g[0], d) ELSE g[i - 1])
    BY <1>3 DEF Fades
  <2>2. 0 \in 0..n /\ 1 \in 0..n /\ \A i \in 2..n : i \in 0..n /\ i # 0 /\ i # 1
    OBVIOUS
  <2>3. g[0] = LineNow
    BY <2>1, <2>2
  <2>4. g[1] = Line!Advance(Line!Turn(g[0], d))
    BY <2>1, <2>2
  <2>5. Line!Advance(FadeOf(f, start, 0)) = FadeOf(f, start, 1)
    <3>1. 0 \in Nat /\ 0 + 1 = 1
      OBVIOUS
    <3> QED BY <1>1, <3>1
  <2> QED BY <2>1, <2>2, <2>3, <2>4, <2>5
<1> DEFINE S == {i \in Nat : i + 1 <= n => g[i + 1] = FadeOf(f, start, i + 1)}
<1>5. 0 \in S /\ S \in SUBSET Nat
  BY <1>4
<1>6. ASSUME NEW i \in S PROVE i + 1 \in S
  <2> SUFFICES ASSUME i + 1 + 1 <= n PROVE g[i + 1 + 1] = FadeOf(f, start, i + 1 + 1)
    OBVIOUS
  <2>1. i + 1 + 1 \in 2..n /\ i + 1 + 1 - 1 = i + 1 /\ i + 1 <= n /\ i + 1 \in Nat
    OBVIOUS
  <2>2. g[i + 1] = FadeOf(f, start, i + 1)
    BY <2>1
  <2> QED BY <1>1, <1>4, <2>1, <2>2
<1>7. S = Nat
  <2> HIDE DEF S
  <2> QED BY <1>5, <1>6, NatInd
<1>8. \A i \in 1..n : g[i] = FadeOf(f, start, i)
  <2>1. ASSUME NEW i \in 1..n PROVE g[i] = FadeOf(f, start, i)
    <3>1. i - 1 \in Nat /\ i - 1 + 1 = i /\ i <= n
      OBVIOUS
    <3>2. i - 1 \in S
      <4> HIDE DEF S
      <4> QED BY <1>7, <3>1
    <3> QED BY <3>1, <3>2
  <2> QED BY <2>1
<1>9. LineNow' = g[n]
  BY <1>8
<1>10. echoes' = [i \in 1..n |-> Line!Echo(count + i, g[i], fb)]
  <2>1. \A i \in 1..n : echoes'[i] = Line!Echo(count + i, g[i], fb)
    BY <1>8, EchoesAlike
  <2> QED BY <2>1
<1> QED BY <1>9, <1>10 DEF Line!Through, g, Fades, LineNow

\* The initial states of the delay are initial states of the line.
LEMMA LineInit == Init => Line!Init
<1> SUFFICES ASSUME Init PROVE Line!Init
  OBVIOUS
<1>1. Line!Tap(Default) = Clamped(Default.tap)
  BY ParamsType, TapIs
<1> QED BY <1>1, Sizes DEF Init, Line!Init, Line!Settled

\* While direct writes keep to the boundaries, a run is the line's.
LEMMA RunOnLine ==
  ASSUME IInv, on_grid, NEW n \in 1..Period, Run(n)
  PROVE  Line!Play(n)
<1> DEFINE c == Clamped(params'.tap)
           f == Begun(c)
           start == BegunAt(c)
           fb == params'.feedback
           d == IF sample_pos % Period = 0 \/ fresh THEN Line!Tap(params') ELSE 0
<1>1. PICK l \in Loudness : Loop(n, f, start, fb, [m \in Levels |-> l])
  BY DEF Run, BegunAt
<1> DEFINE write == [m \in Levels |-> l]
<1>2. /\ TypeOK /\ Framed(ring, pos, count) /\ GridKept /\ n \in Nat \ {0} /\ fb \in {0, 1}
      /\ c \in 1..MaxDelay /\ Line!Tap(params') = c
  <2>1. params' \in Params /\ TypeOK
    BY DEF IInv, TypeOK, Run
  <2>2. params'.tap \in Nat /\ fb \in {0, 1} /\ c \in 1..MaxDelay
    BY <2>1, ParamsType
  <2>3. Line!Tap(params') = c
    BY <2>2, TapIs
  <2> QED BY <2>1, <2>2, <2>3, Sizes DEF IInv
<1>3. /\ tap_cur' = f.cur /\ tap_prev' = f.prev /\ flush_feedback' = fb
      /\ sample_pos' = sample_pos + n /\ fresh' = FALSE
      /\ params' \in IF sample_pos % Period = 0 THEN Params ELSE {params}
  BY DEF Run
<1>4. f \in FadeType /\ start \in 0..XFADE_FRAMES
  <2> HIDE DEF c
  <2> QED BY <1>2, BegunType
<1>5. Line!Turn(LineNow, d) = FadeOf(f, start, 0)
  <2>1. xfade_pos \in Nat /\ xfade_pos <= XFADE_FRAMES /\ XFADE_FRAMES \in Nat \ {0}
        /\ XFADE_FRAMES = Period /\ c # 0
    BY <1>2, Typed, Sizes
  <2>2. \A m \in 0..XFADE_FRAMES : Smaller(m + 0, XFADE_FRAMES) = m
    BY <2>1 DEF Smaller
  <2>3. CASE Turns(c)
    <3>1. sample_pos % Period = 0
      <4> SUFFICES ASSUME sample_pos % Period # 0 PROVE FALSE
        OBVIOUS
      <4>1. tap_cur = Clamped(params.tap) /\ params' = params
        BY <1>2, <1>3 DEF GridKept
      <4> QED BY <2>3, <4>1 DEF Turns
    <3>2. d = c
      BY <1>2, <3>1
    <3>3. f = [cur |-> c, prev |-> tap_cur] /\ start = 0 /\ xfade_pos = XFADE_FRAMES /\ c # tap_cur
      BY <2>1, <2>3 DEF Begun, BegunAt, Turns
    <3> HIDE DEF c, f, start, d
    <3>4. Line!Turn(LineNow, d) = [cur |-> c, prev |-> tap_cur, k |-> 0]
      BY <2>1, <3>2, <3>3 DEF Line!Turn, LineNow
    <3>5. FadeOf(f, start, 0) = [cur |-> c, prev |-> tap_cur, k |-> 0]
      BY <2>1, <2>2, <3>3 DEF FadeOf
    <3> QED BY <3>4, <3>5
  <2>4. CASE ~ Turns(c)
    <3>1. f = [cur |-> tap_cur, prev |-> tap_prev] /\ start = xfade_pos
      BY <2>4 DEF Begun, BegunAt
    <3>2. FadeOf(f, start, 0) = LineNow
      <4> HIDE DEF f, start
      <4> QED BY <2>1, <2>2, <3>1 DEF FadeOf, LineNow
    <3>3. ~ (xfade_pos = Period /\ d # 0 /\ d # tap_cur)
      <4>1. d = c \/ d = 0
        BY <1>2
      <4> HIDE DEF c, d
      <4> QED BY <2>1, <2>4, <4>1 DEF Turns
    <3>4. Line!Turn(LineNow, d) = LineNow
      <4> HIDE DEF d
      <4> QED BY <3>3 DEF Line!Turn, LineNow
    <3> QED BY <3>2, <3>4
  <2> QED BY <2>3, <2>4
<1>6. write \in [Levels -> Levels]
  BY <1>1, DelayAssumption, Sizes
<1> HIDE DEF f, start, fb, write, c
<1>7. Playable(n, f, start, fb, write) /\ Loop(n, f, start, fb, write)
  BY <1>1, <1>2, <1>4, <1>6, Typed DEF Playable, write
<1>8. /\ echoes' \in Seq(Echoes) /\ Len(echoes') = n /\ count' = count + n
      /\ xfade_pos' = Smaller(start + n, XFADE_FRAMES)
      /\ \A i \in 1..n : echoes'[i] = EchoAt(i, f, start, fb)
  BY <1>2, <1>7, RunFacts
<1>9. echoes' \in [1..n -> Echoes]
  BY <1>8
<1>10. LineNow' = FadeOf(f, start, n)
  BY <1>3, <1>8 DEF LineNow, FadeOf
<1> HIDE DEF d
<1>11. Line!Through(n, d, fb)
  BY <1>2, <1>4, <1>5, <1>8, <1>9, <1>10, PlaysThrough
<1> QED BY <1>3, <1>11 DEF Line!Play, d, fb

\* A drain goes on with the line.
LEMMA FlushOnLine ==
  ASSUME IInv, NEW m \in Offers, FlushSome(m)
  PROVE  \E n \in 1..TailBound : Line!DrainOn(n)
<1> DEFINE n == Smaller(m, TailBound - flushed)
           f == [cur |-> tap_cur, prev |-> tap_prev]
           fb == flush_feedback
           write == [l \in Levels |-> FedBack(l, fb)]
<1>1. /\ ~ Over /\ Loop(n, f, xfade_pos, fb, write)
      /\ UNCHANGED <<sample_pos, params, fresh, flush_feedback, tap_cur, tap_prev>>
  BY DEF FlushSome, hostVars
<1>2. /\ TypeOK /\ TailBound \in Nat /\ flushed \in 0..TailBound /\ ring \in RingType /\ pos \in Slots
      /\ tap_cur \in 1..MaxDelay /\ tap_prev \in 1..MaxDelay /\ count \in Nat
      /\ xfade_pos \in 0..XFADE_FRAMES /\ fb \in {0, 1} /\ Framed(ring, pos, count)
  BY Typed DEF IInv
<1>3. n \in Nat \ {0} /\ n \in 1..TailBound
  BY <1>1, <1>2, DelayAssumption DEF Over, Smaller
<1>4. f \in FadeType /\ f.cur = tap_cur /\ f.prev = tap_prev
  BY <1>2 DEF FadeType
<1>5. write \in [Levels -> Levels]
  BY Sizes DEF FedBack
<1>6. Line!Turn(LineNow, 0) = FadeOf(f, xfade_pos, 0)
  <2>1. Smaller(xfade_pos + 0, XFADE_FRAMES) = xfade_pos
    BY <1>2, Sizes DEF Smaller
  <2>2. FadeOf(f, xfade_pos, 0) = LineNow
    <3> HIDE DEF f
    <3> QED BY <1>4, <2>1 DEF FadeOf, LineNow
  <2> QED BY <2>2 DEF Line!Turn
<1> HIDE DEF n, f, write, fb
<1>7. Playable(n, f, xfade_pos, fb, write)
  BY <1>2, <1>3, <1>4, <1>5 DEF Playable
<1>8. /\ echoes' \in Seq(Echoes) /\ Len(echoes') = n /\ count' = count + n
      /\ xfade_pos' = Smaller(xfade_pos + n, XFADE_FRAMES)
      /\ \A i \in 1..n : echoes'[i] = EchoAt(i, f, xfade_pos, fb)
  BY <1>1, <1>2, <1>7, RunFacts
<1>9. echoes' \in [1..n -> Echoes]
  BY <1>8
<1>10. LineNow' = FadeOf(f, xfade_pos, n)
  BY <1>1, <1>4, <1>8 DEF LineNow, FadeOf
<1>11. Line!Through(n, 0, fb)
  BY <1>2, <1>3, <1>4, <1>6, <1>8, <1>9, <1>10, PlaysThrough
<1>12. Line!DrainOn(n)
  BY <1>1, <1>11 DEF Line!DrainOn, fb
<1> QED BY <1>3, <1>12

\* Every step of the delay is a step of the line or changes none of its variables.
LEMMA LineStep ==
  ASSUME IInv, [Next]_vars, on_grid'
  PROVE  Line!Next \/ UNCHANGED Line!vars
<1>1. CASE \E n \in 1..Period : Run(n)
  <2>1. PICK n \in 1..Period : Run(n)
    BY <1>1
  <2>2. on_grid
    BY <2>1 DEF Run
  <2>3. Line!Play(n)
    BY <2>1, <2>2, RunOnLine
  <2> QED BY <2>3 DEF Line!Next
<1>2. CASE \E m \in Offers : FlushSome(m)
  <2>1. \E n \in 1..TailBound : Line!DrainOn(n)
    BY <1>2, FlushOnLine
  <2> QED BY <2>1 DEF Line!Next
<1>3. CASE FlushNothing \/ UNCHANGED vars
  <2>1. UNCHANGED <<sample_pos, params, fresh, count, tap_cur, tap_prev, xfade_pos,
                    flush_feedback, echoes>>
    BY <1>3 DEF FlushNothing, vars, hostVars, ringVars, fadeVars
  <2> QED BY <2>1 DEF Line!vars
<1>4. CASE \E q \in SeekTo \cup {0} : MoveTo(q)
  <2>1. PICK q \in SeekTo \cup {0} : MoveTo(q)
    BY <1>4
  <2>2. Line!Tap(Default) = Clamped(Default.tap)
    BY ParamsType, TapIs
  <2>3. Line!MoveTo(q)
    BY <2>1, <2>2, Sizes DEF MoveTo, ResetFlushState, Line!MoveTo, Line!Settled
  <2> QED BY <2>3 DEF Line!Next
<1>5. CASE \E p \in Params : SetParameterImmediate(p)
  <2>1. PICK p \in Params : SetParameterImmediate(p)
    BY <1>5
  <2>2. params' = p /\ fresh' = TRUE
    BY <2>1 DEF SetParameterImmediate
  <2>3. UNCHANGED <<sample_pos, count, tap_cur, tap_prev, xfade_pos, flush_feedback, echoes>>
    BY <2>1 DEF SetParameterImmediate, ringVars, fadeVars
  <2>4. Line!WriteNow(p)
    BY <2>2, <2>3 DEF Line!WriteNow
  <2> QED BY <2>4 DEF Line!Next
<1> QED BY <1>1, <1>2, <1>3, <1>4, <1>5 DEF Next, Flush

(***************************************************************************)
(* While the host writes directly only at boundaries, the delay implements *)
(* the echo line, for every ring length and however runs are cut: the ring *)
(* always holds the frame the tap means, and a fade begins at the first    *)
(* boundary at which the line is settled and another tap is wanted.        *)
(***************************************************************************)
THEOREM EchoesOnGrid == Spec => GridEchoExact
<1>1. IInv /\ [Next]_vars => [on_grid' => Line!Next]_(Line!vars)
  BY LineStep
<1> QED BY <1>1, LineInit, Inductive, PTL DEF Spec, GridEchoExact

=============================================================================
