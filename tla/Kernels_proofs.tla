--------------------------- MODULE Kernels_proofs ----------------------------
(***************************************************************************)
(* What the simple kernels and their preparation rest on, for all values   *)
(* of the constants: byte counts that saturate exactly and verdicts that   *)
(* are due; coefficients that are stable wherever the parameters are, and  *)
(* a phase that stays in its period; and the shape that a kernel's state   *)
(* keeps through every call, however the stream is cut, from which follow  *)
(* its types, the contract of its drain and what it holds when prepared.   *)
(*                                                                         *)
(* A method renders by folds over frames.  Of a fold is proved what holds  *)
(* of it by induction on the subsets of the frames, and, in the last       *)
(* sections, that it goes through its frames in order: so a run of an      *)
(* average or of a recursive filter goes on with a history as that         *)
(* kernel's definition does.                                               *)
(***************************************************************************)
EXTENDS KernelProcessor, FiniteSetTheorems, WellFoundedInduction, TLAPS

-----------------------------------------------------------------------------
(* Byte counts. *)

\* A layout whose bytes are n in truth.
Stands(layout, n) == layout.bytes = Checked(n)

\* Checked sums and products are those of the true sums and products, cut off once.
LEMMA CheckedSums ==
  ASSUME NEW a \in Nat, NEW b \in Nat
  PROVE  Plus(Checked(a), Checked(b)) = Checked(a + b)
  BY LayoutAssumption DEF Plus, Checked, Uncounted

\* Products of naturals are naturals, no less than the first factor.
LEMMA NatProducts ==
  ASSUME NEW a \in Nat, NEW b \in Nat
  PROVE  /\ a * b \in Nat
         /\ b > 0 => a * b >= a
  <1>1. a * b \in Nat
    OBVIOUS
  <1>2. ASSUME b > 0
        PROVE  a * b >= a
    <2>1. PICK d \in Nat : b = d + 1
      BY <1>2, b - 1 \in Nat
    <2>2. a * b = a * d + a
      BY <2>1
    <2>3. a * d \in Nat
      OBVIOUS
    <2>. QED
      BY <2>2, <2>3
  <1>. QED
    BY <1>1, <1>2

\* A checked count times a positive number is that of the true product.
LEMMA CheckedProducts ==
  ASSUME NEW a \in Nat, NEW b \in Nat, b > 0
  PROVE  Times(Checked(a), b) = Checked(a * b)
  BY LayoutAssumption, NatProducts DEF Times, Checked, Uncounted

\* An array adds its bytes to a layout, and keeps it addressable just if its own bytes are
\* (dsp/memory.rs, array and repeated_array).
THEOREM ArraysExact ==
  ASSUME NEW layout, NEW n \in Nat, Stands(layout, n),
         NEW arrays \in Nat, NEW elements \in Nat, NEW size \in Nat
  PROVE  /\ Stands(RepeatedArray(layout, arrays, elements, size),
                   n + (elements * size) * arrays)
         /\ RepeatedArray(layout, arrays, elements, size).components_addressable <=>
              layout.components_addressable /\ (arrays = 0 \/ elements * size <= MaxIsize)
  <1> DEFINE component == elements * size
             counted == IF arrays = 0 THEN 0 ELSE Checked(component)
             more == RepeatedArray(layout, arrays, elements, size)
  <1>1. component \in Nat /\ Times(elements, size) = Checked(component)
    BY LayoutAssumption DEF Times, Uncounted
  <1>2. more = RepeatedBytes(layout, arrays, counted)
    BY <1>1, Zenon DEF RepeatedArray
  <1>3. component * arrays \in Nat
    BY <1>1, NatProducts
  <1>4. Times(counted, arrays) = Checked(component * arrays)
    <2>1. CASE arrays = 0
      <3>1. component * arrays = 0
        BY <1>1, <2>1
      <3>. QED
        BY <2>1, <3>1, LayoutAssumption DEF Times, Checked, Uncounted
    <2>2. CASE arrays > 0
      BY <1>1, <2>2, CheckedProducts
    <2>. QED
      BY <2>1, <2>2
  <1>5. Plus(Checked(n), Checked(component * arrays)) = Checked(n + component * arrays)
    BY <1>3, CheckedSums
  <1>6. counted \in 0..MaxIsize <=> arrays = 0 \/ component <= MaxIsize
    BY <1>1, LayoutAssumption DEF Checked, Uncounted
  <1> HIDE DEF component, counted, more
  <1>7. more.bytes = Plus(layout.bytes, Times(counted, arrays))
    BY <1>2 DEF RepeatedBytes
  <1>8. more.components_addressable <=> layout.components_addressable /\ counted \in 0..MaxIsize
    BY <1>2, Zenon DEF RepeatedBytes
  <1>9. Stands(more, n + component * arrays)
    BY <1>4, <1>5, <1>7 DEF Stands
  <1>10. more.components_addressable <=>
           layout.components_addressable /\ (arrays = 0 \/ component <= MaxIsize)
    BY <1>6, <1>8, Zenon
  <1>. QED
    BY <1>9, <1>10 DEF component, more

\* preflight lets a layout pass just if its true bytes are within the cap and can be counted,
\* and every buffer can be addressed; over budget is only said of what is over the cap
\* (dsp/memory.rs, preflight).
THEOREM PreflightExact ==
  ASSUME NEW layout, NEW n \in Nat, Stands(layout, n), NEW cap \in 0..NoCap
  PROVE  /\ Preflight(layout, cap) = "Ok" <=>
              n <= cap /\ n <= MaxUsize /\ layout.components_addressable
         /\ Preflight(layout, cap) = "OverBudget" => n > cap
  BY LayoutAssumption DEF Preflight, Stands, Checked, Uncounted, NoCap

-----------------------------------------------------------------------------
(* Coefficients. *)

\* Products of positive integers are positive.
LEMMA Positive ==
  ASSUME NEW x \in Nat \ {0}, NEW y \in Nat \ {0}
  PROVE  x * y \in Nat \ {0}
  BY NatProducts

\* The low and high pass.
LEMMA PassStable ==
  ASSUME NEW shape \in {"Lowpass", "Highpass"}, NEW cos \in (1 - Unit)..(Unit - 1),
         NEW alpha \in Nat \ {0}, NEW a, NEW root
  PROVE  IsStable(Rbj(shape, cos, alpha, a, root))
  BY TailAssumption DEF IsStable, Rbj, Magnitude

\* Scaling a comparison by a positive number.
LEMMA Scaled ==
  ASSUME NEW x \in Int, NEW y \in Int, NEW k \in Nat \ {0}, x < y
  PROVE  k * x < k * y
  <1>1. y - x \in Nat \ {0}
    OBVIOUS
  <1>2. k * (y - x) \in Nat \ {0}
    BY <1>1, Positive
  <1>3. k * (y - x) = k * y - k * x
    OBVIOUS
  <1>4. k * x \in Int /\ k * y \in Int
    OBVIOUS
  <1>. QED
    BY <1>2, <1>3, <1>4

\* The peaking filter.
LEMMA PeakingStable ==
  ASSUME NEW cos \in (1 - Unit)..(Unit - 1), NEW alpha \in Nat \ {0},
         NEW a \in Nat \ {0}, NEW root
  PROVE  IsStable(Rbj("Peaking", cos, alpha, a, root))
  <1> DEFINE c == Rbj("Peaking", cos, alpha, a, root)
             square == Unit * Unit
             body == Unit * a
  <1>1. Unit \in Nat \ {0} /\ square \in Nat \ {0} /\ body \in Nat \ {0}
    BY TailAssumption, Positive
  <1>2. c.a0 = square * (a + alpha) /\ c.a2 = square * (a - alpha) /\ c.a1 = -2 * cos * Unit * a
    BY DEF Rbj
  <1>3. square * (a + alpha) = square * a + square * alpha
    BY <1>1
  <1>4. square * (a - alpha) = square * a - square * alpha
    BY <1>1
  <1>5. square * a = Unit * body
    BY <1>1
  <1>6. -2 * cos * Unit * a = -2 * (body * cos)
    BY <1>1
  <1>7. square * a \in Nat \ {0} /\ square * alpha \in Nat \ {0}
    BY <1>1, Positive
  <1>8. body * cos < body * Unit /\ body * (- cos) < body * Unit
    <2>1. cos < Unit /\ - cos < Unit
      BY <1>1
    <2>. QED
      BY <1>1, <2>1, Scaled
  <1>9. body * (- cos) = - (body * cos) /\ body * Unit = Unit * body
    BY <1>1
  <1> DEFINE x == square * a
             y == square * alpha
             z == body * cos
             top == Unit * body
  <1>10. z \in Int /\ top \in Int /\ x \in Int /\ y \in Int
    BY <1>1
  <1>11. c.a0 = x + y /\ c.a2 = x - y /\ c.a1 = -2 * z /\ x = top /\ z < top /\ -z < top
         /\ x > 0 /\ y > 0
    BY <1>2, <1>3, <1>4, <1>5, <1>6, <1>7, <1>8, <1>9
  <1> HIDE DEF c, x, y, z, top
  <1>12. Magnitude(c.a2) < c.a0 /\ Magnitude(c.a1) < c.a0 + c.a2
    BY <1>10, <1>11 DEF Magnitude
  <1>. QED
    BY <1>12 DEF IsStable, c

\* The shelves.
LEMMA ShelfStable ==
  ASSUME NEW shape \in {"LowShelf", "HighShelf"}, NEW cos \in (1 - Unit)..(Unit - 1),
         NEW alpha \in Nat \ {0}, NEW a \in Nat \ {0}, NEW root \in Nat \ {0}
  PROVE  IsStable(Rbj(shape, cos, alpha, a, root))
  <1> DEFINE c == Rbj(shape, cos, alpha, a, root)
             sign == IF shape = "LowShelf" THEN 1 ELSE -1
             turn == sign * cos
             shelf == 2 * root * alpha
             au == a * Unit
             ac == a * turn
             uu == Unit * Unit
             uc == Unit * turn
  <1>1. /\ Unit \in Nat \ {0} /\ turn \in (1 - Unit)..(Unit - 1)
        /\ shelf \in Nat \ {0} /\ au \in Nat \ {0} /\ uu \in Nat \ {0}
        /\ ac \in Int /\ uc \in Int
    <2>1. Unit \in Nat \ {0} /\ turn \in (1 - Unit)..(Unit - 1)
      BY TailAssumption
    <2>2. 2 * root \in Nat \ {0}
      OBVIOUS
    <2>. QED
      BY <2>1, <2>2, Positive
  <1>2. /\ c.a0 = Unit * ((a + Unit) * Unit + sign * (a - Unit) * cos + shelf)
        /\ c.a2 = Unit * ((a + Unit) * Unit + sign * (a - Unit) * cos - shelf)
        /\ c.a1 = -2 * Unit * sign * ((a - Unit) * Unit + sign * (a + Unit) * cos)
    BY DEF Rbj
  <1>3. (a + Unit) * Unit = au + uu
    BY <1>1
  <1>4. sign * (a - Unit) * cos = ac - uc
    BY <1>1
  <1>5. (a - Unit) * Unit + sign * (a + Unit) * cos = au - uu + ac + uc
    BY <1>1
  <1> DEFINE sum == au + uu + ac - uc
             turned == au - uu + ac + uc
  <1>6. sum \in Int /\ turned \in Int
    BY <1>1
  <1>7. a * (Unit + turn) = au + ac /\ Unit * (Unit - turn) = uu - uc
    BY <1>1
  <1>8. a * (Unit + turn) \in Nat \ {0} /\ Unit * (Unit - turn) \in Nat \ {0}
    BY <1>1, Positive
  <1>9. sum > 0 /\ turned < sum /\ - turned < sum
    BY <1>1, <1>7, <1>8
  <1>10. c.a0 = Unit * (sum + shelf) /\ c.a2 = Unit * (sum - shelf)
    BY <1>1, <1>2, <1>3, <1>4
  <1>11. c.a1 = -2 * (Unit * turned) \/ c.a1 = 2 * (Unit * turned)
    <2>1. c.a1 = -2 * Unit * sign * turned
      BY <1>2, <1>5
    <2>2. sign = 1 \/ sign = -1
      OBVIOUS
    <2>. HIDE DEF sign, turned, c
    <2>3. CASE sign = 1
      <3>1. -2 * Unit * 1 * turned = -2 * (Unit * turned)
        BY <1>1, <1>6
      <3>. QED
        BY <2>1, <2>3, <3>1
    <2>4. CASE sign = -1
      <3>1. -2 * Unit * (-1) * turned = 2 * (Unit * turned)
        BY <1>1, <1>6
      <3>. QED
        BY <2>1, <2>4, <3>1
    <2>. QED
      BY <2>2, <2>3, <2>4
  <1> HIDE DEF c, sign, turn, shelf, au, ac, uu, uc, sum, turned
  <1> DEFINE p == Unit * sum
             q == Unit * shelf
             r == Unit * turned
  <1>12. p \in Int /\ q \in Int /\ r \in Int
    BY <1>1, <1>6
  <1>13. c.a0 = p + q /\ c.a2 = p - q
    <2>1. Unit * (sum + shelf) = p + q /\ Unit * (sum - shelf) = p - q
      BY <1>1, <1>6
    <2>. QED
      BY <1>10, <2>1
  <1>14. p > 0 /\ q > 0
    BY <1>1, <1>6, <1>9, Positive
  <1>15. r < p /\ - r < p
    <2>1. Unit * turned < Unit * sum /\ Unit * (- turned) < Unit * sum
      BY <1>1, <1>6, <1>9, Scaled
    <2>2. Unit * (- turned) = - (Unit * turned)
      BY <1>1, <1>6
    <2>. QED
      BY <2>1, <2>2
  <1>16. c.a1 = -2 * r \/ c.a1 = 2 * r
    BY <1>11
  <1> HIDE DEF p, q, r
  <1>17. Magnitude(c.a2) < c.a0 /\ Magnitude(c.a1) < c.a0 + c.a2
    BY <1>12, <1>13, <1>14, <1>15, <1>16 DEF Magnitude
  <1>. QED
    BY <1>17 DEF IsStable, c

\* Quotients of positive integers.
LEMMA Quotients ==
  ASSUME NEW x \in Nat, NEW d \in Nat \ {0}
  PROVE  /\ x \div d \in Nat
         /\ d * (x \div d) <= x
         /\ x < d * (x \div d) + d
  BY Z3

\* A cutoff is at most 49 hundredths of the sample rate, after clamping.
LEMMA ShareBounded ==
  ASSUME NEW hz \in Int, NEW fs \in Nat, fs >= 3
  PROVE  Share(hz, fs) \in 0..49
  <1> DEFINE top == (4995 * fs) \div 100
             clamped == BiquadClampCutoff(hz, fs)
  <1>1. top \in Nat /\ 100 * top <= 4995 * fs /\ top >= 100
    <2>1. 4995 * fs \in Nat
      OBVIOUS
    <2>. QED
      BY <2>1
  <1>2. clamped \in Nat /\ clamped <= top
    BY <1>1 DEF BiquadClampCutoff, ClampTo
  <1>3. clamped < 50 * fs
    BY <1>1, <1>2
  <1> HIDE DEF clamped, top
  <1>4. clamped \div fs \in Nat /\ fs * (clamped \div fs) <= clamped
    BY <1>2, Quotients
  <1>5. clamped \div fs < 50
    <2> DEFINE h == clamped \div fs
    <2>1. SUFFICES ASSUME h >= 50 PROVE FALSE
      BY <1>4
    <2>2. (h - 50) * fs \in Nat
      BY <1>4, <2>1, NatProducts
    <2>3. (h - 50) * fs = fs * h - 50 * fs
      BY <1>4
    <2>. QED
      BY <1>2, <1>3, <1>4, <2>2, <2>3
  <1>. QED
    BY <1>4, <1>5 DEF Share, clamped

\* Half a sine over a Q.
LEMMA AlphaPositive ==
  ASSUME NEW sine \in Nat \ {0}, NEW q \in Nat \ {0}
  PROVE  Alpha(sine, q) \in Nat \ {0}
  <1> DEFINE x == 5 * sine + q - 1
  <1>1. x \in Nat /\ x >= q
    OBVIOUS
  <1> HIDE DEF x
  <1>2. x \div q \in Nat /\ x < q * (x \div q) + q
    BY <1>1, Quotients
  <1>3. x \div q # 0
    BY <1>1, <1>2
  <1>. QED
    BY <1>2, <1>3 DEF Alpha, x

\* Whatever shape, cutoff, Q and gain a run gives it, a biquad's poles are inside the unit
\* circle (filters/biquad.rs, runtime_coeffs and is_stable): its state decays.
THEOREM CoefficientsStable ==
  ASSUME NEW shape \in BiquadShapes, NEW hz \in Int, NEW fs \in Nat, fs >= 3,
         NEW q \in Nat \ {0}, NEW g \in DOMAIN Amplitude
  PROVE  IsStable(Rbj(shape, Cos[Share(hz, fs)], Alpha(Sin[Share(hz, fs)], q),
                      Amplitude[g], RootOf[g]))
  <1> DEFINE h == Share(hz, fs)
  <1>1. h \in 0..49
    BY ShareBounded
  <1> HIDE DEF h
  <1>2. Cos[h] \in (1 - Unit)..(Unit - 1) /\ Sin[h] \in Nat \ {0}
    BY <1>1, TailAssumption, CoefficientAssumption
  <1>3. Alpha(Sin[h], q) \in Nat \ {0}
    BY <1>2, AlphaPositive
  <1>4. Amplitude[g] \in Nat \ {0} /\ RootOf[g] \in Nat \ {0}
    BY CoefficientAssumption
  <1>5. CASE shape \in {"Lowpass", "Highpass"}
    BY <1>2, <1>3, <1>5, PassStable DEF h
  <1>6. CASE shape = "Peaking"
    BY <1>2, <1>3, <1>4, <1>6, PeakingStable DEF h
  <1>7. CASE shape \in {"LowShelf", "HighShelf"}
    BY <1>2, <1>3, <1>4, <1>7, ShelfStable DEF h
  <1>. QED
    BY <1>5, <1>6, <1>7 DEF BiquadShapes

-----------------------------------------------------------------------------
(* The phase. *)

\* An oscillator advances by less than half a period in a frame, and one subtraction keeps its
\* phase in the period (generators/mod.rs, max_oscillator_frequency and wrap_phase).
THEOREM PhaseKept ==
  ASSUME NEW k, k.fs \in Nat \ {0}, NEW hz \in Nat, NEW ph \in 0..(Cycle - 1)
  PROVE  /\ Increment(k, hz) \in Nat
         /\ 2 * Increment(k, hz) <= Cycle
         /\ WrapPhase(ph + Increment(k, hz)) \in 0..(Cycle - 1)
  <1> DEFINE bound == Min({2000 * hz, 999 * k.fs})
             dt == Increment(k, hz)
  <1>1. bound \in {2000 * hz, 999 * k.fs} /\ bound <= 999 * k.fs
    <2>1. \E x \in {2000 * hz, 999 * k.fs} : \A y \in {2000 * hz, 999 * k.fs} : x <= y
      OBVIOUS
    <2>. QED
      BY <2>1 DEF Min
  <1> HIDE DEF bound
  <1>2. bound \in Nat
    BY <1>1
  <1>3. Cycle * bound \in Nat /\ 2000 * k.fs \in Nat \ {0}
    BY <1>2, CycleAssumption, NatProducts
  <1>4. dt \in Nat /\ (2000 * k.fs) * dt <= Cycle * bound
    BY <1>3, Quotients DEF Increment, bound
  <1>5. 2 * dt <= Cycle
    <2>1. Cycle * bound <= Cycle * (999 * k.fs)
      <3>1. Cycle * (999 * k.fs - bound) \in Nat
        BY <1>1, <1>2, CycleAssumption, NatProducts
      <3>2. Cycle * (999 * k.fs - bound) = Cycle * (999 * k.fs) - Cycle * bound
        BY <1>2, CycleAssumption
      <3>. QED
        BY <1>2, <1>3, <3>1, <3>2, CycleAssumption
    <2>2. SUFFICES ASSUME 2 * dt >= Cycle + 1 PROVE FALSE
      BY <1>4, CycleAssumption
    <2> HIDE DEF dt
    <2>3. k.fs * (2 * dt - Cycle - 1) \in Nat
      BY <1>4, <2>2, CycleAssumption, NatProducts
    <2>4. k.fs * (2 * dt - Cycle - 1) = 2 * (k.fs * dt) - k.fs * Cycle - k.fs
      BY <1>4, CycleAssumption
    <2>5. (2000 * k.fs) * dt = 2000 * (k.fs * dt) /\ Cycle * (999 * k.fs) = 999 * (k.fs * Cycle)
      BY <1>4, CycleAssumption
    <2>6. k.fs * dt \in Nat /\ k.fs * Cycle \in Nat
      BY <1>4, CycleAssumption, NatProducts
    <2> DEFINE done == k.fs * dt
               period == k.fs * Cycle
               share == Cycle * bound
    <2>7. /\ 2000 * done <= share /\ share <= 999 * period
          /\ 2 * done - period - k.fs >= 0
      BY <1>4, <2>1, <2>3, <2>4, <2>5
    <2>8. done \in Nat /\ period \in Nat /\ share \in Nat
      BY <1>3, <2>6
    <2>. HIDE DEF done, period, share
    <2>. QED
      BY <2>7, <2>8
  <1>6. WrapPhase(ph + dt) \in 0..(Cycle - 1)
    <2> HIDE DEF dt
    <2>. QED
      BY <1>4, <1>5, CycleAssumption DEF WrapPhase
  <1>. QED
    BY <1>4, <1>5, <1>6

-----------------------------------------------------------------------------
(* Refusals. *)

\* What a kernel keeps for life.
Kept == {"params", "taps", "broadcast", "offsets", "typed", "curve", "attack_ms", "release_ms",
         "use_sidechain", "waveform", "seed", "bits", "factor", "kind"}

Keeps(k, j) == DOMAIN j = DOMAIN k /\ \A f \in Kept \cap DOMAIN k : j[f] = k[f]

\* What it keeps from one prepare to the next.
Fixed == {"fs", "atk", "rel", "tail_bound", "buffer", "levels"}

Holds(k, j) == Keeps(k, j) /\ \A f \in Fixed \cap DOMAIN k : j[f] = k[f]

\* Keeping a kernel's settings twice keeps them.
LEMMA KeepsTwice ==
  ASSUME NEW k, NEW j, NEW l, Keeps(k, j), Keeps(j, l)
  PROVE  Keeps(k, l)
  BY DEF Keeps

\* So does keeping its measures.
LEMMA HoldsTwice ==
  ASSUME NEW k, NEW j, NEW l, Holds(k, j), Holds(j, l)
  PROVE  Holds(k, l)
  BY DEF Holds, Keeps

\* The moving average's methods keep its settings and measures.
LEMMA AverageKeeps ==
  ASSUME NEW k
  PROVE  /\ \A channels : Holds(k, AverageCleared(k, channels))
         /\ \A planes, slip : Holds(k, AverageRun(k, planes, slip).kernel)
         /\ \A run, slip : Holds(k, AverageRender(k, run, slip).kernel)
         /\ \A room, slip : Holds(k, AverageFlush(k, room, slip).kernel)
  <1>1. ASSUME NEW channels
        PROVE  Holds(k, AverageCleared(k, channels))
    BY DEF Holds, Fixed, Keeps, Kept, AverageCleared
  <1>2. ASSUME NEW j, NEW planes, NEW slip
        PROVE  Holds(j, AverageRun(j, planes, slip).kernel)
    <2>1. \E a, b, c : AverageRun(j, planes, slip).kernel
                         = [j EXCEPT !.rings = a, !.sums = b, !.ring_pos = c]
      BY Zenon DEF AverageRun
    <2>. QED
      BY <2>1 DEF Holds, Fixed, Keeps, Kept
  <1>3. ASSUME NEW run, NEW slip
        PROVE  Holds(k, AverageRender(k, run, slip).kernel)
    <2>1. Holds(k, [k EXCEPT !.flushed = 0])
      BY DEF Holds, Fixed, Keeps, Kept
    <2>. QED
      BY <1>2, <2>1, HoldsTwice, Zenon DEF AverageRender
  <1>4. ASSUME NEW room, NEW slip
        PROVE  Holds(k, AverageFlush(k, room, slip).kernel)
    <2>1. \E planes, a : AverageFlush(k, room, slip).kernel
                           = [AverageRun(k, planes, slip).kernel EXCEPT !.flushed = a]
      BY Zenon DEF AverageFlush
    <2>2. \A j, a : Holds(j, [j EXCEPT !.flushed = a])
      BY DEF Holds, Fixed, Keeps, Kept
    <2>. QED
      BY <1>2, <2>1, <2>2, HoldsTwice, Zenon
  <1>. QED
    BY <1>1, <1>2, <1>3, <1>4

\* So do those of the recursive filters,
LEMMA FiltersKeep ==
  ASSUME NEW k
  PROVE  /\ \A spec : Keeps(k, DcPrepared(k, spec)) /\ Keeps(k, BiquadPrepared(k, spec))
         /\ Holds(k, DcReset(k)) /\ Holds(k, BiquadReset(k))
         /\ \A run, p : /\ Holds(k, DcRender(k, run, p).kernel)
                        /\ Holds(k, BiquadRender(k, run, p).kernel)
         /\ \A room : /\ Holds(k, DcFlush(k, room).kernel)
                      /\ Holds(k, BiquadFlush(k, room).kernel)
  <1>1. \A spec : Keeps(k, DcPrepared(k, spec)) /\ Keeps(k, BiquadPrepared(k, spec))
    <2>1. ASSUME NEW spec
          PROVE  Keeps(k, DcPrepared(k, spec))
      BY DEF Holds, Fixed, Keeps, Kept, DcPrepared, DcResetFlush
    <2>2. ASSUME NEW spec
          PROVE  Keeps(k, BiquadPrepared(k, spec))
      BY DEF Holds, Fixed, Keeps, Kept, BiquadPrepared, BiquadResetFlush
    <2>. QED
      BY <2>1, <2>2
  <1>2. Holds(k, DcReset(k)) /\ Holds(k, BiquadReset(k))
    BY DEF Holds, Fixed, Keeps, Kept, DcReset, DcResetFlush, BiquadReset, BiquadResetFlush
  <1>3. ASSUME NEW run, NEW p
        PROVE  Holds(k, DcRender(k, run, p).kernel) /\ Holds(k, BiquadRender(k, run, p).kernel)
    <2>1. \E a, b : DcRender(k, run, p).kernel
                      = [k EXCEPT !.flushed = 0, !.flush_r = a, !.state = b]
      BY Zenon DEF DcRender
    <2>2. \E a, b : BiquadRender(k, run, p).kernel
                      = [k EXCEPT !.flushed = 0, !.flush_coeffs = a, !.state = b]
      BY Zenon DEF BiquadRender
    <2>. QED
      BY <2>1, <2>2 DEF Holds, Fixed, Keeps, Kept
  <1>4. ASSUME NEW room
        PROVE  Holds(k, DcFlush(k, room).kernel) /\ Holds(k, BiquadFlush(k, room).kernel)
    BY DEF Holds, Fixed, Keeps, Kept, DcFlush, BiquadFlush, FlushStates, Settle
  <1>. QED
    BY <1>1, <1>2, <1>3, <1>4

\* and those of the other kernels.
LEMMA OthersKeep ==
  ASSUME NEW k
  PROVE  /\ \A spec : /\ Keeps(k, DynamicsPrepared(k, spec)) /\ Keeps(k, OscillatorPrepared(k, spec))
                      /\ Keeps(k, NoisePrepared(k, spec)) /\ Keeps(k, DitherPrepared(k, spec))
                      /\ Keeps(k, CustomPrepared(k, spec))
         /\ Holds(k, DynamicsReset(k)) /\ Holds(k, OscillatorReset(k)) /\ Holds(k, RngsReset(k))
         /\ \A run, p : /\ Holds(k, DynamicsRender(k, run, p).kernel)
                        /\ Holds(k, OscillatorRender(k, run, p).kernel)
                        /\ Holds(k, NoiseRender(k, run, p).kernel)
                        /\ Holds(k, DitherRender(k, run).kernel)
  <1>1. \A spec : /\ Keeps(k, DynamicsPrepared(k, spec)) /\ Keeps(k, OscillatorPrepared(k, spec))
                  /\ Keeps(k, NoisePrepared(k, spec)) /\ Keeps(k, DitherPrepared(k, spec))
                  /\ Keeps(k, CustomPrepared(k, spec))
    BY DEF Holds, Fixed, Keeps, Kept, DynamicsPrepared, OscillatorPrepared, NoisePrepared, DitherPrepared,
           CustomPrepared
  <1>2. Holds(k, DynamicsReset(k)) /\ Holds(k, OscillatorReset(k)) /\ Holds(k, RngsReset(k))
    BY DEF Holds, Fixed, Keeps, Kept, DynamicsReset, OscillatorReset, RngsReset
  <1>3. ASSUME NEW run, NEW p
        PROVE  /\ Holds(k, DynamicsRender(k, run, p).kernel)
               /\ Holds(k, OscillatorRender(k, run, p).kernel)
               /\ Holds(k, NoiseRender(k, run, p).kernel)
               /\ Holds(k, DitherRender(k, run).kernel)
    <2>1. \E a : DynamicsRender(k, run, p).kernel = [k EXCEPT !.env = a]
      BY Zenon DEF DynamicsRender
    <2>2. \E a : OscillatorRender(k, run, p).kernel = [k EXCEPT !.phase = a]
      BY Zenon DEF OscillatorRender
    <2>3. \E a : NoiseRender(k, run, p).kernel = [k EXCEPT !.rngs = a]
      BY Zenon DEF NoiseRender, Drawn
    <2>4. \E a : DitherRender(k, run).kernel = [k EXCEPT !.rngs = a]
      BY Zenon DEF DitherRender, Drawn
    <2>. QED
      BY <2>1, <2>2, <2>3, <2>4 DEF Holds, Fixed, Keeps, Kept
  <1>. QED
    BY <1>1, <1>2, <1>3

\* A run leaves a kernel's settings alone,
LEMMA RenderKeeps ==
  ASSUME kind \in KernelKinds, NEW k, NEW run, NEW p, NEW slip
  PROVE  Holds(k, KernelRender(k, run, p, slip).kernel)
  <1>1. CASE kind = "average"
    BY <1>1, AverageKeeps, Zenon DEF KernelRender
  <1>2. CASE kind = "dc_blocker"
    BY <1>2, FiltersKeep, Zenon DEF KernelRender
  <1>3. CASE kind = "biquad"
    BY <1>3, FiltersKeep, Zenon DEF KernelRender
  <1>4. CASE kind \in {"dynamics", "oscillator", "noise", "dither"}
    BY <1>4, OthersKeep, Zenon DEF KernelRender
  <1>5. CASE kind \in {"gain", "scale", "dc_offset", "custom"}
    <2>1. KernelRender(k, run, p, slip).kernel = k
      BY <1>5, Zenon DEF KernelRender, GainRender, ScaleRender, OffsetRender
    <2>. QED
      BY <2>1 DEF Holds, Keeps
  <1>. QED
    BY <1>1, <1>2, <1>3, <1>4, <1>5 DEF KernelKinds

\* as does a drain,
LEMMA FlushKeeps ==
  ASSUME NEW room, NEW slip
  PROVE  Holds(kernel, KernelFlush(room, slip).kernel)
  <1>1. CASE kind = "average"
    BY <1>1, AverageKeeps, Zenon DEF KernelFlush
  <1>2. CASE kind \in {"dc_blocker", "biquad"}
    BY <1>2, FiltersKeep, Zenon DEF KernelFlush
  <1>3. CASE kind \notin {"average", "dc_blocker", "biquad"}
    <2>1. KernelFlush(room, slip).kernel = kernel
      BY <1>3, Zenon DEF KernelFlush, NoFlush
    <2>. QED
      BY <2>1 DEF Holds, Keeps
  <1>. QED
    BY <1>1, <1>2, <1>3

\* a prepare and a reset,
LEMMA PreparedKeeps ==
  ASSUME NEW spec
  PROVE  Keeps(kernel, KernelPrepared(spec)) /\ Holds(kernel, KernelReset)
  <1>1. Keeps(kernel, kernel) /\ Holds(kernel, kernel)
    BY DEF Holds, Keeps
  <1>2. Keeps(kernel, KernelPrepared(spec))
    BY <1>1, AverageKeeps, FiltersKeep, OthersKeep, Zenon DEF KernelPrepared, AveragePrepared, Holds
  <1>3. Holds(kernel, KernelReset)
    BY <1>1, AverageKeeps, FiltersKeep, OthersKeep, Zenon DEF KernelReset, AverageReset
  <1>. QED
    BY <1>2, <1>3

\* and so does every call on the processor, which keeps its kernel's type too.
LEMMA StepKeeps ==
  ASSUME kind \in KernelKinds, [Next]_vars
  PROVE  kind' = kind /\ Keeps(kernel, kernel')
  <1>1. Keeps(kernel, kernel)
    BY DEF Keeps
  <1>2. CASE UNCHANGED vars
    BY <1>1, <1>2 DEF vars
  <1>3. ASSUME NEW spec \in Specs[kind], Prepare(spec)
        PROVE  kind' = kind /\ Keeps(kernel, kernel')
    BY <1>1, <1>3, PreparedKeeps, Zenon DEF Prepare, PrepareRefused, PrepareKernel
  <1>4. CASE Reset
    BY <1>4, PreparedKeeps, Zenon DEF Reset, Holds
  <1>5. ASSUME NEW ctx, NEW cut, NEW p, NEW q, NEW slip, ProcessBlock(ctx, cut, p, q, slip)
        PROVE  kind' = kind /\ Keeps(kernel, kernel')
    <2>1. kind' = kind /\ kernel' = RenderBlock(ctx, cut, p, q, slip).kernel
      BY <1>5, Zenon DEF ProcessBlock
    <2>2. \A k, block, start, len, params :
            Keeps(k, RenderRun(k, block, start, len, params, slip).kernel)
      BY RenderKeeps, Zenon DEF RenderRun, Holds
    <2> DEFINE first == RenderRun(kernel, ctx, 0, cut, p, slip)
               rest == RenderRun(first.kernel, first.ctx, cut, ctx.frames - cut, q, slip)
    <2>3. Keeps(kernel, first.kernel) /\ Keeps(first.kernel, rest.kernel)
      BY <2>2, Zenon
    <2>4. RenderBlock(ctx, cut, p, q, slip) = IF cut = ctx.frames THEN first ELSE rest
      BY Zenon DEF RenderBlock
    <2> HIDE DEF first, rest
    <2>5. Keeps(kernel, rest.kernel)
      BY <2>3, KeepsTwice, Zenon
    <2>. QED
      BY <2>1, <2>3, <2>4, <2>5
  <1>6. ASSUME NEW room, NEW slip, Flush(room, slip)
        PROVE  kind' = kind /\ Keeps(kernel, kernel')
    BY <1>6, FlushKeeps, Zenon DEF Flush, Holds
  <1>. QED
    BY <1>2, <1>3, <1>4, <1>5, <1>6, Zenon DEF Next, Process, Drain

\* A sequence is as long as its domain says.
LEMMA Length ==
  ASSUME NEW n \in Nat, NEW s, DOMAIN s = 1..n
  PROVE  Len(s) = n
  OBVIOUS

\* An array adds its bytes to a layout.
LEMMA ArrayExact ==
  ASSUME NEW layout, NEW n \in Nat, Stands(layout, n), NEW elements \in Nat, NEW size \in Nat
  PROVE  Stands(Array(layout, elements, size), n + elements * size)
  <1>1. Array(layout, elements, size) = RepeatedArray(layout, 1, elements, size)
    BY DEF Array, RepeatedArray
  <1>2. (elements * size) * 1 = elements * size
    OBVIOUS
  <1>. QED
    BY <1>1, <1>2, ArraysExact

\* The kernel is one that a host may have, and has the fields and settings it was constructed with.
Steady == \E k \in Kernels : kind = k.kind /\ Keeps(k.kernel, kernel)

\* The kernel stays the one the host constructed.
LEMMA SteadyKept == Spec => []Steady
  <1>1. Init => Steady
    BY Zenon DEF Init, Steady, Keeps
  <1>2. Steady /\ [Next]_vars => Steady'
    <2> SUFFICES ASSUME Steady, [Next]_vars PROVE Steady'
      OBVIOUS
    <2>1. PICK k \in Kernels : kind = k.kind /\ Keeps(k.kernel, kernel)
      BY DEF Steady
    <2>2. kind' = kind /\ Keeps(kernel, kernel')
      BY <2>1, HostAssumption, StepKeeps
    <2>3. Keeps(k.kernel, kernel')
      BY <2>1, <2>2, KeepsTwice
    <2>. QED
      BY <2>1, <2>2, <2>3 DEF Steady
  <1>. QED
    BY <1>1, <1>2, PTL DEF Spec

\* What of a constructed kernel the methods rely on, for life.
Formed(kind_, k) ==
  /\ kind_ = "average" => /\ DOMAIN k = {"taps", "rings", "sums", "ring_pos", "flushed"}
                          /\ k.taps \in Nat
  /\ kind_ = "dc_blocker" =>
       DOMAIN k = {"params", "fs", "state", "flush_r", "tail_bound", "flushed"}
  /\ kind_ = "biquad" =>
       /\ DOMAIN k = {"kind", "params", "fs", "state", "flush_coeffs", "tail_bound", "flushed"}
       /\ k.params[1].lo = 10 /\ k.params[1].hi = HighestCutoff
  /\ kind_ = "dynamics" =>
       /\ DOMAIN k = {"curve", "params", "attack_ms", "release_ms", "use_sidechain", "fs", "atk",
                      "rel", "env"}
       /\ {k.attack_ms, k.release_ms} \subseteq Int \cup {NotFinite}
       /\ k.use_sidechain \in BOOLEAN
  /\ kind_ = "oscillator" => /\ DOMAIN k = {"waveform", "params", "fs", "phase"}
                             /\ k.params[1].lo = 1 /\ k.params[1].hi = HighestTone
                             /\ 1 \in DOMAIN k.params
  /\ kind_ = "noise" => DOMAIN k = {"params", "seed", "rngs"}
  /\ kind_ = "dither" => DOMAIN k = {"bits", "seed", "rngs", "levels"} /\ k.bits \in Nat
  /\ kind_ = "gain" => DOMAIN k = {"params"}
  /\ kind_ = "scale" => DOMAIN k = {"factor"}
  /\ kind_ = "dc_offset" => /\ DOMAIN k = {"broadcast", "offsets"}
                            /\ k.broadcast \in BOOLEAN /\ Len(k.offsets) \in Nat
                            /\ k.broadcast => Len(k.offsets) = 1
  /\ kind_ = "custom" => DOMAIN k = {"typed", "params", "buffer"}
  /\ "params" \in DOMAIN k => Len(k.params) \in Nat

\* Constructors make such kernels,
LEMMA ConstructedFormed ==
  ASSUME NEW kind_ \in KernelKinds, NEW k, Constructed(kind_, k)
  PROVE  Formed(kind_, k)
  <1>1. CASE kind_ = "average"
    <2>1. k.taps \in Nat /\ k = AverageNew(k.taps)
      BY <1>1, Zenon DEF Constructed
    <2>. QED
      BY <1>1, <2>1 DEF Formed, AverageNew
  <1>2. CASE kind_ = "dc_blocker"
    <2>1. PICK s : k = DcNew(s)
      BY <1>2, Zenon DEF Constructed
    <2>. QED
      BY <1>2, <2>1 DEF Formed, DcNew, DcParams
  <1>3. CASE kind_ = "biquad"
    <2>1. PICK s : k = BiquadNew(s)
      BY <1>3, Zenon DEF Constructed
    <2>. QED
      BY <1>3, <2>1 DEF Formed, BiquadNew, BiquadParams, NewParam
  <1>4. CASE kind_ = "dynamics"
    <2>1. /\ k.curve \in {"compressor", "gate", "expander"} /\ k.use_sidechain \in BOOLEAN
          /\ {k.attack_ms, k.release_ms} \subseteq Int \cup {NotFinite}
          /\ k = DynamicsNew(DynamicsSettings(k))
      BY <1>4, Zenon DEF Constructed
    <2> DEFINE s == DynamicsSettings(k)
    <2>2. s.curve = k.curve
      BY DEF DynamicsSettings
    <2> HIDE DEF s
    <2>3. k.params = DynamicsParams(s)
      BY <2>1 DEF DynamicsNew, s
    <2>4. Len(k.params) \in Nat
      <3>1. k.params \in {CompressorParams(s), GateParams(s), ExpanderParams(s)}
        BY <2>1, <2>2, <2>3, Zenon DEF DynamicsParams
      <3>. QED
        BY <3>1 DEF CompressorParams, GateParams, ExpanderParams
    <2>5. DOMAIN k = {"curve", "params", "attack_ms", "release_ms", "use_sidechain", "fs", "atk",
                      "rel", "env"}
      BY <2>1 DEF DynamicsNew
    <2>. QED
      BY <1>4, <2>1, <2>4, <2>5 DEF Formed
  <1>5. CASE kind_ = "oscillator"
    <2>1. PICK s : k = OscillatorNew(s)
      BY <1>5, Zenon DEF Constructed
    <2>. QED
      BY <1>5, <2>1 DEF Formed, OscillatorNew, OscillatorParams, NewParam
  <1>6. CASE kind_ = "noise"
    <2>1. PICK s : k = NoiseNew(s)
      BY <1>6, Zenon DEF Constructed
    <2>. QED
      BY <1>6, <2>1 DEF Formed, NoiseNew, NoiseParams
  <1>7. CASE kind_ = "dither"
    <2>1. k.bits \in Nat /\ \E s : k = DitherNew(s)
      BY <1>7, Zenon DEF Constructed
    <2>. QED
      BY <1>7, <2>1 DEF Formed, DitherNew
  <1>8. CASE kind_ = "gain"
    <2>1. PICK s : k = GainNew(s)
      BY <1>8, Zenon DEF Constructed
    <2>. QED
      BY <1>8, <2>1 DEF Formed, GainNew, GainParams
  <1>9. CASE kind_ = "scale"
    <2>1. k = ScaleNew(k.factor)
      BY <1>9, Zenon DEF Constructed
    <2>. QED
      BY <1>9, <2>1 DEF Formed, ScaleNew
  <1>10. CASE kind_ = "dc_offset"
    <2> DEFINE Offsets == /\ DOMAIN k = {"broadcast", "offsets"}
                          /\ k.broadcast \in BOOLEAN /\ Len(k.offsets) \in Nat
                          /\ k.broadcast => Len(k.offsets) = 1
    <2>0. Offsets /\ ("params" \notin DOMAIN k) => Formed(kind_, k)
      BY <1>10, SMT DEF Formed
    <2> HIDE DEF Offsets
    <2>1. \/ \E x : k = Broadcast(x)
          \/ Len(k.offsets) \in Nat /\ \E xs : k = PerChannel(xs)
      BY <1>10, Zenon DEF Constructed
    <2>2. CASE \E x : k = Broadcast(x)
      <3>1. PICK x : k = Broadcast(x)
        BY <2>2
      <3>2. DOMAIN k = {"broadcast", "offsets"} /\ k.broadcast \in BOOLEAN /\ k.offsets = <<x>>
        BY <3>1 DEF Broadcast
      <3>3. Len(k.offsets) = 1 /\ 1 \in Nat
        BY <3>2
      <3>4. "params" \notin DOMAIN k
        BY <3>2
      <3>. QED
        BY <2>0, <3>2, <3>3, <3>4, Zenon DEF Offsets
    <2>3. CASE Len(k.offsets) \in Nat /\ \E xs : k = PerChannel(xs)
      <3>1. PICK xs : k = PerChannel(xs)
        BY <2>3
      <3>2. DOMAIN k = {"broadcast", "offsets"} /\ k.broadcast \in BOOLEAN /\ ~ k.broadcast
        BY <3>1 DEF PerChannel
      <3>3. "params" \notin DOMAIN k
        BY <3>2
      <3>. QED
        BY <2>0, <2>3, <3>2, <3>3, Zenon DEF Offsets
    <2>. QED
      BY <2>1, <2>2, <2>3
  <1>11. CASE kind_ = "custom"
    <2>1. Len(k.params) \in Nat /\ k = CustomNew(k.typed, k.params)
      BY <1>11, Zenon DEF Constructed
    <2>. QED
      BY <1>11, <2>1 DEF Formed, CustomNew
  <1>. QED
    BY <1>1, <1>2, <1>3, <1>4, <1>5, <1>6, <1>7, <1>8, <1>9, <1>10, <1>11 DEF KernelKinds

\* which they stay while their settings are kept.
LEMMA KeepsFormed ==
  ASSUME NEW kind_, NEW k, NEW j, Formed(kind_, k), Keeps(k, j)
  PROVE  Formed(kind_, j)
  <1>1. DOMAIN j = DOMAIN k
    BY DEF Keeps
  <1>2. \A f \in {"params", "taps", "broadcast", "offsets", "attack_ms", "release_ms",
                  "use_sidechain", "bits"} : f \in DOMAIN k => j[f] = k[f]
    BY DEF Keeps, Kept
  <1>3. /\ "params" \in DOMAIN k => j.params = k.params
        /\ "taps" \in DOMAIN k => j.taps = k.taps
        /\ "broadcast" \in DOMAIN k => j.broadcast = k.broadcast
        /\ "offsets" \in DOMAIN k => j.offsets = k.offsets
        /\ "attack_ms" \in DOMAIN k => j.attack_ms = k.attack_ms
        /\ "release_ms" \in DOMAIN k => j.release_ms = k.release_ms
        /\ "use_sidechain" \in DOMAIN k => j.use_sidechain = k.use_sidechain
        /\ "bits" \in DOMAIN k => j.bits = k.bits
    BY <1>2
  <1>. QED
    BY <1>1, <1>3 DEF Formed

\* What a host may ask for.
Askable(spec) ==
  /\ spec.sample_rate \in Nat /\ spec.channels \in Nat /\ spec.max_block \in Nat
  /\ spec.max_memory \in 0..NoCap

\* So the kernel of a processor is one of those, asked for what a host may ask for.
LEMMA SteadyFormed ==
  ASSUME Steady
  PROVE  /\ kind \in KernelKinds /\ Formed(kind, kernel)
         /\ \A spec \in Specs[kind] : Askable(spec)
         /\ Samples[kind] \subseteq Int \cup {NotFinite}
  <1>1. PICK k \in Kernels : kind = k.kind /\ Keeps(k.kernel, kernel)
    BY DEF Steady
  <1>2. /\ kind \in KernelKinds /\ Constructed(kind, k.kernel)
        /\ Samples[kind] \subseteq Int \cup {NotFinite}
    BY <1>1, HostAssumption, Zenon
  <1>3. \A spec \in Specs[kind] : Askable(spec)
    BY <1>1, HostAssumption DEF Askable
  <1>4. Formed(kind, kernel)
    BY <1>1, <1>2, ConstructedFormed, KeepsFormed
  <1>. QED
    BY <1>2, <1>3, <1>4

\* Whatever a kernel holds once it is prepared it asked for before, from what its budget was.
LEMMA FootprintAsked ==
  ASSUME kind \in KernelKinds \ {"custom"}, Formed(kind, kernel),
         NEW spec, spec.channels \in Nat, NEW cap \in 0..NoCap,
         KernelAnswer(spec, cap) = "Ok"
  PROVE  Footprint(KernelPrepared(spec)) \in 0..cap
  <1> DEFINE ch == spec.channels
  <1>1. Stands(NewLayout, 0)
    BY LayoutAssumption DEF Stands, NewLayout, Checked
  <1>2. ASSUME NEW layout, NEW n \in Nat, Stands(layout, n), Preflight(layout, cap) = "Ok"
        PROVE  n \in 0..cap
    BY <1>2, PreflightExact, LayoutAssumption DEF NoCap
  <1>3. CASE kind = "average"
    <2> DEFINE k == AveragePrepared(kernel, spec)
               taps == kernel.taps
               rings == RepeatedArray(NewLayout, ch, taps, 1)
               sums == Array(rings, ch, 1)
    <2>1. taps \in Nat /\ {"taps", "rings", "sums"} \subseteq DOMAIN kernel
      BY <1>3 DEF Formed
    <2>2. taps * ch \in Nat
      BY <2>1, NatProducts
    <2>3. Stands(rings, taps * ch)
      <3>1. Stands(rings, 0 + (taps * 1) * ch)
        BY <1>1, <2>1, ArraysExact
      <3>. QED
        BY <3>1, <2>1, <2>2
    <2>4. Stands(sums, taps * ch + ch)
      <3>1. Stands(sums, taps * ch + ch * 1)
        BY <2>2, <2>3, ArrayExact
      <3>. QED
        BY <3>1
    <2>5. Stands(Array(sums, ch, 1), taps * ch + ch + ch)
      <3>1. Stands(Array(sums, ch, 1), (taps * ch + ch) + ch * 1)
        BY <2>2, <2>4, ArrayExact
      <3>. QED
        BY <3>1
    <2>6. Preflight(Array(sums, ch, 1), cap) = "Ok"
      BY <1>3, Zenon DEF KernelAnswer, AverageAnswer
    <2>7. taps * ch + ch + ch \in 0..cap
      BY <1>2, <2>2, <2>5, <2>6
    <2>8. DOMAIN k.sums = 1..ch /\ DOMAIN k.rings = 1..ch
      BY <2>1 DEF AveragePrepared, AverageCleared
    <2>9. Len(k.sums) = ch /\ Len(k.rings) = ch
      BY <2>8, Length
    <2>10. AverageFootprint(k) = 2 * ch + taps * ch
      <3>1. CASE ch = 0
        <4>1. k.rings = <<>>
          BY <2>1, <3>1 DEF AveragePrepared, AverageCleared
        <4>2. taps * ch = 0
          BY <2>1, <3>1
        <4>. QED
          BY <2>9, <3>1, <4>1, <4>2 DEF AverageFootprint
      <3>2. CASE ch > 0
        <4>1. k.rings[1] = [i \in 0..(taps - 1) |-> 0]
          BY <2>1, <3>2 DEF AveragePrepared, AverageCleared
        <4>2. Head(k.rings) = k.rings[1] /\ k.rings # <<>>
          BY <2>8, <3>2
        <4>3. Cardinality(DOMAIN Head(k.rings)) = taps
          <5>1. DOMAIN Head(k.rings) = 0..(taps - 1)
            BY <4>1, <4>2
          <5>2. Cardinality(0..(taps - 1)) = taps
            BY <2>1, FS_Interval
          <5>. QED
            BY <5>1, <5>2
        <4>4. ch * taps = taps * ch
          BY <2>1
        <4>. QED
          BY <2>9, <4>2, <4>3, <4>4 DEF AverageFootprint
      <3>. QED
        BY <3>1, <3>2
    <2>11. Footprint(KernelPrepared(spec)) = AverageFootprint(k)
      BY <1>3, Zenon DEF Footprint, KernelPrepared
    <2>. QED
      BY <2>2, <2>7, <2>10, <2>11
  <1>4. CASE kind = "dc_blocker"
    <2>1. Stands(Array(NewLayout, ch, 2), 0 + ch * 2)
      BY <1>1, ArrayExact
    <2>2. Preflight(Array(NewLayout, ch, 2), cap) = "Ok"
      BY <1>4, Zenon DEF KernelAnswer, DcAnswer
    <2>3. ch * 2 \in 0..cap
      BY <1>2, <2>1, <2>2
    <2>4. DOMAIN DcPrepared(kernel, spec).state = 1..ch
      BY <1>4 DEF DcPrepared, DcResetFlush, DcRest, Formed
    <2>5. Len(DcPrepared(kernel, spec).state) = ch
      BY <2>4, Length
    <2>6. Footprint(KernelPrepared(spec)) = DcFootprint(DcPrepared(kernel, spec))
      BY <1>4, Zenon DEF Footprint, KernelPrepared
    <2>. QED
      BY <2>3, <2>5, <2>6 DEF DcFootprint
  <1>5. CASE kind = "biquad"
    <2>1. Stands(Array(NewLayout, ch, 4), 0 + ch * 4)
      BY <1>1, ArrayExact
    <2>2. Preflight(Array(NewLayout, ch, 4), cap) = "Ok"
      BY <1>5, Zenon DEF KernelAnswer, BiquadAnswer
    <2>3. ch * 4 \in 0..cap
      BY <1>2, <2>1, <2>2
    <2>4. DOMAIN BiquadPrepared(kernel, spec).state = 1..ch
      BY <1>5 DEF BiquadPrepared, BiquadResetFlush, BiquadRest, Formed
    <2>5. Len(BiquadPrepared(kernel, spec).state) = ch
      BY <2>4, Length
    <2>6. Footprint(KernelPrepared(spec)) = BiquadFootprint(BiquadPrepared(kernel, spec))
      BY <1>5, Zenon DEF Footprint, KernelPrepared
    <2>. QED
      BY <2>3, <2>5, <2>6 DEF BiquadFootprint
  <1>6. CASE kind \in {"noise", "dither"}
    <2>1. Stands(Array(NewLayout, ch, 1), 0 + ch * 1)
      BY <1>1, ArrayExact
    <2>2. Preflight(Array(NewLayout, ch, 1), cap) = "Ok"
      BY <1>6, Zenon DEF KernelAnswer, NoiseAnswer, DitherAnswer
    <2>3. ch \in 0..cap
      BY <1>2, <2>1, <2>2
    <2>4. DOMAIN KernelPrepared(spec).rngs = 1..ch
      BY <1>6 DEF KernelPrepared, NoisePrepared, DitherPrepared, RngsNew, Formed
    <2>5. Len(KernelPrepared(spec).rngs) = ch
      BY <2>4, Length
    <2>6. Footprint(KernelPrepared(spec)) = Len(KernelPrepared(spec).rngs)
      BY <1>6, Zenon DEF Footprint, RngFootprint
    <2>. QED
      BY <2>3, <2>5, <2>6
  <1>7. CASE kind = "dc_offset"
    <2>1. kernel.broadcast \in BOOLEAN /\ Len(kernel.offsets) \in Nat
      BY <1>7 DEF Formed
    <2>2. Footprint(KernelPrepared(spec)) = IF kernel.broadcast THEN 0 ELSE Len(kernel.offsets)
      BY <1>7, Zenon DEF Footprint, KernelPrepared, OffsetFootprint
    <2>3. CASE kernel.broadcast
      BY <2>2, <2>3, LayoutAssumption DEF NoCap
    <2>4. CASE ~ kernel.broadcast
      <3>1. Stands(Array(NewLayout, Len(kernel.offsets), 1), 0 + Len(kernel.offsets) * 1)
        BY <1>1, <2>1, ArrayExact
      <3>2. Preflight(Array(NewLayout, Len(kernel.offsets), 1), cap) = "Ok"
        BY <1>7, <2>4, Zenon DEF KernelAnswer, OffsetAnswer
      <3>3. Len(kernel.offsets) \in 0..cap
        BY <1>2, <2>1, <3>1, <3>2
      <3>. QED
        BY <2>2, <2>4, <3>3
    <2>. QED
      BY <2>1, <2>3, <2>4
  <1>8. CASE kind \in {"dynamics", "oscillator", "gain", "scale"}
    <2>1. Footprint(KernelPrepared(spec)) = 0
      BY <1>8, Zenon DEF Footprint
    <2>. QED
      BY <2>1, LayoutAssumption DEF NoCap
  <1>. QED
    BY <1>3, <1>4, <1>5, <1>6, <1>7, <1>8 DEF KernelKinds

-----------------------------------------------------------------------------
(* Budgets. *)

\* Without a cap nothing is over it.
LEMMA UncappedNeverOver ==
  ASSUME NEW layout, NEW n \in Nat, Stands(layout, n)
  PROVE  Preflight(layout, NoCap) # "OverBudget"
  BY LayoutAssumption DEF Preflight, Stands, Checked, Uncounted, NoCap

\* An array in a layout is addressable just if it is one by itself.
LEMMA Addressable ==
  ASSUME NEW layout, NEW arrays \in Nat, NEW elements \in Nat, NEW size \in Nat
  PROVE  RepeatedArray(layout, arrays, elements, size).components_addressable <=>
           layout.components_addressable /\ (arrays = 0 \/ elements * size <= MaxIsize)
  <1> DEFINE counted == IF arrays = 0 THEN 0 ELSE Times(elements, size)
  <1>1. RepeatedArray(layout, arrays, elements, size) = RepeatedBytes(layout, arrays, counted)
    BY Zenon DEF RepeatedArray
  <1>2. counted \in 0..MaxIsize <=> (arrays = 0 \/ elements * size <= MaxIsize)
    <2>1. elements * size \in Nat
      BY NatProducts
    <2>. QED
      BY <2>1, LayoutAssumption DEF Times, Checked, Uncounted
  <1> HIDE DEF counted
  <1>3. RepeatedBytes(layout, arrays, counted).components_addressable <=>
          layout.components_addressable /\ counted \in 0..MaxIsize
    BY Zenon DEF RepeatedBytes
  <1>. QED
    BY <1>1, <1>2, <1>3, Zenon

\* An array by itself.
LEMMA OneArray ==
  ASSUME NEW elements \in Nat, NEW size \in Nat, NEW n, n = elements * size,
         NEW cap \in 0..NoCap,
         NEW verdict, verdict = Preflight(Array(NewLayout, elements, size), cap)
  PROVE  /\ n \in Nat
         /\ verdict = "Ok" <=> n <= cap /\ n <= MaxUsize /\ n \in 0..MaxIsize
         /\ verdict = "OverBudget" => cap # NoCap /\ n > cap
  <1> DEFINE layout == Array(NewLayout, elements, size)
  <1>1. n \in Nat
    BY NatProducts
  <1>2. Stands(NewLayout, 0) /\ NewLayout.components_addressable
    BY LayoutAssumption DEF Stands, NewLayout, Checked
  <1>3. Stands(layout, n)
    BY <1>1, <1>2, ArrayExact
  <1>4. layout.components_addressable <=> n \in 0..MaxIsize
    <2>1. layout = RepeatedArray(NewLayout, 1, elements, size)
      BY DEF Array, RepeatedArray
    <2> HIDE DEF layout
    <2>2. layout.components_addressable <=>
            NewLayout.components_addressable /\ (1 = 0 \/ elements * size <= MaxIsize)
      BY <2>1, Addressable, 1 \in Nat, Zenon
    <2>. QED
      BY <1>1, <1>2, <2>2, LayoutAssumption
  <1> HIDE DEF layout
  <1>. QED
    BY <1>1, <1>3, <1>4, PreflightExact, UncappedNeverOver DEF layout

\* An array of single bytes by itself.
LEMMA ByteArray ==
  ASSUME NEW n \in Nat, NEW cap \in 0..NoCap,
         NEW verdict, verdict = Preflight(Array(NewLayout, n, 1), cap)
  PROVE  /\ verdict = "Ok" <=> n <= cap /\ n <= MaxUsize /\ n \in 0..MaxIsize
         /\ verdict = "OverBudget" => cap # NoCap /\ n > cap
  <1> DEFINE one == 1
  <1>1. one \in Nat /\ n = n * one /\ verdict = Preflight(Array(NewLayout, n, one), cap)
    OBVIOUS
  <1> HIDE DEF one
  <1>. QED
    BY <1>1, OneArray

\* A spec that kernels of this kind and settings can run, but for memory.
Runs(spec) ==
  /\ kind \in {"dc_blocker", "dynamics", "oscillator"} => spec.sample_rate >= 1
  /\ kind = "biquad" => spec.sample_rate >= 3
  /\ kind = "average" => kernel.taps >= 1
  /\ kind = "dither" => kernel.bits \in 2..24
  /\ kind = "dynamics" => {kernel.attack_ms, kernel.release_ms} \subseteq Nat
  /\ kind = "scale" => Finite(kernel.factor)
  /\ kind = "dc_offset" => /\ AllFinite(kernel.offsets)
                           /\ Len(kernel.offsets) = IF kernel.broadcast THEN 1 ELSE spec.channels

\* What the kernel answers to a budget, by what it needs.
AnswersExactly(spec, cap) ==
  LET bytes == KernelBytes(spec.channels)
      verdict == KernelAnswer(spec, cap)
  IN  /\ bytes \in Nat
      /\ verdict = "Ok" <=> /\ Runs(spec) /\ bytes <= cap /\ bytes <= MaxUsize
                            /\ Buffers(spec.channels) \subseteq 0..MaxIsize
      /\ verdict = "OverBudget" => cap # NoCap /\ bytes > cap

\* The moving average, whose rings are one array for each channel.
LEMMA AverageAnswers ==
  ASSUME kind = "average", Formed(kind, kernel), NEW spec, Askable(spec), NEW cap \in 0..NoCap
  PROVE  AnswersExactly(spec, cap)
  <1> DEFINE ch == spec.channels
             taps == kernel.taps
             bytes == (taps + 2) * ch
             rings == RepeatedArray(NewLayout, ch, taps, 1)
             sums == Array(rings, ch, 1)
             all == Array(sums, ch, 1)
  <1>1. taps \in Nat /\ ch \in Nat
    BY SMT DEF Formed, Askable
  <1>2. taps * ch \in Nat /\ bytes = taps * ch + ch + ch /\ bytes \in Nat
    BY <1>1, NatProducts
  <1>3. Stands(NewLayout, 0) /\ NewLayout.components_addressable
    BY LayoutAssumption DEF Stands, NewLayout, Checked
  <1>4. /\ Stands(rings, taps * ch)
        /\ rings.components_addressable <=> ch = 0 \/ taps <= MaxIsize
    <2>1. Stands(rings, 0 + (taps * 1) * ch)
      BY <1>1, <1>3, ArraysExact
    <2>2. rings.components_addressable <=>
            NewLayout.components_addressable /\ (ch = 0 \/ taps * 1 <= MaxIsize)
      <3> DEFINE one == 1
      <3>1. ch \in Nat /\ taps \in Nat /\ one \in Nat
        BY <1>1
      <3>2. rings = RepeatedArray(NewLayout, ch, taps, one)
        OBVIOUS
      <3> HIDE DEF rings, ch, taps, one
      <3>3. RepeatedArray(NewLayout, ch, taps, one).components_addressable <=>
              NewLayout.components_addressable /\ (ch = 0 \/ taps * one <= MaxIsize)
        BY <3>1, Addressable
      <3>. QED
        BY <3>2, <3>3 DEF one
    <2>3. 0 + (taps * 1) * ch = taps * ch /\ taps * 1 = taps
      BY <1>1, <1>2
    <2>. QED
      BY <1>3, <2>1, <2>2, <2>3
  <1> HIDE DEF rings, ch, taps, bytes
  <1>5. ASSUME NEW layout, NEW n \in Nat, Stands(layout, n)
        PROVE  /\ Stands(Array(layout, ch, 1), n + ch)
               /\ Array(layout, ch, 1).components_addressable <=>
                    layout.components_addressable /\ ch <= MaxIsize
    <2>1. Array(layout, ch, 1) = RepeatedArray(layout, 1, ch, 1)
      BY DEF Array, RepeatedArray
    <2>2. Stands(Array(layout, ch, 1), n + ch * 1)
      BY <1>1, <1>5, ArrayExact
    <2>3. RepeatedArray(layout, 1, ch, 1).components_addressable <=>
            layout.components_addressable /\ (1 = 0 \/ ch * 1 <= MaxIsize)
      <3> DEFINE one == 1
      <3>1. ch \in Nat /\ one \in Nat
        BY <1>1
      <3> HIDE DEF one
      <3>2. RepeatedArray(layout, one, ch, one).components_addressable <=>
              layout.components_addressable /\ (one = 0 \/ ch * one <= MaxIsize)
        BY <3>1, Addressable
      <3>. QED
        BY <3>2 DEF one
    <2>4. ch * 1 = ch
      BY <1>1
    <2>. QED
      BY <2>1, <2>2, <2>3, <2>4
  <1>6. /\ Stands(sums, taps * ch + ch)
        /\ sums.components_addressable <=> rings.components_addressable /\ ch <= MaxIsize
    BY <1>2, <1>4, <1>5
  <1> HIDE DEF sums
  <1>7. /\ Stands(all, bytes)
        /\ all.components_addressable <=> sums.components_addressable /\ ch <= MaxIsize
    <2>1. taps * ch + ch \in Nat
      BY <1>1, <1>2
    <2>. QED
      BY <1>2, <1>5, <1>6, <2>1
  <1> HIDE DEF all
  <1>8. KernelAnswer(spec, cap) = IF taps = 0 THEN "InvalidParam" ELSE Preflight(all, cap)
    BY Zenon DEF KernelAnswer, AverageAnswer, all, sums, rings, ch, taps
  <1>9. KernelBytes(ch) = bytes
    BY Zenon DEF KernelBytes, bytes, taps
  <1>10. Buffers(ch) = IF ch = 0 THEN {} ELSE {taps, ch}
    BY Zenon DEF Buffers, taps
  <1>11. Buffers(ch) \subseteq 0..MaxIsize <=> all.components_addressable
    BY <1>1, <1>4, <1>6, <1>7, <1>10, LayoutAssumption
  <1>12. Runs(spec) <=> taps >= 1
    BY DEF Runs, taps
  <1>13. /\ Preflight(all, cap) = "Ok" <=>
              bytes <= cap /\ bytes <= MaxUsize /\ all.components_addressable
         /\ Preflight(all, cap) = "OverBudget" => cap # NoCap /\ bytes > cap
    BY <1>2, <1>7, PreflightExact, UncappedNeverOver
  <1>14. taps = 0 <=> ~ (taps >= 1)
    BY <1>1
  <1>. QED
    BY <1>2, <1>8, <1>9, <1>11, <1>12, <1>13, <1>14 DEF AnswersExactly, ch

\* The other kernels, which have one array or none.
LEMMA OthersAnswer ==
  ASSUME kind \in KernelKinds \ {"average", "custom"}, Formed(kind, kernel),
         NEW spec, Askable(spec), NEW cap \in 0..NoCap
  PROVE  AnswersExactly(spec, cap)
  <1> DEFINE ch == spec.channels
             bytes == KernelBytes(ch)
             verdict == KernelAnswer(spec, cap)
  <1>1. ch \in Nat /\ spec.sample_rate \in Nat
    BY Zenon DEF Askable
  <1>2. Buffers(ch) = {bytes}
    BY Zenon DEF Buffers
  <1>3. SUFFICES /\ bytes \in Nat
                 /\ verdict = "Ok" <=> /\ Runs(spec) /\ bytes <= cap /\ bytes <= MaxUsize
                                       /\ bytes \in 0..MaxIsize
                 /\ verdict = "OverBudget" => cap # NoCap /\ bytes > cap
    BY <1>2 DEF AnswersExactly
  <1>4. /\ 0 \in Nat /\ 0 <= cap /\ 0 <= MaxUsize /\ 0 \in 0..MaxIsize
        /\ "OverBudget" # "Ok" /\ "InvalidParam" # "Ok" /\ "UnsupportedSpec" # "Ok"
        /\ "InvalidParam" # "OverBudget" /\ "UnsupportedSpec" # "OverBudget"
    BY LayoutAssumption DEF NoCap
  <1>5. CASE kind = "dc_blocker"
    <2>1. bytes = ch * 2
      BY <1>1, <1>5 DEF KernelBytes
    <2>2. verdict = IF spec.sample_rate = 0 THEN "UnsupportedSpec"
                    ELSE Preflight(Array(NewLayout, ch, 2), cap)
      BY <1>5, Zenon DEF KernelAnswer, DcAnswer
    <2>3. Runs(spec) <=> spec.sample_rate # 0
      BY <1>1, <1>5 DEF Runs
    <2> HIDE DEF verdict, bytes, ch
    <2> DEFINE v == Preflight(Array(NewLayout, ch, 2), cap)
    <2>4. /\ bytes \in Nat
          /\ v = "Ok" <=> bytes <= cap /\ bytes <= MaxUsize /\ bytes \in 0..MaxIsize
          /\ v = "OverBudget" => cap # NoCap /\ bytes > cap
      <3> DEFINE wide == 2
      <3>1. wide \in Nat /\ bytes = ch * wide
        BY <2>1
      <3> HIDE DEF wide
      <3>2. ASSUME NEW w, w = Preflight(Array(NewLayout, ch, wide), cap)
            PROVE  /\ bytes \in Nat
                   /\ w = "Ok" <=> bytes <= cap /\ bytes <= MaxUsize /\ bytes \in 0..MaxIsize
                   /\ w = "OverBudget" => cap # NoCap /\ bytes > cap
        <4>1. ch \in Nat /\ wide \in Nat /\ bytes = ch * wide /\ cap \in 0..NoCap
          BY <1>1, <3>1
        <4>2. /\ bytes \in Nat
              /\ w = "Ok" => bytes <= cap /\ bytes <= MaxUsize /\ bytes \in 0..MaxIsize
              /\ w = "OverBudget" => cap # NoCap /\ bytes > cap
          BY <4>1, <3>2, OneArray, Zenon
        <4>3. bytes <= cap /\ bytes <= MaxUsize /\ bytes \in 0..MaxIsize => w = "Ok"
          BY <4>1, <3>2, OneArray, SMT
        <4>. QED
          BY <4>2, <4>3
      <3>. QED
        BY <3>2, Zenon DEF wide
    <2> HIDE DEF v
    <2>5. verdict = IF spec.sample_rate = 0 THEN "UnsupportedSpec" ELSE v
      BY <2>2, Zenon DEF v
    <2>. QED
      BY <1>4, <2>3, <2>4, <2>5, Zenon
  <1>6. CASE kind = "biquad"
    <2>1. bytes = ch * 4
      BY <1>1, <1>6 DEF KernelBytes
    <2>2. verdict = IF spec.sample_rate < 3 THEN "UnsupportedSpec"
                    ELSE Preflight(Array(NewLayout, ch, 4), cap)
      BY <1>6, Zenon DEF KernelAnswer, BiquadAnswer
    <2>3. Runs(spec) <=> ~ (spec.sample_rate < 3)
      BY <1>1, <1>6 DEF Runs
    <2> HIDE DEF verdict, bytes, ch
    <2> DEFINE v == Preflight(Array(NewLayout, ch, 4), cap)
    <2>4. /\ bytes \in Nat
          /\ v = "Ok" <=> bytes <= cap /\ bytes <= MaxUsize /\ bytes \in 0..MaxIsize
          /\ v = "OverBudget" => cap # NoCap /\ bytes > cap
      <3> DEFINE wide == 4
      <3>1. wide \in Nat /\ bytes = ch * wide
        BY <2>1
      <3> HIDE DEF wide
      <3>2. ASSUME NEW w, w = Preflight(Array(NewLayout, ch, wide), cap)
            PROVE  /\ bytes \in Nat
                   /\ w = "Ok" <=> bytes <= cap /\ bytes <= MaxUsize /\ bytes \in 0..MaxIsize
                   /\ w = "OverBudget" => cap # NoCap /\ bytes > cap
        <4>1. ch \in Nat /\ wide \in Nat /\ bytes = ch * wide /\ cap \in 0..NoCap
          BY <1>1, <3>1
        <4>2. /\ bytes \in Nat
              /\ w = "Ok" => bytes <= cap /\ bytes <= MaxUsize /\ bytes \in 0..MaxIsize
              /\ w = "OverBudget" => cap # NoCap /\ bytes > cap
          BY <4>1, <3>2, OneArray, Zenon
        <4>3. bytes <= cap /\ bytes <= MaxUsize /\ bytes \in 0..MaxIsize => w = "Ok"
          BY <4>1, <3>2, OneArray, SMT
        <4>. QED
          BY <4>2, <4>3
      <3>. QED
        BY <3>2, Zenon DEF wide
    <2> HIDE DEF v
    <2>5. verdict = IF spec.sample_rate < 3 THEN "UnsupportedSpec" ELSE v
      BY <2>2, Zenon DEF v
    <2>. QED
      BY <1>4, <2>3, <2>4, <2>5, Zenon
  <1>7. CASE kind = "dynamics"
    <2>1. bytes = 0
      BY <1>7, Zenon DEF KernelBytes
    <2>2. verdict = IF spec.sample_rate = 0 THEN "UnsupportedSpec"
                    ELSE IF ~ ValidTime(kernel.attack_ms) \/ ~ ValidTime(kernel.release_ms)
                         THEN "InvalidParam" ELSE "Ok"
      BY <1>7, Zenon DEF KernelAnswer, DynamicsAnswer
    <2>3. {kernel.attack_ms, kernel.release_ms} \subseteq Int \cup {NotFinite}
      BY <1>7, SMT DEF Formed
    <2>4. \A ms \in Int \cup {NotFinite} : ValidTime(ms) <=> ms \in Nat
      BY ParameterAssumption DEF ValidTime, Finite
    <2>5. Runs(spec) <=> /\ spec.sample_rate # 0
                         /\ ValidTime(kernel.attack_ms) /\ ValidTime(kernel.release_ms)
      <3>1. Runs(spec) <=> /\ spec.sample_rate >= 1
                           /\ {kernel.attack_ms, kernel.release_ms} \subseteq Nat
        BY <1>7 DEF Runs
      <3>2. spec.sample_rate >= 1 <=> spec.sample_rate # 0
        BY <1>1
      <3>. QED
        BY <2>3, <2>4, <3>1, <3>2, Zenon
    <2> HIDE DEF verdict, bytes
    <2>. QED
      BY <1>4, <2>1, <2>2, <2>5, Zenon
  <1>8. CASE kind = "oscillator"
    <2>1. bytes = 0
      BY <1>8, Zenon DEF KernelBytes
    <2>2. verdict = IF spec.sample_rate = 0 THEN "UnsupportedSpec" ELSE "Ok"
      BY <1>8, Zenon DEF KernelAnswer, OscillatorAnswer
    <2>3. Runs(spec) <=> spec.sample_rate # 0
      BY <1>1, <1>8 DEF Runs
    <2> HIDE DEF verdict, bytes
    <2>. QED
      BY <1>4, <2>1, <2>2, <2>3, Zenon
  <1>9. CASE kind = "noise"
    <2>1. bytes = ch
      BY <1>1, <1>9 DEF KernelBytes
    <2>2. verdict = Preflight(Array(NewLayout, ch, 1), cap)
      BY <1>9, Zenon DEF KernelAnswer, NoiseAnswer
    <2>3. Runs(spec)
      BY <1>9 DEF Runs
    <2> HIDE DEF verdict, bytes, ch
    <2> DEFINE v == Preflight(Array(NewLayout, ch, 1), cap)
    <2>4. /\ bytes \in Nat
          /\ v = "Ok" <=> bytes <= cap /\ bytes <= MaxUsize /\ bytes \in 0..MaxIsize
          /\ v = "OverBudget" => cap # NoCap /\ bytes > cap
      BY <1>1, <2>1, ByteArray
    <2> HIDE DEF v
    <2>5. verdict = v
      BY <2>2, Zenon DEF v
    <2>. QED
      BY <1>4, <2>3, <2>4, <2>5, Zenon
  <1>10. CASE kind = "dither"
    <2>1. bytes = ch
      BY <1>1, <1>10 DEF KernelBytes
    <2>2. verdict = IF kernel.bits \notin 2..24 THEN "InvalidParam"
                    ELSE Preflight(Array(NewLayout, ch, 1), cap)
      BY <1>10, Zenon DEF KernelAnswer, DitherAnswer
    <2>3. Runs(spec) <=> kernel.bits \in 2..24
      BY <1>10, SMT DEF Runs
    <2> HIDE DEF verdict, bytes, ch
    <2> DEFINE v == Preflight(Array(NewLayout, ch, 1), cap)
    <2>4. /\ bytes \in Nat
          /\ v = "Ok" <=> bytes <= cap /\ bytes <= MaxUsize /\ bytes \in 0..MaxIsize
          /\ v = "OverBudget" => cap # NoCap /\ bytes > cap
      BY <1>1, <2>1, ByteArray
    <2> HIDE DEF v
    <2>5. verdict = IF kernel.bits \notin 2..24 THEN "InvalidParam" ELSE v
      BY <2>2, Zenon DEF v
    <2>. QED
      BY <1>4, <2>3, <2>4, <2>5, Zenon
  <1>11. CASE kind = "gain"
    <2>1. bytes = 0 /\ verdict = "Ok"
      BY <1>11, Zenon DEF KernelBytes, KernelAnswer
    <2>2. Runs(spec)
      BY <1>11 DEF Runs
    <2> HIDE DEF verdict, bytes
    <2>. QED
      BY <1>4, <2>1, <2>2, Zenon
  <1>12. CASE kind = "scale"
    <2>1. bytes = 0 /\ verdict = IF Finite(kernel.factor) THEN "Ok" ELSE "InvalidParam"
      BY <1>12, Zenon DEF KernelBytes, KernelAnswer, ScaleAnswer
    <2>2. Runs(spec) <=> Finite(kernel.factor)
      BY <1>12 DEF Runs
    <2> HIDE DEF verdict, bytes
    <2>. QED
      BY <1>4, <2>1, <2>2, Zenon
  <1>13. CASE kind = "dc_offset"
    <2> DEFINE n == Len(kernel.offsets)
    <2>1. kernel.broadcast \in BOOLEAN /\ n \in Nat /\ (kernel.broadcast => n = 1)
      BY <1>13, SMT DEF Formed
    <2>2. bytes = IF kernel.broadcast THEN 0 ELSE ch
      BY <1>13, Zenon DEF KernelBytes
    <2>3. verdict = IF ~ AllFinite(kernel.offsets) \/ (~ kernel.broadcast /\ n # ch)
                    THEN "InvalidParam"
                    ELSE IF kernel.broadcast THEN "Ok" ELSE Preflight(Array(NewLayout, n, 1), cap)
      BY <1>13, Zenon DEF KernelAnswer, OffsetAnswer
    <2>4. Runs(spec) <=> AllFinite(kernel.offsets) /\ n = IF kernel.broadcast THEN 1 ELSE ch
      BY <1>13 DEF Runs
    <2> HIDE DEF verdict, bytes, ch, n
    <2>5. CASE kernel.broadcast
      BY <1>4, <2>1, <2>2, <2>3, <2>4, <2>5, Zenon
    <2>6. CASE ~ kernel.broadcast
      <3> DEFINE v == Preflight(Array(NewLayout, n, 1), cap)
      <3>2. /\ v = "Ok" <=> n <= cap /\ n <= MaxUsize /\ n \in 0..MaxIsize
            /\ v = "OverBudget" => cap # NoCap /\ n > cap
        BY <2>1, ByteArray
      <3> HIDE DEF v
      <3>3. verdict = IF ~ AllFinite(kernel.offsets) \/ n # ch THEN "InvalidParam" ELSE v
        BY <2>3, <2>6, Zenon DEF v
      <3>4. bytes = ch /\ (Runs(spec) <=> AllFinite(kernel.offsets) /\ n = ch)
        BY <2>2, <2>4, <2>6, Zenon
      <3>. QED
        BY <1>1, <1>4, <3>2, <3>3, <3>4, Zenon
    <2>. QED
      BY <2>5, <2>6
  <1>. QED
    BY <1>5, <1>6, <1>7, <1>8, <1>9, <1>10, <1>11, <1>12, <1>13 DEF KernelKinds

\* The verdict on a spec that the layouts promise.
Exact(spec, verdict) ==
  LET forBank == Len(ParamInfo) * SmootherSize
      forKernel == KernelBytes(spec.channels)
      Fits == IF spec.max_memory # NoCap THEN forBank + forKernel <= spec.max_memory
              ELSE forBank <= MaxUsize /\ (kind # "custom" => forKernel <= MaxUsize)
  IN  /\ verdict = "Ok" <=> /\ TypedCount = Len(ParamInfo) /\ ValidParams(ParamInfo)
                            /\ Runs(spec) /\ Fits
                            /\ {forBank} \cup Buffers(spec.channels) \subseteq 0..MaxIsize
      /\ verdict = "OverBudget" =>
           spec.max_memory # NoCap /\ forBank + forKernel > spec.max_memory

\* What the bank's layout counts.
LEMMA BankExact ==
  ASSUME Steady
  PROVE  /\ Len(ParamInfo) \in Nat
         /\ Len(ParamInfo) * SmootherSize \in Nat
         /\ Stands(BankLayout, Len(ParamInfo) * SmootherSize)
         /\ BankLayout.components_addressable <=>
              Len(ParamInfo) * SmootherSize \in 0..MaxIsize
  <1> DEFINE forBank == Len(ParamInfo) * SmootherSize
  <1>1. Len(ParamInfo) \in Nat
    <2>1. NoParams = <<>> => Len(NoParams) = 0
      OBVIOUS
    <2>. QED
      BY <2>1, SteadyFormed DEF ParamInfo, NoParams, Formed
  <1>2. forBank \in Nat /\ SmootherSize \in Nat
    BY <1>1, NatProducts, HostAssumption
  <1>3. Stands(NewLayout, 0) /\ NewLayout.components_addressable
    BY LayoutAssumption DEF Stands, NewLayout, Checked
  <1>4. BankLayout = RepeatedArray(NewLayout, 1, Len(ParamInfo), SmootherSize)
    BY DEF BankLayout, Array, RepeatedArray
  <1>5. Stands(BankLayout, 0 + forBank)
    BY <1>1, <1>2, <1>3, ArrayExact DEF BankLayout
  <1>6. BankLayout.components_addressable <=>
          NewLayout.components_addressable /\ (1 = 0 \/ forBank <= MaxIsize)
    BY <1>1, <1>2, <1>4, Addressable, 1 \in Nat, Zenon
  <1> HIDE DEF forBank
  <1>7. BankLayout.components_addressable <=> forBank \in 0..MaxIsize
    BY <1>2, <1>3, <1>6, LayoutAssumption
  <1>8. Stands(BankLayout, forBank)
    BY <1>2, <1>5
  <1>. QED
    BY <1>1, <1>2, <1>7, <1>8 DEF forBank

\* A kernel that accepted its budget cannot exceed the total with its bank.
LEMMA NeverOver ==
  ASSUME Steady, kind # "custom", NEW spec \in Specs[kind],
         Preflight(BankLayout, spec.max_memory) = "Ok",
         KernelAnswer(spec, Remainder(spec.max_memory)) = "Ok"
  PROVE  ~ OverTotal(KernelPrepared(spec), spec.max_memory)
  <1> DEFINE cap == spec.max_memory
             forBank == Len(ParamInfo) * SmootherSize
             held == Footprint(KernelPrepared(spec))
  <1>1. SUFFICES ASSUME cap # NoCap
                 PROVE  Plus(held, BankLayout.bytes) \in 0..cap
    BY DEF OverTotal
  <1>2. cap \in 0..NoCap /\ cap <= MaxUsize
    BY <1>1, SteadyFormed, LayoutAssumption DEF Askable, NoCap
  <1>3. forBank \in Nat /\ Stands(BankLayout, forBank)
    BY BankExact
  <1>4. forBank <= cap /\ forBank <= MaxUsize
    BY <1>2, <1>3, PreflightExact
  <1>5. BankLayout.bytes = forBank
    BY <1>3, <1>4, LayoutAssumption DEF Stands, Checked
  <1>6. Remainder(cap) = cap - forBank
    BY <1>1, <1>5 DEF Remainder
  <1>7. held \in 0..(cap - forBank)
    <2>1. cap - forBank \in 0..NoCap
      BY <1>2, <1>3, <1>4, LayoutAssumption DEF NoCap
    <2>. QED
      BY <1>6, <2>1, FootprintAsked, SteadyFormed DEF Askable
  <1> HIDE DEF held, forBank, cap
  <1>. QED
    BY <1>2, <1>3, <1>4, <1>5, <1>7, LayoutAssumption DEF Plus, Checked, Uncounted

\* The kernel's answer to what the bank left it.
LEMMA KernelAnswers ==
  ASSUME Steady, kind # "custom", NEW spec, Askable(spec), NEW cap \in 0..NoCap
  PROVE  AnswersExactly(spec, cap)
  BY SteadyFormed, AverageAnswers, OthersAnswer

\* The verdict of a prepare is the one its spec is due.
LEMMA PrepareExact ==
  ASSUME Steady, NEW spec \in Specs[kind], Prepare(spec)
  PROVE  Exact(spec, answer')
  <1> DEFINE cap == spec.max_memory
             forBank == Len(ParamInfo) * SmootherSize
             forKernel == KernelBytes(spec.channels)
             buffers == Buffers(spec.channels)
             Declares == TypedCount = Len(ParamInfo) /\ ValidParams(ParamInfo)
             Fits == IF cap # NoCap THEN forBank + forKernel <= cap
                     ELSE forBank <= MaxUsize /\ (kind # "custom" => forKernel <= MaxUsize)
             bankVerdict == Preflight(BankLayout, cap)
             kernelVerdict == KernelAnswer(spec, Remainder(cap))
  <1>1. Askable(spec) /\ kind \in KernelKinds /\ Formed(kind, kernel)
    BY SteadyFormed
  <1>2. spec.channels \in Nat /\ cap \in 0..NoCap /\ NoCap = MaxUsize + 1 /\ MaxUsize \in Nat
    BY <1>1, LayoutAssumption DEF Askable, NoCap
  <1>3. forBank \in Nat /\ Stands(BankLayout, forBank)
    BY BankExact
  <1>4. /\ bankVerdict = "Ok" => forBank <= cap /\ forBank <= MaxUsize /\ forBank \in 0..MaxIsize
        /\ forBank <= cap /\ forBank <= MaxUsize /\ forBank \in 0..MaxIsize => bankVerdict = "Ok"
        /\ bankVerdict = "OverBudget" => forBank > cap /\ cap # NoCap
    <2>1. BankLayout.components_addressable <=> forBank \in 0..MaxIsize
      BY BankExact
    <2>2. /\ bankVerdict = "Ok" <=>
               forBank <= cap /\ forBank <= MaxUsize /\ BankLayout.components_addressable
          /\ bankVerdict = "OverBudget" => forBank > cap
      BY <1>2, <1>3, PreflightExact
    <2>3. cap = NoCap => bankVerdict # "OverBudget"
      BY <1>3, UncappedNeverOver
    <2> HIDE DEF bankVerdict, forBank
    <2>. QED
      BY <2>1, <2>2, <2>3, Zenon
  <1>5. ASSUME bankVerdict = "Ok"
        PROVE  Remainder(cap) = IF cap = NoCap THEN NoCap ELSE cap - forBank
    <2>1. BankLayout.bytes = forBank
      BY <1>2, <1>3, <1>4, <1>5, SMT DEF Stands, Checked
    <2>. QED
      BY <2>1 DEF Remainder
  <1>6. forKernel \in Nat
    <2>1. CASE kind = "custom"
      <3>1. forKernel = CustomSize * spec.channels
        BY <2>1 DEF KernelBytes
      <3>. QED
        BY <1>2, <3>1 DEF CustomSize
    <2>2. CASE kind # "custom"
      <3>1. 0 \in 0..NoCap
        BY <1>2
      <3>. QED
        BY <1>1, <2>2, <3>1, KernelAnswers DEF AnswersExactly
    <2>. QED
      BY <2>1, <2>2
  <1>7. ASSUME bankVerdict = "Ok", kind # "custom"
        PROVE  /\ kernelVerdict = "Ok" <=>
                    Runs(spec) /\ Fits /\ buffers \subseteq 0..MaxIsize
               /\ kernelVerdict = "OverBudget" => cap # NoCap /\ forBank + forKernel > cap
    <2> DEFINE left == Remainder(cap)
    <2>1. forBank <= cap /\ forBank <= MaxUsize
      BY <1>4, <1>7
    <2>2. left = IF cap = NoCap THEN NoCap ELSE cap - forBank
      BY <1>5, <1>7
    <2>3. left \in 0..NoCap
      BY <1>2, <1>3, <2>1, <2>2
    <2>4. /\ kernelVerdict = "Ok" <=> /\ Runs(spec) /\ forKernel <= left /\ forKernel <= MaxUsize
                                      /\ buffers \subseteq 0..MaxIsize
          /\ kernelVerdict = "OverBudget" => left # NoCap /\ forKernel > left
      BY <1>1, <1>7, <2>3, KernelAnswers, Zenon DEF AnswersExactly
    <2> HIDE DEF left, kernelVerdict, forBank, forKernel, buffers, cap
    <2>5. forKernel <= left /\ forKernel <= MaxUsize <=> Fits
      BY <1>2, <1>3, <1>6, <1>7, <2>1, <2>2
    <2>6. left # NoCap /\ forKernel > left => cap # NoCap /\ forBank + forKernel > cap
      BY <1>2, <1>3, <1>6, <2>2
    <2> HIDE DEF Fits
    <2>. QED
      BY <2>4, <2>5, <2>6, Zenon
  <1>8. ASSUME bankVerdict = "Ok", kind = "custom"
        PROVE  /\ kernelVerdict = "Ok" /\ Runs(spec) /\ buffers = {}
               /\ OverTotal(KernelPrepared(spec), cap) <=> ~ Fits
               /\ ~ Fits => cap # NoCap /\ forBank + forKernel > cap
    <2>1. kernelVerdict = "Ok" /\ buffers = {}
      BY <1>8, Zenon DEF KernelAnswer, Buffers
    <2>2. Runs(spec)
      BY <1>8 DEF Runs
    <2>3. Footprint(KernelPrepared(spec)) = forKernel
      <3>1. "buffer" \in DOMAIN kernel
        BY <1>1, <1>8, SMT DEF Formed
      <3>2. KernelPrepared(spec) = CustomPrepared(kernel, spec)
        BY <1>8, Zenon DEF KernelPrepared
      <3>3. Footprint(KernelPrepared(spec)) = CustomPrepared(kernel, spec).buffer
        BY <1>8, <3>2, Zenon DEF Footprint
      <3>4. forKernel = CustomSize * spec.channels
        BY <1>8, Zenon DEF KernelBytes
      <3>. QED
        BY <3>1, <3>3, <3>4 DEF CustomPrepared
    <2>4. BankLayout.bytes = forBank /\ forBank <= MaxUsize
      BY <1>2, <1>3, <1>4, <1>8, SMT DEF Stands, Checked
    <2> HIDE DEF forBank, forKernel, cap
    <2>5. OverTotal(KernelPrepared(spec), cap) <=> cap # NoCap /\ Plus(forKernel, forBank) \notin 0..cap
      BY <2>3, <2>4 DEF OverTotal
    <2>6. cap # NoCap => (Plus(forKernel, forBank) \in 0..cap <=> forBank + forKernel <= cap)
      BY <1>2, <1>3, <1>6 DEF Plus, Checked, Uncounted
    <2>7. cap = NoCap => Fits
      BY <1>8, <2>4
    <2>8. cap # NoCap => (Fits <=> forBank + forKernel <= cap)
      OBVIOUS
    <2>9. cap # NoCap => (~ (forBank + forKernel <= cap) => forBank + forKernel > cap)
      BY <1>2, <1>3, <1>6
    <2> HIDE DEF Fits, kernelVerdict, buffers
    <2>. QED
      BY <2>1, <2>2, <2>5, <2>6, <2>7, <2>8, <2>9, Zenon
  <1>9. Fits => forBank <= cap /\ forBank <= MaxUsize
    <2> HIDE DEF forBank, forKernel, cap
    <2>. QED
      BY <1>2, <1>3, <1>6
  <1>10. forBank > cap => forBank + forKernel > cap
    <2> HIDE DEF forBank, forKernel, cap
    <2>. QED
      BY <1>2, <1>3, <1>6
  <1>11. {forBank} \cup buffers \subseteq 0..MaxIsize <=>
           forBank \in 0..MaxIsize /\ buffers \subseteq 0..MaxIsize
    OBVIOUS
  <1>12. /\ answer' = "Ok" <=> /\ Declares /\ Runs(spec) /\ Fits
                               /\ forBank \in 0..MaxIsize /\ buffers \subseteq 0..MaxIsize
         /\ answer' = "OverBudget" => cap # NoCap /\ forBank + forKernel > cap
    <2> HIDE DEF forBank, forKernel, cap, Fits, Declares, buffers
    <2>1. CASE ~ Declares
      <3>1. answer' = "InvalidParam"
        BY <2>1, Zenon DEF Prepare, PrepareRefused, Refuse, Declares
      <3>. QED
        BY <2>1, <3>1
    <2>2. CASE Declares /\ bankVerdict # "Ok"
      <3>1. answer' = bankVerdict
        BY <2>2, Zenon DEF Prepare, PrepareRefused, Refuse, Declares, cap
      <3>. QED
        BY <1>4, <1>9, <1>10, <2>2, <3>1, Zenon
    <2>3. CASE Declares /\ bankVerdict = "Ok" /\ kernelVerdict # "Ok"
      <3>1. answer' = kernelVerdict
        BY <2>3, Zenon DEF Prepare, PrepareRefused, Refuse, Declares, cap
      <3>2. kind # "custom"
        BY <1>8, <2>3
      <3>. QED
        BY <1>7, <2>3, <3>1, <3>2, Zenon
    <2>4. CASE Declares /\ bankVerdict = "Ok" /\ kernelVerdict = "Ok"
      <3>1. answer' = IF OverTotal(KernelPrepared(spec), cap) THEN "OverBudget" ELSE "Ok"
        BY <2>4, Zenon DEF Prepare, PrepareKernel, Refuse, Declares, cap
      <3>2. "OverBudget" # "Ok"
        OBVIOUS
      <3>3. CASE kind = "custom"
        BY <1>4, <1>8, <2>4, <3>1, <3>2, <3>3, Zenon
      <3>4. CASE kind # "custom"
        <4>1. ~ OverTotal(KernelPrepared(spec), cap)
          BY <2>4, <3>4, NeverOver, Zenon DEF cap
        <4>. QED
          BY <1>4, <1>7, <2>4, <3>1, <3>2, <3>4, <4>1, Zenon
      <3>. QED
        BY <3>3, <3>4
    <2>. QED
      BY <2>1, <2>2, <2>3, <2>4
  <1>. QED
    BY <1>11, <1>12, Zenon DEF Exact

\* What a verdict is about stays what it was while the settings are kept.
LEMMA SettingsKept ==
  ASSUME kind \in KernelKinds, Formed(kind, kernel), kind' = kind, Keeps(kernel, kernel')
  PROVE  /\ ParamInfo' = ParamInfo /\ TypedCount' = TypedCount
         /\ kind = "average" => kernel'.taps = kernel.taps
         /\ kind = "dynamics" => /\ kernel'.attack_ms = kernel.attack_ms
                                 /\ kernel'.release_ms = kernel.release_ms
                                 /\ kernel'.use_sidechain = kernel.use_sidechain
         /\ kind = "dither" => kernel'.bits = kernel.bits
         /\ kind \in {"noise", "dither"} => kernel'.seed = kernel.seed
         /\ kind = "scale" => kernel'.factor = kernel.factor
         /\ kind = "dc_offset" => /\ kernel'.broadcast = kernel.broadcast
                                  /\ kernel'.offsets = kernel.offsets
  <1>1. DOMAIN kernel' = DOMAIN kernel
        /\ \A f \in Kept : f \in DOMAIN kernel => kernel'[f] = kernel[f]
    BY Zenon DEF Keeps
  <1>2. /\ "params" \in DOMAIN kernel => kernel'.params = kernel.params
        /\ "typed" \in DOMAIN kernel => kernel'.typed = kernel.typed
        /\ "taps" \in DOMAIN kernel => kernel'.taps = kernel.taps
        /\ "attack_ms" \in DOMAIN kernel => kernel'.attack_ms = kernel.attack_ms
        /\ "release_ms" \in DOMAIN kernel => kernel'.release_ms = kernel.release_ms
        /\ "use_sidechain" \in DOMAIN kernel => kernel'.use_sidechain = kernel.use_sidechain
        /\ "bits" \in DOMAIN kernel => kernel'.bits = kernel.bits
        /\ "seed" \in DOMAIN kernel => kernel'.seed = kernel.seed
        /\ "factor" \in DOMAIN kernel => kernel'.factor = kernel.factor
        /\ "broadcast" \in DOMAIN kernel => kernel'.broadcast = kernel.broadcast
        /\ "offsets" \in DOMAIN kernel => kernel'.offsets = kernel.offsets
    BY <1>1 DEF Kept
  <1>3. ParamInfo' = ParamInfo
    BY <1>1, <1>2, Zenon DEF ParamInfo
  <1>4. TypedCount' = TypedCount
    <2>1. kind = "custom" => "typed" \in DOMAIN kernel
      BY SMT DEF Formed
    <2>. QED
      BY <1>2, <1>3, <2>1, Zenon DEF TypedCount
  <1>5. /\ kind = "average" => "taps" \in DOMAIN kernel
        /\ kind = "dynamics" => {"attack_ms", "release_ms", "use_sidechain"} \subseteq DOMAIN kernel
        /\ kind = "dither" => "bits" \in DOMAIN kernel
        /\ kind \in {"noise", "dither"} => "seed" \in DOMAIN kernel
        /\ kind = "scale" => "factor" \in DOMAIN kernel
        /\ kind = "dc_offset" => {"broadcast", "offsets"} \subseteq DOMAIN kernel
    BY SMT DEF Formed
  <1>. QED
    BY <1>2, <1>3, <1>4, <1>5

\* Whatever the processor does later, a verdict stays what its spec was due.
LEMMA ExactKept ==
  ASSUME kind \in KernelKinds, Formed(kind, kernel), kind' = kind, Keeps(kernel, kernel'),
         NEW spec, asked' = spec, answer' = "Unasked" \/ Exact(spec, answer')
  PROVE  BudgetExact'
  <1>1. /\ ParamInfo' = ParamInfo /\ TypedCount' = TypedCount
        /\ kind = "average" => kernel'.taps = kernel.taps
        /\ kind = "dynamics" => /\ kernel'.attack_ms = kernel.attack_ms
                                /\ kernel'.release_ms = kernel.release_ms
        /\ kind = "dither" => kernel'.bits = kernel.bits
        /\ kind = "scale" => kernel'.factor = kernel.factor
        /\ kind = "dc_offset" => /\ kernel'.broadcast = kernel.broadcast
                                 /\ kernel'.offsets = kernel.offsets
    BY SettingsKept, Zenon
  <1>2. KernelBytes(asked.channels)' = KernelBytes(spec.channels)
    BY <1>1, Zenon DEF KernelBytes
  <1>3. Buffers(asked.channels)' = Buffers(spec.channels)
    <2>1. (KernelBytes(asked.channels))' = KernelBytes(spec.channels)
      BY <1>2
    <2>. QED
      BY <1>1, <2>1, Zenon DEF Buffers
  <1>4. Supported' <=> /\ TypedCount = Len(ParamInfo) /\ ValidParams(ParamInfo)
                       /\ Runs(spec)
    BY <1>1, Zenon DEF Supported, Runs
  <1>. QED
    BY <1>1, <1>2, <1>3, <1>4, Zenon DEF BudgetExact, Exact

\* A spec is accepted just if the kernel supports it, all it needs is within the cap and can be
\* counted, and each buffer can be addressed; and it is said to be over budget only when it is
\* (dsp/driver.rs, KernelProcessor::prepare; dsp/memory.rs): for every kernel and every number of
\* channels and bytes, however large.
THEOREM BudgetsExact == Spec => []BudgetExact
  <1> DEFINE Inv == Steady /\ BudgetExact
  <1>1. Init => Inv
    <2>1. Init => Steady
      BY Zenon DEF Init, Steady, Keeps
    <2>2. Init => BudgetExact
      BY Zenon DEF Init, BudgetExact
    <2>. QED
      BY <2>1, <2>2
  <1>2. Inv /\ [Next]_vars => Inv'
    <2> SUFFICES ASSUME Inv, [Next]_vars
                 PROVE  Inv'
      OBVIOUS
    <2>1. kind \in KernelKinds /\ Formed(kind, kernel)
      BY SteadyFormed
    <2>2. kind' = kind /\ Keeps(kernel, kernel')
      BY <2>1, StepKeeps
    <2>3. Steady'
      BY <2>2, KeepsTwice DEF Steady
    <2>4. CASE UNCHANGED <<asked, answer>>
      <3>1. answer = "Unasked" \/ Exact(asked, answer)
        BY Zenon DEF BudgetExact, Exact, Supported, Runs
      <3>. QED
        BY <2>1, <2>2, <2>3, <2>4, <3>1, ExactKept
    <2>5. ASSUME NEW spec \in Specs[kind], Prepare(spec)
          PROVE  BudgetExact'
      <3>1. asked' = spec /\ Exact(spec, answer')
        BY <2>5, PrepareExact, Zenon DEF Prepare
      <3>. QED
        BY <2>1, <2>2, <3>1, ExactKept
    <2>6. CASE Reset
      BY <2>4, <2>6, Zenon DEF Reset
    <2>7. ASSUME NEW ctx, NEW cut, NEW p, NEW q, NEW slip, ProcessBlock(ctx, cut, p, q, slip)
          PROVE  UNCHANGED <<asked, answer>>
      BY <2>7, Zenon DEF ProcessBlock
    <2>8. ASSUME NEW room, NEW slip, Flush(room, slip)
          PROVE  UNCHANGED <<asked, answer>>
      BY <2>8, Zenon DEF Flush
    <2>9. UNCHANGED vars => UNCHANGED <<asked, answer>>
      BY Zenon DEF vars
    <2>. QED
      BY <2>3, <2>4, <2>5, <2>6, <2>7, <2>8, <2>9, Zenon DEF Next, Process, Drain
  <1>. QED
    BY <1>1, <1>2, PTL DEF Spec

\* A refused prepare leaves the kernel's stream and the bank alone, whatever it was refused for
\* (dsp/driver.rs, KernelProcessor::prepare): no kernel of the crate is found to be over budget
\* after it has replaced its state.
THEOREM RefusalsHarmless == Spec => RefusalKept
  <1>1. ASSUME Steady, [Next]_vars
        PROVE  [asked' # asked /\ answer' # "Ok" =>
                  /\ UNCHANGED bank
                  /\ kind # "custom" => UNCHANGED <<kernel, history>>]_vars
    <2>1. CASE UNCHANGED vars
      BY <2>1
    <2>2. ASSUME NEW spec \in Specs[kind], Prepare(spec), answer' # "Ok"
          PROVE  UNCHANGED bank /\ (kind # "custom" => UNCHANGED <<kernel, history>>)
      <3>1. CASE \E why : PrepareRefused(why)
        BY <3>1, Zenon DEF PrepareRefused, Refuse
      <3>2. CASE /\ Preflight(BankLayout, spec.max_memory) = "Ok"
                 /\ KernelAnswer(spec, Remainder(spec.max_memory)) = "Ok"
                 /\ PrepareKernel(spec)
        <4>1. OverTotal(KernelPrepared(spec), spec.max_memory) /\ UNCHANGED bank
          BY <2>2, <3>2, Zenon DEF PrepareKernel, Refuse
        <4>2. kind = "custom"
          BY <1>1, <3>2, <4>1, NeverOver
        <4>. QED
          BY <4>1, <4>2
      <3>. QED
        BY <2>2, <3>1, <3>2, Zenon DEF Prepare
    <2>3. CASE Reset
      BY <2>3 DEF Reset
    <2>4. ASSUME NEW ctx, NEW cut, NEW p, NEW q, NEW slip, ProcessBlock(ctx, cut, p, q, slip)
          PROVE  asked' = asked
      BY <2>4, Zenon DEF ProcessBlock
    <2>5. ASSUME NEW room, NEW slip, Flush(room, slip)
          PROVE  asked' = asked
      BY <2>5, Zenon DEF Flush
    <2>. QED
      BY <1>1, <2>1, <2>2, <2>3, <2>4, <2>5, Zenon DEF Next, Process, Drain
  <1>. QED
    BY <1>1, SteadyKept, PTL DEF Spec, RefusalKept

-----------------------------------------------------------------------------
(* Folds: MapThenFoldSet takes the elements one at a time by a recursive function on the *)
(* subsets.  That there is one is shown by induction on the size of a subset.            *)

Below == {p \in Nat \X Nat : p[1] < p[2]}

\* Induction over the naturals, on sets.
LEMMA NatInd ==
  ASSUME NEW S \in SUBSET Nat, 0 \in S, \A n \in S : n + 1 \in S
  PROVE  S = Nat
  <1> SUFFICES ASSUME S # Nat PROVE FALSE
    OBVIOUS
  <1> DEFINE T == Nat \ S
  <1>1. T \subseteq Nat /\ T # {}
    OBVIOUS
  <1>2. IsWellFoundedOn(Below, Nat)
    BY NatLessThanWellFounded DEF OpToRel, Below
  <1>3. PICK m \in T : \A k \in T : ~ (<<k, m>> \in Below)
    <2> HIDE DEF T
    <2>. QED
      BY <1>1, <1>2, WFMin, Zenon
  <1>4. m \in Nat /\ m # 0 /\ m \notin S
    BY <1>3
  <1>5. m - 1 \in Nat /\ <<m - 1, m>> \in Below
    BY <1>4 DEF Below
  <1>6. m - 1 \in S /\ (m - 1) + 1 = m
    BY <1>3, <1>4, <1>5
  <1>. QED
    BY <1>4, <1>6

\* An element taken from each subset of U that has one.
Takes(pick, U) == \A s \in SUBSET U : s # {} => pick[s] \in s

\* Without what is taken a finite set is smaller by one.
LEMMA OneLess ==
  ASSUME NEW s, IsFiniteSet(s), NEW x \in s
  PROVE  Cardinality(s) \in Nat \ {0} /\ Cardinality(s \ {x}) = Cardinality(s) - 1
  BY FS_RemoveElement, FS_CardinalityType, FS_EmptySet

\* P has the empty set, and each subset it has without what is taken from it.
Grows(P, pick, U) ==
  /\ P \in SUBSET (SUBSET U) /\ {} \in P
  /\ \A s \in SUBSET U : s # {} /\ s \ {pick[s]} \in P => s \in P

\* Induction over the subsets of a finite set, by what is taken.
LEMMA SubsetInd ==
  ASSUME NEW U, IsFiniteSet(U), NEW pick, Takes(pick, U), NEW P, Grows(P, pick, U)
  PROVE  P = SUBSET U
  <1> USE DEF Grows
  <1> DEFINE A == {n \in Nat : \A s \in SUBSET U : Cardinality(s) <= n => s \in P}
  <1>0. \A s \in SUBSET U : IsFiniteSet(s) /\ Cardinality(s) \in Nat
    BY FS_Subset, FS_CardinalityType
  <1>1. 0 \in A
    <2>1. ASSUME NEW s \in SUBSET U, Cardinality(s) <= 0
          PROVE  s \in P
      <3>1. s = {}
        BY <1>0, <2>1, FS_EmptySet
      <3>. QED
        BY <3>1
    <2>. QED
      BY <2>1
  <1>2. ASSUME NEW n \in A
        PROVE  n + 1 \in A
    <2>1. ASSUME NEW s \in SUBSET U, Cardinality(s) <= n + 1
          PROVE  s \in P
      <3>1. CASE s = {}
        BY <3>1
      <3>2. CASE s # {}
        <4> DEFINE t == s \ {pick[s]}
        <4>1. pick[s] \in s
          BY <3>2 DEF Takes
        <4>2. t \in SUBSET U /\ Cardinality(t) <= n
          BY <1>0, <2>1, <4>1, OneLess
        <4>. QED
          BY <3>2, <4>2
      <3>. QED
        BY <3>1, <3>2
    <2>. QED
      BY <2>1
  <1>3. A = Nat
    <2>1. A \in SUBSET Nat
      OBVIOUS
    <2> HIDE DEF A
    <2>. QED
      BY <1>1, <1>2, <2>1, NatInd
  <1>4. ASSUME NEW s \in SUBSET U
        PROVE  s \in P
    <2>1. Cardinality(s) \in A
      BY <1>0, <1>3
    <2>. QED
      BY <1>0, <2>1
  <1>. QED
    BY <1>4

\* The step of a recursion through the subsets, and a solution of it.
Maps(G, U, T) == G \in [U \X T -> T]

Solves(F, G, base, pick, U, T) ==
  /\ F \in [SUBSET U -> T]
  /\ \A s \in SUBSET U : F[s] = IF s = {} THEN base ELSE G[<<pick[s], F[s \ {pick[s]}]>>]

\* A recursion through the subsets has a solution, if its values are of a kind.
LEMMA Recursion ==
  ASSUME NEW U, IsFiniteSet(U), NEW pick, Takes(pick, U), NEW T, NEW base \in T,
         NEW G, Maps(G, U, T)
  PROVE  \E F : Solves(F, G, base, pick, U, T)
  <1> USE DEF Maps
  <1> DEFINE Rule(F, s) == F[s] = IF s = {} THEN base ELSE G[<<pick[s], F[s \ {pick[s]}]>>]
             Upto(F, n) == /\ F \in [SUBSET U -> T]
                           /\ \A s \in SUBSET U : Cardinality(s) <= n => Rule(F, s)
             A == {n \in Nat : \E F : Upto(F, n)}
  <1>0. \A s \in SUBSET U : IsFiniteSet(s) /\ Cardinality(s) \in Nat
    BY FS_Subset, FS_CardinalityType
  <1>1. 0 \in A
    <2> DEFINE F == [s \in SUBSET U |-> base]
    <2>1. ASSUME NEW s \in SUBSET U, Cardinality(s) <= 0
          PROVE  s = {}
      BY <1>0, <2>1, FS_EmptySet
    <2>2. Upto(F, 0)
      BY <2>1
    <2>. QED
      BY <2>2
  <1>2. ASSUME NEW n \in A
        PROVE  n + 1 \in A
    <2>1. PICK F : Upto(F, n)
      OBVIOUS
    <2> DEFINE H == [s \in SUBSET U |-> IF s = {} THEN base ELSE G[<<pick[s], F[s \ {pick[s]}]>>]]
    <2>2. ASSUME NEW s \in SUBSET U, s # {}
          PROVE  pick[s] \in U /\ s \ {pick[s]} \in SUBSET U
      BY <2>2 DEF Takes
    <2>3. H \in [SUBSET U -> T]
      <3> SUFFICES ASSUME NEW s \in SUBSET U PROVE H[s] \in T
        OBVIOUS
      <3>1. CASE s = {}
        BY <3>1
      <3>2. CASE s # {}
        <4>1. F[s \ {pick[s]}] \in T /\ pick[s] \in U
          BY <2>1, <2>2, <3>2
        <4>2. H[s] = G[<<pick[s], F[s \ {pick[s]}]>>]
          BY <3>2
        <4> HIDE DEF H
        <4>. QED
          BY <4>1, <4>2
      <3>. QED
        BY <3>1, <3>2
    <2>4. ASSUME NEW t \in SUBSET U, Cardinality(t) <= n
          PROVE  H[t] = F[t]
      BY <2>1, <2>4
    <2>5. ASSUME NEW s \in SUBSET U, Cardinality(s) <= n + 1
          PROVE  Rule(H, s)
      <3>1. CASE s = {}
        BY <3>1
      <3>2. CASE s # {}
        <4> DEFINE t == s \ {pick[s]}
        <4>1. t \in SUBSET U /\ pick[s] \in s
          BY <2>2, <3>2 DEF Takes
        <4>2. Cardinality(t) <= n
          BY <1>0, <2>5, <4>1, OneLess
        <4>3. H[t] = F[t]
          BY <2>4, <4>1, <4>2
        <4>4. H[s] = G[<<pick[s], F[t]>>]
          BY <3>2
        <4> HIDE DEF H, t
        <4>. QED
          BY <3>2, <4>3, <4>4 DEF t
      <3>. QED
        BY <3>1, <3>2
    <2>6. Upto(H, n + 1)
      <3> HIDE DEF H, Rule
      <3>. QED
        BY <2>3, <2>5
    <2>. HIDE DEF H, Upto
    <2>7. n + 1 \in Nat
      OBVIOUS
    <2>. QED
      BY <2>6, <2>7
  <1>3. A = Nat
    <2>1. A \in SUBSET Nat
      OBVIOUS
    <2> HIDE DEF A
    <2>. QED
      BY <1>1, <1>2, <2>1, NatInd
  <1>4. PICK F : Upto(F, Cardinality(U))
    <2>1. Cardinality(U) \in A
      BY <1>0, <1>3
    <2>. QED
      BY <2>1
  <1>5. \A s \in SUBSET U : Cardinality(s) <= Cardinality(U)
    BY FS_Subset
  <1>6. Solves(F, G, base, pick, U, T)
    BY <1>4, <1>5 DEF Solves
  <1>. QED
    BY <1>6

\* A finite set of integers has a largest element, if it has any.
LEMMA MaxIn ==
  ASSUME NEW S, IsFiniteSet(S), S \subseteq Int, S # {}
  PROVE  Max(S) \in S /\ \A x \in S : Max(S) >= x
  <1> DEFINE pick == [s \in SUBSET S |-> CHOOSE x \in s : TRUE]
             P == {s \in SUBSET S : s = {} \/ \E x \in s : \A y \in s : x >= y}
  <1>1. Takes(pick, S)
    BY DEF Takes
  <1>2. ASSUME NEW s \in SUBSET S, s # {}, s \ {pick[s]} \in P
        PROVE  s \in P
    <2> DEFINE z == pick[s]
               t == s \ {z}
    <2>1. z \in s /\ z \in Int
      BY <1>1, <1>2 DEF Takes
    <2> HIDE DEF z
    <2>2. CASE t = {}
      <3>1. \A y \in s : z >= y
        BY <2>1, <2>2
      <3>. QED
        BY <2>1, <3>1
    <2>3. CASE t # {}
      <3>1. PICK x \in t : \A y \in t : x >= y
        BY <1>2, <2>3 DEF z
      <3>2. x \in s /\ x \in Int
        BY <3>1
      <3>3. CASE x >= z
        BY <2>1, <3>1, <3>2, <3>3
      <3>4. CASE ~ (x >= z)
        <4>1. \A y \in s : z >= y
          BY <2>1, <3>1, <3>2, <3>4
        <4>. QED
          BY <2>1, <4>1
      <3>. QED
        BY <3>3, <3>4
    <2>. QED
      BY <2>2, <2>3
  <1>3. P = SUBSET S
    <2>1. P \in SUBSET (SUBSET S) /\ {} \in P
      OBVIOUS
    <2> HIDE DEF P
    <2>2. \A s \in SUBSET S : s # {} /\ s \ {pick[s]} \in P => s \in P
      BY <1>2
    <2> HIDE DEF pick
    <2>3. Grows(P, pick, S)
      BY <2>1, <2>2 DEF Grows
    <2>. QED
      BY <1>1, <2>3, SubsetInd
  <1>4. \E x \in S : \A y \in S : x >= y
    BY <1>3
  <1>. QED
    BY <1>4 DEF Max

\* Sequences are taken from their end.
LEMMA LastTaken ==
  ASSUME NEW n \in Nat
  PROVE  IsFiniteSet(1..n) /\ Takes([s \in SUBSET (1..n) |-> Max(s)], 1..n)
  <1>1. IsFiniteSet(1..n)
    BY FS_Interval
  <1>2. ASSUME NEW s \in SUBSET (1..n), s # {}
        PROVE  Max(s) \in s
    <2>1. s \subseteq 1..n
      OBVIOUS
    <2>2. IsFiniteSet(s)
      BY <1>1, <2>1, FS_Subset
    <2>3. s \subseteq Int
      OBVIOUS
    <2>. QED
      BY <1>2, <2>2, <2>3, MaxIn
  <1>. QED
    BY <1>1, <1>2 DEF Takes

\* All values of a recursion are of a kind if each is where the one before it is.
LEMMA AllTyped ==
  ASSUME NEW U, IsFiniteSet(U), NEW pick, Takes(pick, U), NEW T, NEW F, F[{}] \in T,
         \A s \in SUBSET U : s # {} /\ F[s \ {pick[s]}] \in T => F[s] \in T
  PROVE  F[U] \in T
  <1> DEFINE P == {s \in SUBSET U : F[s] \in T}
  <1>1. Grows(P, pick, U)
    BY DEF Grows, Takes
  <1> HIDE DEF P
  <1>2. P = SUBSET U
    BY <1>1, SubsetInd
  <1>3. U \in P
    BY <1>2
  <1>. QED
    BY <1>3 DEF P

\* The sum of a ring of integers is one.
LEMMA TotalTyped ==
  ASSUME NEW n \in Nat, NEW ring \in [0..n -> Int]
  PROVE  RingTotal(ring) \in Int
  <1> DEFINE U == DOMAIN ring
             pick == [s \in SUBSET U |-> CHOOSE x \in s : TRUE]
             G == [z \in U \X Int |-> ring[z[1]] + z[2]]
             Rule(F) == F = [s \in SUBSET U |->
                               IF s = {} THEN 0
                               ELSE ring[CHOOSE x \in s : TRUE] + F[s \ {CHOOSE x \in s : TRUE}]]
             F == CHOOSE F : Rule(F)
  <1>1. U = 0..n /\ IsFiniteSet(U)
    BY FS_Interval
  <1>2. Takes(pick, U)
    BY DEF Takes
  <1>3. G \in [U \X Int -> Int]
    BY <1>1
  <1>4. \E H : Rule(H)
    <2>0. PICK H : Solves(H, G, 0, pick, U, Int)
      <3>1. Maps(G, U, Int)
        BY <1>3 DEF Maps
      <3> HIDE DEF U, G, pick
      <3>. QED
        BY <1>1, <1>2, <3>1, Recursion, 0 \in Int
    <2>1. /\ H \in [SUBSET U -> Int]
          /\ \A s \in SUBSET U : H[s] = IF s = {} THEN 0 ELSE G[<<pick[s], H[s \ {pick[s]}]>>]
      <3> HIDE DEF U, G, pick
      <3>. QED
        BY <2>0 DEF Solves
    <2>2. ASSUME NEW s \in SUBSET U, s # {}
          PROVE  G[<<pick[s], H[s \ {pick[s]}]>>]
                   = ring[CHOOSE x \in s : TRUE] + H[s \ {CHOOSE x \in s : TRUE}]
      <3> DEFINE x == CHOOSE x \in s : TRUE
      <3>1. pick[s] = x /\ x \in U /\ H[s \ {x}] \in Int
        BY <2>1, <2>2
      <3> HIDE DEF x
      <3>2. <<x, H[s \ {x}]>> \in U \X Int
        BY <3>1
      <3>3. G[<<x, H[s \ {x}]>>] = ring[x] + H[s \ {x}]
        BY <3>2
      <3>. QED
        BY <3>1, <3>3 DEF x
    <2>3. Rule(H)
      <3> HIDE DEF G, pick, U
      <3>. QED
        BY <2>1, <2>2
    <2>. QED
      BY <2>3
  <1>5. Rule(F)
    BY <1>4
  <1>6. F[U] \in Int
    <2>1. F[{}] = 0
      BY <1>5
    <2>2. ASSUME NEW s \in SUBSET U, s # {}, F[s \ {pick[s]}] \in Int
          PROVE  F[s] \in Int
      <3>1. F[s] = ring[pick[s]] + F[s \ {pick[s]}]
        BY <1>5, <2>2
      <3>2. pick[s] \in 0..n
        BY <1>1, <1>2, <2>2 DEF Takes
      <3>. QED
        BY <2>2, <3>1, <3>2
    <2> HIDE DEF F, pick, U
    <2>. QED
      BY <1>1, <1>2, <2>1, <2>2, AllTyped, 0 \in Int
  <1>7. RingTotal(ring) = F[U]
    BY DEF RingTotal, MapThenSumSet, MapThenFoldSet
  <1>. QED
    BY <1>6, <1>7

\* What a channel's run of the average carries from frame to frame.
AverageStates(taps) ==
  [ring : [0..(taps - 1) -> Int], sum : Int, p : 0..(taps - 1), out : Seq(Int)]

\* A channel's run keeps them so.
LEMMA AverageChannelTyped ==
  ASSUME NEW k, NEW taps \in Nat \ {0}, k.taps = taps, NEW c,
         k.rings[c] \in [0..(taps - 1) -> Int], k.sums[c] \in Int, k.ring_pos \in 0..(taps - 1),
         NEW n \in Nat, NEW xs, DOMAIN xs = 1..n, \A i \in 1..n : FiniteOrZero(xs[i]) \in Int,
         NEW slip \in Int
  PROVE  AverageChannel(k, c, xs, slip) \in AverageStates(taps)
  <1> DEFINE T == AverageStates(taps)
             U == DOMAIN xs
             pick == [s \in SUBSET U |-> Max(s)]
             Step(st, sample) ==
               LET x == FiniteOrZero(sample)
                   entered == [st.ring EXCEPT ![st.p] = x]
                   p == NextTap(k, st.p)
                   now == AverageSum(st.sum, entered, p, x - st.ring[st.p] + slip)
               IN  [ring |-> entered, sum |-> now, p |-> p, out |-> Append(st.out, now)]
             base == [ring |-> k.rings[c], sum |-> k.sums[c], p |-> k.ring_pos, out |-> <<>>]
             G == [z \in U \X T |-> Step(z[2], xs[z[1]])]
             Rule(F) == F = [s \in SUBSET U |->
                               IF s = {} THEN base
                               ELSE Step(F[s \ {Max(s)}], xs[Max(s)])]
             F == CHOOSE F : Rule(F)
  <1>1. U = 1..n /\ IsFiniteSet(U) /\ Takes(pick, U)
    BY LastTaken
  <1>2. ASSUME NEW st \in T, NEW sample, FiniteOrZero(sample) \in Int
        PROVE  Step(st, sample) \in T
    <2> DEFINE x == FiniteOrZero(sample)
               entered == [st.ring EXCEPT ![st.p] = x]
               p == NextTap(k, st.p)
               now == AverageSum(st.sum, entered, p, x - st.ring[st.p] + slip)
    <2>1. /\ st.ring \in [0..(taps - 1) -> Int] /\ st.sum \in Int /\ st.p \in 0..(taps - 1)
          /\ st.out \in Seq(Int) /\ x \in Int
      BY <1>2 DEF AverageStates
    <2> HIDE DEF x
    <2>2. entered \in [0..(taps - 1) -> Int]
      BY <2>1
    <2>3. p \in 0..(taps - 1)
      <3> DEFINE q == st.p
      <3>1. q \in 0..(taps - 1) /\ p = IF q + 1 = taps THEN 0 ELSE q + 1
        BY <2>1, Zenon DEF NextTap
      <3> HIDE DEF q, p
      <3>. QED
        BY <3>1
    <2>4. RingTotal(entered) \in Int
      <3>1. taps - 1 \in Nat
        OBVIOUS
      <3> HIDE DEF entered
      <3>. QED
        BY <2>2, <3>1, TotalTyped
    <2>5. x - st.ring[st.p] + slip \in Int
      <3> DEFINE old == st.ring[st.p]
      <3>1. old \in Int
        BY <2>1
      <3> HIDE DEF old
      <3>2. x - old + slip \in Int
        BY <2>1, <3>1
      <3>. QED
        BY <3>2 DEF old
    <2> HIDE DEF entered, p
    <2>6. now \in Int
      <3> DEFINE change == x - st.ring[st.p] + slip
      <3>1. now = IF p = 0 THEN RingTotal(entered) ELSE st.sum + change
        BY Zenon DEF AverageSum
      <3>2. change \in Int
        BY <2>5
      <3> HIDE DEF change, now
      <3>. QED
        BY <2>1, <2>4, <3>1, <3>2
    <2> HIDE DEF now
    <2>7. Append(st.out, now) \in Seq(Int)
      BY <2>1, <2>6
    <2>8. Step(st, sample) = [ring |-> entered, sum |-> now, p |-> p, out |-> Append(st.out, now)]
      BY Zenon DEF entered, now, p, x
    <2>. QED
      BY <2>2, <2>3, <2>6, <2>7, <2>8 DEF AverageStates
  <1>3. base \in T
    BY DEF AverageStates
  <1> HIDE DEF T, Step, base, U, pick
  <1>4. \A i \in U : FiniteOrZero(xs[i]) \in Int
    BY <1>1
  <1>5. G \in [U \X T -> T]
    BY <1>2, <1>4
  <1>6. \E H : Rule(H)
    <2>0. PICK H : Solves(H, G, base, pick, U, T)
      <3>1. Maps(G, U, T)
        BY <1>5 DEF Maps
      <3> HIDE DEF G
      <3>. QED
        BY <1>1, <1>3, <3>1, Recursion
    <2>1. /\ H \in [SUBSET U -> T]
          /\ \A s \in SUBSET U : H[s] = IF s = {} THEN base ELSE G[<<pick[s], H[s \ {pick[s]}]>>]
      <3> HIDE DEF G
      <3>. QED
        BY <2>0 DEF Solves
    <2>2. ASSUME NEW s \in SUBSET U, s # {}
          PROVE  G[<<pick[s], H[s \ {pick[s]}]>>] = Step(H[s \ {Max(s)}], xs[Max(s)])
      <3> DEFINE x == Max(s)
      <3>1. pick[s] = x /\ x \in U
        BY <1>1, <2>2 DEF pick, Takes
      <3>2. H[s \ {x}] \in T
        BY <2>1, <3>1
      <3> HIDE DEF x
      <3>3. G[<<x, H[s \ {x}]>>] = Step(H[s \ {x}], xs[x])
        BY <3>1, <3>2
      <3>. QED
        BY <3>1, <3>3 DEF x
    <2>3. Rule(H)
      <3> HIDE DEF G
      <3>. QED
        BY <2>1, <2>2
    <2>. QED
      BY <2>3
  <1>7. Rule(F)
    BY <1>6
  <1>8. F[U] \in T
    <2>1. F[{}] \in T
      BY <1>3, <1>7
    <2>2. ASSUME NEW s \in SUBSET U, s # {}, F[s \ {pick[s]}] \in T
          PROVE  F[s] \in T
      <3>1. F[s] = Step(F[s \ {Max(s)}], xs[Max(s)])
        BY <1>7, <2>2
      <3>2. pick[s] = Max(s) /\ Max(s) \in U
        BY <1>1, <2>2 DEF pick, Takes
      <3>. QED
        BY <1>2, <1>4, <2>2, <3>1, <3>2
    <2> HIDE DEF F
    <2>. QED
      BY <1>1, <2>1, <2>2, AllTyped
  <1>9. AverageChannel(k, c, xs, slip) = F[U]
    BY DEF AverageChannel, FoldLeft, MapThenFoldSet, Step, base, U
  <1>. QED
    BY <1>8, <1>9 DEF T

\* The largest magnitude of a frame is one, and nothing less than silence.
LEMMA LevelTyped ==
  ASSUME NEW m \in Nat, NEW planes, DOMAIN planes = 1..m, NEW i,
         \A c \in 1..m : FiniteOrZero(planes[c][i]) \in Int
  PROVE  Level(planes, i) \in Nat
  <1> DEFINE S == {Magnitude(FiniteOrZero(planes[c][i])) : c \in DOMAIN planes}
  <1>1. \A c \in 1..m : Magnitude(FiniteOrZero(planes[c][i])) \in Nat
    BY DEF Magnitude
  <1>2. S \subseteq Nat
    BY <1>1
  <1>3. IsFiniteSet(S)
    <2>1. IsFiniteSet(1..m)
      BY FS_Interval
    <2> DEFINE f == [c \in 1..m |-> Magnitude(FiniteOrZero(planes[c][i]))]
    <2>2. f \in Surjection(1..m, S)
      BY DEF Surjection
    <2> HIDE DEF f, S
    <2>. QED
      BY <2>1, <2>2, FS_Surjection
  <1> HIDE DEF S
  <1>4. IsFiniteSet({0} \cup S)
    BY <1>3, FS_Singleton, FS_Union
  <1>5. {0} \cup S \subseteq Int /\ {0} \cup S # {}
    BY <1>2
  <1>6. Max({0} \cup S) \in {0} \cup S
    <2> DEFINE all == {0} \cup S
    <2> HIDE DEF all
    <2>1. Max(all) \in all
      BY <1>4, <1>5, MaxIn DEF all
    <2>. QED
      BY <2>1 DEF all
  <1>. QED
    BY <1>2, <1>6 DEF Level, S

\* An envelope neither rises above a level nor falls below it, whatever its coefficients.
LEMMA FollowTyped ==
  ASSUME NEW k, k.atk \in Nat \ {0}, k.rel \in Nat \ {0}, NEW env \in Nat, NEW level \in Nat
  PROVE  Follow(k, env, level) \in Nat
  <1>1. CASE level > env
    <2>1. level - env \in Nat
      BY <1>1
    <2> DEFINE d == level - env
               q == d \div k.atk
    <2> HIDE DEF d
    <2>2. q \in Nat
      BY <2>1, Quotients DEF d
    <2>3. Follow(k, env, level) = env + q
      BY <1>1 DEF Follow, d
    <2> HIDE DEF q
    <2>. QED
      BY <2>2, <2>3
  <1>2. CASE ~ (level > env)
    <2> DEFINE d == env - level
               r == k.rel
               x == d + r - 1
               q == x \div r
    <2>1. d \in Nat /\ r \in Nat \ {0} /\ x \in Nat /\ env - level + k.rel - 1 = x
      BY <1>2
    <2>2. Follow(k, env, level) = env - q
      BY <1>2 DEF Follow
    <2> HIDE DEF x
    <2>3. q \in Nat /\ r * q <= x
      BY <2>1, Quotients
    <2> HIDE DEF q, r
    <2>4. q <= d
      <3>1. SUFFICES ASSUME q >= d + 1 PROVE FALSE
        BY <2>1, <2>3
      <3>2. r * (q - (d + 1)) \in Nat /\ (r - 1) * d \in Nat
        BY <2>1, <2>3, <3>1, NatProducts
      <3>3. r * (q - (d + 1)) = r * q - r * d - r /\ (r - 1) * d = r * d - d
        BY <2>1, <2>3
      <3>4. r * q \in Nat /\ r * d \in Nat /\ x = d + r - 1
        BY <2>1, <2>3, NatProducts DEF x, r
      <3> HIDE DEF d
      <3>. QED
        BY <2>1, <2>3, <3>2, <3>3, <3>4
    <2>5. d <= env
      OBVIOUS
    <2> HIDE DEF d
    <2>. QED
      BY <2>1, <2>2, <2>3, <2>4, <2>5
  <1>. QED
    BY <1>1, <1>2

EnvelopeStates == [env : Nat, envs : Seq(Nat)]

\* A run leaves an envelope.
LEMMA EnvelopesTyped ==
  ASSUME NEW k, k.atk \in Nat \ {0}, k.rel \in Nat \ {0}, k.env \in Nat,
         NEW run, NEW n \in Nat, run.len = n, NEW heard, heard = Detector(k, run),
         \A i \in 1..n : Level(heard, i) \in Nat
  PROVE  Envelopes(k, run) \in EnvelopeStates
  <1> DEFINE T == EnvelopeStates
             xs == [i \in 1..run.len |-> i]
             U == DOMAIN xs
             pick == [s \in SUBSET U |-> Max(s)]
             Step(st, i) == LET env == Follow(k, st.env, Level(heard, i))
                            IN  [env |-> env, envs |-> Append(st.envs, env)]
             base == [env |-> k.env, envs |-> <<>>]
             G == [z \in U \X T |-> Step(z[2], xs[z[1]])]
             Rule(F) == F = [s \in SUBSET U |->
                               IF s = {} THEN base
                               ELSE Step(F[s \ {Max(s)}], xs[Max(s)])]
             F == CHOOSE F : Rule(F)
  <1>1. U = 1..n /\ IsFiniteSet(U) /\ Takes(pick, U)
    BY LastTaken
  <1>2. ASSUME NEW st \in T, NEW i \in 1..n
        PROVE  Step(st, i) \in T
    <2> DEFINE env == Follow(k, st.env, Level(heard, i))
    <2>1. env \in Nat
      BY FollowTyped DEF EnvelopeStates
    <2> HIDE DEF env
    <2>2. Append(st.envs, env) \in Seq(Nat)
      BY <2>1 DEF EnvelopeStates
    <2>3. Step(st, i) = [env |-> env, envs |-> Append(st.envs, env)]
      BY Zenon DEF env
    <2>. QED
      BY <2>1, <2>2, <2>3 DEF EnvelopeStates
  <1>3. base \in T
    BY DEF EnvelopeStates
  <1>4. \A i \in U : xs[i] \in 1..n
    OBVIOUS
  <1> HIDE DEF T, Step, base, U, pick, xs
  <1>5. G \in [U \X T -> T]
    BY <1>2, <1>4
  <1>6. \E H : Rule(H)
    <2>0. PICK H : Solves(H, G, base, pick, U, T)
      <3>1. Maps(G, U, T)
        BY <1>5 DEF Maps
      <3> HIDE DEF G
      <3>. QED
        BY <1>1, <1>3, <3>1, Recursion
    <2>1. /\ H \in [SUBSET U -> T]
          /\ \A s \in SUBSET U : H[s] = IF s = {} THEN base ELSE G[<<pick[s], H[s \ {pick[s]}]>>]
      <3> HIDE DEF G
      <3>. QED
        BY <2>0 DEF Solves
    <2>2. ASSUME NEW s \in SUBSET U, s # {}
          PROVE  G[<<pick[s], H[s \ {pick[s]}]>>] = Step(H[s \ {Max(s)}], xs[Max(s)])
      <3> DEFINE x == Max(s)
      <3>1. pick[s] = x /\ x \in U
        BY <1>1, <2>2 DEF pick, Takes
      <3>2. H[s \ {x}] \in T
        BY <2>1, <3>1
      <3> HIDE DEF x
      <3>3. G[<<x, H[s \ {x}]>>] = Step(H[s \ {x}], xs[x])
        BY <3>1, <3>2
      <3>. QED
        BY <3>1, <3>3 DEF x
    <2>3. Rule(H)
      <3> HIDE DEF G
      <3>. QED
        BY <2>1, <2>2
    <2>. QED
      BY <2>3
  <1>7. Rule(F)
    BY <1>6
  <1>8. F[U] \in T
    <2>1. F[{}] \in T
      BY <1>3, <1>7
    <2>2. ASSUME NEW s \in SUBSET U, s # {}, F[s \ {pick[s]}] \in T
          PROVE  F[s] \in T
      <3>1. F[s] = Step(F[s \ {Max(s)}], xs[Max(s)])
        BY <1>7, <2>2
      <3>2. pick[s] = Max(s) /\ Max(s) \in U
        BY <1>1, <2>2 DEF pick, Takes
      <3>. QED
        BY <1>2, <1>4, <2>2, <3>1, <3>2
    <2> HIDE DEF F
    <2>. QED
      BY <1>1, <2>1, <2>2, AllTyped
  <1>9. Envelopes(k, run) = F[U]
    BY DEF Envelopes, FoldLeft, MapThenFoldSet, Step, base, U, xs
  <1>. QED
    BY <1>8, <1>9 DEF T

\* A run leaves the oscillator in its period.
LEMMA PhaseTyped ==
  ASSUME NEW k, k.fs \in Nat \ {0}, k.phase \in 0..(Cycle - 1), NEW n \in Nat,
         NEW p, p[1] \in Nat
  PROVE  OscillatorChannel(k, n, p).ph \in 0..(Cycle - 1)
  <1> DEFINE dt == Increment(k, p[1])
             Sample(ph) == <<p[2], Wave(k.waveform, ph, dt)>>
             V == {Sample(ph) : ph \in 0..(Cycle - 1)}
             T == [ph : 0..(Cycle - 1), out : Seq(V)]
             xs == [i \in 1..n |-> i]
             U == DOMAIN xs
             pick == [s \in SUBSET U |-> Max(s)]
             Step(st, i) == [ph |-> WrapPhase(st.ph + dt),
                             out |-> Append(st.out, <<p[2], Wave(k.waveform, st.ph, dt)>>)]
             base == [ph |-> k.phase, out |-> <<>>]
             G == [z \in U \X T |-> Step(z[2], xs[z[1]])]
             Rule(F) == F = [s \in SUBSET U |->
                               IF s = {} THEN base
                               ELSE Step(F[s \ {Max(s)}], xs[Max(s)])]
             F == CHOOSE F : Rule(F)
  <1>1. U = 1..n /\ IsFiniteSet(U) /\ Takes(pick, U)
    BY LastTaken
  <1>2. ASSUME NEW st \in T, NEW i
        PROVE  Step(st, i) \in T
    <2>1. st.ph \in 0..(Cycle - 1) /\ st.out \in Seq(V)
      <3> HIDE DEF V
      <3>. QED
        OBVIOUS
    <2>2. WrapPhase(st.ph + dt) \in 0..(Cycle - 1)
      BY <2>1, PhaseKept
    <2>3. Sample(st.ph) \in V
      BY <2>1
    <2>4. Step(st, i) = [ph |-> WrapPhase(st.ph + dt), out |-> Append(st.out, Sample(st.ph))]
      BY Zenon
    <2> HIDE DEF V, Sample, dt, Step
    <2>5. Append(st.out, Sample(st.ph)) \in Seq(V)
      BY <2>1, <2>3
    <2>. QED
      BY <2>2, <2>4, <2>5
  <1>3. base \in T
    <2> HIDE DEF V
    <2>. QED
      OBVIOUS
  <1>4. \A st \in T : st.ph \in 0..(Cycle - 1)
    <2> HIDE DEF V
    <2>. QED
      OBVIOUS
  <1> HIDE DEF T, Step, base, U, pick, xs
  <1>5. G \in [U \X T -> T]
    BY <1>2
  <1>6. \E H : Rule(H)
    <2>0. PICK H : Solves(H, G, base, pick, U, T)
      <3>1. Maps(G, U, T)
        BY <1>5 DEF Maps
      <3> HIDE DEF G
      <3>. QED
        BY <1>1, <1>3, <3>1, Recursion
    <2>1. /\ H \in [SUBSET U -> T]
          /\ \A s \in SUBSET U : H[s] = IF s = {} THEN base ELSE G[<<pick[s], H[s \ {pick[s]}]>>]
      <3> HIDE DEF G
      <3>. QED
        BY <2>0 DEF Solves
    <2>2. ASSUME NEW s \in SUBSET U, s # {}
          PROVE  G[<<pick[s], H[s \ {pick[s]}]>>] = Step(H[s \ {Max(s)}], xs[Max(s)])
      <3> DEFINE x == Max(s)
      <3>1. pick[s] = x /\ x \in U
        BY <1>1, <2>2 DEF pick, Takes
      <3>2. H[s \ {x}] \in T
        BY <2>1, <3>1
      <3> HIDE DEF x
      <3>3. G[<<x, H[s \ {x}]>>] = Step(H[s \ {x}], xs[x])
        BY <3>1, <3>2
      <3>. QED
        BY <3>1, <3>3 DEF x
    <2>3. Rule(H)
      <3> HIDE DEF G
      <3>. QED
        BY <2>1, <2>2
    <2>. QED
      BY <2>3
  <1>7. Rule(F)
    BY <1>6
  <1>8. F[U] \in T
    <2>1. F[{}] \in T
      BY <1>3, <1>7
    <2>2. ASSUME NEW s \in SUBSET U, s # {}, F[s \ {pick[s]}] \in T
          PROVE  F[s] \in T
      <3>1. F[s] = Step(F[s \ {Max(s)}], xs[Max(s)])
        BY <1>7, <2>2
      <3>2. pick[s] = Max(s)
        BY <2>2 DEF pick
      <3>. QED
        BY <1>2, <2>2, <3>1, <3>2
    <2> HIDE DEF F
    <2>. QED
      BY <1>1, <2>1, <2>2, AllTyped
  <1>9. OscillatorChannel(k, n, p) = F[U]
    BY DEF OscillatorChannel, FoldLeft, MapThenFoldSet, Step, base, U, xs, dt
  <1> HIDE DEF F
  <1>. QED
    BY <1>4, <1>8, <1>9

-----------------------------------------------------------------------------
(* The shape of a kernel. *)

\* What a kernel with a state for ch channels looks like.
Shaped(kind_, k, ch) ==
  /\ kind_ = "average" =>
       /\ k.rings \in [1..ch -> [0..(k.taps - 1) -> Int]] /\ k.sums \in [1..ch -> Int]
       /\ k.ring_pos \in 0..AverageTail(k) /\ k.flushed \in 0..AverageTail(k)
  /\ kind_ \in Filters =>
       DOMAIN k.state = 1..ch /\ k.tail_bound \in Nat /\ k.flushed \in 0..k.tail_bound
  /\ kind_ = "dynamics" => k.env \in Nat
  /\ kind_ = "oscillator" => k.phase \in 0..(Cycle - 1)
  /\ kind_ \in {"noise", "dither"} =>
       /\ DOMAIN k.rngs = 1..ch
       /\ \A c \in 1..ch : /\ "seed" \in DOMAIN k.rngs[c]
                          /\ k.rngs[c].seed = ChannelSeed(k.seed, c)

\* What running it relies on besides.
Runnable(kind_, k) ==
  /\ kind_ = "average" => k.taps \in Nat \ {0}
  /\ kind_ = "dynamics" => k.atk \in Nat \ {0} /\ k.rel \in Nat \ {0}
  /\ kind_ = "oscillator" => k.fs \in Nat \ {0}

\* ch planes of n frames that are samples from the first on.
Sampled(planes, ch, n, first) ==
  /\ DOMAIN planes = 1..ch
  /\ \A c \in 1..ch : /\ DOMAIN planes[c] = 1..n
                      /\ \A i \in first..n : FiniteOrZero(planes[c][i]) \in Int

\* Silence is samples.
LEMMA SilenceSampled ==
  ASSUME NEW ch \in Nat, NEW n \in Nat
  PROVE  Sampled(Silence(ch, n), ch, n, 1)
  BY ParameterAssumption DEF Sampled, Silence, FiniteOrZero, Finite

\* A run of the average keeps its shape.
LEMMA AverageRunShaped ==
  ASSUME NEW k, Formed("average", k), Runnable("average", k), NEW ch \in Nat,
         Shaped("average", k, ch), NEW n \in Nat, NEW planes, Sampled(planes, ch, n, 1),
         NEW slip \in Int
  PROVE  /\ Shaped("average", AverageRun(k, planes, slip).kernel, ch)
         /\ AverageRun(k, planes, slip).kernel.flushed = k.flushed
         /\ AverageRun(k, planes, slip).kernel.taps = k.taps
  <1> DEFINE taps == k.taps
             at == [c \in DOMAIN k.sums |-> AverageChannel(k, c, planes[c], slip)]
             j == AverageRun(k, planes, slip).kernel
             T == AverageStates(taps)
  <1>1. taps \in Nat \ {0} /\ AverageTail(k) = taps - 1
    BY DEF Runnable, AverageTail
  <1>2. /\ k.rings \in [1..ch -> [0..(taps - 1) -> Int]] /\ k.sums \in [1..ch -> Int]
        /\ k.ring_pos \in 0..(taps - 1) /\ k.flushed \in 0..(taps - 1)
    BY <1>1 DEF Shaped
  <1>3. DOMAIN k = {"taps", "rings", "sums", "ring_pos", "flushed"}
    BY SMT DEF Formed
  <1>4. ASSUME NEW c \in 1..ch
        PROVE  AverageChannel(k, c, planes[c], slip) \in T
    <2>1. DOMAIN planes[c] = 1..n /\ \A i \in 1..n : FiniteOrZero(planes[c][i]) \in Int
      BY DEF Sampled
    <2> HIDE DEF taps
    <2>2. k.rings[c] \in [0..(taps - 1) -> Int] /\ k.sums[c] \in Int
      BY <1>2
    <2>. QED
      BY <1>1, <1>2, <2>1, <2>2, AverageChannelTyped DEF taps
  <1>5. DOMAIN at = 1..ch /\ \A c \in 1..ch : at[c] \in T
    BY <1>2, <1>4
  <1>6. j = [k EXCEPT !.rings = [c \in DOMAIN at |-> at[c].ring],
                      !.sums = [c \in DOMAIN at |-> at[c].sum],
                      !.ring_pos = IF at = <<>> THEN @ ELSE Last(at).p]
    BY Zenon DEF AverageRun
  <1> HIDE DEF at, j, taps
  <1>7. /\ j.rings = [c \in 1..ch |-> at[c].ring]
        /\ j.sums = [c \in 1..ch |-> at[c].sum]
        /\ j.ring_pos = IF at = <<>> THEN k.ring_pos ELSE Last(at).p
        /\ j.flushed = k.flushed /\ j.taps = k.taps
    BY <1>3, <1>5, <1>6
  <1>8. \A c \in 1..ch : /\ at[c].ring \in [0..(taps - 1) -> Int] /\ at[c].sum \in Int
                         /\ at[c].p \in 0..(taps - 1)
    BY <1>5 DEF AverageStates
  <1>9. j.ring_pos \in 0..(taps - 1)
    <2>1. CASE at = <<>>
      BY <1>2, <1>7, <2>1
    <2>2. CASE at # <<>>
      <3>1. ch # 0 /\ Len(at) = ch
        <4>1. Len(at) = ch
          BY <1>5, Length
        <4>. QED
          BY <1>5, <2>2, <4>1
      <3>2. Last(at) = at[ch] /\ ch \in 1..ch
        BY <3>1 DEF Last
      <3>. QED
        BY <1>7, <1>8, <2>2, <3>2
    <2>. QED
      BY <2>1, <2>2
  <1>10. j.rings \in [1..ch -> [0..(taps - 1) -> Int]] /\ j.sums \in [1..ch -> Int]
    BY <1>7, <1>8
  <1>11. AverageTail(j) = taps - 1
    BY <1>1, <1>7 DEF AverageTail, taps
  <1>12. Shaped("average", j, ch)
    BY <1>2, <1>7, <1>9, <1>10, <1>11 DEF Shaped, Filters, taps
  <1>. QED
    BY <1>7, <1>12 DEF j

\* A drain gives no more than what is left.
LEMMA WantBounded ==
  ASSUME NEW k, AverageTail(k) \in Nat, k.flushed \in 0..AverageTail(k), NEW room \in Nat
  PROVE  /\ AverageWant(k, room) \in Nat
         /\ k.flushed + AverageWant(k, room) \in 0..AverageTail(k)
  <1> DEFINE left == AverageTail(k) - k.flushed
  <1>1. left \in Nat
    OBVIOUS
  <1>2. Max({left, 0}) = left
    <2>1. \E x \in {left, 0} : \A y \in {left, 0} : x >= y
      BY <1>1
    <2> HIDE DEF left
    <2>. QED
      BY <1>1, <2>1 DEF Max
  <1>3. AverageWant(k, room) \in {room, left} /\ AverageWant(k, room) <= left
    <2> HIDE DEF left
    <2>1. \E x \in {room, left} : \A y \in {room, left} : x <= y
      BY <1>1
    <2>. QED
      BY <1>1, <1>2, <2>1 DEF AverageWant, Min, left
  <1> DEFINE want == AverageWant(k, room)
  <1> HIDE DEF want
  <1>4. want \in Nat /\ want <= left
    BY <1>1, <1>3 DEF want
  <1>. QED
    BY <1>4 DEF want

\* So do its methods.
LEMMA AverageShaped ==
  ASSUME NEW k, Formed("average", k), NEW ch \in Nat
  PROVE  /\ Shaped("average", AverageCleared(k, ch), ch)
         /\ Shaped("average", k, ch) => Shaped("average", AverageReset(k), ch)
         /\ Shaped("average", k, ch) /\ Runnable("average", k) =>
              /\ \A room \in Nat, slip \in Int : Shaped("average", AverageFlush(k, room, slip).kernel, ch)
              /\ \A run : \A n \in Nat, slip \in Int :
                   Sampled(Input(run), ch, n, 1) =>
                     Shaped("average", AverageRender(k, run, slip).kernel, ch)
  <1>1. k.taps \in Nat /\ DOMAIN k = {"taps", "rings", "sums", "ring_pos", "flushed"}
    BY SMT DEF Formed
  <1>2. Shaped("average", AverageCleared(k, ch), ch)
    <2> DEFINE j == AverageCleared(k, ch)
    <2>1. /\ j.rings = [c \in 1..ch |-> [i \in 0..(k.taps - 1) |-> 0]]
          /\ j.sums = [c \in 1..ch |-> 0] /\ j.ring_pos = 0 /\ j.flushed = 0 /\ j.taps = k.taps
      BY <1>1 DEF AverageCleared
    <2>2. AverageTail(j) \in Nat
      BY <1>1, <2>1 DEF AverageTail
    <2> HIDE DEF j
    <2>3. /\ j.rings \in [1..ch -> [0..(j.taps - 1) -> Int]]
          /\ j.sums \in [1..ch -> Int] /\ j.ring_pos \in 0..AverageTail(j)
          /\ j.flushed \in 0..AverageTail(j)
      BY <2>1, <2>2
    <2>4. Shaped("average", j, ch)
      BY <2>3, Zenon DEF Shaped, Filters
    <2>. QED
      BY <2>4 DEF j
  <1>3. ASSUME Shaped("average", k, ch)
        PROVE  Shaped("average", AverageReset(k), ch)
    <2>1. DOMAIN k.sums = 1..ch
      BY <1>3 DEF Shaped
    <2>2. Len(k.sums) = ch
      BY <2>1, Length
    <2>. QED
      BY <1>2, <2>2, Zenon DEF AverageReset
  <1>4. ASSUME Shaped("average", k, ch), Runnable("average", k), NEW room \in Nat, NEW slip \in Int
        PROVE  Shaped("average", AverageFlush(k, room, slip).kernel, ch)
    <2> DEFINE want == AverageWant(k, room)
               j == AverageRun(k, Silence(Len(k.sums), want), slip).kernel
               l == AverageFlush(k, room, slip).kernel
    <2>1. AverageTail(k) \in Nat /\ k.flushed \in 0..AverageTail(k)
      BY <1>1, <1>4 DEF AverageTail, Shaped
    <2>2. want \in Nat /\ k.flushed + want \in 0..AverageTail(k)
      BY <2>1, WantBounded
    <2>3. Len(k.sums) = ch
      <3>1. DOMAIN k.sums = 1..ch
        BY <1>4 DEF Shaped
      <3>. QED
        BY <3>1, Length
    <2>4. l = [j EXCEPT !.flushed = @ + want]
      BY Zenon DEF AverageFlush
    <2> HIDE DEF want, l
    <2>5. Shaped("average", j, ch) /\ j.flushed = k.flushed /\ j.taps = k.taps
      <3>1. Sampled(Silence(Len(k.sums), want), ch, want, 1)
        BY <2>2, <2>3, SilenceSampled
      <3>. QED
        BY <1>4, <2>2, <3>1, AverageRunShaped
    <2>6. DOMAIN j = DOMAIN k
      BY AverageKeeps DEF Holds, Keeps
    <2> HIDE DEF j
    <2>7. /\ l.rings = j.rings /\ l.sums = j.sums /\ l.ring_pos = j.ring_pos
          /\ l.flushed = k.flushed + want /\ l.taps = k.taps
      BY <1>1, <2>4, <2>5, <2>6
    <2>8. AverageTail(l) = AverageTail(k) /\ AverageTail(j) = AverageTail(k)
      BY <2>5, <2>7 DEF AverageTail
    <2>9. /\ l.rings \in [1..ch -> [0..(l.taps - 1) -> Int]] /\ l.sums \in [1..ch -> Int]
          /\ l.ring_pos \in 0..AverageTail(l) /\ l.flushed \in 0..AverageTail(l)
      BY <2>2, <2>5, <2>7, <2>8 DEF Shaped
    <2>10. Shaped("average", l, ch)
      BY <2>9, Zenon DEF Shaped, Filters
    <2>. QED
      BY <2>10 DEF l
  <1>5. ASSUME Shaped("average", k, ch), Runnable("average", k), NEW run, NEW n \in Nat,
               NEW slip \in Int, Sampled(Input(run), ch, n, 1)
        PROVE  Shaped("average", AverageRender(k, run, slip).kernel, ch)
    <2> DEFINE j == [k EXCEPT !.flushed = 0]
    <2>1. /\ j.rings = k.rings /\ j.sums = k.sums /\ j.ring_pos = k.ring_pos
          /\ j.flushed = 0 /\ j.taps = k.taps /\ DOMAIN j = DOMAIN k
      BY <1>1
    <2> HIDE DEF j
    <2>2. AverageTail(j) = AverageTail(k) /\ AverageTail(k) \in Nat
      BY <1>1, <2>1 DEF AverageTail
    <2>3. Shaped("average", j, ch)
      <3>1. /\ j.rings \in [1..ch -> [0..(j.taps - 1) -> Int]] /\ j.sums \in [1..ch -> Int]
            /\ j.ring_pos \in 0..AverageTail(j) /\ j.flushed \in 0..AverageTail(j)
        BY <1>5, <2>1, <2>2 DEF Shaped
      <3>. QED
        BY <3>1, Zenon DEF Shaped, Filters
    <2>4. Formed("average", j) /\ Runnable("average", j)
      BY <1>1, <1>5, <2>1 DEF Formed, Runnable
    <2>5. Shaped("average", AverageRun(j, Input(run), slip).kernel, ch)
      BY <1>5, <2>3, <2>4, AverageRunShaped
    <2>. QED
      BY <2>5, Zenon DEF AverageRender, j
  <1>. QED
    BY <1>2, <1>3, <1>4, <1>5

\* There is a first frame at which a state has decayed.
LEMMA DecayTyped ==
  ASSUME NEW h \in 0..49
  PROVE  DecayFrames(Radius[h]) \in Nat /\ Decayed(Radius[h], DecayFrames(Radius[h]))
  <1> DEFINE r == Radius[h]
             T == {n \in 0..LongestDecay : Decayed(r, n)}
  <1>1. T # {} /\ T \subseteq Nat
    <2>1. \E n \in 0..LongestDecay : Decayed(r, n)
      BY DecayAssumption
    <2>2. 0..LongestDecay \subseteq Nat
      BY DEF LongestDecay
    <2>. QED
      BY <2>1, <2>2
  <1>2. IsWellFoundedOn(Below, Nat)
    BY NatLessThanWellFounded DEF OpToRel, Below
  <1>3. PICK n \in T : \A m \in T : ~ (<<m, n>> \in Below)
    <2> HIDE DEF T
    <2>. QED
      BY <1>1, <1>2, WFMin, Zenon
  <1>4. n \in 0..LongestDecay /\ Decayed(r, n) /\ n \in Nat
    BY DEF LongestDecay
  <1>5. ASSUME NEW m \in 0..(n - 1)
        PROVE  ~ Decayed(r, m)
    <2>1. m \in Nat /\ m < n /\ m \in 0..LongestDecay
      BY <1>4 DEF LongestDecay
    <2>2. <<m, n>> \in Below
      BY <1>4, <2>1 DEF Below
    <2>3. m \notin T
      BY <1>3, <2>2
    <2>. QED
      BY <2>1, <2>3
  <1>6. \E i \in 0..LongestDecay : Decayed(r, i) /\ \A m \in 0..(i - 1) : ~ Decayed(r, m)
    BY <1>4, <1>5
  <1> HIDE DEF r
  <1>7. DecayFrames(r) \in 0..LongestDecay /\ Decayed(r, DecayFrames(r))
    BY <1>6, Zenon DEF DecayFrames
  <1>. QED
    BY <1>7 DEF LongestDecay, r

\* A lowest cutoff of any rate is in the range of the poles.
LEMMA PoleShare ==
  ASSUME NEW hz \in Int, NEW fs \in Nat, fs >= 1
  PROVE  DcClampCutoff(hz, fs) \div fs \in 0..49
  <1> DEFINE clamped == DcClampCutoff(hz, fs)
             h == clamped \div fs
  <1>1. clamped \in Nat /\ clamped <= 49 * fs
    BY DEF DcClampCutoff, ClampTo
  <1> HIDE DEF clamped
  <1>2. h \in Nat /\ fs * h <= clamped
    BY <1>1, Quotients
  <1> HIDE DEF h
  <1>3. h <= 49
    <2>1. SUFFICES ASSUME h >= 50 PROVE FALSE
      BY <1>2
    <2>2. fs * (h - 50) \in Nat
      BY <1>2, <2>1, NatProducts
    <2>3. fs * (h - 50) = fs * h - 50 * fs /\ fs * h \in Nat
      BY <1>2, NatProducts
    <2>. QED
      BY <1>1, <1>2, <2>2, <2>3
  <1>. QED
    BY <1>2, <1>3 DEF h, clamped

\* Bounds of the tail.
LEMMA TailBounds ==
  /\ \A fs \in Nat : fs >= 1 => DcTailBound(fs) \in Nat
  /\ \A k : k.params[1].lo = 10 /\ k.params[1].hi = HighestCutoff =>
       \A fs \in Nat : fs >= 3 => BiquadTailBound(k, fs) \in Nat
  <1>1. ASSUME NEW fs \in Nat, fs >= 1
        PROVE  DcTailBound(fs) \in Nat
    <2> DEFINE n == DecayFrames(Pole(DcLowest, fs))
    <2>1. n \in Nat
      <3>1. DcClampCutoff(DcLowest, fs) \div fs \in 0..49
        <4>1. DcLowest \in Int
          BY DEF DcLowest
        <4>. QED
          BY <1>1, <4>1, PoleShare
      <3> DEFINE h == DcClampCutoff(DcLowest, fs) \div fs
      <3>2. n = DecayFrames(Radius[h])
        BY Zenon DEF Pole
      <3>3. h \in 0..49
        BY <3>1
      <3> HIDE DEF h, n
      <3>. QED
        BY <3>2, <3>3, DecayTyped
    <2> HIDE DEF n
    <2>2. DcTailBound(fs) = n + 1
      BY DEF DcTailBound, n
    <2>. QED
      BY <2>1, <2>2
  <1>2. ASSUME NEW k, k.params[1].lo = 10, k.params[1].hi = HighestCutoff, NEW fs \in Nat, fs >= 3
        PROVE  BiquadTailBound(k, fs) \in Nat
    <2> DEFINE a == Sin[Share(10, fs)]
               b == Sin[Share(HighestCutoff, fs)]
    <2>1. Share(10, fs) \in 0..49 /\ Share(HighestCutoff, fs) \in 0..49
      <3> DEFINE low == 10
                 high == HighestCutoff
      <3>1. low \in Int /\ high \in Int
        BY DEF HighestCutoff
      <3> HIDE DEF low, high
      <3>2. Share(low, fs) \in 0..49 /\ Share(high, fs) \in 0..49
        BY <1>2, <3>1, ShareBounded
      <3>. QED
        BY <3>2 DEF low, high
    <2>2. a \in Nat /\ b \in Nat /\ BiquadDecay[a] \in Nat /\ BiquadDecay[b] \in Nat
      <3>1. \A h \in 0..49 : Sin[h] \in 1..Unit /\ BiquadDecay[Sin[h]] \in Nat
        BY CoefficientAssumption
      <3>2. \A h \in 0..49 : Sin[h] \in Nat
        BY <3>1, TailAssumption
      <3>. QED
        BY <2>1, <3>1, <3>2
    <2>3. BiquadTailBound(k, fs) = BiquadDecay[Min({a, b})]
      <3> DEFINE low == k.params[1].lo
                 high == k.params[1].hi
      <3>1. low = 10 /\ high = HighestCutoff
        BY <1>2
      <3>2. BiquadTailBound(k, fs) = BiquadDecay[Min({Sin[Share(low, fs)], Sin[Share(high, fs)]})]
        BY Zenon DEF BiquadTailBound
      <3> HIDE DEF low, high
      <3>. QED
        BY <3>1, <3>2
    <2> HIDE DEF a, b
    <2>4. Min({a, b}) \in {a, b}
      <3>1. \E x \in {a, b} : \A y \in {a, b} : x <= y
        BY <2>2
      <3>. QED
        BY <3>1 DEF Min
    <2>. QED
      BY <2>2, <2>3, <2>4
  <1>. QED
    BY <1>1, <1>2

\* A call of a recursive filter's flush: either the drain is over, or at most what is left of
\* it goes on, and ends if the state has decayed.
Drains(k, room, f) ==
  IF TailDone(k) THEN f.kernel = Settle(k) /\ f.frames = 0 /\ f.done = TRUE
  ELSE \E state, want, drained :
         /\ DOMAIN state = DOMAIN k.state /\ want = Min({room, k.tail_bound - k.flushed})
         /\ drained = [k EXCEPT !.state = state, !.flushed = @ + want]
         /\ f.kernel = Settle(drained) /\ f.frames = want /\ f.done = TailDone(drained)

\* Both filters flush so.
LEMMA FiltersDrain ==
  ASSUME NEW k, NEW room
  PROVE  Drains(k, room, DcFlush(k, room)) /\ Drains(k, room, BiquadFlush(k, room))
  <1> DEFINE want == Min({room, k.tail_bound - k.flushed})
             quiet == Silence(Len(k.state), want)
             dc == RunStates(k.state, quiet, LAMBDA s, x : DcStep(s, x, k.flush_r)).state
             biquad == RunStates(k.state, quiet, LAMBDA s, x : BiquadStep(s, x, k.flush_coeffs)).state
             Drained(state) == [k EXCEPT !.state = state, !.flushed = @ + want]
  <1>1. DOMAIN dc = DOMAIN k.state /\ DOMAIN biquad = DOMAIN k.state
    BY DEF RunStates
  <1>2. CASE TailDone(k)
    <2>1. DcFlush(k, room) = [kernel |-> Settle(k), out |-> Silence(Len(k.state), 0),
                              frames |-> 0, done |-> TRUE]
      BY <1>2, Zenon DEF DcFlush, FlushStates
    <2>2. BiquadFlush(k, room) = [kernel |-> Settle(k), out |-> Silence(Len(k.state), 0),
                                  frames |-> 0, done |-> TRUE]
      BY <1>2, Zenon DEF BiquadFlush, FlushStates
    <2>3. ASSUME NEW f, f = [kernel |-> Settle(k), out |-> Silence(Len(k.state), 0),
                             frames |-> 0, done |-> TRUE]
          PROVE  Drains(k, room, f)
      <3>1. f.kernel = Settle(k) /\ f.frames = 0 /\ f.done = TRUE
        BY <2>3
      <3>. QED
        BY <1>2, <3>1, Zenon DEF Drains
    <2>. QED
      BY <2>1, <2>2, <2>3
  <1>3. CASE ~ TailDone(k)
    <2>1. /\ DcFlush(k, room).kernel = Settle(Drained(dc)) /\ DcFlush(k, room).frames = want
          /\ DcFlush(k, room).done = TailDone(Drained(dc))
      BY <1>3, Zenon DEF DcFlush, FlushStates
    <2>2. /\ BiquadFlush(k, room).kernel = Settle(Drained(biquad))
          /\ BiquadFlush(k, room).frames = want
          /\ BiquadFlush(k, room).done = TailDone(Drained(biquad))
      BY <1>3, Zenon DEF BiquadFlush, FlushStates
    <2> HIDE DEF dc, biquad
    <2>. QED
      BY <1>1, <1>3, <2>1, <2>2, Zenon DEF Drains
  <1>. QED
    BY <1>2, <1>3

\* What a call of a filter's flush does to the drain.
LEMMA DrainsBounded ==
  ASSUME NEW k, {"state", "tail_bound", "flushed"} \subseteq DOMAIN k,
         k.tail_bound \in Nat, k.flushed \in 0..k.tail_bound, NEW room \in Nat,
         NEW f, Drains(k, room, f)
  PROVE  /\ DOMAIN f.kernel.state = DOMAIN k.state /\ f.kernel.tail_bound = k.tail_bound
         /\ f.frames \in Nat /\ k.flushed + f.frames <= f.kernel.flushed
         /\ f.kernel.flushed <= k.tail_bound /\ f.kernel.flushed \in Nat
         /\ f.done \in BOOLEAN
         /\ f.done => f.kernel.flushed = k.tail_bound
         /\ k.flushed = k.tail_bound => f.frames = 0 /\ f.done
  <1> DEFINE tail == k.tail_bound
  <1>1. CASE TailDone(k)
    <2>1. f.kernel = [k EXCEPT !.flushed = tail] /\ f.frames = 0 /\ f.done = TRUE
      BY <1>1, Zenon DEF Drains, Settle
    <2>2. /\ f.kernel.state = k.state /\ f.kernel.flushed = tail /\ f.kernel.tail_bound = tail
      BY <2>1
    <2>3. tail \in Nat /\ k.flushed \in Nat /\ k.flushed <= tail
      OBVIOUS
    <2> HIDE DEF tail
    <2>4. /\ f.frames \in Nat /\ k.flushed + f.frames <= f.kernel.flushed
          /\ f.kernel.flushed <= tail /\ f.kernel.flushed \in Nat
      BY <2>1, <2>2, <2>3
    <2>. QED
      BY <2>1, <2>2, <2>4 DEF tail
  <1>2. CASE ~ TailDone(k)
    <2>1. PICK state, want, drained :
            /\ DOMAIN state = DOMAIN k.state /\ want = Min({room, tail - k.flushed})
            /\ drained = [k EXCEPT !.state = state, !.flushed = @ + want]
            /\ f.kernel = Settle(drained) /\ f.frames = want /\ f.done = TailDone(drained)
      BY <1>2, Zenon DEF Drains
    <2>2. want \in Nat /\ want <= tail - k.flushed
      <3> DEFINE left == tail - k.flushed
      <3>1. left \in Nat
        OBVIOUS
      <3> HIDE DEF left
      <3>2. \E x \in {room, left} : \A y \in {room, left} : x <= y
        BY <3>1
      <3>3. want = Min({room, left})
        BY <2>1 DEF left
      <3>4. want \in {room, left} /\ want <= left
        BY <3>2, <3>3 DEF Min
      <3>. QED
        BY <3>1, <3>4 DEF left
    <2>3. /\ drained.state = state /\ drained.tail_bound = tail
          /\ drained.flushed = k.flushed + want /\ DOMAIN drained = DOMAIN k
      BY <2>1
    <2>4. f.kernel \in {drained, [drained EXCEPT !.flushed = drained.tail_bound]}
          /\ (TailDone(drained) => f.kernel = [drained EXCEPT !.flushed = drained.tail_bound])
      BY <2>1, Zenon DEF Settle
    <2> DEFINE settled == [drained EXCEPT !.flushed = drained.tail_bound]
    <2>5. settled.state = state /\ settled.tail_bound = tail /\ settled.flushed = tail
      BY <2>3
    <2> HIDE DEF settled
    <2>6. f.kernel \in {drained, settled} /\ (TailDone(drained) => f.kernel = settled)
      BY <2>4 DEF settled
    <2>7. f.kernel.state = state /\ f.kernel.tail_bound = tail
          /\ f.kernel.flushed \in {k.flushed + want, tail}
      BY <2>3, <2>5, <2>6
    <2>8. TailDone(drained) \in BOOLEAN
      BY DEF TailDone
    <2>9. k.flushed # tail
      BY <1>2 DEF TailDone
    <2>10. f.done \in BOOLEAN /\ (f.done => f.kernel.flushed = tail)
      <3>1. f.done = TailDone(drained)
        BY <2>1
      <3>2. f.done \in BOOLEAN
        BY <2>8, <3>1, Zenon
      <3>3. f.done => f.kernel = settled
        BY <2>6, <3>1, Zenon
      <3>. QED
        BY <2>5, <3>2, <3>3, Zenon
    <2>11. f.frames = want /\ k.flushed + want <= tail
      BY <2>1, <2>2
    <2> HIDE DEF tail
    <2>. QED
      BY <2>1, <2>2, <2>7, <2>9, <2>10, <2>11 DEF tail
  <1>. QED
    BY <1>1, <1>2

\* A recursive filter's methods leave a state by channel and a drain within its tail.
LEMMA FiltersShaped ==
  ASSUME NEW kind_ \in Filters, NEW k, Formed(kind_, k), NEW ch \in Nat
  PROVE  /\ \A spec : /\ spec.sample_rate \in Nat /\ spec.channels = ch
                      /\ kind_ = "dc_blocker" => spec.sample_rate >= 1
                      /\ kind_ = "biquad" => spec.sample_rate >= 3
                      => /\ kind_ = "dc_blocker" => Shaped(kind_, DcPrepared(k, spec), ch)
                         /\ kind_ = "biquad" => Shaped(kind_, BiquadPrepared(k, spec), ch)
         /\ Shaped(kind_, k, ch) =>
              /\ kind_ = "dc_blocker" => Shaped(kind_, DcReset(k), ch)
              /\ kind_ = "biquad" => Shaped(kind_, BiquadReset(k), ch)
              /\ \A run, p : /\ kind_ = "dc_blocker" => Shaped(kind_, DcRender(k, run, p).kernel, ch)
                             /\ kind_ = "biquad" => Shaped(kind_, BiquadRender(k, run, p).kernel, ch)
              /\ \A room \in Nat : /\ Shaped(kind_, DcFlush(k, room).kernel, ch)
                                   /\ Shaped(kind_, BiquadFlush(k, room).kernel, ch)
  <1>1. {"params", "fs", "state", "tail_bound", "flushed"} \subseteq DOMAIN k
        /\ (kind_ = "dc_blocker" => "flush_r" \in DOMAIN k)
        /\ (kind_ = "biquad" => "flush_coeffs" \in DOMAIN k)
    BY SMT DEF Formed, Filters
  <1>2. ASSUME NEW j, DOMAIN j.state = 1..ch, j.tail_bound \in Nat, j.flushed \in 0..j.tail_bound
        PROVE  Shaped(kind_, j, ch)
    <2>1. kind_ \notin {"average", "dynamics", "oscillator", "noise", "dither"}
      BY DEF Filters
    <2>. QED
      BY <1>2, <2>1, Zenon DEF Shaped
  <1>3. ASSUME NEW spec, spec.sample_rate \in Nat, spec.channels = ch,
               kind_ = "dc_blocker", spec.sample_rate >= 1
        PROVE  Shaped(kind_, DcPrepared(k, spec), ch)
    <2> DEFINE j == DcPrepared(k, spec)
               tail == DcTailBound(spec.sample_rate)
    <2>1. tail \in Nat
      BY <1>3, TailBounds
    <2>2. \E a : j = [[k EXCEPT !.fs = spec.sample_rate, !.state = DcRest(ch),
                                !.tail_bound = tail] EXCEPT !.flushed = 0, !.flush_r = a]
      BY <1>3, Zenon DEF DcPrepared, DcResetFlush
    <2> HIDE DEF j, tail
    <2>3. j.state = DcRest(ch) /\ j.tail_bound = tail /\ j.flushed = 0
      BY <1>1, <1>3, <2>2
    <2>4. DOMAIN j.state = 1..ch
      BY <2>3 DEF DcRest
    <2>5. Shaped(kind_, j, ch)
      BY <1>2, <2>1, <2>3, <2>4
    <2>. QED
      BY <2>5 DEF j
  <1>4. ASSUME NEW spec, spec.sample_rate \in Nat, spec.channels = ch,
               kind_ = "biquad", spec.sample_rate >= 3
        PROVE  Shaped(kind_, BiquadPrepared(k, spec), ch)
    <2> DEFINE j == BiquadPrepared(k, spec)
               tail == BiquadTailBound(k, spec.sample_rate)
    <2>1. tail \in Nat
      <3>1. k.params[1].lo = 10 /\ k.params[1].hi = HighestCutoff
        BY <1>4, SMT DEF Formed
      <3>. QED
        BY <1>4, <3>1, TailBounds
    <2>2. \E a : j = [[k EXCEPT !.fs = spec.sample_rate, !.state = BiquadRest(ch),
                                !.tail_bound = tail] EXCEPT !.flushed = 0, !.flush_coeffs = a]
      BY <1>4, Zenon DEF BiquadPrepared, BiquadResetFlush
    <2> HIDE DEF j, tail
    <2>3. j.state = BiquadRest(ch) /\ j.tail_bound = tail /\ j.flushed = 0
      BY <1>1, <1>4, <2>2
    <2>4. DOMAIN j.state = 1..ch
      BY <2>3 DEF BiquadRest
    <2>5. Shaped(kind_, j, ch)
      BY <1>2, <2>1, <2>3, <2>4
    <2>. QED
      BY <2>5 DEF j
  <1>5. ASSUME Shaped(kind_, k, ch)
        PROVE  /\ DOMAIN k.state = 1..ch /\ k.tail_bound \in Nat /\ k.flushed \in 0..k.tail_bound
               /\ Len(k.state) = ch
    <2>1. DOMAIN k.state = 1..ch /\ k.tail_bound \in Nat /\ k.flushed \in 0..k.tail_bound
      BY <1>5, Zenon DEF Shaped
    <2>. QED
      BY <2>1, Length
  <1>6. ASSUME Shaped(kind_, k, ch), kind_ = "dc_blocker"
        PROVE  Shaped(kind_, DcReset(k), ch)
    <2> DEFINE j == DcReset(k)
    <2>1. \E a : j = [[k EXCEPT !.state = DcRest(Len(@))] EXCEPT !.flushed = 0, !.flush_r = a]
      BY Zenon DEF DcReset, DcResetFlush
    <2> HIDE DEF j
    <2>2. j.state = DcRest(ch) /\ j.tail_bound = k.tail_bound /\ j.flushed = 0
      BY <1>1, <1>5, <1>6, <2>1
    <2>3. DOMAIN j.state = 1..ch
      BY <2>2 DEF DcRest
    <2>4. Shaped(kind_, j, ch)
      BY <1>2, <1>5, <1>6, <2>2, <2>3
    <2>. QED
      BY <2>4 DEF j
  <1>7. ASSUME Shaped(kind_, k, ch), kind_ = "biquad"
        PROVE  Shaped(kind_, BiquadReset(k), ch)
    <2> DEFINE j == BiquadReset(k)
    <2>1. \E a : j = [[k EXCEPT !.state = BiquadRest(Len(@))]
                       EXCEPT !.flushed = 0, !.flush_coeffs = a]
      BY Zenon DEF BiquadReset, BiquadResetFlush
    <2> HIDE DEF j
    <2>2. j.state = BiquadRest(ch) /\ j.tail_bound = k.tail_bound /\ j.flushed = 0
      BY <1>1, <1>5, <1>7, <2>1
    <2>3. DOMAIN j.state = 1..ch
      BY <2>2 DEF BiquadRest
    <2>4. Shaped(kind_, j, ch)
      BY <1>2, <1>5, <1>7, <2>2, <2>3
    <2>. QED
      BY <2>4 DEF j
  <1>8. ASSUME NEW run, NEW p, Shaped(kind_, k, ch), kind_ = "dc_blocker"
        PROVE  Shaped(kind_, DcRender(k, run, p).kernel, ch)
    <2> DEFINE j == DcRender(k, run, p).kernel
               state == RunStates(k.state, Input(run), LAMBDA s, x : DcStep(s, x, Pole(p[1], k.fs))).state
    <2>1. DOMAIN state = DOMAIN k.state
      BY DEF RunStates
    <2>2. j = [k EXCEPT !.flushed = 0, !.flush_r = Pole(p[1], k.fs), !.state = state]
      BY Zenon DEF DcRender
    <2> HIDE DEF j, state
    <2>3. j.state = state /\ j.tail_bound = k.tail_bound /\ j.flushed = 0
      BY <1>1, <1>8, <2>2
    <2>4. Shaped(kind_, j, ch)
      BY <1>2, <1>5, <1>8, <2>1, <2>3
    <2>. QED
      BY <2>4 DEF j
  <1>9. ASSUME NEW run, NEW p, Shaped(kind_, k, ch), kind_ = "biquad"
        PROVE  Shaped(kind_, BiquadRender(k, run, p).kernel, ch)
    <2> DEFINE j == BiquadRender(k, run, p).kernel
               state == RunStates(k.state, Input(run),
                                  LAMBDA s, x : BiquadStep(s, x, RuntimeCoeffs(k, p))).state
    <2>1. DOMAIN state = DOMAIN k.state
      BY DEF RunStates
    <2>2. j = [k EXCEPT !.flushed = 0, !.flush_coeffs = RuntimeCoeffs(k, p), !.state = state]
      BY Zenon DEF BiquadRender
    <2> HIDE DEF j, state
    <2>3. j.state = state /\ j.tail_bound = k.tail_bound /\ j.flushed = 0
      BY <1>1, <1>9, <2>2
    <2>4. Shaped(kind_, j, ch)
      BY <1>2, <1>5, <1>9, <2>1, <2>3
    <2>. QED
      BY <2>4 DEF j
  <1>10. ASSUME NEW room \in Nat, Shaped(kind_, k, ch), NEW f, Drains(k, room, f)
         PROVE  Shaped(kind_, f.kernel, ch)
    <2> DEFINE j == f.kernel
    <2>1. /\ DOMAIN j.state = DOMAIN k.state /\ j.tail_bound = k.tail_bound
          /\ j.flushed <= k.tail_bound /\ j.flushed \in Nat
      BY <1>1, <1>5, <1>10, DrainsBounded
    <2> HIDE DEF j
    <2>2. Shaped(kind_, j, ch)
      BY <1>2, <1>5, <1>10, <2>1
    <2>. QED
      BY <2>2 DEF j
  <1>11. ASSUME NEW room \in Nat, Shaped(kind_, k, ch)
         PROVE  /\ Shaped(kind_, DcFlush(k, room).kernel, ch)
                /\ Shaped(kind_, BiquadFlush(k, room).kernel, ch)
    BY <1>10, <1>11, FiltersDrain
  <1>. QED
    BY <1>3, <1>4, <1>6, <1>7, <1>8, <1>9, <1>11

\* So do the methods of the other kernels with a state, where they run.
LEMMA OthersShaped ==
  ASSUME NEW k, NEW ch \in Nat
  PROVE  /\ Formed("dynamics", k) =>
              /\ \A spec : Shaped("dynamics", DynamicsPrepared(k, spec), ch)
              /\ Shaped("dynamics", DynamicsReset(k), ch)
         /\ Formed("oscillator", k) =>
              /\ \A spec : Shaped("oscillator", OscillatorPrepared(k, spec), ch)
              /\ Shaped("oscillator", OscillatorReset(k), ch)
         /\ Formed("noise", k) =>
              /\ \A spec : spec.channels = ch => Shaped("noise", NoisePrepared(k, spec), ch)
              /\ Shaped("noise", k, ch) =>
                   /\ Shaped("noise", RngsReset(k), ch)
                   /\ \A run, p : Shaped("noise", NoiseRender(k, run, p).kernel, ch)
         /\ Formed("dither", k) =>
              /\ \A spec : spec.channels = ch => Shaped("dither", DitherPrepared(k, spec), ch)
              /\ Shaped("dither", k, ch) =>
                   /\ Shaped("dither", RngsReset(k), ch)
                   /\ \A run : Shaped("dither", DitherRender(k, run).kernel, ch)
  <1>1. ASSUME NEW j, j.env = 0
        PROVE  Shaped("dynamics", j, ch)
    BY <1>1 DEF Shaped, Filters
  <1>2. ASSUME NEW j, j.phase = 0
        PROVE  Shaped("oscillator", j, ch)
    BY <1>2, CycleAssumption DEF Shaped, Filters
  <1>3. ASSUME Formed("dynamics", k)
        PROVE  /\ \A spec : Shaped("dynamics", DynamicsPrepared(k, spec), ch)
               /\ Shaped("dynamics", DynamicsReset(k), ch)
    <2>1. "env" \in DOMAIN k /\ "fs" \in DOMAIN k /\ "atk" \in DOMAIN k /\ "rel" \in DOMAIN k
      BY <1>3, SMT DEF Formed
    <2>2. DynamicsReset(k).env = 0 /\ \A spec : DynamicsPrepared(k, spec).env = 0
      BY <2>1 DEF DynamicsReset, DynamicsPrepared
    <2>. QED
      BY <1>1, <2>2
  <1>4. ASSUME Formed("oscillator", k)
        PROVE  /\ \A spec : Shaped("oscillator", OscillatorPrepared(k, spec), ch)
               /\ Shaped("oscillator", OscillatorReset(k), ch)
    <2>1. "phase" \in DOMAIN k /\ "fs" \in DOMAIN k
      BY <1>4, SMT DEF Formed
    <2>2. OscillatorReset(k).phase = 0 /\ \A spec : OscillatorPrepared(k, spec).phase = 0
      BY <2>1 DEF OscillatorReset, OscillatorPrepared
    <2>. QED
      BY <1>2, <2>2
  <1>5. ASSUME NEW kind_ \in {"noise", "dither"}, NEW j,
               j.rngs = RngsNew(j.seed, ch)
        PROVE  Shaped(kind_, j, ch)
    <2>1. /\ DOMAIN j.rngs = 1..ch
          /\ \A c \in 1..ch : /\ "seed" \in DOMAIN j.rngs[c]
                             /\ j.rngs[c].seed = ChannelSeed(j.seed, c)
      BY <1>5 DEF RngsNew, RngNew
    <2>. QED
      BY <2>1 DEF Shaped, Filters
  <1>6. ASSUME NEW kind_ \in {"noise", "dither"}, Formed(kind_, k), Shaped(kind_, k, ch)
        PROVE  /\ Shaped(kind_, RngsReset(k), ch)
               /\ \A draws : Shaped(kind_, Drawn(k, draws), ch)
    <2>1. /\ {"seed", "rngs"} \subseteq DOMAIN k /\ DOMAIN k.rngs = 1..ch
          /\ \A c \in 1..ch : /\ "seed" \in DOMAIN k.rngs[c]
                             /\ k.rngs[c].seed = ChannelSeed(k.seed, c)
      BY <1>6, SMT DEF Formed, Shaped
    <2>2. Len(k.rngs) = ch
      BY <2>1, Length
    <2>3. Shaped(kind_, RngsReset(k), ch)
      <3>1. RngsReset(k).rngs = RngsNew(k.seed, ch) /\ RngsReset(k).seed = k.seed
        BY <2>1, <2>2 DEF RngsReset
      <3>. QED
        BY <1>5, <3>1
    <2>4. ASSUME NEW draws
          PROVE  Shaped(kind_, Drawn(k, draws), ch)
      <3> DEFINE j == Drawn(k, draws)
      <3> DEFINE more == [c \in DOMAIN k.rngs |-> [k.rngs[c] EXCEPT !.draws = @ + draws]]
      <3>0. j = [k EXCEPT !.rngs = more]
        BY Zenon DEF Drawn
      <3>2. DOMAIN more = 1..ch
            /\ \A c \in 1..ch : "seed" \in DOMAIN more[c] /\ more[c].seed = k.rngs[c].seed
        BY <2>1
      <3> HIDE DEF j, more
      <3>1. j.seed = k.seed /\ j.rngs = more
        BY <2>1, <3>0
      <3>3. Shaped(kind_, j, ch)
        BY <2>1, <3>1, <3>2 DEF Shaped, Filters
      <3>. QED
        BY <3>3 DEF j
    <2>. QED
      BY <2>3, <2>4
  <1>7. ASSUME Formed("noise", k)
        PROVE  /\ \A spec : spec.channels = ch => Shaped("noise", NoisePrepared(k, spec), ch)
               /\ Shaped("noise", k, ch) =>
                    /\ Shaped("noise", RngsReset(k), ch)
                    /\ \A run, p : Shaped("noise", NoiseRender(k, run, p).kernel, ch)
    <2>1. {"seed", "rngs"} \subseteq DOMAIN k
      BY <1>7, SMT DEF Formed
    <2>2. ASSUME NEW spec, spec.channels = ch
          PROVE  Shaped("noise", NoisePrepared(k, spec), ch)
      <3>1. /\ NoisePrepared(k, spec).rngs = RngsNew(k.seed, ch)
            /\ NoisePrepared(k, spec).seed = k.seed
        BY <2>1, <2>2 DEF NoisePrepared
      <3>. QED
        BY <1>5, <3>1
    <2>3. \A run, p : NoiseRender(k, run, p).kernel = Drawn(k, run.len)
      BY Zenon DEF NoiseRender
    <2>. QED
      BY <1>6, <1>7, <2>2, <2>3
  <1>8. ASSUME Formed("dither", k)
        PROVE  /\ \A spec : spec.channels = ch => Shaped("dither", DitherPrepared(k, spec), ch)
               /\ Shaped("dither", k, ch) =>
                    /\ Shaped("dither", RngsReset(k), ch)
                    /\ \A run : Shaped("dither", DitherRender(k, run).kernel, ch)
    <2>1. {"seed", "rngs", "levels"} \subseteq DOMAIN k
      BY <1>8, SMT DEF Formed
    <2>2. ASSUME NEW spec, spec.channels = ch
          PROVE  Shaped("dither", DitherPrepared(k, spec), ch)
      <3>1. /\ DitherPrepared(k, spec).rngs = RngsNew(k.seed, ch)
            /\ DitherPrepared(k, spec).seed = k.seed
        BY <2>1, <2>2 DEF DitherPrepared
      <3>. QED
        BY <1>5, <3>1
    <2>3. \A run : DitherRender(k, run).kernel = Drawn(k, 2 * run.len)
      BY Zenon DEF DitherRender
    <2>. QED
      BY <1>6, <1>8, <2>2, <2>3
  <1>. QED
    BY <1>3, <1>4, <1>7, <1>8

\* What a kernel needs to hear and be told in a run of n frames of ch channels.
Heeds(kind_, k, run, p, ch, n) ==
  /\ run.len = n
  /\ kind_ = "average" => Sampled(Input(run), ch, n, 1)
  /\ kind_ = "dynamics" => \E m \in Nat : Sampled(Detector(k, run), m, n, 1)
  /\ kind_ = "oscillator" => p[1] \in Nat

\* A run leaves a kernel in shape,
LEMMA RenderShaped ==
  ASSUME kind \in KernelKinds, NEW k, Formed(kind, k), Runnable(kind, k), NEW ch \in Nat,
         Shaped(kind, k, ch), NEW n \in Nat, NEW run, NEW p, Heeds(kind, k, run, p, ch, n),
         NEW slip \in Int
  PROVE  Shaped(kind, KernelRender(k, run, p, slip).kernel, ch)
  <1>1. CASE kind = "average"
    <2>1. Sampled(Input(run), ch, n, 1)
      BY <1>1, Zenon DEF Heeds
    <2>2. Shaped("average", AverageRender(k, run, slip).kernel, ch)
      <3>1. Formed("average", k) /\ Runnable("average", k) /\ Shaped("average", k, ch)
        BY <1>1
      <3>. QED
        BY <2>1, <3>1, AverageShaped
    <2>. QED
      BY <1>1, <2>2, Zenon DEF KernelRender
  <1>2. CASE kind = "dc_blocker"
    <2>1. Shaped("dc_blocker", DcRender(k, run, p).kernel, ch)
      BY <1>2, FiltersShaped DEF Filters
    <2>. QED
      BY <1>2, <2>1, Zenon DEF KernelRender
  <1>3. CASE kind = "biquad"
    <2>1. Shaped("biquad", BiquadRender(k, run, p).kernel, ch)
      BY <1>3, FiltersShaped DEF Filters
    <2>. QED
      BY <1>3, <2>1, Zenon DEF KernelRender
  <1>4. CASE kind = "dynamics"
    <2> DEFINE j == DynamicsRender(k, run, p).kernel
               found == Envelopes(k, run)
               heard == Detector(k, run)
    <2>1. PICK m \in Nat : Sampled(heard, m, n, 1)
      BY <1>4, Zenon DEF Heeds
    <2>2. /\ k.atk \in Nat \ {0} /\ k.rel \in Nat \ {0} /\ k.env \in Nat
          /\ run.len = n /\ "env" \in DOMAIN k
      BY <1>4, SMT DEF Runnable, Shaped, Formed, Heeds
    <2>3. ASSUME NEW i \in 1..n
          PROVE  Level(heard, i) \in Nat
      <3>1. DOMAIN heard = 1..m /\ \A c \in 1..m : FiniteOrZero(heard[c][i]) \in Int
        BY <2>1, <2>3 DEF Sampled
      <3> HIDE DEF heard
      <3>. QED
        BY <3>1, LevelTyped
    <2>4. found \in EnvelopeStates
      <3> HIDE DEF found
      <3>1. \A i \in 1..n : Level(heard, i) \in Nat
        BY <2>3
      <3>. QED
        BY <2>2, <3>1, EnvelopesTyped DEF found
    <2>5. j = [k EXCEPT !.env = found.env]
      BY Zenon DEF DynamicsRender
    <2> HIDE DEF found, j
    <2>6. j.env \in Nat
      BY <2>2, <2>4, <2>5 DEF EnvelopeStates
    <2>7. Shaped("dynamics", j, ch)
      BY <2>6 DEF Shaped, Filters
    <2>. QED
      BY <1>4, <2>7, Zenon DEF KernelRender, j
  <1>5. CASE kind = "oscillator"
    <2> DEFINE j == OscillatorRender(k, run, p).kernel
               ph == OscillatorChannel(k, n, p).ph
    <2>1. /\ k.fs \in Nat \ {0} /\ k.phase \in 0..(Cycle - 1) /\ p[1] \in Nat
          /\ run.len = n /\ "phase" \in DOMAIN k
      BY <1>5, SMT DEF Runnable, Shaped, Formed, Heeds
    <2>2. ph \in 0..(Cycle - 1)
      BY <2>1, PhaseTyped
    <2>3. j = [k EXCEPT !.phase = IF Channels(run) = 0 THEN @ ELSE ph]
      BY <2>1, Zenon DEF OscillatorRender
    <2> HIDE DEF ph, j
    <2>4. j.phase \in 0..(Cycle - 1)
      BY <2>1, <2>2, <2>3
    <2>5. Shaped("oscillator", j, ch)
      BY <2>4 DEF Shaped, Filters
    <2>. QED
      BY <1>5, <2>5, Zenon DEF KernelRender, j
  <1>6. CASE kind \in {"noise", "dither"}
    <2>1. CASE kind = "noise"
      BY <2>1, OthersShaped, Zenon DEF KernelRender
    <2>2. CASE kind = "dither"
      BY <2>2, OthersShaped, Zenon DEF KernelRender
    <2>. QED
      BY <1>6, <2>1, <2>2
  <1>7. CASE kind \in {"gain", "scale", "dc_offset", "custom"}
    BY <1>7 DEF Shaped, Filters
  <1>. QED
    BY <1>1, <1>2, <1>3, <1>4, <1>5, <1>6, <1>7 DEF KernelKinds

\* as does a reset,
LEMMA ResetShaped ==
  ASSUME kind \in KernelKinds, Formed(kind, kernel), NEW ch \in Nat, Shaped(kind, kernel, ch)
  PROVE  Shaped(kind, KernelReset, ch)
  <1>1. CASE kind = "average"
    BY <1>1, AverageShaped, Zenon DEF KernelReset
  <1>2. CASE kind = "dc_blocker"
    <2>1. Shaped("dc_blocker", DcReset(kernel), ch)
      BY <1>2, FiltersShaped DEF Filters
    <2>. QED
      BY <1>2, <2>1, Zenon DEF KernelReset
  <1>3. CASE kind = "biquad"
    <2>1. Shaped("biquad", BiquadReset(kernel), ch)
      BY <1>3, FiltersShaped DEF Filters
    <2>. QED
      BY <1>3, <2>1, Zenon DEF KernelReset
  <1>4. CASE kind \in {"dynamics", "oscillator", "noise", "dither"}
    BY <1>4, OthersShaped, Zenon DEF KernelReset
  <1>5. CASE kind \in {"gain", "scale", "dc_offset", "custom"}
    BY <1>5 DEF Shaped, Filters
  <1>. QED
    BY <1>1, <1>2, <1>3, <1>4, <1>5 DEF KernelKinds

\* and a drain.
LEMMA FlushShaped ==
  ASSUME kind \in KernelKinds, Formed(kind, kernel), Runnable(kind, kernel), NEW ch \in Nat,
         Shaped(kind, kernel, ch), NEW room \in Nat, NEW slip \in Int
  PROVE  Shaped(kind, KernelFlush(room, slip).kernel, ch)
  <1>1. CASE kind = "average"
    BY <1>1, AverageShaped, Zenon DEF KernelFlush
  <1>2. CASE kind \in Filters
    <2>1. Shaped(kind, DcFlush(kernel, room).kernel, ch)
          /\ Shaped(kind, BiquadFlush(kernel, room).kernel, ch)
      BY <1>2, FiltersShaped
    <2>. QED
      BY <1>2, <2>1, Zenon DEF KernelFlush, Filters
  <1>3. CASE kind \notin {"average"} \cup Filters
    <2>1. KernelFlush(room, slip).kernel = kernel
      BY <1>3, Zenon DEF KernelFlush, NoFlush, Filters
    <2>. QED
      BY <2>1
  <1>. QED
    BY <1>1, <1>2, <1>3

-----------------------------------------------------------------------------
(* What a kernel hears of a block. *)

\* The part of planes of samples that a run reads is samples, if none of it was overwritten.
LEMMA PartSampled ==
  ASSUME NEW planes, NEW ch \in Nat, NEW n \in Nat, NEW first \in Nat,
         Sampled(planes, ch, n, first), NEW run, NEW start \in Nat, NEW len \in Nat,
         run.start = start, run.len = len, first <= start + 1, start + len <= n
  PROVE  Sampled(Part(run, planes), ch, len, 1)
  <1> DEFINE part == Part(run, planes)
  <1>1. DOMAIN part = 1..ch /\ \A c \in 1..ch : part[c] = SubSeq(planes[c], start + 1, start + len)
    BY DEF Part, Sampled
  <1> HIDE DEF part
  <1>2. ASSUME NEW c \in 1..ch
        PROVE  /\ DOMAIN part[c] = 1..len
               /\ \A i \in 1..len : FiniteOrZero(part[c][i]) \in Int
    <2>1. DOMAIN planes[c] = 1..n /\ \A i \in first..n : FiniteOrZero(planes[c][i]) \in Int
      BY DEF Sampled
    <2> DEFINE s == planes[c]
    <2> HIDE DEF s
    <2>2. DOMAIN part[c] = 1..len /\ \A i \in 1..len : part[c][i] = s[i + start]
      <3>1. part[c] = SubSeq(s, start + 1, start + len)
        BY <1>1 DEF s
      <3>2. DOMAIN s = 1..n
        BY <2>1 DEF s
      <3>. QED
        BY <3>1, <3>2
    <2>3. ASSUME NEW i \in 1..len
          PROVE  FiniteOrZero(s[i + start]) \in Int
      <3>1. i + start \in first..n
        BY <2>3
      <3>. QED
        BY <2>1, <3>1 DEF s
    <2>. QED
      BY <2>2, <2>3
  <1>3. Sampled(part, ch, len, 1)
    BY <1>1, <1>2 DEF Sampled
  <1>. QED
    BY <1>3 DEF part

\* A run overwrites none but its own frames.
LEMMA WrittenSampled ==
  ASSUME NEW io, "planes" \in DOMAIN io, NEW ch \in Nat, NEW n \in Nat,
         Sampled(io.planes, ch, n, 1), NEW run, run.io = io, run.start = 0, NEW len \in Nat,
         run.len = len, NEW planes
  PROVE  Sampled(Written(run, planes).planes, ch, n, len + 1)
  <1> DEFINE new == Written(run, planes).planes
             old == io.planes
  <1>1. new = [c \in DOMAIN old |->
                 [i \in DOMAIN old[c] |-> IF i - 0 \in 1..len THEN planes[c][i - 0] ELSE old[c][i]]]
    BY DEF Written
  <1>2. /\ DOMAIN old = 1..ch
        /\ \A c \in 1..ch : /\ DOMAIN old[c] = 1..n
                            /\ \A i \in 1..n : FiniteOrZero(old[c][i]) \in Int
    BY DEF Sampled
  <1> HIDE DEF new, old
  <1>3. DOMAIN new = 1..ch /\ \A c \in 1..ch : DOMAIN new[c] = 1..n
    BY <1>1, <1>2
  <1>4. ASSUME NEW c \in 1..ch, NEW i \in (len + 1)..n
        PROVE  FiniteOrZero(new[c][i]) \in Int
    <2>1. i \in 1..n /\ i - 0 \notin 1..len
      OBVIOUS
    <2>2. new[c][i] = old[c][i]
      BY <1>1, <1>2, <2>1
    <2>. QED
      BY <1>2, <2>1, <2>2
  <1>5. Sampled(new, ch, n, len + 1)
    BY <1>3, <1>4 DEF Sampled
  <1>. QED
    BY <1>5 DEF new

\* From its first frame on a context of n frames has what kernel k, with ch channels, listens to.
Hears(k, ctx, ch, n, first) ==
  /\ {"main", "sidechain", "frames"} \subseteq DOMAIN ctx /\ {"mode", "planes"} \subseteq DOMAIN ctx.main
  /\ kind = "average" => /\ ctx.main.mode = "Split" /\ "input" \in DOMAIN ctx.main
                         /\ Sampled(ctx.main.input, ch, n, first)
  /\ kind = "dynamics" =>
       IF k.use_sidechain THEN ctx.sidechain # <<>> /\ Sampled(ctx.sidechain[1], 1, n, first)
       ELSE ctx.main.mode = "InPlace" /\ Sampled(ctx.main.planes, ch, n, first)

\* So a run hears samples,
LEMMA RunHeeds ==
  ASSUME NEW k, NEW ctx, NEW ch \in Nat, NEW n \in Nat, NEW first \in Nat,
         Hears(k, ctx, ch, n, first), NEW start \in Nat, NEW len \in Nat, first <= start + 1,
         start + len <= n, NEW p, kind = "oscillator" => p[1] \in Nat
  PROVE  Heeds(kind, k, Run(ctx, start, len), p, ch, len)
  <1> DEFINE run == Run(ctx, start, len)
  <1>1. run.start = start /\ run.len = len /\ run.io = ctx.main /\ run.sc = ctx.sidechain
    BY DEF Run
  <1> HIDE DEF run
  <1>2. CASE kind = "average"
    <2>1. ctx.main.mode = "Split" /\ Sampled(ctx.main.input, ch, n, first)
      BY <1>2, Zenon DEF Hears
    <2>2. Input(run) = Part(run, ctx.main.input)
      BY <1>1, <2>1, Zenon DEF Input
    <2>3. Sampled(Input(run), ch, len, 1)
      BY <1>1, <2>1, <2>2, PartSampled
    <2>. QED
      BY <1>1, <1>2, <2>3 DEF Heeds, run
  <1>3. CASE kind = "dynamics"
    <2>1. CASE k.use_sidechain
      <3>1. ctx.sidechain # <<>> /\ Sampled(ctx.sidechain[1], 1, n, first)
        BY <1>3, <2>1, Zenon DEF Hears
      <3>2. Detector(k, run) = Part(run, ctx.sidechain[1])
        BY <1>1, <2>1, <3>1, Zenon DEF Detector, Sidechain
      <3>3. Sampled(Detector(k, run), 1, len, 1)
        BY <1>1, <3>1, <3>2, PartSampled
      <3>. QED
        BY <1>1, <1>3, <3>3 DEF Heeds, run
    <2>2. CASE ~ k.use_sidechain
      <3>1. ctx.main.mode = "InPlace" /\ Sampled(ctx.main.planes, ch, n, first)
        BY <1>3, <2>2, Zenon DEF Hears
      <3>2. Detector(k, run) = Input(run)
        BY <2>2, Zenon DEF Detector
      <3>3. "InPlace" # "Split"
        OBVIOUS
      <3>4. Input(run) = Part(run, ctx.main.planes)
        BY <1>1, <3>1, <3>3, Zenon DEF Input
      <3>5. Sampled(Detector(k, run), ch, len, 1)
        BY <1>1, <3>1, <3>2, <3>4, PartSampled
      <3>. QED
        BY <1>1, <1>3, <3>5 DEF Heeds, run
    <2>. QED
      BY <2>1, <2>2
  <1>4. CASE kind \notin {"average", "dynamics"}
    BY <1>1, <1>4 DEF Heeds, run
  <1>. QED
    BY <1>2, <1>3, <1>4

\* and the next run of the block does too.
LEMMA NextHears ==
  ASSUME NEW k, NEW j, NEW ctx, NEW ch \in Nat, NEW n \in Nat, Hears(k, ctx, ch, n, 1),
         kind = "dynamics" => j.use_sidechain = k.use_sidechain,
         NEW len \in Nat, NEW planes, NEW more,
         more = [ctx EXCEPT !.main = Written(Run(ctx, 0, len), planes)]
  PROVE  Hears(j, more, ch, n, len + 1)
  <1> DEFINE run == Run(ctx, 0, len)
             io == Written(run, planes)
  <1>1. run.io = ctx.main /\ run.start = 0 /\ run.len = len
    BY DEF Run
  <1>2. {"main", "sidechain", "frames"} \subseteq DOMAIN ctx /\ {"mode", "planes"} \subseteq DOMAIN ctx.main
    BY DEF Hears
  <1> HIDE DEF run
  <1>3. /\ DOMAIN io = DOMAIN ctx.main
        /\ \A f \in DOMAIN ctx.main : f # "planes" => io[f] = ctx.main[f]
    <2>1. \E new : io = [ctx.main EXCEPT !.planes = new]
      BY <1>1, Zenon DEF Written
    <2>. QED
      BY <2>1
  <1>4. more = [ctx EXCEPT !.main = io]
    BY DEF run
  <1>5. ASSUME Sampled(ctx.main.planes, ch, n, 1)
        PROVE  Sampled(io.planes, ch, n, len + 1)
    BY <1>1, <1>2, <1>5, WrittenSampled
  <1> HIDE DEF io
  <1>6. more.main = io /\ more.sidechain = ctx.sidechain /\ DOMAIN more = DOMAIN ctx
    BY <1>2, <1>4
  <1>7. ASSUME NEW m, NEW s, Sampled(s, m, n, 1)
        PROVE  Sampled(s, m, n, len + 1)
    BY <1>7 DEF Sampled
  <1>8. kind = "average" => /\ more.main.mode = "Split" /\ "input" \in DOMAIN more.main
                            /\ Sampled(more.main.input, ch, n, len + 1)
    <2>1. SUFFICES ASSUME kind = "average"
                   PROVE  /\ more.main.mode = "Split" /\ "input" \in DOMAIN more.main
                          /\ Sampled(more.main.input, ch, n, len + 1)
      OBVIOUS
    <2>2. /\ ctx.main.mode = "Split" /\ "input" \in DOMAIN ctx.main
          /\ Sampled(ctx.main.input, ch, n, 1)
      BY <2>1, Zenon DEF Hears
    <2>3. more.main.mode = "Split" /\ "input" \in DOMAIN more.main
      BY <1>2, <1>3, <1>6, <2>2
    <2>4. more.main.input = ctx.main.input
      BY <1>3, <1>6, <2>2
    <2>5. Sampled(ctx.main.input, ch, n, len + 1)
      BY <1>7, <2>2
    <2>. QED
      BY <2>3, <2>4, <2>5
  <1>9. kind = "dynamics" =>
          IF j.use_sidechain
          THEN more.sidechain # <<>> /\ Sampled(more.sidechain[1], 1, n, len + 1)
          ELSE more.main.mode = "InPlace" /\ Sampled(more.main.planes, ch, n, len + 1)
    <2>1. SUFFICES ASSUME kind = "dynamics"
                   PROVE  IF k.use_sidechain
                          THEN /\ more.sidechain # <<>>
                               /\ Sampled(more.sidechain[1], 1, n, len + 1)
                          ELSE /\ more.main.mode = "InPlace"
                               /\ Sampled(more.main.planes, ch, n, len + 1)
      OBVIOUS
    <2>2. CASE k.use_sidechain
      <3>1. ctx.sidechain # <<>> /\ Sampled(ctx.sidechain[1], 1, n, 1)
        BY <2>1, <2>2, Zenon DEF Hears
      <3>. QED
        BY <1>6, <1>7, <2>2, <3>1
    <2>3. CASE ~ k.use_sidechain
      <3>1. ctx.main.mode = "InPlace" /\ Sampled(ctx.main.planes, ch, n, 1)
        BY <2>1, <2>3, Zenon DEF Hears
      <3>2. Sampled(io.planes, ch, n, len + 1)
        BY <1>5, <3>1
      <3>. QED
        BY <1>2, <1>3, <1>6, <2>3, <3>1, <3>2
    <2>. QED
      BY <2>2, <2>3
  <1>10. {"main", "sidechain", "frames"} \subseteq DOMAIN more
         /\ {"mode", "planes"} \subseteq DOMAIN more.main
    BY <1>2, <1>3, <1>6
  <1>. QED
    BY <1>8, <1>9, <1>10, Zenon DEF Hears

\* Planes of a host's samples.
LEMMA PlanesSampled ==
  ASSUME NEW ch \in Nat, NEW n \in Nat, NEW S, NEW x \in [1..ch -> [1..n -> S]]
  PROVE  /\ FramesOf(x) \in {0, n}
         /\ S \subseteq Int \cup {NotFinite} => Sampled(x, ch, n, 1)
  <1>1. FramesOf(x) \in {0, n}
    <2>1. x = <<>> => FramesOf(x) = 0
      BY DEF FramesOf
    <2>2. x # <<>> => FramesOf(x) = n
      <3>1. SUFFICES ASSUME x # <<>> PROVE FramesOf(x) = n
        OBVIOUS
      <3>2. ch # 0
        BY <3>1
      <3>3. DOMAIN x[1] = 1..n
        BY <3>2
      <3>4. Len(x[1]) = n
        BY <3>3, Length
      <3>. QED
        BY <3>1, <3>4 DEF FramesOf
    <2>. QED
      BY <2>1, <2>2
  <1>2. ASSUME S \subseteq Int \cup {NotFinite}
        PROVE  Sampled(x, ch, n, 1)
    <2>1. \A s \in S : FiniteOrZero(s) \in Int
      BY <1>2, ParameterAssumption DEF FiniteOrZero, Finite
    <2>. QED
      BY <2>1 DEF Sampled
  <1>. QED
    BY <1>1, <1>2, Zenon

\* A host's block has what the kernel listens to.
LEMMA ContextHears ==
  ASSUME kind \in KernelKinds, Formed(kind, kernel), Samples[kind] \subseteq Int \cup {NotFinite},
         NEW ch \in Nat, prepared.channels = ch, prepared.io_mode = IoMode,
         prepared.sidechain_inputs = SidechainInputs,
         NEW n \in Nat, NEW ctx \in Contexts(n), HonorsContract(ctx)
  PROVE  Hears(kernel, ctx, ch, n, 1) /\ ctx.frames \in 0..n
  <1> DEFINE Blocks == Planes(ch, n)
             Main(c) == \/ IoMode = "InPlace" /\ \E x \in Blocks : c = InPlace(x)
                        \/ IoMode = "Split" /\ \E x \in Blocks : c = Split(x)
                        \/ IoMode = "OutputOnly" /\ c = OutputOnly(ch, n)
  <1>1. IoMode \in {"InPlace", "Split", "OutputOnly"}
        /\ (kind = "average" <=> IoMode = "Split")
        /\ (kind = "dynamics" => IoMode = "InPlace")
    BY DEF IoMode
  <1>2. PICK main : /\ Main(main)
                    /\ \/ SidechainInputs = 0 /\ ctx = main
                       \/ SidechainInputs # 0 /\ \E key \in Planes(1, n) : ctx = WithSidechains(main, <<key>>)
    <2> HIDE DEF Blocks
    <2>1. CASE IoMode = "InPlace"
      BY <2>1 DEF Contexts, Blocks
    <2>2. CASE IoMode = "Split"
      BY <2>2 DEF Contexts, Blocks
    <2>3. CASE IoMode = "OutputOnly"
      BY <2>3 DEF Contexts, Blocks
    <2>. QED
      BY <1>1, <2>1, <2>2, <2>3
  <1>3. \A x \in Blocks : FramesOf(x) \in {0, n} /\ Sampled(x, ch, n, 1)
    BY PlanesSampled DEF Planes
  <1> HIDE DEF Blocks
  <1>4. /\ DOMAIN main = {"main", "sidechain", "frames"}
        /\ {"mode", "planes"} \subseteq DOMAIN main.main
        /\ main.frames = FramesOf(main.main.planes)
        /\ IoMode = "Split" => /\ main.main.mode = "Split" /\ "input" \in DOMAIN main.main
                               /\ main.main.input \in Blocks
        /\ IoMode = "InPlace" => main.main.mode = "InPlace" /\ main.main.planes \in Blocks
        /\ IoMode = "OutputOnly" => main.main.planes = Unwritten(ch, n)
    BY <1>1, <1>2 DEF InPlace, Split, OutputOnly, FromIo
  <1>5. /\ DOMAIN ctx = DOMAIN main /\ ctx.main = main.main /\ ctx.frames = main.frames
        /\ SidechainInputs # 0 => \E key \in Planes(1, n) : ctx.sidechain = <<key>>
    BY <1>2, <1>4 DEF WithSidechains
  <1>6. ctx.frames \in 0..n
    <2>1. CASE IoMode = "InPlace"
      BY <1>3, <1>4, <1>5, <2>1
    <2>2. CASE IoMode = "Split"
      <3>1. FramesOf(ctx.main.input) = ctx.frames
        BY <1>4, <1>5, <2>2 DEF HonorsContract
      <3>. QED
        BY <1>3, <1>4, <1>5, <2>2, <3>1
    <2>3. CASE IoMode = "OutputOnly"
      <3>1. Unwritten(ch, n) \in [1..ch -> [1..n -> {"unwritten"}]]
        BY DEF Unwritten
      <3>2. FramesOf(Unwritten(ch, n)) \in {0, n}
        BY <3>1, PlanesSampled
      <3>. QED
        BY <1>4, <1>5, <2>3, <3>2
    <2>. QED
      BY <1>1, <2>1, <2>2, <2>3
  <1>7. ASSUME kind = "dynamics"
        PROVE  IF kernel.use_sidechain
               THEN ctx.sidechain # <<>> /\ Sampled(ctx.sidechain[1], 1, n, 1)
               ELSE ctx.main.mode = "InPlace" /\ Sampled(ctx.main.planes, ch, n, 1)
    <2>1. CASE kernel.use_sidechain
      <3>1. PICK key \in Planes(1, n) : ctx.sidechain = <<key>>
        BY <1>5, <1>7, <2>1 DEF SidechainInputs
      <3>2. Sampled(key, 1, n, 1)
        <4> DEFINE one == 1
        <4>1. one \in Nat /\ key \in [1..one -> [1..n -> Samples[kind]]]
          BY <3>1 DEF Planes
        <4> HIDE DEF one
        <4>2. Sampled(key, one, n, 1)
          BY <4>1, PlanesSampled
        <4>. QED
          BY <4>2 DEF one
      <3>. QED
        BY <2>1, <3>1, <3>2
    <2>2. CASE ~ kernel.use_sidechain
      BY <1>1, <1>3, <1>4, <1>5, <1>7, <2>2
    <2>. QED
      BY <2>1, <2>2
  <1>8. kind = "average" => /\ ctx.main.mode = "Split" /\ "input" \in DOMAIN ctx.main
                            /\ Sampled(ctx.main.input, ch, n, 1)
    BY <1>1, <1>3, <1>4, <1>5
  <1>9. {"main", "sidechain", "frames"} \subseteq DOMAIN ctx
        /\ {"mode", "planes"} \subseteq DOMAIN ctx.main
    BY <1>4, <1>5
  <1>10. Hears(kernel, ctx, ch, n, 1)
    BY <1>7, <1>8, <1>9, Zenon DEF Hears
  <1>. QED
    BY <1>6, <1>10

\* Running relies on what a kernel keeps from one prepare to the next.
LEMMA HoldsRunnable ==
  ASSUME NEW kind_, NEW k, NEW j, Formed(kind_, k), Runnable(kind_, k), Holds(k, j)
  PROVE  Runnable(kind_, j) /\ Formed(kind_, j) /\ (kind_ = "dynamics" => j.use_sidechain = k.use_sidechain)
  <1>1. /\ kind_ = "average" => "taps" \in DOMAIN k
        /\ kind_ = "dynamics" => {"atk", "rel", "use_sidechain"} \subseteq DOMAIN k
        /\ kind_ = "oscillator" => "fs" \in DOMAIN k
    BY SMT DEF Formed
  <1>2. /\ kind_ = "average" => j.taps = k.taps
        /\ kind_ = "dynamics" => /\ j.atk = k.atk /\ j.rel = k.rel
                                 /\ j.use_sidechain = k.use_sidechain
        /\ kind_ = "oscillator" => j.fs = k.fs
    BY <1>1 DEF Holds, Keeps, Kept, Fixed
  <1>3. Runnable(kind_, j)
    BY <1>2 DEF Runnable
  <1>4. Formed(kind_, j)
    BY KeepsFormed DEF Holds
  <1>. QED
    BY <1>2, <1>3, <1>4

\* A block, in one run or two, leaves the kernel in shape and its measures alone.
LEMMA BlockShaped ==
  ASSUME kind \in KernelKinds, Formed(kind, kernel), Runnable(kind, kernel),
         NEW ch \in Nat, Shaped(kind, kernel, ch), NEW n \in Nat, NEW ctx,
         Hears(kernel, ctx, ch, n, 1), ctx.frames \in 0..n, NEW cut \in 1..ctx.frames,
         NEW p, NEW q, kind = "oscillator" => p[1] \in Nat /\ q[1] \in Nat, NEW slip \in Int
  PROVE  /\ Shaped(kind, RenderBlock(ctx, cut, p, q, slip).kernel, ch)
         /\ Holds(kernel, RenderBlock(ctx, cut, p, q, slip).kernel)
  <1> DEFINE first == RenderRun(kernel, ctx, 0, cut, p, slip)
             k == first.kernel
             block == first.ctx
             left == ctx.frames - cut
             rest == RenderRun(k, block, cut, left, q, slip)
  <1>1. cut \in Nat /\ left \in Nat /\ cut + left <= n /\ 0 + cut <= n
    OBVIOUS
  <1>2. ASSUME NEW j, NEW c, NEW start, NEW len, NEW params
        PROVE  RenderRun(j, c, start, len, params, slip).kernel
                 = KernelRender(j, Run(c, start, len), params, slip).kernel
    BY Zenon DEF RenderRun
  <1>3. Shaped(kind, k, ch) /\ Holds(kernel, k)
    <2>1. Heeds(kind, kernel, Run(ctx, 0, cut), p, ch, cut)
      <3> DEFINE zero == 0
      <3>1. zero \in Nat /\ 1 <= zero + 1 /\ zero + cut <= n /\ 1 \in Nat
        BY <1>1
      <3> HIDE DEF zero
      <3>2. Heeds(kind, kernel, Run(ctx, zero, cut), p, ch, cut)
        BY <1>1, <3>1, RunHeeds
      <3>. QED
        BY <3>2 DEF zero
    <2>2. k = KernelRender(kernel, Run(ctx, 0, cut), p, slip).kernel
      BY <1>2
    <2> HIDE DEF k
    <2>. QED
      BY <1>1, <2>1, <2>2, RenderShaped, RenderKeeps
  <1>4. Runnable(kind, k) /\ Formed(kind, k)
        /\ (kind = "dynamics" => k.use_sidechain = kernel.use_sidechain)
    <2> HIDE DEF k
    <2>. QED
      BY <1>3, HoldsRunnable
  <1>5. Hears(k, block, ch, n, cut + 1)
    <2>1. \E planes : block = [ctx EXCEPT !.main = Written(Run(ctx, 0, cut), planes)]
      BY Zenon DEF RenderRun
    <2> HIDE DEF k, block
    <2>. QED
      BY <1>1, <1>4, <2>1, NextHears
  <1>6. Shaped(kind, rest.kernel, ch) /\ Holds(k, rest.kernel)
    <2> DEFINE j == rest.kernel
    <2>1. j = KernelRender(k, Run(block, cut, left), q, slip).kernel
      BY <1>2
    <2> HIDE DEF k, block, j, left
    <2>2. Heeds(kind, k, Run(block, cut, left), q, ch, left)
      <3>1. cut + 1 \in Nat /\ cut + 1 <= cut + 1
        BY <1>1
      <3>. QED
        BY <1>1, <1>5, <3>1, RunHeeds
    <2>3. Shaped(kind, j, ch) /\ Holds(k, j)
      BY <1>1, <1>3, <1>4, <2>1, <2>2, RenderShaped, RenderKeeps
    <2>. QED
      BY <2>3 DEF j
  <1>7. RenderBlock(ctx, cut, p, q, slip) = IF cut = ctx.frames THEN first ELSE rest
    BY Zenon DEF RenderBlock
  <1>8. Holds(kernel, rest.kernel)
    <2> DEFINE j == rest.kernel
    <2> HIDE DEF k, j
    <2>1. Holds(kernel, j)
      BY <1>3, <1>6, HoldsTwice DEF j
    <2>. QED
      BY <2>1 DEF j
  <1>. QED
    <2>1. CASE cut = ctx.frames
      BY <1>3, <1>7, <2>1, Zenon
    <2>2. CASE cut # ctx.frames
      BY <1>6, <1>7, <1>8, <2>2, Zenon
    <2>. QED
      BY <2>1, <2>2

-----------------------------------------------------------------------------
(* The processor's invariant. *)

\* A prepared kernel has the shape that its spec asks for, and can be run.
LEMMA PreparedShaped ==
  ASSUME Steady, NEW spec \in Specs[kind], NEW cap, KernelAnswer(spec, cap) = "Ok"
  PROVE  /\ Shaped(kind, KernelPrepared(spec), spec.channels)
         /\ Runnable(kind, KernelPrepared(spec))
         /\ "fs" \in DOMAIN kernel => KernelPrepared(spec).fs = spec.sample_rate
         /\ kind = "custom" => KernelPrepared(spec).buffer = CustomSize * spec.channels
  <1> DEFINE rate == spec.sample_rate
             ch == spec.channels
             j == KernelPrepared(spec)
             Goal == /\ Shaped(kind, j, ch) /\ Runnable(kind, j)
                     /\ "fs" \in DOMAIN kernel => j.fs = rate
                     /\ kind = "custom" => j.buffer = CustomSize * ch
  <1>0. SUFFICES Goal
    OBVIOUS
  <1>1. kind \in KernelKinds /\ Formed(kind, kernel) /\ rate \in Nat /\ ch \in Nat
    BY SteadyFormed DEF Askable
  <1>2. CASE kind = "average"
    <2>1. j = AverageCleared(kernel, ch) /\ kernel.taps # 0
      <3>1. AverageAnswer(kernel, spec, cap) = "Ok" /\ "InvalidParam" # "Ok"
        BY <1>2, Zenon DEF KernelAnswer
      <3>. QED
        BY <1>2, <3>1, Zenon DEF KernelPrepared, AveragePrepared, AverageAnswer
    <2>2. DOMAIN kernel = {"taps", "rings", "sums", "ring_pos", "flushed"} /\ kernel.taps \in Nat
      BY <1>1, <1>2, SMT DEF Formed
    <2>3. Shaped("average", j, ch)
      <3>1. Formed("average", kernel)
        BY <1>1, <1>2
      <3> HIDE DEF j, ch
      <3>. QED
        BY <1>1, <2>1, <3>1, AverageShaped
    <2>4. j.taps = kernel.taps
      BY <2>1, <2>2 DEF AverageCleared
    <2> HIDE DEF j
    <2>5. Runnable(kind, j)
      BY <1>2, <2>1, <2>2, <2>4 DEF Runnable
    <2>. QED
      BY <1>2, <2>2, <2>3, <2>5
  <1>3. CASE kind = "dc_blocker"
    <2>1. j = DcPrepared(kernel, spec) /\ rate # 0
      <3>1. DcAnswer(spec, cap) = "Ok" /\ "UnsupportedSpec" # "Ok"
        BY <1>3, Zenon DEF KernelAnswer
      <3>. QED
        BY <1>3, <3>1, Zenon DEF KernelPrepared, DcAnswer
    <2>2. rate >= 1 /\ Formed("dc_blocker", kernel) /\ "dc_blocker" \in Filters
      BY <1>1, <1>3, <2>1 DEF Filters
    <2>3. Shaped("dc_blocker", DcPrepared(kernel, spec), ch)
      BY <1>1, <2>2, FiltersShaped
    <2>4. j.fs = rate
      <3>1. {"fs", "state", "tail_bound", "flushed", "flush_r"} \subseteq DOMAIN kernel
        BY <1>1, <1>3, SMT DEF Formed
      <3>. QED
        BY <2>1, <3>1 DEF DcPrepared, DcResetFlush
    <2> HIDE DEF j
    <2>5. Runnable(kind, j)
      BY <1>3 DEF Runnable
    <2>. QED
      BY <1>3, <2>1, <2>3, <2>4, <2>5
  <1>4. CASE kind = "biquad"
    <2>1. j = BiquadPrepared(kernel, spec) /\ ~ (rate < 3)
      <3>1. BiquadAnswer(spec, cap) = "Ok" /\ "UnsupportedSpec" # "Ok"
        BY <1>4, Zenon DEF KernelAnswer
      <3>. QED
        BY <1>4, <3>1, Zenon DEF KernelPrepared, BiquadAnswer
    <2>2. rate >= 3 /\ Formed("biquad", kernel) /\ "biquad" \in Filters
      BY <1>1, <1>4, <2>1 DEF Filters
    <2>3. Shaped("biquad", BiquadPrepared(kernel, spec), ch)
      BY <1>1, <2>2, FiltersShaped
    <2>4. j.fs = rate
      <3>1. {"fs", "state", "tail_bound", "flushed", "flush_coeffs"} \subseteq DOMAIN kernel
        BY <1>1, <1>4, SMT DEF Formed
      <3>. QED
        BY <2>1, <3>1 DEF BiquadPrepared, BiquadResetFlush
    <2> HIDE DEF j
    <2>5. Runnable(kind, j)
      BY <1>4 DEF Runnable
    <2>. QED
      BY <1>4, <2>1, <2>3, <2>4, <2>5
  <1>5. CASE kind = "dynamics"
    <2>1. /\ j = DynamicsPrepared(kernel, spec) /\ rate # 0
          /\ ValidTime(kernel.attack_ms) /\ ValidTime(kernel.release_ms)
      <3>1. /\ DynamicsAnswer(kernel, spec) = "Ok" /\ "UnsupportedSpec" # "Ok"
            /\ "InvalidParam" # "Ok"
        BY <1>5, Zenon DEF KernelAnswer
      <3>. QED
        BY <1>5, <3>1, Zenon DEF KernelPrepared, DynamicsAnswer
    <2>2. /\ {"attack_ms", "release_ms", "fs", "atk", "rel", "env"} \subseteq DOMAIN kernel
          /\ {kernel.attack_ms, kernel.release_ms} \subseteq Int \cup {NotFinite}
      BY <1>1, <1>5, SMT DEF Formed
    <2>3. kernel.attack_ms \in Nat /\ kernel.release_ms \in Nat
      BY <2>1, <2>2 DEF ValidTime, Finite
    <2>4. PICK k \in Kernels : kind = k.kind /\ Keeps(k.kernel, kernel)
      BY DEF Steady
    <2>5. Moving(k.kernel, rate)
      BY <1>1, <1>5, <2>1, <2>4, HostAssumption
    <2>6. k.kernel.attack_ms = kernel.attack_ms /\ k.kernel.release_ms = kernel.release_ms
      BY <2>2, <2>4 DEF Keeps, Kept
    <2>7. /\ OnePoleCoeff(kernel.attack_ms, rate) \in Nat \ {0}
          /\ OnePoleCoeff(kernel.release_ms, rate) \in Nat \ {0}
      BY <2>3, <2>5, <2>6 DEF Moving
    <2>8. /\ j.fs = rate /\ j.env = 0
          /\ j.atk = OnePoleCoeff(kernel.attack_ms, rate)
          /\ j.rel = OnePoleCoeff(kernel.release_ms, rate)
      BY <2>1, <2>2 DEF DynamicsPrepared
    <2> HIDE DEF j
    <2>9. Runnable(kind, j) /\ Shaped(kind, j, ch)
      BY <1>5, <2>7, <2>8 DEF Runnable, Shaped, Filters
    <2>. QED
      BY <1>5, <2>8, <2>9
  <1>6. CASE kind = "oscillator"
    <2>1. j = OscillatorPrepared(kernel, spec) /\ rate # 0
      <3>1. OscillatorAnswer(spec) = "Ok" /\ "UnsupportedSpec" # "Ok"
        BY <1>6, Zenon DEF KernelAnswer
      <3>. QED
        BY <1>6, <3>1, Zenon DEF KernelPrepared, OscillatorAnswer
    <2>2. {"fs", "phase"} \subseteq DOMAIN kernel
      BY <1>1, <1>6, SMT DEF Formed
    <2>3. j.fs = rate /\ j.phase = 0
      BY <2>1, <2>2 DEF OscillatorPrepared
    <2> HIDE DEF j
    <2>4. Runnable(kind, j) /\ Shaped(kind, j, ch)
      BY <1>1, <1>6, <2>1, <2>3, CycleAssumption DEF Runnable, Shaped, Filters
    <2>. QED
      BY <1>6, <2>3, <2>4
  <1>7. CASE kind \in {"noise", "dither"}
    <2>1. "fs" \notin DOMAIN kernel
      BY <1>1, <1>7, SMT DEF Formed
    <2>2. Shaped(kind, j, ch)
      <3>1. CASE kind = "noise"
        BY <1>1, <3>1, OthersShaped, Zenon DEF KernelPrepared
      <3>2. CASE kind = "dither"
        BY <1>1, <3>2, OthersShaped, Zenon DEF KernelPrepared
      <3>. QED
        BY <1>7, <3>1, <3>2
    <2> HIDE DEF j
    <2>3. Runnable(kind, j)
      BY <1>7 DEF Runnable
    <2>. QED
      BY <1>7, <2>1, <2>2, <2>3
  <1>8. CASE kind \in {"gain", "scale", "dc_offset", "custom"}
    <2>1. "fs" \notin DOMAIN kernel
      BY <1>1, <1>8, SMT DEF Formed
    <2>2. kind = "custom" => j.buffer = CustomSize * ch
      <3>1. kind = "custom" => j = CustomPrepared(kernel, spec) /\ "buffer" \in DOMAIN kernel
        BY <1>1, SMT DEF Formed, KernelPrepared
      <3>. QED
        BY <3>1 DEF CustomPrepared
    <2> HIDE DEF j
    <2>3. Runnable(kind, j) /\ Shaped(kind, j, ch)
      BY <1>8 DEF Runnable, Shaped, Filters
    <2>. QED
      BY <2>1, <2>2, <2>3
  <1>. QED
    BY <1>1, <1>2, <1>3, <1>4, <1>5, <1>6, <1>7, <1>8, Zenon DEF KernelKinds

\* A processor that counts as prepared is what its last spec asked for.
Whole ==
  /\ answer = "Ok" /\ asked \in Specs[kind]
  /\ Shaped(kind, kernel, asked.channels) /\ Runnable(kind, kernel)
  /\ prepared = [channels |-> asked.channels, io_mode |-> IoMode,
                 sidechain_inputs |-> SidechainInputs, max_block |-> asked.max_block]
  /\ bank = [sample_rate |-> asked.sample_rate, smoothers |-> Len(ParamInfo)]
  /\ "fs" \in DOMAIN kernel => kernel.fs = asked.sample_rate
  /\ kind = "custom" => kernel.buffer = CustomSize * asked.channels

\* The host's side is of its kind.
HostTyped ==
  /\ asked \in Specs[kind] \cup {Unasked}
  /\ answer \in {"Unasked", "Ok", "InvalidParam", "UnsupportedSpec", "OverBudget"}
  /\ bank \in [sample_rate : Nat, smoothers : Nat]
  /\ ended \in BOOLEAN /\ hot \in BOOLEAN

\* The kernels with something to drain.
Drained == {"average"} \cup Filters

\* A drain has handed over no more than the kernel has counted, and is over with its tail.
DrainCounted ==
  /\ given \in Nat
  /\ kind \in Drained =>
       given <= kernel.flushed /\ (ended => kernel.flushed = DeclaredTail)
  /\ kind \notin Drained => given = 0

\* Inductive.
KernelInv ==
  /\ Steady
  /\ \E ch \in Nat : Shaped(kind, kernel, ch)
  /\ prepared = NotPrepared \/ Whole
  /\ HostTyped
  /\ DrainCounted

\* What is due to the spec stays while the kernel's measures do.
LEMMA WholeKept ==
  ASSUME Steady, Whole, kind' = kind, Holds(kernel, kernel'),
         Shaped(kind, kernel', asked.channels), UNCHANGED <<bank, prepared, asked, answer>>
  PROVE  Whole'
  <1>1. kind \in KernelKinds /\ Formed(kind, kernel)
    BY SteadyFormed
  <1>2. Runnable(kind, kernel')
    BY <1>1, HoldsRunnable DEF Whole
  <1>3. ParamInfo' = ParamInfo /\ (kind = "dynamics" => kernel'.use_sidechain = kernel.use_sidechain)
    BY <1>1, SettingsKept DEF Holds
  <1>4. IoMode' = IoMode /\ SidechainInputs' = SidechainInputs
    BY <1>3, Zenon DEF IoMode, SidechainInputs
  <1>5. /\ DOMAIN kernel' = DOMAIN kernel
        /\ "fs" \in DOMAIN kernel => kernel'.fs = kernel.fs
        /\ "buffer" \in DOMAIN kernel => kernel'.buffer = kernel.buffer
    BY DEF Holds, Keeps, Fixed
  <1>6. kind = "custom" => "buffer" \in DOMAIN kernel
    BY <1>1, SMT DEF Formed
  <1>. QED
    BY <1>2, <1>3, <1>4, <1>5, <1>6, Zenon DEF Whole

\* What a prepare may be answered with.
Verdicts == {"Ok", "InvalidParam", "UnsupportedSpec", "OverBudget"}

\* Prepares are answered with a verdict.
LEMMA VerdictTyped ==
  ASSUME kind \in KernelKinds, NEW spec, NEW cap
  PROVE  /\ \A layout, c : Preflight(layout, c) \in Verdicts
         /\ KernelAnswer(spec, cap) \in Verdicts
  <1>1. \A layout, c : Preflight(layout, c) \in Verdicts
    BY DEF Preflight, Verdicts
  <1>2. {"Ok", "InvalidParam", "UnsupportedSpec"} \subseteq Verdicts
    BY DEF Verdicts
  <1>3. CASE kind \in {"average", "dc_blocker", "biquad"}
    <2>1. /\ AverageAnswer(kernel, spec, cap) \in Verdicts /\ DcAnswer(spec, cap) \in Verdicts
          /\ BiquadAnswer(spec, cap) \in Verdicts
      BY <1>1, <1>2, Zenon DEF AverageAnswer, DcAnswer, BiquadAnswer
    <2>. QED
      BY <1>1, <1>3, <2>1, Zenon DEF KernelAnswer
  <1>4. CASE kind \in {"noise", "dither", "dc_offset"}
    <2>1. /\ NoiseAnswer(spec, cap) \in Verdicts /\ DitherAnswer(kernel, spec, cap) \in Verdicts
          /\ OffsetAnswer(kernel, spec, cap) \in Verdicts
      BY <1>1, <1>2, Zenon DEF NoiseAnswer, DitherAnswer, OffsetAnswer
    <2>. QED
      BY <1>1, <1>4, <2>1, Zenon DEF KernelAnswer
  <1>5. CASE kind \in {"dynamics", "oscillator", "scale", "gain", "custom"}
    <2>1. /\ DynamicsAnswer(kernel, spec) \in Verdicts /\ OscillatorAnswer(spec) \in Verdicts
          /\ ScaleAnswer(kernel) \in Verdicts /\ "Ok" \in Verdicts
      BY <1>2, Zenon DEF DynamicsAnswer, OscillatorAnswer, ScaleAnswer
    <2>. QED
      BY <1>1, <1>5, <2>1, Zenon DEF KernelAnswer
  <1>. QED
    BY <1>3, <1>4, <1>5 DEF KernelKinds

\* What a drain has handed over is counted up to the tail.
LEMMA FlushedTyped ==
  ASSUME NEW kind_ \in Drained, NEW k, NEW ch, Shaped(kind_, k, ch), Formed(kind_, k)
  PROVE  /\ k.flushed \in Nat
         /\ kind_ = "average" => AverageTail(k) \in Nat /\ k.flushed <= AverageTail(k)
         /\ kind_ \in Filters => k.tail_bound \in Nat /\ k.flushed <= k.tail_bound
  <1>1. CASE kind_ = "average"
    <2>1. k.taps \in Nat
      BY <1>1, SMT DEF Formed
    <2>2. AverageTail(k) \in Nat
      BY <2>1 DEF AverageTail
    <2>3. k.flushed \in 0..AverageTail(k)
      BY <1>1, Zenon DEF Shaped
    <2>4. "average" \notin Filters
      BY DEF Filters
    <2>. QED
      BY <1>1, <2>2, <2>3, <2>4
  <1>2. CASE kind_ \in Filters
    <2>1. k.tail_bound \in Nat /\ k.flushed \in 0..k.tail_bound /\ kind_ # "average"
      BY <1>2 DEF Shaped, Filters
    <2>. QED
      BY <2>1
  <1>. QED
    BY <1>1, <1>2 DEF Drained

\* A call of flush hands over what it counts, at most the tail in all, and is done at its end.
LEMMA FlushCounted ==
  ASSUME Steady, NEW ch \in Nat, Shaped(kind, kernel, ch), NEW room \in Nat, NEW slip \in Int,
         NEW f, f = KernelFlush(room, slip)
  PROVE  /\ f.frames \in Nat /\ f.done \in BOOLEAN
         /\ kind \in Drained =>
              /\ kernel.flushed + f.frames <= f.kernel.flushed /\ f.kernel.flushed \in Nat
              /\ f.kernel.flushed <= DeclaredTail
              /\ f.done => f.kernel.flushed = DeclaredTail
              /\ kernel.flushed = DeclaredTail => f.frames = 0 /\ f.done
         /\ kind \notin Drained => f.frames = 0 /\ f.done
  <1>1. kind \in KernelKinds /\ Formed(kind, kernel)
    BY SteadyFormed
  <1>2. CASE kind = "average"
    <2> DEFINE want == AverageWant(kernel, room)
               tail == AverageTail(kernel)
               run == AverageRun(kernel, Silence(Len(kernel.sums), want), slip)
    <2>1. kernel.flushed \in Nat /\ tail \in Nat /\ kernel.flushed <= tail
      BY <1>1, <1>2, FlushedTyped DEF Drained
    <2>2. want \in Nat /\ kernel.flushed + want \in 0..tail
      BY <2>1, WantBounded
    <2>3. DeclaredTail = tail
      BY <1>2, SMT DEF DeclaredTail, Filters
    <2>4. /\ f.frames = want /\ f.done = (kernel.flushed + want >= tail)
          /\ f.kernel = [run.kernel EXCEPT !.flushed = @ + want]
      <3>1. f = AverageFlush(kernel, room, slip)
        BY <1>2, Zenon DEF KernelFlush
      <3>2. f = [kernel |-> [run.kernel EXCEPT !.flushed = @ + want], out |-> run.out,
                 frames |-> want, done |-> kernel.flushed + want >= tail]
        BY <3>1, Zenon DEF AverageFlush
      <3> HIDE DEF run, want, tail
      <3>. QED
        BY <3>2
    <2>5. f.kernel.flushed = kernel.flushed + want
      <3>1. \E a, b, c : run.kernel = [kernel EXCEPT !.rings = a, !.sums = b, !.ring_pos = c]
        BY Zenon DEF AverageRun
      <3>2. DOMAIN kernel = {"taps", "rings", "sums", "ring_pos", "flushed"}
        BY <1>1, <1>2, SMT DEF Formed
      <3> HIDE DEF run, want
      <3>3. run.kernel.flushed = kernel.flushed /\ "flushed" \in DOMAIN run.kernel
        BY <3>1, <3>2
      <3>. QED
        BY <2>4, <3>3
    <2>6. kernel.flushed = tail => want = 0
      <3> HIDE DEF want, tail
      <3>. QED
        BY <2>1, <2>2
    <2> HIDE DEF want, tail
    <2>7. f.done \in BOOLEAN
      BY <2>4
    <2>8. kernel.flushed + want >= tail => kernel.flushed + want = tail
      BY <2>1, <2>2
    <2>9. kernel.flushed = tail => kernel.flushed + want >= tail
      BY <2>1, <2>6
    <2>10. kernel.flushed = tail => f.frames = 0 /\ f.done
      BY <2>4, <2>6, <2>9, Zenon
    <2>11. f.done => f.kernel.flushed = tail
      BY <2>4, <2>5, <2>8, Zenon
    <2>12. /\ f.frames \in Nat /\ kernel.flushed + f.frames <= f.kernel.flushed
           /\ f.kernel.flushed \in Nat /\ f.kernel.flushed <= tail
      <3>1. f.frames = want
        BY <2>4
      <3>. QED
        BY <2>1, <2>2, <2>5, <3>1
    <2>13. kind \in Drained
      BY <1>2 DEF Drained
    <2>. QED
      BY <2>3, <2>7, <2>10, <2>11, <2>12, <2>13, Zenon
  <1>3. CASE kind \in Filters
    <2>1. Drains(kernel, room, f)
      <3>1. Drains(kernel, room, DcFlush(kernel, room)) /\ Drains(kernel, room, BiquadFlush(kernel, room))
        BY FiltersDrain
      <3>2. f = DcFlush(kernel, room) \/ f = BiquadFlush(kernel, room)
        BY <1>3, Zenon DEF KernelFlush, Filters
      <3>. QED
        BY <3>1, <3>2, Zenon
    <2>2. /\ {"state", "tail_bound", "flushed"} \subseteq DOMAIN kernel
          /\ kernel.tail_bound \in Nat /\ kernel.flushed \in 0..kernel.tail_bound
      <3>1. {"state", "tail_bound", "flushed"} \subseteq DOMAIN kernel
        BY <1>1, <1>3, SMT DEF Formed, Filters
      <3>2. kernel.tail_bound \in Nat /\ kernel.flushed \in 0..kernel.tail_bound
        BY <1>3, Zenon DEF Shaped
      <3>. QED
        BY <3>1, <3>2
    <2>3. DeclaredTail = kernel.tail_bound
      BY <1>3 DEF DeclaredTail, Filters
    <2>4. /\ f.frames \in Nat /\ kernel.flushed + f.frames <= f.kernel.flushed
          /\ f.kernel.flushed <= kernel.tail_bound /\ f.kernel.flushed \in Nat
          /\ f.done \in BOOLEAN
          /\ f.done => f.kernel.flushed = kernel.tail_bound
          /\ kernel.flushed = kernel.tail_bound => f.frames = 0 /\ f.done
      BY <2>1, <2>2, DrainsBounded
    <2>5. kind \in Drained
      BY <1>3 DEF Drained
    <2>. QED
      BY <2>3, <2>4, <2>5
  <1>4. CASE kind \notin Drained
    <2>1. f = NoFlush
      BY <1>4, Zenon DEF KernelFlush, Drained, Filters
    <2>2. f.frames = 0 /\ f.done = TRUE
      BY <2>1 DEF NoFlush
    <2>3. 0 \in Nat /\ TRUE \in BOOLEAN
      OBVIOUS
    <2>. QED
      BY <1>4, <2>2, <2>3, Zenon
  <1>. QED
    BY <1>2, <1>3, <1>4 DEF Drained

\* An oscillator's frequencies are positive.
LEMMA RunValuesTyped ==
  ASSUME Steady, NEW p \in RunValues, kind = "oscillator"
  PROVE  p[1] \in Nat
  <1>1. /\ "params" \in DOMAIN kernel /\ 1 \in DOMAIN kernel.params
        /\ kernel.params[1].lo = 1 /\ kernel.params[1].hi = HighestTone
    <2>1. Formed(kind, kernel)
      BY SteadyFormed
    <2>. QED
      BY <2>1, SMT DEF Formed
  <1>2. ParamInfo = kernel.params
    BY <1>1 DEF ParamInfo
  <1>3. p[1] \in (ParamInfo[1].lo)..(ParamInfo[1].hi)
    BY <1>1, <1>2 DEF RunValues
  <1>4. HighestTone \in Int
    BY DEF HighestTone
  <1>. QED
    BY <1>1, <1>2, <1>3, <1>4

\* A kernel starts in shape, without a channel.
LEMMA ConstructedShaped ==
  ASSUME NEW kind_ \in KernelKinds, NEW k, Constructed(kind_, k)
  PROVE  Shaped(kind_, k, 0) /\ (kind_ \in Drained => k.flushed = 0)
  <1>1. CASE kind_ = "average"
    <2>1. k.taps \in Nat /\ k = AverageNew(k.taps)
      BY <1>1, Zenon DEF Constructed
    <2>2. PICK taps \in Nat : k = AverageNew(taps)
      BY <2>1
    <2>3. k.rings = <<>> /\ k.sums = <<>> /\ k.ring_pos = 0 /\ k.flushed = 0 /\ k.taps = taps
      BY <2>2 DEF AverageNew
    <2>4. AverageTail(k) \in Nat
      BY <2>3 DEF AverageTail
    <2> DEFINE none == 0
    <2>5. k.rings \in [1..none -> [0..(k.taps - 1) -> Int]] /\ k.sums \in [1..none -> Int]
      BY <2>3
    <2>6. k.ring_pos \in 0..AverageTail(k) /\ k.flushed \in 0..AverageTail(k)
      BY <2>3, <2>4
    <2>. QED
      BY <1>1, <2>3, <2>5, <2>6, Zenon DEF Shaped, Filters
  <1>2. ASSUME k.state = <<>>, k.tail_bound = 0, k.flushed = 0, kind_ \in Filters
        PROVE  Shaped(kind_, k, 0) /\ (kind_ \in Drained => k.flushed = 0)
    BY <1>2 DEF Shaped, Filters
  <1>3. CASE kind_ = "dc_blocker"
    <2>1. PICK s : k = DcNew(s)
      BY <1>3, Zenon DEF Constructed
    <2>2. k.state = <<>> /\ k.tail_bound = 0 /\ k.flushed = 0
      BY <2>1 DEF DcNew
    <2>. QED
      BY <1>2, <1>3, <2>2 DEF Filters
  <1>4. CASE kind_ = "biquad"
    <2>1. PICK s : k = BiquadNew(s)
      BY <1>4, Zenon DEF Constructed
    <2>2. k.state = <<>> /\ k.tail_bound = 0 /\ k.flushed = 0
      BY <2>1 DEF BiquadNew
    <2>. QED
      BY <1>2, <1>4, <2>2 DEF Filters
  <1>5. CASE kind_ = "dynamics"
    <2>1. PICK s : k = DynamicsNew(s)
      BY <1>5, Zenon DEF Constructed
    <2>2. k.env = 0
      BY <2>1 DEF DynamicsNew
    <2>. QED
      BY <1>5, <2>2 DEF Shaped, Filters, Drained
  <1>6. CASE kind_ = "oscillator"
    <2>1. PICK s : k = OscillatorNew(s)
      BY <1>6, Zenon DEF Constructed
    <2>2. k.phase = 0
      BY <2>1 DEF OscillatorNew
    <2>. QED
      BY <1>6, <2>2, CycleAssumption DEF Shaped, Filters, Drained
  <1>7. CASE kind_ \in {"noise", "dither"}
    <2>1. k.rngs = <<>>
      <3>1. (\E s : k = NoiseNew(s)) \/ (\E s : k = DitherNew(s))
        BY <1>7, Zenon DEF Constructed
      <3>. QED
        BY <3>1 DEF NoiseNew, DitherNew
    <2>. QED
      BY <1>7, <2>1 DEF Shaped, Filters, Drained
  <1>8. CASE kind_ \in {"gain", "scale", "dc_offset", "custom"}
    BY <1>8 DEF Shaped, Filters, Drained
  <1>. QED
    BY <1>1, <1>3, <1>4, <1>5, <1>6, <1>7, <1>8 DEF KernelKinds

\* It starts so,
LEMMA InvInit == Init => KernelInv
  <1> SUFFICES ASSUME Init PROVE KernelInv
    OBVIOUS
  <1>1. PICK k \in Kernels : kind = k.kind /\ kernel = k.kernel
    BY DEF Init
  <1>2. kind \in KernelKinds /\ Constructed(kind, kernel)
    BY <1>1, HostAssumption
  <1>3. Steady
    BY <1>1 DEF Steady, Keeps
  <1>4. Shaped(kind, kernel, 0) /\ (kind \in Drained => kernel.flushed = 0)
    BY <1>2, ConstructedShaped
  <1>5. HostTyped
    BY DEF Init, HostTyped, NoBank
  <1>6. DrainCounted
    BY <1>4 DEF Init, DrainCounted
  <1>7. prepared = NotPrepared
    BY DEF Init
  <1>8. \E ch \in Nat : Shaped(kind, kernel, ch)
    BY <1>4
  <1>. QED
    BY <1>3, <1>5, <1>6, <1>7, <1>8 DEF KernelInv

\* New input and a reset begin a drain.
LEMMA BeginsCounted ==
  ASSUME kind \in KernelKinds, NEW ch \in Nat, NEW k, Formed(kind, k), Shaped(kind, k, ch),
         kernel' = k, kind' = kind, given' = 0, ended' = FALSE
  PROVE  DrainCounted'
  <1>1. kind \in Drained => k.flushed \in Nat
    BY FlushedTyped
  <1>2. kind \in Drained => 0 <= k.flushed
    BY <1>1
  <1>3. 0 \in Nat
    OBVIOUS
  <1>. QED
    BY <1>2, <1>3, Zenon DEF DrainCounted

\* a prepare keeps it,
LEMMA InvPrepare ==
  ASSUME KernelInv, NEW spec \in Specs[kind], Prepare(spec), Steady'
  PROVE  KernelInv'
  <1>1. kind \in KernelKinds /\ Formed(kind, kernel) /\ Askable(spec) /\ kind' = kind
    BY SteadyFormed DEF KernelInv, Prepare
  <1>2. asked' = spec /\ asked' \in Specs[kind] \cup {Unasked}
    BY DEF Prepare
  <1>3. ASSUME NEW why \in Verdicts, PrepareRefused(why)
        PROVE  KernelInv'
    <2>1. /\ UNCHANGED <<kernel, history, bank>> /\ prepared' = NotPrepared /\ answer' = why
      BY <1>3, Zenon DEF PrepareRefused, Refuse
    <2>2. HostTyped'
      BY <1>1, <1>2, <1>3, <2>1 DEF KernelInv, HostTyped, history, Verdicts
    <2>3. DrainCounted'
      <3>1. UNCHANGED <<kind, kernel, given, ended>>
        BY <1>1, <2>1 DEF history
      <3>2. UNCHANGED DeclaredTail
        BY <3>1, Zenon DEF DeclaredTail
      <3>. QED
        BY <3>1, <3>2, Zenon DEF KernelInv, DrainCounted
    <2>4. (\E ch \in Nat : Shaped(kind, kernel, ch))'
      BY <1>1, <2>1 DEF KernelInv
    <2>. QED
      BY <2>1, <2>2, <2>3, <2>4 DEF KernelInv
  <1>4. ASSUME PrepareKernel(spec), NEW cap, KernelAnswer(spec, cap) = "Ok"
        PROVE  KernelInv'
    <2> DEFINE k == KernelPrepared(spec)
    <2>1. /\ kernel' = k /\ given' = 0 /\ ended' = FALSE /\ hot' = FALSE
          /\ \/ Refuse("OverBudget")
             \/ /\ answer' = "Ok"
                /\ bank' = [sample_rate |-> spec.sample_rate, smoothers |-> Len(ParamInfo)]
                /\ prepared' = [channels |-> spec.channels, io_mode |-> IoMode,
                                sidechain_inputs |-> SidechainInputs, max_block |-> spec.max_block]
      BY <1>4, Zenon DEF PrepareKernel, Forget
    <2>2. /\ Shaped(kind, k, spec.channels) /\ Runnable(kind, k)
          /\ "fs" \in DOMAIN kernel => k.fs = spec.sample_rate
          /\ kind = "custom" => k.buffer = CustomSize * spec.channels
      BY <1>4, PreparedShaped DEF KernelInv
    <2>3. Keeps(kernel, k) /\ Formed(kind, k)
      BY <1>1, PreparedKeeps, KeepsFormed
    <2> HIDE DEF k
    <2>4. DrainCounted'
      BY <1>1, <2>1, <2>2, <2>3, BeginsCounted DEF Askable
    <2>5. Len(ParamInfo) \in Nat
      <3>1. "params" \in DOMAIN kernel => Len(kernel.params) \in Nat
        BY <1>1, SMT DEF Formed
      <3>. QED
        BY <3>1 DEF ParamInfo, NoParams
    <2>6. HostTyped'
      <3>1. bank' \in [sample_rate : Nat, smoothers : Nat]
        BY <1>1, <2>1, <2>5 DEF KernelInv, HostTyped, Refuse, Askable
      <3>2. answer' \in {"Ok", "OverBudget"}
        BY <2>1 DEF Refuse
      <3>. QED
        BY <1>1, <1>2, <2>1, <3>1, <3>2 DEF HostTyped
    <2>7. (\E ch \in Nat : Shaped(kind, kernel, ch))'
      BY <1>1, <2>1, <2>2 DEF Askable
    <2>8. (prepared = NotPrepared \/ Whole)'
      <3>1. CASE Refuse("OverBudget")
        BY <3>1 DEF Refuse
      <3>2. CASE ~ Refuse("OverBudget")
        <4>1. ParamInfo' = ParamInfo
              /\ (kind = "dynamics" => kernel'.use_sidechain = kernel.use_sidechain)
          BY <1>1, <2>1, <2>3, SettingsKept
        <4>2. IoMode' = IoMode /\ SidechainInputs' = SidechainInputs
          BY <1>1, <4>1, Zenon DEF IoMode, SidechainInputs
        <4>3. DOMAIN k = DOMAIN kernel
          BY <2>3 DEF Keeps
        <4>4. Whole'
          BY <1>1, <1>2, <2>1, <2>2, <3>2, <4>1, <4>2, <4>3, Zenon DEF Whole
        <4>. QED
          BY <4>4
      <3>. QED
        BY <3>1, <3>2
    <2>. QED
      BY <2>4, <2>6, <2>7, <2>8 DEF KernelInv
  <1>5. CASE \E why \in Verdicts : PrepareRefused(why)
    BY <1>3, <1>5
  <1>6. CASE /\ PrepareKernel(spec) /\ KernelAnswer(spec, Remainder(spec.max_memory)) = "Ok"
    BY <1>4, <1>6
  <1>7. \/ \E why \in Verdicts : PrepareRefused(why)
        \/ /\ PrepareKernel(spec) /\ KernelAnswer(spec, Remainder(spec.max_memory)) = "Ok"
    <2>1. Preflight(BankLayout, spec.max_memory) \in Verdicts
          /\ KernelAnswer(spec, Remainder(spec.max_memory)) \in Verdicts
          /\ "InvalidParam" \in Verdicts
      BY <1>1, VerdictTyped DEF Verdicts
    <2>. QED
      BY <2>1, Zenon DEF Prepare
  <1>. QED
    BY <1>5, <1>6, <1>7

\* a reset does,
LEMMA InvReset ==
  ASSUME KernelInv, Reset, Steady'
  PROVE  KernelInv'
  <1>1. kind \in KernelKinds /\ Formed(kind, kernel)
    BY SteadyFormed DEF KernelInv
  <1>2. /\ kernel' = KernelReset /\ kind' = kind
        /\ given' = 0 /\ ended' = FALSE /\ hot' = FALSE
        /\ UNCHANGED <<bank, prepared, asked, answer>>
    BY DEF Reset, Forget
  <1>3. Holds(kernel, kernel') /\ Formed(kind, kernel')
    BY <1>1, <1>2, PreparedKeeps, KeepsFormed DEF Holds
  <1>4. ASSUME NEW ch \in Nat, Shaped(kind, kernel, ch)
        PROVE  Shaped(kind, kernel', ch)
    BY <1>1, <1>2, <1>4, ResetShaped
  <1>5. PICK ch \in Nat : Shaped(kind, kernel, ch)
    BY DEF KernelInv
  <1>6. DrainCounted'
    <2> DEFINE k == kernel'
    <2>1. Formed(kind, k) /\ Shaped(kind, k, ch)
      BY <1>3, <1>4, <1>5
    <2>. QED
      BY <1>1, <1>2, <2>1, BeginsCounted
  <1>7. (prepared = NotPrepared \/ Whole)'
    <2>1. CASE prepared = NotPrepared
      BY <1>2, <2>1
    <2>2. CASE Whole
      <3>1. asked.channels \in Nat
        BY <2>2, SteadyFormed DEF Whole, Askable, KernelInv
      <3>2. Shaped(kind, kernel', asked.channels)
        BY <1>4, <2>2, <3>1 DEF Whole
      <3>3. Whole'
        BY <1>2, <1>3, <2>2, <3>2, WholeKept DEF KernelInv
      <3>. QED
        BY <3>3
    <2>. QED
      BY <2>1, <2>2 DEF KernelInv
  <1>8. HostTyped'
    BY <1>2 DEF KernelInv, HostTyped
  <1>9. (\E n \in Nat : Shaped(kind, kernel, n))'
    BY <1>2, <1>4, <1>5
  <1>. QED
    BY <1>6, <1>7, <1>8, <1>9 DEF KernelInv

\* Roundings are integers.
LEMMA SlipsTyped == Slips \subseteq Int /\ Rooms \subseteq Nat
  BY HostAssumption DEF Slips

\* What a prepared processor has.
LEMMA PreparedIs ==
  ASSUME KernelInv, prepared # NotPrepared
  PROVE  /\ kind \in KernelKinds /\ Formed(kind, kernel) /\ Whole
         /\ Runnable(kind, kernel) /\ asked.channels \in Nat
         /\ Shaped(kind, kernel, asked.channels)
         /\ prepared.channels = asked.channels /\ prepared.io_mode = IoMode
         /\ prepared.sidechain_inputs = SidechainInputs /\ prepared.max_block \in Nat
  <1>1. Whole
    BY DEF KernelInv
  <1>2. kind \in KernelKinds /\ Formed(kind, kernel) /\ Askable(asked)
    BY <1>1, SteadyFormed DEF KernelInv, Whole
  <1>3. /\ prepared.channels = asked.channels /\ prepared.io_mode = IoMode
        /\ prepared.sidechain_inputs = SidechainInputs /\ prepared.max_block = asked.max_block
    BY <1>1 DEF Whole
  <1>. QED
    BY <1>1, <1>2, <1>3 DEF Whole, Askable

\* a block does, however it is cut,
LEMMA InvProcess ==
  ASSUME KernelInv, NEW p \in RunValues, NEW q \in RunValues, NEW n \in Nat,
         NEW ctx \in Contexts(n), Process(ctx, p, q), Steady'
  PROVE  KernelInv'
  <1>1. PICK slip \in Slips, cut \in 1..ctx.frames : ProcessBlock(ctx, cut, p, q, slip)
    BY DEF Process
  <1>2. /\ HonorsContract(ctx) /\ kernel' = RenderBlock(ctx, cut, p, q, slip).kernel
        /\ given' = 0 /\ ended' = FALSE
        /\ hot' = (kind \in Filters /\ StatePeak(kernel'.state) > TailHeadroom)
        /\ UNCHANGED <<kind, bank, prepared, asked, answer>>
    BY <1>1, Zenon DEF ProcessBlock
  <1>3. prepared # NotPrepared
    BY <1>2 DEF HonorsContract
  <1> DEFINE ch == asked.channels
  <1>4. /\ kind \in KernelKinds /\ Formed(kind, kernel) /\ Whole
        /\ Runnable(kind, kernel) /\ ch \in Nat
        /\ Shaped(kind, kernel, ch)
        /\ prepared.channels = ch /\ prepared.io_mode = IoMode
        /\ prepared.sidechain_inputs = SidechainInputs
    BY <1>3, PreparedIs
  <1> HIDE DEF ch
  <1>5. Hears(kernel, ctx, ch, n, 1) /\ ctx.frames \in 0..n
    <2>1. Samples[kind] \subseteq Int \cup {NotFinite}
      BY SteadyFormed DEF KernelInv
    <2>. QED
      BY <1>2, <1>4, <2>1, ContextHears
  <1>6. kind = "oscillator" => p[1] \in Nat /\ q[1] \in Nat
    BY RunValuesTyped DEF KernelInv
  <1>7. slip \in Int
    BY SlipsTyped
  <1>8. Shaped(kind, kernel', ch) /\ Holds(kernel, kernel')
    <2> DEFINE k == RenderBlock(ctx, cut, p, q, slip).kernel
    <2>1. Shaped(kind, k, ch) /\ Holds(kernel, k)
      BY <1>4, <1>5, <1>6, <1>7, BlockShaped
    <2>. QED
      BY <1>2, <2>1
  <1>9. Whole'
    BY <1>2, <1>4, <1>8, WholeKept DEF KernelInv, ch
  <1>10. DrainCounted'
    <2> DEFINE k == kernel'
    <2>1. Formed(kind, k) /\ Shaped(kind, k, ch)
      BY <1>4, <1>8, KeepsFormed DEF Holds
    <2>. QED
      BY <1>2, <1>4, <2>1, BeginsCounted
  <1>11. HostTyped'
    <2>1. ended' \in BOOLEAN /\ hot' \in BOOLEAN
      BY <1>2, Zenon
    <2>. QED
      BY <1>2, <2>1 DEF KernelInv, HostTyped
  <1>12. (\E m \in Nat : Shaped(kind, kernel, m))'
    BY <1>2, <1>4, <1>8
  <1>. QED
    BY <1>9, <1>10, <1>11, <1>12 DEF KernelInv

\* and a drain does.
LEMMA InvFlush ==
  ASSUME KernelInv, NEW room \in Rooms, NEW slip \in Slips, Flush(room, slip), Steady'
  PROVE  KernelInv'
  <1> DEFINE f == KernelFlush(room, slip)
             ch == asked.channels
  <1>1. /\ prepared # NotPrepared /\ kernel' = f.kernel
        /\ given' = given + f.frames /\ ended' = f.done
        /\ UNCHANGED <<kind, bank, prepared, asked, answer, hot>>
    BY Zenon DEF Flush
  <1>2. /\ kind \in KernelKinds /\ Formed(kind, kernel) /\ Whole
        /\ Runnable(kind, kernel) /\ ch \in Nat /\ Shaped(kind, kernel, ch)
    BY <1>1, PreparedIs
  <1> HIDE DEF ch
  <1>3. room \in Nat /\ slip \in Int
    BY SlipsTyped
  <1>4. Shaped(kind, f.kernel, ch) /\ Holds(kernel, f.kernel)
    BY <1>2, <1>3, FlushShaped, FlushKeeps
  <1>5. /\ f.frames \in Nat /\ f.done \in BOOLEAN
        /\ kind \in Drained =>
             /\ kernel.flushed + f.frames <= f.kernel.flushed /\ f.kernel.flushed \in Nat
             /\ f.kernel.flushed <= DeclaredTail
             /\ f.done => f.kernel.flushed = DeclaredTail
        /\ kind \notin Drained => f.frames = 0
    BY <1>2, <1>3, FlushCounted DEF KernelInv
  <1> HIDE DEF f
  <1>6. Whole'
    BY <1>1, <1>2, <1>4, WholeKept DEF KernelInv, ch
  <1>7. DrainCounted'
    <2>1. DeclaredTail' = DeclaredTail
      <3>1. /\ kind = "average" => "taps" \in DOMAIN kernel
            /\ kind \in Filters => "tail_bound" \in DOMAIN kernel
        BY <1>2, SMT DEF Formed, Filters
      <3>2. /\ kind = "average" => kernel'.taps = kernel.taps
            /\ kind \in Filters => kernel'.tail_bound = kernel.tail_bound
        BY <1>1, <1>4, <3>1 DEF Holds, Keeps, Kept, Fixed
      <3>3. kind = "average" => AverageTail(kernel') = AverageTail(kernel)
        BY <3>2, Zenon DEF AverageTail
      <3>. QED
        BY <1>1, <3>2, <3>3, Zenon DEF DeclaredTail
    <2>2. given' \in Nat
      BY <1>1, <1>5 DEF KernelInv, DrainCounted
    <2>3. kind \in Drained => given' <= kernel'.flushed
      <3>1. SUFFICES ASSUME kind \in Drained PROVE given' <= kernel'.flushed
        OBVIOUS
      <3>2. given \in Nat /\ given <= kernel.flushed
        BY <3>1, Zenon DEF KernelInv, DrainCounted
      <3>3. kernel.flushed \in Nat
        BY <1>2, <3>1, FlushedTyped
      <3>. QED
        BY <1>1, <1>5, <3>1, <3>2, <3>3
    <2>4. kind \in Drained => (ended' => kernel'.flushed = DeclaredTail)
      BY <1>1, <1>5, Zenon
    <2>5. kind \notin Drained => given' = 0
      BY <1>1, <1>5 DEF KernelInv, DrainCounted
    <2>. QED
      BY <1>1, <2>1, <2>2, <2>3, <2>4, <2>5, Zenon DEF DrainCounted
  <1>8. HostTyped'
    <2>1. ended' \in BOOLEAN
      BY <1>1, <1>5, Zenon
    <2>. QED
      BY <1>1, <2>1 DEF KernelInv, HostTyped
  <1>9. (\E n \in Nat : Shaped(kind, kernel, n))'
    BY <1>1, <1>2, <1>4
  <1>. QED
    BY <1>6, <1>7, <1>8, <1>9 DEF KernelInv

\* The invariant.
LEMMA KernelInvHolds == Spec => []KernelInv
  <1>1. KernelInv /\ [Next]_vars => KernelInv'
    <2> SUFFICES ASSUME KernelInv, [Next]_vars
                 PROVE  KernelInv'
      OBVIOUS
    <2>1. Steady'
      <3>1. kind \in KernelKinds
        BY SteadyFormed DEF KernelInv
      <3>2. kind' = kind /\ Keeps(kernel, kernel')
        BY <3>1, StepKeeps
      <3>3. PICK k \in Kernels : kind = k.kind /\ Keeps(k.kernel, kernel)
        BY DEF KernelInv, Steady
      <3>4. Keeps(k.kernel, kernel')
        BY <3>2, <3>3, KeepsTwice
      <3>. QED
        BY <3>2, <3>3, <3>4 DEF Steady
    <2>2. ASSUME NEW spec \in Specs[kind], Prepare(spec)
          PROVE  KernelInv'
      BY <2>1, <2>2, InvPrepare
    <2>3. CASE Reset
      BY <2>1, <2>3, InvReset
    <2>4. ASSUME NEW p \in RunValues, NEW q \in RunValues, NEW n \in 1..prepared.max_block,
                 NEW ctx \in Contexts(n), Process(ctx, p, q)
          PROVE  KernelInv'
      <3>1. prepared # NotPrepared
        BY <2>4, Zenon DEF Process, ProcessBlock, HonorsContract
      <3>2. prepared.max_block \in Nat
        BY <3>1, PreparedIs
      <3>3. n \in Nat
        BY <3>2
      <3>. QED
        BY <2>1, <2>4, <3>3, InvProcess
    <2>5. ASSUME NEW room \in Rooms, NEW slip \in Slips, Flush(room, slip)
          PROVE  KernelInv'
      BY <2>1, <2>5, InvFlush
    <2>6. CASE UNCHANGED vars
      <3>1. UNCHANGED <<kind, kernel, bank, prepared, asked, answer, given, ended, hot>>
        BY <2>6 DEF vars, history
      <3>2. ParamInfo' = ParamInfo /\ IoMode' = IoMode /\ SidechainInputs' = SidechainInputs
            /\ DeclaredTail' = DeclaredTail
        BY <3>1, Zenon DEF ParamInfo, IoMode, SidechainInputs, DeclaredTail
      <3>3. (Whole' <=> Whole) /\ (HostTyped' <=> HostTyped) /\ (DrainCounted' <=> DrainCounted)
        BY <3>1, <3>2, Zenon DEF Whole, HostTyped, DrainCounted
      <3>. QED
        BY <2>1, <3>1, <3>3 DEF KernelInv
    <2>. QED
      BY <2>2, <2>3, <2>4, <2>5, <2>6, Zenon DEF Next, Drain
  <1>. QED
    BY <1>1, InvInit, PTL DEF Spec

\* What the invariant says of the types.
LEMMA InvTyped == KernelInv => TypeOK
  <1> SUFFICES ASSUME KernelInv PROVE TypeOK
    OBVIOUS
  <1>1. kind \in KernelKinds /\ Formed(kind, kernel)
    BY SteadyFormed DEF KernelInv
  <1>2. PICK ch \in Nat : Shaped(kind, kernel, ch)
    BY DEF KernelInv
  <1>3. KernelOK
    <2>1. CASE kind = "average"
      <3>1. /\ kernel.rings \in [1..ch -> [0..(kernel.taps - 1) -> Int]]
            /\ kernel.sums \in [1..ch -> Int]
            /\ kernel.ring_pos \in 0..AverageTail(kernel)
            /\ kernel.flushed \in 0..AverageTail(kernel)
        BY <1>2, <2>1, Zenon DEF Shaped
      <3>2. DOMAIN kernel.sums = 1..ch
        BY <3>1
      <3>. QED
        BY <2>1, <3>1, <3>2 DEF KernelOK, Filters
    <2>2. CASE kind \in Filters
      <3>1. kernel.flushed \in 0..kernel.tail_bound
        BY <1>2, <2>2, Zenon DEF Shaped
      <3>. QED
        BY <2>2, <3>1 DEF KernelOK, Filters
    <2>3. CASE kind = "dynamics"
      BY <1>2, <2>3 DEF Shaped, KernelOK, Filters
    <2>4. CASE kind = "oscillator"
      BY <1>2, <2>4 DEF Shaped, KernelOK, Filters
    <2>5. CASE kind \in {"noise", "dither"}
      BY <1>2, <2>5 DEF Shaped, KernelOK, Filters
    <2>6. CASE kind \in {"gain", "scale", "dc_offset", "custom"}
      BY <2>6 DEF KernelOK, Filters
    <2>. QED
      BY <1>1, <2>1, <2>2, <2>3, <2>4, <2>5, <2>6 DEF KernelKinds, Filters
  <1>4. prepared \in [channels : Nat, io_mode : {"None", "InPlace", "Split", "OutputOnly"},
                      sidechain_inputs : 0..1, max_block : Nat]
    <2>1. CASE prepared = NotPrepared
      BY <2>1 DEF NotPrepared
    <2>2. CASE Whole
      <3>1. Askable(asked)
        BY <2>2, SteadyFormed DEF KernelInv, Whole
      <3>2. IoMode \in {"None", "InPlace", "Split", "OutputOnly"}
        BY DEF IoMode
      <3>3. SidechainInputs \in 0..1
        BY DEF SidechainInputs
      <3>. QED
        BY <2>2, <3>1, <3>2, <3>3 DEF Whole, Askable
    <2>. QED
      BY <2>1, <2>2 DEF KernelInv
  <1>. QED
    BY <1>3, <1>4 DEF TypeOK, KernelInv, HostTyped, DrainCounted

\* Every variable has a value of its kind: cursors stay in their rings, phases in a period,
\* envelopes above zero and drains within the tail, however the stream is cut
\* (the kernels' render, flush and reset).
THEOREM KernelsTyped == Spec => []TypeOK
  BY InvTyped, KernelInvHolds, PTL

\* A drain of Processor::flush hands over what its contract allows.
LEMMA FlushKept ==
  ASSUME KernelInv, NEW room \in Rooms, NEW slip \in Slips, Flush(room, slip)
  PROVE  \E tail \in {DeclaredTail} : Contract(tail)!Next
  <1> SUFFICES ASSUME NEW tail \in {DeclaredTail} PROVE Contract(tail)!Next
    OBVIOUS
  <1> DEFINE f == KernelFlush(room, slip)
             n == f.frames
             ch == asked.channels
  <1>1. /\ prepared # NotPrepared /\ given' = given + n /\ ended' = f.done
    BY Zenon DEF Flush
  <1>2. ch \in Nat /\ Shaped(kind, kernel, ch) /\ Formed(kind, kernel)
    BY <1>1, PreparedIs
  <1>3. room \in Nat /\ slip \in Int
    BY SlipsTyped
  <1> HIDE DEF ch
  <1>4. /\ n \in Nat /\ f.done \in BOOLEAN
        /\ kind \in Drained =>
             /\ kernel.flushed + n <= f.kernel.flushed /\ f.kernel.flushed \in Nat
             /\ f.kernel.flushed <= tail
             /\ kernel.flushed = tail => n = 0 /\ f.done
        /\ kind \notin Drained => n = 0 /\ f.done
    BY <1>2, <1>3, FlushCounted DEF KernelInv
  <1> HIDE DEF f, n
  <1>5. /\ given \in Nat
        /\ kind \in Drained => given <= kernel.flushed /\ (ended => kernel.flushed = tail)
        /\ kind \notin Drained => given = 0
    BY DEF KernelInv, DrainCounted
  <1>6. CASE kind \in Drained
    <2>1. kernel.flushed \in Nat
      BY <1>2, <1>6, FlushedTyped
    <2>2. tail \in Nat
      BY <1>2, <1>6, FlushedTyped DEF DeclaredTail, Drained, Filters
    <2>3. ended => n = 0 /\ f.done
      BY <1>4, <1>5, <1>6, Zenon
    <2>4. n \in 0..tail /\ given + n <= tail
      BY <1>4, <1>5, <1>6, <2>1, <2>2
    <2>. QED
      BY <1>1, <1>4, <2>3, <2>4, Zenon DEF Contract!Next, Contract!Flush
  <1>7. CASE kind \notin Drained
    <2>1. tail = 0
      BY <1>7 DEF DeclaredTail, Drained
    <2>2. n = 0 /\ f.done /\ n \in 0..tail /\ given + n <= tail
      BY <1>4, <1>5, <1>7, <2>1
    <2>. QED
      BY <1>1, <1>4, <2>2, Zenon DEF Contract!Next, Contract!Flush
  <1>. QED
    BY <1>6, <1>7

\* Drains keep the contract of Processor::flush with the tail the kernel declares: no more
\* frames than that, nothing after done, and a new drain with new input
\* (contract/traits.rs; the kernels' flush), for every tail and every room of the calls.
THEOREM DrainsKept == Spec => DrainKept
  <1>1. Init => Contract(0)!Init
    BY DEF Init, Contract!Init
  <1>2. KernelInv /\ [Next]_vars => [\E n \in {DeclaredTail} : Contract(n)!Next]_<<given, ended>>
    <2> SUFFICES ASSUME KernelInv, [Next]_vars
                 PROVE  (\E tail \in {DeclaredTail} : Contract(tail)!Next) \/ UNCHANGED <<given, ended>>
      OBVIOUS
    <2>1. ASSUME given' = 0, ended' = FALSE
          PROVE  \E tail \in {DeclaredTail} : Contract(tail)!Next
      BY <2>1, Zenon DEF Contract!Next, Contract!Begin
    <2>2. CASE UNCHANGED vars
      BY <2>2 DEF vars, history
    <2>3. ASSUME NEW spec \in Specs[kind], Prepare(spec)
          PROVE  (\E tail \in {DeclaredTail} : Contract(tail)!Next) \/ UNCHANGED <<given, ended>>
      <3>1. \/ UNCHANGED history
            \/ given' = 0 /\ ended' = FALSE
        BY <2>3, Zenon DEF Prepare, PrepareRefused, PrepareKernel, Forget
      <3>. QED
        BY <2>1, <3>1 DEF history
    <2>4. CASE Reset
      BY <2>1, <2>4, Zenon DEF Reset, Forget
    <2>5. ASSUME NEW ctx, NEW p, NEW q, Process(ctx, p, q)
          PROVE  \E tail \in {DeclaredTail} : Contract(tail)!Next
      BY <2>1, <2>5, Zenon DEF Process, ProcessBlock
    <2>6. ASSUME NEW room \in Rooms, NEW slip \in Slips, Flush(room, slip)
          PROVE  \E tail \in {DeclaredTail} : Contract(tail)!Next
      BY <2>6, FlushKept
    <2>. QED
      BY <2>2, <2>3, <2>4, <2>5, <2>6, Zenon DEF Next, Drain
  <1>. QED
    BY <1>1, <1>2, KernelInvHolds, PTL DEF Spec, DrainKept

-----------------------------------------------------------------------------
(* The prepared processor. *)

\* The scale of a valid range puts its values in order.
LEMMA PlacesOrdered ==
  ASSUME NEW param, param.lo \in Int, param.hi \in Int,
         param.value_scale \in {"Linear", "Logarithmic"},
         NEW v \in OnScale(param), NEW w \in OnScale(param)
  PROVE  /\ Place(param, v) \in Int /\ v \in Int
         /\ v < w => Place(param, v) < Place(param, w)
  <1>1. CASE param.value_scale = "Linear"
    BY <1>1 DEF OnScale, Place
  <1>2. CASE param.value_scale = "Logarithmic"
    <2>1. v \in DOMAIN Ln /\ w \in DOMAIN Ln /\ v \in Int
      BY <1>2 DEF OnScale
    <2>. QED
      BY <1>2, <2>1, ParameterAssumption DEF Place
  <1>. QED
    BY <1>1, <1>2

\* A value strictly within its range maps into the interval and back.
LEMMA InnerMapped ==
  ASSUME NEW param, NEW lo \in Int, NEW hi \in Int, param.lo = lo, param.hi = hi,
         param.value_scale \in {"Linear", "Logarithmic"},
         NEW w \in OnScale(param), lo < w, w < hi, {lo, hi} \subseteq OnScale(param),
         NEW n, n = <<Place(param, w) - Place(param, lo), Place(param, hi) - Place(param, lo)>>
  PROVE  n[2] > 0 /\ n[1] \in 0..n[2] /\ Denormalize(param, n) = w
  <1> DEFINE P(v) == Place(param, v)
             a == P(lo)
             b == P(hi)
             c == P(w)
             S == OnScale(param)
             Balanced(v) == (b - a) * P(v) = ((b - a) - (c - a)) * a + (c - a) * b
  <1>1. \A u, v \in S : P(u) \in Int /\ u \in Int /\ (u < v => P(u) < P(v))
    BY PlacesOrdered
  <1>2. a \in Int /\ b \in Int /\ c \in Int /\ a < c /\ c < b
    BY <1>1
  <1> HIDE DEF P, a, b, c, S
  <1>3. n[1] = c - a /\ n[2] = b - a
    BY DEF a, b, c, P
  <1>4. n[2] > 0 /\ n[1] \in 0..n[2] /\ n[1] # 0 /\ n[1] # n[2]
    BY <1>2, <1>3
  <1>5. n # NotFinite
    <2>1. n = <<c - a, b - a>>
      BY DEF a, b, c, P
    <2>2. n \in Int \X Int
      BY <1>2, <2>1
    <2>. QED
      BY <2>2, ParameterAssumption
  <1>6. ClampTo(n[1], 0, n[2]) = n[1]
    <2>1. ~ (n[1] < 0) /\ ~ (n[1] > n[2])
      BY <1>2, <1>3
    <2>. QED
      BY <2>1, Zenon DEF ClampTo
  <1>7. Denormalize(param, n) = CHOOSE v \in S : Balanced(v)
    <2>1. Denormalize(param, n) =
            CHOOSE v \in OnScale(param) :
              n[2] * Place(param, v) = (n[2] - n[1]) * Place(param, param.lo) + n[1] * Place(param, param.hi)
      BY <1>4, <1>5, <1>6, Zenon DEF Denormalize
    <2>. QED
      BY <1>3, <2>1 DEF S, P, a, b
  <1>8. \A x \in Int : (b - a) * x = ((b - a) - (c - a)) * a + (c - a) * b <=> x = c
    <2> SUFFICES ASSUME NEW x \in Int
                 PROVE  (b - a) * x = ((b - a) - (c - a)) * a + (c - a) * b <=> x = c
      OBVIOUS
    <2> DEFINE d == b - a
    <2>1. d \in Nat \ {0}
      BY <1>2
    <2>2. ((b - a) - (c - a)) * a + (c - a) * b = (b - a) * c
      BY <1>2
    <2> HIDE DEF d
    <2>3. d * x = d * c <=> x = c
      <3>1. x < c => d * x < d * c
        BY <1>2, <2>1, Scaled
      <3>2. c < x => d * c < d * x
        BY <1>2, <2>1, Scaled
      <3>3. d * x \in Int /\ d * c \in Int
        BY <1>2, <2>1
      <3>. QED
        BY <1>2, <3>1, <3>2, <3>3
    <2>. QED
      BY <2>2, <2>3 DEF d
  <1>9. \A v \in S : Balanced(v) <=> v = w
    <2>1. \A v \in S : Balanced(v) <=> P(v) = c
      BY <1>1, <1>8
    <2>2. \A v \in S : P(v) = c <=> v = w
      BY <1>1 DEF c, S
    <2>. QED
      BY <2>1, <2>2, Zenon
  <1>10. w \in S
    BY DEF S
  <1> HIDE DEF Balanced
  <1>11. (CHOOSE v \in S : Balanced(v)) = w
    BY <1>9, <1>10
  <1>. QED
    BY <1>4, <1>7, <1>11

\* Every value maps into the interval, and back to what the bank would make of it.
LEMMA ValueMapped ==
  ASSUME NEW param, NEW lo \in Int, NEW hi \in Int, param.lo = lo, param.hi = hi, lo <= hi,
         param.value_scale \in {"Linear", "Logarithmic"},
         NEW v \in Int, ClampTo(v, lo, hi) \in OnScale(param), {lo, hi} \subseteq OnScale(param),
         NEW n, n = Normalize(param, v)
  PROVE  n[2] > 0 /\ n[1] \in 0..n[2] /\ Denormalize(param, n) = ClampTo(v, lo, hi)
  <1> DEFINE w == ClampTo(v, lo, hi)
  <1>1. w \in lo..hi
    BY DEF ClampTo
  <1> HIDE DEF w
  <1>2. n = CASE w = lo -> <<0, 1>>
              [] w # lo /\ w = hi -> <<1, 1>>
              [] OTHER -> <<Place(param, w) - Place(param, lo), Place(param, hi) - Place(param, lo)>>
    <2>1. Finite(v)
      BY ParameterAssumption DEF Finite
    <2>. QED
      BY <2>1, Zenon DEF Normalize, w
  <1>3. CASE w = lo
    <2>1. n = <<0, 1>>
      BY <1>2, <1>3
    <2>2. n # NotFinite
      BY <2>1, ParameterAssumption
    <2>3. Denormalize(param, n) = lo
      BY <2>1, <2>2 DEF Denormalize, ClampTo
    <2>. QED
      BY <1>3, <2>1, <2>3 DEF w
  <1>4. CASE w # lo /\ w = hi
    <2>1. n = <<1, 1>>
      BY <1>2, <1>4
    <2>2. n # NotFinite
      BY <2>1, ParameterAssumption
    <2>3. Denormalize(param, n) = hi
      BY <2>1, <2>2 DEF Denormalize, ClampTo
    <2>. QED
      BY <1>4, <2>1, <2>3 DEF w
  <1>5. CASE w # lo /\ w # hi
    <2>1. n = <<Place(param, w) - Place(param, lo), Place(param, hi) - Place(param, lo)>>
      BY <1>2, <1>5
    <2>2. lo < w /\ w < hi /\ w \in OnScale(param)
      BY <1>1, <1>5 DEF w
    <2>3. n[2] > 0 /\ n[1] \in 0..n[2] /\ Denormalize(param, n) = w
      BY <2>1, <2>2, InnerMapped
    <2>. QED
      BY <2>3 DEF w
  <1>. QED
    BY <1>3, <1>4, <1>5

\* The valid parameters of a kernel can be mapped.
LEMMA Mapped ==
  ASSUME Steady, ValidParams(ParamInfo)
  PROVE  MappingsExact
  <1>1. PICK k \in Kernels : kind = k.kind /\ Keeps(k.kernel, kernel)
    BY DEF Steady
  <1>2. SUFFICES ASSUME NEW i \in DOMAIN ParamInfo, NEW v,
                        v \in {ParamInfo[i].lo - 1, ParamInfo[i].lo, ParamInfo[i].default,
                               ParamInfo[i].hi, ParamInfo[i].hi + 1},
                        NEW n, n = Normalize(ParamInfo[i], v)
                 PROVE  /\ n[2] > 0 /\ n[1] \in 0..n[2]
                        /\ Denormalize(ParamInfo[i], n)
                             = ClampTo(v, ParamInfo[i].lo, ParamInfo[i].hi)
    BY DEF MappingsExact
  <1>3. "params" \in DOMAIN kernel /\ ParamInfo = kernel.params
    BY DEF ParamInfo, NoParams
  <1>4. Declared(ParamInfo)
    <2>1. "params" \in DOMAIN k.kernel /\ k.kernel.params = kernel.params
      BY <1>1, <1>3 DEF Keeps, Kept
    <2>. QED
      BY <1>3, <2>1, HostAssumption
  <1> DEFINE param == ParamInfo[i]
             lo == param.lo
             hi == param.hi
  <1>5. /\ {lo, hi} \subseteq Int \cup {NotFinite}
        /\ param.value_scale \in {"Linear", "Logarithmic"}
        /\ ValidParam(param, i - 1)
        /\ param.value_scale = "Logarithmic" => {lo, param.default, hi} \subseteq DOMAIN Ln
    <2>1. ValidParam(param, i - 1)
      BY DEF ValidParams
    <2>. QED
      BY <1>4, <2>1, Zenon DEF Declared
  <1> HIDE DEF param
  <1>6. lo \in Int /\ hi \in Int /\ lo <= hi /\ param.default \in lo..hi
    BY <1>5 DEF ValidParam, Finite
  <1>7. {lo, param.default, hi} \subseteq OnScale(param)
    BY <1>5, <1>6 DEF OnScale
  <1>8. v \in {lo - 1, lo, param.default, hi, hi + 1} /\ n = Normalize(param, v)
    BY <1>2 DEF param
  <1> HIDE DEF lo, hi
  <1>9. v \in Int /\ ClampTo(v, lo, hi) \in {lo, param.default, hi}
    BY <1>6, <1>8 DEF ClampTo
  <1>10. ClampTo(v, lo, hi) \in OnScale(param) /\ {lo, hi} \subseteq OnScale(param)
    BY <1>7, <1>9
  <1>11. n[2] > 0 /\ n[1] \in 0..n[2] /\ Denormalize(param, n) = ClampTo(v, lo, hi)
    BY <1>5, <1>6, <1>8, <1>9, <1>10, ValueMapped DEF lo, hi
  <1>. QED
    BY <1>11 DEF lo, hi, param

\* A kernel in shape holds the bytes that its channels take.
LEMMA FootprintShaped ==
  ASSUME kind \in KernelKinds, Formed(kind, kernel), NEW ch \in Nat, Shaped(kind, kernel, ch),
         Runnable(kind, kernel), kind = "custom" => kernel.buffer = CustomSize * ch,
         kind = "dc_offset" => Len(kernel.offsets) = IF kernel.broadcast THEN 1 ELSE ch
  PROVE  Footprint(kernel) = KernelBytes(ch) /\ KernelBytes(ch) \in Nat
  <1>1. CASE kind = "average"
    <2> DEFINE taps == kernel.taps
               one == Cardinality(DOMAIN Head(kernel.rings))
    <2>1. taps \in Nat
      BY <1>1, SMT DEF Formed
    <2>2. DOMAIN kernel.sums = 1..ch /\ kernel.rings \in [1..ch -> [0..(taps - 1) -> Int]]
      BY <1>1 DEF Shaped
    <2> HIDE DEF taps
    <2>3. Len(kernel.sums) = ch /\ DOMAIN kernel.rings = 1..ch /\ Len(kernel.rings) = ch
      BY <2>2, Length
    <2>4. ch = 0 => kernel.rings = <<>>
      BY <2>2
    <2>5. ch > 0 => kernel.rings # <<>> /\ one = taps
      <3>1. SUFFICES ASSUME ch > 0 PROVE kernel.rings # <<>> /\ one = taps
        OBVIOUS
      <3>2. kernel.rings # <<>> /\ 1 \in 1..ch
        BY <2>3, <3>1
      <3>3. Head(kernel.rings) = kernel.rings[1]
        BY <3>2
      <3>4. DOMAIN kernel.rings[1] = 0..(taps - 1)
        BY <2>2, <3>2
      <3>5. Cardinality(0..(taps - 1)) = taps
        BY <2>1, FS_Interval
      <3>. QED
        BY <3>2, <3>3, <3>4, <3>5
    <2> HIDE DEF one
    <2>6. AverageFootprint(kernel) = (taps + 2) * ch
      <3>1. CASE ch = 0
        BY <2>1, <2>3, <2>4, <3>1 DEF AverageFootprint
      <3>2. CASE ch > 0
        <4>1. AverageFootprint(kernel) = 2 * ch + ch * taps
          BY <2>3, <2>5, <3>2 DEF AverageFootprint, one
        <4>. QED
          BY <2>1, <4>1
      <3>. QED
        BY <3>1, <3>2
    <2>7. Footprint(kernel) = AverageFootprint(kernel) /\ KernelBytes(ch) = (taps + 2) * ch
      BY <1>1, Zenon DEF Footprint, KernelBytes, taps
    <2>8. (taps + 2) * ch \in Nat
      BY <2>1, NatProducts
    <2>. QED
      BY <2>6, <2>7, <2>8
  <1>2. CASE kind \in Filters
    <2>1. DOMAIN kernel.state = 1..ch
      BY <1>2 DEF Shaped
    <2>2. Len(kernel.state) = ch
      BY <2>1, Length
    <2>3. CASE kind = "dc_blocker"
      BY <2>2, <2>3 DEF Footprint, KernelBytes, DcFootprint
    <2>4. CASE kind = "biquad"
      BY <2>2, <2>4 DEF Footprint, KernelBytes, BiquadFootprint
    <2>. QED
      BY <1>2, <2>3, <2>4 DEF Filters
  <1>3. CASE kind \in {"noise", "dither"}
    <2>1. DOMAIN kernel.rngs = 1..ch
      BY <1>3 DEF Shaped
    <2>2. Len(kernel.rngs) = ch
      BY <2>1, Length
    <2>. QED
      BY <1>3, <2>2 DEF Footprint, KernelBytes, RngFootprint
  <1>4. CASE kind = "dc_offset"
    <2>1. kernel.broadcast \in BOOLEAN
      BY <1>4, SMT DEF Formed
    <2>2. Footprint(kernel) = (IF kernel.broadcast THEN 0 ELSE Len(kernel.offsets))
          /\ KernelBytes(ch) = (IF kernel.broadcast THEN 0 ELSE ch)
      BY <1>4, Zenon DEF Footprint, KernelBytes, OffsetFootprint
    <2>. QED
      BY <1>4, <2>1, <2>2
  <1>5. CASE kind = "custom"
    BY <1>5 DEF Footprint, KernelBytes, CustomSize
  <1>6. CASE kind \in {"dynamics", "oscillator", "gain", "scale"}
    BY <1>6 DEF Footprint, KernelBytes
  <1>. QED
    BY <1>1, <1>2, <1>3, <1>4, <1>5, <1>6 DEF KernelKinds, Filters

\* It has a state for each channel.
LEMMA ChannelsShaped ==
  ASSUME NEW ch \in Nat, Shaped(kind, kernel, ch), prepared.channels = ch
  PROVE  KernelChannels = ch
  <1>1. kind = "average" => Len(kernel.sums) = ch
    <2>1. kind = "average" => DOMAIN kernel.sums = 1..ch
      BY DEF Shaped
    <2>. QED
      BY <2>1, Length
  <1>2. kind \in Filters => Len(kernel.state) = ch
    BY Length DEF Shaped
  <1>3. kind \in {"noise", "dither"} => Len(kernel.rngs) = ch
    BY Length DEF Shaped
  <1>. QED
    BY <1>1, <1>2, <1>3, Zenon DEF KernelChannels

\* What is prepared is within the cap and can be mapped, for what was asked is supported and
\* fits.
LEMMA InvWhole ==
  ASSUME KernelInv, BudgetExact
  PROVE  PreparedWhole
  <1>1. SUFFICES ASSUME prepared # NotPrepared PROVE PreparedWhole
    BY DEF PreparedWhole
  <1> DEFINE ch == asked.channels
             forBank == Len(ParamInfo) * SmootherSize
  <1>2. /\ kind \in KernelKinds /\ Formed(kind, kernel) /\ Whole
        /\ Runnable(kind, kernel) /\ ch \in Nat /\ Shaped(kind, kernel, ch)
        /\ prepared.channels = ch
    BY <1>1, PreparedIs
  <1>3. /\ answer = "Ok"
        /\ bank = [sample_rate |-> asked.sample_rate, smoothers |-> Len(ParamInfo)]
        /\ "fs" \in DOMAIN kernel => kernel.fs = asked.sample_rate
        /\ kind = "custom" => kernel.buffer = CustomSize * ch
    BY <1>2, Zenon DEF Whole
  <1> HIDE DEF ch
  <1>4. /\ Supported
        /\ asked.max_memory # NoCap => forBank + KernelBytes(ch) <= asked.max_memory
    <2>1. "Ok" # "Unasked"
      OBVIOUS
    <2>. QED
      BY <1>3, <2>1, Zenon DEF BudgetExact, ch
  <1>5. kind = "dc_offset" => Len(kernel.offsets) = IF kernel.broadcast THEN 1 ELSE ch
    BY <1>4, Zenon DEF Supported, ch
  <1>6. Footprint(kernel) = KernelBytes(ch) /\ KernelBytes(ch) \in Nat
    BY <1>2, <1>3, <1>5, FootprintShaped
  <1>7. KernelChannels = ch
    BY <1>2, ChannelsShaped
  <1>8. MappingsExact
    BY <1>4, Mapped DEF KernelInv, Supported
  <1>9. bank.smoothers = Len(ParamInfo) /\ bank.sample_rate = asked.sample_rate
    BY <1>3
  <1>10. asked.max_memory # NoCap =>
           Footprint(kernel) + bank.smoothers * SmootherSize <= asked.max_memory
    <2>1. forBank \in Nat
      <3>1. "params" \in DOMAIN kernel => Len(kernel.params) \in Nat
        BY <1>2, SMT DEF Formed
      <3>2. Len(ParamInfo) \in Nat /\ SmootherSize \in Nat
        BY <3>1, HostAssumption DEF ParamInfo, NoParams
      <3>. QED
        BY <3>2, NatProducts
    <2>2. bank.smoothers * SmootherSize = forBank
      BY <1>9
    <2> HIDE DEF forBank
    <2>3. Footprint(kernel) + forBank = forBank + KernelBytes(ch)
      BY <1>6, <2>1
    <2>. QED
      BY <1>4, <2>2, <2>3
  <1>. QED
    BY <1>2, <1>3, <1>7, <1>8, <1>9, <1>10, Zenon DEF PreparedWhole, ch

\* A processor that counts as prepared is prepared throughout: kernel and bank are those of the
\* last spec, what they hold is within its cap, whatever prepares were refused before, and its
\* parameters can be mapped to the unit interval and back (KernelProcessor::prepare,
\* ParamInfo::normalize and denormalize): for every kernel, budget and order of the calls.
THEOREM PreparedThroughout == Spec => []PreparedWhole
  BY InvWhole, KernelInvHolds, BudgetsExact, PTL

-----------------------------------------------------------------------------
(* Sums over finite sets: MapThenSumSet takes the elements in an order of its own, by a *)
(* recursive function on the subsets.                                                   *)

Taken(s) == CHOOSE x \in s : TRUE

\* F is the recursive function of the sums of g on the subsets of U.
Folds(F, U, g) ==
  F = [s \in SUBSET U |-> IF s = {} THEN 0 ELSE g[Taken(s)] + F[s \ {Taken(s)}]]

Numbers(g, U) == \A x \in U : g[x] \in Int

SumOver(g, S) == MapThenSumSet(LAMBDA i : g[i], S)

\* What a sum takes of the subsets of U.
TakenOf(U) == [s \in SUBSET U |-> Taken(s)]

\* The recursion has a solution, and its values are integers.
LEMMA FoldsExist ==
  ASSUME NEW U, IsFiniteSet(U), NEW g, Numbers(g, U)
  PROVE  \E F : Folds(F, U, g) /\ F \in [SUBSET U -> Int]
  <1> DEFINE G == [z \in U \X Int |-> g[z[1]] + z[2]]
             pick == TakenOf(U)
  <1>1. Takes(pick, U)
    BY DEF Takes, TakenOf, Taken
  <1>2. Maps(G, U, Int)
    BY DEF Maps, Numbers
  <1>3. PICK H : Solves(H, G, 0, pick, U, Int)
    <2> HIDE DEF G, pick
    <2>. QED
      BY <1>1, <1>2, Recursion, 0 \in Int
  <1>4. /\ H \in [SUBSET U -> Int]
        /\ \A s \in SUBSET U : H[s] = IF s = {} THEN 0 ELSE G[<<pick[s], H[s \ {pick[s]}]>>]
    <2> HIDE DEF G, pick
    <2>. QED
      BY <1>3 DEF Solves
  <1>5. ASSUME NEW s \in SUBSET U, s # {}
        PROVE  G[<<pick[s], H[s \ {pick[s]}]>>] = g[Taken(s)] + H[s \ {Taken(s)}]
    <2>1. pick[s] = Taken(s) /\ Taken(s) \in U /\ H[s \ {Taken(s)}] \in Int
      BY <1>1, <1>4, <1>5 DEF TakenOf, Takes
    <2> DEFINE x == Taken(s)
    <2> HIDE DEF x
    <2>2. <<x, H[s \ {x}]>> \in U \X Int
      BY <2>1 DEF x
    <2>3. G[<<x, H[s \ {x}]>>] = g[x] + H[s \ {x}]
      BY <2>2
    <2>. QED
      BY <2>1, <2>3 DEF x
  <1>6. Folds(H, U, g)
    <2>1. H = [s \in SUBSET U |-> IF s = {} THEN 0 ELSE g[Taken(s)] + H[s \ {Taken(s)}]]
      <3> HIDE DEF G, pick
      <3>. QED
        BY <1>4, <1>5
    <2>. QED
      BY <2>1, Zenon DEF Folds
  <1>. QED
    BY <1>4, <1>6

\* What its values are.
LEMMA FoldsAre ==
  ASSUME NEW U, IsFiniteSet(U), NEW g, Numbers(g, U), NEW F, Folds(F, U, g)
  PROVE  /\ F[{}] = 0
         /\ \A s \in SUBSET U : s # {} => F[s] = g[Taken(s)] + F[s \ {Taken(s)}]
         /\ F \in [SUBSET U -> Int]
  <1> DEFINE rec == [s \in SUBSET U |-> IF s = {} THEN 0 ELSE g[Taken(s)] + F[s \ {Taken(s)}]]
             pick == TakenOf(U)
             P == {s \in SUBSET U : F[s] \in Int}
  <1>1. F = rec
    BY DEF Folds
  <1>2. /\ DOMAIN rec = SUBSET U
        /\ \A s \in SUBSET U : rec[s] = IF s = {} THEN 0 ELSE g[Taken(s)] + F[s \ {Taken(s)}]
        /\ rec = [s \in SUBSET U |-> rec[s]]
    OBVIOUS
  <1> HIDE DEF rec
  <1>3. /\ F[{}] = 0
        /\ \A s \in SUBSET U : s # {} => F[s] = g[Taken(s)] + F[s \ {Taken(s)}]
    BY <1>1, <1>2
  <1>4. Takes(pick, U) /\ \A s \in SUBSET U : pick[s] = Taken(s)
    BY DEF Takes, TakenOf, Taken
  <1>5. Grows(P, pick, U)
    <2>1. ASSUME NEW s \in SUBSET U, s # {}, s \ {pick[s]} \in P
          PROVE  s \in P
      <3>1. Taken(s) \in s
        BY <1>4, <2>1 DEF Takes
      <3>2. F[s \ {Taken(s)}] \in Int
        BY <1>4, <2>1
      <3>3. g[Taken(s)] \in Int
        BY <3>1 DEF Numbers
      <3>4. F[s] = g[Taken(s)] + F[s \ {Taken(s)}]
        BY <1>3, <2>1
      <3>5. F[s] \in Int
        BY <3>2, <3>3, <3>4
      <3>. QED
        BY <3>5
    <2>2. {} \in P
      BY <1>3
    <2>. QED
      BY <2>1, <2>2 DEF Grows
  <1>6. P = SUBSET U
    <2> HIDE DEF P, pick
    <2>. QED
      BY <1>4, <1>5, SubsetInd
  <1>7. \A s \in SUBSET U : F[s] \in Int
    BY <1>6
  <1>8. F \in [SUBSET U -> Int]
    BY <1>1, <1>2, <1>7
  <1>. QED
    BY <1>3, <1>8

\* On common subsets, two sums of equal terms are equal.
LEMMA FoldsSame ==
  ASSUME NEW U, IsFiniteSet(U), NEW g, Numbers(g, U), NEW F, Folds(F, U, g),
         NEW V \in SUBSET U, NEW h, NEW G, Folds(G, V, h), \A x \in V : h[x] = g[x]
  PROVE  \A s \in SUBSET V : F[s] = G[s]
  <1> DEFINE pick == TakenOf(V)
             P == {s \in SUBSET V : F[s] = G[s]}
  <1>1. IsFiniteSet(V) /\ Numbers(h, V)
    BY FS_Subset DEF Numbers
  <1>2. /\ F[{}] = 0
        /\ \A s \in SUBSET U : s # {} => F[s] = g[Taken(s)] + F[s \ {Taken(s)}]
        /\ F \in [SUBSET U -> Int]
    BY FoldsAre
  <1>3. /\ G[{}] = 0
        /\ \A s \in SUBSET V : s # {} => G[s] = h[Taken(s)] + G[s \ {Taken(s)}]
        /\ G \in [SUBSET V -> Int]
    BY <1>1, FoldsAre
  <1>4. Takes(pick, V) /\ \A s \in SUBSET V : pick[s] = Taken(s)
    BY DEF Takes, TakenOf, Taken
  <1>5. Grows(P, pick, V)
    <2>1. ASSUME NEW s \in SUBSET V, s # {}, s \ {pick[s]} \in P
          PROVE  s \in P
      <3>1. Taken(s) \in s /\ F[s \ {Taken(s)}] = G[s \ {Taken(s)}]
        BY <1>4, <2>1 DEF Takes
      <3>2. F[s] = g[Taken(s)] + F[s \ {Taken(s)}] /\ G[s] = h[Taken(s)] + G[s \ {Taken(s)}]
        BY <1>2, <1>3, <2>1
      <3>3. h[Taken(s)] = g[Taken(s)]
        BY <3>1
      <3>. QED
        BY <2>1, <3>1, <3>2, <3>3
    <2>. QED
      BY <1>2, <1>3, <2>1 DEF Grows
  <1>6. P = SUBSET V
    <2> HIDE DEF P, pick
    <2>. QED
      BY <1>1, <1>4, <1>5, SubsetInd
  <1>. QED
    BY <1>6


\* Any element may be the one taken.
LEMMA FoldsAny ==
  ASSUME NEW U, IsFiniteSet(U), NEW g, Numbers(g, U), NEW F, Folds(F, U, g)
  PROVE  \A s \in SUBSET U : \A x \in s : F[s] = g[x] + F[s \ {x}]
  <1> DEFINE Each(s) == \A x \in s : F[s] = g[x] + F[s \ {x}]
             A == {n \in Nat : \A s \in SUBSET U : Cardinality(s) <= n => Each(s)}
  <1>1. /\ F[{}] = 0
        /\ \A s \in SUBSET U : s # {} => F[s] = g[Taken(s)] + F[s \ {Taken(s)}]
        /\ F \in [SUBSET U -> Int]
    BY FoldsAre
  <1>2. \A s \in SUBSET U : IsFiniteSet(s) /\ Cardinality(s) \in Nat
    BY FS_Subset, FS_CardinalityType
  <1>3. 0 \in A
    <2>1. ASSUME NEW s \in SUBSET U, Cardinality(s) <= 0
          PROVE  s = {}
      BY <1>2, <2>1, FS_EmptySet
    <2>. QED
      BY <2>1
  <1>4. ASSUME NEW n \in A
        PROVE  n + 1 \in A
    <2>1. ASSUME NEW s \in SUBSET U, Cardinality(s) <= n + 1, NEW x \in s
          PROVE  F[s] = g[x] + F[s \ {x}]
      <3> DEFINE y == Taken(s)
                 t == s \ {y}
                 u == s \ {x}
      <3>1. y \in s
        BY <2>1 DEF Taken
      <3>2. F[s] = g[y] + F[t]
        BY <1>1, <2>1
      <3>3. t \in SUBSET U /\ u \in SUBSET U
        OBVIOUS
      <3>4. Cardinality(t) <= n /\ Cardinality(u) <= n
        BY <1>2, <2>1, <3>1, OneLess
      <3>5. CASE x = y
        BY <3>2, <3>5
      <3>6. CASE x # y
        <4>1. x \in t /\ y \in u /\ t \ {x} = u \ {y}
          BY <2>1, <3>1, <3>6
        <4>2. Each(t) /\ Each(u)
          BY <3>3, <3>4
        <4> HIDE DEF y, t, u
        <4> DEFINE v == t \ {x}
        <4>3. F[t] = g[x] + F[v] /\ F[u] = g[y] + F[v]
          BY <4>1, <4>2
        <4>4. F[v] \in Int /\ g[x] \in Int /\ g[y] \in Int
          <5>1. v \in SUBSET U /\ x \in U /\ y \in U
            BY <2>1, <3>1, <3>3
          <5> HIDE DEF v
          <5>. QED
            BY <1>1, <5>1 DEF Numbers
        <4> HIDE DEF v
        <4>5. F[s] = g[x] + F[u]
          BY <3>2, <4>3, <4>4
        <4>. QED
          BY <4>5 DEF u
      <3>. QED
        BY <3>5, <3>6
    <2>. QED
      BY <2>1
  <1>5. A = Nat
    <2>1. A \in SUBSET Nat
      OBVIOUS
    <2> HIDE DEF A
    <2>. QED
      BY <1>3, <1>4, <2>1, NatInd
  <1>6. ASSUME NEW s \in SUBSET U
        PROVE  Each(s)
    <2>1. Cardinality(s) \in A
      BY <1>2, <1>5
    <2>2. Cardinality(s) <= Cardinality(s)
      BY <1>2
    <2>. QED
      BY <2>1, <2>2
  <1>. QED
    BY <1>6

-----------------------------------------------------------------------------
\* The sum is the value of such a function.
LEMMA SumFolds ==
  ASSUME NEW S, IsFiniteSet(S), NEW g, Numbers(g, S)
  PROVE  \E F : Folds(F, S, g) /\ SumOver(g, S) = F[S]
  <1> DEFINE G == CHOOSE F : Folds(F, S, g)
  <1>1. Folds(G, S, g)
    BY FoldsExist
  <1>2. SumOver(g, S) = G[S]
    BY DEF SumOver, MapThenSumSet, MapThenFoldSet, Folds, Taken
  <1>. QED
    BY <1>1, <1>2

\* Nothing adds up to nothing, and numbers to a number.
LEMMA SumTyped ==
  ASSUME NEW S, IsFiniteSet(S), NEW g, Numbers(g, S)
  PROVE  SumOver(g, S) \in Int /\ (S = {} => SumOver(g, S) = 0)
  <1>1. PICK F : Folds(F, S, g) /\ SumOver(g, S) = F[S]
    BY SumFolds
  <1>2. F[{}] = 0 /\ F \in [SUBSET S -> Int]
    BY <1>1, FoldsAre
  <1>3. F[S] \in Int
    BY <1>2
  <1>. QED
    BY <1>1, <1>2, <1>3

\* A sum with one more term.
LEMMA SumAdd ==
  ASSUME NEW S, IsFiniteSet(S), NEW x, x \notin S, NEW g, Numbers(g, S \cup {x})
  PROVE  /\ SumOver(g, S) \in Int /\ SumOver(g, S \cup {x}) \in Int
         /\ SumOver(g, S \cup {x}) = SumOver(g, S) + g[x]
  <1> DEFINE U == S \cup {x}
  <1>1. IsFiniteSet(U) /\ Numbers(g, U) /\ Numbers(g, S) /\ S \in SUBSET U /\ x \in U
        /\ S = U \ {x} /\ U \in SUBSET U
    BY FS_AddElement DEF Numbers
  <1> HIDE DEF U
  <1>2. PICK F : Folds(F, U, g) /\ SumOver(g, U) = F[U]
    BY <1>1, SumFolds
  <1>3. PICK G : Folds(G, S, g) /\ SumOver(g, S) = G[S]
    BY <1>1, SumFolds
  <1>4. \A s \in SUBSET S : F[s] = G[s]
    <2>1. \A y \in S : g[y] = g[y]
      OBVIOUS
    <2>2. IsFiniteSet(U) /\ Numbers(g, U) /\ Folds(F, U, g) /\ S \in SUBSET U /\ Folds(G, S, g)
      BY <1>1, <1>2, <1>3
    <2>3. ASSUME NEW h, h = g
          PROVE  \A s \in SUBSET S : F[s] = G[s]
      <3>1. Folds(G, S, h) /\ \A y \in S : h[y] = g[y]
        BY <2>2, <2>3
      <3> HIDE <2>3
      <3>. QED
        BY <2>2, <3>1, FoldsSame
    <2>. QED
      BY <2>3
  <1>5. F[U] = g[x] + F[S]
    BY <1>1, <1>2, FoldsAny
  <1>6. F[S] \in Int /\ F[U] \in Int /\ g[x] \in Int
    <2>1. F \in [SUBSET U -> Int]
      BY <1>1, <1>2, FoldsAre
    <2>. QED
      BY <1>1, <2>1 DEF Numbers
  <1>7. SumOver(g, S) = F[S]
    BY <1>3, <1>4
  <1>. QED
    BY <1>2, <1>5, <1>6, <1>7 DEF U

\* The terms that g has on S are those of h, by the names b.
Renames(b, g, h, S) ==
  /\ \A x \in S : g[x] \in Int /\ h[b[x]] = g[x]
  /\ \A x, y \in S : x # y => b[x] # b[y]

\* Sums over a set agree when their terms do, whatever these are called.
LEMMA SumRenamed ==
  ASSUME NEW S, IsFiniteSet(S), NEW g, NEW h, NEW b, Renames(b, g, h, S)
  PROVE  SumOver(h, {b[x] : x \in S}) = SumOver(g, S)
  <1> DEFINE Image(s) == {b[x] : x \in s}
             pick == TakenOf(S)
             P == {s \in SUBSET S : IsFiniteSet(Image(s)) /\ SumOver(h, Image(s)) = SumOver(g, s)}
  <1>1. {} \in P
    <2>1. Image({}) = {} /\ IsFiniteSet({}) /\ Numbers(g, {}) /\ Numbers(h, {})
      BY FS_EmptySet DEF Numbers
    <2> HIDE DEF Image
    <2>. QED
      BY <2>1, SumTyped
  <1>2. Takes(pick, S)
    BY DEF Takes, TakenOf, Taken
  <1>3. ASSUME NEW s \in SUBSET S, s # {}, s \ {pick[s]} \in P
        PROVE  s \in P
    <2> DEFINE x == pick[s]
               t == s \ {x}
               I == Image(t)
               y == b[x]
    <2>1. x \in s /\ t \in SUBSET S /\ x \notin t /\ t \cup {x} = s
      BY <1>2, <1>3 DEF Takes
    <2>2. IsFiniteSet(I) /\ SumOver(h, I) = SumOver(g, t) /\ IsFiniteSet(t)
      BY <1>3, FS_Subset
    <2>3. Image(s) = I \cup {y} /\ y \notin I
      BY <2>1 DEF Renames
    <2>4. Numbers(h, I \cup {y}) /\ h[y] = g[x] /\ Numbers(g, t \cup {x})
      BY <2>1 DEF Numbers, Renames
    <2> HIDE DEF I, y, x, t, Image
    <2>5. SumOver(h, I \cup {y}) = SumOver(h, I) + h[y]
      <3>1. IsFiniteSet(I) /\ y \notin I /\ Numbers(h, I \cup {y})
        BY <2>2, <2>3, <2>4
      <3>. QED
        BY <3>1, SumAdd
    <2>7. IsFiniteSet(I \cup {y})
      BY <2>2, FS_AddElement
    <2>6. SumOver(g, t \cup {x}) = SumOver(g, t) + g[x]
      BY <2>1, <2>2, <2>4, SumAdd
    <2>. QED
      BY <2>1, <2>2, <2>3, <2>4, <2>5, <2>6, <2>7
  <1>4. P = SUBSET S
    <2>1. P \in SUBSET (SUBSET S)
      OBVIOUS
    <2> HIDE DEF P, pick
    <2>2. Grows(P, pick, S)
      BY <1>1, <1>3, <2>1 DEF Grows
    <2>. QED
      BY <1>2, <2>2, SubsetInd
  <1>. QED
    BY <1>4

\* Sample n of channel c of planes x; before the first, silence.
At(x, c, n) == IF n < 1 THEN 0 ELSE FiniteOrZero(x[c][n])

\* The sum of the taps samples up to the n-th.
RecentOf(x, taps, c, n) == MapThenSumSet(LAMBDA j : At(x, c, n - j), 0..(taps - 1))

\* h has these samples up to the n-th, and they are numbers.
Lists(h, x, c, n) == \A k \in Int : k <= n => h[k] = At(x, c, k) /\ h[k] \in Int

\* It is the sum of a window.
LEMMA RecentWindow ==
  ASSUME NEW x, NEW c, NEW taps \in Nat \ {0}, NEW n \in Int, NEW h, Lists(h, x, c, n)
  PROVE  RecentOf(x, taps, c, n) = SumOver(h, (n - taps + 1)..n)
  <1> DEFINE S == 0..(taps - 1)
             g == [j \in S |-> At(x, c, n - j)]
             b == [j \in S |-> n - j]
  <1>1. IsFiniteSet(S)
    BY FS_Interval
  <1>2. RecentOf(x, taps, c, n) = SumOver(g, S)
    <2> DEFINE P(F) == F = [s \in SUBSET S |-> IF s = {} THEN 0
                             ELSE At(x, c, n - Taken(s)) + F[s \ {Taken(s)}]]
    <2>1. RecentOf(x, taps, c, n) = (CHOOSE F : P(F))[S]
      BY DEF RecentOf, MapThenSumSet, MapThenFoldSet, Taken
    <2>2. SumOver(g, S) = (CHOOSE F : Folds(F, S, g))[S]
      BY DEF SumOver, MapThenSumSet, MapThenFoldSet, Taken, Folds
    <2>3. ASSUME NEW s \in SUBSET S, s # {}
          PROVE  At(x, c, n - Taken(s)) = g[Taken(s)]
      <3>1. Taken(s) \in S
        BY <2>3 DEF Taken
      <3>. QED
        BY <3>1
    <2> HIDE DEF g
    <2>4. \A F : P(F) <=> Folds(F, S, g)
      BY <2>3 DEF Folds
    <2> HIDE DEF P
    <2>. QED
      BY <2>1, <2>2, <2>4
  <1>3. Renames(b, g, h, S)
    BY DEF Lists, Renames
  <1>4. {b[j] : j \in S} = (n - taps + 1)..n
    <2>1. ASSUME NEW k \in (n - taps + 1)..n
          PROVE  k \in {b[j] : j \in S}
      <3>1. n - k \in S /\ b[n - k] = k
        OBVIOUS
      <3>. QED
        BY <3>1
    <2>. QED
      BY <2>1
  <1> HIDE DEF S, g, b
  <1>5. SumOver(h, {b[j] : j \in S}) = SumOver(g, S)
    BY <1>1, <1>3, SumRenamed
  <1>. QED
    BY <1>2, <1>4, <1>5

\* A window that goes on one sample loses one.
LEMMA RecentNext ==
  ASSUME NEW x, NEW c, NEW taps \in Nat \ {0}, NEW n \in Nat,
         \A k \in 1..(n + 1) : At(x, c, k) \in Int
  PROVE  /\ RecentOf(x, taps, c, n) \in Int /\ RecentOf(x, taps, c, n + 1) \in Int
         /\ RecentOf(x, taps, c, n + 1)
              = RecentOf(x, taps, c, n) + At(x, c, n + 1) - At(x, c, n + 1 - taps)
  <1> DEFINE h == [k \in Int |-> IF k <= n + 1 THEN At(x, c, k) ELSE 0]
             W == (n - taps + 2)..n
             lo == n - taps + 1
             hi == n + 1
  <1>0. \A k \in Int : k <= n + 1 => h[k] = At(x, c, k) /\ h[k] \in Int
    <2>1. \A k \in Int : k < 1 => At(x, c, k) = 0
      BY DEF At
    <2>2. ASSUME NEW k \in Int, k <= n + 1
          PROVE  At(x, c, k) \in Int
      <3>1. CASE k < 1
        BY <2>1, <3>1
      <3>2. CASE ~ (k < 1)
        BY <2>2, <3>2
      <3>. QED
        BY <3>1, <3>2
    <2>. QED
      BY <2>2
  <1> HIDE DEF h
  <1>1. /\ IsFiniteSet(W) /\ lo \notin W /\ hi \notin W
        /\ Numbers(h, W \cup {lo}) /\ Numbers(h, W \cup {hi})
    <2>1. n - taps + 2 \in Int /\ n \in Int
      OBVIOUS
    <2>2. IsFiniteSet(W)
      BY <2>1, FS_Interval
    <2>. QED
      BY <1>0, <2>2 DEF Numbers
  <1>2. (n - taps + 1)..n = W \cup {lo} /\ (n + 1 - taps + 1)..(n + 1) = W \cup {hi}
    OBVIOUS
  <1>3. RecentOf(x, taps, c, n) = SumOver(h, (n - taps + 1)..n)
    <2>1. n \in Int
      OBVIOUS
    <2>2. Lists(h, x, c, n)
      BY <1>0 DEF Lists
    <2>. QED
      BY <2>1, <2>2, RecentWindow
  <1>4. RecentOf(x, taps, c, hi) = SumOver(h, (hi - taps + 1)..hi)
    <2>1. hi \in Int
      OBVIOUS
    <2>2. Lists(h, x, c, hi)
      BY <1>0 DEF Lists
    <2> HIDE DEF hi
    <2>. QED
      BY <2>1, <2>2, RecentWindow
  <1>5. h[lo] = At(x, c, n + 1 - taps) /\ h[hi] = At(x, c, n + 1) /\ h[lo] \in Int /\ h[hi] \in Int
    <2>1. lo = n + 1 - taps /\ lo \in Int /\ hi \in Int /\ lo <= n + 1
      OBVIOUS
    <2>. QED
      BY <1>0, <2>1
  <1> HIDE DEF W
  <1>6. SumOver(h, W) \in Int /\ SumOver(h, W \cup {lo}) = SumOver(h, W) + h[lo]
    <2> HIDE DEF lo
    <2>. QED
      BY <1>1, SumAdd
  <1>7. SumOver(h, W \cup {hi}) = SumOver(h, W) + h[hi]
    <2> HIDE DEF hi
    <2>. QED
      BY <1>1, SumAdd
  <1>. QED
    <2> DEFINE a == RecentOf(x, taps, c, n)
               z == RecentOf(x, taps, c, n + 1)
               s == SumOver(h, W)
               u == h[lo]
               v == h[hi]
    <2>0. (hi - taps + 1)..hi = W \cup {hi}
      BY <1>2
    <2> HIDE DEF hi, lo
    <2>1. a = s + u /\ RecentOf(x, taps, c, hi) = s + v /\ s \in Int /\ u \in Int /\ v \in Int
      BY <1>2, <1>3, <1>4, <1>5, <1>6, <1>7, <2>0
    <2> USE DEF hi
    <2>3. z = s + v
      BY <2>1
    <2> HIDE DEF hi
    <2> HIDE DEF a, z, s, u, v
    <2>2. a \in Int /\ z \in Int /\ z = a + v - u
      BY <2>1, <2>3
    <2>. QED
      BY <1>5, <2>2 DEF a, z, u, v

-----------------------------------------------------------------------------
(* A fold over a sequence, frame by frame. *)

\* The values a fold of n steps goes through.
Walks(A, G, base, n) == A[0] = base /\ \A i \in 1..n : A[i] = G[<<i, A[i - 1]>>]

\* A step for each of n frames.
Paces(G, n, T) == G \in [(1..n) \X T -> T]

\* Each set's value is the step's from that of the set without its last, and of a kind.
Recurs(H, G, base, n, T) ==
  /\ H \in [SUBSET (1..n) -> T]
  /\ \A s \in SUBSET (1..n) :
       /\ s = {} => H[s] = base
       /\ s # {} => /\ Max(s) \in 1..n /\ H[s \ {Max(s)}] \in T
                    /\ H[s] = G[<<Max(s), H[s \ {Max(s)}]>>]

\* The recursion of a fold of n steps, which is over sets of indices, has a solution.
LEMMA FoldExists ==
  ASSUME NEW n \in Nat, NEW T, NEW base \in T, NEW G, Paces(G, n, T)
  PROVE  \E H : Recurs(H, G, base, n, T)
  <1> DEFINE U == 1..n
             pick == [s \in SUBSET U |-> Max(s)]
  <1>1. IsFiniteSet(U) /\ Takes(pick, U)
    BY LastTaken
  <1>2. \A s \in SUBSET U : pick[s] = Max(s)
    OBVIOUS
  <1>3. Maps(G, U, T)
    BY DEF Maps, Paces
  <1> HIDE DEF U, pick
  <1>4. PICK H : Solves(H, G, base, pick, U, T)
    BY <1>1, <1>3, Recursion
  <1>5. /\ H \in [SUBSET U -> T]
        /\ \A s \in SUBSET U : H[s] = IF s = {} THEN base ELSE G[<<pick[s], H[s \ {pick[s]}]>>]
    BY <1>4 DEF Solves
  <1>6. ASSUME NEW s \in SUBSET U, s # {}
        PROVE  Max(s) \in U /\ H[s \ {Max(s)}] \in T
    BY <1>1, <1>2, <1>5, <1>6 DEF Takes
  <1>7. Recurs(H, G, base, n, T)
    BY <1>2, <1>5, <1>6 DEF U, Recurs
  <1>. QED
    BY <1>7

\* Frames come in order.
LEMMA InOrder ==
  ASSUME NEW n \in Nat, NEW i \in 1..n
  PROVE  /\ 1..i \in SUBSET (1..n) /\ 1..i # {} /\ Max(1..i) = i
         /\ (1..i) \ {i} = 1..(i - 1) /\ 1..0 = {}
  <1>1. i \in Nat /\ i \in 1..i /\ 1..i \subseteq Int
    OBVIOUS
  <1>2. Max(1..i) \in 1..i /\ \A x \in 1..i : Max(1..i) >= x
    <2>1. 1..i # {}
      BY <1>1
    <2>2. IsFiniteSet(1..i)
      BY <1>1, FS_Interval
    <2>. QED
      BY <1>1, <2>1, <2>2, MaxIn
  <1>3. Max(1..i) = i
    <2> DEFINE m == Max(1..i)
    <2>1. m \in 1..i /\ m >= i
      BY <1>1, <1>2
    <2> HIDE DEF m
    <2>2. m = i
      BY <1>1, <2>1
    <2>. QED
      BY <2>2 DEF m
  <1>4. (1..i) \ {i} = 1..(i - 1) /\ 1..0 = {} /\ 1..i \in SUBSET (1..n)
    OBVIOUS
  <1>. QED
    BY <1>1, <1>3, <1>4

\* Each set's value comes from that of the set without its last.
Steps(F, G, base, n, T) ==
  /\ F[{}] = base
  /\ \A s \in SUBSET (1..n) :
       s # {} /\ F[s \ {Max(s)}] \in T => F[s] = G[<<Max(s), F[s \ {Max(s)}]>>]

\* A is the values that such a recursion goes through.
Passes(A, F, G, base, n, T) ==
  A \in [0..n -> T] /\ Walks(A, G, base, n) /\ F[1..n] = A[n]

\* What solves it goes through the frames in order.
LEMMA FoldWalks ==
  ASSUME NEW n \in Nat, NEW T, NEW base \in T, NEW G, Paces(G, n, T), NEW F,
         Steps(F, G, base, n, T)
  PROVE  \E A : Passes(A, F, G, base, n, T)
  <1> DEFINE A == [i \in 0..n |-> F[1..i]]
             S == {i \in Nat : i <= n => F[1..i] \in T}
  <1>1. 1..0 = {} /\ F[{}] = base
    BY DEF Steps
  <1>2. ASSUME NEW i \in 1..n, F[1..(i - 1)] \in T
        PROVE  F[1..i] = G[<<i, F[1..(i - 1)]>>] /\ F[1..i] \in T
    <2> DEFINE s == 1..i
    <2>1. s \in SUBSET (1..n) /\ s # {} /\ Max(s) = i /\ s \ {i} = 1..(i - 1)
      BY InOrder
    <2> HIDE DEF s
    <2>2. F[s] = G[<<i, F[1..(i - 1)]>>]
      BY <1>2, <2>1 DEF Steps
    <2>3. G[<<i, F[1..(i - 1)]>>] \in T
      BY <1>2 DEF Paces
    <2>. QED
      BY <2>2, <2>3 DEF s
  <1>3. S = Nat
    <2>1. 0 \in S
      BY <1>1
    <2>2. ASSUME NEW i \in S
          PROVE  i + 1 \in S
      <3>1. i \in Nat /\ (i <= n => F[1..i] \in T)
        OBVIOUS
      <3>2. ASSUME i + 1 <= n
            PROVE  F[1..(i + 1)] \in T
        <4> DEFINE j == i + 1
        <4>1. j \in 1..n /\ j - 1 = i /\ i <= n
          BY <3>1, <3>2
        <4> HIDE DEF j
        <4>2. F[1..j] \in T
          BY <1>2, <3>1, <4>1
        <4>. QED
          BY <4>2 DEF j
      <3>. QED
        BY <3>1, <3>2
    <2>3. S \in SUBSET Nat
      OBVIOUS
    <2> HIDE DEF S
    <2>. QED
      BY <2>1, <2>2, <2>3, NatInd
  <1>4. \A i \in 0..n : F[1..i] \in T
    BY <1>3
  <1>5. A \in [0..n -> T]
    BY <1>4
  <1>6. Walks(A, G, base, n)
    <2>1. A[0] = base
      BY <1>1
    <2>2. ASSUME NEW i \in 1..n
          PROVE  A[i] = G[<<i, A[i - 1]>>]
      <3>1. i \in 0..n /\ i - 1 \in 0..n
        OBVIOUS
      <3>2. F[1..(i - 1)] \in T
        BY <1>4, <3>1
      <3>. QED
        BY <1>2, <3>1, <3>2
    <2> HIDE DEF A
    <2>. QED
      BY <2>1, <2>2 DEF Walks
  <1>7. A[n] = F[1..n]
    OBVIOUS
  <1> HIDE DEF A
  <1>8. Passes(A, F, G, base, n, T)
    BY <1>5, <1>6, <1>7 DEF Passes
  <1>. QED
    BY <1>8

-----------------------------------------------------------------------------
(* The moving average. *)

\* A frame of a channel of the average.
AverageStep(k, slip, st, sample) ==
  LET x == FiniteOrZero(sample)
      entered == [st.ring EXCEPT ![st.p] = x]
      p == NextTap(k, st.p)
      now == AverageSum(st.sum, entered, p, x - st.ring[st.p] + slip)
  IN  [ring |-> entered, sum |-> now, p |-> p, out |-> Append(st.out, now)]

\* Where a channel starts a run.
AverageStart(k, c) ==
  [ring |-> k.rings[c], sum |-> k.sums[c], p |-> k.ring_pos, out |-> <<>>]

\* A frame keeps them so.
LEMMA AverageStepTyped ==
  ASSUME NEW k, NEW taps \in Nat \ {0}, k.taps = taps, NEW slip \in Int,
         NEW st \in AverageStates(taps), NEW sample, FiniteOrZero(sample) \in Int
  PROVE  AverageStep(k, slip, st, sample) \in AverageStates(taps)
  <1> DEFINE x == FiniteOrZero(sample)
             entered == [st.ring EXCEPT ![st.p] = x]
             p == NextTap(k, st.p)
             now == AverageSum(st.sum, entered, p, x - st.ring[st.p] + slip)
  <1>1. /\ st.ring \in [0..(taps - 1) -> Int] /\ st.sum \in Int /\ st.p \in 0..(taps - 1)
        /\ st.out \in Seq(Int) /\ x \in Int
    BY DEF AverageStates
  <1> HIDE DEF x
  <1>2. entered \in [0..(taps - 1) -> Int]
    BY <1>1
  <1>3. p \in 0..(taps - 1)
    <2> DEFINE q == st.p
    <2>1. q \in 0..(taps - 1) /\ p = IF q + 1 = taps THEN 0 ELSE q + 1
      BY <1>1, Zenon DEF NextTap
    <2> HIDE DEF q, p
    <2>. QED
      BY <2>1
  <1>4. RingTotal(entered) \in Int
    <2>1. taps - 1 \in Nat
      OBVIOUS
    <2> HIDE DEF entered
    <2>. QED
      BY <1>2, <2>1, TotalTyped
  <1>5. x - st.ring[st.p] + slip \in Int
    <2> DEFINE old == st.ring[st.p]
    <2>1. old \in Int
      BY <1>1
    <2> HIDE DEF old
    <2>2. x - old + slip \in Int
      BY <1>1, <2>1
    <2>. QED
      BY <2>2 DEF old
  <1> HIDE DEF entered, p
  <1>6. now \in Int
    <2> DEFINE change == x - st.ring[st.p] + slip
    <2>1. now = IF p = 0 THEN RingTotal(entered) ELSE st.sum + change
      BY Zenon DEF AverageSum
    <2>2. change \in Int
      BY <1>5
    <2> HIDE DEF change, now
    <2>. QED
      BY <1>1, <1>4, <2>1, <2>2
  <1> HIDE DEF now
  <1>7. Append(st.out, now) \in Seq(Int)
    BY <1>1, <1>6
  <1>8. AverageStep(k, slip, st, sample)
          = [ring |-> entered, sum |-> now, p |-> p, out |-> Append(st.out, now)]
    BY Zenon DEF AverageStep, entered, now, p, x
  <1>. QED
    BY <1>2, <1>3, <1>6, <1>7, <1>8 DEF AverageStates

\* The states that a channel's run goes through, A[i] after the i-th frame.
AverageWalks(A, k, c, xs, n, slip) ==
  /\ A[0] = AverageStart(k, c)
  /\ \A i \in 1..n : A[i] = AverageStep(k, slip, A[i - 1], xs[i])
  /\ AverageChannel(k, c, xs, slip) = A[n]

\* A channel's run goes through its frames in order, and keeps them so.
LEMMA AverageChannelWalks ==
  ASSUME NEW k, NEW taps \in Nat \ {0}, k.taps = taps, NEW c,
         k.rings[c] \in [0..(taps - 1) -> Int], k.sums[c] \in Int, k.ring_pos \in 0..(taps - 1),
         NEW n \in Nat, NEW xs, DOMAIN xs = 1..n, \A i \in 1..n : FiniteOrZero(xs[i]) \in Int,
         NEW slip \in Int
  PROVE  \E A \in [0..n -> AverageStates(taps)] : AverageWalks(A, k, c, xs, n, slip)
  <1> DEFINE T == AverageStates(taps)
             U == DOMAIN xs
             Step(st, sample) == AverageStep(k, slip, st, sample)
             base == AverageStart(k, c)
             G == [z \in (1..n) \X T |-> Step(z[2], xs[z[1]])]
             Rule(F) == F = [s \in SUBSET U |->
                               IF s = {} THEN base
                               ELSE Step(F[s \ {Max(s)}], xs[Max(s)])]
             F == CHOOSE F : Rule(F)
  <1>1. base \in T
    BY DEF AverageStates, AverageStart
  <1>2. ASSUME NEW st \in T, NEW i \in 1..n
        PROVE  Step(st, xs[i]) \in T
    BY AverageStepTyped
  <1>3. AverageChannel(k, c, xs, slip) = F[U]
    BY DEF AverageChannel, FoldLeft, MapThenFoldSet, AverageStep, AverageStart
  <1> HIDE DEF T, Step, base
  <1>4. Paces(G, n, T)
    BY <1>2 DEF Paces
  <1>5. \A i \in 1..n, st \in T : G[<<i, st>>] = Step(st, xs[i])
    OBVIOUS
  <1> HIDE DEF G
  <1>6. PICK H : Recurs(H, G, base, n, T)
    BY <1>1, <1>4, FoldExists
  <1>7. Rule(H)
    BY <1>5, <1>6 DEF Recurs
  <1>8. Rule(F)
    <2> HIDE DEF Rule
    <2>. QED
      BY <1>7
  <1>9. Steps(F, G, base, n, T)
    <2> HIDE DEF F
    <2>1. F[{}] = base
      BY <1>8
    <2>2. ASSUME NEW s \in SUBSET (1..n), s # {}, F[s \ {Max(s)}] \in T
          PROVE  F[s] = G[<<Max(s), F[s \ {Max(s)}]>>]
      <3>1. F[s] = Step(F[s \ {Max(s)}], xs[Max(s)])
        BY <1>8, <2>2
      <3>2. Max(s) \in 1..n
        BY <1>6, <2>2 DEF Recurs
      <3>. QED
        BY <1>5, <2>2, <3>1, <3>2
    <2>. QED
      BY <2>1, <2>2 DEF Steps
  <1> HIDE DEF F
  <1>10. PICK A : Passes(A, F, G, base, n, T)
    BY <1>1, <1>4, <1>9, FoldWalks
  <1>11. ASSUME NEW i \in 1..n
         PROVE  A[i] = AverageStep(k, slip, A[i - 1], xs[i])
    <2>1. i - 1 \in 0..n
      OBVIOUS
    <2>2. A[i - 1] \in T /\ A[i] = G[<<i, A[i - 1]>>]
      BY <1>10, <2>1 DEF Walks, Passes
    <2>. QED
      BY <1>5, <2>2 DEF Step
  <1>12. AverageWalks(A, k, c, xs, n, slip)
    BY <1>3, <1>10, <1>11 DEF AverageWalks, Walks, Passes, base
  <1>. QED
    BY <1>10, <1>12 DEF Passes, T

\* Two places in a ring make one, once around at most.
LEMMA RingPlace ==
  ASSUME NEW t \in Nat \ {0}, NEW p \in 0..(t - 1), NEW j \in 0..(t - 1)
  PROVE  (p + j) % t = IF p + j < t THEN p + j ELSE p + j - t
  <1>1. CASE p + j < t
    BY <1>1, Z3
  <1>2. CASE ~ (p + j < t)
    <2> DEFINE s == p + j
    <2>1. s \in Nat /\ s >= t /\ s - t < t /\ s - t >= 0
      BY <1>2
    <2> HIDE DEF s
    <2>2. s % t \in 0..(t - 1) /\ s = t * (s \div t) + (s % t) /\ s \div t \in Int
      BY <2>1, Z3
    <2> DEFINE d == s \div t
               r == s % t
    <2>3. d \in Int /\ r \in 0..(t - 1) /\ s = t * d + r
      BY <2>2
    <2> HIDE DEF d, r
    <2>4. d = 1
      <3>1. CASE d <= 0
        <4>1. t * d <= 0
          BY <2>3, <3>1, Z3
        <4>. QED
          BY <2>1, <2>3, <4>1, Z3
      <3>2. CASE d >= 2
        <4>1. t * d >= t + t
          BY <2>3, <3>2, Z3
        <4>. QED
          BY <2>1, <2>3, <4>1, Z3
      <3>. QED
        BY <2>3, <3>1, <3>2
    <2>5. r = s - t
      BY <2>3, <2>4
    <2>. QED
      BY <1>2, <2>5 DEF r, s
  <1>. QED
    BY <1>1, <1>2

\* and one alone is where it is.
LEMMA RingStart ==
  ASSUME NEW t \in Nat \ {0}, NEW p \in 0..(t - 1)
  PROVE  p % t = p
  BY Z3

\* After m frames of channel c: the ring is the last inputs, the cursor at the oldest, and the
\* sum no further from theirs than was rounded since it wrapped.
AverageRight(x, c, m, taps, ring, sum, p) ==
  /\ \A j \in 0..(taps - 1) : ring[(p + j) % taps] = At(x, c, m - taps + 1 + j)
  /\ Magnitude(sum - RecentOf(x, taps, c, m)) <= p

\* The ring is the inputs up to the n-th, in order, and these are numbers.
Ends(ring, taps, x, c, n) ==
  /\ \A j \in 0..(taps - 1) : ring[j] = At(x, c, n - taps + 1 + j)
  /\ \A k \in Int : k <= n => At(x, c, k) \in Int

\* A whole ring's sum is that of the last inputs.
LEMMA RingRecent ==
  ASSUME NEW taps \in Nat \ {0}, NEW ring \in [0..(taps - 1) -> Int], NEW x, NEW c, NEW n \in Int,
         Ends(ring, taps, x, c, n)
  PROVE  RingTotal(ring) = RecentOf(x, taps, c, n)
  <1> DEFINE S == 0..(taps - 1)
             lo == n - taps + 1
             h == [k \in Int |-> IF k <= n THEN At(x, c, k) ELSE 0]
             b == [j \in S |-> lo + j]
  <1>1. Lists(h, x, c, n)
    BY DEF Lists, Ends
  <1>2. RecentOf(x, taps, c, n) = SumOver(h, lo..n)
    <2> HIDE DEF h
    <2>. QED
      BY <1>1, RecentWindow
  <1>3. RingTotal(ring) = SumOver(ring, S)
    BY DEF RingTotal, SumOver
  <1>4. Renames(b, ring, h, S)
    BY DEF Renames, Ends
  <1>6. {b[j] : j \in S} = lo..n
    <2>1. ASSUME NEW k \in lo..n
          PROVE  k \in {b[j] : j \in S}
      <3>1. k - lo \in S /\ b[k - lo] = k
        OBVIOUS
      <3>. QED
        BY <3>1
    <2>2. ASSUME NEW j \in S
          PROVE  b[j] \in lo..n
      OBVIOUS
    <2> HIDE DEF b, S, lo
    <2>. QED
      BY <2>1, <2>2
  <1>7. IsFiniteSet(S)
    BY FS_Interval
  <1> HIDE DEF S, h, b, lo
  <1>8. SumOver(h, {b[j] : j \in S}) = SumOver(ring, S)
    BY <1>4, <1>7, SumRenamed
  <1>. QED
    BY <1>2, <1>3, <1>6, <1>8

\* The first n samples of channel c are numbers.
Known(x, c, n) == \A i \in 1..n : At(x, c, i) \in Int

\* A frame moves all of it on.
LEMMA AverageStepExact ==
  ASSUME NEW k, NEW taps \in Nat \ {0}, k.taps = taps, NEW slip \in -1..1,
         NEW st \in AverageStates(taps), NEW x, NEW c, NEW m \in Nat, NEW sample,
         FiniteOrZero(sample) = At(x, c, m + 1),
         Known(x, c, m + 1), AverageRight(x, c, m, taps, st.ring, st.sum, st.p),
         NEW new, new = AverageStep(k, slip, st, sample)
  PROVE  /\ AverageRight(x, c, m + 1, taps, new.ring, new.sum, new.p)
         /\ new.p = NextTap(k, st.p)
         /\ Magnitude(new.sum - RecentOf(x, taps, c, m + 1)) <= taps - 1
         /\ new.out = Append(st.out, new.sum)
  <1> DEFINE v == FiniteOrZero(sample)
             q == st.p
             old == st.ring[q]
             ring == [st.ring EXCEPT ![q] = v]
             p == NextTap(k, q)
             now == AverageSum(st.sum, ring, p, v - old + slip)
  <1>0. \A i \in 1..(m + 1) : At(x, c, i) \in Int
    BY DEF Known
  <1>1. /\ st.ring \in [0..(taps - 1) -> Int] /\ st.sum \in Int /\ q \in 0..(taps - 1)
    BY DEF AverageStates
  <1>2. new = [ring |-> ring, sum |-> now, p |-> p, out |-> Append(st.out, now)]
    BY Zenon DEF AverageStep
  <1>3. new.ring = ring /\ new.sum = now /\ new.p = p /\ new.out = Append(st.out, now)
    <2> HIDE DEF ring, now, p
    <2>. QED
      BY <1>2
  <1>4. v = At(x, c, m + 1) /\ v \in Int
    BY <1>0 DEF At
  <1>5. old = At(x, c, m + 1 - taps) /\ old \in Int
    <2>1. (q + 0) % taps = q
      <3> HIDE DEF q
      <3>1. q + 0 = q
        BY <1>1
      <3>2. q % taps = q
        BY <1>1, RingStart
      <3>. QED
        BY <3>1, <3>2
    <2>2. st.ring[(q + 0) % taps] = At(x, c, m - taps + 1 + 0)
      BY DEF AverageRight
    <2>3. m - taps + 1 + 0 = m + 1 - taps
      OBVIOUS
    <2>. QED
      BY <1>1, <2>1, <2>2, <2>3
  <1>6. p = (IF q + 1 = taps THEN 0 ELSE q + 1) /\ p \in 0..(taps - 1)
    <2>1. p = IF q + 1 = taps THEN 0 ELSE q + 1
      BY Zenon DEF NextTap
    <2> HIDE DEF p, q
    <2>. QED
      BY <1>1, <2>1
  <1> HIDE DEF v, old, p, now
  <1>7. ring \in [0..(taps - 1) -> Int]
    BY <1>1, <1>4
  <1>8. ASSUME NEW j \in 0..(taps - 1)
        PROVE  ring[(p + j) % taps] = At(x, c, (m + 1) - taps + 1 + j)
    <2>1. CASE j = taps - 1
      <3>1. (p + j) % taps = q
        <4>1. (p + j) % taps = IF p + j < taps THEN p + j ELSE p + j - taps
          BY <1>6, RingPlace
        <4> HIDE DEF q
        <4>. QED
          BY <1>1, <1>6, <2>1, <4>1
      <3>2. ring[q] = v
        BY <1>1
      <3>3. (m + 1) - taps + 1 + j = m + 1
        BY <2>1
      <3> HIDE DEF ring, q
      <3>. QED
        BY <1>4, <3>1, <3>2, <3>3
    <2>2. CASE j # taps - 1
      <3> DEFINE i == j + 1
      <3>1. i \in 0..(taps - 1)
        BY <2>2
      <3>2. (p + j) % taps = (q + i) % taps /\ (q + i) % taps # q /\ (q + i) % taps \in 0..(taps - 1)
        <4>1. (p + j) % taps = IF p + j < taps THEN p + j ELSE p + j - taps
          BY <1>6, RingPlace
        <4> HIDE DEF i
        <4>2. (q + i) % taps = IF q + i < taps THEN q + i ELSE q + i - taps
          BY <1>1, <3>1, RingPlace
        <4> DEFINE a == (p + j) % taps
                   z == (q + i) % taps
        <4>3. /\ a = IF p + j < taps THEN p + j ELSE p + j - taps
              /\ z = IF q + i < taps THEN q + i ELSE q + i - taps
          BY <4>1, <4>2
        <4> HIDE DEF q, a, z
        <4>4. i = j + 1
          BY DEF i
        <4>5. a = z /\ z # q /\ z \in 0..(taps - 1)
          BY <1>1, <1>6, <2>2, <3>1, <4>3, <4>4
        <4>. QED
          BY <4>5 DEF a, z
      <3>3. ring[(q + i) % taps] = st.ring[(q + i) % taps]
        <4> DEFINE z == (q + i) % taps
        <4>1. z # q /\ z \in 0..(taps - 1)
          BY <3>2
        <4> HIDE DEF z
        <4>2. ring[z] = st.ring[z]
          BY <1>1, <4>1
        <4>. QED
          BY <4>2 DEF z
      <3>4. st.ring[(q + i) % taps] = At(x, c, m - taps + 1 + i)
        <4> HIDE DEF i
        <4>. QED
          BY <3>1 DEF AverageRight
      <3>5. m - taps + 1 + i = (m + 1) - taps + 1 + j
        OBVIOUS
      <3> HIDE DEF i, ring, q
      <3>. QED
        BY <3>2, <3>3, <3>4, <3>5
    <2>. QED
      BY <2>1, <2>2
  <1>9. /\ RecentOf(x, taps, c, m) \in Int /\ RecentOf(x, taps, c, m + 1) \in Int
        /\ RecentOf(x, taps, c, m + 1) = RecentOf(x, taps, c, m) + v - old
    BY <1>0, <1>4, <1>5, RecentNext
  <1>10. Magnitude(now - RecentOf(x, taps, c, m + 1)) <= p
    <2>1. CASE p = 0
      <3>1. now = RingTotal(ring)
        BY <2>1, Zenon DEF AverageSum, now
      <3>2. ASSUME NEW j \in 0..(taps - 1)
            PROVE  ring[j] = At(x, c, (m + 1) - taps + 1 + j)
        <4>1. (p + j) % taps = j
          <5>1. p + j = j /\ j % taps = j
            BY <2>1, RingStart
          <5>. QED
            BY <5>1
        <4> HIDE DEF ring
        <4>. QED
          BY <1>8, <4>1
      <3>3. ASSUME NEW i \in Int, i <= m + 1
            PROVE  At(x, c, i) \in Int
        <4>1. CASE i < 1
          BY <4>1 DEF At
        <4>2. CASE ~ (i < 1)
          BY <1>0, <3>3, <4>2
        <4>. QED
          BY <4>1, <4>2
      <3>4. RingTotal(ring) = RecentOf(x, taps, c, m + 1)
        <4> DEFINE n == m + 1
        <4>1. n \in Int /\ \A j \in 0..(taps - 1) : ring[j] = At(x, c, n - taps + 1 + j)
          BY <3>2
        <4>2. Ends(ring, taps, x, c, n)
          BY <3>3, <4>1 DEF Ends
        <4> HIDE DEF n, ring
        <4>3. RingTotal(ring) = RecentOf(x, taps, c, n)
          BY <1>7, <4>1, <4>2, RingRecent
        <4>. QED
          BY <4>3 DEF n
      <3> DEFINE r == RecentOf(x, taps, c, m + 1)
      <3>5. now = r /\ r \in Int
        BY <1>9, <3>1, <3>4
      <3> HIDE DEF r
      <3>6. Magnitude(now - r) = 0
        BY <3>5 DEF Magnitude
      <3>. QED
        BY <2>1, <3>6 DEF r
    <2>2. CASE p # 0
      <3>1. now = st.sum + (v - old + slip)
        BY <2>2, Zenon DEF AverageSum, now
      <3>2. p = q + 1
        BY <1>6, <2>2
      <3> DEFINE r == RecentOf(x, taps, c, m)
                 s == RecentOf(x, taps, c, m + 1)
                 u == st.sum
      <3>3. Magnitude(u - r) <= q
        BY DEF AverageRight
      <3>4. s = r + v - old /\ r \in Int /\ u \in Int /\ now = u + (v - old + slip)
        BY <1>1, <1>9, <3>1
      <3> HIDE DEF r, s, u, q
      <3>5. Magnitude(now - s) <= p
        <4>1. p = q + 1 /\ q \in Int /\ v \in Int /\ old \in Int
          BY <1>1, <1>4, <1>5, <3>2
        <4>2. now - s = (u - r) + slip /\ u - r \in Int /\ slip \in Int
          BY <3>4, <4>1
        <4>. QED
          BY <3>3, <4>1, <4>2 DEF Magnitude
      <3>. QED
        BY <3>5 DEF s
    <2>. QED
      BY <2>1, <2>2
  <1>11. Magnitude(now - RecentOf(x, taps, c, m + 1)) <= taps - 1
    <2> DEFINE e == Magnitude(now - RecentOf(x, taps, c, m + 1))
    <2>1. e \in Int
      <3>1. now \in Int
        <4>1. RingTotal(ring) \in Int
          <5>1. taps - 1 \in Nat
            OBVIOUS
          <5> HIDE DEF ring
          <5>. QED
            BY <1>7, <5>1, TotalTyped
        <4>2. now = IF p = 0 THEN RingTotal(ring) ELSE st.sum + (v - old + slip)
          BY Zenon DEF AverageSum, now
        <4>3. st.sum + (v - old + slip) \in Int
          <5> DEFINE u == st.sum
          <5>1. u \in Int
            BY <1>1
          <5>2. slip \in Int
            OBVIOUS
          <5> HIDE DEF u
          <5>3. v - old + slip \in Int
            BY <1>4, <1>5, <5>2
          <5>4. u + (v - old + slip) \in Int
            BY <5>1, <5>3
          <5>. QED
            BY <5>4 DEF u
        <4> HIDE DEF ring
        <4>. QED
          BY <4>1, <4>2, <4>3
      <3> DEFINE s == RecentOf(x, taps, c, m + 1)
      <3>2. s \in Int
        BY <1>9
      <3> HIDE DEF s
      <3>3. Magnitude(now - s) \in Int
        BY <3>1, <3>2 DEF Magnitude
      <3>. QED
        BY <3>3 DEF s
    <2>2. e <= p
      BY <1>10
    <2> HIDE DEF e
    <2>3. e <= taps - 1
      BY <1>6, <2>1, <2>2
    <2>. QED
      BY <2>3 DEF e
  <1>12. AverageRight(x, c, m + 1, taps, ring, now, p)
    <2> HIDE DEF ring
    <2>. QED
      BY <1>8, <1>10 DEF AverageRight
  <1>. QED
    BY <1>3, <1>11, <1>12 DEF p

\* xs is the n samples of channel c of x that follow the m-th, and all up to there are numbers.
Feeds(xs, n, x, c, m) ==
  /\ DOMAIN xs = 1..n
  /\ \A i \in 1..n : FiniteOrZero(xs[i]) = At(x, c, m + i)
  /\ Known(x, c, m + n)

\* The n sums given after the m-th frame are those of the last inputs, but for what was rounded.
AverageOuts(outs, n, x, c, m, taps) ==
  /\ DOMAIN outs = 1..n
  /\ \A i \in 1..n : Magnitude(outs[i] - RecentOf(x, taps, c, m + i)) <= taps - 1

\* A channel's run moves all of it on by its frames.
LEMMA AverageChannelExact ==
  ASSUME NEW k, NEW taps \in Nat \ {0}, k.taps = taps, NEW c,
         k.rings[c] \in [0..(taps - 1) -> Int], k.sums[c] \in Int, k.ring_pos \in 0..(taps - 1),
         NEW n \in Nat, NEW xs, NEW x, NEW m \in Nat, Feeds(xs, n, x, c, m), NEW slip \in -1..1,
         AverageRight(x, c, m, taps, k.rings[c], k.sums[c], k.ring_pos),
         NEW st, st = AverageChannel(k, c, xs, slip)
  PROVE  /\ AverageRight(x, c, m + n, taps, st.ring, st.sum, st.p)
         /\ AverageOuts(st.out, n, x, c, m, taps)
  <1>1. /\ DOMAIN xs = 1..n
        /\ \A i \in 1..n : FiniteOrZero(xs[i]) = At(x, c, m + i)
        /\ \A i \in 1..(m + n) : At(x, c, i) \in Int
    BY DEF Feeds, Known
  <1>2. \A i \in 1..n : FiniteOrZero(xs[i]) \in Int
    BY <1>1
  <1>3. slip \in Int
    OBVIOUS
  <1>4. PICK A \in [0..n -> AverageStates(taps)] : AverageWalks(A, k, c, xs, n, slip)
    BY <1>1, <1>2, <1>3, AverageChannelWalks
  <1>5. /\ A[0] = AverageStart(k, c)
        /\ \A i \in 1..n : A[i] = AverageStep(k, slip, A[i - 1], xs[i])
        /\ st = A[n]
    BY <1>4 DEF AverageWalks
  <1> DEFINE Good(i) == /\ AverageRight(x, c, m + i, taps, A[i].ring, A[i].sum, A[i].p)
                        /\ AverageOuts(A[i].out, i, x, c, m, taps)
             S == {i \in Nat : i <= n => Good(i)}
  <1>6. 0 \in S
    <2>1. /\ A[0].ring = k.rings[c] /\ A[0].sum = k.sums[c] /\ A[0].p = k.ring_pos
          /\ A[0].out = <<>>
      BY <1>5 DEF AverageStart
    <2>2. m + 0 = m
      OBVIOUS
    <2>3. AverageOuts(<<>>, 0, x, c, m, taps)
      BY DEF AverageOuts
    <2>4. AverageRight(x, c, m + 0, taps, A[0].ring, A[0].sum, A[0].p)
      BY <2>1, <2>2
    <2>. QED
      BY <2>1, <2>3, <2>4
  <1>7. ASSUME NEW i \in S
        PROVE  i + 1 \in S
    <2> SUFFICES ASSUME i + 1 <= n
                 PROVE  Good(i + 1)
      OBVIOUS
    <2> DEFINE was == A[i]
               new == A[i + 1]
               sample == xs[i + 1]
    <2>1. i \in Nat /\ i \in 0..n /\ i + 1 \in 1..n /\ i + 1 - 1 = i /\ Good(i)
      OBVIOUS
    <2>2. new = AverageStep(k, slip, was, sample) /\ was \in AverageStates(taps)
      BY <1>5, <2>1
    <2>3. FiniteOrZero(sample) = At(x, c, m + i + 1)
      <3>1. FiniteOrZero(sample) = At(x, c, m + (i + 1))
        BY <1>1, <2>1
      <3>2. m + (i + 1) = m + i + 1
        BY <2>1
      <3>. QED
        BY <3>1, <3>2
    <2>4. \A j \in 1..(m + i + 1) : At(x, c, j) \in Int
      BY <1>1, <2>1
    <2>5. m + i \in Nat
      BY <2>1
    <2>6. AverageRight(x, c, m + i, taps, was.ring, was.sum, was.p)
      BY <2>1
    <2> HIDE DEF was, new, sample
    <2> DEFINE o == m + i
    <2>7. /\ AverageRight(x, c, o + 1, taps, new.ring, new.sum, new.p)
          /\ new.p = NextTap(k, was.p)
          /\ Magnitude(new.sum - RecentOf(x, taps, c, o + 1)) <= taps - 1
          /\ new.out = Append(was.out, new.sum)
      <3>1. /\ o \in Nat /\ FiniteOrZero(sample) = At(x, c, o + 1)
            /\ Known(x, c, o + 1)
            /\ AverageRight(x, c, o, taps, was.ring, was.sum, was.p)
        BY <2>3, <2>4, <2>5, <2>6 DEF Known
      <3> HIDE DEF o
      <3>. QED
        BY <2>2, <3>1, AverageStepExact, SMTT(60)
    <2>8. m + (i + 1) = o + 1
      BY <2>1
    <2>9. AverageRight(x, c, m + (i + 1), taps, new.ring, new.sum, new.p)
      BY <2>7, <2>8
    <2>10. AverageOuts(new.out, i + 1, x, c, m, taps)
      <3>1. was.out \in Seq(Int)
        BY <2>2 DEF AverageStates
      <3>2. /\ DOMAIN was.out = 1..i
            /\ \A j \in 1..i : Magnitude(was.out[j] - RecentOf(x, taps, c, m + j)) <= taps - 1
        BY <2>1 DEF AverageOuts, was
      <3> DEFINE before == was.out
                 sum == new.sum
                 after == Append(before, sum)
      <3>3. before \in Seq(Int) /\ DOMAIN before = 1..i
        BY <3>1, <3>2
      <3> HIDE DEF before, sum
      <3>4. /\ DOMAIN after = 1..(i + 1) /\ after[i + 1] = sum
            /\ \A j \in 1..i : after[j] = before[j]
        <4>1. Len(before) = i
          BY <2>1, <3>3, Length
        <4>. QED
          BY <2>1, <3>3, <4>1
      <3> HIDE DEF after
      <3>5. ASSUME NEW j \in 1..(i + 1)
            PROVE  Magnitude(after[j] - RecentOf(x, taps, c, m + j)) <= taps - 1
        <4>1. CASE j = i + 1
          BY <2>7, <2>8, <3>4, <4>1 DEF sum
        <4>2. CASE j # i + 1
          <5>1. j \in 1..i
            BY <2>1, <4>2
          <5>. QED
            BY <3>2, <3>4, <5>1 DEF before
        <4>. QED
          BY <4>1, <4>2
      <3>6. AverageOuts(after, i + 1, x, c, m, taps)
        BY <3>4, <3>5 DEF AverageOuts
      <3>. QED
        BY <2>7, <3>6 DEF after, before, sum
    <2>. QED
      BY <2>9, <2>10 DEF new
  <1>8. n \in S
    <2> HIDE DEF Good
    <2>1. S \in SUBSET Nat
      OBVIOUS
    <2> HIDE DEF S
    <2>2. S = Nat
      BY <1>6, <1>7, <2>1, NatInd
    <2>. QED
      BY <2>2
  <1>. QED
    BY <1>5, <1>8

\* All channels move the cursor alike.
LEMMA AverageCursor ==
  ASSUME NEW k, NEW c, NEW d, NEW xs, NEW ys, NEW n \in Nat, NEW slip, NEW A, NEW B,
         AverageWalks(A, k, c, xs, n, slip), AverageWalks(B, k, d, ys, n, slip)
  PROVE  AverageChannel(k, c, xs, slip).p = AverageChannel(k, d, ys, slip).p
  <1>1. /\ A[0] = AverageStart(k, c)
        /\ \A i \in 1..n : A[i] = AverageStep(k, slip, A[i - 1], xs[i])
        /\ AverageChannel(k, c, xs, slip) = A[n]
        /\ B[0] = AverageStart(k, d)
        /\ \A i \in 1..n : B[i] = AverageStep(k, slip, B[i - 1], ys[i])
        /\ AverageChannel(k, d, ys, slip) = B[n]
    BY DEF AverageWalks
  <1> DEFINE S == {i \in Nat : i <= n => A[i].p = B[i].p}
  <1>2. 0 \in S
    BY <1>1 DEF AverageStart
  <1>3. ASSUME NEW i \in S
        PROVE  i + 1 \in S
    <2> SUFFICES ASSUME i + 1 <= n
                 PROVE  A[i + 1].p = B[i + 1].p
      OBVIOUS
    <2>1. i \in Nat /\ i + 1 \in 1..n /\ i + 1 - 1 = i /\ A[i].p = B[i].p
      OBVIOUS
    <2>2. /\ A[i + 1] = AverageStep(k, slip, A[i], xs[i + 1])
          /\ B[i + 1] = AverageStep(k, slip, B[i], ys[i + 1])
      BY <1>1, <2>1
    <2>3. A[i + 1].p = NextTap(k, A[i].p) /\ B[i + 1].p = NextTap(k, B[i].p)
      BY <2>2 DEF AverageStep
    <2>. QED
      BY <2>1, <2>3
  <1>4. S = Nat
    <2>1. S \in SUBSET Nat
      OBVIOUS
    <2> HIDE DEF S
    <2>. QED
      BY <1>2, <1>3, <2>1, NatInd
  <1>. QED
    BY <1>1, <1>4

\* After m frames of its ch channels an average is right in each.
AveragesRight(k, x, ch, m) ==
  \A c \in 1..ch : AverageRight(x, c, m, k.taps, k.rings[c], k.sums[c], k.ring_pos)

\* Each channel's plane is its next n samples.
AllFeed(planes, x, ch, m, n) == \A c \in 1..ch : Feeds(planes[c], n, x, c, m)

\* A run of all channels moves the average on.
LEMMA AverageRunExact ==
  ASSUME NEW k, Formed("average", k), Runnable("average", k), NEW ch \in Nat,
         Shaped("average", k, ch), NEW n \in Nat, NEW m \in Nat, NEW planes, NEW x,
         AllFeed(planes, x, ch, m, n), NEW slip \in -1..1, AveragesRight(k, x, ch, m),
         NEW r, r = AverageRun(k, planes, slip)
  PROVE  /\ AveragesRight(r.kernel, x, ch, m + n)
         /\ DOMAIN r.out = 1..ch
         /\ \A c \in 1..ch : AverageOuts(r.out[c], n, x, c, m, k.taps)
  <1> DEFINE taps == k.taps
             Channel(c) == AverageChannel(k, c, planes[c], slip)
             chs == [c \in DOMAIN k.sums |-> Channel(c)]
  <1>1. /\ taps \in Nat \ {0} /\ k.ring_pos \in 0..(taps - 1)
        /\ DOMAIN k.sums = 1..ch
        /\ \A c \in 1..ch : k.rings[c] \in [0..(taps - 1) -> Int] /\ k.sums[c] \in Int
    <2>1. k.taps \in Nat \ {0}
      BY DEF Runnable
    <2>2. /\ k.rings \in [1..ch -> [0..(taps - 1) -> Int]] /\ k.sums \in [1..ch -> Int]
          /\ k.ring_pos \in 0..AverageTail(k)
      BY Zenon DEF Shaped
    <2>3. AverageTail(k) = taps - 1
      BY <2>1 DEF AverageTail
    <2>. QED
      BY <2>1, <2>2, <2>3
  <1>2. slip \in Int
    OBVIOUS
  <1> HIDE DEF taps
  <1>3. ASSUME NEW c \in 1..ch
        PROVE  /\ AverageRight(x, c, m + n, taps, Channel(c).ring, Channel(c).sum, Channel(c).p)
               /\ AverageOuts(Channel(c).out, n, x, c, m, taps)
    <2> DEFINE xs == planes[c]
    <2>1. Feeds(xs, n, x, c, m)
      BY DEF AllFeed
    <2>2. AverageRight(x, c, m, taps, k.rings[c], k.sums[c], k.ring_pos)
      BY DEF AveragesRight, taps
    <2>3. k.taps = taps
      BY DEF taps
    <2> DEFINE st == Channel(c)
    <2>4. st = AverageChannel(k, c, xs, slip)
      OBVIOUS
    <2>6. /\ k.rings[c] \in [0..(taps - 1) -> Int] /\ k.sums[c] \in Int
          /\ k.ring_pos \in 0..(taps - 1) /\ taps \in Nat \ {0} /\ k.taps = taps
          /\ Feeds(xs, n, x, c, m) /\ st = AverageChannel(k, c, xs, slip)
          /\ AverageRight(x, c, m, taps, k.rings[c], k.sums[c], k.ring_pos)
      BY <1>1, <2>1, <2>2, <2>3, <2>4
    <2> HIDE DEF xs, st, Channel, chs
    <2>5. /\ AverageRight(x, c, m + n, taps, st.ring, st.sum, st.p)
          /\ AverageOuts(st.out, n, x, c, m, taps)
      BY <2>6, AverageChannelExact
    <2>. QED
      BY <2>5 DEF st
  <1>4. ASSUME NEW c \in 1..ch, NEW d \in 1..ch
        PROVE  Channel(c).p = Channel(d).p
    <2>1. ASSUME NEW e \in 1..ch
          PROVE  \E A : AverageWalks(A, k, e, planes[e], n, slip)
      <3>1. /\ DOMAIN planes[e] = 1..n /\ \A i \in 1..n : FiniteOrZero(planes[e][i]) \in Int
        <4> DEFINE zs == planes[e]
        <4>1. Feeds(zs, n, x, e, m)
          BY Zenon DEF AllFeed
        <4> HIDE DEF zs
        <4>2. /\ DOMAIN zs = 1..n /\ \A i \in 1..n : FiniteOrZero(zs[i]) = At(x, e, m + i)
              /\ \A i \in 1..(m + n) : At(x, e, i) \in Int
          BY <4>1, Zenon DEF Feeds, Known
        <4>3. \A i \in 1..n : m + i \in 1..(m + n)
          OBVIOUS
        <4>4. \A i \in 1..n : FiniteOrZero(zs[i]) \in Int
          BY <4>2, <4>3
        <4>. QED
          BY <4>2, <4>4 DEF zs
      <3>2. k.taps = taps
        BY DEF taps
      <3>. QED
        BY <1>1, <1>2, <3>1, <3>2, AverageChannelWalks
    <2>2. PICK A : AverageWalks(A, k, c, planes[c], n, slip)
      BY <2>1
    <2>3. PICK B : AverageWalks(B, k, d, planes[d], n, slip)
      BY <2>1
    <2>. QED
      BY <2>2, <2>3, AverageCursor
  <1>5. /\ r.kernel = [k EXCEPT !.rings = [c \in DOMAIN chs |-> chs[c].ring],
                                !.sums = [c \in DOMAIN chs |-> chs[c].sum],
                                !.ring_pos = IF chs = <<>> THEN @ ELSE Last(chs).p]
        /\ r.out = [c \in DOMAIN chs |-> chs[c].out]
    BY Zenon DEF AverageRun
  <1>6. DOMAIN chs = 1..ch /\ \A c \in 1..ch : chs[c] = Channel(c)
    BY <1>1
  <1> HIDE DEF chs, Channel
  <1>7. /\ r.kernel.taps = taps
        /\ \A c \in 1..ch : r.kernel.rings[c] = Channel(c).ring /\ r.kernel.sums[c] = Channel(c).sum
        /\ r.kernel.ring_pos = IF chs = <<>> THEN k.ring_pos ELSE Last(chs).p
        /\ DOMAIN r.out = 1..ch /\ \A c \in 1..ch : r.out[c] = Channel(c).out
    BY <1>5, <1>6 DEF Formed, taps
  <1>8. ASSUME NEW c \in 1..ch
        PROVE  r.kernel.ring_pos = Channel(c).p
    <2>1. Len(chs) = ch
      BY <1>6, Length
    <2>2. ch \in 1..ch /\ chs # <<>>
      BY <1>6
    <2>3. Last(chs) = Channel(ch)
      BY <1>6, <2>1, <2>2 DEF Last
    <2>4. Channel(ch).p = Channel(c).p
      BY <1>4, <2>2
    <2>. QED
      BY <1>7, <2>2, <2>3, <2>4
  <1>9. AveragesRight(r.kernel, x, ch, m + n)
    BY <1>3, <1>7, <1>8 DEF AveragesRight
  <1>. QED
    BY <1>3, <1>7, <1>9 DEF taps

-----------------------------------------------------------------------------
(* What a kernel has made of a history. *)

\* From the first-th of n frames on, planes are what x has after its m-th.
Reads(planes, x, m, n, first) ==
  /\ DOMAIN planes = DOMAIN x
  /\ \A c \in DOMAIN x : /\ DOMAIN planes[c] = 1..n
                         /\ \A i \in first..n : planes[c][i] = x[c][m + i]

\* A history of t frames of ch channels.
Chronicle(kind_, k, h, ch, t) ==
  /\ DOMAIN h.p = 1..t
  /\ Sampled(h.x, ch, t, 1)
  /\ kind_ = "dynamics" /\ k.use_sidechain => Sampled(h.sidechain, 1, t, 1)

Generating == {"oscillator", "noise"}

\* What a detector hears of a history.
HeardBy(k, h) == IF k.use_sidechain THEN h.sidechain ELSE h.x

\* A run of n frames with the parameters p is the history's after the m-th.
Plays(kind_, k, run, p, h, ch, m, n) ==
  /\ run.len = n /\ Len(run.io.planes) = ch
  /\ \A i \in 1..n : h.p[m + i] = p
  /\ kind_ \notin Generating => /\ DOMAIN Input(run) = 1..ch
                                /\ AllFeed(Input(run), h.x, ch, m, n)
  /\ kind_ = "dynamics" =>
       \A i \in 1..n : /\ Level(HeardBy(k, h), m + i) \in Nat
                       /\ Level(Detector(k, run), i) = Level(HeardBy(k, h), m + i)

\* The part that a run reads, if none of it was overwritten.
LEMMA PartReads ==
  ASSUME NEW planes, NEW x, NEW m \in Nat, NEW n \in Nat, NEW first \in Nat,
         Reads(planes, x, m, n, first), NEW run, NEW start \in Nat, NEW len \in Nat,
         run.start = start, run.len = len, first <= start + 1, start + len <= n
  PROVE  Reads(Part(run, planes), x, m + start, len, 1)
  <1> DEFINE part == Part(run, planes)
  <1>1. DOMAIN part = DOMAIN x
        /\ \A c \in DOMAIN x : part[c] = SubSeq(planes[c], start + 1, start + len)
    BY DEF Part, Reads
  <1> HIDE DEF part
  <1>2. ASSUME NEW c \in DOMAIN x
        PROVE  /\ DOMAIN part[c] = 1..len
               /\ \A i \in 1..len : part[c][i] = x[c][(m + start) + i]
    <2>1. DOMAIN planes[c] = 1..n /\ \A i \in first..n : planes[c][i] = x[c][m + i]
      BY DEF Reads
    <2> DEFINE s == planes[c]
    <2> HIDE DEF s
    <2>2. DOMAIN part[c] = 1..len /\ \A i \in 1..len : part[c][i] = s[i + start]
      <3>1. part[c] = SubSeq(s, start + 1, start + len)
        BY <1>1 DEF s
      <3>2. DOMAIN s = 1..n
        BY <2>1 DEF s
      <3>. QED
        BY <3>1, <3>2
    <2>3. ASSUME NEW i \in 1..len
          PROVE  s[i + start] = x[c][(m + start) + i]
      <3>1. i + start \in first..n /\ m + (i + start) = (m + start) + i
        BY <2>3
      <3>2. s[i + start] = x[c][m + (i + start)]
        BY <2>1, <3>1 DEF s
      <3>. QED
        BY <3>1, <3>2
    <2>. QED
      BY <2>2, <2>3
  <1>3. Reads(part, x, m + start, len, 1)
    BY <1>1, <1>2 DEF Reads
  <1>. QED
    BY <1>3 DEF part

\* What was not overwritten is read as it was.
LEMMA WrittenReads ==
  ASSUME NEW io, "planes" \in DOMAIN io, NEW x, NEW m \in Nat, NEW n \in Nat,
         Reads(io.planes, x, m, n, 1), NEW run, run.io = io, run.start = 0, NEW len \in Nat,
         run.len = len, NEW planes
  PROVE  Reads(Written(run, planes).planes, x, m, n, len + 1)
  <1> DEFINE new == Written(run, planes).planes
             old == io.planes
  <1>1. new = [c \in DOMAIN old |->
                 [i \in DOMAIN old[c] |-> IF i - 0 \in 1..len THEN planes[c][i - 0] ELSE old[c][i]]]
    BY DEF Written
  <1>2. /\ DOMAIN old = DOMAIN x
        /\ \A c \in DOMAIN x : /\ DOMAIN old[c] = 1..n
                               /\ \A i \in 1..n : old[c][i] = x[c][m + i]
    BY DEF Reads
  <1> HIDE DEF new, old
  <1>3. DOMAIN new = DOMAIN x /\ \A c \in DOMAIN x : DOMAIN new[c] = 1..n
    BY <1>1, <1>2
  <1>4. ASSUME NEW c \in DOMAIN x, NEW i \in (len + 1)..n
        PROVE  new[c][i] = x[c][m + i]
    <2>1. i \in 1..n /\ i - 0 \notin 1..len
      OBVIOUS
    <2>2. new[c][i] = old[c][i]
      BY <1>1, <1>2, <2>1
    <2>. QED
      BY <1>2, <2>1, <2>2
  <1>5. Reads(new, x, m, n, len + 1)
    BY <1>3, <1>4 DEF Reads
  <1>. QED
    BY <1>5 DEF new

\* Levels are read as they are.
LEMMA LevelReads ==
  ASSUME NEW planes, NEW x, NEW m \in Nat, NEW n \in Nat, Reads(planes, x, m, n, 1),
         NEW i \in 1..n
  PROVE  Level(planes, i) = Level(x, m + i)
  <1>1. DOMAIN planes = DOMAIN x /\ \A c \in DOMAIN x : planes[c][i] = x[c][m + i]
    BY DEF Reads
  <1>2. {Magnitude(FiniteOrZero(planes[c][i])) : c \in DOMAIN planes}
          = {Magnitude(FiniteOrZero(x[c][m + i])) : c \in DOMAIN x}
    BY <1>1
  <1>. QED
    BY <1>2, Zenon DEF Level

\* What is read of a history feeds.
LEMMA ReadsFeed ==
  ASSUME NEW planes, NEW x, NEW ch \in Nat, NEW t \in Nat, Sampled(x, ch, t, 1), NEW m \in Nat,
         NEW n \in Nat, m + n <= t, Reads(planes, x, m, n, 1)
  PROVE  DOMAIN planes = 1..ch /\ AllFeed(planes, x, ch, m, n)
  <1>1. DOMAIN x = 1..ch
        /\ \A c \in 1..ch : \A i \in 1..t : FiniteOrZero(x[c][i]) \in Int
    BY DEF Sampled
  <1>2. DOMAIN planes = 1..ch
    BY <1>1 DEF Reads
  <1>3. ASSUME NEW c \in 1..ch
        PROVE  Feeds(planes[c], n, x, c, m)
    <2>1. DOMAIN planes[c] = 1..n /\ \A i \in 1..n : planes[c][i] = x[c][m + i]
      BY <1>1 DEF Reads
    <2>2. ASSUME NEW i \in 1..n
          PROVE  FiniteOrZero(planes[c][i]) = At(x, c, m + i)
      <3>1. ~ (m + i < 1)
        OBVIOUS
      <3>2. At(x, c, m + i) = FiniteOrZero(x[c][m + i])
        BY <3>1, Zenon DEF At
      <3>. QED
        BY <2>1, <3>2
    <2>3. ASSUME NEW i \in 1..(m + n)
          PROVE  At(x, c, i) \in Int
      <3>1. ~ (i < 1) /\ i \in 1..t
        OBVIOUS
      <3>2. At(x, c, i) = FiniteOrZero(x[c][i])
        BY <3>1, Zenon DEF At
      <3>. QED
        BY <1>1, <3>1, <3>2
    <2>. QED
      BY <2>1, <2>2, <2>3, Zenon DEF Feeds, Known
  <1>. QED
    BY <1>2, <1>3 DEF AllFeed

\* From its first-th frame on, a context of n frames has what the history h has after its m-th.
Offers(kind_, k, ctx, h, ch, m, n, first) ==
  /\ {"main", "sidechain", "frames"} \subseteq DOMAIN ctx
  /\ {"mode", "planes"} \subseteq DOMAIN ctx.main
  /\ DOMAIN ctx.main.planes = 1..ch /\ \A c \in 1..ch : DOMAIN ctx.main.planes[c] = 1..n
  /\ kind_ = "average" => /\ ctx.main.mode = "Split" /\ "input" \in DOMAIN ctx.main
                          /\ Reads(ctx.main.input, h.x, m, n, first)
  /\ kind_ \notin {"average"} \cup Generating =>
       ctx.main.mode = "InPlace" /\ Reads(ctx.main.planes, h.x, m, n, first)
  /\ kind_ = "dynamics" /\ k.use_sidechain =>
       ctx.sidechain # <<>> /\ Reads(ctx.sidechain[1], h.sidechain, m, n, first)

\* So the run of len frames from start on is the history's there.
LEMMA RunPlays ==
  ASSUME NEW kind_, NEW k, NEW ctx, NEW h, NEW ch \in Nat, NEW t \in Nat,
         Chronicle(kind_, k, h, ch, t), NEW m \in Nat, NEW n \in Nat, m + n <= t,
         NEW first \in Nat, Offers(kind_, k, ctx, h, ch, m, n, first),
         NEW start \in Nat, NEW len \in Nat, first <= start + 1, start + len <= n,
         NEW p, \A i \in 1..len : h.p[(m + start) + i] = p
  PROVE  Plays(kind_, k, Run(ctx, start, len), p, h, ch, m + start, len)
  <1> DEFINE run == Run(ctx, start, len)
             at == m + start
  <1>1. run.start = start /\ run.len = len /\ run.io = ctx.main /\ run.sc = ctx.sidechain
    BY DEF Run
  <1>2. at \in Nat /\ at + len <= t
    OBVIOUS
  <1>3. Sampled(h.x, ch, t, 1)
        /\ (kind_ = "dynamics" /\ k.use_sidechain => Sampled(h.sidechain, 1, t, 1))
    BY DEF Chronicle
  <1>4. Len(run.io.planes) = ch
    <2>1. DOMAIN ctx.main.planes = 1..ch
      BY Zenon DEF Offers
    <2>. QED
      BY <1>1, <2>1, Length
  <1> HIDE DEF run
  <1>5. ASSUME NEW planes, NEW x, Reads(planes, x, m, n, first)
        PROVE  Reads(Part(run, planes), x, at, len, 1)
    BY <1>1, <1>5, PartReads
  <1> HIDE DEF at
  <1>6. ASSUME kind_ \notin Generating
        PROVE  Reads(Input(run), h.x, at, len, 1)
    <2>1. CASE kind_ = "average"
      <3>1. ctx.main.mode = "Split" /\ Reads(ctx.main.input, h.x, m, n, first)
        BY <2>1, Zenon DEF Offers
      <3>2. Input(run) = Part(run, ctx.main.input)
        BY <1>1, <3>1, Zenon DEF Input
      <3>. QED
        BY <1>5, <3>1, <3>2
    <2>2. CASE kind_ # "average"
      <3>1. ctx.main.mode = "InPlace" /\ Reads(ctx.main.planes, h.x, m, n, first)
        BY <1>6, <2>2, Zenon DEF Offers
      <3>2. "InPlace" # "Split"
        OBVIOUS
      <3>3. Input(run) = Part(run, ctx.main.planes)
        BY <1>1, <3>1, <3>2, Zenon DEF Input
      <3>. QED
        BY <1>5, <3>1, <3>3
    <2>. QED
      BY <2>1, <2>2
  <1>7. kind_ \notin Generating => DOMAIN Input(run) = 1..ch /\ AllFeed(Input(run), h.x, ch, at, len)
    BY <1>2, <1>3, <1>6, ReadsFeed
  <1>8. ASSUME kind_ = "dynamics", NEW i \in 1..len
        PROVE  /\ Level(HeardBy(k, h), at + i) \in Nat
               /\ Level(Detector(k, run), i) = Level(HeardBy(k, h), at + i)
    <2>1. at + i \in 1..t
      BY <1>2
    <2>2. ASSUME NEW x, NEW o \in Nat, Sampled(x, o, t, 1)
          PROVE  Level(x, at + i) \in Nat
      <3>1. DOMAIN x = 1..o /\ \A c \in 1..o : FiniteOrZero(x[c][at + i]) \in Int
        BY <2>1, <2>2 DEF Sampled
      <3>. QED
        BY <3>1, LevelTyped
    <2>3. CASE k.use_sidechain
      <3>1. ctx.sidechain # <<>> /\ Reads(ctx.sidechain[1], h.sidechain, m, n, first)
        BY <1>8, <2>3, Zenon DEF Offers
      <3>2. Detector(k, run) = Part(run, ctx.sidechain[1])
        BY <1>1, <2>3, <3>1, Zenon DEF Detector, Sidechain
      <3>3. Level(Detector(k, run), i) = Level(h.sidechain, at + i)
        BY <1>2, <1>5, <3>1, <3>2, LevelReads
      <3>4. Level(h.sidechain, at + i) \in Nat
        BY <1>3, <1>8, <2>2, <2>3
      <3>. QED
        BY <2>3, <3>3, <3>4 DEF HeardBy
    <2>4. CASE ~ k.use_sidechain
      <3>1. Detector(k, run) = Input(run)
        BY <2>4, Zenon DEF Detector
      <3>2. kind_ \notin Generating
        BY <1>8 DEF Generating
      <3>3. Level(Detector(k, run), i) = Level(h.x, at + i)
        BY <1>2, <1>6, <3>1, <3>2, LevelReads
      <3>4. Level(h.x, at + i) \in Nat
        BY <1>3, <2>2
      <3>. QED
        BY <2>4, <3>3, <3>4 DEF HeardBy
    <2>. QED
      BY <2>3, <2>4
  <1>9. \A i \in 1..len : h.p[at + i] = p
    BY DEF at
  <1>10. Plays(kind_, k, run, p, h, ch, at, len)
    BY <1>1, <1>4, <1>7, <1>8, <1>9, Zenon DEF Plays
  <1>. QED
    BY <1>10 DEF at, run

\* After a run the rest of the block is still to be read.
LEMMA NextOffers ==
  ASSUME NEW kind_, NEW k, NEW j, kind_ = "dynamics" => j.use_sidechain = k.use_sidechain,
         NEW ctx, NEW h, NEW ch \in Nat, NEW m \in Nat, NEW n \in Nat,
         Offers(kind_, k, ctx, h, ch, m, n, 1),
         NEW len \in Nat, NEW planes, NEW more,
         more = [ctx EXCEPT !.main = Written(Run(ctx, 0, len), planes)]
  PROVE  Offers(kind_, j, more, h, ch, m, n, len + 1)
  <1> DEFINE run == Run(ctx, 0, len)
             io == Written(run, planes)
  <1>1. run.io = ctx.main /\ run.start = 0 /\ run.len = len
    BY DEF Run
  <1>2. /\ {"main", "sidechain", "frames"} \subseteq DOMAIN ctx
        /\ {"mode", "planes"} \subseteq DOMAIN ctx.main
        /\ DOMAIN ctx.main.planes = 1..ch /\ \A c \in 1..ch : DOMAIN ctx.main.planes[c] = 1..n
    BY DEF Offers
  <1> HIDE DEF run
  <1>3. /\ DOMAIN io = DOMAIN ctx.main
        /\ \A f \in DOMAIN ctx.main : f # "planes" => io[f] = ctx.main[f]
    <2>1. \E new : io = [ctx.main EXCEPT !.planes = new]
      BY <1>1, Zenon DEF Written
    <2>. QED
      BY <2>1
  <1>4. more = [ctx EXCEPT !.main = io]
    BY DEF run
  <1>5. ASSUME NEW x, Reads(ctx.main.planes, x, m, n, 1)
        PROVE  Reads(io.planes, x, m, n, len + 1)
    BY <1>1, <1>2, <1>5, WrittenReads
  <1>6. DOMAIN io.planes = 1..ch /\ \A c \in 1..ch : DOMAIN io.planes[c] = 1..n
    <2> DEFINE old == ctx.main.planes
    <2> DEFINE g == [c \in DOMAIN old |-> [i \in DOMAIN old[c] |->
                       IF i - run.start \in 1..run.len THEN planes[c][i - run.start]
                       ELSE old[c][i]]]
    <2>1. io.planes = g
      BY <1>1, <1>2 DEF Written
    <2> HIDE DEF old
    <2>2. DOMAIN g = DOMAIN old /\ \A c \in DOMAIN old : DOMAIN g[c] = DOMAIN old[c]
      OBVIOUS
    <2> HIDE DEF g, io
    <2>3. DOMAIN old = 1..ch /\ \A c \in 1..ch : DOMAIN old[c] = 1..n
      BY <1>2 DEF old
    <2>. QED
      BY <2>1, <2>2, <2>3
  <1> HIDE DEF io
  <1>7. more.main = io /\ more.sidechain = ctx.sidechain /\ DOMAIN more = DOMAIN ctx
    BY <1>2, <1>4
  <1>8. ASSUME NEW s, NEW x, Reads(s, x, m, n, 1)
        PROVE  Reads(s, x, m, n, len + 1)
    BY <1>8 DEF Reads
  <1>9. ASSUME kind_ = "average"
        PROVE  /\ more.main.mode = "Split" /\ "input" \in DOMAIN more.main
               /\ Reads(more.main.input, h.x, m, n, len + 1)
    <2>1. /\ ctx.main.mode = "Split" /\ "input" \in DOMAIN ctx.main
          /\ Reads(ctx.main.input, h.x, m, n, 1)
      BY <1>9, Zenon DEF Offers
    <2>2. more.main.mode = "Split" /\ "input" \in DOMAIN more.main
      BY <1>2, <1>3, <1>7, <2>1
    <2>3. more.main.input = ctx.main.input
      BY <1>3, <1>7, <2>1
    <2>. QED
      BY <1>8, <2>1, <2>2, <2>3
  <1>10. ASSUME kind_ \notin {"average"} \cup Generating
         PROVE  more.main.mode = "InPlace" /\ Reads(more.main.planes, h.x, m, n, len + 1)
    <2>1. ctx.main.mode = "InPlace" /\ Reads(ctx.main.planes, h.x, m, n, 1)
      BY <1>10, Zenon DEF Offers
    <2>2. more.main.mode = ctx.main.mode
      BY <1>2, <1>3, <1>7
    <2>. QED
      BY <1>5, <1>7, <2>1, <2>2
  <1>11. ASSUME kind_ = "dynamics", j.use_sidechain
         PROVE  more.sidechain # <<>> /\ Reads(more.sidechain[1], h.sidechain, m, n, len + 1)
    <2>1. ctx.sidechain # <<>> /\ Reads(ctx.sidechain[1], h.sidechain, m, n, 1)
      BY <1>11, Zenon DEF Offers
    <2>. QED
      BY <1>7, <1>8, <2>1
  <1>12. /\ {"main", "sidechain", "frames"} \subseteq DOMAIN more
         /\ {"mode", "planes"} \subseteq DOMAIN more.main
         /\ DOMAIN more.main.planes = 1..ch /\ \A c \in 1..ch : DOMAIN more.main.planes[c] = 1..n
    BY <1>2, <1>3, <1>6, <1>7
  <1>. QED
    BY <1>9, <1>10, <1>11, <1>12, Zenon DEF Offers

\* z is the m elements of s and the n of t.
Chains(z, s, t, m, n) == DOMAIN s = 1..m /\ DOMAIN t = 1..n /\ z = s \o t

\* A sequence followed by another.
LEMMA JoinedPlane ==
  ASSUME NEW m \in Nat, NEW n \in Nat, NEW s, NEW t, NEW z, Chains(z, s, t, m, n)
  PROVE  /\ DOMAIN z = 1..(m + n)
         /\ \A i \in 1..m : z[i] = s[i]
         /\ \A i \in 1..n : z[m + i] = t[i]
  <1>1. DOMAIN s = 1..m /\ DOMAIN t = 1..n /\ z = s \o t /\ Len(s) = m /\ Len(t) = n
    BY Length DEF Chains
  <1>2. DOMAIN z = 1..(m + n)
    BY <1>1
  <1>3. ASSUME NEW i \in 1..m PROVE z[i] = s[i]
    BY <1>1
  <1>4. ASSUME NEW i \in 1..n PROVE z[m + i] = t[i]
    BY <1>1
  <1>. QED
    BY <1>2, <1>3, <1>4

\* x has the first m frames of z.
Began(z, x, m) == DOMAIN z = DOMAIN x /\ \A c \in DOMAIN x : \A i \in 1..m : z[c][i] = x[c][i]

\* What was heard before and what follows.
LEMMA JoinedReads ==
  ASSUME NEW ch \in Nat, NEW m \in Nat, NEW n \in Nat, NEW x, Sampled(x, ch, m, 1),
         NEW more, Sampled(more, ch, n, 1), NEW z, z = Joined(x, more)
  PROVE  /\ Sampled(z, ch, m + n, 1)
         /\ Reads(more, z, m, n, 1)
         /\ Began(z, x, m)
  <1>1. /\ DOMAIN x = 1..ch /\ DOMAIN more = 1..ch
        /\ \A c \in 1..ch : /\ DOMAIN x[c] = 1..m /\ DOMAIN more[c] = 1..n
                            /\ \A i \in 1..m : FiniteOrZero(x[c][i]) \in Int
                            /\ \A i \in 1..n : FiniteOrZero(more[c][i]) \in Int
    BY DEF Sampled
  <1>2. DOMAIN z = 1..ch /\ \A c \in 1..ch : z[c] = x[c] \o more[c]
    BY <1>1 DEF Joined
  <1>3. ASSUME NEW c \in 1..ch
        PROVE  /\ DOMAIN z[c] = 1..(m + n)
               /\ \A i \in 1..m : z[c][i] = x[c][i]
               /\ \A i \in 1..n : z[c][m + i] = more[c][i]
    <2> DEFINE s == x[c]
               t == more[c]
               y == z[c]
    <2>1. Chains(y, s, t, m, n)
      BY <1>1, <1>2 DEF Chains
    <2> HIDE DEF s, t, y
    <2>2. /\ DOMAIN y = 1..(m + n)
          /\ \A i \in 1..m : y[i] = s[i]
          /\ \A i \in 1..n : y[m + i] = t[i]
      BY <2>1, JoinedPlane
    <2>. QED
      BY <2>2 DEF s, t, y
  <1>4. ASSUME NEW c \in 1..ch, NEW i \in 1..(m + n)
        PROVE  FiniteOrZero(z[c][i]) \in Int
    <2>1. CASE i <= m
      <3>1. i \in 1..m
        BY <2>1
      <3>. QED
        BY <1>1, <1>3, <3>1
    <2>2. CASE i > m
      <3>1. i - m \in 1..n /\ m + (i - m) = i
        BY <2>2
      <3>2. z[c][i] = more[c][i - m]
        BY <1>3, <3>1
      <3>. QED
        BY <1>1, <3>1, <3>2
    <2>. QED
      BY <2>1, <2>2
  <1>5. Sampled(z, ch, m + n, 1)
    BY <1>2, <1>3, <1>4 DEF Sampled
  <1>6. Reads(more, z, m, n, 1)
    BY <1>1, <1>2, <1>3 DEF Reads
  <1>7. Began(z, x, m)
    BY <1>1, <1>2, <1>3 DEF Began
  <1>. QED
    BY <1>5, <1>6, <1>7

\* What the history is after a block.
AfterBlock(ctx, cut, p, q) ==
  [x |-> Joined(fed.x, HeardOf(ctx)),
   sidechain |-> IF ctx.sidechain = <<>> THEN fed.sidechain
                 ELSE Joined(fed.sidechain, ctx.sidechain[1]),
   p |-> fed.p \o [i \in 1..ctx.frames |-> IF i <= cut THEN p ELSE q]]

\* Two histories are the same up to their m-th frame.
Agree(h, g, m) ==
  /\ Began(h.x, g.x, m) /\ Began(h.sidechain, g.sidechain, m)
  /\ \A i \in 1..m : h.p[i] = g.p[i]

\* A host's block, of the shape that was prepared.
LEMMA ContextIs ==
  ASSUME kind \in KernelKinds, Formed(kind, kernel), Samples[kind] \subseteq Int \cup {NotFinite},
         NEW ch \in Nat, prepared.channels = ch, prepared.io_mode = IoMode,
         prepared.sidechain_inputs = SidechainInputs,
         NEW n \in Nat, NEW ctx \in Contexts(n), HonorsContract(ctx), ctx.frames # 0
  PROVE  /\ {"main", "sidechain", "frames"} \subseteq DOMAIN ctx
         /\ {"mode", "planes"} \subseteq DOMAIN ctx.main /\ ctx.frames = n
         /\ DOMAIN ctx.main.planes = 1..ch /\ \A c \in 1..ch : DOMAIN ctx.main.planes[c] = 1..n
         /\ kind = "average" => /\ ctx.main.mode = "Split" /\ "input" \in DOMAIN ctx.main
                                /\ HeardOf(ctx) = ctx.main.input
         /\ kind \notin {"average"} \cup Generating =>
              ctx.main.mode = "InPlace" /\ HeardOf(ctx) = ctx.main.planes
         /\ Sampled(HeardOf(ctx), ch, n, 1)
         /\ IF kind = "dynamics" /\ kernel.use_sidechain
            THEN ctx.sidechain # <<>> /\ Sampled(ctx.sidechain[1], 1, n, 1)
            ELSE ctx.sidechain = <<>>
  <1> DEFINE Blocks == Planes(ch, n)
             Main(c) == \/ IoMode = "InPlace" /\ \E x \in Blocks : c = InPlace(x)
                        \/ IoMode = "Split" /\ \E x \in Blocks : c = Split(x)
                        \/ IoMode = "OutputOnly" /\ c = OutputOnly(ch, n)
  <1>1. /\ IoMode \in {"InPlace", "Split", "OutputOnly"}
        /\ (kind = "average" <=> IoMode = "Split")
        /\ (kind \in Generating <=> IoMode = "OutputOnly")
    BY DEF IoMode, Generating
  <1>2. PICK main : /\ Main(main)
                    /\ \/ SidechainInputs = 0 /\ ctx = main
                       \/ SidechainInputs # 0 /\ \E key \in Planes(1, n) : ctx = WithSidechains(main, <<key>>)
    <2> HIDE DEF Blocks
    <2>1. CASE IoMode = "InPlace"
      BY <2>1 DEF Contexts, Blocks
    <2>2. CASE IoMode = "Split"
      BY <2>2 DEF Contexts, Blocks
    <2>3. CASE IoMode = "OutputOnly"
      BY <2>3 DEF Contexts, Blocks
    <2>. QED
      BY <1>1, <2>1, <2>2, <2>3
  <1>3. ASSUME NEW x \in Blocks
        PROVE  /\ FramesOf(x) \in {0, n} /\ Sampled(x, ch, n, 1)
               /\ DOMAIN x = 1..ch /\ \A c \in 1..ch : DOMAIN x[c] = 1..n
               /\ Len(x) = ch
    <2>1. x \in [1..ch -> [1..n -> Samples[kind]]]
      BY DEF Planes
    <2>2. DOMAIN x = 1..ch
      BY <2>1
    <2>. QED
      BY <2>1, <2>2, PlanesSampled, Length
  <1> HIDE DEF Blocks
  <1>4. /\ DOMAIN main = {"main", "sidechain", "frames"}
        /\ {"mode", "planes"} \subseteq DOMAIN main.main /\ main.sidechain = <<>>
        /\ main.frames = FramesOf(main.main.planes)
        /\ IoMode = "Split" =>
             /\ main.main.mode = "Split" /\ "input" \in DOMAIN main.main
             /\ main.main.input \in Blocks
             /\ main.main.planes = Unwritten(Len(main.main.input), FramesOf(main.main.input))
        /\ IoMode = "InPlace" => main.main.mode = "InPlace" /\ main.main.planes \in Blocks
        /\ IoMode = "OutputOnly" => /\ main.main.mode = "OutputOnly"
                                    /\ main.main.planes = Unwritten(ch, n)
    BY <1>1, <1>2 DEF InPlace, Split, OutputOnly, FromIo
  <1>5. /\ DOMAIN ctx = DOMAIN main /\ ctx.main = main.main /\ ctx.frames = main.frames
        /\ SidechainInputs = 0 => ctx.sidechain = <<>>
        /\ SidechainInputs # 0 => \E key \in Planes(1, n) : ctx.sidechain = <<key>>
    BY <1>2, <1>4 DEF WithSidechains
  <1>6. ASSUME NEW o \in Nat
        PROVE  /\ FramesOf(Unwritten(o, n)) \in {0, n}
               /\ DOMAIN Unwritten(o, n) = 1..o /\ Len(Unwritten(o, n)) = o
               /\ \A c \in 1..o : DOMAIN Unwritten(o, n)[c] = 1..n
    <2> DEFINE x == Unwritten(o, n)
    <2>1. x \in [1..o -> [1..n -> {"unwritten"}]]
      BY DEF Unwritten
    <2> HIDE DEF x
    <2>2. FramesOf(x) \in {0, n} /\ DOMAIN x = 1..o /\ \A c \in 1..o : DOMAIN x[c] = 1..n
      BY <2>1, PlanesSampled
    <2>3. Len(x) = o
      BY <2>2, Length
    <2>. QED
      BY <2>2, <2>3 DEF x
  <1>7. /\ ctx.frames = n
        /\ DOMAIN ctx.main.planes = 1..ch /\ \A c \in 1..ch : DOMAIN ctx.main.planes[c] = 1..n
    <2>1. CASE IoMode = "InPlace"
      BY <1>3, <1>4, <1>5, <2>1
    <2>2. CASE IoMode = "Split"
      <3>1. FramesOf(ctx.main.input) = ctx.frames
        BY <1>4, <1>5, <2>2 DEF HonorsContract
      <3>2. FramesOf(ctx.main.input) = n /\ Len(ctx.main.input) = ch
        BY <1>3, <1>4, <1>5, <2>2, <3>1
      <3>3. ctx.main.planes = Unwritten(ch, n)
        BY <1>4, <1>5, <2>2, <3>2
      <3>. QED
        BY <1>6, <3>1, <3>2, <3>3
    <2>3. CASE IoMode = "OutputOnly"
      BY <1>4, <1>5, <1>6, <2>3
    <2>. QED
      BY <1>1, <2>1, <2>2, <2>3
  <1>8. /\ IoMode = "Split" => HeardOf(ctx) = ctx.main.input
        /\ IoMode = "InPlace" => HeardOf(ctx) = ctx.main.planes
        /\ IoMode = "OutputOnly" => HeardOf(ctx) = Silence(ch, n)
    <2>1. CASE IoMode = "Split"
      BY <1>4, <1>5, <2>1 DEF HeardOf
    <2>2. CASE IoMode = "InPlace"
      BY <1>4, <1>5, <2>2 DEF HeardOf
    <2>3. CASE IoMode = "OutputOnly"
      <3>1. Len(ctx.main.planes) = ch /\ ctx.frames = n
        BY <1>7, Length
      <3>. QED
        BY <1>4, <1>5, <2>3, <3>1 DEF HeardOf
    <2>. QED
      BY <1>1, <2>1, <2>2, <2>3
  <1>9. Sampled(HeardOf(ctx), ch, n, 1)
    BY <1>1, <1>3, <1>4, <1>5, <1>8, SilenceSampled
  <1>10. IF kind = "dynamics" /\ kernel.use_sidechain
         THEN ctx.sidechain # <<>> /\ Sampled(ctx.sidechain[1], 1, n, 1)
         ELSE ctx.sidechain = <<>>
    <2>1. CASE kind = "dynamics" /\ kernel.use_sidechain
      <3>1. PICK key \in Planes(1, n) : ctx.sidechain = <<key>>
        BY <1>5, <2>1 DEF SidechainInputs
      <3>2. Sampled(key, 1, n, 1)
        <4> DEFINE one == 1
        <4>1. one \in Nat /\ key \in [1..one -> [1..n -> Samples[kind]]]
          BY <3>1 DEF Planes
        <4> HIDE DEF one
        <4>2. Sampled(key, one, n, 1)
          BY <4>1, PlanesSampled
        <4>. QED
          BY <4>2 DEF one
      <3>. QED
        BY <2>1, <3>1, <3>2
    <2>2. CASE ~ (kind = "dynamics" /\ kernel.use_sidechain)
      BY <1>5, <2>2 DEF SidechainInputs
    <2>. QED
      BY <2>1, <2>2
  <1>11. /\ {"main", "sidechain", "frames"} \subseteq DOMAIN ctx
         /\ {"mode", "planes"} \subseteq DOMAIN ctx.main
    BY <1>4, <1>5
  <1>12. kind = "average" => /\ ctx.main.mode = "Split" /\ "input" \in DOMAIN ctx.main
                             /\ HeardOf(ctx) = ctx.main.input
    BY <1>1, <1>4, <1>5, <1>8
  <1>13. kind \notin {"average"} \cup Generating =>
           ctx.main.mode = "InPlace" /\ HeardOf(ctx) = ctx.main.planes
    BY <1>1, <1>4, <1>5, <1>8
  <1>. QED
    BY <1>7, <1>9, <1>10, <1>11, <1>12, <1>13

\* A block of n frames is what the history h has after the m frames there were.
BlockIs(ctx, h, ch, m, n, cut, p, q) ==
  /\ ctx.frames = n
  /\ Offers(kind, kernel, ctx, h, ch, m, n, 1)
  /\ Chronicle(kind, kernel, h, ch, m + n)
  /\ Agree(h, fed, m)
  /\ \A i \in 1..n : h.p[m + i] = IF i <= cut THEN p ELSE q

\* A block is what the history it leaves has after the one it found.
LEMMA BlockOffers ==
  ASSUME kind \in KernelKinds, Formed(kind, kernel), Samples[kind] \subseteq Int \cup {NotFinite},
         NEW ch \in Nat, prepared.channels = ch, prepared.io_mode = IoMode,
         prepared.sidechain_inputs = SidechainInputs,
         NEW n \in Nat, NEW ctx \in Contexts(n), HonorsContract(ctx), ctx.frames # 0,
         NEW m \in Nat, Chronicle(kind, kernel, fed, ch, m), NEW cut, NEW p, NEW q,
         NEW h, h = AfterBlock(ctx, cut, p, q)
  PROVE  BlockIs(ctx, h, ch, m, n, cut, p, q)
  <1>1. /\ {"main", "sidechain", "frames"} \subseteq DOMAIN ctx
        /\ {"mode", "planes"} \subseteq DOMAIN ctx.main /\ ctx.frames = n
        /\ DOMAIN ctx.main.planes = 1..ch /\ \A c \in 1..ch : DOMAIN ctx.main.planes[c] = 1..n
        /\ kind = "average" => /\ ctx.main.mode = "Split" /\ "input" \in DOMAIN ctx.main
                               /\ HeardOf(ctx) = ctx.main.input
        /\ kind \notin {"average"} \cup Generating =>
             ctx.main.mode = "InPlace" /\ HeardOf(ctx) = ctx.main.planes
        /\ Sampled(HeardOf(ctx), ch, n, 1)
        /\ IF kind = "dynamics" /\ kernel.use_sidechain
           THEN ctx.sidechain # <<>> /\ Sampled(ctx.sidechain[1], 1, n, 1)
           ELSE ctx.sidechain = <<>>
    BY ContextIs
  <1>2. /\ DOMAIN fed.p = 1..m /\ Sampled(fed.x, ch, m, 1)
        /\ kind = "dynamics" /\ kernel.use_sidechain => Sampled(fed.sidechain, 1, m, 1)
    BY DEF Chronicle
  <1>3. /\ h.x = Joined(fed.x, HeardOf(ctx))
        /\ h.sidechain = IF ctx.sidechain = <<>> THEN fed.sidechain
                         ELSE Joined(fed.sidechain, ctx.sidechain[1])
        /\ h.p = fed.p \o [i \in 1..ctx.frames |-> IF i <= cut THEN p ELSE q]
    BY DEF AfterBlock
  <1>4. /\ Sampled(h.x, ch, m + n, 1) /\ Reads(HeardOf(ctx), h.x, m, n, 1)
        /\ Began(h.x, fed.x, m)
    BY <1>1, <1>2, <1>3, JoinedReads
  <1>5. CASE kind = "dynamics" /\ kernel.use_sidechain
    <2> DEFINE one == 1
               key == ctx.sidechain[1]
    <2>1. /\ one \in Nat /\ Sampled(fed.sidechain, one, m, 1) /\ Sampled(key, one, n, 1)
          /\ h.sidechain = Joined(fed.sidechain, key)
      BY <1>1, <1>2, <1>3, <1>5
    <2> HIDE DEF one, key
    <2>. QED
      <3>1. /\ Sampled(h.sidechain, one, m + n, 1) /\ Reads(key, h.sidechain, m, n, 1)
            /\ Began(h.sidechain, fed.sidechain, m)
        BY <2>1, JoinedReads
      <3>2. /\ Sampled(h.sidechain, 1, m + n, 1) /\ Reads(ctx.sidechain[1], h.sidechain, m, n, 1)
            /\ Began(h.sidechain, fed.sidechain, m) /\ ctx.sidechain # <<>>
        BY <1>1, <1>5, <3>1 DEF one, key
      <3> DEFINE ps == [i \in 1..n |-> IF i <= cut THEN p ELSE q]
      <3>3. h.p = fed.p \o ps /\ DOMAIN ps = 1..n
        BY <1>1, <1>3
      <3>4. \A i \in 1..n : ps[i] = IF i <= cut THEN p ELSE q
        OBVIOUS
      <3> HIDE DEF ps
      <3>5. /\ DOMAIN h.p = 1..(m + n) /\ \A i \in 1..m : h.p[i] = fed.p[i]
            /\ \A i \in 1..n : h.p[m + i] = ps[i]
        <4> DEFINE s == fed.p
                   z == h.p
        <4>1. Chains(z, s, ps, m, n)
          BY <1>2, <3>3 DEF Chains
        <4> HIDE DEF s, z
        <4>2. /\ DOMAIN z = 1..(m + n) /\ \A i \in 1..m : z[i] = s[i]
              /\ \A i \in 1..n : z[m + i] = ps[i]
          BY <4>1, JoinedPlane
        <4>. QED
          BY <4>2 DEF s, z
      <3>6. Chronicle(kind, kernel, h, ch, m + n)
        BY <1>4, <3>2, <3>5, Zenon DEF Chronicle
      <3>7. Agree(h, fed, m)
        BY <1>4, <3>2, <3>5, Zenon DEF Agree
      <3>8. kind # "average" /\ kind \notin Generating
        BY <1>5 DEF Generating
      <3>9. Offers(kind, kernel, ctx, h, ch, m, n, 1)
        BY <1>1, <1>4, <3>2, <3>8, Zenon DEF Offers
      <3>10. /\ ctx.frames = n
             /\ Offers(kind, kernel, ctx, h, ch, m, n, 1)
             /\ Chronicle(kind, kernel, h, ch, m + n)
             /\ Agree(h, fed, m)
             /\ \A i \in 1..n : h.p[m + i] = IF i <= cut THEN p ELSE q
        BY <1>1, <3>4, <3>5, <3>6, <3>7, <3>9
      <3>. QED
        BY <3>10, Zenon DEF BlockIs
  <1>6. CASE ~ (kind = "dynamics" /\ kernel.use_sidechain)
    <2>1. h.sidechain = fed.sidechain
      BY <1>1, <1>3, <1>6
    <2> DEFINE ps == [i \in 1..n |-> IF i <= cut THEN p ELSE q]
    <2>2. h.p = fed.p \o ps /\ DOMAIN ps = 1..n
      BY <1>1, <1>3
    <2>3. \A i \in 1..n : ps[i] = IF i <= cut THEN p ELSE q
      OBVIOUS
    <2> HIDE DEF ps
    <2>4. /\ DOMAIN h.p = 1..(m + n) /\ \A i \in 1..m : h.p[i] = fed.p[i]
          /\ \A i \in 1..n : h.p[m + i] = ps[i]
      <3> DEFINE s == fed.p
                 z == h.p
      <3>1. Chains(z, s, ps, m, n)
        BY <1>2, <2>2 DEF Chains
      <3> HIDE DEF s, z
      <3>2. /\ DOMAIN z = 1..(m + n) /\ \A i \in 1..m : z[i] = s[i]
            /\ \A i \in 1..n : z[m + i] = ps[i]
        BY <3>1, JoinedPlane
      <3>. QED
        BY <3>2 DEF s, z
    <2>5. Chronicle(kind, kernel, h, ch, m + n)
      BY <1>4, <1>6, <2>4, Zenon DEF Chronicle
    <2>6. Agree(h, fed, m)
      <3>1. Began(h.sidechain, fed.sidechain, m)
        BY <2>1 DEF Began
      <3>. QED
        BY <1>4, <2>4, <3>1, Zenon DEF Agree
    <2>7. Offers(kind, kernel, ctx, h, ch, m, n, 1)
      BY <1>1, <1>4, <1>6, Zenon DEF Offers
    <2>8. /\ ctx.frames = n
          /\ Offers(kind, kernel, ctx, h, ch, m, n, 1)
          /\ Chronicle(kind, kernel, h, ch, m + n)
          /\ Agree(h, fed, m)
          /\ \A i \in 1..n : h.p[m + i] = IF i <= cut THEN p ELSE q
      BY <1>1, <2>3, <2>4, <2>5, <2>6, <2>7
    <2>. QED
      BY <2>8, Zenon DEF BlockIs
  <1>. QED
    BY <1>5, <1>6

\* What the history is after a drain of f frames.
AfterFlush(f) ==
  [fed EXCEPT !.x = Joined(@, Silence(prepared.channels, f)),
              !.p = @ \o [i \in 1..f |-> LastOf(@)]]

\* n drained frames are what the history h has after the m frames there were.
DrainIs(h, ch, m, n) ==
  /\ Chronicle(kind, kernel, h, ch, m + n)
  /\ Agree(h, fed, m)
  /\ Reads(Silence(ch, n), h.x, m, n, 1)
  /\ \A i \in 1..n : h.p[m + i] = LastOf(fed.p)

\* A drain is silence, with the last parameters.
LEMMA DrainOffers ==
  ASSUME NEW ch \in Nat, prepared.channels = ch, NEW m \in Nat, Chronicle(kind, kernel, fed, ch, m),
         {"x", "sidechain", "p"} \subseteq DOMAIN fed,
         NEW n \in Nat, kind = "dynamics" => n = 0, NEW h, h = AfterFlush(n)
  PROVE  DrainIs(h, ch, m, n)
  <1>1. /\ DOMAIN fed.p = 1..m /\ Sampled(fed.x, ch, m, 1)
        /\ kind = "dynamics" /\ kernel.use_sidechain => Sampled(fed.sidechain, 1, m, 1)
    BY DEF Chronicle
  <1> DEFINE ps == [i \in 1..n |-> LastOf(fed.p)]
  <1>2. /\ h.x = Joined(fed.x, Silence(ch, n)) /\ h.sidechain = fed.sidechain
        /\ h.p = fed.p \o ps
    BY DEF AfterFlush
  <1>3. DOMAIN ps = 1..n /\ \A i \in 1..n : ps[i] = LastOf(fed.p)
    OBVIOUS
  <1> HIDE DEF ps
  <1>4. Sampled(Silence(ch, n), ch, n, 1)
    BY SilenceSampled
  <1>5. /\ Sampled(h.x, ch, m + n, 1) /\ Reads(Silence(ch, n), h.x, m, n, 1)
        /\ Began(h.x, fed.x, m)
    <2> DEFINE s == Silence(ch, n)
    <2>1. Sampled(s, ch, n, 1) /\ h.x = Joined(fed.x, s)
      BY <1>2, <1>4
    <2> HIDE DEF s
    <2>2. /\ Sampled(h.x, ch, m + n, 1) /\ Reads(s, h.x, m, n, 1) /\ Began(h.x, fed.x, m)
      BY <1>1, <2>1, JoinedReads
    <2>. QED
      BY <2>2 DEF s
  <1>6. /\ DOMAIN h.p = 1..(m + n) /\ \A i \in 1..m : h.p[i] = fed.p[i]
        /\ \A i \in 1..n : h.p[m + i] = ps[i]
    <2> DEFINE s == fed.p
               z == h.p
    <2>1. Chains(z, s, ps, m, n)
      BY <1>1, <1>2, <1>3 DEF Chains
    <2> HIDE DEF s, z
    <2>2. /\ DOMAIN z = 1..(m + n) /\ \A i \in 1..m : z[i] = s[i]
          /\ \A i \in 1..n : z[m + i] = ps[i]
      BY <2>1, JoinedPlane
    <2>. QED
      BY <2>2 DEF s, z
  <1>7. Began(h.sidechain, fed.sidechain, m)
    BY <1>2 DEF Began
  <1>8. Agree(h, fed, m)
    BY <1>5, <1>6, <1>7, Zenon DEF Agree
  <1>9. kind = "dynamics" /\ kernel.use_sidechain => Sampled(h.sidechain, 1, m + n, 1)
    <2>1. SUFFICES ASSUME kind = "dynamics", kernel.use_sidechain
                   PROVE  Sampled(h.sidechain, 1, m + n, 1)
      OBVIOUS
    <2>2. m + n = m
      BY <2>1
    <2>. QED
      BY <1>1, <1>2, <2>1, <2>2
  <1>10. Chronicle(kind, kernel, h, ch, m + n)
    BY <1>5, <1>6, <1>9, Zenon DEF Chronicle
  <1>11. \A i \in 1..n : h.p[m + i] = LastOf(fed.p)
    BY <1>3, <1>6
  <1>. QED
    BY <1>5, <1>8, <1>10, <1>11, Zenon DEF DrainIs

-----------------------------------------------------------------------------
(* What is right of a kernel, and of what it gives, is a matter of its history.  A recursive *)
(* filter's answer and an envelope are any function with their difference equation.         *)

\* Sample n of a recursive filter's answer y to the history h, by those before it.
NextAnswer(kind_, k, h, c, y, n) ==
  IF kind_ = "dc_blocker"
  THEN At(h.x, c, n) - At(h.x, c, n - 1) + Quotient(Pole(h.p[n][1], k.fs) * y[n - 1], Unit)
  ELSE LET co == RuntimeCoeffs(k, h.p[n])
       IN  Quotient(co.b0 * At(h.x, c, n) + co.b1 * At(h.x, c, n - 1) + co.b2 * At(h.x, c, n - 2)
                      - co.a1 * y[n - 1] - co.a2 * y[n - 2], co.a0)

\* y is channel c's answer to the first n frames of h.
Answers(kind_, k, h, c, y, n) ==
  /\ y[0] = 0 /\ y[-1] = 0
  /\ \A i \in 1..n : y[i] = NextAnswer(kind_, k, h, c, y, i)

\* The parameters of the n-th frame; before the first, the defaults.
ParamsAt(k, h, n) == IF n = 0 THEN BiquadDefaults(k) ELSE h.p[n]

\* What a recursive filter keeps of a channel.
StatesOf(kind_) == IF kind_ = "dc_blocker" THEN [x1 : Int, y1 : Int]
                   ELSE [x1 : Int, x2 : Int, y1 : Int, y2 : Int]

\* The state after the n-th frame of channel c.
StateRight(kind_, k, h, c, s, n) ==
  /\ s \in StatesOf(kind_)
  /\ s.x1 = At(h.x, c, n)
  /\ \A y : Answers(kind_, k, h, c, y, n) => s.y1 = y[n]
  /\ kind_ = "biquad" => /\ s.x2 = At(h.x, c, n - 1)
                         /\ \A y : Answers(kind_, k, h, c, y, n) => s.y2 = y[n - 1]

StatesRight(kind_, k, h, ch, n) ==
  /\ \A c \in 1..ch : StateRight(kind_, k, h, c, k.state[c], n)
  /\ kind_ = "dc_blocker" =>
       k.flush_r = Pole(IF n = 0 THEN FiniteOrZero(k.params[1].default) ELSE h.p[n][1], k.fs)
  /\ kind_ = "biquad" => k.flush_coeffs = RuntimeCoeffs(k, ParamsAt(k, h, n))

\* e is the envelope of the first n frames.
Follows(k, h, e, n) ==
  e[0] = 0 /\ \A i \in 1..n : e[i] = Follow(k, e[i - 1], Level(HeardBy(k, h), i))

\* The sum of an oscillator's increments in the first n frames.
PhaseOf(k, h, n) == MapThenSumSet(LAMBDA i : Increment(k, h.p[i][1]), 1..n)

\* Each channel has drawn n numbers.
DrawsRight(k, ch, n) ==
  \A c \in 1..ch : /\ {"seed", "draws"} \subseteq DOMAIN k.rngs[c] /\ k.rngs[c].draws = n

\* What a kernel has made of the first n frames.
Right(kind_, k, h, ch, n) ==
  /\ kind_ = "average" => AveragesRight(k, h.x, ch, n)
  /\ kind_ \in Filters => StatesRight(kind_, k, h, ch, n)
  /\ kind_ = "dynamics" => \A e : Follows(k, h, e, n) => k.env = e[n]
  /\ kind_ = "oscillator" => k.phase = PhaseOf(k, h, n) % Cycle
  /\ kind_ = "noise" => DrawsRight(k, ch, n)
  /\ kind_ = "dither" => DrawsRight(k, ch, 2 * n)

\* v is what channel c is to give at frame n.
OkAt(kind_, k, h, c, n, v) ==
  /\ kind_ = "average" => Magnitude(v - RecentOf(h.x, k.taps, c, n)) <= k.taps - 1
  /\ kind_ \in Filters => \A y : Answers(kind_, k, h, c, y, n) => v = y[n]
  /\ kind_ = "dynamics" =>
       \A e : Follows(k, h, e, n) => v = <<At(h.x, c, n), Gain(k.curve, e[n], h.p[n])>>
  /\ kind_ = "oscillator" =>
       v = <<h.p[n][2], Wave(k.waveform, PhaseOf(k, h, n - 1) % Cycle, Increment(k, h.p[n][1]))>>
  /\ kind_ = "noise" => v = <<h.p[n][1], Draw(ChannelSeed(k.seed, c), n - 1)>>
  /\ kind_ = "dither" => v = Quantized(k.levels, At(h.x, c, n),
                                       Draw(ChannelSeed(k.seed, c), 2 * n - 2),
                                       Draw(ChannelSeed(k.seed, c), 2 * n - 1))

\* The phase is a sum over the frames.
LEMMA PhaseSum ==
  ASSUME NEW k, NEW h, NEW n
  PROVE  PhaseOf(k, h, n) = SumOver([i \in 1..n |-> Increment(k, h.p[i][1])], 1..n)
  <1> DEFINE S == 1..n
             g == [i \in S |-> Increment(k, h.p[i][1])]
             P(F) == F = [s \in SUBSET S |-> IF s = {} THEN 0
                            ELSE Increment(k, h.p[Taken(s)][1]) + F[s \ {Taken(s)}]]
  <1>1. PhaseOf(k, h, n) = (CHOOSE F : P(F))[S]
    BY DEF PhaseOf, MapThenSumSet, MapThenFoldSet, Taken
  <1>2. SumOver(g, S) = (CHOOSE F : Folds(F, S, g))[S]
    BY DEF SumOver, MapThenSumSet, MapThenFoldSet, Taken, Folds
  <1>3. ASSUME NEW s \in SUBSET S, s # {}
        PROVE  Increment(k, h.p[Taken(s)][1]) = g[Taken(s)]
    <2>1. Taken(s) \in S
      BY <1>3 DEF Taken
    <2>. QED
      BY <2>1
  <1> HIDE DEF g
  <1>4. \A F : P(F) <=> Folds(F, S, g)
    BY <1>3 DEF Folds
  <1> HIDE DEF P
  <1>5. PhaseOf(k, h, n) = SumOver(g, S)
    BY <1>1, <1>2, <1>4
  <1>. QED
    BY <1>5 DEF g

\* What is right is so by what the kernel keeps,
LEMMA OkHolds ==
  ASSUME NEW kind_, NEW k, NEW j, Formed(kind_, k), Holds(k, j), NEW h, NEW c, NEW n, NEW v
  PROVE  OkAt(kind_, j, h, c, n, v) <=> OkAt(kind_, k, h, c, n, v)
  <1>1. \A f \in DOMAIN k : f \in {"taps", "params", "fs", "kind", "curve", "atk", "rel", "seed",
                                   "use_sidechain", "waveform", "levels"} => j[f] = k[f]
    BY DEF Holds, Keeps, Kept, Fixed
  <1>2. CASE kind_ = "average"
    <2>1. "taps" \in DOMAIN k
      BY <1>2, SMT DEF Formed
    <2>2. j.taps = k.taps
      BY <1>1, <2>1
    <2>. QED
      BY <1>2, <2>2 DEF OkAt, Filters
  <1>3. CASE kind_ = "dc_blocker"
    <2>1. "fs" \in DOMAIN k
      BY <1>3, SMT DEF Formed
    <2>2. j.fs = k.fs
      BY <1>1, <2>1
    <2>3. \A y, i : NextAnswer(kind_, j, h, c, y, i) = NextAnswer(kind_, k, h, c, y, i)
      BY <1>3, <2>2 DEF NextAnswer
    <2>4. \A y : Answers(kind_, j, h, c, y, n) <=> Answers(kind_, k, h, c, y, n)
      BY <2>3, Zenon DEF Answers
    <2>. QED
      BY <1>3, <2>4 DEF OkAt, Filters
  <1>4. CASE kind_ = "biquad"
    <2>1. {"fs", "params", "kind"} \subseteq DOMAIN k
      BY <1>4, SMT DEF Formed
    <2>2. j.fs = k.fs /\ j.params = k.params /\ j.kind = k.kind
      BY <1>1, <2>1
    <2>3. \A p : RuntimeCoeffs(j, p) = RuntimeCoeffs(k, p)
      BY <2>2, Zenon DEF RuntimeCoeffs
    <2>4. \A y, i : NextAnswer(kind_, j, h, c, y, i) = NextAnswer(kind_, k, h, c, y, i)
      BY <1>4, <2>3, Zenon DEF NextAnswer
    <2>5. \A y : Answers(kind_, j, h, c, y, n) <=> Answers(kind_, k, h, c, y, n)
      BY <2>4, Zenon DEF Answers
    <2>. QED
      BY <1>4, <2>5 DEF OkAt, Filters
  <1>5. CASE kind_ = "dynamics"
    <2>1. {"curve", "use_sidechain", "atk", "rel"} \subseteq DOMAIN k
      BY <1>5, SMT DEF Formed
    <2>2. j.curve = k.curve /\ j.use_sidechain = k.use_sidechain /\ j.atk = k.atk /\ j.rel = k.rel
      BY <1>1, <2>1
    <2>3. \A e : Follows(j, h, e, n) <=> Follows(k, h, e, n)
      <3>1. HeardBy(j, h) = HeardBy(k, h)
        BY <2>2, Zenon DEF HeardBy
      <3>2. \A e, l : Follow(j, e, l) = Follow(k, e, l)
        BY <2>2, Zenon DEF Follow
      <3>. QED
        BY <3>1, <3>2, Zenon DEF Follows
    <2>. QED
      BY <1>5, <2>2, <2>3 DEF OkAt, Filters
  <1>6. CASE kind_ = "oscillator"
    <2>1. {"waveform", "fs"} \subseteq DOMAIN k
      BY <1>6, SMT DEF Formed
    <2>2. j.waveform = k.waveform /\ j.fs = k.fs
      BY <1>1, <2>1
    <2>3. \A hz : Increment(j, hz) = Increment(k, hz)
      BY <2>2, SMT DEF Increment
    <2>4. PhaseOf(j, h, n - 1) = PhaseOf(k, h, n - 1)
      <3> DEFINE o == n - 1
      <3>1. [i \in 1..o |-> Increment(j, h.p[i][1])] = [i \in 1..o |-> Increment(k, h.p[i][1])]
        BY <2>3
      <3> HIDE DEF o
      <3>2. PhaseOf(j, h, o) = PhaseOf(k, h, o)
        BY <3>1, PhaseSum
      <3>. QED
        BY <3>2 DEF o
    <2>. QED
      BY <1>6, <2>2, <2>3, <2>4 DEF OkAt, Filters
  <1>7. CASE kind_ \in {"noise", "dither"}
    <2>1. "seed" \in DOMAIN k /\ (kind_ = "dither" => "levels" \in DOMAIN k)
      BY <1>7, SMT DEF Formed
    <2>2. j.seed = k.seed /\ (kind_ = "dither" => j.levels = k.levels)
      BY <1>1, <2>1
    <2>. QED
      BY <1>7, <2>2 DEF OkAt, Filters
  <1>8. CASE kind_ \notin {"average", "dynamics", "oscillator", "noise", "dither"} \cup Filters
    BY <1>8 DEF OkAt
  <1>. QED
    BY <1>2, <1>3, <1>4, <1>5, <1>6, <1>7, <1>8 DEF Filters

\* Samples of the frames up to the m-th are the same in both histories,
LEMMA AtAgrees ==
  ASSUME NEW z, NEW x, NEW m \in Nat, Began(z, x, m), NEW c \in DOMAIN x, NEW i \in Int, i <= m
  PROVE  At(z, c, i) = At(x, c, i)
  <1>1. CASE i < 1
    BY <1>1, Zenon DEF At
  <1>2. CASE ~ (i < 1)
    <2>1. i \in 1..m
      BY <1>2
    <2>2. z[c][i] = x[c][i]
      BY <2>1, Zenon DEF Began
    <2>. QED
      BY <2>2, Zenon DEF At
  <1>. QED
    BY <1>1, <1>2

\* and levels.
LEMMA LevelAgrees ==
  ASSUME NEW z, NEW x, NEW m \in Nat, Began(z, x, m), NEW i \in 1..m
  PROVE  Level(z, i) = Level(x, i)
  <1>1. DOMAIN z = DOMAIN x /\ \A c \in DOMAIN x : z[c][i] = x[c][i]
    BY DEF Began
  <1>2. {Magnitude(FiniteOrZero(z[c][i])) : c \in DOMAIN z}
          = {Magnitude(FiniteOrZero(x[c][i])) : c \in DOMAIN x}
    BY <1>1
  <1>. QED
    BY <1>2, Zenon DEF Level

\* So are the sums of the last of them.
LEMMA RecentAgrees ==
  ASSUME NEW z, NEW x, NEW m \in Nat, Began(z, x, m), NEW c \in DOMAIN x, Known(x, c, m),
         NEW taps \in Nat \ {0}
  PROVE  RecentOf(z, taps, c, m) = RecentOf(x, taps, c, m)
  <1> DEFINE h == [i \in Int |-> IF i <= m THEN At(x, c, i) ELSE 0]
  <1>1. ASSUME NEW i \in Int, i <= m
        PROVE  At(z, c, i) = At(x, c, i) /\ At(x, c, i) \in Int
    <2>1. At(z, c, i) = At(x, c, i)
      BY <1>1, AtAgrees
    <2>2. CASE i < 1
      BY <2>1, <2>2 DEF At
    <2>3. CASE ~ (i < 1)
      BY <1>1, <2>1, <2>3 DEF Known
    <2>. QED
      BY <2>2, <2>3
  <1>2. Lists(h, x, c, m) /\ Lists(h, z, c, m)
    BY <1>1 DEF Lists
  <1> HIDE DEF h
  <1>3. RecentOf(x, taps, c, m) = SumOver(h, (m - taps + 1)..m)
    BY <1>2, RecentWindow
  <1>4. RecentOf(z, taps, c, m) = SumOver(h, (m - taps + 1)..m)
    BY <1>2, RecentWindow
  <1>. QED
    BY <1>3, <1>4

\* So what is right of the one history is of the other.
LEMMA RightAgrees ==
  ASSUME NEW kind_ \in KernelKinds, NEW k, Formed(kind_, k), NEW ch \in Nat, NEW m \in Nat, NEW g,
         Chronicle(kind_, k, g, ch, m), NEW h, Agree(h, g, m), Right(kind_, k, g, ch, m),
         Runnable(kind_, k) \/ ch = 0
  PROVE  Right(kind_, k, h, ch, m)
  <1>1. DOMAIN g.x = 1..ch /\ \A c \in 1..ch : Known(g.x, c, m)
    <2>1. DOMAIN g.x = 1..ch /\ \A c \in 1..ch : \A i \in 1..m : FiniteOrZero(g.x[c][i]) \in Int
      BY DEF Chronicle, Sampled
    <2>2. ASSUME NEW c \in 1..ch, NEW i \in 1..m
          PROVE  At(g.x, c, i) \in Int
      <3>1. ~ (i < 1)
        OBVIOUS
      <3>2. At(g.x, c, i) = FiniteOrZero(g.x[c][i])
        BY <3>1, Zenon DEF At
      <3>. QED
        BY <2>1, <3>2
    <2>. QED
      BY <2>1, <2>2 DEF Known
  <1>2. /\ Began(h.x, g.x, m) /\ Began(h.sidechain, g.sidechain, m)
        /\ \A i \in 1..m : h.p[i] = g.p[i]
    BY DEF Agree
  <1>3. ASSUME NEW c \in 1..ch, NEW i \in Int, i <= m
        PROVE  At(h.x, c, i) = At(g.x, c, i)
    <2> DEFINE z == h.x
               x == g.x
    <2>1. Began(z, x, m) /\ c \in DOMAIN x /\ i \in Int /\ i <= m
      BY <1>1, <1>2, <1>3
    <2> HIDE DEF z, x
    <2>2. At(z, c, i) = At(x, c, i)
      BY <2>1, AtAgrees
    <2>. QED
      BY <2>2 DEF z, x
  <1>4. ASSUME NEW c \in 1..ch, NEW y
        PROVE  Answers(kind_, k, h, c, y, m) => Answers(kind_, k, g, c, y, m)
    <2>1. ASSUME NEW i \in 1..m
          PROVE  NextAnswer(kind_, k, h, c, y, i) = NextAnswer(kind_, k, g, c, y, i)
      <3>1. /\ At(h.x, c, i) = At(g.x, c, i) /\ At(h.x, c, i - 1) = At(g.x, c, i - 1)
            /\ At(h.x, c, i - 2) = At(g.x, c, i - 2) /\ h.p[i] = g.p[i]
        <4>1. i \in Int /\ i - 1 \in Int /\ i - 2 \in Int /\ i <= m /\ i - 1 <= m /\ i - 2 <= m
          OBVIOUS
        <4>. QED
          BY <1>2, <1>3, <4>1
      <3>. QED
        BY <3>1, Zenon DEF NextAnswer
    <2>. QED
      BY <2>1, Zenon DEF Answers
  <1>5. CASE kind_ = "average"
    <2>1. AveragesRight(k, g.x, ch, m)
      BY <1>5 DEF Right
    <2>2. ASSUME NEW c \in 1..ch
          PROVE  AverageRight(h.x, c, m, k.taps, k.rings[c], k.sums[c], k.ring_pos)
      <3> DEFINE taps == k.taps
                 ring == k.rings[c]
                 p == k.ring_pos
      <3>1. taps \in Nat \ {0}
        <4>1. ch # 0
          BY <2>2
        <4>. QED
          BY <1>5, <4>1 DEF Runnable
      <3>2. AverageRight(g.x, c, m, taps, ring, k.sums[c], p)
        BY <2>1 DEF AveragesRight
      <3> HIDE DEF taps, ring, p
      <3>3. RecentOf(h.x, taps, c, m) = RecentOf(g.x, taps, c, m)
        BY <1>1, <1>2, <3>1, RecentAgrees
      <3>4. ASSUME NEW j \in 0..(taps - 1)
            PROVE  At(h.x, c, m - taps + 1 + j) = At(g.x, c, m - taps + 1 + j)
        <4>1. m - taps + 1 + j \in Int /\ m - taps + 1 + j <= m
          BY <3>1
        <4>. QED
          BY <1>3, <4>1
      <3>5. AverageRight(h.x, c, m, taps, ring, k.sums[c], p)
        BY <3>2, <3>3, <3>4 DEF AverageRight
      <3>. QED
        BY <3>5 DEF taps, ring, p
    <2>. QED
      BY <1>5, <2>2 DEF Right, AveragesRight, Filters
  <1>6. CASE kind_ \in Filters
    <2>1. StatesRight(kind_, k, g, ch, m)
      BY <1>6, Zenon DEF Right
    <2>2. ASSUME NEW c \in 1..ch
          PROVE  StateRight(kind_, k, h, c, k.state[c], m)
      <3>1. StateRight(kind_, k, g, c, k.state[c], m)
        BY <2>1, Zenon DEF StatesRight
      <3>2. At(h.x, c, m) = At(g.x, c, m) /\ At(h.x, c, m - 1) = At(g.x, c, m - 1)
        <4>1. m \in Int /\ m - 1 \in Int /\ m <= m /\ m - 1 <= m
          OBVIOUS
        <4>. QED
          BY <1>3, <4>1
      <3>. QED
        BY <1>4, <3>1, <3>2, Zenon DEF StateRight
    <2>3. m # 0 => h.p[m] = g.p[m]
      <3>1. m # 0 => m \in 1..m
        OBVIOUS
      <3>. QED
        BY <1>2, <3>1
    <2>4. StatesRight(kind_, k, h, ch, m)
      BY <2>1, <2>2, <2>3, Zenon DEF StatesRight, ParamsAt
    <2>. QED
      BY <1>6, <2>4 DEF Right, Filters
  <1>7. CASE kind_ = "dynamics"
    <2>1. ASSUME NEW i \in 1..m
          PROVE  Level(HeardBy(k, h), i) = Level(HeardBy(k, g), i)
      BY <1>2, LevelAgrees, Zenon DEF HeardBy
    <2>2. \A e : Follows(k, h, e, m) => Follows(k, g, e, m)
      BY <2>1, Zenon DEF Follows
    <2>3. \A e : Follows(k, g, e, m) => k.env = e[m]
      BY <1>7, Zenon DEF Right
    <2>. QED
      BY <1>7, <2>2, <2>3 DEF Right, Filters
  <1>8. CASE kind_ = "oscillator"
    <2>1. PhaseOf(k, h, m) = PhaseOf(k, g, m)
      <3>1. [i \in 1..m |-> Increment(k, h.p[i][1])] = [i \in 1..m |-> Increment(k, g.p[i][1])]
        BY <1>2
      <3>. QED
        BY <3>1, PhaseSum
    <2>2. k.phase = PhaseOf(k, g, m) % Cycle
      BY <1>8, Zenon DEF Right
    <2>. QED
      BY <1>8, <2>1, <2>2 DEF Right, Filters
  <1>9. CASE kind_ \in {"noise", "dither"}
    BY <1>9 DEF Right, Filters
  <1>10. CASE kind_ \in {"gain", "scale", "dc_offset", "custom"}
    BY <1>10 DEF Right, Filters
  <1>. QED
    BY <1>5, <1>6, <1>7, <1>8, <1>9, <1>10 DEF KernelKinds, Filters

\* One more element.
LEMMA Appended ==
  ASSUME NEW V, NEW s \in Seq(V), NEW i \in Nat, DOMAIN s = 1..i, NEW v \in V, NEW t,
         t = Append(s, v)
  PROVE  /\ t \in Seq(V) /\ DOMAIN t = 1..(i + 1) /\ t[i + 1] = v
         /\ \A j \in 1..i : t[j] = s[j]
  <1>1. Len(s) = i
    BY Length
  <1>. QED
    BY <1>1

-----------------------------------------------------------------------------
(* The recursive filters. *)

\* A filter's step, with its pole or its coefficients.
FilterStep(kind_, s, x, r) ==
  IF kind_ = "dc_blocker" THEN DcStep(s, x, r) ELSE BiquadStep(s, x, r)

\* What it takes of the parameters.
FilterOf(kind_, k, p) ==
  IF kind_ = "dc_blocker" THEN Pole(p[1], k.fs) ELSE RuntimeCoeffs(k, p)

\* With numbers to multiply and to divide by.
Works(kind_, r) ==
  IF kind_ = "dc_blocker" THEN r \in Int
  ELSE {r.b0, r.b1, r.b2, r.a1, r.a2} \subseteq Int /\ r.a0 \in Nat \ {0}

\* A frame of a filter's channel.
FilterFrame(kind_, r, st, x) ==
  LET s == FilterStep(kind_, st.s, FiniteOrZero(x), r)
  IN  [s |-> s, out |-> Append(st.out, s.y1)]

FilterFrames(kind_) == [s : StatesOf(kind_), out : Seq(Int)]

\* A quotient is a number.
LEMMA QuotientTyped ==
  ASSUME NEW x \in Int, NEW d \in Nat \ {0}
  PROVE  Quotient(x, d) \in Int
  <1>1. CASE x < 0
    <2>1. -x \in Nat
      BY <1>1
    <2> DEFINE y == -x
    <2>2. y \div d \in Nat
      <3> HIDE DEF y
      <3>1. y \in Nat
        BY <2>1 DEF y
      <3>. QED
        BY <3>1, Quotients
    <2>3. Quotient(x, d) = -(y \div d)
      BY <1>1 DEF Quotient
    <2> HIDE DEF y
    <2> DEFINE q == y \div d
    <2> HIDE DEF q
    <2>4. q \in Nat /\ Quotient(x, d) = -q
      BY <2>2, <2>3 DEF q
    <2>. QED
      BY <2>4
  <1>2. CASE ~ (x < 0)
    <2>1. x \in Nat /\ Quotient(x, d) = x \div d
      BY <1>2 DEF Quotient
    <2>2. x \div d \in Nat
      BY <2>1, Quotients
    <2>. QED
      BY <2>1, <2>2
  <1>. QED
    BY <1>1, <1>2

\* Products and their sums are numbers.
LEMMA ProductTyped ==
  ASSUME NEW a \in Int, NEW b \in Int
  PROVE  a * b \in Int
  OBVIOUS

\* A step keeps a state of numbers.
LEMMA FilterStepTyped ==
  ASSUME NEW kind_ \in Filters, NEW r, Works(kind_, r), NEW s \in StatesOf(kind_), NEW x \in Int
  PROVE  FilterStep(kind_, s, x, r) \in StatesOf(kind_) /\ FilterStep(kind_, s, x, r).y1 \in Int
  <1>1. CASE kind_ = "dc_blocker"
    <2>1. s \in [x1 : Int, y1 : Int] /\ r \in Int
      BY <1>1 DEF StatesOf, Works
    <2> DEFINE v == r * s.y1
               q == Quotient(v, Unit)
               y == x - s.x1 + q
    <2>2. s.y1 \in Int /\ s.x1 \in Int
      BY <2>1
    <2>3. v \in Int
      <3> DEFINE b == s.y1
      <3> HIDE DEF b
      <3>1. r \in Int /\ b \in Int
        BY <2>1, <2>2 DEF b
      <3>2. r * b \in Int
        BY <3>1, ProductTyped
      <3>. QED
        BY <3>2 DEF b
    <2> HIDE DEF v
    <2>4. q \in Int
      BY <2>3, QuotientTyped, TailAssumption
    <2>5. FilterStep(kind_, s, x, r) = [x1 |-> x, y1 |-> y]
      BY <1>1, Zenon DEF FilterStep, DcStep, v
    <2> HIDE DEF q
    <2>6. y \in Int
      BY <2>2, <2>4
    <2> HIDE DEF y
    <2>. QED
      BY <1>1, <2>5, <2>6 DEF StatesOf
  <1>2. CASE kind_ = "biquad"
    <2>1. /\ s \in [x1 : Int, x2 : Int, y1 : Int, y2 : Int]
          /\ {r.b0, r.b1, r.b2, r.a1, r.a2} \subseteq Int /\ r.a0 \in Nat \ {0}
      BY <1>2 DEF StatesOf, Works
    <2> DEFINE a == r.b0 * x
               b == r.b1 * s.x1
               c == r.b2 * s.x2
               d == r.a1 * s.y1
               e == r.a2 * s.y2
               v == a + b + c - d - e
               y == Quotient(v, r.a0)
    <2>2. a \in Int /\ b \in Int /\ c \in Int /\ d \in Int /\ e \in Int
      <3>1. s.x1 \in Int /\ s.x2 \in Int /\ s.y1 \in Int /\ s.y2 \in Int
        BY <2>1
      <3>. QED
        BY <2>1, <3>1, ProductTyped, Zenon
    <2> HIDE DEF a, b, c, d, e
    <2>3. v \in Int
      BY <2>2
    <2>4. FilterStep(kind_, s, x, r) = [x1 |-> x, x2 |-> s.x1, y2 |-> s.y1, y1 |-> y]
      BY <1>2 DEF FilterStep, BiquadStep, a, b, c, d, e
    <2> HIDE DEF v
    <2>5. y \in Int
      <3> DEFINE z == r.a0
      <3>1. z \in Nat \ {0}
        BY <2>1
      <3> HIDE DEF z
      <3>2. Quotient(v, z) \in Int
        BY <2>3, <3>1, QuotientTyped
      <3>. QED
        BY <3>2 DEF z
    <2> HIDE DEF y
    <2>. QED
      BY <1>2, <2>1, <2>4, <2>5 DEF StatesOf
  <1>. QED
    BY <1>1, <1>2 DEF Filters

\* The values a filter's channel goes through.
FilterWalks(A, kind_, r, s, xs, n, end) ==
  /\ A \in [0..n -> FilterFrames(kind_)]
  /\ A[0] = [s |-> s, out |-> <<>>]
  /\ \A i \in 1..n : A[i] = FilterFrame(kind_, r, A[i - 1], xs[i])
  /\ end = A[n]

\* A filter's run of one channel.
FilterChannel(kind_, r, s, xs) ==
  FoldLeft(LAMBDA st, x : FilterFrame(kind_, r, st, x), [s |-> s, out |-> <<>>], xs)

\* It goes through its frames in order.
LEMMA FilterChannelWalks ==
  ASSUME NEW kind_ \in Filters, NEW r, Works(kind_, r), NEW s \in StatesOf(kind_), NEW n \in Nat,
         NEW xs, DOMAIN xs = 1..n, \A i \in 1..n : FiniteOrZero(xs[i]) \in Int
  PROVE  \E A : FilterWalks(A, kind_, r, s, xs, n, FilterChannel(kind_, r, s, xs))
  <1> DEFINE T == FilterFrames(kind_)
             U == DOMAIN xs
             Step(st, sample) == FilterFrame(kind_, r, st, sample)
             base == [s |-> s, out |-> <<>>]
             G == [z \in (1..n) \X T |-> Step(z[2], xs[z[1]])]
             Rule(F) == F = [t \in SUBSET U |->
                               IF t = {} THEN base
                               ELSE Step(F[t \ {Max(t)}], xs[Max(t)])]
             F == CHOOSE F : Rule(F)
  <1>1. base \in T
    BY DEF FilterFrames
  <1>2. ASSUME NEW st \in T, NEW i \in 1..n
        PROVE  Step(st, xs[i]) \in T
    <2> DEFINE was == st.s
               x == FiniteOrZero(xs[i])
               new == FilterStep(kind_, was, x, r)
    <2>1. was \in StatesOf(kind_) /\ st.out \in Seq(Int) /\ x \in Int
      BY DEF FilterFrames
    <2>2. Step(st, xs[i]) = [s |-> new, out |-> Append(st.out, new.y1)]
      BY Zenon DEF FilterFrame
    <2> HIDE DEF was, x
    <2>3. new \in StatesOf(kind_) /\ new.y1 \in Int
      BY <2>1, FilterStepTyped
    <2> HIDE DEF new, Step
    <2>. QED
      BY <2>1, <2>2, <2>3 DEF FilterFrames
  <1>3. FilterChannel(kind_, r, s, xs) = F[U]
    BY DEF FilterChannel, FoldLeft, MapThenFoldSet
  <1> HIDE DEF T, Step, base
  <1>4. Paces(G, n, T)
    BY <1>2 DEF Paces
  <1>5. \A i \in 1..n, st \in T : G[<<i, st>>] = Step(st, xs[i])
    OBVIOUS
  <1> HIDE DEF G
  <1>6. PICK H : Recurs(H, G, base, n, T)
    BY <1>1, <1>4, FoldExists
  <1>7. Rule(H)
    BY <1>5, <1>6 DEF Recurs
  <1>8. Rule(F)
    <2> HIDE DEF Rule
    <2>. QED
      BY <1>7
  <1>9. Steps(F, G, base, n, T)
    <2> HIDE DEF F
    <2>1. F[{}] = base
      BY <1>8
    <2>2. ASSUME NEW t \in SUBSET (1..n), t # {}, F[t \ {Max(t)}] \in T
          PROVE  F[t] = G[<<Max(t), F[t \ {Max(t)}]>>]
      <3>1. F[t] = Step(F[t \ {Max(t)}], xs[Max(t)])
        BY <1>8, <2>2
      <3>2. Max(t) \in 1..n
        BY <1>6, <2>2 DEF Recurs
      <3>. QED
        BY <1>5, <2>2, <3>1, <3>2
    <2>. QED
      BY <2>1, <2>2 DEF Steps
  <1> HIDE DEF F
  <1>10. PICK A : Passes(A, F, G, base, n, T)
    BY <1>1, <1>4, <1>9, FoldWalks
  <1>11. ASSUME NEW i \in 1..n
         PROVE  A[i] = FilterFrame(kind_, r, A[i - 1], xs[i])
    <2>1. i - 1 \in 0..n
      OBVIOUS
    <2>2. A[i - 1] \in T /\ A[i] = G[<<i, A[i - 1]>>]
      BY <1>10, <2>1 DEF Walks, Passes
    <2>. QED
      BY <1>5, <2>2 DEF Step
  <1>12. FilterWalks(A, kind_, r, s, xs, n, FilterChannel(kind_, r, s, xs))
    BY <1>3, <1>10, <1>11 DEF FilterWalks, Walks, Passes, base, T
  <1>. QED
    BY <1>12

\* A step gives the next sample of the answer.
LEMMA FilterStepExact ==
  ASSUME NEW kind_ \in Filters, NEW k, NEW h, NEW c, NEW s, NEW n \in Nat,
         StateRight(kind_, k, h, c, s, n), NEW x, x = At(h.x, c, n + 1),
         NEW r, r = FilterOf(kind_, k, h.p[n + 1]), NEW z, z = FilterStep(kind_, s, x, r),
         z \in StatesOf(kind_)
  PROVE  StateRight(kind_, k, h, c, z, n + 1)
  <1> DEFINE o == n + 1
  <1>1. o \in Nat /\ o - 1 = n /\ o - 2 = n - 1 /\ o \in 1..o
    OBVIOUS
  <1>2. /\ s.x1 = At(h.x, c, n)
        /\ \A y : Answers(kind_, k, h, c, y, n) => s.y1 = y[n]
        /\ kind_ = "biquad" => /\ s.x2 = At(h.x, c, n - 1)
                               /\ \A y : Answers(kind_, k, h, c, y, n) => s.y2 = y[n - 1]
    BY Zenon DEF StateRight
  <1>3. ASSUME NEW y, Answers(kind_, k, h, c, y, o)
        PROVE  Answers(kind_, k, h, c, y, n) /\ y[o] = NextAnswer(kind_, k, h, c, y, o)
    <2>1. /\ y[0] = 0 /\ y[-1] = 0
          /\ \A i \in 1..o : y[i] = NextAnswer(kind_, k, h, c, y, i)
      BY <1>3, Zenon DEF Answers
    <2>2. \A i \in 1..n : i \in 1..o
      OBVIOUS
    <2>. QED
      BY <1>1, <2>1, <2>2, Zenon DEF Answers
  <1>4. x = At(h.x, c, o) /\ r = FilterOf(kind_, k, h.p[o])
    OBVIOUS
  <1> HIDE DEF o
  <1>5. CASE kind_ = "dc_blocker"
    <2>1. z.x1 = x /\ z.y1 = x - s.x1 + Quotient(r * s.y1, Unit)
      BY <1>5 DEF FilterStep, DcStep
    <2>2. ASSUME NEW y, Answers(kind_, k, h, c, y, o)
          PROVE  z.y1 = y[o]
      <3>1. y[o] = At(h.x, c, o) - At(h.x, c, o - 1)
                     + Quotient(Pole(h.p[o][1], k.fs) * y[o - 1], Unit)
        BY <1>3, <1>5, <2>2, Zenon DEF NextAnswer
      <3>2. r = Pole(h.p[o][1], k.fs)
        BY <1>4, <1>5, Zenon DEF FilterOf
      <3>3. s.y1 = y[o - 1] /\ s.x1 = At(h.x, c, o - 1)
        BY <1>1, <1>2, <1>3, <2>2
      <3>. QED
        BY <1>4, <2>1, <3>1, <3>2, <3>3
    <2>3. kind_ # "biquad"
      BY <1>5
    <2>4. z.x1 = At(h.x, c, o)
      BY <1>4, <2>1
    <2>5. StateRight(kind_, k, h, c, z, o)
      BY <2>2, <2>3, <2>4, Zenon DEF StateRight
    <2>. QED
      BY <2>5 DEF o
  <1>6. CASE kind_ = "biquad"
    <2>1. /\ z.x1 = x /\ z.x2 = s.x1 /\ z.y2 = s.y1
          /\ z.y1 = Quotient(r.b0 * x + r.b1 * s.x1 + r.b2 * s.x2 - r.a1 * s.y1 - r.a2 * s.y2, r.a0)
      BY <1>6 DEF FilterStep, BiquadStep
    <2>2. ASSUME NEW y, Answers(kind_, k, h, c, y, o)
          PROVE  z.y1 = y[o] /\ z.y2 = y[o - 1]
      <3> DEFINE co == RuntimeCoeffs(k, h.p[o])
      <3>1. y[o] = Quotient(co.b0 * At(h.x, c, o) + co.b1 * At(h.x, c, o - 1)
                              + co.b2 * At(h.x, c, o - 2) - co.a1 * y[o - 1] - co.a2 * y[o - 2], co.a0)
        <4>1. kind_ # "dc_blocker"
          BY <1>6
        <4>. QED
          BY <1>3, <2>2, <4>1, Zenon DEF NextAnswer
      <3>2. r = co
        <4>1. kind_ # "dc_blocker"
          BY <1>6
        <4>. QED
          BY <1>4, <4>1, Zenon DEF FilterOf
      <3>3. /\ s.y1 = y[o - 1] /\ s.x1 = At(h.x, c, o - 1)
            /\ s.y2 = y[o - 2] /\ s.x2 = At(h.x, c, o - 2)
        BY <1>1, <1>2, <1>3, <1>6, <2>2
      <3> HIDE DEF co
      <3>. QED
        BY <1>4, <2>1, <3>1, <3>2, <3>3
    <2>3. z.x1 = At(h.x, c, o) /\ z.x2 = At(h.x, c, o - 1)
      BY <1>1, <1>2, <1>4, <2>1
    <2>4. StateRight(kind_, k, h, c, z, o)
      BY <2>2, <2>3, Zenon DEF StateRight
    <2>. QED
      BY <2>4 DEF o
  <1>. QED
    BY <1>5, <1>6 DEF Filters

\* The n samples given after the m-th frame are the answer's.
FilterOuts(kind_, k, h, c, outs, m, n) ==
  /\ DOMAIN outs = 1..n
  /\ \A i \in 1..n : \A y : Answers(kind_, k, h, c, y, m + i) => outs[i] = y[m + i]

\* The n frames after the m-th are played with the parameters that r is made of.
FilteredBy(kind_, k, h, r, m, n) == \A i \in 1..n : r = FilterOf(kind_, k, h.p[m + i])

\* A channel's run moves its state on by its frames.
LEMMA FilterChannelExact ==
  ASSUME NEW kind_ \in Filters, NEW k, NEW h, NEW c, NEW s, NEW m \in Nat, NEW n \in Nat,
         StateRight(kind_, k, h, c, s, m), NEW r, Works(kind_, r), NEW x, x = h.x,
         FilteredBy(kind_, k, h, r, m, n), NEW xs, Feeds(xs, n, x, c, m),
         NEW end, end = FilterChannel(kind_, r, s, xs)
  PROVE  /\ StateRight(kind_, k, h, c, end.s, m + n)
         /\ FilterOuts(kind_, k, h, c, end.out, m, n)
  <1>1. /\ DOMAIN xs = 1..n
        /\ \A i \in 1..n : FiniteOrZero(xs[i]) = At(x, c, m + i)
        /\ \A i \in 1..(m + n) : At(x, c, i) \in Int
    BY DEF Feeds, Known
  <1>2. \A i \in 1..n : FiniteOrZero(xs[i]) \in Int
    BY <1>1
  <1>3. s \in StatesOf(kind_)
    BY DEF StateRight
  <1>4. PICK A : FilterWalks(A, kind_, r, s, xs, n, end)
    BY <1>1, <1>2, <1>3, FilterChannelWalks
  <1>5. /\ A \in [0..n -> FilterFrames(kind_)] /\ A[0] = [s |-> s, out |-> <<>>]
        /\ \A i \in 1..n : A[i] = FilterFrame(kind_, r, A[i - 1], xs[i])
        /\ end = A[n]
    BY <1>4 DEF FilterWalks
  <1> DEFINE Good(i) == /\ StateRight(kind_, k, h, c, A[i].s, m + i)
                        /\ FilterOuts(kind_, k, h, c, A[i].out, m, i)
             S == {i \in Nat : i <= n => Good(i)}
  <1>6. 0 \in S
    <2>1. A[0].s = s /\ A[0].out = <<>> /\ m + 0 = m
      BY <1>5
    <2>2. FilterOuts(kind_, k, h, c, <<>>, m, 0)
      BY DEF FilterOuts
    <2>3. StateRight(kind_, k, h, c, A[0].s, m + 0)
      BY <2>1
    <2>. QED
      BY <2>1, <2>2, <2>3
  <1>7. ASSUME NEW i \in S
        PROVE  i + 1 \in S
    <2> SUFFICES ASSUME i + 1 <= n
                 PROVE  Good(i + 1)
      OBVIOUS
    <2> DEFINE was == A[i]
               new == A[i + 1]
               sample == FiniteOrZero(xs[i + 1])
               o == m + i
               t == was.s
               z == FilterStep(kind_, t, sample, r)
    <2>1. i \in Nat /\ i \in 0..n /\ i + 1 \in 1..n /\ i + 1 - 1 = i /\ Good(i)
      OBVIOUS
    <2>2. new = FilterFrame(kind_, r, was, xs[i + 1]) /\ was \in FilterFrames(kind_)
          /\ new \in FilterFrames(kind_)
      BY <1>5, <2>1
    <2>3. o \in Nat /\ m + (i + 1) = o + 1
      BY <2>1
    <2>4. sample = At(x, c, o + 1) /\ r = FilterOf(kind_, k, h.p[o + 1])
      <3>1. sample = At(x, c, m + (i + 1)) /\ r = FilterOf(kind_, k, h.p[m + (i + 1)])
        BY <1>1, <2>1 DEF FilteredBy
      <3> HIDE DEF o
      <3>. QED
        BY <2>3, <3>1
    <2>5. StateRight(kind_, k, h, c, t, o)
      BY <2>1
    <2>6. new = [s |-> z, out |-> Append(was.out, z.y1)]
      BY <2>2, Zenon DEF FilterFrame
    <2>7. z \in StatesOf(kind_) /\ was.out \in Seq(Int) /\ z.y1 \in Int
      <3>1. new.s = z
        BY <2>6
      <3>2. new.s \in StatesOf(kind_) /\ was.out \in Seq(Int)
        BY <2>2 DEF FilterFrames
      <3>3. z \in StatesOf(kind_)
        BY <3>1, <3>2
      <3> HIDE DEF z
      <3>. QED
        BY <3>2, <3>3 DEF StatesOf
    <2>8. DOMAIN was.out = 1..i
          /\ \A j \in 1..i : \A y : Answers(kind_, k, h, c, y, m + j) => was.out[j] = y[m + j]
      BY <2>1 DEF FilterOuts
    <2> HIDE DEF was, sample, o, t
    <2>9. StateRight(kind_, k, h, c, z, o + 1)
      <3>1. sample = At(h.x, c, o + 1)
        BY <2>4
      <3> HIDE DEF z
      <3>. QED
        BY <2>3, <2>4, <2>5, <2>7, <3>1, FilterStepExact DEF z
    <2> HIDE DEF z
    <2> DEFINE before == was.out
               v == z.y1
               after == Append(before, v)
    <2>10. before \in Seq(Int) /\ DOMAIN before = 1..i /\ v \in Int /\ i \in Nat
      BY <2>1, <2>7, <2>8
    <2>11. new.s = z /\ new.out = after
      BY <2>6
    <2> HIDE DEF before, v, new
    <2>12. /\ DOMAIN after = 1..(i + 1) /\ after[i + 1] = v
           /\ \A j \in 1..i : after[j] = before[j]
      BY <2>10, Appended
    <2> HIDE DEF after
    <2>13. ASSUME NEW j \in 1..(i + 1), NEW y, Answers(kind_, k, h, c, y, m + j)
           PROVE  after[j] = y[m + j]
      <3>1. CASE j = i + 1
        <4>1. Answers(kind_, k, h, c, y, o + 1) /\ m + j = o + 1
          BY <2>3, <2>13, <3>1
        <4>2. v = y[o + 1]
          BY <2>9, <4>1, Zenon DEF StateRight, v
        <4>. QED
          BY <2>12, <3>1, <4>1, <4>2
      <3>2. CASE j # i + 1
        <4>1. j \in 1..i
          BY <2>1, <3>2
        <4>. QED
          BY <2>8, <2>12, <2>13, <4>1 DEF before
      <3>. QED
        BY <3>1, <3>2
    <2>14. FilterOuts(kind_, k, h, c, after, m, i + 1)
      BY <2>12, <2>13 DEF FilterOuts
    <2>15. StateRight(kind_, k, h, c, new.s, m + (i + 1))
      BY <2>3, <2>9, <2>11
    <2>. QED
      BY <2>11, <2>14, <2>15 DEF new
  <1>8. n \in S
    <2> HIDE DEF Good
    <2>1. S \in SUBSET Nat
      OBVIOUS
    <2> HIDE DEF S
    <2>2. S = Nat
      BY <1>6, <1>7, <2>1, NatInd
    <2>. QED
      BY <2>2
  <1>. QED
    BY <1>5, <1>8

\* The kernels whose output is said to be what their definitions make of the history.
Claimed == {"average", "dynamics", "oscillator", "noise", "dither"} \cup Filters

\* The n frames of outs are what is to be given of the history after its m-th.
Gives(kind_, k, h, ch, m, n, outs) ==
  kind_ \in Claimed =>
    /\ DOMAIN outs = 1..ch
    /\ \A c \in 1..ch : /\ DOMAIN outs[c] = 1..n
                        /\ \A i \in 1..n : OkAt(kind_, k, h, c, m + i, outs[c][i])

\* What a filter answers is a matter of what it keeps.
LEMMA AnswersHold ==
  ASSUME NEW kind_ \in Filters, NEW k, NEW j, Formed(kind_, k), Holds(k, j)
  PROVE  /\ \A h, c, y, n : Answers(kind_, j, h, c, y, n) <=> Answers(kind_, k, h, c, y, n)
         /\ \A p : FilterOf(kind_, j, p) = FilterOf(kind_, k, p)
         /\ \A h, c, s, n : StateRight(kind_, j, h, c, s, n) <=> StateRight(kind_, k, h, c, s, n)
         /\ j.params = k.params /\ j.fs = k.fs
  <1>1. \A f \in DOMAIN k : f \in {"params", "fs", "kind"} => j[f] = k[f]
    BY DEF Holds, Keeps, Kept, Fixed
  <1>2. {"params", "fs"} \subseteq DOMAIN k /\ (kind_ = "biquad" => "kind" \in DOMAIN k)
    BY SMT DEF Formed, Filters
  <1>3. j.fs = k.fs /\ j.params = k.params /\ (kind_ = "biquad" => j.kind = k.kind)
    BY <1>1, <1>2
  <1>4. kind_ = "biquad" => \A p : RuntimeCoeffs(j, p) = RuntimeCoeffs(k, p)
    BY <1>3, Zenon DEF RuntimeCoeffs
  <1>5. \A p : FilterOf(kind_, j, p) = FilterOf(kind_, k, p)
    BY <1>3, <1>4 DEF FilterOf, Filters
  <1>6. ASSUME NEW h, NEW c, NEW y, NEW n
        PROVE  NextAnswer(kind_, j, h, c, y, n) = NextAnswer(kind_, k, h, c, y, n)
    <2>1. CASE kind_ = "dc_blocker"
      BY <1>3, <2>1 DEF NextAnswer
    <2>2. CASE kind_ = "biquad"
      BY <1>4, <2>2, Zenon DEF NextAnswer
    <2>. QED
      BY <2>1, <2>2 DEF Filters
  <1>7. \A h, c, y, n : Answers(kind_, j, h, c, y, n) <=> Answers(kind_, k, h, c, y, n)
    BY <1>6, Zenon DEF Answers
  <1>8. ASSUME NEW h, NEW c, NEW s, NEW n
        PROVE  StateRight(kind_, j, h, c, s, n) <=> StateRight(kind_, k, h, c, s, n)
    <2> DEFINE P(y) == Answers(kind_, j, h, c, y, n)
               Q(y) == Answers(kind_, k, h, c, y, n)
    <2>1. \A y : P(y) <=> Q(y)
      BY <1>7
    <2>2. StateRight(kind_, j, h, c, s, n)
            <=> /\ s \in StatesOf(kind_) /\ s.x1 = At(h.x, c, n) /\ \A y : P(y) => s.y1 = y[n]
                /\ kind_ = "biquad" => s.x2 = At(h.x, c, n - 1) /\ \A y : P(y) => s.y2 = y[n - 1]
      BY DEF StateRight
    <2>3. StateRight(kind_, k, h, c, s, n)
            <=> /\ s \in StatesOf(kind_) /\ s.x1 = At(h.x, c, n) /\ \A y : Q(y) => s.y1 = y[n]
                /\ kind_ = "biquad" => s.x2 = At(h.x, c, n - 1) /\ \A y : Q(y) => s.y2 = y[n - 1]
      BY DEF StateRight
    <2> HIDE DEF P, Q
    <2>. QED
      BY <2>1, <2>2, <2>3
  <1>. QED
    BY <1>3, <1>5, <1>7, <1>8

\* A filter's run of all channels.
FilterRun(kind_, states, planes, r) ==
  IF kind_ = "dc_blocker" THEN RunStates(states, planes, LAMBDA s, x : DcStep(s, x, r))
  ELSE RunStates(states, planes, LAMBDA s, x : BiquadStep(s, x, r))

\* It runs each.
LEMMA FilterRunIs ==
  ASSUME NEW kind_ \in Filters, NEW states, NEW planes, NEW r
  PROVE  /\ DOMAIN FilterRun(kind_, states, planes, r).state = DOMAIN states
         /\ DOMAIN FilterRun(kind_, states, planes, r).out = DOMAIN states
         /\ \A c \in DOMAIN states :
              /\ FilterRun(kind_, states, planes, r).state[c]
                   = FilterChannel(kind_, r, states[c], planes[c]).s
              /\ FilterRun(kind_, states, planes, r).out[c]
                   = FilterChannel(kind_, r, states[c], planes[c]).out
  <1> DEFINE dc(st, x) == LET s == DcStep(st.s, FiniteOrZero(x), r)
                          IN  [s |-> s, out |-> Append(st.out, s.y1)]
             bq(st, x) == LET s == BiquadStep(st.s, FiniteOrZero(x), r)
                          IN  [s |-> s, out |-> Append(st.out, s.y1)]
             DcFold(c) == FoldLeft(LAMBDA st, x : LET s == DcStep(st.s, FiniteOrZero(x), r)
                                                  IN  [s |-> s, out |-> Append(st.out, s.y1)],
                                   [s |-> states[c], out |-> <<>>], planes[c])
             BqFold(c) == FoldLeft(LAMBDA st, x : LET s == BiquadStep(st.s, FiniteOrZero(x), r)
                                                  IN  [s |-> s, out |-> Append(st.out, s.y1)],
                                   [s |-> states[c], out |-> <<>>], planes[c])
  <1>1. ASSUME kind_ = "dc_blocker", NEW c
        PROVE  DcFold(c) = FilterChannel(kind_, r, states[c], planes[c])
    <2> DEFINE xs == planes[c]
               base == [s |-> states[c], out |-> <<>>]
               U == DOMAIN xs
               P(F) == F = [t \in SUBSET U |->
                              IF t = {} THEN base ELSE dc(F[t \ {Max(t)}], xs[Max(t)])]
               Q(F) == F = [t \in SUBSET U |->
                              IF t = {} THEN base ELSE FilterFrame(kind_, r, F[t \ {Max(t)}], xs[Max(t)])]
    <2>1. DcFold(c) = (CHOOSE F : P(F))[U]
      BY DEF FoldLeft, MapThenFoldSet
    <2>2. FilterChannel(kind_, r, states[c], planes[c]) = (CHOOSE F : Q(F))[U]
      BY DEF FilterChannel, FoldLeft, MapThenFoldSet
    <2>3. \A st, x : FilterFrame(kind_, r, st, x) = dc(st, x)
      BY <1>1 DEF FilterFrame, FilterStep
    <2> HIDE DEF dc, base
    <2>4. \A F : P(F) <=> Q(F)
      BY <2>3
    <2> HIDE DEF P, Q, DcFold
    <2>. QED
      BY <2>1, <2>2, <2>4
  <1>2. ASSUME kind_ = "biquad", NEW c
        PROVE  BqFold(c) = FilterChannel(kind_, r, states[c], planes[c])
    <2> DEFINE xs == planes[c]
               base == [s |-> states[c], out |-> <<>>]
               U == DOMAIN xs
               P(F) == F = [t \in SUBSET U |->
                              IF t = {} THEN base ELSE bq(F[t \ {Max(t)}], xs[Max(t)])]
               Q(F) == F = [t \in SUBSET U |->
                              IF t = {} THEN base ELSE FilterFrame(kind_, r, F[t \ {Max(t)}], xs[Max(t)])]
    <2>1. BqFold(c) = (CHOOSE F : P(F))[U]
      BY DEF FoldLeft, MapThenFoldSet
    <2>2. FilterChannel(kind_, r, states[c], planes[c]) = (CHOOSE F : Q(F))[U]
      BY DEF FilterChannel, FoldLeft, MapThenFoldSet
    <2>3. \A st, x : FilterFrame(kind_, r, st, x) = bq(st, x)
      BY <1>2 DEF FilterFrame, FilterStep
    <2> HIDE DEF bq, base
    <2>4. \A F : P(F) <=> Q(F)
      BY <2>3
    <2> HIDE DEF P, Q, BqFold
    <2>. QED
      BY <2>1, <2>2, <2>4
  <1>3. CASE kind_ = "dc_blocker"
    <2> DEFINE ch == [c \in DOMAIN states |-> DcFold(c)]
    <2>1. FilterRun(kind_, states, planes, r)
            = [state |-> [c \in DOMAIN ch |-> ch[c].s], out |-> [c \in DOMAIN ch |-> ch[c].out]]
      BY <1>3 DEF FilterRun, RunStates
    <2> HIDE DEF DcFold
    <2>2. DOMAIN ch = DOMAIN states /\ \A c \in DOMAIN states : ch[c] = DcFold(c)
      OBVIOUS
    <2> HIDE DEF ch
    <2>. QED
      BY <1>1, <1>3, <2>1, <2>2
  <1>4. CASE kind_ = "biquad"
    <2> DEFINE ch == [c \in DOMAIN states |-> BqFold(c)]
    <2>1. FilterRun(kind_, states, planes, r)
            = [state |-> [c \in DOMAIN ch |-> ch[c].s], out |-> [c \in DOMAIN ch |-> ch[c].out]]
      BY <1>4 DEF FilterRun, RunStates
    <2> HIDE DEF BqFold
    <2>2. DOMAIN ch = DOMAIN states /\ \A c \in DOMAIN states : ch[c] = BqFold(c)
      OBVIOUS
    <2> HIDE DEF ch
    <2>. QED
      BY <1>2, <1>4, <2>1, <2>2
  <1>. QED
    BY <1>3, <1>4 DEF Filters

\* The states of all channels after the n-th frame.
EachRight(kind_, k, h, ch, states, n) ==
  /\ DOMAIN states = 1..ch
  /\ \A c \in 1..ch : StateRight(kind_, k, h, c, states[c], n)

\* The states have moved on from the m-th by n frames, and given the answer's samples.
MovedOn(kind_, k, h, ch, done, m, n) ==
  /\ EachRight(kind_, k, h, ch, done.state, m + n)
  /\ DOMAIN done.out = 1..ch
  /\ \A c \in 1..ch : FilterOuts(kind_, k, h, c, done.out[c], m, n)

\* A run of all channels of a filter moves their states on.
LEMMA FilterRunExact ==
  ASSUME NEW kind_ \in Filters, NEW k, NEW h, NEW ch \in Nat, NEW m \in Nat, NEW n \in Nat,
         NEW states, EachRight(kind_, k, h, ch, states, m),
         NEW r, Works(kind_, r), FilteredBy(kind_, k, h, r, m, n), NEW planes, NEW x, x = h.x,
         AllFeed(planes, x, ch, m, n), NEW done, done = FilterRun(kind_, states, planes, r)
  PROVE  MovedOn(kind_, k, h, ch, done, m, n)
  <1>1. DOMAIN states = 1..ch /\ done = FilterRun(kind_, states, planes, r)
    BY DEF EachRight
  <1>2. \A c \in 1..ch : StateRight(kind_, k, h, c, states[c], m)
    BY DEF EachRight
  <1>3. /\ DOMAIN done.state = 1..ch /\ DOMAIN done.out = 1..ch
        /\ \A c \in 1..ch : /\ done.state[c] = FilterChannel(kind_, r, states[c], planes[c]).s
                            /\ done.out[c] = FilterChannel(kind_, r, states[c], planes[c]).out
    BY <1>1, FilterRunIs
  <1>4. ASSUME NEW c \in 1..ch
        PROVE  /\ StateRight(kind_, k, h, c, done.state[c], m + n)
               /\ FilterOuts(kind_, k, h, c, done.out[c], m, n)
    <2> DEFINE s == states[c]
               xs == planes[c]
               end == FilterChannel(kind_, r, s, xs)
    <2>1. /\ StateRight(kind_, k, h, c, s, m) /\ Feeds(xs, n, x, c, m)
          /\ end = FilterChannel(kind_, r, s, xs)
      BY <1>2 DEF AllFeed
    <2>2. done.state[c] = end.s /\ done.out[c] = end.out
      BY <1>3
    <2> HIDE DEF s, xs, end
    <2>3. /\ StateRight(kind_, k, h, c, end.s, m + n)
          /\ FilterOuts(kind_, k, h, c, end.out, m, n)
      BY <2>1, FilterChannelExact
    <2>. QED
      BY <2>2, <2>3
  <1>. QED
    BY <1>3, <1>4 DEF EachRight, MovedOn

\* The parameters that a kernel can be run with.
Steers(kind_, k, p) ==
  /\ kind_ \in Filters => Works(kind_, FilterOf(kind_, k, p))
  /\ kind_ = "oscillator" => p[1] \in Nat

\* An average's run of the next frames.
LEMMA AverageRunRight ==
  ASSUME NEW k, Formed("average", k), Runnable("average", k), NEW ch \in Nat,
         Shaped("average", k, ch), NEW n \in Nat, NEW m \in Nat, NEW h, NEW x, x = h.x,
         NEW planes, AllFeed(planes, x, ch, m, n), NEW slip \in -1..1,
         Right("average", k, h, ch, m), NEW r, r = AverageRun(k, planes, slip)
  PROVE  /\ Right("average", r.kernel, h, ch, m + n)
         /\ Gives("average", k, h, ch, m, n, r.out)
  <1>1. AveragesRight(k, x, ch, m)
    BY DEF Right
  <1>2. /\ AveragesRight(r.kernel, x, ch, m + n) /\ DOMAIN r.out = 1..ch
        /\ \A c \in 1..ch : AverageOuts(r.out[c], n, x, c, m, k.taps)
    BY <1>1, AverageRunExact
  <1>3. Right("average", r.kernel, h, ch, m + n)
    BY <1>2 DEF Right, Filters
  <1>4. \A c \in 1..ch : /\ DOMAIN r.out[c] = 1..n
                         /\ \A i \in 1..n : OkAt("average", k, h, c, m + i, r.out[c][i])
    <2> TAKE c \in 1..ch
    <2>1. /\ DOMAIN r.out[c] = 1..n
          /\ \A i \in 1..n : Magnitude(r.out[c][i] - RecentOf(h.x, k.taps, c, m + i)) <= k.taps - 1
      BY <1>2, Zenon DEF AverageOuts
    <2>. QED
      BY <2>1 DEF OkAt, Filters
  <1>5. Gives("average", k, h, ch, m, n, r.out)
    BY <1>2, <1>4, Zenon DEF Gives
  <1>. QED
    BY <1>3, <1>5

\* New input to an average starts a new drain, and is no other run.
LEMMA AverageRenderRight ==
  ASSUME NEW k, Formed("average", k), Runnable("average", k), NEW ch \in Nat,
         Shaped("average", k, ch), NEW n \in Nat, NEW m \in Nat, NEW h, NEW run,
         AllFeed(Input(run), h.x, ch, m, n), NEW slip \in -1..1,
         Right("average", k, h, ch, m), NEW r, r = AverageRender(k, run, slip)
  PROVE  /\ Right("average", r.kernel, h, ch, m + n)
         /\ Gives("average", k, h, ch, m, n, r.out)
  <1> DEFINE j == [k EXCEPT !.flushed = 0]
             x == h.x
             planes == Input(run)
  <1>1. k.taps \in Nat /\ DOMAIN k = {"taps", "rings", "sums", "ring_pos", "flushed"}
    BY SMT DEF Formed
  <1>2. /\ j.rings = k.rings /\ j.sums = k.sums /\ j.ring_pos = k.ring_pos
        /\ j.flushed = 0 /\ j.taps = k.taps /\ DOMAIN j = DOMAIN k
    BY <1>1
  <1>3. r = AverageRun(j, planes, slip) /\ x = h.x /\ AllFeed(planes, x, ch, m, n)
    BY Zenon DEF AverageRender
  <1> HIDE DEF j, x, planes
  <1>4. AverageTail(j) = AverageTail(k) /\ AverageTail(k) \in Nat
    BY <1>1, <1>2 DEF AverageTail
  <1>5. Shaped("average", j, ch)
    <2>1. /\ j.rings \in [1..ch -> [0..(j.taps - 1) -> Int]] /\ j.sums \in [1..ch -> Int]
          /\ j.ring_pos \in 0..AverageTail(j) /\ j.flushed \in 0..AverageTail(j)
      BY <1>2, <1>4 DEF Shaped
    <2>. QED
      BY <2>1, Zenon DEF Shaped, Filters
  <1>6. Formed("average", j) /\ Runnable("average", j)
    BY <1>1, <1>2 DEF Formed, Runnable
  <1>7. Right("average", j, h, ch, m)
    BY <1>2 DEF Right, AveragesRight, Filters
  <1>8. /\ Right("average", r.kernel, h, ch, m + n)
        /\ Gives("average", j, h, ch, m, n, r.out)
    BY <1>3, <1>5, <1>6, <1>7, AverageRunRight
  <1>9. \A c, i, v : OkAt("average", j, h, c, i, v) <=> OkAt("average", k, h, c, i, v)
    BY <1>2 DEF OkAt, Filters
  <1>10. Gives("average", k, h, ch, m, n, r.out)
    BY <1>8, <1>9, Zenon DEF Gives
  <1>. QED
    BY <1>8, <1>10

\* A filter's run of the next frames, whatever else of the kernel it settles.
LEMMA FilterRunRight ==
  ASSUME NEW kind_ \in Filters, NEW k, Formed(kind_, k), NEW ch \in Nat, Shaped(kind_, k, ch),
         NEW n \in Nat, NEW m \in Nat, NEW h, NEW x, x = h.x, NEW planes,
         AllFeed(planes, x, ch, m, n), NEW r, Works(kind_, r), FilteredBy(kind_, k, h, r, m, n),
         Right(kind_, k, h, ch, m), NEW done, done = FilterRun(kind_, k.state, planes, r),
         NEW j, Holds(k, j), j.state = done.state,
         kind_ = "dc_blocker" =>
           j.flush_r = Pole(IF m + n = 0 THEN FiniteOrZero(k.params[1].default) ELSE h.p[m + n][1], k.fs),
         kind_ = "biquad" => j.flush_coeffs = RuntimeCoeffs(k, ParamsAt(k, h, m + n))
  PROVE  /\ Right(kind_, j, h, ch, m + n)
         /\ Gives(kind_, k, h, ch, m, n, done.out)
  <1>1. StatesRight(kind_, k, h, ch, m)
    BY Zenon DEF Right
  <1> DEFINE states == k.state
  <1>2. DOMAIN states = 1..ch
    BY Zenon DEF Shaped
  <1>3. EachRight(kind_, k, h, ch, states, m) /\ done = FilterRun(kind_, states, planes, r)
    BY <1>1, <1>2, Zenon DEF StatesRight, EachRight
  <1> HIDE DEF states
  <1>4. /\ EachRight(kind_, k, h, ch, done.state, m + n)
        /\ DOMAIN done.out = 1..ch
        /\ \A c \in 1..ch : FilterOuts(kind_, k, h, c, done.out[c], m, n)
    <2>1. MovedOn(kind_, k, h, ch, done, m, n)
      BY <1>3, FilterRunExact, Zenon
    <2>. QED
      BY <2>1, Zenon DEF MovedOn
  <1>5. /\ \A c, s, i : StateRight(kind_, j, h, c, s, i) <=> StateRight(kind_, k, h, c, s, i)
        /\ \A p : FilterOf(kind_, j, p) = FilterOf(kind_, k, p)
        /\ j.params = k.params /\ j.fs = k.fs
    BY AnswersHold
  <1>6. kind_ = "biquad" => \A p : RuntimeCoeffs(j, p) = RuntimeCoeffs(k, p)
    <2>1. "biquad" # "dc_blocker"
      OBVIOUS
    <2>. QED
      BY <1>5, <2>1, Zenon DEF FilterOf
  <1>7. ParamsAt(j, h, m + n) = ParamsAt(k, h, m + n)
    BY <1>5, Zenon DEF ParamsAt, BiquadDefaults
  <1>8. StatesRight(kind_, j, h, ch, m + n)
    <2>1. \A c \in 1..ch : StateRight(kind_, j, h, c, j.state[c], m + n)
      BY <1>4, <1>5, Zenon DEF EachRight
    <2>2. kind_ = "dc_blocker" => j.flush_r = Pole(IF m + n = 0 THEN FiniteOrZero(j.params[1].default)
                                                   ELSE h.p[m + n][1], j.fs)
      BY <1>5
    <2>3. kind_ = "biquad" => j.flush_coeffs = RuntimeCoeffs(j, ParamsAt(j, h, m + n))
      BY <1>6, <1>7
    <2>. QED
      BY <2>1, <2>2, <2>3, Zenon DEF StatesRight
  <1>9. Right(kind_, j, h, ch, m + n)
    BY <1>8 DEF Right, Filters
  <1>10. \A c \in 1..ch : /\ DOMAIN done.out[c] = 1..n
                          /\ \A i \in 1..n : OkAt(kind_, k, h, c, m + i, done.out[c][i])
    <2> TAKE c \in 1..ch
    <2>1. /\ DOMAIN done.out[c] = 1..n
          /\ \A i \in 1..n : \A y : Answers(kind_, k, h, c, y, m + i) => done.out[c][i] = y[m + i]
      BY <1>4, Zenon DEF FilterOuts
    <2>2. kind_ \notin {"average", "dynamics", "oscillator", "noise", "dither"}
      BY DEF Filters
    <2>. QED
      BY <2>1, <2>2, Zenon DEF OkAt
  <1>11. Gives(kind_, k, h, ch, m, n, done.out)
    BY <1>4, <1>10, Zenon DEF Gives
  <1>. QED
    BY <1>9, <1>11

\* A block's run of a filter.
LEMMA FilterRenderRight ==
  ASSUME NEW kind_ \in Filters, NEW k, Formed(kind_, k), NEW ch \in Nat, Shaped(kind_, k, ch),
         NEW n \in Nat \ {0}, NEW m \in Nat, NEW h, NEW run, AllFeed(Input(run), h.x, ch, m, n),
         NEW p, Steers(kind_, k, p), \A i \in 1..n : h.p[m + i] = p,
         Right(kind_, k, h, ch, m), NEW r,
         r = IF kind_ = "dc_blocker" THEN DcRender(k, run, p) ELSE BiquadRender(k, run, p)
  PROVE  /\ Right(kind_, r.kernel, h, ch, m + n)
         /\ Gives(kind_, k, h, ch, m, n, r.out)
  <1> DEFINE f == FilterOf(kind_, k, p)
             planes == Input(run)
             x == h.x
             done == FilterRun(kind_, k.state, planes, f)
             j == r.kernel
  <1>1. Works(kind_, f)
    BY Zenon DEF Steers
  <1>2. FilteredBy(kind_, k, h, f, m, n)
    BY DEF FilteredBy
  <1>3. h.p[m + n] = p /\ m + n # 0
    BY <1>1
  <1>4. Holds(k, j)
    BY FiltersKeep, Zenon
  <1>5. {"state", "flushed"} \subseteq DOMAIN k
        /\ (kind_ = "dc_blocker" => "flush_r" \in DOMAIN k)
        /\ (kind_ = "biquad" => "flush_coeffs" \in DOMAIN k)
    BY SMT DEF Formed, Filters
  <1>6. AllFeed(planes, x, ch, m, n) /\ x = h.x
    OBVIOUS
  <1>7. /\ j.state = done.state /\ r.out = done.out
        /\ kind_ = "dc_blocker" => j.flush_r = f
        /\ kind_ = "biquad" => j.flush_coeffs = f
    <2>1. CASE kind_ = "dc_blocker"
      <3> DEFINE g == Pole(p[1], k.fs)
      <3>1. f = g
        BY <2>1 DEF FilterOf
      <3>2. done = FilterRun(kind_, k.state, planes, g)
        <4> HIDE DEF f, g
        <4>. QED
          BY <3>1
      <3>4. FilterRun(kind_, k.state, planes, g)
              = RunStates(k.state, planes, LAMBDA s, z : DcStep(s, z, g))
        BY <2>1, Zenon DEF FilterRun
      <3>3. r = [kernel |-> [k EXCEPT !.flushed = 0, !.flush_r = f, !.state = done.state],
                 out |-> done.out]
        <4>1. r = [kernel |-> [k EXCEPT !.flushed = 0, !.flush_r = g,
                                        !.state = FilterRun(kind_, k.state, planes, g).state],
                   out |-> FilterRun(kind_, k.state, planes, g).out]
          BY <2>1, <3>4, Zenon DEF DcRender
        <4> HIDE DEF done, f, g
        <4>. QED
          BY <3>1, <3>2, <4>1
      <3> HIDE DEF done, f, g
      <3>5. kind_ # "biquad"
        BY <2>1
      <3>6. {"state", "flush_r", "flushed"} \subseteq DOMAIN k
        BY <1>5, <2>1
      <3> DEFINE z == done.state
                 l == [k EXCEPT !.flushed = 0, !.flush_r = f, !.state = z]
      <3>7. r.kernel = l /\ r.out = done.out
        BY <3>3
      <3>8. l.state = z /\ l.flush_r = f
        <4> HIDE DEF z
        <4>. QED
          BY <3>6
      <3>. QED
        BY <3>5, <3>7, <3>8
    <2>2. CASE kind_ = "biquad"
      <3>0. "biquad" # "dc_blocker"
        OBVIOUS
      <3> DEFINE g == RuntimeCoeffs(k, p)
      <3>1. f = g
        BY <2>2, <3>0, Zenon DEF FilterOf
      <3>2. done = FilterRun(kind_, k.state, planes, g)
        <4> HIDE DEF f, g
        <4>. QED
          BY <3>1
      <3>4. FilterRun(kind_, k.state, planes, g)
              = RunStates(k.state, planes, LAMBDA s, z : BiquadStep(s, z, g))
        BY <2>2, <3>0, Zenon DEF FilterRun
      <3>3. r = [kernel |-> [k EXCEPT !.flushed = 0, !.flush_coeffs = f, !.state = done.state],
                 out |-> done.out]
        <4>1. r = [kernel |-> [k EXCEPT !.flushed = 0, !.flush_coeffs = g,
                                        !.state = FilterRun(kind_, k.state, planes, g).state],
                   out |-> FilterRun(kind_, k.state, planes, g).out]
          BY <2>2, <3>0, <3>4, Zenon DEF BiquadRender
        <4> HIDE DEF done, f, g
        <4>. QED
          BY <3>1, <3>2, <4>1
      <3> HIDE DEF done, f, g
      <3>5. kind_ # "dc_blocker"
        BY <2>2
      <3>6. {"state", "flush_coeffs", "flushed"} \subseteq DOMAIN k
        BY <1>5, <2>2
      <3> DEFINE z == done.state
                 l == [k EXCEPT !.flushed = 0, !.flush_coeffs = f, !.state = z]
      <3>7. r.kernel = l /\ r.out = done.out
        BY <3>3
      <3>8. l.state = z /\ l.flush_coeffs = f
        <4> HIDE DEF z
        <4>. QED
          BY <3>6
      <3>. QED
        BY <3>5, <3>7, <3>8
    <2>. QED
      BY <2>1, <2>2 DEF Filters
  <1>8. /\ kind_ = "dc_blocker" =>
             j.flush_r = Pole(IF m + n = 0 THEN FiniteOrZero(k.params[1].default) ELSE h.p[m + n][1], k.fs)
        /\ kind_ = "biquad" => j.flush_coeffs = RuntimeCoeffs(k, ParamsAt(k, h, m + n))
    <2>1. kind_ = "biquad" => ~ (kind_ = "dc_blocker")
      OBVIOUS
    <2>. QED
      BY <1>3, <1>7, <2>1, Zenon DEF ParamsAt, FilterOf
  <1>9. done = FilterRun(kind_, k.state, planes, f)
    OBVIOUS
  <1> HIDE DEF f, planes, x, done, j
  <1>10. n \in Nat
    OBVIOUS
  <1>11. /\ Right(kind_, j, h, ch, m + n)
         /\ Gives(kind_, k, h, ch, m, n, done.out)
    BY <1>1, <1>2, <1>4, <1>6, <1>7, <1>8, <1>9, <1>10, FilterRunRight
  <1>. QED
    BY <1>7, <1>11 DEF j
=============================================================================
