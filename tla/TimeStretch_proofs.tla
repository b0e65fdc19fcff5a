------------------------- MODULE TimeStretch_proofs -------------------------
(***************************************************************************)
(* The stretcher's duration and its output, for every window, hop, source  *)
(* and host.                                                               *)
(***************************************************************************)
EXTENDS TimeStretch, TLAPS

\* Quotients by a positive divisor, as the solver needs them.
LEMMA Quotient ==
  ASSUME NEW a \in Nat, NEW b \in Nat \ {0}
  PROVE  /\ a \div b \in Nat
         /\ b * (a \div b) <= a
         /\ a < b * (a \div b) + b
  BY Z3

\* Products by the same factor keep an order, and lose none.
LEMMA TimesMono ==
  ASSUME NEW a \in Int, NEW b \in Int, NEW c \in Nat, a <= b
  PROVE  a * c <= b * c
  BY SMT

\* A quotient is at least what fits, and at most what does not leave another.
LEMMA QuotientBounds ==
  ASSUME NEW a \in Nat, NEW b \in Nat \ {0}, NEW m \in Int
  PROVE  /\ m * b <= a => m <= a \div b
         /\ a < m * b + b => a \div b <= m
<1> DEFINE q == a \div b
<1>1. q \in Nat /\ b * q <= a /\ a < b * q + b
  BY Quotient
<1> HIDE DEF q
<1>2. b * q = q * b /\ q * b \in Int /\ m * b \in Int
  BY <1>1, SMT
<1>3. ASSUME m * b <= a PROVE m <= q
  <2> SUFFICES ASSUME q < m PROVE FALSE
    BY <1>1
  <2>1. q + 1 <= m /\ q + 1 \in Int
    BY <1>1
  <2>2. (q + 1) * b <= m * b
    BY <2>1, TimesMono
  <2>3. (q + 1) * b = q * b + b
    BY <1>1, SMT
  <2> QED BY <1>1, <1>2, <1>3, <2>2, <2>3
<1>4. ASSUME a < m * b + b PROVE q <= m
  <2> SUFFICES ASSUME m < q PROVE FALSE
    BY <1>1
  <2>1. m + 1 <= q /\ m + 1 \in Int
    BY <1>1
  <2>2. (m + 1) * b <= q * b
    BY <1>1, <2>1, TimesMono
  <2>3. (m + 1) * b = m * b + b
    BY SMT
  <2> QED BY <1>1, <1>2, <1>4, <2>2, <2>3
<1> QED BY <1>3, <1>4 DEF q

Sums == SUBSET (Slots \X Nat)

(***************************************************************************)
(* The inductive invariant: after h windows the stretcher has finalized    *)
(* h - 1 hops, and one more with the tail, cut at the rounded duration     *)
(* once that is known; until the input ends its windows are whole.         *)
(***************************************************************************)
Made(h) == (IF h = 0 THEN 0 ELSE (h - 1) * HS) + (IF tail_flushed THEN HS ELSE 0)

Capped(n) == IF target_output = None THEN n ELSE Smaller(n, target_output)

AfterHops(h) ==
  /\ analysis_start = h * ha - HS
  /\ startup_drop = IF h = 0 THEN HS ELSE 0
  /\ in_fill >= IF h = 0 THEN HS ELSE W - ha
  /\ ~ input_eof => analysis_start + in_fill = input_pulled
  /\ tail_flushed => input_eof /\ h # 0 /\ analysis_start >= input_pulled
  /\ output_emitted + Len(fifo) = Capped(Made(h))

\* The input ended before its first frame.
EndedEmpty ==
  /\ input_eof /\ input_pulled = 0 /\ in_fill < W /\ tail_flushed
  /\ fifo = <<>> /\ output_emitted = 0

EndInv ==
  /\ target_output = IF input_eof THEN RoundedOutputFrames(input_pulled) ELSE None
  /\ pc # "idle" => ha # HS
  /\ ha # HS => read = input_pulled

IInv ==
  /\ TypeOK /\ FifoBound /\ EndInv
  /\ EndedEmpty \/ \E h \in Nat : AfterHops(h)

LEMMA Widths ==
  ASSUME TypeOK
  PROVE  /\ HS \in Nat \ {0} /\ W \in Nat /\ W = 2 * HS
         /\ ha \in Nat \ {0} /\ ha <= W /\ HS <= 2 * ha
         /\ (ha \div 2) \in Nat /\ (ha \div 2) < ha
         /\ Slots = 0..(W - 1)
  BY StretchAssumption DEF TypeOK, Hops, W, Slots

LEMMA Rounded ==
  ASSUME TypeOK, NEW n \in Nat
  PROVE  /\ RoundedOutputFrames(n) \in Nat
         /\ \A k \in Nat : k * ha <= n * HS => k <= RoundedOutputFrames(n)
         /\ \A k \in Nat : n * HS <= k * ha => RoundedOutputFrames(n) <= k
<1> DEFINE half == ha \div 2
           num == n * HS + half
           b == ha
<1>1. half \in Nat /\ half < ha /\ ha \in Nat \ {0} /\ HS \in Nat
  BY Widths
<1>2. n * HS \in Nat /\ num \in Nat
  BY <1>1
<1>3. RoundedOutputFrames(n) = num \div b
  BY DEF RoundedOutputFrames
<1> HIDE DEF num, half, b
<1>4. num \div b \in Nat
  BY <1>1, <1>2, Quotient DEF b
<1>5. ASSUME NEW k \in Nat PROVE k * ha \in Nat /\ k * b = k * ha
  BY <1>1 DEF b
<1>6. ASSUME NEW k \in Nat, k * ha <= n * HS PROVE k <= num \div b
  <2>1. k * b <= num
    BY <1>1, <1>2, <1>5, <1>6 DEF num
  <2> QED BY <1>1, <1>2, <2>1, QuotientBounds DEF b
<1>7. ASSUME NEW k \in Nat, n * HS <= k * ha PROVE num \div b <= k
  <2>1. num < k * b + b
    BY <1>1, <1>2, <1>5, <1>7 DEF num, b
  <2> QED BY <1>1, <1>2, <2>1, QuotientBounds DEF b
<1> QED BY <1>3, <1>4, <1>6, <1>7

\* What push_finalized does to an empty queue.
LEMMA PushFacts ==
  ASSUME TypeOK, fifo = <<>>, NEW a \in [Slots -> Sums], PushFinalized(a)
  PROVE  /\ fifo' \in Seq(Sums)
         /\ startup_drop' = 0
         /\ Len(fifo') = Smaller(HS - startup_drop,
                                 IF target_output = None THEN HS
                                 ELSE IF output_emitted >= target_output THEN 0
                                 ELSE target_output - output_emitted)
         /\ Len(fifo') <= HS
<1> DEFINE room == IF target_output = None THEN HS
                   ELSE IF output_emitted >= target_output THEN 0
                   ELSE target_output - output_emitted
           n == Smaller(HS - startup_drop, room)
<1>1. /\ HS \in Nat \ {0} /\ Slots = 0..(W - 1) /\ W = 2 * HS
      /\ startup_drop \in 0..HS /\ output_emitted \in Nat
      /\ target_output \in Nat \cup {None}
  BY Widths DEF TypeOK
<1>2. Smaller(startup_drop, HS) = startup_drop
  BY <1>1 DEF Smaller
<1>3. Len(fifo) = 0 /\ output_emitted + Len(fifo) = output_emitted
  BY <1>1
<1>4. room \in Nat
  BY <1>1
<1> HIDE DEF room
<1>5. n \in Nat /\ n <= HS - startup_drop
  BY <1>1, <1>4 DEF Smaller
<1>6. startup_drop' = 0
  BY <1>1, <1>2 DEF PushFinalized
<1>7. fifo' = <<>> \o [i \in 1..n |-> a[startup_drop + i - 1]]
  BY <1>2, <1>3 DEF PushFinalized, room
<1> HIDE DEF n
<1>8. ASSUME NEW i \in 1..n PROVE a[startup_drop + i - 1] \in Sums
  <2>1. startup_drop + i - 1 \in Slots
    BY <1>1, <1>5
  <2> QED BY <2>1
<1> DEFINE s == [i \in 1..n |-> a[startup_drop + i - 1]]
<1>9. s \in Seq(Sums) /\ Len(s) = n
  BY <1>5, <1>8
<1> HIDE DEF s
<1>10. fifo' = <<>> \o s
  BY <1>7 DEF s
<1>11. fifo' = s
  BY <1>9, <1>10
<1> QED BY <1>1, <1>5, <1>6, <1>9, <1>11 DEF n, room

\* The accumulator after a window is still sums of taps.
LEMMA OverlappedType ==
  ASSUME TypeOK, NEW buf \in [Slots -> Nat \cup {Blank}]
  PROVE  Overlapped(buf) \in [Slots -> Sums]
<1>1. acc \in [Slots -> Sums]
  BY DEF TypeOK, Sums
<1>2. ASSUME NEW s \in Slots
      PROVE  (IF buf[s] = Blank THEN acc[s] ELSE acc[s] \cup {<<s, buf[s]>>}) \in Sums
  <2>1. acc[s] \in Sums
    BY <1>1
  <2>2. CASE buf[s] = Blank
    BY <2>1, <2>2
  <2>3. CASE buf[s] # Blank
    <3>1. buf[s] \in Nat
      BY <2>3
    <3> QED BY <2>1, <2>3, <3>1 DEF Sums
  <2> QED BY <2>2, <2>3
<1> QED BY <1>2 DEF Overlapped

LEMMA Products ==
  ASSUME TypeOK, NEW h \in Nat
  PROVE  /\ h * ha \in Nat /\ h * HS \in Nat
         /\ (h + 1) * ha = h * ha + ha
         /\ (h + 1) - 1 = h
         /\ h # 0 => (h - 1) * HS \in Nat /\ h * HS = (h - 1) * HS + HS
         /\ h # 0 => (h - 1) * ha \in Nat /\ h * ha = (h - 1) * ha + ha
         /\ h # 0 => ha <= h * ha
<1>1. ha \in Nat \ {0} /\ HS \in Nat \ {0}
  BY Widths
<1>2. h * ha \in Nat /\ h * HS \in Nat /\ (h + 1) * ha = h * ha + ha
  BY <1>1, SMT
<1>3. ASSUME h # 0
      PROVE  /\ (h - 1) * HS \in Nat /\ h * HS = (h - 1) * HS + HS
             /\ (h - 1) * ha \in Nat /\ h * ha = (h - 1) * ha + ha
  <2>1. h - 1 \in Nat
    BY <1>3
  <2> QED BY <1>1, <2>1, SMT
<1> QED BY <1>1, <1>2, <1>3

\* The next window adds a hop to what is made, but for the first, all padding.
LEMMA NextMade ==
  ASSUME TypeOK, NEW h \in Nat
  PROVE  /\ Made(h) \in Nat
         /\ Made(h + 1) = Made(h) + (IF h = 0 THEN 0 ELSE HS)
<1>1. HS \in Nat \ {0}
  BY Widths
<1>2. CASE h = 0
  BY <1>1, <1>2 DEF Made
<1>3. CASE h # 0
  <2> DEFINE x == (h - 1) * HS
             y == h * HS
             m == (h + 1) - 1
  <2>1. x \in Nat /\ y = x + HS /\ m = h /\ h + 1 # 0
    BY <1>3, Products
  <2>2. m * HS = y
    BY <2>1
  <2>3. /\ Made(h) = x + (IF tail_flushed THEN HS ELSE 0)
        /\ Made(h + 1) = m * HS + (IF tail_flushed THEN HS ELSE 0)
    BY <1>3, <2>1 DEF Made
  <2> HIDE DEF x, y, m
  <2>4. IF h = 0 THEN FALSE ELSE TRUE
    BY <1>3
  <2> QED BY <1>1, <1>3, <2>1, <2>2, <2>3
<1> QED BY <1>2, <1>3

(***************************************************************************)
(* When the source reports its end, after any delay, what has been made    *)
(* is within the rounded duration: every window so far was full.           *)
(***************************************************************************)
LEMMA MadeInTime ==
  ASSUME TypeOK, NEW h \in Nat, NEW n \in Nat, ~ tail_flushed,
         h # 0 => (h * ha - HS) + (W - ha) <= n
  PROVE  Made(h) <= RoundedOutputFrames(n)
<1>1. CASE h = 0
  <2>1. RoundedOutputFrames(n) \in Nat
    BY Rounded
  <2> QED BY <1>1, <2>1 DEF Made
<1>2. CASE h # 0
  <2> DEFINE k == h - 1
             m == k * HS
  <2>1. k \in Nat /\ HS \in Nat \ {0} /\ ha \in Nat \ {0} /\ W = 2 * HS
    BY <1>2, Widths
  <2>2. k * ha \in Nat /\ h * ha = k * ha + ha
    BY <1>2, Products
  <2>3. k * ha <= n
    BY <1>2, <2>1, <2>2
  <2>4. (k * ha) * HS <= n * HS
    BY <2>1, <2>2, <2>3, TimesMono
  <2>5. (k * ha) * HS = m * ha /\ m \in Nat
    BY <2>1, SMT
  <2> HIDE DEF m
  <2>6. m <= RoundedOutputFrames(n)
    BY <2>4, <2>5, Rounded
  <2>7. Made(h) = m
    BY <1>2, <2>5 DEF Made, m
  <2> QED BY <2>6, <2>7
<1> QED BY <1>1, <1>2

\* The windows that start inside the input, and the tail, make up its duration.
LEMMA MadeEnough ==
  ASSUME TypeOK, NEW h \in Nat, NEW n \in Nat, h # 0, tail_flushed, n <= h * ha - HS
  PROVE  RoundedOutputFrames(n) <= Made(h)
<1>1. HS \in Nat \ {0} /\ ha \in Nat \ {0} /\ h * ha \in Nat /\ h * HS \in Nat
  BY Widths, Products
<1>2. n <= h * ha
  BY <1>1
<1>3. n * HS <= (h * ha) * HS
  BY <1>1, <1>2, TimesMono
<1>4. (h * ha) * HS = (h * HS) * ha
  BY <1>1, SMT
<1>5. RoundedOutputFrames(n) <= h * HS
  BY <1>1, <1>3, <1>4, Rounded
<1>6. Made(h) = h * HS
  BY Products, Widths DEF Made
<1> QED BY <1>5, <1>6

\* No input, no output.
LEMMA NothingRounded ==
  ASSUME TypeOK
  PROVE  RoundedOutputFrames(0) = 0
<1>1. 0 * HS <= 0 * ha /\ 0 \in Nat
  BY Widths
<1>2. RoundedOutputFrames(0) <= 0 /\ RoundedOutputFrames(0) \in Nat
  BY <1>1, Rounded
<1> QED BY <1>2

-----------------------------------------------------------------------------
LEMMA InitIInv == Init => IInv
<1> SUFFICES ASSUME Init PROVE IInv
  OBVIOUS
<1>1. HS \in Nat \ {0} /\ W \in Nat /\ W = 2 * HS
  BY StretchAssumption DEF W
<1>2. TypeOK
  <2>1. in_buf \in [Slots -> Nat \cup {Blank}] /\ acc \in [Slots -> SUBSET (Slots \X Nat)]
    BY DEF Init, NoWindow, NoSums
  <2>2. in_fill \in 0..W /\ startup_drop \in 0..HS /\ analysis_start \in Int
    BY <1>1 DEF Init
  <2>3. /\ ha \in Hops /\ cap \in Caps \cup {AnySource} /\ length \in 0..MaxInput
        /\ read \in 0..length /\ input_pulled \in Nat /\ output_emitted \in Nat
        /\ need \in Nat /\ resets \in Nat
    BY StretchAssumption DEF Init
  <2>4. fifo \in Seq(SUBSET (Slots \X Nat)) /\ out \in Seq(SUBSET (Slots \X Nat))
    BY DEF Init
  <2> QED BY <2>1, <2>2, <2>3, <2>4 DEF Init, TypeOK
<1>3. FifoBound /\ EndInv
  BY <1>1 DEF Init, FifoBound, EndInv
<1>4. AfterHops(0)
  <2>1. 0 * ha = 0
    BY <1>2, Widths
  <2>2. target_output = None /\ Capped(Made(0)) = 0
    BY DEF Init, Capped, Made
  <2> QED BY <1>1, <2>1, <2>2 DEF Init, AfterHops
<1> QED BY <1>2, <1>3, <1>4 DEF IInv

\* While something is left to make, the hops are counted.
LEMMA Counted ==
  ASSUME IInv, ~ EndedEmpty
  PROVE  \E h \in Nat : AfterHops(h)
  BY DEF IInv

LEMMA HopKeeps ==
  ASSUME IInv, NEW buf \in [Slots -> Nat \cup {Blank}], Starved, ~ EndedEmpty,
         in_fill = W \/ input_eof, ProduceHop(buf),
         UNCHANGED <<ha, srcVars, input_pulled, input_eof, output_emitted, target_output,
                     tail_flushed, pc, need, hostVars>>
  PROVE  IInv'
<1> USE DEF IInv
<1>1. UNCHANGED <<ha, cap, length, read, src_done, input_pulled, input_eof, output_emitted,
                  target_output, tail_flushed, pc, need, done, out, resets>>
  BY DEF srcVars, hostVars
<1> DEFINE a == Overlapped(buf)
<1>2. /\ PushFinalized(a)
      /\ acc' = [s \in Slots |-> IF s < HS THEN a[s + HS] ELSE {}]
      /\ in_buf' = [s \in Slots |-> IF s < W - ha THEN buf[s + ha] ELSE Blank]
      /\ in_fill' = W - ha /\ analysis_start' = analysis_start + ha
  BY DEF ProduceHop
<1>3. a \in [Slots -> Sums]
  BY OverlappedType
<1> HIDE DEF a
<1>4. fifo = <<>>
  BY DEF Starved
<1>5. /\ fifo' \in Seq(Sums) /\ startup_drop' = 0 /\ Len(fifo') <= HS
      /\ Len(fifo') = Smaller(HS - startup_drop,
                              IF target_output = None THEN HS
                              ELSE IF output_emitted >= target_output THEN 0
                              ELSE target_output - output_emitted)
  BY <1>2, <1>3, <1>4, PushFacts
<1>6. /\ HS \in Nat \ {0} /\ W \in Nat /\ W = 2 * HS /\ ha \in Nat \ {0} /\ ha <= W
      /\ Slots = 0..(W - 1)
  BY Widths
<1>7. TypeOK'
  <2>1. acc' \in [Slots -> Sums]
    <3>1. ASSUME NEW s \in Slots, s < HS PROVE a[s + HS] \in Sums
      BY <1>3, <1>6, <3>1
    <3>2. {} \in Sums
      BY DEF Sums
    <3> QED BY <1>2, <3>1, <3>2
  <2>2. in_buf' \in [Slots -> Nat \cup {Blank}]
    <3>1. ASSUME NEW s \in Slots, s < W - ha PROVE buf[s + ha] \in Nat \cup {Blank}
      BY <1>6, <3>1
    <3> QED BY <1>2, <3>1
  <2>3. in_fill' \in 0..W /\ analysis_start' \in Int /\ startup_drop' \in 0..HS
    <3>1. in_fill' = W - ha /\ analysis_start' = analysis_start + ha /\ startup_drop' = 0
          /\ analysis_start \in Int
      BY <1>2, <1>5 DEF TypeOK
    <3> QED BY <1>6, <3>1
  <2> QED BY <1>1, <1>5, <2>1, <2>2, <2>3 DEF TypeOK, Sums, Hops
<1>8. FifoBound' /\ EndInv'
  BY <1>1, <1>5 DEF FifoBound, EndInv, RoundedOutputFrames
<1>9. PICK h \in Nat : AfterHops(h)
  BY Counted
<1>10. AfterHops(h + 1)'
  <2>1. /\ Made(h) \in Nat /\ Made(h + 1) = Made(h) + (IF h = 0 THEN 0 ELSE HS)
        /\ Made(h + 1)' = Made(h + 1)
    BY <1>1, NextMade DEF Made
  <2>2. (h + 1) * ha = h * ha + ha /\ h * ha \in Nat
    BY Products
  <2>3. output_emitted = Capped(Made(h)) /\ output_emitted \in Nat
    BY <1>4, <1>9 DEF AfterHops, TypeOK
  <2>4. output_emitted' + Len(fifo') = Capped(Made(h + 1))
    <3> DEFINE m == Made(h)
    <3>1. m \in Nat /\ target_output \in Nat \cup {None} /\ startup_drop = (IF h = 0 THEN HS ELSE 0)
      BY <1>9, <2>1 DEF AfterHops, TypeOK
    <3>2. Made(h + 1) = m + (IF h = 0 THEN 0 ELSE HS)
      BY <2>1
    <3> HIDE DEF m
    <3> QED BY <1>1, <1>5, <1>6, <2>3, <3>1, <3>2 DEF Capped, Smaller, m
  <2>5. Capped(Made(h + 1))' = Capped(Made(h + 1))
    BY <1>1, <2>1 DEF Capped, Smaller
  <2>9. /\ analysis_start \in Int /\ input_pulled \in Nat /\ in_fill' = W - ha
        /\ analysis_start' = analysis_start + ha /\ h + 1 # 0
    BY <1>2 DEF TypeOK
  <2>6. ~ input_eof => analysis_start' + in_fill' = input_pulled
    <3>1. ~ input_eof => analysis_start + W = input_pulled
      BY <1>9 DEF AfterHops
    <3> QED BY <1>6, <2>9, <3>1
  <2>7. tail_flushed => input_eof /\ h + 1 # 0 /\ analysis_start' >= input_pulled
    <3>1. tail_flushed => input_eof /\ analysis_start >= input_pulled
      BY <1>9 DEF AfterHops
    <3> QED BY <1>6, <2>9, <3>1
  <2>8. analysis_start' = (h + 1) * ha - HS
    <3>1. analysis_start = h * ha - HS
      BY <1>9 DEF AfterHops
    <3> QED BY <1>6, <2>2, <2>9, <3>1
  <2>10. startup_drop' = (IF h + 1 = 0 THEN HS ELSE 0)
         /\ in_fill' >= (IF h + 1 = 0 THEN HS ELSE W - ha)
    BY <1>5, <1>6, <2>9
  <2>11. W' = W /\ HS' = HS /\ ha' = ha
    BY <1>1 DEF W
  <2>12. (output_emitted + Len(fifo))' = Capped(Made(h + 1))'
    BY <2>4, <2>5
  <2> QED BY <1>1, <2>6, <2>7, <2>8, <2>10, <2>11, <2>12 DEF AfterHops
<1> QED BY <1>7, <1>8, <1>10

\* A step that leaves the stretcher's audio state alone keeps its counts.
LEMMA StillCounted ==
  ASSUME IInv,
         UNCHANGED <<ha, inVars, hopVars, outVars, tail_flushed>>
  PROVE  /\ FifoBound'
         /\ target_output' = (IF input_eof THEN RoundedOutputFrames(input_pulled) ELSE None)'
         /\ EndedEmpty' \/ \E h \in Nat : AfterHops(h)'
<1>1. UNCHANGED <<ha, in_buf, in_fill, input_pulled, input_eof, analysis_start, acc,
                  startup_drop, fifo, output_emitted, target_output, tail_flushed>>
  BY DEF inVars, hopVars, outVars
<1>2. FifoBound'
  BY <1>1 DEF IInv, FifoBound
<1>3. target_output' = (IF input_eof THEN RoundedOutputFrames(input_pulled) ELSE None)'
  BY <1>1 DEF IInv, EndInv, RoundedOutputFrames
<1>4. CASE EndedEmpty
  BY <1>1, <1>2, <1>3, <1>4 DEF EndedEmpty, W
<1>5. ASSUME NEW h \in Nat, AfterHops(h) PROVE AfterHops(h)'
  BY <1>1, <1>5 DEF AfterHops, Capped, Made, Smaller, W
<1> QED BY <1>2, <1>3, <1>4, <1>5 DEF IInv

\* What a pull gives: no more than wanted, no more than there is.
LEMMA PullFacts ==
  ASSUME TypeOK, NEW want \in Nat, NEW p \in Pull(want)
  PROVE  /\ p.frames \in Nat /\ p.frames <= want
         /\ p.done \in BOOLEAN /\ read + p.frames \in 0..length
<1>1. /\ read \in 0..length /\ length \in Nat /\ length - read \in Nat
      /\ cap \in Caps \cup {AnySource} /\ Caps \subseteq Nat \ {0}
  BY StretchAssumption DEF TypeOK
<1>2. CASE cap = AnySource
  BY <1>1, <1>2 DEF Pull, FreePull, Smaller
<1>3. CASE cap # AnySource
  <2>1. cap \in Nat
    BY <1>1, <1>3
  <2> DEFINE n == Smaller(want, Smaller(length - read, cap))
  <2>2. n \in Nat /\ n <= want /\ n <= length - read
    BY <1>1, <2>1 DEF Smaller
  <2> HIDE DEF n
  <2>3. p = [frames |-> n, done |-> read + n >= length]
    BY <1>3 DEF Pull, RingPull, n
  <2> QED BY <1>1, <2>2, <2>3
<1> QED BY <1>2, <1>3

LEMMA CallKeeps ==
  ASSUME IInv, NEW n \in 0..MaxNeed, Call(n)
  PROVE  IInv'
<1>1. /\ pc' = "more" /\ need' = n /\ ha # HS
      /\ UNCHANGED <<ha, cap, length, read, src_done, in_buf, in_fill, input_pulled, input_eof,
                     analysis_start, acc, startup_drop, fifo, output_emitted, target_output,
                     tail_flushed, done, out, resets>>
      /\ UNCHANGED <<ha, inVars, hopVars, outVars, tail_flushed>>
  BY DEF Call, srcVars, inVars, hopVars, outVars, hostVars
<1>2. TypeOK'
  BY <1>1, StretchAssumption DEF IInv, TypeOK, Hops
<1> QED BY <1>1, <1>2, StillCounted DEF IInv, EndInv

LEMMA ThroughKeeps ==
  ASSUME IInv, NEW n \in 0..MaxNeed, Through(n)
  PROVE  IInv'
<1>1. PICK p \in Pull(n) :
        /\ Take(p)
        /\ out' = out \o [i \in 1..p.frames |-> {<<HS, read + i - 1>>}]
        /\ done' = p.done
  BY DEF Through
<1>2. /\ ha = HS /\ pc = "idle"
      /\ UNCHANGED <<ha, in_buf, in_fill, input_pulled, input_eof,
                     analysis_start, acc, startup_drop, fifo, output_emitted, target_output,
                     tail_flushed, pc, need, resets>>
      /\ UNCHANGED <<ha, inVars, hopVars, outVars, tail_flushed>>
  BY DEF Through, inVars, hopVars, outVars
<1>3. n \in Nat /\ TypeOK
  BY StretchAssumption DEF IInv
<1>4. /\ p.frames \in Nat /\ p.done \in BOOLEAN /\ read + p.frames \in 0..length
  BY <1>3, PullFacts
<1>5. out' \in Seq(SUBSET (Slots \X Nat))
  <2> DEFINE k == p.frames
             s == [i \in 1..k |-> {<<HS, read + i - 1>>}]
  <2>1. HS \in Slots /\ read \in Nat
    BY <1>3, Widths DEF TypeOK
  <2>2. ASSUME NEW i \in 1..k PROVE {<<HS, read + i - 1>>} \in SUBSET (Slots \X Nat)
    <3>1. read + i - 1 \in Nat
      BY <1>4, <2>1
    <3> QED BY <2>1, <3>1
  <2>3. k \in Nat
    BY <1>4
  <2>4. out' = out \o s
    BY <1>1
  <2> HIDE DEF k
  <2>5. s \in [1..k -> Sums]
    BY <2>2 DEF Sums
  <2> HIDE DEF s
  <2>6. s \in Seq(Sums)
    BY <2>3, <2>5
  <2>7. out \in Seq(Sums)
    BY <1>3 DEF TypeOK, Sums
  <2>8. out' \in Seq(Sums)
    BY <2>4, <2>6, <2>7
  <2> QED BY <2>8 DEF Sums
<1>6. TypeOK'
  BY <1>1, <1>2, <1>3, <1>4, <1>5 DEF TypeOK, Take, Hops
<1> QED BY <1>2, <1>6, StillCounted DEF IInv, EndInv

LEMMA DeliverKeeps ==
  ASSUME IInv, Deliver
  PROVE  IInv'
<1> DEFINE n == Smaller(need, Len(fifo))
<1>1. /\ pc = "more" /\ need > 0 /\ fifo # <<>>
      /\ out' = out \o SubSeq(fifo, 1, n)
      /\ fifo' = SubSeq(fifo, n + 1, Len(fifo))
      /\ output_emitted' = output_emitted + n
      /\ need' = need - n
      /\ UNCHANGED <<ha, cap, length, read, src_done, in_buf, in_fill, input_pulled, input_eof,
                     analysis_start, acc, startup_drop, target_output, tail_flushed, pc, done,
                     resets>>
  BY DEF Deliver, srcVars, inVars, hopVars
<1>2. /\ fifo \in Seq(Sums) /\ out \in Seq(Sums) /\ Len(fifo) \in Nat /\ need \in Nat
      /\ output_emitted \in Nat /\ HS \in Nat
  BY Widths DEF IInv, TypeOK, Sums
<1>3. n \in Nat /\ n <= need /\ n <= Len(fifo)
  BY <1>2 DEF Smaller
<1> HIDE DEF n
<1>4. /\ SubSeq(fifo, 1, n) \in Seq(Sums)
      /\ SubSeq(fifo, n + 1, Len(fifo)) \in Seq(Sums)
      /\ Len(SubSeq(fifo, n + 1, Len(fifo))) = Len(fifo) - n
  BY <1>2, <1>3
<1>5. TypeOK'
  <2>1. out' \in Seq(Sums) /\ fifo' \in Seq(Sums)
    <3> DEFINE head == SubSeq(fifo, 1, n)
    <3>1. out' = out \o head /\ head \in Seq(Sums)
      BY <1>1, <1>4
    <3> HIDE DEF head
    <3>2. out \o head \in Seq(Sums)
      BY <1>2, <3>1
    <3>3. fifo' \in Seq(Sums)
      BY <1>1, <1>4
    <3> QED BY <3>1, <3>2, <3>3
  <2>2. need' \in Nat /\ output_emitted' \in Nat
    BY <1>1, <1>2, <1>3
  <2> QED BY <1>1, <2>1, <2>2 DEF IInv, TypeOK, Sums, Hops
<1>6. Len(fifo') = Len(fifo) - n
  BY <1>1, <1>4
<1>7. FifoBound' /\ EndInv'
  BY <1>1, <1>2, <1>3, <1>6 DEF IInv, FifoBound, EndInv, RoundedOutputFrames
<1>8. ~ EndedEmpty
  BY <1>1 DEF EndedEmpty
<1>9. PICK h \in Nat : AfterHops(h)
  BY <1>8, Counted
<1>10. AfterHops(h)'
  <2>1. output_emitted' + Len(fifo') = output_emitted + Len(fifo)
    <3> DEFINE l == Len(fifo)
               m == Len(fifo')
    <3>1. output_emitted' = output_emitted + n /\ m = l - n /\ l \in Nat
          /\ output_emitted \in Nat /\ n \in Nat
      BY <1>1, <1>2, <1>3, <1>6
    <3> HIDE DEF l, m
    <3>2. output_emitted' + m = output_emitted + l
      BY <3>1
    <3> QED BY <3>2 DEF l, m
  <2>2. Capped(Made(h))' = Capped(Made(h))
    BY <1>1 DEF Capped, Made, Smaller
  <2>3. (output_emitted + Len(fifo))' = Capped(Made(h))'
    BY <1>9, <2>1, <2>2 DEF AfterHops
  <2> QED BY <1>1, <1>9, <2>3 DEF AfterHops, W
<1> QED BY <1>5, <1>7, <1>10 DEF IInv

LEMMA RefillKeeps ==
  ASSUME IInv, Refill
  PROVE  IInv'
<1> USE DEF IInv
<1>1. PICK p \in Pull(W - in_fill) :
        /\ Take(p)
        /\ in_buf' = Staged(p.frames)
        /\ in_fill' = in_fill + p.frames
        /\ input_pulled' = input_pulled + p.frames
        /\ input_eof' = p.done
        /\ target_output' = IF p.done THEN RoundedOutputFrames(input_pulled + p.frames)
                            ELSE target_output
        /\ pc' = IF p.frames = 0 /\ ~ p.done THEN "stop" ELSE "more"
  BY DEF Refill
<1>2. /\ pc = "more" /\ fifo = <<>> /\ in_fill < W /\ ~ input_eof
      /\ UNCHANGED <<ha, analysis_start, acc, startup_drop, fifo, output_emitted, tail_flushed,
                     need, done, out, resets>>
  BY DEF Refill, Starved, hopVars, hostVars
<1> DEFINE k == p.frames
<1>3. /\ W \in Nat /\ in_fill \in 0..W /\ input_pulled \in Nat /\ read \in Nat
      /\ HS \in Nat \ {0} /\ ha \in Nat \ {0} /\ W - in_fill \in Nat
  BY <1>2, Widths DEF TypeOK
<1>4. /\ k \in Nat /\ k <= W - in_fill /\ p.done \in BOOLEAN /\ read + k \in 0..length
  BY <1>3, PullFacts
<1>5. read' = read + k /\ src_done' = p.done /\ UNCHANGED <<cap, length>>
  BY <1>1 DEF Take
<1> HIDE DEF k
<1>6. target_output = None
  BY <1>2 DEF EndInv
<1>7. /\ RoundedOutputFrames(input_pulled + k) \in Nat
  BY <1>3, <1>4, Rounded
<1>8. TypeOK'
  <2>1. in_buf' \in [Slots -> Nat \cup {Blank}]
    <3>1. in_buf \in [Slots -> Nat \cup {Blank}]
      BY DEF TypeOK
    <3>2. ASSUME NEW s \in Slots, in_fill <= s, s < in_fill + k
          PROVE  read + (s - in_fill) \in Nat
      BY <1>3, <3>2, Widths
    <3> QED BY <1>1, <1>3, <3>1, <3>2 DEF Staged, k
  <2>2. in_fill' \in 0..W /\ input_pulled' \in Nat
    BY <1>1, <1>3, <1>4 DEF k
  <2>3. target_output' \in Nat \cup {None}
    BY <1>1, <1>6, <1>7 DEF k
  <2>4. read' \in 0..length' /\ src_done' \in BOOLEAN /\ input_eof' \in BOOLEAN
        /\ pc' \in {"idle", "more", "stop"}
    BY <1>1, <1>4, <1>5
  <2> QED BY <1>2, <1>5, <2>1, <2>2, <2>3, <2>4 DEF TypeOK, Hops
<1>9. FifoBound'
  BY <1>2, <1>3 DEF FifoBound
<1>10. EndInv'
  <2>1. target_output' = (IF input_eof THEN RoundedOutputFrames(input_pulled) ELSE None)'
    BY <1>1, <1>2, <1>4, <1>6 DEF RoundedOutputFrames, k
  <2>2. ha # HS /\ read = input_pulled
    BY <1>2 DEF EndInv
  <2> QED BY <1>1, <1>2, <1>5, <2>1, <2>2 DEF EndInv, k
<1>11. PICK h \in Nat : AfterHops(h)
  BY <1>2, Counted DEF EndedEmpty
<1>12. /\ analysis_start = h * ha - HS /\ h * ha \in Nat
       /\ in_fill >= (IF h = 0 THEN HS ELSE W - ha)
       /\ analysis_start + in_fill = input_pulled /\ ~ tail_flushed
       /\ output_emitted = Made(h) /\ output_emitted \in Nat /\ analysis_start \in Int
  BY <1>2, <1>6, <1>11, Products DEF AfterHops, Capped, TypeOK
<1>13. AfterHops(h)'
  <2> DEFINE least == IF h = 0 THEN HS ELSE W - ha
  <2>7. /\ in_fill' = in_fill + k /\ input_pulled' = input_pulled + k
        /\ analysis_start' = analysis_start /\ least \in Int
    BY <1>1, <1>2, <1>3 DEF k
  <2>1. /\ in_fill' >= least
        /\ analysis_start' + in_fill' = input_pulled'
    <3>1. in_fill >= least /\ analysis_start + in_fill = input_pulled /\ analysis_start \in Int
      BY <1>12
    <3> HIDE DEF least
    <3> QED BY <1>3, <1>4, <2>7, <3>1
  <2>2. p.done => Made(h) <= RoundedOutputFrames(input_pulled + k)
    <3>1. h # 0 => (h * ha - HS) + (W - ha) <= input_pulled + k
      BY <1>3, <1>4, <1>12
    <3>2. input_pulled + k \in Nat
      BY <1>3, <1>4
    <3> QED BY <1>12, <3>1, <3>2, MadeInTime
  <2>3. Made(h)' = Made(h) /\ Made(h) \in Nat
    BY <1>2, <1>12 DEF Made
  <2>4. (output_emitted + Len(fifo))' = output_emitted
    BY <1>2, <1>12
  <2>5. Capped(Made(h))' = Made(h)
    <3>1. CASE p.done
      <4>1. target_output' = RoundedOutputFrames(input_pulled + k)
        BY <1>1, <3>1 DEF k
      <4>2. target_output' # None
        BY <1>7, <4>1, StretchAssumption
      <4> QED BY <1>7, <2>2, <2>3, <3>1, <4>1, <4>2 DEF Capped, Smaller
    <3>2. CASE ~ p.done
      BY <1>1, <1>6, <2>3, <3>2 DEF Capped
    <3> QED BY <3>1, <3>2
  <2>6. W' = W
    BY DEF W
  <2> QED BY <1>2, <1>11, <1>12, <2>1, <2>4, <2>5, <2>6 DEF AfterHops
<1> QED BY <1>8, <1>9, <1>10, <1>13

\* The hops of whole windows and those at the end of the input.
LEMMA HopsKeep ==
  ASSUME IInv, Hop \/ EdgeHop
  PROVE  IInv'
<1>1. TypeOK /\ HS \in Nat \ {0} /\ W = 2 * HS
  BY Widths DEF IInv
<1>2. CASE Hop
  <2>1. in_buf \in [Slots -> Nat \cup {Blank}] /\ in_fill = W /\ Starved /\ ProduceHop(in_buf)
    BY <1>1, <1>2 DEF TypeOK, Hop
  <2>2. ~ EndedEmpty
    BY <1>1, <2>1 DEF EndedEmpty
  <2> QED BY <1>2, <2>1, <2>2, HopKeeps DEF Hop
<1>3. CASE EdgeHop
  <2>1. /\ input_eof /\ input_pulled > 0 /\ Starved /\ ProduceHop(Extended) /\ pc = "more"
    BY <1>3 DEF EdgeHop, AtEnd, Starved
  <2>2. read = input_pulled /\ read \in Nat /\ input_pulled \in Nat
    BY <1>1, <2>1 DEF IInv, EndInv, TypeOK
  <2>3. read - 1 \in Nat
    BY <2>1, <2>2
  <2>4. Extended \in [Slots -> Nat \cup {Blank}]
    BY <1>1, <2>3 DEF Extended, TypeOK
  <2>5. ~ EndedEmpty
    BY <2>1 DEF EndedEmpty
  <2> QED BY <1>3, <2>1, <2>4, <2>5, HopKeeps DEF EdgeHop
<1> QED BY <1>2, <1>3

\* The tail is one more hop of what the windows so far have summed.
LEMMA FlushTailKeeps ==
  ASSUME IInv, FlushTail
  PROVE  IInv'
<1> USE DEF IInv
<1>1. /\ pc = "more" /\ fifo = <<>> /\ input_eof /\ input_pulled > 0
      /\ analysis_start >= input_pulled /\ ~ tail_flushed /\ tail_flushed' = TRUE
      /\ PushFinalized(acc)
      /\ UNCHANGED <<ha, cap, length, read, src_done, in_buf, in_fill, input_pulled, input_eof,
                     analysis_start, acc, output_emitted, target_output, pc, need, done, out,
                     resets>>
  BY DEF FlushTail, AtEnd, Starved, Exhausted, srcVars, inVars, hostVars
<1>2. acc \in [Slots -> Sums]
  BY DEF TypeOK, Sums
<1>3. /\ fifo' \in Seq(Sums) /\ startup_drop' = 0 /\ Len(fifo') <= HS
      /\ Len(fifo') = Smaller(HS - startup_drop,
                              IF target_output = None THEN HS
                              ELSE IF output_emitted >= target_output THEN 0
                              ELSE target_output - output_emitted)
  BY <1>1, <1>2, PushFacts
<1>4. HS \in Nat \ {0} /\ W = 2 * HS /\ ha \in Nat \ {0}
  BY Widths
<1>5. TypeOK'
  <2>1. startup_drop' \in 0..HS
    BY <1>3, <1>4
  <2> QED BY <1>1, <1>3, <2>1 DEF TypeOK, Sums, Hops
<1>6. FifoBound' /\ EndInv'
  BY <1>1, <1>3 DEF FifoBound, EndInv, RoundedOutputFrames
<1>7. PICK h \in Nat : AfterHops(h)
  BY <1>1, Counted DEF EndedEmpty
<1>8. AfterHops(h)'
  <2>1. h # 0
    <3>1. CASE h = 0
      <4>1. analysis_start = 0 * ha - HS /\ input_pulled \in Nat
        BY <1>7, <3>1 DEF AfterHops, TypeOK
      <4> QED BY <1>1, <1>4, <4>1
    <3> QED BY <3>1
  <2> DEFINE x == (h - 1) * HS
  <2>2. x \in Nat
    BY <2>1, Products
  <2>3. Made(h) = x + 0
    BY <1>1, <2>1 DEF Made
  <2>4. Made(h)' = x + HS
    BY <1>1, <2>1 DEF Made
  <2> HIDE DEF x
  <2>5. /\ startup_drop = 0 /\ output_emitted \in Nat /\ target_output \in Nat \cup {None}
        /\ Len(fifo) = 0 /\ output_emitted + Len(fifo) = Capped(Made(h))
    BY <1>1, <1>7, <2>1 DEF AfterHops, TypeOK
  <2>6. output_emitted = Capped(x + 0)
    BY <2>3, <2>5
  <2>7. output_emitted + Len(fifo') = Capped(x + HS)
    BY <1>3, <1>4, <2>2, <2>5, <2>6 DEF Capped, Smaller
  <2>8. Capped(Made(h))' = Capped(x + HS)
    BY <1>1, <2>4 DEF Capped, Smaller
  <2>9. (output_emitted + Len(fifo))' = Capped(Made(h))'
    BY <1>1, <2>7, <2>8
  <2> QED BY <1>1, <1>3, <1>7, <2>1, <2>9 DEF AfterHops, W
<1> QED BY <1>5, <1>6, <1>8

LEMMA NoInputKeeps ==
  ASSUME IInv, NoInput
  PROVE  IInv'
<1> USE DEF IInv
<1>1. /\ pc = "more" /\ fifo = <<>> /\ in_fill < W /\ input_eof /\ input_pulled = 0
      /\ analysis_start' = 0 /\ tail_flushed' = TRUE /\ pc' = "stop"
      /\ UNCHANGED <<ha, cap, length, read, src_done, in_buf, in_fill, input_pulled, input_eof,
                     acc, startup_drop, fifo, output_emitted, target_output, need, done, out,
                     resets>>
  BY DEF NoInput, AtEnd, Starved, srcVars, inVars, outVars, hostVars
<1>2. TypeOK'
  BY <1>1 DEF TypeOK, Hops
<1>3. FifoBound' /\ EndInv'
  BY <1>1 DEF FifoBound, EndInv, RoundedOutputFrames
<1>4. output_emitted = 0
  <2>1. CASE EndedEmpty
    BY <2>1 DEF EndedEmpty
  <2>2. CASE ~ EndedEmpty
    <3>1. PICK h \in Nat : AfterHops(h)
      BY <2>2, Counted
    <3>2. target_output = 0
      BY <1>1, NothingRounded DEF EndInv
    <3>5. target_output # None
      <4>1. 0 \in Nat
        OBVIOUS
      <4> QED BY <3>2, <4>1, StretchAssumption
    <3>6. Made(h) \in Nat
      BY NextMade
    <3>3. output_emitted + Len(fifo) = Smaller(Made(h), 0) /\ Made(h) \in Nat
      BY <3>1, <3>2, <3>5, <3>6 DEF AfterHops, Capped
    <3>4. Len(fifo) = 0 /\ output_emitted \in Nat
      BY <1>1 DEF TypeOK
    <3> QED BY <3>3, <3>4 DEF Smaller
  <2> QED BY <2>1, <2>2
<1>5. EndedEmpty'
  BY <1>1, <1>4 DEF EndedEmpty, W
<1> QED BY <1>2, <1>3, <1>5

\* The end of a call leaves the stretcher alone.
LEMMA EndKeeps ==
  ASSUME IInv, Drained \/ Return
  PROVE  IInv'
<1>1. /\ pc' \in {"stop", "idle"} /\ need' \in Nat /\ done' \in BOOLEAN
      /\ pc' # "idle" => pc # "idle"
      /\ UNCHANGED <<ha, cap, length, read, src_done, in_buf, in_fill, input_pulled, input_eof,
                     analysis_start, acc, startup_drop, fifo, output_emitted, target_output,
                     tail_flushed, out, resets>>
      /\ UNCHANGED <<ha, inVars, hopVars, outVars, tail_flushed>>
  <2>1. need \in Nat /\ done \in BOOLEAN
    BY DEF IInv, TypeOK
  <2>2. CASE Drained
    BY <2>1, <2>2 DEF Drained, AtEnd, Starved, srcVars, inVars, hopVars, outVars, hostVars
  <2>3. CASE Return
    <3>1. FullyDone \in BOOLEAN
      BY DEF FullyDone
    <3> HIDE DEF FullyDone
    <3> QED BY <2>3, <3>1 DEF Return, srcVars, inVars, hopVars, outVars
  <2> QED BY <2>2, <2>3
<1>2. TypeOK'
  BY <1>1 DEF IInv, TypeOK, Hops
<1> QED BY <1>1, <1>2, StillCounted DEF IInv, EndInv

LEMMA ResetKeeps ==
  ASSUME IInv, Reset
  PROVE  IInv'
<1> USE DEF IInv
<1>1. /\ in_buf' = NoWindow /\ in_fill' = HS /\ input_pulled' = 0 /\ input_eof' = FALSE
      /\ analysis_start' = -HS /\ acc' = NoSums /\ startup_drop' = HS
      /\ fifo' = <<>> /\ output_emitted' = 0 /\ target_output' = None
      /\ tail_flushed' = FALSE /\ read' = 0 /\ src_done' = FALSE
      /\ done' = FALSE /\ out' = <<>> /\ resets' = resets + 1 /\ pc = "idle"
      /\ UNCHANGED <<ha, cap, length, pc, need>>
  BY DEF Reset
<1>2. HS \in Nat \ {0} /\ W \in Nat /\ W = 2 * HS /\ ha \in Nat \ {0}
  BY Widths
<1>3. TypeOK'
  <2>1. in_buf' \in [Slots -> Nat \cup {Blank}] /\ acc' \in [Slots -> SUBSET (Slots \X Nat)]
    BY <1>1 DEF NoWindow, NoSums
  <2>2. /\ in_fill' \in 0..W /\ startup_drop' \in 0..HS /\ analysis_start' \in Int
        /\ input_pulled' \in Nat /\ output_emitted' \in Nat
    BY <1>1, <1>2
  <2>3. read' \in 0..length' /\ resets' \in Nat
    BY <1>1 DEF TypeOK
  <2>4. fifo' \in Seq(SUBSET (Slots \X Nat)) /\ out' \in Seq(SUBSET (Slots \X Nat))
    BY <1>1
  <2> QED BY <1>1, <2>1, <2>2, <2>3, <2>4 DEF TypeOK, Hops
<1>4. FifoBound' /\ EndInv'
  BY <1>1, <1>2 DEF FifoBound, EndInv
<1>5. AfterHops(0)'
  <2>1. Made(0)' = 0 /\ Capped(Made(0))' = 0
    BY <1>1 DEF Made, Capped
  <2>2. analysis_start' = 0 * ha - HS /\ analysis_start' + in_fill' = input_pulled'
    BY <1>1, <1>2
  <2>3. (output_emitted + Len(fifo))' = 0
    BY <1>1
  <2> QED BY <1>1, <1>2, <2>1, <2>2, <2>3 DEF AfterHops, W
<1> QED BY <1>3, <1>4, <1>5

LEMMA StepKeeps == IInv /\ [Next]_vars => IInv'
<1> SUFFICES ASSUME IInv, [Next]_vars PROVE IInv'
  OBVIOUS
<1>1. ASSUME NEW n \in 0..MaxNeed, Ask(n) PROVE IInv'
  BY <1>1, CallKeeps, ThroughKeeps DEF Ask
<1>2. CASE Work
  BY <1>2, DeliverKeeps, RefillKeeps, HopsKeep, FlushTailKeeps, NoInputKeeps, EndKeeps DEF Work
<1>3. CASE Reset
  BY <1>3, ResetKeeps
<1>4. CASE UNCHANGED vars
  <2>1. /\ UNCHANGED <<ha, cap, length, read, src_done, in_buf, in_fill, input_pulled, input_eof,
                       analysis_start, acc, startup_drop, fifo, output_emitted, target_output,
                       tail_flushed, pc, need, done, out, resets>>
        /\ UNCHANGED <<ha, inVars, hopVars, outVars, tail_flushed>>
    BY <1>4 DEF vars, srcVars, inVars, hopVars, outVars, hostVars
  <2>2. TypeOK'
    BY <2>1 DEF IInv, TypeOK, Hops
  <2> QED BY <2>1, <2>2, StillCounted DEF IInv, EndInv
<1> QED BY <1>1, <1>2, <1>3, <1>4 DEF Next

\* The inductive invariant holds throughout.
THEOREM Inductive == Spec => []IInv
<1>1. Init => IInv
  BY InitIInv
<1>2. IInv /\ [Next]_vars => IInv'
  BY StepKeeps
<1> QED BY <1>1, <1>2, PTL DEF Spec

-----------------------------------------------------------------------------
\* The state keeps its types: the window never overfills, the source is never
\* read past its end.
THEOREM TypeCorrect == Spec => []TypeOK
<1>1. IInv => TypeOK
  BY DEF IInv
<1> QED BY <1>1, Inductive, PTL

\* The ring of finalized frames never holds more than a hop.
THEOREM QueueBounded == Spec => []FifoBound
<1>1. IInv => FifoBound
  BY DEF IInv
<1> QED BY <1>1, Inductive, PTL

\* Nothing past the rounded duration is emitted or queued, however late the
\* source reports its end.
THEOREM DurationKept == Spec => []WithinDuration
<1>1. IInv => WithinDuration
  <2> SUFFICES ASSUME IInv, target_output # None
               PROVE  output_emitted + Len(fifo) <= target_output
    BY DEF WithinDuration
  <2>1. target_output \in Nat /\ TypeOK
    BY DEF IInv, TypeOK
  <2>2. CASE EndedEmpty
    BY <2>1, <2>2 DEF EndedEmpty
  <2>3. CASE ~ EndedEmpty
    <3>1. PICK h \in Nat : AfterHops(h)
      BY <2>3, Counted
    <3>2. output_emitted + Len(fifo) = Smaller(Made(h), target_output) /\ Made(h) \in Nat
      BY <2>1, <3>1, NextMade DEF AfterHops, Capped
    <3> QED BY <2>1, <3>2 DEF Smaller
  <2> QED BY <2>2, <2>3
<1> QED BY <1>1, Inductive, PTL

\* The whole rounded duration is made by the time the tail is flushed.
THEOREM DurationMet == Spec => []DurationReached
<1>1. IInv => DurationReached
  <2> SUFFICES ASSUME IInv, tail_flushed
               PROVE  output_emitted + Len(fifo) = target_output
    BY DEF DurationReached
  <2>1. TypeOK /\ input_pulled \in Nat
    BY DEF IInv, TypeOK
  <2>2. CASE EndedEmpty
    BY <2>1, <2>2, NothingRounded DEF EndedEmpty, IInv, EndInv
  <2>3. CASE ~ EndedEmpty
    <3>1. PICK h \in Nat : AfterHops(h)
      BY <2>3, Counted
    <3>2. input_eof /\ h # 0 /\ input_pulled <= h * ha - HS
      <4>1. h * ha \in Nat /\ HS \in Nat
        BY <2>1, Products, Widths
      <4> QED BY <2>1, <3>1, <4>1 DEF AfterHops
    <3>3. target_output = RoundedOutputFrames(input_pulled) /\ target_output \in Nat
      BY <2>1, <3>2, Rounded DEF IInv, EndInv
    <3>4. target_output <= Made(h) /\ Made(h) \in Nat
      BY <2>1, <3>2, <3>3, MadeEnough, NextMade
    <3>5. output_emitted + Len(fifo) = Smaller(Made(h), target_output)
      BY <3>1, <3>3, StretchAssumption DEF AfterHops, Capped
    <3> QED BY <3>3, <3>4, <3>5 DEF Smaller
  <2> QED BY <2>2, <2>3
<1> QED BY <1>1, Inductive, PTL

\* The output is as long as the rounded duration, neither more nor less.
THEOREM DurationRight == Spec => []DurationExact
<1>1. WithinDuration /\ DurationReached => DurationExact
  BY DEF DurationExact
<1> QED BY <1>1, DurationKept, DurationMet, PTL

-----------------------------------------------------------------------------
(***************************************************************************)
(* The refinement of the one output stream.  Once the source is at its end *)
(* nothing is left to read; what is delivered and queued is the stream     *)
(* from its start; every slot of the window holds the input frame of its   *)
(* place, the accumulator the second half of the last window.              *)
(***************************************************************************)
SourceEnd == (src_done \/ input_eof) => read = length

\* What is delivered and what is queued is the stream.
InStream ==
  /\ \A i \in 1..Len(out) : out[i] = Stream!Grain(i - 1)
  /\ \A i \in 1..Len(fifo) : fifo[i] = Stream!Grain(output_emitted + i - 1)

Delivered == IF ha = HS THEN Len(out) = read /\ fifo = <<>> /\ (done => src_done)
             ELSE Len(out) = output_emitted /\ (done => FullyDone)

Content(h) ==
  /\ in_buf = [s \in Slots |-> IF input_pulled > 0 /\ s < in_fill
                               THEN Stream!Held(analysis_start + s) ELSE Blank]
  /\ acc = [s \in Slots |-> IF h # 0 /\ s < HS
                            THEN {<<HS + s, Stream!Held((h - 1) * ha + s)>>} ELSE {}]
  /\ analysis_start + in_fill >= input_pulled
  /\ in_fill = W => analysis_start + in_fill = input_pulled
  /\ h # 0 => (h - 1) * ha - HS < length

Contents == EndedEmpty \/ \E h \in Nat : AfterHops(h) /\ Content(h)

StreamInv == SourceEnd /\ InStream /\ Delivered /\ Contents

-----------------------------------------------------------------------------
\* The abstract stream depends on the hop and the length of the input alone.
LEMMA SameStream ==
  ASSUME ha' = ha, length' = length
  PROVE  /\ \A i \in Int : Stream!Held(i)' = Stream!Held(i)
         /\ \A t \in Int : Stream!Grain(t)' = Stream!Grain(t)
         /\ Stream!Total' = Stream!Total
  BY DEF Stream!Held, Stream!Grain, Stream!Taps, Stream!Windows, Stream!Total, Stream!W

\* The abstract length is the rounded duration of the input.
LEMMA TotalIs == Stream!Total = RoundedOutputFrames(length)
  BY DEF Stream!Total, RoundedOutputFrames

\* The start of a window tells its number.
LEMMA HopsUnique ==
  ASSUME TypeOK, NEW i \in Nat, NEW j \in Nat, i * ha = j * ha
  PROVE  i = j
<1>1. ha \in Nat \ {0}
  BY Widths
<1>2. ASSUME NEW a \in Nat, NEW b \in Nat, a < b PROVE a * ha < b * ha
  <2>1. a + 1 <= b /\ a + 1 \in Int
    BY <1>2
  <2>2. (a + 1) * ha <= b * ha
    BY <1>1, <2>1, TimesMono
  <2>3. (a + 1) * ha = a * ha + ha /\ a * ha \in Nat /\ b * ha \in Nat
    BY <1>1, SMT
  <2> QED BY <1>1, <2>2, <2>3
<1>3. i * ha \in Nat /\ j * ha \in Nat
  BY Products
<1> QED BY <1>2, <1>3

\* A window that starts before the end of the input is one of the abstract windows.
LEMMA WindowIs ==
  ASSUME TypeOK, NEW j \in Nat
  PROVE  j \in Stream!Windows <=> j * ha - HS < length
<1>1. ha \in Nat \ {0} /\ HS \in Nat \ {0} /\ length \in Nat /\ j * ha \in Nat
  <2>1. length \in Nat
    BY StretchAssumption DEF TypeOK
  <2>2. j * ha \in Nat
    BY Products
  <2>3. ha \in Nat \ {0} /\ HS \in Nat \ {0}
    BY Widths
  <2> QED BY <2>1, <2>2, <2>3
<1>2. ASSUME j * ha - HS < length PROVE j \in 0..(length + HS)
  <2>1. j <= j * ha
    BY <1>1, SMT
  <2> QED BY <1>1, <1>2, <2>1
<1> QED BY <1>2 DEF Stream!Windows

\* Of the windows under an output frame the first has it in its second half, the
\* next one in its first.
LEMMA TapsAt ==
  ASSUME TypeOK, NEW q \in Nat, NEW r \in 0..(HS - 1), q * ha - HS < length
  PROVE  Stream!Taps(q * HS + r) =
           {<<q, r + HS>>} \cup (IF q + 1 \in Stream!Windows THEN {<<q + 1, r>>} ELSE {})
<1> DEFINE t == q * HS + r
           both == {<<q, r + HS>>} \cup (IF q + 1 \in Stream!Windows THEN {<<q + 1, r>>} ELSE {})
<1>1. /\ HS \in Nat \ {0} /\ r \in Nat /\ r < HS /\ r + HS \in Nat /\ q + 1 \in Nat
      /\ q * HS \in Nat
  <2>1. HS \in Nat \ {0}
    BY Widths
  <2>2. q * HS \in Nat
    BY Products
  <2> QED BY <2>1, <2>2
<1>2. Stream!W = 2 * HS
  BY DEF Stream!W
<1>3. (q + 1) * HS = q * HS + HS /\ (q + 2) * HS = q * HS + 2 * HS /\ q + 2 \in Nat
  BY <1>1, SMT
<1>4. q \in Stream!Windows
  BY WindowIs
<1>5. ASSUME NEW w \in Stream!Taps(t) PROVE w \in both
  <2>1. PICK j \in Stream!Windows, n \in 0..(Stream!W - 1) : w = <<j, n>> /\ j * HS + n - HS = t
    BY <1>5 DEF Stream!Taps
  <2>2. j \in Nat /\ n \in Nat /\ n < 2 * HS /\ j * HS \in Nat
    <3>1. j \in Nat
      BY DEF Stream!Windows
    <3> QED BY <1>1, <1>2, <3>1, Products
  <2>3. j * HS + n = q * HS + r + HS
    BY <1>1, <2>1, <2>2
  <2>4. ~ (j < q)
    <3> SUFFICES ASSUME j < q PROVE FALSE
      OBVIOUS
    <3>1. j + 1 <= q /\ j + 1 \in Int
      BY <2>2
    <3>2. (j + 1) * HS <= q * HS
      BY <1>1, <3>1, TimesMono
    <3>3. (j + 1) * HS = j * HS + HS
      BY <1>1, <2>2, SMT
    <3> QED BY <1>1, <2>2, <2>3, <3>2, <3>3
  <2>5. ~ (j > q + 1)
    <3> SUFFICES ASSUME j > q + 1 PROVE FALSE
      OBVIOUS
    <3>1. q + 2 <= j
      BY <2>2
    <3>2. (q + 2) * HS <= j * HS
      BY <1>1, <1>3, <2>2, <3>1, TimesMono
    <3> QED BY <1>1, <1>3, <2>2, <2>3, <3>2
  <2>6. CASE j = q
    <3>1. n = r + HS
      BY <1>1, <2>2, <2>3, <2>6
    <3> QED BY <2>1, <2>6, <3>1
  <2>7. CASE j = q + 1
    <3>1. n = r
      BY <1>1, <1>3, <2>2, <2>3, <2>7
    <3> QED BY <2>1, <2>7, <3>1
  <2> QED BY <1>1, <2>2, <2>4, <2>5, <2>6, <2>7
<1>6. <<q, r + HS>> \in Stream!Taps(t)
  <2>1. r + HS \in 0..(Stream!W - 1) /\ q * HS + (r + HS) - HS = t
    BY <1>1, <1>2
  <2> QED BY <1>4, <2>1 DEF Stream!Taps
<1>7. ASSUME q + 1 \in Stream!Windows PROVE <<q + 1, r>> \in Stream!Taps(t)
  <2>1. r \in 0..(Stream!W - 1) /\ (q + 1) * HS + r - HS = t
    BY <1>1, <1>2, <1>3
  <2> QED BY <1>7, <2>1 DEF Stream!Taps
<1> QED BY <1>5, <1>6, <1>7

\* What an output frame mixes.
LEMMA GrainAt ==
  ASSUME TypeOK, ha # HS, NEW q \in Nat, NEW r \in 0..(HS - 1), q * ha - HS < length
  PROVE  Stream!Grain(q * HS + r) =
           {<<r + HS, Stream!Held(q * ha + r)>>}
             \cup (IF (q + 1) * ha - HS < length
                   THEN {<<r, Stream!Held((q + 1) * ha - HS + r)>>} ELSE {})
<1> DEFINE t == q * HS + r
           T == Stream!Taps(t)
           H(j, n) == Stream!Held(j * ha - HS + n)
<1>1. Stream!Grain(t) = {<<w[2], H(w[1], w[2])>> : w \in T}
  BY DEF Stream!Grain
<1>2. T = {<<q, r + HS>>} \cup (IF q + 1 \in Stream!Windows THEN {<<q + 1, r>>} ELSE {})
  BY TapsAt
<1>3. q + 1 \in Stream!Windows <=> (q + 1) * ha - HS < length
  BY WindowIs
<1>4. H(q, r + HS) = Stream!Held(q * ha + r)
  <2>1. ASSUME NEW x \in Nat PROVE x - HS + (r + HS) = x + r
    BY Widths
  <2>2. q * ha \in Nat
    BY Products
  <2> QED BY <2>1, <2>2
<1> HIDE DEF H, T, t
<1>5. CASE q + 1 \in Stream!Windows
  <2>1. T = {<<q, r + HS>>, <<q + 1, r>>}
    BY <1>2, <1>5
  <2>2. Stream!Grain(t) = {<<r + HS, H(q, r + HS)>>, <<r, H(q + 1, r)>>}
    BY <1>1, <2>1
  <2> QED BY <1>3, <1>4, <1>5, <2>2 DEF H, t
<1>6. CASE q + 1 \notin Stream!Windows
  <2>1. T = {<<q, r + HS>>}
    BY <1>2, <1>6
  <2>2. Stream!Grain(t) = {<<r + HS, H(q, r + HS)>>}
    BY <1>1, <2>1
  <2> QED BY <1>3, <1>4, <1>6, <2>2 DEF H, t
<1> QED BY <1>5, <1>6

-----------------------------------------------------------------------------
\* The hops after a step are told by where its next window starts.
LEMMA WhichHops ==
  ASSUME IInv, IInv', ha' = ha, ~ EndedEmpty', NEW h \in Nat, analysis_start' = h * ha - HS
  PROVE  AfterHops(h)'
<1>1. PICK k \in Nat : AfterHops(k)'
  BY DEF IInv
<1>2. analysis_start' = k * ha - HS
  BY <1>1 DEF AfterHops
<1>3. TypeOK /\ h * ha \in Nat /\ k * ha \in Nat /\ HS \in Nat
  BY Products, Widths DEF IInv
<1>4. h * ha = k * ha
  BY <1>2, <1>3
<1> QED BY <1>1, <1>3, <1>4, HopsUnique

\* A step that leaves the windows alone keeps what they hold.
LEMMA SameContents ==
  ASSUME IInv, IInv', Contents, EndedEmpty => EndedEmpty',
         UNCHANGED <<ha, length, in_buf, in_fill, input_pulled, analysis_start, acc>>
  PROVE  Contents'
<1>1. CASE EndedEmpty'
  BY <1>1 DEF Contents
<1>2. CASE ~ EndedEmpty'
  <2>1. PICK h \in Nat : AfterHops(h) /\ Content(h)
    BY <1>2 DEF Contents
  <2>2. analysis_start' = h * ha - HS
    BY <2>1 DEF AfterHops
  <2>3. AfterHops(h)'
    BY <1>2, <2>2, WhichHops
  <2>4. Content(h)'
    <3>1. TypeOK /\ analysis_start \in Int
      BY DEF IInv, TypeOK
    <3>2. Slots \subseteq Int /\ HS \in Nat
      <4>1. Slots = 0..(W - 1) /\ W \in Nat /\ HS \in Nat
        BY <3>1, Widths
      <4> QED BY <4>1
    <3>3. ASSUME NEW s \in Slots
          PROVE  /\ Stream!Held(analysis_start + s)' = Stream!Held(analysis_start + s)
                 /\ Stream!Held((h - 1) * ha + s)' = Stream!Held((h - 1) * ha + s)
      <4>1. (h - 1) * ha \in Int /\ s \in Int
        BY <3>1, <3>2, Widths
      <4>2. (h - 1) * ha + s \in Int /\ analysis_start + s \in Int
        BY <3>1, <4>1
      <4>3. analysis_start' + s = analysis_start + s /\ (h - 1) * ha' + s = (h - 1) * ha + s
        OBVIOUS
      <4>4. /\ Stream!Held(analysis_start + s)' = Stream!Held(analysis_start + s)
            /\ Stream!Held((h - 1) * ha + s)' = Stream!Held((h - 1) * ha + s)
        BY <4>2, SameStream DEF Stream!Held
      <4> QED BY <4>4
    <3>4. in_buf' = [s \in Slots |-> IF input_pulled' > 0 /\ s < in_fill'
                                     THEN Stream!Held(analysis_start + s)' ELSE Blank]
      BY <2>1, <3>3 DEF Content
    <3>5. acc' = [s \in Slots |-> IF h # 0 /\ s < HS
                                  THEN {<<HS + s, Stream!Held((h - 1) * ha + s)'>>} ELSE {}]
      BY <2>1, <3>3 DEF Content
    <3>6. Slots' = Slots /\ W' = W
      BY DEF Slots, W
    <3> QED BY <2>1, <3>4, <3>5, <3>6 DEF Content
  <2> QED BY <2>3, <2>4 DEF Contents
<1> QED BY <1>1, <1>2

\* Without more output, or another queue, the output stays the stream.
LEMMA SameOutput ==
  ASSUME TypeOK, InStream, UNCHANGED <<ha, length, output_emitted, fifo, out>>
  PROVE  InStream'
<1>1. \A t \in Int : Stream!Grain(t)' = Stream!Grain(t)
  BY SameStream
<1>2. ASSUME NEW i \in 1..Len(out) PROVE out[i] = Stream!Grain(i - 1)'
  BY <1>1 DEF InStream
<1>3. ASSUME NEW i \in 1..Len(fifo) PROVE fifo[i] = Stream!Grain(output_emitted + i - 1)'
  <2>1. output_emitted + i - 1 \in Int
    BY DEF TypeOK
  <2>2. Stream!Grain(output_emitted + i - 1)' = Stream!Grain(output_emitted + i - 1)
    BY DEF Stream!Grain, Stream!Taps, Stream!Windows, Stream!Held, Stream!W
  <2> QED BY <2>2 DEF InStream
<1> QED BY <1>2, <1>3 DEF InStream

LEMMA StreamInit == Init => StreamInv
<1> SUFFICES ASSUME Init PROVE StreamInv
  OBVIOUS
<1>1. TypeOK /\ HS \in Nat \ {0} /\ W = 2 * HS /\ ha \in Nat \ {0} /\ Slots = 0..(W - 1)
  BY InitIInv, Widths DEF IInv
<1>2. AfterHops(0)
  <2>1. 0 * ha = 0
    BY <1>1
  <2>2. Capped(Made(0)) = 0
    BY DEF Init, Capped, Made
  <2> QED BY <1>1, <2>1, <2>2 DEF Init, AfterHops
<1>3. Content(0)
  BY <1>1 DEF Init, Content, NoWindow, NoSums
<1>4. SourceEnd /\ InStream
  BY DEF Init, SourceEnd, InStream
<1>5. Delivered
  BY DEF Init, Delivered
<1> QED BY <1>2, <1>3, <1>4, <1>5 DEF StreamInv, Contents

LEMMA CallStream ==
  ASSUME IInv, IInv', StreamInv, NEW n \in 0..MaxNeed, Call(n)
  PROVE  StreamInv'
<1>1. UNCHANGED <<ha, cap, length, read, src_done, in_buf, in_fill, input_pulled, input_eof,
                  analysis_start, acc, startup_drop, fifo, output_emitted, target_output,
                  tail_flushed, done, out, resets>>
  BY DEF Call, srcVars, inVars, hopVars, outVars, hostVars
<1>2. Contents'
  BY <1>1, SameContents DEF StreamInv, EndedEmpty, W
<1>3. InStream'
  BY <1>1, SameOutput DEF IInv, StreamInv
<1>4. SourceEnd' /\ Delivered'
  BY <1>1 DEF StreamInv, SourceEnd, Delivered, FullyDone
<1> QED BY <1>2, <1>3, <1>4 DEF StreamInv

LEMMA EndStream ==
  ASSUME IInv, IInv', StreamInv, Drained \/ Return
  PROVE  StreamInv'
<1>1. /\ UNCHANGED <<ha, cap, length, read, src_done, in_buf, in_fill, input_pulled, input_eof,
                     analysis_start, acc, startup_drop, fifo, output_emitted, target_output,
                     tail_flushed, out, resets>>
      /\ done' = done \/ done' = FullyDone
      /\ ha # HS
  <2>1. pc # "idle"
    BY DEF Drained, AtEnd, Starved, Return
  <2>2. ha # HS
    BY <2>1 DEF IInv, EndInv
  <2>3. CASE Drained
    BY <2>2, <2>3 DEF Drained, srcVars, inVars, hopVars, outVars, hostVars
  <2>4. CASE Return
    BY <2>2, <2>4 DEF Return, srcVars, inVars, hopVars, outVars
  <2> QED BY <2>3, <2>4
<1>2. Contents'
  BY <1>1, SameContents DEF StreamInv, EndedEmpty, W
<1>3. InStream'
  BY <1>1, SameOutput DEF IInv, StreamInv
<1>4. SourceEnd'
  BY <1>1 DEF StreamInv, SourceEnd
<1>5. Delivered'
  <2>1. FullyDone' = FullyDone
    BY <1>1 DEF FullyDone
  <2>2. Len(out) = output_emitted /\ (done => FullyDone)
    BY <1>1 DEF StreamInv, Delivered
  <2> QED BY <1>1, <2>1, <2>2 DEF Delivered
<1> QED BY <1>2, <1>3, <1>4, <1>5 DEF StreamInv

LEMMA NoInputStream ==
  ASSUME IInv, IInv', StreamInv, NoInput
  PROVE  StreamInv'
<1>1. /\ pc = "more" /\ fifo = <<>> /\ in_fill < W /\ input_eof /\ input_pulled = 0
      /\ analysis_start' = 0 /\ tail_flushed' = TRUE
      /\ UNCHANGED <<ha, cap, length, read, src_done, in_buf, in_fill, input_pulled, input_eof,
                     acc, startup_drop, fifo, output_emitted, target_output, done, out>>
  BY DEF NoInput, AtEnd, Starved, srcVars, inVars, outVars, hostVars
<1>2. Contents'
  <2>1. SUFFICES ASSUME ~ EndedEmpty' PROVE FALSE
    BY DEF Contents
  <2>2. PICK h \in Nat : AfterHops(h)'
    BY <2>1 DEF IInv
  <2>3. /\ target_output = RoundedOutputFrames(0) /\ RoundedOutputFrames(0) = 0 /\ TypeOK
        /\ target_output # None
    <3>1. target_output = RoundedOutputFrames(0) /\ RoundedOutputFrames(0) = 0 /\ TypeOK
      BY <1>1, NothingRounded DEF IInv, EndInv
    <3>2. 0 # None
      BY StretchAssumption
    <3> QED BY <3>1, <3>2
  <2>4. WithinDuration'
    <3>1. CASE EndedEmpty
      BY <1>1, <2>3, <3>1 DEF EndedEmpty, WithinDuration
    <3>2. CASE ~ EndedEmpty
      <4>1. PICK k \in Nat : AfterHops(k)
        BY <3>2, Counted
      <4>2. output_emitted + Len(fifo) = Smaller(Made(k), 0) /\ Made(k) \in Nat
        BY <2>3, <4>1, NextMade DEF AfterHops, Capped
      <4> QED BY <1>1, <2>3, <4>2 DEF Smaller, WithinDuration
    <3> QED BY <3>1, <3>2
  <2>5. output_emitted = 0
    <3>1. output_emitted + Len(fifo) <= 0 /\ output_emitted \in Nat /\ Len(fifo) = 0
      BY <1>1, <2>3, <2>4 DEF WithinDuration, TypeOK
    <3> QED BY <3>1
  <2> QED BY <1>1, <2>1, <2>5 DEF EndedEmpty, W
<1>3. InStream'
  BY <1>1, SameOutput DEF IInv, StreamInv
<1>4. SourceEnd'
  BY <1>1 DEF StreamInv, SourceEnd
<1>5. Delivered'
  <2>1. ha # HS
    BY <1>1 DEF IInv, EndInv
  <2>2. FullyDone => FullyDone'
    BY <1>1 DEF FullyDone
  <2> QED BY <1>1, <2>1, <2>2 DEF StreamInv, Delivered
<1> QED BY <1>2, <1>3, <1>4, <1>5 DEF StreamInv

LEMMA ResetStream ==
  ASSUME IInv, StreamInv, Reset
  PROVE  StreamInv'
<1>1. /\ in_buf' = NoWindow /\ in_fill' = HS /\ input_pulled' = 0 /\ input_eof' = FALSE
      /\ analysis_start' = -HS /\ acc' = NoSums /\ startup_drop' = HS
      /\ fifo' = <<>> /\ output_emitted' = 0 /\ target_output' = None
      /\ tail_flushed' = FALSE /\ read' = 0 /\ src_done' = FALSE
      /\ done' = FALSE /\ out' = <<>>
      /\ UNCHANGED <<ha, cap, length>>
  BY DEF Reset
<1>2. HS \in Nat \ {0} /\ W \in Nat /\ W = 2 * HS /\ ha \in Nat \ {0} /\ Slots = 0..(W - 1)
  BY Widths DEF IInv
<1>3. AfterHops(0)'
  <2>1. Made(0)' = 0 /\ Capped(Made(0))' = 0
    BY <1>1 DEF Made, Capped
  <2>2. analysis_start' = 0 * ha - HS /\ analysis_start' + in_fill' = input_pulled'
    BY <1>1, <1>2
  <2>3. (output_emitted + Len(fifo))' = 0
    BY <1>1
  <2> QED BY <1>1, <1>2, <2>1, <2>2, <2>3 DEF AfterHops, W
<1>4. Content(0)'
  <2>1. analysis_start' + in_fill' = 0 /\ in_fill' # W
    BY <1>1, <1>2
  <2> QED BY <1>1, <2>1 DEF Content, NoWindow, NoSums, Slots, W
<1>5. SourceEnd' /\ InStream' /\ Delivered'
  BY <1>1 DEF SourceEnd, InStream, Delivered
<1> QED BY <1>3, <1>4, <1>5 DEF StreamInv, Contents

-----------------------------------------------------------------------------
LEMMA Joined ==
  ASSUME NEW S, NEW a \in Seq(S), NEW b \in Seq(S)
  PROVE  /\ a \o b \in Seq(S) /\ Len(a \o b) = Len(a) + Len(b)
         /\ \A i \in 1..Len(a \o b) :
              (a \o b)[i] = IF i <= Len(a) THEN a[i] ELSE b[i - Len(a)]
  OBVIOUS

\* A source reports its end at the end, and keeps reporting it.
LEMMA PullEnds ==
  ASSUME TypeOK, NEW want \in Nat, NEW p \in Pull(want)
  PROVE  /\ p.done => read + p.frames = length
         /\ src_done /\ read = length => p.done
<1>1. /\ read \in 0..length /\ length \in Nat /\ length - read \in Nat
      /\ cap \in Caps \cup {AnySource} /\ Caps \subseteq Nat \ {0}
  BY StretchAssumption DEF TypeOK
<1>2. CASE cap = AnySource
  BY <1>1, <1>2 DEF Pull, FreePull
<1>3. CASE cap # AnySource
  <2>1. cap \in Nat
    BY <1>1, <1>3
  <2> DEFINE n == Smaller(want, Smaller(length - read, cap))
  <2>2. n \in Nat /\ n <= length - read
    BY <1>1, <2>1 DEF Smaller
  <2> HIDE DEF n
  <2>3. p = [frames |-> n, done |-> read + n >= length]
    BY <1>3 DEF Pull, RingPull, n
  <2>4. p.frames = n /\ p.done = (read + n >= length)
    BY <2>3
  <2>5. read + n >= length => read + n = length
    BY <1>1, <2>2
  <2>6. read = length => read + n >= length
    BY <1>1, <2>2
  <2> QED BY <2>4, <2>5, <2>6
<1> QED BY <1>2, <1>3

\* Frames of the stream joined to those delivered.
LEMMA Longer ==
  ASSUME TypeOK, InStream, NEW s \in Seq(Sums), out' = out \o s,
         UNCHANGED <<ha, length>>,
         \A i \in 1..Len(s) : s[i] = Stream!Grain(Len(out) + i - 1)
  PROVE  /\ \A i \in 1..Len(out') : out'[i] = Stream!Grain(i - 1)'
         /\ Len(out') = Len(out) + Len(s)
<1> DEFINE l == Len(out)
<1>1. out \in Seq(Sums) /\ l \in Nat /\ Len(s) \in Nat
  BY DEF TypeOK, Sums
<1>2. /\ Len(out') = l + Len(s)
      /\ \A i \in 1..Len(out') : out'[i] = IF i <= l THEN out[i] ELSE s[i - l]
  BY <1>1, Joined
<1>3. \A t \in Int : Stream!Grain(t)' = Stream!Grain(t)
  BY SameStream
<1>4. ASSUME NEW i \in 1..Len(out') PROVE out'[i] = Stream!Grain(i - 1)
  <2>1. CASE i <= l
    <3>1. i \in 1..Len(out)
      BY <1>1, <2>1
    <3> QED BY <1>2, <2>1, <3>1 DEF InStream
  <2>2. CASE ~ (i <= l)
    <3>1. i - l \in 1..Len(s) /\ l + (i - l) - 1 = i - 1
      BY <1>1, <1>2, <2>2
    <3> QED BY <1>2, <2>2, <3>1
  <2> QED BY <2>1, <2>2
<1> QED BY <1>2, <1>3, <1>4

LEMMA ThroughStream ==
  ASSUME IInv, IInv', StreamInv, NEW n \in 0..MaxNeed, Through(n)
  PROVE  /\ StreamInv'
         /\ \E k \in Nat : /\ out' = out \o [i \in 1..k |-> Stream!Grain(Len(out) + i - 1)]
                           /\ done => done'
                           /\ Len(out) + k <= length
                           /\ done' => Len(out) + k = length
<1>1. PICK p \in Pull(n) :
        /\ Take(p)
        /\ out' = out \o [i \in 1..p.frames |-> {<<HS, read + i - 1>>}]
        /\ done' = p.done
  BY DEF Through
<1>2. /\ ha = HS
      /\ UNCHANGED <<ha, cap, length, in_buf, in_fill, input_pulled, input_eof,
                     analysis_start, acc, startup_drop, fifo, output_emitted, target_output,
                     tail_flushed, pc, need, resets>>
  BY <1>1 DEF Through, inVars, hopVars, outVars, Take
<1> DEFINE k == p.frames
<1>3. n \in Nat /\ TypeOK
  BY StretchAssumption DEF IInv
<1>4. /\ k \in Nat /\ p.done \in BOOLEAN /\ read + k \in 0..length
      /\ p.done => read + k = length
      /\ src_done /\ read = length => p.done
  BY <1>3, PullFacts, PullEnds
<1>5. read' = read + k /\ src_done' = p.done /\ done' = p.done
  BY <1>1 DEF Take
<1> HIDE DEF k
<1>6. read \in Nat /\ length \in Nat /\ Len(out) = read /\ fifo = <<>> /\ (done => src_done)
  <2>1. read \in Nat /\ length \in Nat
    BY <1>3, StretchAssumption DEF TypeOK
  <2> QED BY <1>2, <2>1 DEF StreamInv, Delivered
<1> DEFINE s == [i \in 1..k |-> {<<HS, read + i - 1>>}]
           g == [i \in 1..k |-> Stream!Grain(Len(out) + i - 1)]
<1>7. s = g
  <2>1. ASSUME NEW i \in 1..k PROVE Stream!Grain(Len(out) + i - 1) = {<<HS, read + i - 1>>}
    BY <1>2, <1>6 DEF Stream!Grain
  <2> QED BY <2>1
<1>8. s \in Seq(Sums) /\ Len(s) = k
  <2>1. HS \in Slots
    BY <1>3, Widths
  <2>2. ASSUME NEW i \in 1..k PROVE {<<HS, read + i - 1>>} \in Sums
    <3>1. read + i - 1 \in Nat
      BY <1>4, <1>6
    <3> QED BY <2>1, <3>1 DEF Sums
  <2> QED BY <1>4, <2>2
<1>9. \A i \in 1..Len(s) : s[i] = Stream!Grain(Len(out) + i - 1)
  BY <1>7, <1>8
<1>10. out' = out \o s
  BY <1>1 DEF k
<1> HIDE DEF s
<1>11. /\ \A i \in 1..Len(out') : out'[i] = Stream!Grain(i - 1)'
       /\ Len(out') = Len(out) + k
  BY <1>2, <1>3, <1>8, <1>9, <1>10, Longer DEF StreamInv
<1>12. Contents'
  BY <1>2, SameContents DEF StreamInv, EndedEmpty, W
<1>13. InStream'
  BY <1>2, <1>6, <1>11 DEF InStream
<1>14. SourceEnd'
  BY <1>2, <1>4, <1>5, <1>6 DEF StreamInv, SourceEnd
<1>15. Delivered'
  BY <1>2, <1>5, <1>6, <1>11 DEF Delivered
<1>16. (done => done') /\ Len(out) + k <= length /\ (done' => Len(out) + k = length)
  BY <1>4, <1>5, <1>6 DEF StreamInv, SourceEnd
<1>17. out' = out \o g
  BY <1>7, <1>10
<1> QED BY <1>4, <1>12, <1>13, <1>14, <1>15, <1>16, <1>17 DEF StreamInv

LEMMA DeliverStream ==
  ASSUME IInv, IInv', StreamInv, Deliver
  PROVE  /\ StreamInv'
         /\ \E k \in Nat : /\ out' = out \o [i \in 1..k |-> Stream!Grain(Len(out) + i - 1)]
                           /\ k <= Len(fifo)
<1> DEFINE k == Smaller(need, Len(fifo))
<1>1. /\ pc = "more" /\ need > 0 /\ fifo # <<>>
      /\ out' = out \o SubSeq(fifo, 1, k)
      /\ fifo' = SubSeq(fifo, k + 1, Len(fifo))
      /\ output_emitted' = output_emitted + k
      /\ UNCHANGED <<ha, cap, length, read, src_done, in_buf, in_fill, input_pulled, input_eof,
                     analysis_start, acc, startup_drop, target_output, tail_flushed, pc, done,
                     resets>>
  BY DEF Deliver, srcVars, inVars, hopVars
<1>2. /\ fifo \in Seq(Sums) /\ out \in Seq(Sums) /\ Len(fifo) \in Nat /\ need \in Nat
      /\ output_emitted \in Nat /\ TypeOK
  <2>1. TypeOK
    BY DEF IInv
  <2> QED BY <2>1 DEF TypeOK, Sums
<1>3. k \in Nat /\ k <= Len(fifo)
  BY <1>2 DEF Smaller
<1> HIDE DEF k
<1>4. ha # HS /\ Len(out) = output_emitted /\ (done => FullyDone)
  BY <1>1 DEF IInv, EndInv, StreamInv, Delivered
<1>5. ~ done
  BY <1>1, <1>4 DEF FullyDone
<1> DEFINE s == SubSeq(fifo, 1, k)
           g == [i \in 1..k |-> Stream!Grain(Len(out) + i - 1)]
<1>6. s \in Seq(Sums) /\ Len(s) = k /\ \A i \in 1..k : s[i] = fifo[i]
  BY <1>2, <1>3
<1>7. ASSUME NEW i \in 1..k PROVE s[i] = Stream!Grain(Len(out) + i - 1)
  <2>1. i \in 1..Len(fifo)
    BY <1>2, <1>3
  <2> QED BY <1>4, <1>6, <2>1 DEF StreamInv, InStream
<1>8. s = g
  <2>1. s = [i \in 1..k |-> s[i]]
    BY <1>6
  <2> QED BY <1>7, <2>1
<1>9. out' = out \o s
  BY <1>1
<1> HIDE DEF s
<1>10. /\ \A i \in 1..Len(out') : out'[i] = Stream!Grain(i - 1)'
       /\ Len(out') = Len(out) + k
  BY <1>1, <1>2, <1>6, <1>7, <1>9, Longer DEF StreamInv
<1>11. ASSUME NEW i \in 1..Len(fifo') PROVE fifo'[i] = Stream!Grain(output_emitted + i - 1)'
  <2>1. i \in Nat /\ k + i \in 1..Len(fifo) /\ fifo'[i] = fifo[k + i]
    BY <1>1, <1>2, <1>3
  <2>2. fifo[k + i] = Stream!Grain(output_emitted + (k + i) - 1)
    BY <2>1 DEF StreamInv, InStream
  <2>3. output_emitted + (k + i) - 1 = output_emitted' + i - 1
    BY <1>1, <1>2, <1>3, <2>1
  <2>4. Stream!Grain(output_emitted + i - 1)' = Stream!Grain(output_emitted' + i - 1)
    BY <1>1 DEF Stream!Grain, Stream!Taps, Stream!Windows, Stream!Held, Stream!W
  <2> QED BY <2>1, <2>2, <2>3, <2>4
<1>12. InStream'
  BY <1>10, <1>11 DEF InStream
<1>13. Contents'
  <2>1. ~ EndedEmpty
    BY <1>1 DEF EndedEmpty
  <2> QED BY <1>1, <2>1, SameContents DEF StreamInv
<1>14. SourceEnd' /\ Delivered'
  BY <1>1, <1>4, <1>5, <1>10 DEF StreamInv, SourceEnd, Delivered
<1>15. out' = out \o g
  BY <1>8, <1>9
<1> QED BY <1>3, <1>12, <1>13, <1>14, <1>15 DEF StreamInv

-----------------------------------------------------------------------------
\* The finalized frames are the next ones of the stream, when the head of the
\* accumulator holds them: what is past the duration is not queued, and the first
\* hop is padding.
LEMMA PushedStream ==
  ASSUME TypeOK, fifo = <<>>, ~ tail_flushed, NEW h \in Nat, AfterHops(h),
         NEW a \in [Slots -> Sums], PushFinalized(a),
         UNCHANGED <<ha, length, output_emitted>>,
         h # 0 => \A r \in 0..(HS - 1) : a[r] = Stream!Grain((h - 1) * HS + r)
  PROVE  \A i \in 1..Len(fifo') : fifo'[i] = Stream!Grain(output_emitted + i - 1)'
<1> DEFINE room == IF target_output = None THEN HS
                   ELSE IF output_emitted >= target_output THEN 0
                   ELSE target_output - output_emitted
           n == Smaller(HS - startup_drop, room)
           s == [i \in 1..n |-> a[startup_drop + i - 1]]
<1>1. /\ HS \in Nat \ {0} /\ Slots = 0..(W - 1) /\ W = 2 * HS
      /\ startup_drop \in 0..HS /\ output_emitted \in Nat
      /\ target_output \in Nat \cup {None}
  BY Widths DEF TypeOK
<1>2. Smaller(startup_drop, HS) = startup_drop
  BY <1>1 DEF Smaller
<1>3. Len(fifo) = 0 /\ output_emitted + Len(fifo) = output_emitted
  BY <1>1
<1>4. room \in Nat
  BY <1>1
<1>5. startup_drop = (IF h = 0 THEN HS ELSE 0) /\ output_emitted = Capped(Made(h))
  BY <1>3 DEF AfterHops
<1>6. fifo' = <<>> \o s
  BY <1>2, <1>3 DEF PushFinalized
<1>7. n > 0 => target_output = None \/ output_emitted < target_output
  BY <1>1 DEF Smaller
<1>8. n \in Nat /\ n <= HS - startup_drop
  <2> HIDE DEF room
  <2> QED BY <1>1, <1>4 DEF Smaller
<1> HIDE DEF n
<1>9. s \in Seq(Sums) /\ Len(s) = n
  <2>1. ASSUME NEW i \in 1..n PROVE a[startup_drop + i - 1] \in Sums
    <3>1. startup_drop + i - 1 \in Slots
      BY <1>1, <1>8
    <3> QED BY <3>1
  <2> QED BY <1>8, <2>1
<1>10. fifo' = s
  <2> HIDE DEF s
  <2> QED BY <1>6, <1>9
<1> SUFFICES ASSUME NEW i \in 1..n PROVE fifo'[i] = Stream!Grain(output_emitted + i - 1)'
  BY <1>9, <1>10
<1>11. i \in Nat /\ i >= 1 /\ i <= n /\ n > 0 /\ h # 0 /\ startup_drop = 0
  BY <1>1, <1>5, <1>8
<1>12. output_emitted = (h - 1) * HS
  <2> DEFINE m == (h - 1) * HS
  <2>1. Made(h) = m /\ m \in Nat
    <3>1. m \in Nat
      BY <1>11, Products
    <3> QED BY <1>11, <3>1 DEF Made
  <2> HIDE DEF m
  <2>2. output_emitted = Capped(m)
    BY <1>5, <2>1
  <2> QED BY <1>1, <1>7, <1>11, <2>1, <2>2 DEF Capped, Smaller, m
<1>13. fifo'[i] = a[startup_drop + i - 1]
  BY <1>10
<1>14. startup_drop + i - 1 = i - 1 /\ i - 1 \in 0..(HS - 1)
  BY <1>1, <1>8, <1>11
<1>15. a[i - 1] = Stream!Grain((h - 1) * HS + (i - 1))
  BY <1>11, <1>14
<1>16. (h - 1) * HS + (i - 1) = output_emitted + i - 1
  BY <1>1, <1>11, <1>12
<1>17. Stream!Grain(output_emitted + i - 1)' = Stream!Grain(output_emitted + i - 1)
  BY DEF Stream!Grain, Stream!Taps, Stream!Windows, Stream!Held, Stream!W
<1> QED BY <1>13, <1>14, <1>15, <1>16, <1>17

\* A sum with one more tap.
LEMMA SumAt ==
  ASSUME NEW buf, NEW s \in Slots, buf[s] # Blank
  PROVE  Overlapped(buf)[s] = acc[s] \cup {<<s, buf[s]>>}
  BY DEF Overlapped

LEMMA HopStream ==
  ASSUME IInv, IInv', StreamInv, NEW h \in Nat, AfterHops(h), Content(h),
         NEW buf \in [Slots -> Nat \cup {Blank}],
         \A s \in Slots : buf[s] = Stream!Held(analysis_start + s),
         Starved, input_pulled > 0, analysis_start < length, ~ tail_flushed, ~ FullyDone,
         analysis_start + W >= input_pulled,
         ProduceHop(buf),
         UNCHANGED <<ha, srcVars, input_pulled, input_eof, output_emitted, target_output,
                     tail_flushed, pc, need, hostVars>>
  PROVE  StreamInv'
<1>1. UNCHANGED <<ha, cap, length, read, src_done, input_pulled, input_eof, output_emitted,
                  target_output, tail_flushed, pc, need, done, out, resets>>
  BY DEF srcVars, hostVars
<1> DEFINE a == Overlapped(buf)
<1>2. /\ PushFinalized(a)
      /\ acc' = [s \in Slots |-> IF s < HS THEN a[s + HS] ELSE {}]
      /\ in_buf' = [s \in Slots |-> IF s < W - ha THEN buf[s + ha] ELSE Blank]
      /\ in_fill' = W - ha /\ analysis_start' = analysis_start + ha
  BY DEF ProduceHop
<1>3. TypeOK /\ a \in [Slots -> Sums]
  BY OverlappedType DEF IInv
<1>4. fifo = <<>> /\ ha # HS
  BY DEF Starved, IInv, EndInv
<1>5. /\ HS \in Nat \ {0} /\ W \in Nat /\ W = 2 * HS /\ ha \in Nat \ {0} /\ ha <= W
      /\ Slots = 0..(W - 1)
  BY <1>3, Widths
<1>6. /\ h * ha \in Nat /\ (h + 1) * ha = h * ha + ha /\ (h + 1) - 1 = h
      /\ h # 0 => (h - 1) * ha \in Nat /\ h * ha = (h - 1) * ha + ha
  BY <1>3, Products
<1>7. analysis_start = h * ha - HS /\ analysis_start \in Int /\ input_pulled \in Nat
  BY <1>3 DEF AfterHops, TypeOK
<1>8. length \in Nat /\ length > 0
  <2>1. length \in Nat /\ read \in 0..length /\ read = input_pulled
    BY <1>3, <1>4, StretchAssumption DEF TypeOK, IInv, EndInv
  <2> QED BY <1>7, <2>1
<1>9. ASSUME NEW s \in Slots
      PROVE  buf[s] # Blank /\ buf[s] = Stream!Held(h * ha - HS + s)
  <2>1. Stream!Held(analysis_start + s) \in Nat
    BY <1>5, <1>7, <1>8 DEF Stream!Held
  <2> QED BY <1>7, <2>1, StretchAssumption
<1>10. ASSUME NEW s \in Slots PROVE a[s] = acc[s] \cup {<<s, Stream!Held(h * ha - HS + s)>>}
  BY <1>9, SumAt
<1> HIDE DEF a
<1>11. acc = [s \in Slots |-> IF h # 0 /\ s < HS
                              THEN {<<HS + s, Stream!Held((h - 1) * ha + s)>>} ELSE {}]
  BY DEF Content
<1>12. ASSUME h # 0, NEW r \in 0..(HS - 1)
       PROVE  a[r] = Stream!Grain((h - 1) * HS + r)
  <2> DEFINE q == h - 1
  <2>1. q \in Nat /\ q + 1 = h /\ r \in Slots /\ r < HS
    BY <1>5, <1>12
  <2>2. q * ha - HS < length
    BY <1>12 DEF Content
  <2>3. (q + 1) * ha - HS < length
    BY <1>7, <2>1
  <2> HIDE DEF q
  <2>4. Stream!Grain(q * HS + r) =
          {<<r + HS, Stream!Held(q * ha + r)>>} \cup {<<r, Stream!Held((q + 1) * ha - HS + r)>>}
    BY <1>3, <1>4, <2>1, <2>2, <2>3, GrainAt
  <2>5. acc[r] = {<<HS + r, Stream!Held(q * ha + r)>>}
    BY <1>11, <1>12, <2>1 DEF q
  <2>6. HS + r = r + HS
    BY <1>5
  <2>7. a[r] = {<<r + HS, Stream!Held(q * ha + r)>>} \cup {<<r, Stream!Held(h * ha - HS + r)>>}
    BY <1>10, <2>1, <2>5, <2>6
  <2>8. Stream!Grain(q * HS + r) = a[r]
    BY <2>1, <2>4, <2>7
  <2> QED BY <2>8 DEF q
<1>13. \A i \in 1..Len(fifo') : fifo'[i] = Stream!Grain(output_emitted + i - 1)'
  BY <1>1, <1>2, <1>3, <1>4, <1>12, PushedStream
<1>14. InStream'
  <2>1. \A t \in Int : Stream!Grain(t)' = Stream!Grain(t)
    BY <1>1, SameStream
  <2>2. ASSUME NEW i \in 1..Len(out) PROVE out[i] = Stream!Grain(i - 1)'
    BY <2>1 DEF StreamInv, InStream
  <2> QED BY <1>1, <1>13, <2>2 DEF InStream
<1>15. SourceEnd'
  BY <1>1 DEF StreamInv, SourceEnd
<1>16. Delivered'
  BY <1>1, <1>4 DEF StreamInv, Delivered
<1>17. ~ EndedEmpty'
  BY <1>1, <1>7 DEF EndedEmpty
<1>18. analysis_start' = (h + 1) * ha - HS
  <2> DEFINE x == h * ha
             y == (h + 1) * ha
  <2>1. x \in Nat /\ y = x + ha /\ analysis_start = x - HS
    BY <1>6, <1>7
  <2> HIDE DEF x, y
  <2>2. analysis_start' = y - HS
    BY <1>2, <1>5, <2>1
  <2> QED BY <2>2 DEF y
<1>19. h + 1 \in Nat /\ AfterHops(h + 1)'
  <2>1. h + 1 \in Nat
    OBVIOUS
  <2> QED BY <1>1, <1>17, <1>18, <2>1, WhichHops
<1>20. Content(h + 1)'
  <2>1. ASSUME NEW s \in Slots, s < W - ha
        PROVE  buf[s + ha] = Stream!Held(analysis_start + s)'
    <3>1. s + ha \in Slots /\ h * ha - HS + (s + ha) = analysis_start' + s
      <4>1. analysis_start' = analysis_start + ha /\ analysis_start \in Int
        BY <1>2, <1>7
      <4>2. s \in 0..(W - 1) /\ W \in Nat /\ ha \in Nat /\ s < W - ha
        BY <1>5, <2>1
      <4>3. s + ha \in 0..(W - 1)
        BY <4>2
      <4>4. analysis_start + (s + ha) = analysis_start' + s
        BY <4>1, <4>2
      <4>5. analysis_start + (s + ha) = analysis_start' + s /\ s + ha \in Slots
        BY <1>5, <4>3, <4>4
      <4> QED BY <1>7, <4>5
    <3>2. Stream!Held(analysis_start + s)' = Stream!Held(analysis_start' + s)
      BY <1>1 DEF Stream!Held
    <3> QED BY <1>9, <3>1, <3>2
  <2>2. in_buf' = [s \in Slots |-> IF input_pulled' > 0 /\ s < in_fill'
                                   THEN Stream!Held(analysis_start + s)' ELSE Blank]
    BY <1>1, <1>2, <2>1
  <2>3. ASSUME NEW s \in Slots, s < HS
        PROVE  a[s + HS] = {<<HS + s, Stream!Held(h * ha + s)'>>}
    <3>1. s + HS \in Slots /\ ~ (s + HS < HS) /\ h * ha - HS + (s + HS) = h * ha + s
          /\ s + HS = HS + s
      BY <1>5, <1>6, <2>3
    <3>2. acc[s + HS] = {}
      BY <1>11, <3>1
    <3>3. Stream!Held(h * ha + s)' = Stream!Held(h * ha + s)
      BY <1>1 DEF Stream!Held
    <3> QED BY <1>10, <3>1, <3>2, <3>3
  <2>4. acc' = [s \in Slots |-> IF s < HS THEN {<<HS + s, Stream!Held(h * ha + s)'>>} ELSE {}]
    BY <1>2, <2>3
  <2>5. /\ analysis_start' + in_fill' >= input_pulled'
        /\ in_fill' # W
        /\ h * ha' - HS < length'
    BY <1>1, <1>2, <1>5, <1>7
  <2>6. Slots' = Slots /\ W' = W /\ HS' = HS /\ h + 1 # 0
    BY DEF Slots, W
  <2>7. acc' = [s \in Slots |->
                  IF h + 1 # 0 /\ s < HS
                  THEN {<<HS + s, Stream!Held((h + 1 - 1) * ha + s)'>>} ELSE {}]
    BY <1>6, <2>4, <2>6
  <2>8. h + 1 # 0 => (h + 1 - 1) * ha' - HS < length'
    BY <1>6, <2>5
  <2> QED BY <2>2, <2>5, <2>6, <2>7, <2>8 DEF Content
<1> QED BY <1>14, <1>15, <1>16, <1>19, <1>20 DEF StreamInv, Contents

LEMMA HopsStream ==
  ASSUME IInv, IInv', StreamInv, Hop \/ EdgeHop
  PROVE  StreamInv'
<1>1. /\ TypeOK /\ HS \in Nat \ {0} /\ W \in Nat /\ W = 2 * HS /\ Slots = 0..(W - 1)
      /\ ha \in Nat \ {0}
  BY Widths DEF IInv
<1>2. /\ Starved /\ ha # HS /\ read = input_pulled /\ read \in 0..length /\ length \in Nat
      /\ analysis_start \in Int /\ in_fill \in 0..W /\ read \in Nat
  <2>1. Starved
    BY DEF Hop, EdgeHop, AtEnd
  <2>2. ha # HS /\ read = input_pulled
    BY <2>1 DEF Starved, IInv, EndInv
  <2>3. /\ read \in 0..length /\ length \in Nat /\ analysis_start \in Int /\ in_fill \in 0..W
    BY <1>1, StretchAssumption DEF TypeOK
  <2> QED BY <2>1, <2>2, <2>3
<1>3. ~ EndedEmpty
  BY <1>1, <1>2 DEF EndedEmpty, Hop, EdgeHop
<1>4. PICK h \in Nat : AfterHops(h) /\ Content(h)
  BY <1>3 DEF StreamInv, Contents
<1>5. analysis_start = h * ha - HS /\ h * ha \in Nat
  BY <1>1, <1>4, Products DEF AfterHops
<1>6. /\ in_buf = [s \in Slots |-> IF input_pulled > 0 /\ s < in_fill
                                   THEN Stream!Held(analysis_start + s) ELSE Blank]
      /\ analysis_start + in_fill >= input_pulled
      /\ in_fill = W => analysis_start + in_fill = input_pulled
      /\ tail_flushed => analysis_start >= input_pulled
      /\ FullyDone => analysis_start >= input_pulled
  BY <1>4 DEF Content, AfterHops, FullyDone
<1>7. CASE Hop
  <2>1. in_fill = W /\ ProduceHop(in_buf)
        /\ UNCHANGED <<ha, srcVars, input_pulled, input_eof, output_emitted, target_output,
                       tail_flushed, pc, need, hostVars>>
    BY <1>7 DEF Hop
  <2>2. analysis_start + W = input_pulled
    BY <1>6, <2>1
  <2>3. /\ input_pulled > 0 /\ analysis_start < length /\ analysis_start + W >= input_pulled
        /\ ~ (analysis_start >= input_pulled)
    BY <1>1, <1>2, <1>5, <2>2
  <2>4. in_buf \in [Slots -> Nat \cup {Blank}]
    BY <1>1 DEF TypeOK
  <2>5. \A s \in Slots : in_buf[s] = Stream!Held(analysis_start + s)
    BY <1>1, <1>6, <2>1, <2>3
  <2> QED BY <1>2, <1>4, <1>6, <2>1, <2>3, <2>4, <2>5, HopStream
<1>8. CASE EdgeHop
  <2>1. /\ input_eof /\ input_pulled > 0 /\ ~ (analysis_start >= input_pulled)
        /\ ProduceHop(Extended)
        /\ UNCHANGED <<ha, srcVars, input_pulled, input_eof, output_emitted, target_output,
                       tail_flushed, pc, need, hostVars>>
    BY <1>8 DEF EdgeHop, AtEnd, Exhausted
  <2>2. read = length
    BY <2>1 DEF StreamInv, SourceEnd
  <2>3. analysis_start < length /\ analysis_start + W >= input_pulled /\ length > 0
    BY <1>1, <1>2, <1>6, <2>1, <2>2
  <2>4. ASSUME NEW s \in Slots PROVE Extended[s] = Stream!Held(analysis_start + s)
    <3>1. CASE s >= in_fill
      <4>1. analysis_start + s >= length /\ ~ (analysis_start + s < 0)
        BY <1>1, <1>2, <1>6, <2>2, <2>3, <3>1
      <4> QED BY <2>2, <3>1, <4>1 DEF Extended, Stream!Held
    <3>2. CASE ~ (s >= in_fill)
      <4>1. s < in_fill
        BY <1>1, <1>2, <3>2
      <4> QED BY <1>6, <2>1, <3>2, <4>1 DEF Extended
    <3> QED BY <3>1, <3>2
  <2>5. Extended \in [Slots -> Nat \cup {Blank}]
    <3>1. in_buf \in [Slots -> Nat \cup {Blank}] /\ read - 1 \in Nat
      BY <1>1, <1>2, <2>2, <2>3 DEF TypeOK
    <3> QED BY <3>1 DEF Extended
  <2> QED BY <1>2, <1>4, <1>6, <2>1, <2>3, <2>4, <2>5, HopStream
<1> QED BY <1>7, <1>8

LEMMA FlushStream ==
  ASSUME IInv, IInv', StreamInv, FlushTail
  PROVE  StreamInv'
<1>1. /\ pc = "more" /\ fifo = <<>> /\ input_eof /\ input_pulled > 0
      /\ analysis_start >= input_pulled /\ ~ tail_flushed /\ tail_flushed' = TRUE
      /\ PushFinalized(acc)
      /\ UNCHANGED <<ha, cap, length, read, src_done, in_buf, in_fill, input_pulled, input_eof,
                     analysis_start, acc, output_emitted, target_output, pc, need, done, out,
                     resets>>
  BY DEF FlushTail, AtEnd, Starved, Exhausted, srcVars, inVars, hostVars
<1>2. /\ TypeOK /\ HS \in Nat \ {0} /\ W \in Nat /\ W = 2 * HS /\ Slots = 0..(W - 1)
      /\ ha \in Nat \ {0}
  BY Widths DEF IInv
<1>3. ha # HS /\ length = input_pulled /\ length \in Nat /\ acc \in [Slots -> Sums]
  <2>1. ha # HS /\ read = input_pulled /\ read = length
    BY <1>1 DEF IInv, EndInv, StreamInv, SourceEnd
  <2>2. length \in Nat /\ acc \in [Slots -> Sums]
    BY <1>2, StretchAssumption DEF TypeOK, Sums
  <2> QED BY <2>1, <2>2
<1>4. PICK h \in Nat : AfterHops(h) /\ Content(h)
  BY <1>1 DEF StreamInv, Contents, EndedEmpty
<1>5. ASSUME h # 0, NEW r \in 0..(HS - 1)
      PROVE  acc[r] = Stream!Grain((h - 1) * HS + r)
  <2> DEFINE q == h - 1
  <2>1. q \in Nat /\ q + 1 = h /\ r \in Slots /\ r < HS /\ HS + r = r + HS
    BY <1>2, <1>5
  <2>2. q * ha - HS < length
    BY <1>4, <1>5 DEF Content
  <2>3. ~ ((q + 1) * ha - HS < length)
    <3>1. h * ha - HS >= length /\ h * ha \in Nat
      BY <1>1, <1>2, <1>3, <1>4, Products DEF AfterHops
    <3>2. ~ (h * ha - HS < length)
      BY <1>2, <1>3, <3>1
    <3> QED BY <2>1, <3>2
  <2>4. acc[r] = {<<HS + r, Stream!Held((h - 1) * ha + r)>>}
    BY <1>4, <1>5, <2>1 DEF Content
  <2> HIDE DEF q
  <2>5. Stream!Grain(q * HS + r) = {<<r + HS, Stream!Held(q * ha + r)>>}
    <3>1. Stream!Grain(q * HS + r) =
            {<<r + HS, Stream!Held(q * ha + r)>>}
              \cup (IF (q + 1) * ha - HS < length
                    THEN {<<r, Stream!Held((q + 1) * ha - HS + r)>>} ELSE {})
      BY <1>2, <1>3, <2>1, <2>2, GrainAt
    <3> QED BY <2>3, <3>1
  <2> QED BY <2>1, <2>4, <2>5 DEF q
<1>6. \A i \in 1..Len(fifo') : fifo'[i] = Stream!Grain(output_emitted + i - 1)'
  BY <1>1, <1>2, <1>3, <1>4, <1>5, PushedStream
<1>7. InStream'
  <2>1. \A t \in Int : Stream!Grain(t)' = Stream!Grain(t)
    BY <1>1, SameStream
  <2>2. ASSUME NEW i \in 1..Len(out) PROVE out[i] = Stream!Grain(i - 1)'
    BY <2>1 DEF StreamInv, InStream
  <2> QED BY <1>1, <1>6, <2>2 DEF InStream
<1>8. SourceEnd'
  BY <1>1 DEF StreamInv, SourceEnd
<1>9. Delivered'
  <2>1. Len(out) = output_emitted /\ ~ done
    BY <1>1, <1>3 DEF StreamInv, Delivered, FullyDone
  <2> QED BY <1>1, <1>3, <2>1 DEF Delivered
<1>10. Contents'
  BY <1>1, SameContents DEF StreamInv, EndedEmpty
<1> QED BY <1>7, <1>8, <1>9, <1>10 DEF StreamInv

LEMMA RefillStream ==
  ASSUME IInv, IInv', StreamInv, Refill
  PROVE  StreamInv'
<1>1. PICK p \in Pull(W - in_fill) :
        /\ Take(p)
        /\ in_buf' = Staged(p.frames)
        /\ in_fill' = in_fill + p.frames
        /\ input_pulled' = input_pulled + p.frames
        /\ input_eof' = p.done
  BY DEF Refill
<1>2. /\ pc = "more" /\ fifo = <<>> /\ in_fill < W /\ ~ input_eof
      /\ UNCHANGED <<ha, analysis_start, acc, startup_drop, fifo, output_emitted, tail_flushed,
                     need, done, out, resets>>
  BY DEF Refill, Starved, hopVars, hostVars
<1> DEFINE k == p.frames
<1>3. /\ TypeOK /\ W \in Nat /\ Slots = 0..(W - 1)
  BY Widths DEF IInv
<1>4. /\ in_fill \in 0..W /\ input_pulled \in Nat /\ read \in 0..length /\ length \in Nat
      /\ analysis_start \in Int
  BY <1>3, StretchAssumption DEF TypeOK
<1>5. ha # HS /\ read = input_pulled
  BY <1>2 DEF IInv, EndInv
<1>6. W - in_fill \in Nat
  BY <1>2, <1>3, <1>4
<1>7. /\ k \in Nat /\ k <= W - in_fill /\ p.done \in BOOLEAN /\ read + k \in 0..length
      /\ p.done => read + k = length
  BY <1>3, <1>6, PullFacts, PullEnds
<1>8. /\ read' = read + k /\ src_done' = p.done /\ UNCHANGED <<cap, length>>
      /\ in_buf' = Staged(k) /\ in_fill' = in_fill + k /\ input_pulled' = input_pulled + k
  BY <1>1 DEF Take
<1> HIDE DEF k
<1>9. ~ EndedEmpty /\ ~ FullyDone
  BY <1>2 DEF EndedEmpty, FullyDone
<1>10. PICK h \in Nat : AfterHops(h) /\ Content(h)
  BY <1>9 DEF StreamInv, Contents
<1>11. /\ analysis_start = h * ha - HS /\ analysis_start + in_fill = input_pulled
       /\ in_buf = [s \in Slots |-> IF input_pulled > 0 /\ s < in_fill
                                    THEN Stream!Held(analysis_start + s) ELSE Blank]
  BY <1>2, <1>10 DEF AfterHops, Content
<1>12. ASSUME NEW s \in Slots
       PROVE  Staged(k)[s] = IF input_pulled + k > 0 /\ s < in_fill + k
                             THEN Stream!Held(analysis_start + s) ELSE Blank
  <2>1. s \in Nat /\ s < W
    BY <1>3
  <2>2. Staged(k)[s] = IF input_pulled = 0 /\ k > 0 /\ s < in_fill THEN read
                       ELSE IF in_fill <= s /\ s < in_fill + k THEN read + (s - in_fill)
                       ELSE in_buf[s]
    BY DEF Staged
  <2>3. CASE in_fill <= s /\ s < in_fill + k
    <3>1. read + (s - in_fill) = analysis_start + s /\ analysis_start + s >= 0
          /\ analysis_start + s < length /\ input_pulled + k > 0 /\ ~ (s < in_fill)
      BY <1>4, <1>5, <1>7, <1>11, <2>1, <2>3
    <3>2. Stream!Held(analysis_start + s) = analysis_start + s
      BY <1>4, <2>1, <3>1 DEF Stream!Held
    <3> QED BY <2>2, <2>3, <3>1, <3>2
  <2>4. CASE s >= in_fill + k
    <3>1. ~ (s < in_fill) /\ ~ (s < in_fill + k)
      BY <1>4, <1>7, <2>1, <2>4
    <3>2. in_buf[s] = Blank
      BY <1>11, <3>1
    <3> QED BY <2>2, <3>1, <3>2
  <2>5. CASE s < in_fill /\ input_pulled = 0
    <3>1. ~ (in_fill <= s) /\ s < in_fill + k /\ analysis_start + s < 0 /\ read = 0
      BY <1>4, <1>5, <1>7, <1>11, <2>1, <2>5
    <3>2. in_buf[s] = Blank /\ Stream!Held(analysis_start + s) = 0
      BY <1>11, <2>5, <3>1 DEF Stream!Held
    <3>3. input_pulled + k > 0 <=> k > 0
      BY <1>7, <2>5
    <3> QED BY <2>2, <2>5, <3>1, <3>2, <3>3
  <2>6. CASE s < in_fill /\ input_pulled # 0
    <3>1. ~ (in_fill <= s) /\ s < in_fill + k /\ input_pulled + k > 0 /\ input_pulled > 0
      BY <1>4, <1>7, <2>1, <2>6
    <3>2. in_buf[s] = Stream!Held(analysis_start + s)
      BY <1>11, <2>6, <3>1
    <3> QED BY <2>2, <2>6, <3>1, <3>2
  <2> QED BY <1>4, <1>7, <2>1, <2>3, <2>4, <2>5, <2>6
<1>13. Contents'
  <2>1. SUFFICES ASSUME ~ EndedEmpty' PROVE Contents'
    BY DEF Contents
  <2>2. AfterHops(h)'
    BY <1>2, <1>11, <2>1, WhichHops
  <2>3. ASSUME NEW s \in Slots
        PROVE  Stream!Held(analysis_start + s)' = Stream!Held(analysis_start + s)
    BY <1>2, <1>8 DEF Stream!Held
  <2>4. ASSUME NEW s \in Slots
        PROVE  Stream!Held((h - 1) * ha + s)' = Stream!Held((h - 1) * ha + s)
    BY <1>2, <1>8 DEF Stream!Held
  <2>5. in_buf' = [s \in Slots |-> IF input_pulled' > 0 /\ s < in_fill'
                                   THEN Stream!Held(analysis_start + s)' ELSE Blank]
    <3>1. Staged(k) = [s \in Slots |-> Staged(k)[s]]
      BY DEF Staged
    <3> QED BY <1>8, <1>12, <2>3, <3>1
  <2>6. acc' = [s \in Slots |-> IF h # 0 /\ s < HS
                                THEN {<<HS + s, Stream!Held((h - 1) * ha + s)'>>} ELSE {}]
    BY <1>2, <1>10, <2>4 DEF Content
  <2>7. analysis_start' + in_fill' = input_pulled' /\ input_pulled' \in Int
    BY <1>2, <1>4, <1>7, <1>8, <1>11
  <2>8. Slots' = Slots /\ W' = W
    BY DEF Slots, W
  <2>9. h # 0 => (h - 1) * ha' - HS < length'
    BY <1>2, <1>8, <1>10 DEF Content
  <2>10. analysis_start' + in_fill' >= input_pulled'
    BY <2>7
  <2> QED BY <2>2, <2>5, <2>6, <2>7, <2>8, <2>9, <2>10 DEF Contents, Content
<1>14. InStream'
  BY <1>2, <1>3, <1>8, SameOutput DEF StreamInv
<1>15. SourceEnd'
  BY <1>1, <1>7, <1>8 DEF SourceEnd
<1>16. Delivered'
  BY <1>2, <1>5, <1>9 DEF StreamInv, Delivered
<1> QED BY <1>13, <1>14, <1>15, <1>16 DEF StreamInv

LEMMA StreamStep == IInv /\ StreamInv /\ [Next]_vars => StreamInv'
<1> SUFFICES ASSUME IInv, StreamInv, [Next]_vars PROVE StreamInv'
  OBVIOUS
<1>1. IInv'
  BY StepKeeps
<1>2. ASSUME NEW n \in 0..MaxNeed, Ask(n) PROVE StreamInv'
  BY <1>1, <1>2, CallStream, ThroughStream DEF Ask
<1>3. CASE Work
  BY <1>1, <1>3, DeliverStream, RefillStream, HopsStream, FlushStream, NoInputStream, EndStream
  DEF Work
<1>4. CASE Reset
  BY <1>4, ResetStream
<1>5. CASE UNCHANGED vars
  <2>1. UNCHANGED <<ha, cap, length, read, src_done, in_buf, in_fill, input_pulled, input_eof,
                    analysis_start, acc, startup_drop, fifo, output_emitted, target_output,
                    tail_flushed, done, out>>
    BY <1>5 DEF vars, srcVars, inVars, hopVars, outVars, hostVars
  <2>2. Contents'
    BY <1>1, <2>1, SameContents DEF StreamInv, EndedEmpty, W
  <2>3. InStream'
    BY <2>1, SameOutput DEF IInv, StreamInv
  <2>4. SourceEnd' /\ Delivered'
    BY <2>1 DEF StreamInv, SourceEnd, Delivered, FullyDone
  <2> QED BY <2>2, <2>3, <2>4 DEF StreamInv
<1> QED BY <1>2, <1>3, <1>4, <1>5 DEF Next

-----------------------------------------------------------------------------
\* What is delivered and queued is no longer than the rounded duration, known or not.
LEMMA QueueWithin ==
  ASSUME IInv, StreamInv, ha # HS
  PROVE  output_emitted + Len(fifo) <= Stream!Total
<1>1. TypeOK /\ read = input_pulled /\ read \in 0..length /\ length \in Nat
  BY StretchAssumption DEF IInv, EndInv, TypeOK
<1>2. Stream!Total = RoundedOutputFrames(length) /\ RoundedOutputFrames(length) \in Nat
  BY <1>1, TotalIs, Rounded
<1>3. CASE EndedEmpty
  BY <1>2, <1>3 DEF EndedEmpty
<1>4. CASE ~ EndedEmpty
  <2>1. PICK h \in Nat : AfterHops(h)
    BY <1>4, Counted
  <2>2. output_emitted + Len(fifo) = Capped(Made(h)) /\ Made(h) \in Nat
    BY <1>1, <2>1, NextMade DEF AfterHops
  <2>3. CASE input_eof
    <3>1. target_output = RoundedOutputFrames(length)
      BY <1>1, <2>3 DEF IInv, EndInv, StreamInv, SourceEnd
    <3>2. target_output # None
      BY <1>2, <3>1, StretchAssumption
    <3> QED BY <1>2, <2>2, <3>1, <3>2 DEF Capped, Smaller
  <2>4. CASE ~ input_eof
    <3>1. ~ tail_flushed /\ target_output = None
      BY <2>1, <2>4 DEF AfterHops, IInv, EndInv
    <3>2. ASSUME h # 0 PROVE (h * ha - HS) + (W - ha) <= length
      <4>1. /\ h * ha - HS + in_fill = input_pulled /\ in_fill >= W - ha
            /\ in_fill \in 0..W /\ input_pulled \in Nat
        BY <1>1, <2>1, <2>4, <3>2 DEF AfterHops, TypeOK
      <4>2. h * ha \in Nat /\ ha \in Nat /\ HS \in Nat /\ W \in Nat
        BY <1>1, Products, Widths
      <4> QED BY <1>1, <4>1, <4>2
    <3>3. Made(h) <= RoundedOutputFrames(length)
      BY <1>1, <3>1, <3>2, MadeInTime
    <3> QED BY <1>2, <2>2, <3>1, <3>3 DEF Capped
  <2> QED BY <2>3, <2>4
<1> QED BY <1>3, <1>4

\* The end is reported when all of it is out.
LEMMA DoneWhole ==
  ASSUME IInv, StreamInv, ha # HS, FullyDone
  PROVE  Len(out) = Stream!Total
<1>1. TypeOK /\ read = input_pulled /\ read = length /\ length \in Nat /\ fifo = <<>>
      /\ output_emitted \in Nat /\ output_emitted >= target_output
      /\ target_output = RoundedOutputFrames(input_pulled)
  BY StretchAssumption DEF IInv, EndInv, TypeOK, FullyDone, StreamInv, SourceEnd
<1>2. Stream!Total = target_output /\ Stream!Total \in Nat
  BY <1>1, TotalIs, Rounded
<1>3. output_emitted + Len(fifo) <= Stream!Total /\ Len(fifo) = 0
  BY <1>1, QueueWithin
<1>4. Len(out) = output_emitted
  BY DEF StreamInv, Delivered
<1> QED BY <1>1, <1>2, <1>3, <1>4

\* Frames that come out are an Emit of the stream.
LEMMA Emits ==
  ASSUME TypeOK, NEW k \in Nat, UNCHANGED <<ha, length>>,
         out' = out \o [i \in 1..k |-> Stream!Grain(Len(out) + i - 1)],
         Len(out) + k <= Stream!Total, done' \in BOOLEAN, done => done',
         done' => Len(out) + k = Stream!Total
  PROVE  Stream!Next
<1>1. Stream!Total \in Nat /\ Len(out) \in Nat
  <2>1. length \in Nat /\ Len(out) \in Nat
    BY StretchAssumption DEF TypeOK
  <2> QED BY <2>1, TotalIs, Rounded
<1>2. k \in 0..Stream!Total
  BY <1>1
<1>3. Stream!Emit(k)
  BY DEF Stream!Emit
<1> QED BY <1>2, <1>3 DEF Stream!Next

\* At unity the stream is as long as the input.
LEMMA UnityTotal ==
  ASSUME TypeOK, ha = HS
  PROVE  Stream!Total = length
<1>1. length \in Nat /\ ha \in Nat
  BY Widths, StretchAssumption DEF TypeOK
<1>2. length * ha <= length * HS /\ length * HS <= length * ha
  BY <1>1, SMT
<1>3. length <= RoundedOutputFrames(length) /\ RoundedOutputFrames(length) <= length
      /\ RoundedOutputFrames(length) \in Nat
  BY <1>1, <1>2, Rounded
<1> QED BY <1>1, <1>3, TotalIs

LEMMA StreamSteps ==
  ASSUME IInv, IInv', StreamInv, StreamInv', [Next]_vars
  PROVE  Stream!Next \/ UNCHANGED <<ha, length, out, done>>
<1>1. TypeOK
  BY DEF IInv
<1>2. ASSUME NEW n \in 0..MaxNeed, Through(n) PROVE Stream!Next
  <2>1. ha = HS /\ UNCHANGED <<ha, length>> /\ done' \in BOOLEAN
    BY <1>2 DEF Through, Take, IInv, TypeOK
  <2>2. PICK k \in Nat : /\ out' = out \o [i \in 1..k |-> Stream!Grain(Len(out) + i - 1)]
                         /\ done => done'
                         /\ Len(out) + k <= length
                         /\ done' => Len(out) + k = length
    BY <1>2, ThroughStream
  <2>3. Stream!Total = length
    BY <1>1, <2>1, UnityTotal
  <2> QED BY <1>1, <2>1, <2>2, <2>3, Emits
<1>3. CASE Deliver
  <2>1. ha # HS /\ UNCHANGED <<ha, length, done>> /\ ~ done
    BY <1>3 DEF Deliver, srcVars, IInv, EndInv, StreamInv, Delivered, FullyDone
  <2>2. PICK k \in Nat : /\ out' = out \o [i \in 1..k |-> Stream!Grain(Len(out) + i - 1)]
                         /\ k <= Len(fifo)
    BY <1>3, DeliverStream
  <2>3. Len(out) + k <= Stream!Total
    <3>1. output_emitted + Len(fifo) <= Stream!Total /\ Len(out) = output_emitted
      BY <2>1, QueueWithin DEF StreamInv, Delivered
    <3>2. output_emitted \in Nat /\ Len(fifo) \in Nat /\ length \in Nat
      BY <1>1, StretchAssumption DEF TypeOK
    <3>3. Stream!Total \in Nat
      BY <1>1, <3>2, TotalIs, Rounded
    <3> QED BY <2>2, <3>1, <3>2, <3>3
  <2>4. done' \in BOOLEAN /\ ~ done'
    BY <1>1, <2>1 DEF TypeOK
  <2> QED BY <1>1, <2>1, <2>2, <2>3, <2>4, Emits
<1>4. CASE Return
  <2>1. ha # HS /\ UNCHANGED <<ha, length, out>> /\ done' = FullyDone /\ FullyDone \in BOOLEAN
    BY <1>4 DEF Return, srcVars, IInv, EndInv, FullyDone
  <2>2. done => done'
    BY <2>1 DEF StreamInv, Delivered
  <2>3. out' = out \o [i \in 1..0 |-> Stream!Grain(Len(out) + i - 1)]
    <3> DEFINE e == [i \in 1..0 |-> Stream!Grain(Len(out) + i - 1)]
    <3>1. e \in Seq(Sums) /\ Len(e) = 0
      OBVIOUS
    <3>2. out \in Seq(Sums)
      BY <1>1 DEF TypeOK, Sums
    <3> HIDE DEF e
    <3>3. out \o e = out
      BY <3>1, <3>2
    <3> QED BY <2>1, <3>3 DEF e
  <2>4. Len(out) + 0 <= Stream!Total /\ (done' => Len(out) + 0 = Stream!Total)
    <3>1. output_emitted + Len(fifo) <= Stream!Total /\ Len(out) = output_emitted
      BY <2>1, QueueWithin DEF StreamInv, Delivered
    <3>2. output_emitted \in Nat /\ Len(fifo) \in Nat /\ length \in Nat
      BY <1>1, StretchAssumption DEF TypeOK
    <3>3. Stream!Total \in Nat
      BY <1>1, <3>2, TotalIs, Rounded
    <3>4. done' => Len(out) = Stream!Total
      BY <2>1, DoneWhole
    <3>5. Len(out) + 0 = Len(out)
      BY <3>1, <3>2
    <3>6. Len(out) <= Stream!Total
      BY <3>1, <3>2, <3>3
    <3> QED BY <3>4, <3>5, <3>6
  <2>5. done' \in BOOLEAN
    BY <2>1
  <2> QED BY <1>1, <2>1, <2>2, <2>3, <2>4, <2>5, Emits
<1>5. CASE Reset
  BY <1>5 DEF Reset, Stream!Next, Stream!Restart
<1>6. ASSUME NEW n \in 0..MaxNeed, Call(n) PROVE UNCHANGED <<ha, length, out, done>>
  BY <1>6 DEF Call, srcVars, hostVars
<1>7. ASSUME Refill \/ Hop \/ EdgeHop \/ FlushTail \/ NoInput \/ Drained
      PROVE  UNCHANGED <<ha, length, out, done>>
  BY <1>7 DEF Refill, Hop, EdgeHop, FlushTail, NoInput, Drained, Take, srcVars, hostVars
<1>8. CASE UNCHANGED vars
  BY <1>8 DEF vars, srcVars, hostVars
<1> QED BY <1>2, <1>3, <1>4, <1>5, <1>6, <1>7, <1>8 DEF Next, Ask, Work

(***************************************************************************)
(* The frames that come out are those of the one stream the input and the  *)
(* ratio fix, in order and none missing, whatever the host asks for and    *)
(* the source gives; the end is reported exactly at its rounded length.    *)
(***************************************************************************)
THEOREM StreamRight == Spec => OneOutput
<1>1. Init => Stream!Init /\ StreamInv
  <2>1. Init => Stream!Init
    BY DEF Init, Hops, W, Stream!Init, Stream!W
  <2> QED BY <2>1, StreamInit
<1>2. IInv /\ StreamInv /\ [Next]_vars => StreamInv'
  BY StreamStep
<1>3. IInv /\ IInv' /\ StreamInv /\ StreamInv' /\ [Next]_vars => [Stream!Next]_(Stream!vars)
  BY StreamSteps DEF Stream!vars
<1> QED BY <1>1, <1>2, <1>3, Inductive, PTL DEF Spec, OneOutput, Stream!Spec
=============================================================================
