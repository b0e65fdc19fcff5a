------------------------ MODULE SpectralFilter_proofs ------------------------
(***************************************************************************)
(* Proofs about SpectralFilter, for every window, hop and sequence of      *)
(* calls.  The queue and the analysis buffer are filled and emptied by     *)
(* different statements; that they balance is what keeps every index in    *)
(* its ring.                                                               *)
(***************************************************************************)
EXTENDS SpectralFilter, TLAPS

\* A call of flush never asks for more than the drain has left.
DrainInv == call # None => flushed + call <= size

IInv == TypeOK /\ NoUnderrun /\ DrainInv

LEMMA Sizes == size \in Nat /\ size > 1 /\ MaxFrames \in Nat /\ MaxResets \in Nat
BY SpectralAssumption

-----------------------------------------------------------------------------
\* The empty filter.
LEMMA InitHolds == Init => IInv
<1> SUFFICES ASSUME Init PROVE IInv
  OBVIOUS
<1>1. TypeOK
  <2>1. Slots # {} /\ {} \in Sample
    BY Sizes DEF Sample, Slots
  <2>2. frame_in \in [Slots -> Nat] /\ acc \in [Slots -> Sample] /\ fifo \in [Ring -> Sample]
    BY <2>1 DEF Init
  <2>3. hop \in 1..size /\ wpos \in Slots /\ fifo_head \in Ring /\ fifo_len \in 0..hop
    BY Sizes DEF Init, Slots, Ring, cap
  <2>4. /\ flushed \in 0..size /\ want \in 0..size /\ call \in {None} \cup 0..size
        /\ resets \in 0..MaxResets
    BY Sizes DEF Init
  <2>5. inputs \in Seq(Nat) /\ out \in Sample
    BY <2>1 DEF Init
  <2> QED BY <2>2, <2>3, <2>4, <2>5 DEF TypeOK
<1>2. NoUnderrun
  BY Sizes DEF Init, NoUnderrun
<1>3. DrainInv
  BY DEF Init, DrainInv
<1> QED BY <1>1, <1>2, <1>3 DEF IInv

\* What popping leaves: a sample, a cursor in the ring, one sample fewer.
LEMMA PopTyped ==
  ASSUME TypeOK
  PROVE  /\ Pop.out \in Sample /\ Pop.head \in Ring
         /\ Pop.len = IF fifo_len > 0 THEN fifo_len - 1 ELSE 0
<1> USE Sizes DEF TypeOK, Pop
<1>1. {} \in Sample
  BY DEF Sample
<1>2. (fifo_head + 1) % cap \in Ring
  BY DEF Ring, cap
<1> QED BY <1>1, <1>2

\* A filtered window is made of samples.
LEMMA SynthesizedTyped ==
  ASSUME NEW window \in [Slots -> Nat], NEW n \in Slots
  PROVE  Synthesized(n, window) \in Sample
BY DEF Synthesized, Sample

\* A window that fires leaves the ring and the accumulator well formed.
LEMMA FireTyped ==
  ASSUME TypeOK, NEW window \in [Slots -> Nat], NEW head \in Ring, NEW base \in Nat,
         base <= hop, FireChannel(window, head, base)
  PROVE  fifo' \in [Ring -> Sample] /\ acc' \in [Slots -> Sample]
<1> DEFINE sum == [i \in Slots |-> acc[i] \cup Synthesized(i, window)]
           at(p) == (p - head - base + 2 * cap) % cap
<1>1. sum \in [Slots -> Sample]
  <2> SUFFICES ASSUME NEW i \in Slots PROVE acc[i] \cup Synthesized(i, window) \in Sample
    OBVIOUS
  <2>1. acc[i] \in Sample /\ Synthesized(i, window) \in Sample
    BY SynthesizedTyped DEF TypeOK
  <2> QED BY <2>1 DEF Sample
<1>2. \A i \in Slots : i + hop < size => i + hop \in Slots
  BY Sizes DEF TypeOK, Slots
<1>3. acc' = [i \in Slots |-> IF i + hop < size THEN sum[i + hop] ELSE {}]
  BY DEF FireChannel
<1>4. acc' \in [Slots -> Sample]
  <2>1. {} \in Sample
    BY DEF Sample
  <2> HIDE DEF sum
  <2> QED BY <1>1, <1>2, <1>3, <2>1
<1>5. fifo' = [p \in Ring |-> IF at(p) < hop THEN sum[at(p)] ELSE fifo[p]]
  BY DEF FireChannel
<1>6. \A p \in Ring : at(p) < hop => at(p) \in Slots
  <2> SUFFICES ASSUME NEW p \in Ring, at(p) < hop PROVE at(p) \in Slots
    OBVIOUS
  <2>1. cap \in Nat /\ cap > 0 /\ hop \in 1..size
    BY Sizes DEF cap, TypeOK
  <2>2. p - head - base + 2 * cap \in Nat
    BY <2>1, Sizes DEF Ring, cap
  <2>3. at(p) \in Nat
    BY <2>1, <2>2
  <2> QED BY <2>1, <2>3, Sizes DEF Slots
<1>7. fifo' \in [Ring -> Sample]
  <2> HIDE DEF sum, at
  <2> QED BY <1>1, <1>5, <1>6 DEF TypeOK
<1> QED BY <1>4, <1>7

-----------------------------------------------------------------------------
(***************************************************************************)
(* One frame of process or flush keeps the balance: a window fires exactly *)
(* when the ring has just been emptied.                                    *)
(***************************************************************************)
LEMMA FrameKeeps ==
  ASSUME TypeOK, NoUnderrun, NEW x \in Nat, Frame(x), hop' = hop
  PROVE  /\ frame_in' \in [Slots -> Nat] /\ wpos' \in Slots
         /\ acc' \in [Slots -> Sample]
         /\ fifo' \in [Ring -> Sample] /\ fifo_head' \in Ring /\ fifo_len' \in 0..hop
         /\ inputs' \in Seq(Nat) /\ out' \in Sample
         /\ NoUnderrun'
<1> DEFINE filled == [frame_in EXCEPT ![wpos] = x]
<1>1. /\ hop \in 1..size /\ wpos \in Slots /\ fifo_len \in 0..hop
      /\ inputs \in Seq(Nat) /\ Len(inputs) \in Nat
  BY DEF TypeOK
<1>2. filled \in [Slots -> Nat]
  BY DEF TypeOK
<1>3. Pop.len = IF fifo_len > 0 THEN fifo_len - 1 ELSE 0
  BY PopTyped
<1>4. out' \in Sample /\ fifo_head' \in Ring
  BY PopTyped DEF Frame
<1>5. inputs' \in Seq(Nat) /\ Len(inputs') = Len(inputs) + 1
  BY <1>1 DEF Frame
<1>6. CASE wpos + 1 = size
  <2>1. /\ FireChannel(filled, Pop.head, Pop.len)
        /\ fifo_len' = Pop.len + hop
        /\ frame_in' = [i \in Slots |-> IF i + hop < size THEN filled[i + hop] ELSE filled[i]]
        /\ wpos' = size - hop
    BY <1>6 DEF Frame, Refilled
  <2>2. Pop.len = 0
    BY <1>1, <1>3, <1>6, Sizes DEF NoUnderrun, Slots
  <2>3. fifo' \in [Ring -> Sample] /\ acc' \in [Slots -> Sample]
    <3>1. Pop.head \in Ring /\ Pop.len \in Nat /\ Pop.len <= hop
      BY <1>1, <2>2, PopTyped
    <3>2. FireChannel(filled, Pop.head, Pop.len)
      BY <2>1
    <3> HIDE DEF filled
    <3> QED BY <1>2, <3>1, <3>2, FireTyped
  <2>4. \A i \in Slots : i + hop < size => i + hop \in Slots
    BY <1>1, Sizes DEF Slots
  <2>5. frame_in' \in [Slots -> Nat]
    <3> HIDE DEF filled
    <3> QED BY <1>2, <2>1, <2>4
  <2>6. wpos' \in Slots /\ fifo_len' \in 0..hop
    BY <1>1, <2>1, <2>2, Sizes DEF Slots
  <2>7. NoUnderrun'
    BY <1>1, <1>5, <1>6, <2>1, <2>2, Sizes DEF NoUnderrun, Slots
  <2> QED BY <1>4, <1>5, <2>3, <2>5, <2>6, <2>7
<1>7. CASE wpos + 1 # size
  <2>1. /\ frame_in' = filled /\ wpos' = wpos + 1 /\ fifo_len' = Pop.len
        /\ fifo' = fifo /\ acc' = acc
    BY <1>7 DEF Frame
  <2>2. fifo' \in [Ring -> Sample] /\ acc' \in [Slots -> Sample]
    BY <2>1 DEF TypeOK
  <2>3. frame_in' \in [Slots -> Nat]
    BY <1>2, <2>1
  <2>4. wpos' \in Slots /\ fifo_len' \in 0..hop
    BY <1>1, <1>3, <1>7, <2>1, Sizes DEF Slots
  <2>5. NoUnderrun'
    BY <1>1, <1>3, <1>5, <1>7, <2>1, Sizes DEF NoUnderrun, Slots
  <2> QED BY <1>4, <1>5, <2>2, <2>3, <2>4, <2>5
<1> QED BY <1>6, <1>7

\* A drain gives what was asked for or what is left, never less than nothing.
LEMMA WantedBounds ==
  ASSUME TypeOK, NEW n \in Nat
  PROVE  Wanted(n) \in 0..size /\ flushed + Wanted(n) <= size
BY Sizes DEF TypeOK, Wanted

LEMMA StepKeeps == IInv /\ [Next]_vars => IInv'
<1> SUFFICES ASSUME IInv, [Next]_vars PROVE IInv'
  OBVIOUS
<1> USE DEF IInv
<1>1. CASE Process
  <2>1. /\ hop' = hop /\ call' = None /\ flushed' = 0
        /\ want' = want /\ resets' = resets /\ Frame(Len(inputs) + 1)
    BY <1>1 DEF Process
  <2>2. Len(inputs) + 1 \in Nat
    BY DEF TypeOK
  <2>3. Ring' = Ring
    BY <2>1 DEF Ring, cap
  <2>4. TypeOK'
    BY <2>1, <2>2, <2>3, FrameKeeps, Sizes DEF TypeOK
  <2>5. NoUnderrun'
    BY <2>1, <2>2, FrameKeeps
  <2> QED BY <2>1, <2>4, <2>5 DEF DrainInv
<1>2. CASE \E n \in Offers : Flush(n)
  <2>1. PICK n \in Offers : Flush(n)
    BY <1>2
  <2>2. /\ UNCHANGED <<hop, windowVars, flushed, resets>>
        /\ want' = Wanted(n) /\ call' = Wanted(n)
    BY <2>1 DEF Flush
  <2>3. Wanted(n) \in 0..size /\ flushed + Wanted(n) <= size
    BY WantedBounds, SpectralAssumption
  <2>4. TypeOK'
    BY <2>2, <2>3 DEF TypeOK, windowVars, Ring, cap
  <2>5. NoUnderrun'
    BY <2>2 DEF NoUnderrun, windowVars
  <2> QED BY <2>2, <2>3, <2>4, <2>5 DEF DrainInv
<1>3. CASE FlushFrame
  <2>1. /\ hop' = hop /\ call' = call /\ flushed' = flushed
        /\ want > 0 /\ want' = want - 1 /\ resets' = resets /\ Frame(0)
    BY <1>3 DEF FlushFrame
  <2>2. Ring' = Ring
    BY <2>1 DEF Ring, cap
  <2>3. want' \in 0..size
    BY <2>1, Sizes DEF TypeOK
  <2>4. TypeOK'
    BY <2>1, <2>2, <2>3, FrameKeeps DEF TypeOK
  <2>5. NoUnderrun'
    BY <2>1, FrameKeeps
  <2> QED BY <2>1, <2>4, <2>5 DEF DrainInv
<1>4. CASE FlushReturn
  <2>1. /\ UNCHANGED <<hop, windowVars, want, resets>>
        /\ call # None /\ call' = None /\ flushed' = flushed + call
    BY <1>4 DEF FlushReturn
  <2>2. flushed' \in 0..size
    BY <2>1, Sizes DEF TypeOK, DrainInv
  <2>3. TypeOK'
    BY <2>1, <2>2 DEF TypeOK, windowVars, Ring, cap
  <2>4. NoUnderrun'
    BY <2>1 DEF NoUnderrun, windowVars
  <2> QED BY <2>1, <2>3, <2>4 DEF DrainInv
<1>5. CASE Reset
  <2>1. /\ hop' = hop /\ want' = want /\ call' = call /\ call = None /\ flushed' = 0
        /\ frame_in' = [i \in Slots |-> 0] /\ wpos' = 0
        /\ acc' = [i \in Slots |-> {}] /\ fifo' = [i \in Ring |-> {}]
        /\ fifo_head' = 0 /\ fifo_len' = 0 /\ inputs' = <<>> /\ out' = {}
        /\ resets < MaxResets /\ resets' = resets + 1
    BY <1>5 DEF Reset
  <2>2. Ring' = Ring /\ {} \in Sample
    BY <2>1 DEF Ring, cap, Sample
  <2>3. 0 \in Slots /\ 0 \in Ring /\ 0 \in 0..hop /\ 0 \in 0..size
    BY Sizes DEF TypeOK, Slots, Ring, cap
  <2>4. resets' \in 0..MaxResets
    BY <2>1, Sizes DEF TypeOK
  <2>5. TypeOK'
    BY <2>1, <2>2, <2>3, <2>4 DEF TypeOK
  <2>6. NoUnderrun'
    BY <2>1, Sizes DEF NoUnderrun
  <2> QED BY <2>1, <2>5, <2>6 DEF DrainInv
<1>6. CASE UNCHANGED vars
  BY <1>6 DEF vars, windowVars, TypeOK, NoUnderrun, DrainInv, Ring, cap
<1> QED BY <1>1, <1>2, <1>3, <1>4, <1>5, <1>6 DEF Next

-----------------------------------------------------------------------------
\* The inductive invariant holds throughout.
THEOREM Inductive == Spec => []IInv
BY InitHolds, StepKeeps, PTL DEF Spec

\* Every index stays in its ring, and a drain never gives more than it may.
THEOREM TypeCorrect == Spec => []TypeOK
<1>1. IInv => TypeOK
  BY DEF IInv
<1> QED BY <1>1, Inductive, PTL

\* For every hop and every sequence of calls, a finished sample is there
\* whenever one is due.
THEOREM NeverDry == Spec => []NoUnderrun
<1>1. IInv => NoUnderrun
  BY DEF IInv
<1> QED BY <1>1, Inductive, PTL

(***************************************************************************)
(* flush implements the drain contract: at most size frames however the    *)
(* calls are cut, nothing after done, and input or a reset starts anew.    *)
(***************************************************************************)
THEOREM DrainsAsPromised == Spec => DrainKept
<1>1. Init => Contract!Init
  BY Sizes DEF Init, Contract!Init
<1>2. IInv /\ [Next]_vars => [Contract!Next]_(Contract!vars)
  <2> SUFFICES ASSUME IInv, [Next]_vars PROVE [Contract!Next]_(Contract!vars)
    OBVIOUS
  <2> USE Sizes DEF Contract!vars, Contract!Next, Contract!Begin
  <2>1. CASE Process
    BY <2>1 DEF Process
  <2>2. CASE \E n \in Offers : Flush(n)
    BY <2>2 DEF Flush
  <2>3. CASE FlushFrame
    BY <2>3 DEF FlushFrame
  <2>4. CASE FlushReturn
    <3>1. call \in 0..size /\ flushed \in 0..size /\ flushed + call <= size
      BY <2>4 DEF FlushReturn, IInv, TypeOK, DrainInv
    <3>2. flushed' = flushed + call
      BY <2>4 DEF FlushReturn
    <3>3. Contract!Flush(call)
      BY <3>1, <3>2 DEF Contract!Flush
    <3> QED BY <3>1, <3>3
  <2>5. CASE Reset
    BY <2>5 DEF Reset
  <2>6. CASE UNCHANGED vars
    BY <2>6 DEF vars
  <2> QED BY <2>1, <2>2, <2>3, <2>4, <2>5, <2>6 DEF Next
<1> QED BY <1>1, <1>2, Inductive, PTL DEF Spec, DrainKept, Contract!Spec

-----------------------------------------------------------------------------
(***************************************************************************)
(* The refinement of OverlapAdd.  The analysis buffer holds the samples    *)
(* from the start of the window that is filling; a slot of the accumulator *)
(* what the windows before it say of its sample; the ring finished sums.   *)
(***************************************************************************)
Start == Len(inputs) - wpos

\* The window of ins at sample s; what the windows from before sample t say of
\* sample x of the result.
Taken(ins, s) == [i \in 0..(size - 1) |-> ins[s + i + 1]]

Over(h, x, t) == {s \in 0..x : s % h = 0 /\ x < s + size /\ s < t}

Heard(ins, h, x, t) == UNION {Result!Said(x - s, Taken(ins, s)) : s \in Over(h, x, t)}

Filling == \A i \in 0..(wpos - 1) : frame_in[i] = inputs[Start + i + 1]
Summing == \A i \in Slots : acc[i] = Heard(inputs, hop, Start + i, Start)
Queued == \A k \in 0..(fifo_len - 1) :
            fifo[(fifo_head + k) % cap] = Heard(inputs, hop, Len(inputs) - size + k, Start)

FilterInv == Start % hop = 0 /\ Filling /\ Summing /\ Queued

\* Multiples of the hop are a hop apart.
LEMMA Multiples ==
  ASSUME NEW h \in Nat \ {0}, NEW a \in Nat, NEW b \in Nat, a % h = 0, b % h = 0
  PROVE  /\ a < b + h => a <= b
         /\ a < b => a + h <= b
         /\ (b + h) % h = 0
<1>1. a = h * (a \div h) /\ (a \div h) \in Nat
  BY Z3
<1>2. b = h * (b \div h) /\ (b \div h) \in Nat
  BY Z3
<1> DEFINE p == a \div h
           q == b \div h
<1> HIDE DEF p, q
<1>3. a = h * p /\ b = h * q /\ p \in Nat /\ q \in Nat
  BY <1>1, <1>2 DEF p, q
<1>4. ASSUME NEW m \in Nat, NEW n \in Nat, m < n PROVE h * m + h <= h * n
  BY <1>4, Z3
<1>5. a < b => a + h <= b
  <2>1. CASE p < q
    BY <1>3, <1>4, <2>1
  <2>2. CASE q < p
    BY <1>3, <1>4, <2>2
  <2> QED BY <1>3, <2>1, <2>2
<1>6. a < b + h => a <= b
  <2>1. CASE p < q
    BY <1>3, <1>4, <2>1
  <2>2. CASE q < p
    BY <1>3, <1>4, <2>2
  <2> QED BY <1>3, <2>1, <2>2
<1>7. (b + h) % h = 0
  <2> DEFINE e == b + h
             d == e \div h
             r == e % h
             n == q + 1
  <2>1. e \in Nat /\ n \in Nat
    BY <1>3
  <2>2. e = h * n
    BY <1>3
  <2> HIDE DEF e, n
  <2>3. d \in Nat /\ r \in Nat /\ r < h /\ e = h * d + r
    BY <2>1, Z3
  <2> HIDE DEF d, r
  <2>4. h * d \in Nat /\ h * n \in Nat
    BY <2>1, <2>3
  <2>5. ASSUME d < n PROVE FALSE
    BY <1>4, <2>1, <2>2, <2>3, <2>4, <2>5
  <2>6. ASSUME n < d PROVE FALSE
    BY <1>4, <2>1, <2>2, <2>3, <2>4, <2>6
  <2>7. ASSUME d = n PROVE r = 0
    BY <2>2, <2>3, <2>4, <2>7
  <2>8. r = 0
    BY <2>1, <2>3, <2>5, <2>6, <2>7
  <2> QED BY <2>8 DEF r, e
<1> QED BY <1>5, <1>6, <1>7

\* Going round a ring.
LEMMA Round ==
  ASSUME NEW c \in Nat \ {0}, NEW r \in 0..(c - 1)
  PROVE  r % c = r /\ (c + r) % c = r /\ (2 * c + r) % c = r
  BY Z3

\* A place in the ring, seen from one place on; and how far on a place is.
LEMMA RingPlaces ==
  ASSUME NEW c \in Nat \ {0}, NEW h \in 0..(c - 1), NEW k \in 0..(c - 1)
  PROVE  /\ (h + k) % c \in 0..(c - 1)
         /\ (((h + 1) % c) + k) % c = (h + (k + 1)) % c
         /\ (((h + k) % c) - h - 0 + 2 * c) % c = k
<1>1. (h + k) % c = IF h + k < c THEN h + k ELSE h + k - c
  <2>1. CASE h + k < c
    BY <2>1, Round
  <2>2. CASE ~ (h + k < c)
    <3>1. h + k - c \in 0..(c - 1) /\ h + k = c + (h + k - c)
      BY <2>2
    <3>2. (c + (h + k - c)) % c = h + k - c
      BY <3>1, Round
    <3> QED BY <2>2, <3>1, <3>2
  <2> QED BY <2>1, <2>2
<1>2. (h + 1) % c = IF h + 1 < c THEN h + 1 ELSE 0
  <2>1. CASE h + 1 < c
    BY <2>1, Round
  <2>2. CASE ~ (h + 1 < c)
    <3>1. h + 1 = c + 0 /\ 0 \in 0..(c - 1)
      BY <2>2
    <3>2. (c + 0) % c = 0
      BY <3>1, Round
    <3> QED BY <2>2, <3>1, <3>2
  <2> QED BY <2>1, <2>2
<1>3. (((h + 1) % c) + k) % c = (h + (k + 1)) % c
  <2>1. CASE h + 1 < c
    BY <1>2, <2>1
  <2>2. CASE ~ (h + 1 < c)
    <3>1. h + (k + 1) = c + k
      BY <2>2
    <3>2. (c + k) % c = k /\ k % c = k
      BY Round
    <3> QED BY <1>2, <2>2, <3>1, <3>2
  <2> QED BY <2>1, <2>2
<1>4. (((h + k) % c) - h - 0 + 2 * c) % c = k
  <2>1. CASE h + k < c
    <3>1. ((h + k) % c) - h - 0 + 2 * c = 2 * c + k
      BY <1>1, <2>1
    <3> QED BY <3>1, Round
  <2>2. CASE ~ (h + k < c)
    <3>1. ((h + k) % c) - h - 0 + 2 * c = c + k
      BY <1>1, <2>2
    <3> QED BY <3>1, Round
  <2> QED BY <2>1, <2>2
<1>5. (h + k) % c \in 0..(c - 1)
  BY <1>1
<1> QED BY <1>3, <1>4, <1>5

-----------------------------------------------------------------------------
\* Where the window that is filling starts.
LEMMA Starts ==
  ASSUME TypeOK, NoUnderrun
  PROVE  /\ Start \in Nat /\ Len(inputs) = Start + wpos /\ wpos \in 0..(size - 1)
         /\ hop \in 1..size /\ size \in Nat /\ size > 1 /\ Slots = 0..(size - 1)
         /\ fifo_len \in 0..hop /\ Len(inputs) \in Nat
         /\ Len(inputs) < size => Start = 0 /\ fifo_len = 0
         /\ Len(inputs) >= size => fifo_len = size - wpos
         /\ Start # 0 => Start + size <= Len(inputs) + hop
<1>1. /\ hop \in 1..size /\ size \in Nat /\ size > 1 /\ Slots = 0..(size - 1)
      /\ wpos \in 0..(size - 1) /\ fifo_len \in 0..hop
  BY Sizes DEF TypeOK, Slots
<1>2. Len(inputs) \in Nat
  BY DEF TypeOK
<1>3. CASE Len(inputs) < size
  BY <1>1, <1>2, <1>3 DEF Start, NoUnderrun
<1>4. CASE ~ (Len(inputs) < size)
  BY <1>1, <1>2, <1>4 DEF Start, NoUnderrun
<1> QED BY <1>1, <1>2, <1>3, <1>4

\* A window from before the one that is filling has all its samples: another one
\* that goes in does not change what it says.
LEMMA HeardKept ==
  ASSUME TypeOK, NoUnderrun, Start % hop = 0, NEW x \in Nat, NEW y \in Int,
         NEW t \in Int, t <= Start
  PROVE  Heard(Append(inputs, x), hop, y, t) = Heard(inputs, hop, y, t)
<1> DEFINE ins == Append(inputs, x)
<1>1. ASSUME NEW s \in Over(hop, y, t) PROVE Taken(ins, s) = Taken(inputs, s)
  <2>1. s \in Nat /\ s % hop = 0 /\ s < Start
    <3>1. s \in 0..y /\ s % hop = 0 /\ s < t
      BY DEF Over
    <3> QED BY <3>1, Starts
  <2>2. s + hop <= Start
    BY <2>1, Starts, Multiples
  <2>3. s + size <= Len(inputs)
    BY <2>1, <2>2, Starts
  <2>4. ASSUME NEW i \in 0..(size - 1) PROVE ins[s + i + 1] = inputs[s + i + 1]
    <3>1. s + i + 1 \in 1..Len(inputs)
      BY <2>1, <2>3, Starts
    <3>2. inputs \in Seq(Nat)
      BY DEF TypeOK
    <3> QED BY <3>1, <3>2
  <2> QED BY <2>4 DEF Taken
<1> HIDE DEF ins
<1>2. Heard(ins, hop, y, t) = Heard(inputs, hop, y, t)
  BY <1>1 DEF Heard
<1> QED BY <1>2 DEF ins

\* All of the windows over a sample before the one that is filling are early.
LEMMA SumHeard ==
  ASSUME NEW y \in Int, NEW t \in Int, y < t
  PROVE  Result!Sum(y) = Heard(inputs, hop, y, t)
<1>1. Result!Over(y) = Over(hop, y, t)
  BY DEF Result!Over, Over
<1>2. \A s : Result!Window(s) = Taken(inputs, s)
  BY DEF Result!Window, Taken
<1> QED BY <1>1, <1>2 DEF Result!Sum, Heard

-----------------------------------------------------------------------------
LEMMA FilterInit == Init => FilterInv
<1> SUFFICES ASSUME Init PROVE FilterInv
  OBVIOUS
<1>1. /\ hop \in Nat \ {0} /\ size \in Nat /\ Start = 0 /\ Len(inputs) = 0
      /\ Slots = 0..(size - 1) /\ fifo_len = 0 /\ wpos = 0
  BY Sizes DEF Init, Start, Slots
<1>2. Start % hop = 0
  BY <1>1, Round
<1>3. Filling /\ Queued
  BY <1>1 DEF Filling, Queued
<1>4. Summing
  <2> SUFFICES ASSUME NEW i \in Slots
               PROVE  acc[i] = Heard(inputs, hop, Start + i, Start)
    BY DEF Summing
  <2>1. Over(hop, Start + i, Start) = {}
    BY <1>1 DEF Over
  <2>2. Heard(inputs, hop, Start + i, Start) = {}
    BY <2>1 DEF Heard
  <2> QED BY <2>2 DEF Init
<1> QED BY <1>2, <1>3, <1>4 DEF FilterInv

\* A sample leaves the queue, and the rest move up.
LEMMA Popped ==
  ASSUME TypeOK, NoUnderrun, FilterInv
  PROVE  /\ Pop.out = IF Len(inputs) < size THEN {} ELSE Result!Sum(Len(inputs) - size)
         /\ \A k \in 0..(Pop.len - 1) :
              fifo[(Pop.head + k) % cap] =
                Heard(inputs, hop, Len(inputs) + 1 - size + k, Start)
<1>1. /\ hop \in 1..size /\ size \in Nat /\ fifo_len \in 0..hop /\ Len(inputs) \in Nat
      /\ cap \in Nat \ {0} /\ cap = size + hop /\ fifo_head \in 0..(cap - 1)
      /\ Len(inputs) < size => fifo_len = 0
      /\ Len(inputs) >= size => fifo_len > 0
  <2>1. /\ hop \in 1..size /\ size \in Nat /\ fifo_len \in 0..hop /\ Len(inputs) \in Nat
        /\ Len(inputs) < size => fifo_len = 0
        /\ Len(inputs) >= size => fifo_len = size - wpos
        /\ wpos \in 0..(size - 1)
    BY Starts
  <2>2. fifo_head \in 0..(cap - 1)
    BY DEF TypeOK, Ring
  <2> QED BY <2>1, <2>2 DEF cap
<1>2. CASE fifo_len = 0
  <2>1. Pop.out = {} /\ Pop.len = 0
    BY <1>2 DEF Pop
  <2> QED BY <1>1, <1>2, <2>1
<1>3. CASE fifo_len > 0
  <2>1. /\ Pop.out = fifo[fifo_head] /\ Pop.head = (fifo_head + 1) % cap
        /\ Pop.len = fifo_len - 1
    BY <1>3 DEF Pop
  <2>2. ASSUME NEW k \in 0..(fifo_len - 1)
        PROVE  fifo[(fifo_head + k) % cap] = Heard(inputs, hop, Len(inputs) - size + k, Start)
    BY DEF FilterInv, Queued
  <2>3. Pop.out = Result!Sum(Len(inputs) - size)
    <3>1. (fifo_head + 0) % cap = fifo_head /\ 0 \in 0..(fifo_len - 1)
          /\ Len(inputs) - size + 0 = Len(inputs) - size
      BY <1>1, <1>3, Round
    <3>2. Pop.out = Heard(inputs, hop, Len(inputs) - size, Start)
      BY <2>1, <2>2, <3>1
    <3>3. Len(inputs) - size \in Int /\ Start \in Int /\ Len(inputs) - size < Start
      BY <1>1, <1>3, Starts
    <3> QED BY <3>2, <3>3, SumHeard
  <2>4. ASSUME NEW k \in 0..(Pop.len - 1)
        PROVE  fifo[(Pop.head + k) % cap] =
                 Heard(inputs, hop, Len(inputs) + 1 - size + k, Start)
    <3>1. k \in 0..(cap - 1) /\ k + 1 \in 0..(fifo_len - 1)
      BY <1>1, <2>1
    <3>2. (Pop.head + k) % cap = (fifo_head + (k + 1)) % cap
      <4> DEFINE c == cap
                 h == fifo_head
      <4>1. c \in Nat \ {0} /\ h \in 0..(c - 1) /\ k \in 0..(c - 1)
        BY <1>1, <3>1
      <4> HIDE DEF c, h
      <4>2. (((h + 1) % c) + k) % c = (h + (k + 1)) % c
        BY <4>1, RingPlaces
      <4> QED BY <2>1, <4>2 DEF c, h
    <3>3. Len(inputs) - size + (k + 1) = Len(inputs) + 1 - size + k
      BY <1>1, <3>1
    <3> QED BY <2>2, <3>1, <3>2, <3>3
  <2>5. ~ (Len(inputs) < size)
    BY <1>1, <1>3
  <2> QED BY <2>3, <2>4, <2>5
<1> QED BY <1>1, <1>2, <1>3

\* The window with one sample more.
LEMMA FilledUp ==
  ASSUME TypeOK, NoUnderrun, FilterInv, NEW x \in Nat, inputs' = Append(inputs, x),
         NEW i \in 0..wpos
  PROVE  [frame_in EXCEPT ![wpos] = x][i] = inputs'[Start + i + 1]
<1>1. /\ Start \in Nat /\ Len(inputs) = Start + wpos /\ wpos \in 0..(size - 1) /\ size \in Nat
      /\ Slots = 0..(size - 1) /\ inputs \in Seq(Nat) /\ frame_in \in [Slots -> Nat]
  <2>1. inputs \in Seq(Nat) /\ frame_in \in [Slots -> Nat]
    BY DEF TypeOK
  <2> QED BY <2>1, Starts
<1>2. CASE i = wpos
  <2>1. inputs'[Start + i + 1] = x
    <3>1. Start + i + 1 = Len(inputs) + 1
      BY <1>1, <1>2
    <3>2. Append(inputs, x)[Len(inputs) + 1] = x
      <4>1. \A q \in Seq(Nat) : Append(q, x)[Len(q) + 1] = x
        OBVIOUS
      <4> QED BY <1>1, <4>1
    <3> QED BY <3>1, <3>2
  <2> QED BY <1>1, <1>2, <2>1
<1>3. CASE i # wpos
  <2>1. i \in 0..(wpos - 1) /\ i \in Slots
    BY <1>1, <1>3
  <2>2. Start + i + 1 \in 1..Len(inputs)
    BY <1>1, <2>1
  <2>3. inputs'[Start + i + 1] = inputs[Start + i + 1]
    BY <1>1, <2>2
  <2>4. frame_in[i] = inputs[Start + i + 1]
    BY <2>1 DEF FilterInv, Filling
  <2> QED BY <1>1, <1>3, <2>1, <2>3, <2>4
<1> QED BY <1>2, <1>3

\* A sample that does not fill the window.
LEMMA QuietFrame ==
  ASSUME TypeOK, NoUnderrun, FilterInv, NEW x \in Nat, Frame(x), hop' = hop,
         wpos + 1 # size
  PROVE  FilterInv'
<1>1. /\ frame_in' = [frame_in EXCEPT ![wpos] = x]
      /\ wpos' = wpos + 1 /\ fifo_len' = Pop.len /\ fifo_head' = Pop.head
      /\ fifo' = fifo /\ acc' = acc /\ inputs' = Append(inputs, x)
  BY DEF Frame
<1>2. /\ Start \in Nat /\ Len(inputs) = Start + wpos /\ wpos \in 0..(size - 1) /\ size \in Nat
      /\ Slots = 0..(size - 1) /\ Start % hop = 0 /\ hop \in 1..size
      /\ fifo_len \in 0..hop /\ Len(inputs) \in Nat
  BY Starts DEF FilterInv
<1>3. Len(inputs') = Len(inputs) + 1
  BY <1>1 DEF TypeOK
<1>4. Start' = Start
  BY <1>1, <1>2, <1>3 DEF Start
<1>5. Filling'
  <2>1. ASSUME NEW i \in 0..(wpos' - 1) PROVE frame_in'[i] = inputs'[Start' + i + 1]
    <3>1. i \in 0..wpos
      BY <1>1, <1>2
    <3> QED BY <1>1, <1>4, <3>1, FilledUp
  <2> QED BY <2>1 DEF Filling
<1>6. Summing'
  <2>1. ASSUME NEW i \in Slots PROVE acc[i] = Heard(inputs', hop', Start' + i, Start')
    <3>1. Start + i \in Int /\ Start \in Int
      BY <1>2
    <3>2. Heard(Append(inputs, x), hop, Start + i, Start) = Heard(inputs, hop, Start + i, Start)
      BY <1>2, <3>1, HeardKept
    <3> QED BY <1>1, <1>4, <3>2 DEF FilterInv, Summing
  <2> QED BY <1>1, <2>1 DEF Summing, Slots
<1>7. Queued'
  <2>1. ASSUME NEW k \in 0..(Pop.len - 1)
        PROVE  fifo[(Pop.head + k) % cap] = Heard(inputs', hop', Len(inputs') - size + k, Start')
    <3>1. Len(inputs) + 1 - size + k \in Int /\ Start \in Int
      BY <1>2
    <3>2. Heard(Append(inputs, x), hop, Len(inputs) + 1 - size + k, Start)
            = Heard(inputs, hop, Len(inputs) + 1 - size + k, Start)
      BY <1>2, <3>1, HeardKept
    <3>3. fifo[(Pop.head + k) % cap] = Heard(inputs, hop, Len(inputs) + 1 - size + k, Start)
      BY Popped
    <3>4. Len(inputs') - size + k = Len(inputs) + 1 - size + k
      BY <1>2, <1>3
    <3>5. Heard(inputs', hop', Len(inputs') - size + k, Start')
            = Heard(Append(inputs, x), hop, Len(inputs) + 1 - size + k, Start)
      BY <1>1, <1>4, <3>4
    <3> QED BY <3>2, <3>3, <3>5
  <2> QED BY <1>1, <2>1 DEF Queued, cap
<1>8. (Start % hop = 0)'
  BY <1>2, <1>4
<1> QED BY <1>5, <1>6, <1>7, <1>8 DEF FilterInv

\* The windows from before the next one are those from before this one, and this one.
LEMMA OneMore ==
  ASSUME NEW h \in Nat \ {0}, NEW t \in Nat, t % h = 0, NEW i \in Nat, NEW ins
  PROVE  Heard(ins, h, t + i, t + h) =
           Heard(ins, h, t + i, t) \cup (IF i < size THEN Result!Said(i, Taken(ins, t)) ELSE {})
<1> DEFINE y == t + i
           F(s) == Result!Said(y - s, Taken(ins, s))
           A == Over(h, y, t + h)
           B == Over(h, y, t)
<1>1. A = B \cup (IF i < size THEN {t} ELSE {})
  <2>1. ASSUME NEW s \in A PROVE s \in B \/ (s = t /\ i < size)
    <3>1. s \in Nat /\ s <= y /\ s % h = 0 /\ y < s + size /\ s < t + h
      BY DEF Over
    <3>2. s <= t
      BY <3>1, Multiples
    <3> QED BY <3>1, <3>2, Sizes DEF Over
  <2>2. ASSUME NEW s \in B PROVE s \in A
    BY DEF Over
  <2>3. ASSUME i < size PROVE t \in A
    BY <2>3, Sizes DEF Over
  <2> QED BY <2>1, <2>2, <2>3
<1>2. /\ Heard(ins, h, y, t + h) = UNION {F(s) : s \in A}
      /\ Heard(ins, h, y, t) = UNION {F(s) : s \in B}
  BY DEF Heard
<1>5. F(t) = Result!Said(i, Taken(ins, t))
  <2>1. y - t = i
    OBVIOUS
  <2> QED BY <2>1
<1> HIDE DEF F, A, B
<1>3. CASE i < size
  <2>1. A = B \cup {t}
    BY <1>1, <1>3
  <2>2. UNION {F(s) : s \in A} = (UNION {F(s) : s \in B}) \cup F(t)
    BY <2>1
  <2> HIDE DEF y
  <2>3. Heard(ins, h, y, t + h) = Heard(ins, h, y, t) \cup Result!Said(i, Taken(ins, t))
    BY <1>2, <1>5, <2>2
  <2> QED BY <1>3, <2>3 DEF y
<1>4. CASE ~ (i < size)
  <2>1. A = B
    BY <1>1, <1>4
  <2> QED BY <1>2, <1>4, <2>1
<1> QED BY <1>3, <1>4

LEMMA ThisOneMore ==
  ASSUME NEW ins, NEW i \in Nat, hop \in Nat \ {0}, Start \in Nat, Start % hop = 0
  PROVE  Heard(ins, hop, Start + i, Start + hop) =
           Heard(ins, hop, Start + i, Start)
             \cup (IF i < size THEN Result!Said(i, Taken(ins, Start)) ELSE {})
  BY OneMore, SMT

\* Before this window no other reaches past its end.
LEMMA NoneBeyond ==
  ASSUME NEW h \in Nat \ {0}, NEW t \in Nat, NEW y \in Nat, y >= t + size, NEW ins
  PROVE  Heard(ins, h, y, t) = {}
<1>1. Over(h, y, t) = {}
  BY Sizes DEF Over
<1> QED BY <1>1 DEF Heard

\* A sample that fills the window: it fires.
LEMMA FiringFrame ==
  ASSUME TypeOK, NoUnderrun, FilterInv, NEW x \in Nat, Frame(x), hop' = hop,
         wpos + 1 = size
  PROVE  FilterInv'
<1> DEFINE filled == [frame_in EXCEPT ![wpos] = x]
           ins == Append(inputs, x)
<1>1. /\ FireChannel(filled, Pop.head, Pop.len)
      /\ fifo_len' = Pop.len + hop /\ fifo_head' = Pop.head
      /\ frame_in' = [i \in Slots |-> IF i + hop < size THEN filled[i + hop] ELSE filled[i]]
      /\ wpos' = size - hop /\ inputs' = ins
  BY DEF Frame, Refilled
<1>2. /\ Start \in Nat /\ Len(inputs) = Start + wpos /\ wpos \in 0..(size - 1) /\ size \in Nat
      /\ Slots = 0..(size - 1) /\ Start % hop = 0 /\ hop \in 1..size
      /\ fifo_len \in 0..hop /\ Len(inputs) \in Nat /\ hop \in Nat \ {0}
      /\ Len(inputs) < size => fifo_len = 0
      /\ Len(inputs) >= size => fifo_len = size - wpos
  BY Starts DEF FilterInv
<1>3. Len(inputs') = Len(inputs) + 1
  BY <1>1 DEF TypeOK
<1>4. Pop.len = 0 /\ Pop.head \in Ring
  <2>1. fifo_len \in {0, 1}
    BY <1>2
  <2> QED BY <2>1, PopTyped
<1>5. Start' = Start + hop
  <2>1. Start' = Len(inputs') - wpos'
    BY DEF Start
  <2> QED BY <1>1, <1>2, <1>3, <2>1
<1>6. filled = Taken(ins, Start)
  <2>1. ASSUME NEW i \in Slots PROVE filled[i] = ins[Start + i + 1]
    <3>1. i \in 0..wpos
      BY <1>2
    <3> QED BY <1>1, <3>1, FilledUp
  <2>2. filled = [i \in Slots |-> filled[i]]
    BY DEF TypeOK
  <2> HIDE DEF filled, ins
  <2> QED BY <1>2, <2>1, <2>2 DEF Taken
<1> HIDE DEF filled
<1> DEFINE sum == [i \in Slots |-> acc[i] \cup Synthesized(i, filled)]
           at(p) == (p - Pop.head - Pop.len + 2 * cap) % cap
<1>7. /\ fifo' = [p \in Ring |-> IF at(p) < hop THEN sum[at(p)] ELSE fifo[p]]
      /\ acc' = [i \in Slots |-> IF i + hop < size THEN sum[i + hop] ELSE {}]
  BY <1>1 DEF FireChannel
\* The sums hold what this window says too.
<1>8. ASSUME NEW i \in Slots PROVE sum[i] = Heard(ins, hop, Start + i, Start + hop)
  <2>1. Synthesized(i, filled) = Result!Said(i, filled)
    BY <1>2, <1>6 DEF Synthesized, Result!Said, Taken
  <2>2. acc[i] = Heard(ins, hop, Start + i, Start)
    <3>1. Start + i \in Int /\ Start \in Int
      BY <1>2
    <3>2. Heard(ins, hop, Start + i, Start) = Heard(inputs, hop, Start + i, Start)
      BY <1>2, <3>1, HeardKept
    <3> QED BY <3>2 DEF FilterInv, Summing
  <2>3. i \in Nat /\ i < size
    BY <1>2
  <2> HIDE DEF ins
  <2>4. Heard(ins, hop, Start + i, Start + hop)
          = Heard(ins, hop, Start + i, Start)
              \cup (IF i < size THEN Result!Said(i, Taken(ins, Start)) ELSE {})
    <3>1. Start \in Nat /\ hop \in Nat \ {0} /\ Start % hop = 0 /\ i \in Nat
      BY <1>2, <2>3
    <3> QED BY <3>1, ThisOneMore
  <2> QED BY <1>6, <2>1, <2>2, <2>3, <2>4
<1> HIDE DEF sum, at, ins
<1>9. Filling'
  <2>1. ASSUME NEW i \in 0..(wpos' - 1) PROVE frame_in'[i] = inputs'[Start' + i + 1]
    <3>1. i \in Slots /\ i + hop \in Slots /\ i + hop < size
      BY <1>1, <1>2
    <3>2. frame_in'[i] = filled[i + hop]
      BY <1>1, <3>1
    <3>3. filled[i + hop] = ins[Start + (i + hop) + 1]
      BY <1>2, <1>6, <3>1 DEF Taken
    <3>4. Start + (i + hop) + 1 = Start' + i + 1
      BY <1>2, <1>5, <3>1
    <3> QED BY <1>1, <3>2, <3>3, <3>4
  <2> QED BY <2>1 DEF Filling
<1>10. Summing'
  <2>1. ASSUME NEW i \in Slots PROVE acc'[i] = Heard(inputs', hop', Start' + i, Start')
    <3>1. CASE i + hop < size
      <4>1. i + hop \in Slots /\ Start + (i + hop) = Start' + i
        BY <1>2, <1>5, <3>1
      <4>2. acc'[i] = Heard(ins, hop, Start + (i + hop), Start + hop)
        BY <1>7, <1>8, <3>1, <4>1
      <4> QED BY <1>1, <1>5, <4>1, <4>2
    <3>2. CASE ~ (i + hop < size)
      <4>1. /\ i + hop \in Nat /\ Start + (i + hop) >= Start + size /\ ~ (i + hop < size)
            /\ Start + (i + hop) = Start' + i /\ Start + (i + hop) \in Nat
        BY <1>2, <1>5, <3>2
      <4>2. Heard(ins, hop, Start + (i + hop), Start) = {}
        BY <1>2, <4>1, NoneBeyond
      <4>3. Heard(ins, hop, Start + (i + hop), Start + hop)
              = Heard(ins, hop, Start + (i + hop), Start)
                  \cup (IF i + hop < size THEN Result!Said(i + hop, Taken(ins, Start)) ELSE {})
        BY <1>2, <4>1, ThisOneMore
      <4>4. Heard(ins, hop, Start' + i, Start + hop) = {}
        BY <4>1, <4>2, <4>3
      <4> QED BY <1>1, <1>5, <1>7, <3>2, <4>4
    <3> QED BY <3>1, <3>2
  <2> QED BY <1>1, <2>1 DEF Summing, Slots
<1>11. Queued'
  <2>1. ASSUME NEW k \in 0..(hop - 1)
        PROVE  fifo'[(Pop.head + k) % cap] = Heard(inputs', hop', Len(inputs') - size + k, Start')
    <3> DEFINE c == cap
               h == Pop.head
               p == (h + k) % c
    <3>1. c \in Nat \ {0} /\ h \in 0..(c - 1) /\ k \in 0..(c - 1) /\ Ring = 0..(c - 1)
      <4>1. cap = size + hop /\ Ring = 0..(cap - 1) /\ Pop.head \in 0..(cap - 1)
        BY <1>4 DEF cap, Ring
      <4> QED BY <1>2, <4>1
    <3> HIDE DEF c, h
    <3>2. p \in 0..(c - 1) /\ (p - h - 0 + 2 * c) % c = k
      BY <3>1, RingPlaces
    <3>3. at(p) = k
      BY <1>4, <3>2 DEF at, c, h
    <3> HIDE DEF p
    <3>4. k \in Slots /\ k < hop
      BY <1>2
    <3>5. fifo'[p] = sum[k]
      BY <1>7, <3>1, <3>2, <3>3, <3>4
    <3>6. Len(inputs') - size + k = Start + k
      BY <1>2, <1>3
    <3>7. fifo'[p] = Heard(inputs', hop', Len(inputs') - size + k, Start')
      BY <1>1, <1>5, <1>8, <3>4, <3>5, <3>6
    <3> QED BY <3>7 DEF p, c, h
  <2>2. fifo_len' = hop
    BY <1>1, <1>2, <1>4
  <2> QED BY <1>1, <2>1, <2>2 DEF Queued, cap
<1>12. (Start % hop = 0)'
  <2>1. (Start + hop) % hop = 0
    BY <1>2, Multiples
  <2> QED BY <1>5, <2>1
<1> QED BY <1>9, <1>10, <1>11, <1>12 DEF FilterInv

\* A frame takes its sample and gives the one of size frames before.
LEMMA FrameFilters ==
  ASSUME TypeOK, NoUnderrun, FilterInv, NEW x \in Nat, Frame(x), hop' = hop
  PROVE  FilterInv' /\ Result!Next
<1>1. out' = Pop.out /\ inputs' = Append(inputs, x) /\ inputs \in Seq(Nat)
  BY DEF Frame, TypeOK
<1>2. /\ inputs' # <<>> /\ Len(inputs') = Len(inputs) + 1 /\ inputs'[Len(inputs) + 1] = x
  <2>1. /\ Append(inputs, x) # <<>> /\ Len(Append(inputs, x)) = Len(inputs) + 1
        /\ Append(inputs, x)[Len(inputs) + 1] = x
    BY <1>1
  <2> QED BY <1>1, <2>1
<1>3. out' = IF Len(inputs) < size THEN {} ELSE Result!Sum(Len(inputs) - size)
  BY <1>1, Popped
<1>4. Result!Take(inputs'[Len(inputs')])
  BY <1>1, <1>2, <1>3 DEF Result!Take
<1> QED BY <1>2, <1>4, QuietFrame, FiringFrame DEF Result!Next

\* Nothing else touches what the filter holds, but a reset.
LEMMA FilterStep ==
  ASSUME IInv, FilterInv, [Next]_vars
  PROVE  FilterInv' /\ [Result!Next]_(Result!vars)
<1> USE DEF IInv
<1>1. CASE Process
  <2>1. Frame(Len(inputs) + 1) /\ hop' = hop /\ Len(inputs) + 1 \in Nat
    BY <1>1 DEF Process, TypeOK
  <2> QED BY <2>1, FrameFilters
<1>2. CASE FlushFrame
  <2>1. Frame(0) /\ hop' = hop
    BY <1>2 DEF FlushFrame
  <2> QED BY <2>1, FrameFilters
<1>3. ASSUME UNCHANGED <<hop, windowVars>>
      PROVE  FilterInv' /\ [Result!Next]_(Result!vars)
  <2>1. UNCHANGED <<hop, frame_in, wpos, acc, fifo, fifo_head, fifo_len, inputs, out>>
    BY <1>3 DEF windowVars
  <2>2. FilterInv'
    BY <2>1 DEF FilterInv, Filling, Summing, Queued, Start, Slots, cap
  <2> QED BY <2>1, <2>2 DEF Result!vars
<1>4. CASE \E n \in Offers : Flush(n)
  BY <1>3, <1>4 DEF Flush
<1>5. CASE FlushReturn
  BY <1>3, <1>5 DEF FlushReturn
<1>6. CASE UNCHANGED vars
  BY <1>3, <1>6 DEF vars
<1>7. CASE Reset
  <2>1. /\ acc' = [i \in Slots |-> {}] /\ fifo_len' = 0 /\ wpos' = 0 /\ hop' = hop
        /\ inputs' = <<>> /\ out' = {}
    BY <1>7 DEF Reset
  <2>2. Start' = 0 /\ hop \in Nat \ {0} /\ Slots = 0..(size - 1) /\ size \in Nat
    <3>1. Start' = 0
      BY <2>1 DEF Start
    <3>2. hop \in 1..size /\ Slots = 0..(size - 1) /\ size \in Nat
      BY Starts
    <3> QED BY <3>1, <3>2
  <2>3. (Start % hop = 0)'
    <3>1. 0 % hop = 0
      BY <2>2, Round
    <3> QED BY <2>1, <2>2, <3>1
  <2>4. Filling' /\ Queued'
    BY <2>1 DEF Filling, Queued
  <2>5. Summing'
    <3>1. ASSUME NEW i \in Slots PROVE acc'[i] = Heard(inputs', hop', Start' + i, Start')
      <4>1. Over(hop', Start' + i, Start') = {}
        BY <2>2 DEF Over
      <4>2. Heard(inputs', hop', Start' + i, Start') = {}
        BY <4>1 DEF Heard
      <4> QED BY <2>1, <4>2
    <3> QED BY <3>1 DEF Summing, Slots
  <2>6. Result!Next
    BY <2>1 DEF Result!Next, Result!Restart
  <2> QED BY <2>3, <2>4, <2>5, <2>6 DEF FilterInv
<1> QED BY <1>1, <1>2, <1>4, <1>5, <1>6, <1>7 DEF Next

(***************************************************************************)
(* The filter is the overlap-add of its windows, exactly size frames late, *)
(* for every window and hop, however process and flush cut the stream, and *)
(* from the start again after a reset.                                     *)
(***************************************************************************)
THEOREM FiltersExactly == Spec => OverlapExact
<1>1. Init => Result!Init /\ FilterInv
  <2>1. Init => Result!Init
    BY DEF Init, Result!Init
  <2> QED BY <2>1, FilterInit
<1>2. IInv /\ FilterInv /\ [Next]_vars => FilterInv' /\ [Result!Next]_(Result!vars)
  BY FilterStep
<1> QED BY <1>1, <1>2, Inductive, PTL DEF Spec, OverlapExact, Result!Spec
=============================================================================
