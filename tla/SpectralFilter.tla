--------------------------- MODULE SpectralFilter ----------------------------
(***************************************************************************)
(* The streaming STFT band filter (spectral/spectral_filter.rs): an        *)
(* analysis buffer that fills up and fires, the overlap-add accumulator,   *)
(* the ring of finished samples, and the drain.                            *)
(*                                                                         *)
(* A sample is the number of its frame, or 0 for silence; channels are all *)
(* alike.  What the transform, the cut of the bins and the synthesis       *)
(* window make of sample n of a window is <<n, window>>; of a silent       *)
(* window it is nothing.  A slot of acc or fifo is the set of these it     *)
(* adds up, the taps telling which overlap gain it is divided by.          *)
(***************************************************************************)
EXTENDS Integers, Sequences

CONSTANTS
  size,       \* FFT window
  Offers,     \* frames the host offers a call of flush
  MaxFrames,  \* bound: frames between resets
  MaxResets   \* bound: resets

ASSUME SpectralAssumption ==
  /\ size \in Nat \ {0, 1} /\ Offers \subseteq Nat
  /\ MaxFrames \in Nat /\ MaxResets \in Nat

VARIABLES
  hop,
  frame_in, wpos,
  acc,
  fifo, fifo_head, fifo_len,
  flushed,
  want,    \* frames still to drain in this call of flush
  call,    \* frames this call of flush drains, or None between calls
  inputs,  \* history: the samples ingested since the reset
  out,     \* history: the sample that came out last
  resets   \* history: bounds the resets

None == -1

windowVars == <<frame_in, wpos, acc, fifo, fifo_head, fifo_len, inputs, out>>
vars == <<hop, windowVars, flushed, want, call, resets>>

cap == size + hop
Slots == 0..(size - 1)
Ring == 0..(cap - 1)

\* prepare accepts every hop from 1 to size (with a window that overlaps enough).
Init ==
  /\ hop \in 1..size
  /\ frame_in = [i \in Slots |-> 0] /\ wpos = 0
  /\ acc = [i \in Slots |-> {}]
  /\ fifo = [i \in Ring |-> {}] /\ fifo_head = 0 /\ fifo_len = 0
  /\ flushed = 0 /\ want = 0 /\ call = None
  /\ inputs = <<>> /\ out = {} /\ resets = 0

-----------------------------------------------------------------------------
\* Finished output is taken before the next sample is ingested.
Pop == IF fifo_len > 0 THEN [out |-> fifo[fifo_head], head |-> (fifo_head + 1) % cap,
                             len |-> fifo_len - 1]
       ELSE [out |-> {}, head |-> fifo_head, len |-> 0]

Synthesized(n, window) ==
  IF \A i \in Slots : window[i] = 0 THEN {} ELSE {<<n, window>>}

\* Mutated form of FireChannel: the end of the accumulator is not cleared.
FireChannelKeep(window, head, base) ==
  LET sum == [i \in Slots |-> acc[i] \cup Synthesized(i, window)]
      at(p) == (p - head - base + 2 * cap) % cap
  IN  /\ fifo' = [p \in Ring |-> IF at(p) < hop THEN sum[at(p)] ELSE fifo[p]]
      /\ acc' = [i \in Slots |-> IF i + hop < size THEN sum[i + hop] ELSE sum[i]]

\* fire_channel: the window is laid over the accumulator; its first hop samples
\* are finished and queue up base slots behind the read cursor.
FireChannel(window, head, base) ==
  LET sum == [i \in Slots |-> acc[i] \cup Synthesized(i, window)]
      at(p) == (p - head - base + 2 * cap) % cap
  IN  /\ fifo' = [p \in Ring |-> IF at(p) < hop THEN sum[at(p)] ELSE fifo[p]]
      /\ acc' = [i \in Slots |-> IF i + hop < size THEN sum[i + hop] ELSE {}]

\* Mutated form of Refilled: keeps one sample more than the next window shares.
RefilledLate == size - hop + 1

\* Where the next window goes on filling: it shares all but hop samples.
Refilled == size - hop

(***************************************************************************)
(* One frame of process or flush: a sample leaves, x is ingested, and a    *)
(* window fires when it is full.                                           *)
(***************************************************************************)
Frame(x) ==
  LET filled == [frame_in EXCEPT ![wpos] = x]
  IN  /\ Len(inputs) < MaxFrames
      /\ out' = Pop.out /\ fifo_head' = Pop.head
      /\ inputs' = Append(inputs, x)
      /\ IF wpos + 1 = size
         THEN /\ FireChannel(filled, Pop.head, Pop.len)
              /\ fifo_len' = Pop.len + hop
              /\ frame_in' = [i \in Slots |-> IF i + hop < size THEN filled[i + hop]
                                              ELSE filled[i]]
              /\ wpos' = Refilled
         ELSE /\ frame_in' = filled /\ wpos' = wpos + 1 /\ fifo_len' = Pop.len
              /\ UNCHANGED <<fifo, acc>>

(***************************************************************************)
(* One frame of process.  A block is one or more: nothing else happens     *)
(* between its frames, and new input starts a new drain.                   *)
(***************************************************************************)
Process ==
  /\ call = None
  /\ Frame(Len(inputs) + 1)
  /\ flushed' = 0
  /\ UNCHANGED <<hop, want, call, resets>>

\* Mutated form of Wanted: forgets what was drained before.
WantedAll(n) == IF n < size THEN n ELSE size

\* Frames a call of flush gives.
Wanted(n) == IF n < size - flushed THEN n ELSE size - flushed

Flush(n) ==
  /\ call = None
  /\ want' = Wanted(n) /\ call' = Wanted(n)
  /\ UNCHANGED <<hop, windowVars, flushed, resets>>

FlushFrame ==
  /\ call # None /\ want > 0
  /\ Frame(0)
  /\ want' = want - 1
  /\ UNCHANGED <<hop, flushed, call, resets>>

FlushReturn ==
  /\ call # None /\ want = 0
  /\ flushed' = flushed + call
  /\ call' = None
  /\ UNCHANGED <<hop, windowVars, want, resets>>

\* Mutated form of Reset: the framing goes on where it was.
ResetBuffers ==
  /\ call = None /\ resets < MaxResets
  /\ frame_in' = [i \in Slots |-> 0]
  /\ acc' = [i \in Slots |-> {}]
  /\ fifo' = [i \in Ring |-> {}] /\ fifo_head' = 0 /\ fifo_len' = 0
  /\ flushed' = 0
  /\ inputs' = <<>> /\ out' = {} /\ resets' = resets + 1
  /\ UNCHANGED <<hop, wpos, want, call>>

Reset ==
  /\ call = None /\ resets < MaxResets
  /\ frame_in' = [i \in Slots |-> 0] /\ wpos' = 0
  /\ acc' = [i \in Slots |-> {}]
  /\ fifo' = [i \in Ring |-> {}] /\ fifo_head' = 0 /\ fifo_len' = 0
  /\ flushed' = 0
  /\ inputs' = <<>> /\ out' = {} /\ resets' = resets + 1
  /\ UNCHANGED <<hop, want, call>>

Next == Process \/ (\E n \in Offers : Flush(n)) \/ FlushFrame \/ FlushReturn \/ Reset

Spec == Init /\ [][Next]_vars

-----------------------------------------------------------------------------
Sample == SUBSET (Slots \X [Slots -> Nat])

TypeOK ==
  /\ hop \in 1..size
  /\ frame_in \in [Slots -> Nat] /\ wpos \in Slots
  /\ acc \in [Slots -> Sample]
  /\ fifo \in [Ring -> Sample] /\ fifo_head \in Ring /\ fifo_len \in 0..hop
  /\ flushed \in 0..size /\ want \in 0..size /\ call \in {None} \cup 0..size
  /\ inputs \in Seq(Nat) /\ out \in Sample
  /\ resets \in 0..MaxResets

(***************************************************************************)
(* The ring never runs dry: once the first window has fired, what is left  *)
(* in it is what the next window still has to fill, so that a sample is    *)
(* there whenever one is due (the silent branch of process is for the      *)
(* first size frames only).                                                *)
(***************************************************************************)
NoUnderrun ==
  IF Len(inputs) < size THEN fifo_len = 0 /\ wpos = Len(inputs)
  ELSE fifo_len = size - wpos

(***************************************************************************)
(* The filter is the overlap-add of its windows, size frames late, for     *)
(* every hop, over drains and new input after them.                        *)
(***************************************************************************)
Result == INSTANCE OverlapAdd

OverlapExact == Result!Spec

(***************************************************************************)
(* flush keeps its contract: size frames in all, however the calls cut     *)
(* them, nothing after done, and a new drain for new input.                *)
(***************************************************************************)
Contract == INSTANCE Drain WITH
  TailFrames <- size, given <- flushed, ended <- flushed >= size

DrainKept == Contract!Spec

(***************************************************************************)
(* What the declared tail says: at most size frames remain after the input *)
(* (docs/src/core-contract.md, "Latency And Tail"), so that when they have *)
(* been drained nothing that came of the input is left inside.             *)
(***************************************************************************)
TailCovered ==
  flushed = size => /\ \A i \in Slots : acc[i] = {}
                    /\ \A k \in 0..(fifo_len - 1) : fifo[(fifo_head + k) % cap] = {}
=============================================================================
