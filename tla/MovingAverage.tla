---------------------------- MODULE MovingAverage ----------------------------
(***************************************************************************)
(* The moving average (filters/moving_average.rs): per channel a ring of   *)
(* the last inputs and their compensated running sum, one cursor for all   *)
(* channels.  sums stands for sums + sum_corrections; what the compensated *)
(* addition still rounds away is a slip.  An output is the sum, before it  *)
(* is divided by the taps.                                                 *)
(***************************************************************************)
EXTENDS SubBlock, MemoryLayout

\* MovingAverage::new
AverageNew(taps) ==
  [taps |-> taps, rings |-> <<>>, sums |-> <<>>, ring_pos |-> 0, flushed |-> 0]

AverageAnswer(k, spec, cap) ==
  IF k.taps = 0 THEN "InvalidParam"
  ELSE Preflight(Array(Array(RepeatedArray(NewLayout, spec.channels, k.taps, 1),
                             spec.channels, 1), spec.channels, 1), cap)

\* What prepare and reset have in common.
AverageCleared(k, channels) ==
  [k EXCEPT !.rings = [c \in 1..channels |-> [i \in 0..(k.taps - 1) |-> 0]],
            !.sums = [c \in 1..channels |-> 0], !.ring_pos = 0, !.flushed = 0]

AveragePrepared(k, spec) == AverageCleared(k, spec.channels)

AverageReset(k) == AverageCleared(k, Len(k.sums))

\* All rings are as long as the first.
AverageFootprint(k) ==
  2 * Len(k.sums)
    + (IF k.rings = <<>> THEN 0 ELSE Len(k.rings) * Cardinality(DOMAIN Head(k.rings)))

AverageTail(k) == IF k.taps = 0 THEN 0 ELSE k.taps - 1

NextTap(k, p) == IF p + 1 = k.taps THEN 0 ELSE p + 1

RingTotal(ring) == MapThenSumSet(LAMBDA i : ring[i], DOMAIN ring)

\* Mutated form of AverageSum: never computed afresh from the ring.
AverageSumKept(sum, ring, p, change) == sum + change

\* compensated_add, and the sum of the ring when it wraps.
AverageSum(sum, ring, p, change) == IF p = 0 THEN RingTotal(ring) ELSE sum + change

\* A channel's run, frame by frame from the cursor on.
AverageChannel(k, c, xs, slip) ==
  FoldLeft(
    LAMBDA st, sample :
      LET x == FiniteOrZero(sample)
          entered == [st.ring EXCEPT ![st.p] = x]
          p == NextTap(k, st.p)
          now == AverageSum(st.sum, entered, p, x - st.ring[st.p] + slip)
      IN  [ring |-> entered, sum |-> now, p |-> p, out |-> Append(st.out, now)],
    [ring |-> k.rings[c], sum |-> k.sums[c], p |-> k.ring_pos, out |-> <<>>], xs)

\* What render and flush have in common.  The cursor moves once, not per channel.
AverageRun(k, planes, slip) ==
  LET ch == [c \in DOMAIN k.sums |-> AverageChannel(k, c, planes[c], slip)]
  IN  [kernel |-> [k EXCEPT !.rings = [c \in DOMAIN ch |-> ch[c].ring],
                            !.sums = [c \in DOMAIN ch |-> ch[c].sum],
                            !.ring_pos = IF ch = <<>> THEN @ ELSE Last(ch).p],
       out |-> [c \in DOMAIN ch |-> ch[c].out]]

\* New input starts a new drain.
AverageRender(k, run, slip) == AverageRun([k EXCEPT !.flushed = 0], Input(run), slip)

\* Mutated form of AverageWant: a drain is one frame longer.
AverageWantMore(k, room) == Min({room, Max({k.taps - k.flushed, 0})})

AverageWant(k, room) == Min({room, Max({AverageTail(k) - k.flushed, 0})})

AverageFlush(k, room, slip) ==
  LET want == AverageWant(k, room)
      run == AverageRun(k, Silence(Len(k.sums), want), slip)
  IN  [kernel |-> [run.kernel EXCEPT !.flushed = @ + want], out |-> run.out,
       frames |-> want, done |-> k.flushed + want >= AverageTail(k)]
=============================================================================
