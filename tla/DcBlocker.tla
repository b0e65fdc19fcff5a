------------------------------ MODULE DcBlocker ------------------------------
(***************************************************************************)
(* The DC blocker (repair/dc_blocker.rs): a difference and a leaky sum,    *)
(* with the cutoff of the run.  A cutoff is in hertz; clamped it is in     *)
(* hundredths of a hertz.                                                  *)
(***************************************************************************)
EXTENDS RecursiveTail

CONSTANT Radius  \* the pole by the cutoff's hundredths of the sample rate, in parts of Unit

ASSUME RadiusAssumption ==
  /\ Radius \in [0..49 -> 1..(Unit - 1)]
  /\ \A h \in 0..48 : Radius[h] >= Radius[h + 1]

DcLowest == 1
DcHighest == 1000

DcSettings == [cutoff_hz |-> 20]

DcParams(s) == <<NewParam(0, DcLowest, DcHighest, s.cutoff_hz, "Hz")>>

\* with_settings
DcNew(s) ==
  [params |-> DcParams(s), fs |-> 0, state |-> <<>>, flush_r |-> 0, tail_bound |-> 0,
   flushed |-> 0]

DcClampCutoff(hz, fs) == ClampTo(100 * hz, 1, 49 * fs)

Pole(hz, fs) == Radius[DcClampCutoff(hz, fs) \div fs]

\* reset_flush_state
DcResetFlush(k) ==
  [k EXCEPT !.flushed = 0,
            !.flush_r = IF k.fs > 0 THEN Pole(FiniteOrZero(k.params[1].default), k.fs) ELSE @]

DcRest(channels) == [c \in 1..channels |-> [x1 |-> 0, y1 |-> 0]]

DcAnswer(spec, cap) ==
  IF spec.sample_rate = 0 THEN "UnsupportedSpec"
  ELSE Preflight(Array(NewLayout, spec.channels, 2), cap)

\* b to the n-th.
Power(b, n) == LET p[i \in 0..n] == IF i = 0 THEN 1 ELSE b * p[i - 1] IN p[n]

\* Twice the headroom is below the floor after n frames at the pole r.
Decayed(r, n) == TailFloor * Power(Unit, n) >= 2 * TailHeadroom * Power(r, n)

\* Bound: the longest decay that is looked for.
LongestDecay == 64

ASSUME DecayAssumption == \A h \in 0..49 : \E n \in 0..LongestDecay : Decayed(Radius[h], n)

\* The frames of a decay.
DecayFrames(r) ==
  CHOOSE n \in 0..LongestDecay : Decayed(r, n) /\ \A m \in 0..(n - 1) : ~ Decayed(r, m)

\* Mutated form of DcTailBound: the first frame, which has not decayed yet, is not counted.
DcTailBoundShort(fs) == DecayFrames(Pole(DcLowest, fs))

\* The slowest pole is the lowest cutoff's.
DcTailBound(fs) == DecayFrames(Pole(DcLowest, fs)) + 1

DcPrepared(k, spec) ==
  DcResetFlush([k EXCEPT !.fs = spec.sample_rate, !.state = DcRest(spec.channels),
                         !.tail_bound = DcTailBound(spec.sample_rate)])

DcReset(k) == DcResetFlush([k EXCEPT !.state = DcRest(Len(@))])

DcFootprint(k) == Len(k.state) * 2

DcStep(s, x, r) == [x1 |-> x, y1 |-> x - s.x1 + Quotient(r * s.y1, Unit)]

\* New input starts a new drain, and that goes on with its pole.
DcRender(k, run, p) ==
  LET r == Pole(p[1], k.fs)
      done == RunStates(k.state, Input(run), LAMBDA s, x : DcStep(s, x, r))
  IN  [kernel |-> [k EXCEPT !.flushed = 0, !.flush_r = r, !.state = done.state],
       out |-> done.out]

DcFlush(k, room) == FlushStates(k, room, LAMBDA s, x : DcStep(s, x, k.flush_r))
=============================================================================
