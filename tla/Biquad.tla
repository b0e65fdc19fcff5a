------------------------------- MODULE Biquad --------------------------------
(***************************************************************************)
(* The biquad (filters/biquad.rs): the RBJ coefficients of five shapes,    *)
(* and the Direct Form I recursion with the coefficients of the run.       *)
(*                                                                         *)
(* A cutoff is in hertz, a Q in tenths, a gain in decibels.  The sines,    *)
(* cosines and amplitudes a coefficient is made of are given in parts of   *)
(* Unit; the coefficients follow from them exactly, over a0.               *)
(***************************************************************************)
EXTENDS RecursiveTail

CONSTANTS
  Cos, Sin,     \* by the cutoff's hundredths of the sample rate
  Amplitude,    \* by gain: 10^(gain / 40),
  RootOf,       \* and the root of that
  BiquadDecay   \* by sine: frames in which the slowest pole pair, that of the largest Q and
                \* gain, decays from the headroom to the floor

ASSUME CoefficientAssumption ==
  /\ Cos \in [0..49 -> (1 - Unit)..(Unit - 1)] /\ Sin \in [0..49 -> 1..Unit]
  /\ -24..24 \subseteq DOMAIN Amplitude /\ DOMAIN Amplitude \subseteq Int
  /\ DOMAIN RootOf = DOMAIN Amplitude
  /\ \A g \in DOMAIN Amplitude : Amplitude[g] \in Nat \ {0} /\ RootOf[g] \in Nat \ {0}
  /\ \A h \in 0..49 : BiquadDecay[Sin[h]] \in Nat

BiquadShapes == {"Lowpass", "Highpass", "LowShelf", "HighShelf", "Peaking"}

BiquadSettings == [kind |-> "Lowpass", cutoff_hz |-> 1000, q |-> 7, gain_db |-> 0]

HighestCutoff == 24000

BiquadParams(s) ==
  <<NewParam(0, 10, HighestCutoff, s.cutoff_hz, "Hz"), NewParam(1, 1, 160, s.q, "Q"),
    NewParam(2, -24, 24, s.gain_db, "Db")>>

-----------------------------------------------------------------------------
(* Coefficients. *)

\* sin(w0) / 2Q, rounded up.
Alpha(sine, q) == (5 * sine + q - 1) \div q

\* rbj_unchecked: the six coefficients before they are divided by a0, all multiplied by what
\* makes them integers.
Rbj(kind, cos, alpha, a, root) ==
  LET U == Unit
      shelf == 2 * root * alpha
      Shelf(sign) ==   \* sign: 1 for the low shelf, -1 for the high one
        LET plus == (a + U) * U
            tilt == sign * (a - U) * cos
        IN  [b0 |-> a * (plus - tilt + shelf), b2 |-> a * (plus - tilt - shelf),
             b1 |-> 2 * a * sign * ((a - U) * U - sign * (a + U) * cos),
             a0 |-> U * (plus + tilt + shelf), a2 |-> U * (plus + tilt - shelf),
             a1 |-> -2 * U * sign * ((a - U) * U + sign * (a + U) * cos)]
      Pass(sign) ==    \* 1 for low-pass, -1 for high-pass
        LET body == U - sign * cos
        IN  [b0 |-> body, b1 |-> 2 * sign * body, b2 |-> body,
             a0 |-> 2 * (U + alpha), a1 |-> -4 * cos, a2 |-> 2 * (U - alpha)]
  IN  CASE kind = "Lowpass" -> Pass(1)
        [] kind = "Highpass" -> Pass(-1)
        [] kind = "LowShelf" -> Shelf(1)
        [] kind = "HighShelf" -> Shelf(-1)
        [] kind = "Peaking" ->
             [b0 |-> a * (U * U + alpha * a), b1 |-> -2 * cos * U * a,
              b2 |-> a * (U * U - alpha * a),
              a0 |-> U * U * (a + alpha), a1 |-> -2 * cos * U * a,
              a2 |-> U * U * (a - alpha)]

\* is_stable, of coefficients over a0.
IsStable(c) == Magnitude(c.a2) < c.a0 /\ Magnitude(c.a1) < c.a0 + c.a2

\* In hundredths of a hertz; empty below a sample rate of 3.
BiquadClampCutoff(hz, fs) == ClampTo(100 * hz, 100, (4995 * fs) \div 100)

Share(hz, fs) == BiquadClampCutoff(hz, fs) \div fs

\* runtime_coeffs
RuntimeCoeffs(k, p) ==
  LET In(i) == ClampTo(p[i], k.params[i].lo, k.params[i].hi)
      h == Share(In(1), k.fs)
  IN  Rbj(k.kind, Cos[h], Alpha(Sin[h], In(2)), Amplitude[In(3)], RootOf[In(3)])

\* try_coeffs: the readout.
TryCoeffs(k, p) ==
  IF k.fs < 3 THEN "UnsupportedSpec"
  ELSE IF \E i \in 1..3 : ~ Finite(p[i]) THEN "InvalidParam"
  ELSE RuntimeCoeffs(k, p)

-----------------------------------------------------------------------------
(* The kernel. *)

\* with_settings
BiquadNew(s) ==
  [kind |-> s.kind, params |-> BiquadParams(s), fs |-> 0, state |-> <<>>,
   flush_coeffs |-> [b0 |-> 1, b1 |-> 0, b2 |-> 0, a0 |-> 1, a1 |-> 0, a2 |-> 0],
   tail_bound |-> 0, flushed |-> 0]

BiquadDefaults(k) == [i \in 1..3 |-> k.params[i].default]

\* reset_flush_state
BiquadResetFlush(k) ==
  [k EXCEPT !.flushed = 0,
            !.flush_coeffs = IF k.fs > 0 THEN RuntimeCoeffs(k, BiquadDefaults(k)) ELSE @]

BiquadRest(channels) == [c \in 1..channels |-> [x1 |-> 0, x2 |-> 0, y1 |-> 0, y2 |-> 0]]

BiquadAnswer(spec, cap) ==
  IF spec.sample_rate < 3 THEN "UnsupportedSpec"
  ELSE Preflight(Array(NewLayout, spec.channels, 4), cap)

\* The smaller sine at the two ends of the range of cutoffs.
BiquadTailBound(k, fs) ==
  BiquadDecay[Min({Sin[Share(k.params[1].lo, fs)], Sin[Share(k.params[1].hi, fs)]})]

BiquadPrepared(k, spec) ==
  BiquadResetFlush([k EXCEPT !.fs = spec.sample_rate, !.state = BiquadRest(spec.channels),
                             !.tail_bound = BiquadTailBound(k, spec.sample_rate)])

BiquadReset(k) == BiquadResetFlush([k EXCEPT !.state = BiquadRest(Len(@))])

BiquadFootprint(k) == Len(k.state) * 4

BiquadStep(s, x, c) ==
  [x1 |-> x, x2 |-> s.x1, y2 |-> s.y1,
   y1 |-> Quotient(c.b0 * x + c.b1 * s.x1 + c.b2 * s.x2 - c.a1 * s.y1 - c.a2 * s.y2, c.a0)]

\* New input starts a new drain, and that goes on with its coefficients.
BiquadRender(k, run, p) ==
  LET c == RuntimeCoeffs(k, p)
      done == RunStates(k.state, Input(run), LAMBDA s, x : BiquadStep(s, x, c))
  IN  [kernel |-> [k EXCEPT !.flushed = 0, !.flush_coeffs = c, !.state = done.state],
       out |-> done.out]

BiquadFlush(k, room) == FlushStates(k, room, LAMBDA s, x : BiquadStep(s, x, k.flush_coeffs))
=============================================================================
