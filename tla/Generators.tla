----------------------------- MODULE Generators ------------------------------
(***************************************************************************)
(* The oscillators (generators/sine.rs and poly_blep.rs): one phase for    *)
(* all channels, in parts of Cycle.  And the kernels with a random         *)
(* generator for each channel: white noise (generators/noise.rs) and       *)
(* dither (mastering/dither.rs).                                           *)
(***************************************************************************)
EXTENDS SubBlock, MemoryLayout

CONSTANTS
  Cycle,       \* parts of a period, an even number
  Draw(_, _),  \* next_unit: by seed and how often it was drawn from before, in parts of
  DrawParts,
  FullScale    \* the sample that is full scale

ASSUME CycleAssumption == Cycle \in Nat \ {0} /\ Cycle % 2 = 0
ASSUME NoiseAssumption == DrawParts \in Nat \ {0} /\ FullScale \in Nat \ {0}

-----------------------------------------------------------------------------
(* The oscillators.  A frequency is in hertz, an amplitude in hundredths.  A sample is *)
(* <<amplitude, wave>>: a sine's wave is its phase, a PolyBLEP wave is the fraction    *)
(* [num, den].                                                                         *)

SineSettings == [waveform |-> "Sine", frequency_hz |-> 440, amplitude |-> 50]
PolyBlepSettings == [waveform |-> "Saw", frequency_hz |-> 440, amplitude |-> 50]

HighestTone == 24000

OscillatorParams(s) ==
  <<NewParam(0, 1, HighestTone, s.frequency_hz, "Hz"),
    NewParam(1, 0, 100, s.amplitude, "Linear")>>

\* with_settings
OscillatorNew(s) ==
  [waveform |-> s.waveform, params |-> OscillatorParams(s), fs |-> 0, phase |-> 0]

OscillatorAnswer(spec) == IF spec.sample_rate = 0 THEN "UnsupportedSpec" ELSE "Ok"

OscillatorPrepared(k, spec) == [k EXCEPT !.fs = spec.sample_rate, !.phase = 0]

OscillatorReset(k) == [k EXCEPT !.phase = 0]

\* The parts of a period in a frame: 0.999 of half the sample rate at most
\* (max_oscillator_frequency).
Increment(k, hz) == (Cycle * Min({2000 * hz, 999 * k.fs})) \div (2000 * k.fs)

\* Mutated form of WrapPhase: a full period is not yet wrapped.
WrapPhaseLate(ph) == IF ph > Cycle THEN ph - Cycle ELSE ph

\* wrap_phase: one subtraction is enough for an increment below a period.
WrapPhase(ph) == IF ph >= Cycle THEN ph - Cycle ELSE ph

\* poly_blep, the smoothing of a step from one frame before it to one after, in parts of dt * dt.
Blep(t, dt) ==
  CASE t < dt -> 2 * t * dt - t * t - dt * dt
    [] t >= dt /\ t > Cycle - dt -> (t - Cycle + dt) * (t - Cycle + dt)
    [] OTHER -> 0

\* The wave at a phase.
Wave(waveform, ph, dt) ==
  LET half == (ph + Cycle \div 2) % Cycle
      step == IF ph < Cycle \div 2 THEN 1 ELSE -1
  IN  CASE waveform = "Sine" -> ph
        [] waveform = "Saw" ->
             [num |-> (2 * ph - Cycle) * dt * dt - Cycle * Blep(ph, dt),
              den |-> Cycle * dt * dt]
        [] waveform = "Square" ->
             [num |-> step * dt * dt + Blep(ph, dt) - Blep(half, dt), den |-> dt * dt]

\* A channel's run from the phase all channels start at.
OscillatorChannel(k, frames, p) ==
  LET dt == Increment(k, p[1])
  IN  FoldLeft(LAMBDA st, i : [ph |-> WrapPhase(st.ph + dt),
                               out |-> Append(st.out, <<p[2], Wave(k.waveform, st.ph, dt)>>)],
               [ph |-> k.phase, out |-> <<>>], [i \in 1..frames |-> i])

OscillatorRender(k, run, p) ==
  LET ch == OscillatorChannel(k, run.len, p)
  IN  [kernel |-> [k EXCEPT !.phase = IF Channels(run) = 0 THEN @ ELSE ch.ph],
       out |-> [c \in 1..Channels(run) |-> ch.out]]

-----------------------------------------------------------------------------
(* Random generators (dsp/rng.rs): a seed and the numbers drawn from it. *)

\* channel_seed: every channel draws from a stream of its own.
ChannelSeed(base, c) == <<base, c>>

RngNew(seed) == [seed |-> seed, draws |-> 0]

RngDraw(rng, more) == Draw(rng.seed, rng.draws + more)

RngsNew(base, channels) == [c \in 1..channels |-> RngNew(ChannelSeed(base, c))]

\* Both kernels keep just the generators.
RngFootprint(k) == Len(k.rngs)

RngsReset(k) == [k EXCEPT !.rngs = RngsNew(k.seed, Len(@))]

Drawn(k, draws) ==
  [k EXCEPT !.rngs = [c \in DOMAIN k.rngs |-> [k.rngs[c] EXCEPT !.draws = @ + draws]]]

-----------------------------------------------------------------------------
(* White noise: a sample is <<amplitude, number drawn>>. *)

NoiseSettings == [amplitude |-> 50, seed |-> 1]

NoiseParams(s) == <<NewParam(0, 0, 100, s.amplitude, "Linear")>>

NoiseNew(s) == [params |-> NoiseParams(s), seed |-> s.seed, rngs |-> <<>>]

NoiseAnswer(spec, cap) == Preflight(Array(NewLayout, spec.channels, 1), cap)

NoisePrepared(k, spec) == [k EXCEPT !.rngs = RngsNew(k.seed, spec.channels)]

NoiseRender(k, run, p) ==
  [kernel |-> Drawn(k, run.len),
   out |-> [c \in DOMAIN k.rngs |-> [i \in 1..run.len |-> <<p[1], RngDraw(k.rngs[c], i - 1)>>]]]

-----------------------------------------------------------------------------
(* Dither: two numbers a frame make its triangle; an output is a quantizer's level. *)

DitherSettings == [bits |-> 16, seed |-> 2]

DitherNew(s) == [bits |-> s.bits, seed |-> s.seed, rngs |-> <<>>, levels |-> 0]

DitherAnswer(k, spec, cap) ==
  IF k.bits \notin 2..24 THEN "InvalidParam"
  ELSE Preflight(Array(NewLayout, spec.channels, 1), cap)

DitherPrepared(k, spec) ==
  [k EXCEPT !.levels = 2^(k.bits - 1), !.rngs = RngsNew(k.seed, spec.channels)]

\* n / d to the nearest integer, a half away from zero.
Round(n, d) == IF n < 0 THEN -((-2 * n + d) \div (2 * d)) ELSE (2 * n + d) \div (2 * d)

\* The level of sample x and the triangle's two numbers.
Quantized(levels, x, first, second) ==
  ClampTo(Round(FiniteOrZero(x) * levels * DrawParts + (first - second) * FullScale,
                FullScale * DrawParts),
          -levels, levels - 1)

DitherRender(k, run) ==
  LET in == Input(run)
  IN  [kernel |-> Drawn(k, 2 * run.len),
       out |-> [c \in DOMAIN k.rngs |->
                  [i \in 1..run.len |->
                     Quantized(k.levels, in[c][i], RngDraw(k.rngs[c], 2 * (i - 1)),
                               RngDraw(k.rngs[c], 2 * (i - 1) + 1))]]]
=============================================================================
