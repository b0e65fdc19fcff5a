------------------------------- MODULE Meters --------------------------------
(***************************************************************************)
(* The meters (analysis/level.rs, mean.rs, windowed_rms.rs, clip.rs,       *)
(* true_peak.rs, loudness.rs, and dsp/oversample.rs): what prepare asks    *)
(* for, what a block makes of the state, and what is read of it.           *)
(*                                                                         *)
(* A reading is an integer, a fraction <<n, d>> under a root or not, or a  *)
(* peak and such a fraction.                                               *)
(***************************************************************************)
EXTENDS RecursiveTail

CONSTANTS
  Factor, PhaseTaps,  \* the true-peak interpolator: 4 phases of 12 coefficients,
  Prototype,          \* and its low-pass, in which the phases are interleaved
  KShelf, KHighpass,  \* K-weighting, in parts of Unit: [tan, damping, gain, band], where tan is
                      \* by sample rate and damping is 1 / Q
  MinKWeightingRate,  \* the least sample rate that keeps the shelf below Nyquist
  KWeightingSize,     \* bytes of a channel's two filters
  SurroundWeight,     \* in parts of Unit
  LoudnessFrames      \* [momentary, short_term], by sample rate: FramesForMs of 400 ms and 3 s

ASSUME MeterAssumption ==
  /\ Factor \in Nat \ {0} /\ PhaseTaps \in Nat \ {0}
  /\ Prototype \in [0..(Factor * PhaseTaps - 1) -> Int]
  /\ SurroundWeight \in Nat /\ KWeightingSize \in Nat /\ MinKWeightingRate \in Nat
  /\ \A rate \in DOMAIN LoudnessFrames :
       /\ LoudnessFrames[rate].momentary > 0 /\ LoudnessFrames[rate].short_term > 0
       /\ KShelf.tan[rate] \in Nat /\ KHighpass.tan[rate] \in Nat

NotReady == [channels |-> 0, max_block |-> 0]

\* PreparedMeterContract::new
MeterContract(spec) == [channels |-> spec.channels, max_block |-> spec.max_block]

Zeros(channels) == [c \in 1..channels |-> 0]

\* The sum over a plane of what is made of each sample.
PlaneSum(xs, Of(_)) == FoldLeft(LAMBDA sum, x : sum + Of(FiniteOrZero(x)), 0, xs)

Total(xs) == FoldLeft(LAMBDA sum, x : sum + x, 0, xs)

Square(x) == x * x

\* The largest magnitude in a block, or of what was there before.
BlockPeak(peak, planes) ==
  Max({peak} \cup {Magnitude(FiniteOrZero(planes[c][i])) :
                     c \in DOMAIN planes, i \in 1..FramesOf(planes)})

-----------------------------------------------------------------------------
(* PeakMeter. *)

PeakNew == [peak |-> 0, prepared |-> NotReady]
PeakPrepared(k, spec) == [peak |-> 0, prepared |-> MeterContract(spec)]
PeakReset(k) == [k EXCEPT !.peak = 0]
PeakObserve(k, planes) == [k EXCEPT !.peak = BlockPeak(@, planes)]

-----------------------------------------------------------------------------
(* RmsMeter. *)

RmsNew == [sum_sq |-> <<>>, count |-> 0, prepared |-> NotReady]

SumsAnswer(spec) == Preflight(Array(NewLayout, spec.channels, 1), spec.max_memory)

RmsPrepared(k, spec) ==
  [sum_sq |-> Zeros(spec.channels), count |-> 0, prepared |-> MeterContract(spec)]

RmsReset(k) == [k EXCEPT !.sum_sq = Zeros(Len(@)), !.count = 0]

RmsObserve(k, planes) ==
  [k EXCEPT !.sum_sq = [c \in DOMAIN @ |-> @[c] + PlaneSum(planes[c], Square)],
            !.count = @ + FramesOf(planes) * Len(planes)]

RmsRead(k) == IF k.count = 0 THEN <<0, 1>> ELSE <<Total(k.sum_sq), k.count>>

-----------------------------------------------------------------------------
(* CrestMeter: the peak over the root. *)

CrestNew == [peak |-> 0, sum_sq |-> <<>>, count |-> 0, prepared |-> NotReady]

CrestPrepared(k, spec) ==
  [peak |-> 0, sum_sq |-> Zeros(spec.channels), count |-> 0, prepared |-> MeterContract(spec)]

CrestReset(k) == [k EXCEPT !.peak = 0, !.sum_sq = Zeros(Len(@)), !.count = 0]

CrestObserve(k, planes) ==
  [k EXCEPT !.sum_sq = [c \in DOMAIN @ |-> @[c] + PlaneSum(planes[c], Square)],
            !.peak = BlockPeak(@, planes), !.count = @ + FramesOf(planes) * Len(planes)]

CrestRead(k) ==
  IF k.count = 0 \/ Total(k.sum_sq) = 0 THEN <<0, <<1, 1>>>>
  ELSE <<k.peak, <<Total(k.sum_sq), k.count>>>>

-----------------------------------------------------------------------------
(* MeanMeter. *)

MeanNew == [sums |-> <<>>, frames |-> 0, prepared |-> NotReady]

MeanPrepared(k, spec) ==
  [sums |-> Zeros(spec.channels), frames |-> 0, prepared |-> MeterContract(spec)]

MeanReset(k) == [k EXCEPT !.sums = Zeros(Len(@)), !.frames = 0]

MeanObserve(k, planes) ==
  [k EXCEPT !.sums = [c \in DOMAIN @ |-> @[c] + PlaneSum(planes[c], LAMBDA x : x)],
            !.frames = @ + FramesOf(planes)]

MeanRead(k) ==
  IF k.frames = 0 THEN <<0, 1>>
  ELSE <<Max({0} \cup {Magnitude(k.sums[c]) : c \in DOMAIN k.sums}), k.frames>>

-----------------------------------------------------------------------------
(* WindowedRmsMeter: rings of squares, walked from one position. *)

WindowedNew(window) ==
  [window |-> window, rings |-> <<>>, pos |-> 0, filled |-> 0, prepared |-> NotReady]

WindowedAnswer(k, spec) ==
  IF k.window = 0 THEN "InvalidParam"
  ELSE Preflight(RepeatedArray(NewLayout, spec.channels, k.window, 1), spec.max_memory)

WindowedCleared(k, channels) ==
  [k EXCEPT !.rings = [c \in 1..channels |-> [i \in 0..(k.window - 1) |-> 0]],
            !.pos = 0, !.filled = 0]

WindowedPrepared(k, spec) ==
  [WindowedCleared(k, spec.channels) EXCEPT !.prepared = MeterContract(spec)]

WindowedReset(k) == WindowedCleared(k, Len(k.rings))

RingWalk(k, c, xs) ==
  FoldLeft(LAMBDA st, x : [ring |-> [st.ring EXCEPT ![st.p] = Square(FiniteOrZero(x))],
                           p |-> IF st.p + 1 = k.window THEN 0 ELSE st.p + 1],
           [ring |-> k.rings[c], p |-> k.pos], xs)

WindowedObserve(k, planes) ==
  LET walk == [c \in DOMAIN planes |-> RingWalk(k, c, planes[c])]
  IN  [k EXCEPT !.rings = [c \in DOMAIN @ |-> walk[c].ring],
                !.pos = IF walk = <<>> THEN @ ELSE Last(walk).p,
                !.filled = Min({@ + FramesOf(planes), k.window})]

WindowedRead(k) ==
  IF k.filled = 0 \/ k.rings = <<>> THEN <<0, 1>>
  ELSE <<Total([c \in DOMAIN k.rings |->
                  MapThenSumSet(LAMBDA i : k.rings[c][i], DOMAIN k.rings[c])]),
         Len(k.rings) * k.filled>>

-----------------------------------------------------------------------------
(* ClipMeter. *)

ClipNew(threshold) == [threshold |-> threshold, count |-> 0, prepared |-> NotReady]

ClipAnswer(k) ==
  IF Finite(k.threshold) /\ k.threshold > 0 THEN "Ok" ELSE "InvalidParam"

ClipPrepared(k, spec) == [k EXCEPT !.count = 0, !.prepared = MeterContract(spec)]

ClipReset(k) == [k EXCEPT !.count = 0]

ClipObserve(k, planes) ==
  LET Clips(x) == Magnitude(FiniteOrZero(x)) >= k.threshold
  IN  [k EXCEPT !.count = @ + Len(SelectSeq(FlattenSeq(planes), Clips))]

-----------------------------------------------------------------------------
(* TruePeakMeter, with a PolyphaseUpsampler for each channel. *)

\* Phase ph takes every Factor'th coefficient of the prototype; the delay's newest comes first.
Upsampler ==
  [phases |-> [ph \in 1..Factor |-> [k \in 1..PhaseTaps |-> Prototype[ph - 1 + (k - 1) * Factor]]],
   delay |-> Zeros(PhaseTaps)]

UpsamplerFootprint(os) ==
  FoldLeft(LAMBDA sum, phase : sum + Len(phase), Len(os.delay), os.phases)

TruePeakNew == [os |-> <<>>, peak |-> 0, prepared |-> NotReady]

TruePeakAnswer(spec) ==
  LET perChannel == Plus(Times(Factor, PhaseTaps), PhaseTaps)
  IN  IF perChannel = Uncounted THEN "UnsupportedSpec"
      ELSE Preflight(RepeatedArray(NewLayout, spec.channels, perChannel, 1), spec.max_memory)

TruePeakPrepared(k, spec) ==
  [os |-> [c \in 1..spec.channels |-> Upsampler], peak |-> 0, prepared |-> MeterContract(spec)]

\* Mutated form of TruePeakReset: the delay lines are left as they were.
TruePeakResetKeepsDelay(k) == [k EXCEPT !.peak = 0]

TruePeakReset(k) ==
  [k EXCEPT !.os = [c \in DOMAIN @ |-> [@[c] EXCEPT !.delay = Zeros(PhaseTaps)]], !.peak = 0]

\* peak_abs: the largest of the phases at the delay line.
PhasePeak(os) ==
  Max({Magnitude(FoldLeft(LAMBDA acc, k : acc + os.phases[ph][k] * os.delay[k], 0,
                          [k \in 1..PhaseTaps |-> k])) : ph \in DOMAIN os.phases})

\* A channel pushed through its upsampler.
PeakWalk(os, xs) ==
  FoldLeft(LAMBDA st, sample :
             LET x == FiniteOrZero(sample)
                 now == [st.os EXCEPT !.delay = <<x>> \o SubSeq(@, 1, PhaseTaps - 1)]
             IN  [os |-> now, peak |-> Max({st.peak, Magnitude(x), PhasePeak(now)})],
           [os |-> os, peak |-> 0], xs)

TruePeakObserve(k, planes) ==
  LET walk == [c \in DOMAIN planes |-> PeakWalk(k.os[c], planes[c])]
  IN  [k EXCEPT !.os = [c \in DOMAIN @ |-> walk[c].os],
                !.peak = Max({@} \cup {walk[c].peak : c \in DOMAIN walk})]

TruePeakFootprint(k) == Total([c \in DOMAIN k.os |-> UpsamplerFootprint(k.os[c])])
-----------------------------------------------------------------------------
(* LoudnessMeter, up to the energies it hands to its windows.  What these make of them is     *)
(* Loudness's; here they are read off the energies, which are kept for good.                  *)

\* k_shelf_coeffs and k_highpass_coeffs, before they are divided by a0, all multiplied by what
\* makes them integers.
ShelfCoeffs(rate) ==
  LET U == Unit
      k == KShelf.tan[rate]
      damped == U * k * KShelf.damping
      lift == U * U * KShelf.gain
      bend == KShelf.band * k * KShelf.damping
  IN  [b0 |-> lift + bend + U * k * k, b1 |-> 2 * (U * k * k - lift),
       b2 |-> lift - bend + U * k * k,
       a0 |-> U * U * U + damped + U * k * k, a1 |-> 2 * (U * k * k - U * U * U),
       a2 |-> U * U * U - damped + U * k * k]

HighpassCoeffs(rate) ==
  LET U == Unit
      k == KHighpass.tan[rate]
      damped == k * KHighpass.damping
  IN  [b0 |-> U * U, b1 |-> -2 * U * U, b2 |-> U * U,
       a0 |-> U * U + damped + k * k, a1 |-> 2 * (k * k - U * U), a2 |-> U * U - damped + k * k]

\* BiquadState: the transposed form, whose two delays hold sums of parts of a0.
StageNew(coeffs) == [coeffs |-> coeffs, z1 |-> 0, z2 |-> 0]

StageReset(s) == StageNew(s.coeffs)

StageOut(s, x) == Quotient(s.coeffs.b0 * x + s.z1, s.coeffs.a0)

StageStep(s, x) ==
  LET y == StageOut(s, x)
  IN  [s EXCEPT !.z1 = s.coeffs.b1 * x - s.coeffs.a1 * y + s.z2,
                !.z2 = s.coeffs.b2 * x - s.coeffs.a2 * y]

KWeightingNew(rate) ==
  [shelf |-> StageNew(ShelfCoeffs(rate)), highpass |-> StageNew(HighpassCoeffs(rate))]

\* A channel through its filters: what they give, and where they are then.
KWeighted(filter, xs) ==
  FoldLeft(LAMBDA st, sample :
             LET x == FiniteOrZero(sample)
                 y == StageOut(st.filter.shelf, x)
             IN  [filter |-> [shelf |-> StageStep(st.filter.shelf, x),
                              highpass |-> StageStep(st.filter.highpass, y)],
                  out |-> Append(st.out, StageOut(st.filter.highpass, y))],
           [filter |-> filter, out |-> <<>>], xs)

\* with_settings: weights as given or none, and the tenths of a second of integrated history.
LoudnessNew(settings) ==
  [settings |-> settings, filters |-> <<>>, inferred_channel_weights |-> <<>>, capacity |-> 1,
   scratch |-> 0, windows |-> [momentary |-> 0, short_term |-> 0], energies |-> <<>>,
   prepared |-> NotReady]

ValidWeights(settings, channels) ==
  IF settings.channel_weights = <<>> THEN channels \in 1..5
  ELSE /\ Len(settings.channel_weights) = channels
       /\ \A c \in 1..channels : /\ Finite(settings.channel_weights[c])
                                 /\ settings.channel_weights[c] >= 0

\* default_channel_weights: the last two of four or more channels are the surrounds.
DefaultWeights(channels) ==
  [c \in 1..channels |-> IF channels > 3 /\ c > channels - 2 THEN SurroundWeight ELSE Unit]

\* integrated_block_capacity
BlockCapacity(settings) == Max({settings.tenths - 3, 1})

ValidHistory(settings) ==
  Finite(settings.tenths) /\ settings.tenths >= 4 /\ BlockCapacity(settings) < MaxUsize

LoudnessAnswer(k, spec) ==
  IF spec.sample_rate < MinKWeightingRate \/ spec.channels = 0 THEN "UnsupportedSpec"
  ELSE IF ~ ValidWeights(k.settings, spec.channels) \/ ~ ValidHistory(k.settings)
    THEN "InvalidParam"
  ELSE LET w == LoudnessFrames[spec.sample_rate]
           filters == Array(NewLayout, spec.channels, KWeightingSize)
       IN  Preflight(FoldLeft(LAMBDA layout, n : Array(layout, n, 1), filters,
                              <<spec.channels, spec.max_block, w.momentary, w.short_term,
                                w.momentary, BlockCapacity(k.settings)>>), spec.max_memory)

LoudnessPrepared(k, spec) ==
  [k EXCEPT !.inferred_channel_weights =
              IF k.settings.channel_weights = <<>> THEN DefaultWeights(spec.channels) ELSE <<>>,
            !.filters = [c \in 1..spec.channels |-> KWeightingNew(spec.sample_rate)],
            !.capacity = BlockCapacity(k.settings), !.scratch = spec.max_block,
            !.windows = LoudnessFrames[spec.sample_rate], !.energies = <<>>,
            !.prepared = MeterContract(spec)]

LoudnessReset(k) ==
  [k EXCEPT !.filters = [c \in DOMAIN @ |-> [shelf |-> StageReset(@[c].shelf),
                                            highpass |-> StageReset(@[c].highpass)]],
            !.energies = <<>>]

ChannelWeights(k) ==
  IF k.settings.channel_weights = <<>> THEN k.inferred_channel_weights
  ELSE k.settings.channel_weights

\* A channel without weight is filtered as well, but adds nothing.
LoudnessObserve(k, planes) ==
  LET ch == [c \in DOMAIN planes |-> KWeighted(k.filters[c], planes[c])]
      Energy(i) == Total([c \in DOMAIN ch |-> ChannelWeights(k)[c] * Square(ch[c].out[i])])
  IN  [k EXCEPT !.filters = [c \in DOMAIN @ |-> ch[c].filter],
                !.energies = @ \o [i \in 1..FramesOf(planes) |-> Energy(i)]]

\* A window that is full reads its energies, any other silence.
LoudnessRead(k) ==
  LET In(frames) == IF Len(k.energies) < frames THEN "silence"
                    ELSE Total(SubSeq(k.energies, Len(k.energies) - frames + 1, Len(k.energies)))
  IN  <<In(k.windows.momentary), In(k.windows.short_term)>>

LoudnessFootprint(k) ==
  Len(k.filters) * KWeightingSize + Len(ChannelWeights(k)) + k.scratch
    + 2 * k.windows.momentary + k.windows.short_term + k.capacity
=============================================================================
