-------------------------------- MODULE Rack ---------------------------------
(***************************************************************************)
(* A host that prepares, resets and feeds a processor together with meters *)
(* on its input: the pairing the documentation describes for measurement   *)
(* and correction.  The processor drains without them.                     *)
(***************************************************************************)
EXTENDS KernelProcessor, Meters

CONSTANTS
  Window, Threshold, Tenths,  \* the settings of the meters that have any
  Weights                     \* the loudness meter's, in parts of Unit, by kind of kernel

VARIABLES
  meters,   \* by kind of meter
  observed  \* history, by kind of meter: the planes since its state was fresh

rackVars == <<vars, meters, observed>>

MeterKinds == {"peak", "rms", "crest", "mean", "windowed_rms", "clip", "true_peak",
               "loudness"}

LoudnessSettings == [channel_weights |-> Weights[kind], tenths |-> Tenths]

-----------------------------------------------------------------------------
(* Measurer's methods, by kind. *)

MeterNew(m) ==
  CASE m = "peak" -> PeakNew [] m = "rms" -> RmsNew [] m = "crest" -> CrestNew
    [] m = "mean" -> MeanNew [] m = "windowed_rms" -> WindowedNew(Window)
    [] m = "clip" -> ClipNew(Threshold) [] m = "true_peak" -> TruePeakNew
    [] m = "loudness" -> LoudnessNew(LoudnessSettings)

MeterAnswer(m, k, spec) ==
  CASE m = "peak" -> "Ok"
    [] m \in {"rms", "crest", "mean"} -> SumsAnswer(spec)
    [] m = "windowed_rms" -> WindowedAnswer(k, spec)
    [] m = "clip" -> ClipAnswer(k)
    [] m = "true_peak" -> TruePeakAnswer(spec)
    [] m = "loudness" -> LoudnessAnswer(k, spec)

MeterPrepared(m, k, spec) ==
  CASE m = "peak" -> PeakPrepared(k, spec) [] m = "rms" -> RmsPrepared(k, spec)
    [] m = "crest" -> CrestPrepared(k, spec) [] m = "mean" -> MeanPrepared(k, spec)
    [] m = "windowed_rms" -> WindowedPrepared(k, spec) [] m = "clip" -> ClipPrepared(k, spec)
    [] m = "true_peak" -> TruePeakPrepared(k, spec)
    [] m = "loudness" -> LoudnessPrepared(k, spec)

MeterReset(m, k) ==
  CASE m = "peak" -> PeakReset(k) [] m = "rms" -> RmsReset(k) [] m = "crest" -> CrestReset(k)
    [] m = "mean" -> MeanReset(k) [] m = "windowed_rms" -> WindowedReset(k)
    [] m = "clip" -> ClipReset(k) [] m = "true_peak" -> TruePeakReset(k)
    [] m = "loudness" -> LoudnessReset(k)

MeterObserve(m, k, planes) ==
  CASE m = "peak" -> PeakObserve(k, planes) [] m = "rms" -> RmsObserve(k, planes)
    [] m = "crest" -> CrestObserve(k, planes) [] m = "mean" -> MeanObserve(k, planes)
    [] m = "windowed_rms" -> WindowedObserve(k, planes) [] m = "clip" -> ClipObserve(k, planes)
    [] m = "true_peak" -> TruePeakObserve(k, planes)
    [] m = "loudness" -> LoudnessObserve(k, planes)

MeterRead(m, k) ==
  CASE m \in {"peak", "true_peak"} -> k.peak [] m = "rms" -> RmsRead(k)
    [] m = "crest" -> CrestRead(k) [] m = "mean" -> MeanRead(k)
    [] m = "windowed_rms" -> WindowedRead(k) [] m = "clip" -> k.count
    [] m = "loudness" -> LoudnessRead(k)

MeterFootprint(m, k) ==
  CASE m \in {"rms", "crest"} -> Len(k.sum_sq) [] m = "mean" -> Len(k.sums)
    [] m = "windowed_rms" -> Len(k.rings) * k.window
    [] m = "true_peak" -> TruePeakFootprint(k)
    [] m = "loudness" -> LoudnessFootprint(k) [] OTHER -> 0

-----------------------------------------------------------------------------
RackInit ==
  /\ Init
  /\ meters = [m \in MeterKinds |-> MeterNew(m)]
  /\ observed = [m \in MeterKinds |-> <<>>]

\* Measurer::prepare: a refused meter keeps its state, but it is not to be used.
PrepareMeter(m, k, spec) ==
  IF MeterAnswer(m, k, spec) # "Ok" THEN [k EXCEPT !.prepared = NotReady]
  ELSE MeterPrepared(m, k, spec)

NoPlanes(channels) == [c \in 1..channels |-> <<>>]

RackPrepare ==
  \E spec \in Specs[kind] :
    /\ Prepare(spec)
    /\ meters' = [m \in MeterKinds |-> PrepareMeter(m, meters[m], spec)]
    /\ observed' = [m \in MeterKinds |-> IF meters'[m].prepared = NotReady THEN observed[m]
                                         ELSE NoPlanes(spec.channels)]

RackReset ==
  /\ Reset
  /\ meters' = [m \in MeterKinds |-> MeterReset(m, meters[m])]
  /\ observed' = [m \in MeterKinds |-> NoPlanes(meters[m].prepared.channels)]

\* A meter that is not prepared for the block is left out (debug_validate_meter_geometry).
Observed(k, planes) ==
  k.prepared.channels = Len(planes) /\ FramesOf(planes) <= k.prepared.max_block

RackProcess ==
  /\ Usable
  /\ \E p, q \in RunValues, n \in 1..prepared.max_block : \E ctx \in Contexts(n) :
       /\ Process(ctx, p, q)
       /\ meters' = [m \in MeterKinds |-> IF Observed(meters[m], HeardOf(ctx))
                                          THEN MeterObserve(m, meters[m], HeardOf(ctx))
                                          ELSE meters[m]]
       /\ observed' = [m \in MeterKinds |-> IF Observed(meters[m], HeardOf(ctx))
                                            THEN Joined(observed[m], HeardOf(ctx))
                                            ELSE observed[m]]

RackDrain == Drain /\ UNCHANGED <<meters, observed>>

RackNext == RackPrepare \/ RackReset \/ RackProcess \/ RackDrain

RackSpec == RackInit /\ [][RackNext]_rackVars

-----------------------------------------------------------------------------
(* What a meter should read of the planes x it has observed. *)

Frames(x) == 1..Len(x[1])

Sample(x, c, i) == FiniteOrZero(x[c][i])

Each(x, Of(_)) ==
  MapThenSumSet(LAMBDA c : MapThenSumSet(LAMBDA i : Of(Sample(x, c, i)), Frames(x)), DOMAIN x)

Largest(x) == Max({0} \cup {Magnitude(Sample(x, c, i)) : c \in DOMAIN x, i \in Frames(x)})

\* The interpolation between the last inputs up to frame i, by phase, over the whole stream.
Between(x, c, i, ph) ==
  Magnitude(MapThenSumSet(LAMBDA j : IF ph + j * Factor >= Factor * PhaseTaps \/ i <= j THEN 0
                                     ELSE Prototype[ph + j * Factor] * Sample(x, c, i - j),
                          0..(PhaseTaps - 1)))

\* A filter's difference equation over the samples of xs from the first on.
Filtered(c, xs) ==
  LET In(n) == IF n < 1 THEN 0 ELSE xs[n]
      y[n \in -1..Len(xs)] ==
        IF n < 1 THEN 0
        ELSE Quotient(c.b0 * In(n) + c.b1 * In(n - 1) + c.b2 * In(n - 2)
                        - c.a1 * y[n - 1] - c.a2 * y[n - 2], c.a0)
  IN  [n \in 1..Len(xs) |-> y[n]]

\* The energy of frame i by weights, of the channels' shelved and high-passed samples.
Energies(x, weights) ==
  LET heard == [c \in DOMAIN x |->
                  Filtered(HighpassCoeffs(asked.sample_rate),
                           Filtered(ShelfCoeffs(asked.sample_rate),
                                    [i \in Frames(x) |-> Sample(x, c, i)]))]
  IN  [i \in Frames(x) |->
         MapThenSumSet(LAMBDA c : weights[c] * Square(heard[c][i]), DOMAIN x)]

Weighting(channels) ==
  IF Weights[kind] = <<>> THEN DefaultWeights(channels) ELSE Weights[kind]

\* What the frames of a window add up to once they are enough.
Recent(energies, frames) ==
  LET n == Len(energies)
  IN  IF n < frames THEN "silence"
      ELSE MapThenSumSet(LAMBDA i : energies[i], (n - frames + 1)..n)

\* n of d, or nothing if nothing was observed.
Of(n, d) == IF d = 0 THEN <<0, 1>> ELSE <<n, d>>

Reference(m, x) ==
  LET n == Len(x[1])
      recent == [c \in DOMAIN x |-> SubSeq(x[c], Max({1, n - Window + 1}), n)]
      mean == Of(Each(x, Square), n * Len(x))
  IN  CASE m = "peak" -> Largest(x)
        [] m = "rms" -> mean
        [] m = "crest" -> IF Largest(x) = 0 THEN <<0, <<1, 1>>>> ELSE <<Largest(x), mean>>
        [] m = "mean" ->
             Of(Max({Magnitude(MapThenSumSet(LAMBDA i : Sample(x, c, i), 1..n)) :
                       c \in DOMAIN x}), n)
        [] m = "windowed_rms" -> Of(Each(recent, Square), Len(x) * Min({n, Window}))
        [] m = "clip" ->
             Cardinality({ci \in (DOMAIN x) \X (1..n) :
                            Magnitude(Sample(x, ci[1], ci[2])) >= Threshold})
        [] m = "true_peak" ->
             Max({Largest(x)} \cup {Between(x, c, i, ph) :
                                      c \in DOMAIN x, i \in 1..n, ph \in 0..(Factor - 1)})
        [] m = "loudness" ->
             LET energies == Energies(x, Weighting(Len(x)))
                 w == LoudnessFrames[asked.sample_rate]
             IN  <<Recent(energies, w.momentary), Recent(energies, w.short_term)>>

\* The values a meter keeps for the spec last asked for.
MeterBytes(m) ==
  LET channels == asked.channels
  IN  CASE m \in {"rms", "crest", "mean"} -> channels
        [] m = "windowed_rms" -> channels * Window
        [] m = "true_peak" -> channels * (Factor + 1) * PhaseTaps
        [] m = "loudness" ->
             LET w == LoudnessFrames[asked.sample_rate]
             IN  channels * (KWeightingSize + 1) + asked.max_block + 2 * w.momentary
                   + w.short_term + Tenths - 3
        [] OTHER -> 0

\* A meter counts as prepared just for the last spec and if what it keeps then is within
\* the cap, and it reads all that it has observed since, and nothing older, however that
\* was cut into blocks (analysis/*.rs: prepare, reset, observe, read, memory_footprint).
MetersExact ==
  \A m \in MeterKinds :
    meters[m].prepared # NotReady =>
      /\ meters[m].prepared.channels = asked.channels
      /\ MeterFootprint(m, meters[m]) = MeterBytes(m)
      /\ MeterBytes(m) <= asked.max_memory
      /\ MeterRead(m, meters[m]) = Reference(m, observed[m])
=============================================================================
