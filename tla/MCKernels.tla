------------------------------ MODULE MCKernels ------------------------------
(* A small rack: every kind of kernel in turn, and all the meters. *)
EXTENDS Rack

K(kind_, kernel_) == [kind |-> kind_, kernel |-> kernel_]

\* As constructed by default, with a sidechain, with extreme settings, and misconfigured.
TheKernels ==
  {K("average", AverageNew(3)), K("average", AverageNew(0)),
   K("dc_blocker", DcNew(DcSettings)), K("dc_blocker", DcNew([DcSettings EXCEPT !.cutoff_hz = 0])),
   K("biquad", BiquadNew(BiquadSettings)),
   K("biquad", BiquadNew([BiquadSettings EXCEPT !.kind = "Peaking", !.gain_db = 24])),
   K("biquad", BiquadNew([BiquadSettings EXCEPT !.kind = "HighShelf", !.gain_db = -24])),
   K("biquad", BiquadNew([BiquadSettings EXCEPT !.q = NotFinite])),
   K("dynamics", DynamicsNew(CompressorSettings)), K("dynamics", DynamicsNew(GateSettings)),
   K("dynamics", DynamicsNew([ExpanderSettings EXCEPT !.attack_ms = 0])),
   K("dynamics", DynamicsNew([CompressorSettings EXCEPT !.use_sidechain = TRUE])),
   K("dynamics", DynamicsNew([ExpanderSettings EXCEPT !.release_ms = -1])),
   K("oscillator", OscillatorNew(SineSettings)), K("oscillator", OscillatorNew(PolyBlepSettings)),
   K("oscillator", OscillatorNew([PolyBlepSettings EXCEPT !.waveform = "Square"])),
   K("noise", NoiseNew(NoiseSettings)),
   K("dither", DitherNew([DitherSettings EXCEPT !.bits = 2])),
   K("dither", DitherNew([DitherSettings EXCEPT !.bits = 25])),
   K("gain", GainNew(GainSettings)), K("scale", ScaleNew(-1)), K("scale", ScaleNew(NotFinite)),
   K("dc_offset", Broadcast(3)), K("dc_offset", PerChannel(<<3, -2>>)),
   K("dc_offset", PerChannel(<<3, NotFinite>>)),
   K("custom", CustomNew(1, <<NewParam(0, 1, 9, 4, "Hz")>>)),
   K("custom", CustomNew(0, <<NewParam(0, 1, 9, 4, "Hz")>>)),
   K("custom", CustomNew(1, <<WithSmoothing(NewParam(0, 0, 9, 4, "Db"), "Exponential")>>)),
   K("custom", CustomNew(1, <<WithSmoothingMs(NewParam(0, 1, 9, 4, "Hz"), 0)>>)),
   K("custom", CustomNew(2, <<NewParam(0, 4, 4, 4, "Db"), NewParam(0, 0, 9, 4, "Ms")>>))}

Spec_(rate, channels, cap) ==
  [sample_rate |-> rate, channels |-> channels, max_block |-> 2, max_memory |-> cap]

\* Rates below and above the lowest supported, and channels to play.
Plain == {Spec_(48, 2, NoCap), Spec_(44, 1, NoCap), Spec_(2, 1, NoCap), Spec_(0, 1, NoCap)}

\* Caps at the edges of what is needed, and channels whose bytes are more than a buffer or
\* a word can hold.
Tight == {Spec_(48, 2, 5), Spec_(48, 2, 6), Spec_(48, 2, 11), Spec_(48, 1, 2),
          Spec_(48, 12, NoCap), Spec_(48, 12, 30), Spec_(48, 9, NoCap)}

TheSpecs ==
  [k \in KernelKinds |->
     CASE k = "average" ->
            {Spec_(48, 2, NoCap), Spec_(0, 1, NoCap), Spec_(48, 1, 5), Spec_(48, 2, 9),
             Spec_(48, 2, 18), Spec_(48, 12, NoCap)}
       [] k = "dither" ->
            {Spec_(48, 2, NoCap), Spec_(2, 1, NoCap), Spec_(48, 2, 1), Spec_(48, 12, 30)}
       [] k = "dc_blocker" ->
            {Spec_(48, 2, NoCap), Spec_(3, 1, NoCap), Spec_(0, 1, NoCap), Spec_(48, 2, 5),
             Spec_(48, 12, NoCap)}
       [] k = "biquad" ->
            {[Spec_(48, 2, NoCap) EXCEPT !.max_block = 1], Spec_(3, 1, NoCap),
             Spec_(2, 1, NoCap), Spec_(48, 2, 13), Spec_(48, 12, NoCap)}
       [] k = "dynamics" -> {Spec_(48, 2, NoCap), Spec_(0, 1, NoCap), Spec_(48, 1, 2)}
       [] k \in {"gain", "oscillator", "scale"} ->
            {Spec_(48, 2, NoCap), Spec_(0, 1, NoCap), Spec_(48, 1, 1), Spec_(48, 12, 5)}
       [] OTHER -> Plain \cup Tight]

TheSamples ==
  [k \in KernelKinds |->
     CASE k = "average" -> {-1, 4}
       [] k = "dc_blocker" -> {-16, 32}
       [] k = "biquad" -> {-3, 16}
       [] k = "dynamics" -> {-4, 8}
       [] k = "dither" -> {-7, 5}
       [] OTHER -> {7, NotFinite}]

TheValues ==
  [k \in KernelKinds |->
     CASE k = "dc_blocker" -> <<{1, 1000}>>
       [] k = "biquad" -> <<{10, 24000}, {7}, {24}>>
       [] k = "dynamics" -> <<{-20}, {4}, {-12, 0, 12}>>
       [] k = "oscillator" -> <<{12, 24000}, {50}>>
       [] k = "noise" -> <<{50}>>
       [] k = "gain" -> <<{0, 6}>>
       [] OTHER -> <<{4}, {4}>>]

TheMaxFrames ==
  [k \in KernelKinds |->
     CASE k = "oscillator" -> 5
       [] k \in {"average", "noise", "dither", "dc_blocker", "biquad"} -> 3
       [] OTHER -> 2]

TheLn == [v \in 1..20 |-> v + Min({v, 8})] @@ 440 :> 40 @@ 1000 :> 48 @@ 24000 :> 60

\* A pole that is slower the lower the cutoff.
TheRadius == [h \in 0..49 |-> IF h < 10 THEN 2 ELSE 1]

\* In parts of 4.
TheCos == [h \in 0..49 |-> IF h < 15 THEN 3 ELSE IF h < 22 THEN 1 ELSE IF h < 30 THEN 0 ELSE -3]
TheSin == [h \in 0..49 |-> IF h < 15 THEN 2 ELSE IF h < 30 THEN 4 ELSE 1]
TheAmplitude == [g \in -24..24 |-> IF g < 0 THEN 1 ELSE IF g = 0 THEN 4 ELSE 16]
TheRootOf == [g \in -24..24 |-> IF g < 0 THEN 2 ELSE IF g = 0 THEN 4 ELSE 8]
TheBiquadDecay == [s \in 1..4 |-> 4]

MCDraw(seed, n) == (seed[1] + 3 * seed[2] + n * n) % 5

MCOnePole(ms, fs) == 2 + (ms * fs) \div 2000
TheDbToLin == [db \in -80..0 |-> IF db < -40 THEN 1 ELSE IF db < -10 THEN 3 ELSE 8]

\* Two phases, of which one overshoots.
ThePrototype == 0 :> 1 @@ 1 :> 2 @@ 2 :> 0 @@ 3 :> 2

\* Where the shelf and the high-pass turn at the two rates, and the windows there.
TheShelf == [tan |-> 48 :> 1 @@ 44 :> 2 @@ 3 :> 3, damping |-> 6, gain |-> 6, band |-> 5]
TheHighpass == [tan |-> 48 :> 1 @@ 44 :> 1 @@ 3 :> 2, damping |-> 8]
TheLoudnessFrames ==
  48 :> [momentary |-> 2, short_term |-> 3] @@ 44 :> [momentary |-> 1, short_term |-> 3]
    @@ 3 :> [momentary |-> 1, short_term |-> 1]

\* Explicit weights that leave a channel out, and weights that are refused.
TheWeights ==
  [k \in KernelKinds |-> CASE k \in {"dc_blocker", "gain", "dc_offset"} -> <<0, 5>>
                           [] k = "scale" -> <<NotFinite>> [] OTHER -> <<>>]

-----------------------------------------------------------------------------
(* What the configuration gives the constants.  TLC evaluates a definition that a constant *)
(* stands for at each use, but one that this refers to only once.                          *)

MCKernelSet == TheKernels
MCSpecs == TheSpecs
MCSamples == TheSamples
MCValues == TheValues
MCMaxFrames == TheMaxFrames
MCLn == TheLn
MCRadius == TheRadius
MCCos == TheCos
MCSin == TheSin
MCAmplitude == TheAmplitude
MCRootOf == TheRootOf
MCBiquadDecay == TheBiquadDecay
MCDbToLin == TheDbToLin
MCPrototype == ThePrototype
MCShelf == TheShelf
MCHighpass == TheHighpass
MCLoudnessFrames == TheLoudnessFrames
MCWeights == TheWeights
=============================================================================
