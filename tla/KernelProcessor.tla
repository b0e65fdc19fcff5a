-------------------------- MODULE KernelProcessor ----------------------------
(***************************************************************************)
(* The wrapper that owns a kernel and its smoother bank (dsp/driver.rs,    *)
(* KernelProcessor), with each of the crate's simple kernels in it: what   *)
(* prepare accepts and leaves behind, and what process, flush and reset,   *)
(* in any legal order and with any cut of a block into runs, make of a     *)
(* kernel's state and of the block.                                        *)
(*                                                                         *)
(* One action is one call.  How the driver cuts a block and which smoothed *)
(* values a run gets is Driver's and SmootherBank's; here a block has any  *)
(* cut into two runs, each with any values the bank could give it.         *)
(***************************************************************************)
EXTENDS MovingAverage, DcBlocker, Biquad, Generators, Dynamics, Levels

KernelKinds ==
  {"average", "dc_blocker", "biquad", "dynamics", "oscillator", "noise", "dither", "gain",
   "scale", "dc_offset", "custom"}

(* A kernel of the user's own: one that does not look at its budget, and whose typed     *)
(* parameters need not be as many as it declares.                                        *)

CustomSize == 2

CustomNew(typed, params) == [typed |-> typed, params |-> params, buffer |-> 0]

CustomPrepared(k, spec) == [k EXCEPT !.buffer = CustomSize * spec.channels]

-----------------------------------------------------------------------------
(* The kernels a host may have. *)

Default(k, i) == k.params[i].default

DynamicsSettings(k) ==
  [curve |-> k.curve, threshold_db |-> Default(k, 1), ratio |-> Default(k, 2),
   makeup_db |-> Last(k.params).default, range_db |-> Last(k.params).default,
   attack_ms |-> k.attack_ms, release_ms |-> k.release_ms, use_sidechain |-> k.use_sidechain]

\* A kernel as its constructor leaves it.
Constructed(kind_, k) ==
  CASE kind_ = "average" -> k.taps \in Nat /\ k = AverageNew(k.taps)
    [] kind_ = "dc_blocker" -> k = DcNew([cutoff_hz |-> Default(k, 1)])
    [] kind_ = "biquad" ->
         /\ k.kind \in BiquadShapes
         /\ k = BiquadNew([kind |-> k.kind, cutoff_hz |-> Default(k, 1), q |-> Default(k, 2),
                           gain_db |-> Default(k, 3)])
    [] kind_ = "dynamics" ->
         /\ k.curve \in {"compressor", "gate", "expander"} /\ k.use_sidechain \in BOOLEAN
         /\ {k.attack_ms, k.release_ms} \subseteq Int \cup {NotFinite}
         /\ k = DynamicsNew(DynamicsSettings(k))
    [] kind_ = "oscillator" ->
         /\ k.waveform \in {"Sine", "Saw", "Square"}
         /\ k = OscillatorNew([waveform |-> k.waveform, frequency_hz |-> Default(k, 1),
                               amplitude |-> Default(k, 2)])
    [] kind_ = "noise" -> k = NoiseNew([amplitude |-> Default(k, 1), seed |-> k.seed])
    [] kind_ = "dither" -> k.bits \in Nat /\ k = DitherNew([bits |-> k.bits, seed |-> k.seed])
    [] kind_ = "gain" -> k = GainNew([gain_db |-> Default(k, 1)])
    [] kind_ = "scale" -> k = ScaleNew(k.factor)
    [] kind_ = "dc_offset" -> \/ k = Broadcast(k.offsets[1])
                              \/ Len(k.offsets) \in Nat /\ k = PerChannel(k.offsets)
    [] kind_ = "custom" -> Len(k.params) \in Nat /\ k = CustomNew(k.typed, k.params)

\* Declared parameters have numbers for bounds.  Of the logarithm the valid ones need what
\* they are mapped by.
Declared(params) ==
  \A i \in DOMAIN params :
    LET param == params[i]
    IN  /\ {param.lo, param.hi} \subseteq Int \cup {NotFinite}
        /\ param.value_scale \in {"Linear", "Logarithmic"}
        /\ ValidParam(param, i - 1) /\ param.value_scale = "Logarithmic" =>
             {param.lo, param.default, param.hi} \subseteq DOMAIN Ln

\* A valid time makes an envelope that moves, whatever the rate.
Moving(k, rate) ==
  \A ms \in {k.attack_ms, k.release_ms} \cap Nat : OnePoleCoeff(ms, rate) \in Nat \ {0}

\* The levels up to a sample's have a logarithm.
Heeded(x) == 1..Magnitude(x) \subseteq DOMAIN Ln

CONSTANTS
  Kernels,        \* [kind, kernel]: the kernels as they were constructed
  Specs,          \* [sample_rate, channels, max_block, max_memory] of prepares, by kind
  SmootherSize,   \* bytes of a parameter's smoother
  Values,         \* by kind, for each parameter: values that a run is rendered with
  Samples,        \* by kind: samples of the input
  Roundings,      \* what an average's addition may round away, of the unit of magnitude 1
  Rooms,          \* frames a call of flush has room for
  MaxChannels,    \* bound: channels of a processor that is used
  MaxFrames,      \* bound, by kind: frames rendered and drained before a block
  MaxKept         \* bound: frames rendered and drained when a prepare is asked for

\* What a constructor gives a kernel of each kind, and what a host may ask for.
ASSUME HostAssumption ==
  /\ SmootherSize \in Nat /\ MaxChannels \in Nat
  /\ Roundings \subseteq -1..1 /\ Rooms \subseteq Nat
  /\ \A k \in Kernels :
       /\ k.kind \in KernelKinds /\ Constructed(k.kind, k.kernel) /\ MaxFrames[k.kind] \in Nat
       /\ "params" \in DOMAIN k.kernel => Declared(k.kernel.params)
       /\ Samples[k.kind] \subseteq Int \cup {NotFinite}
       /\ \A spec \in Specs[k.kind] :
            /\ {spec.sample_rate, spec.channels, spec.max_block} \subseteq Nat
            /\ spec.max_memory \in 0..NoCap
            /\ k.kind = "dynamics" /\ spec.sample_rate > 0 => Moving(k.kernel, spec.sample_rate)
       /\ k.kind = "dynamics" => /\ \A x \in Samples[k.kind] : Finite(x) => Heeded(x)
                                /\ -80..0 \subseteq DOMAIN DbToLin
       /\ k.kind = "dither" =>
            \A c \in 1..MaxChannels, n \in 0..(2 * MaxFrames[k.kind] - 1) :
              Draw(ChannelSeed(k.kernel.seed, c), n) \in 0..(DrawParts - 1)

VARIABLES
  kind,      \* the kernel's type, which a processor keeps for life
  kernel, bank, prepared,
  asked,     \* history: the spec last asked for, and the answer
  answer,
  fed,       \* history: since the kernel's state was fresh, the samples by channel,
             \* the sidechain's, and the parameters; frames drained are silence
  out,       \* what the last call wrote
  given,     \* history: frames drained since the last input
  ended,     \* history: the drain has been reported done
  hot        \* history: the last input left the state above the headroom

history == <<fed, out, given, ended, hot>>
vars == <<kind, kernel, bank, prepared, asked, answer, history>>

Filters == {"dc_blocker", "biquad"}

-----------------------------------------------------------------------------
(* Kernel's methods, by kind. *)

ParamInfo == IF "params" \in DOMAIN kernel THEN kernel.params ELSE NoParams

TypedCount == IF kind = "custom" THEN kernel.typed ELSE Len(ParamInfo)

\* Kernel::prepare: what it answers.  It has changed nothing unless it says Ok.
KernelAnswer(spec, cap) ==
  CASE kind = "average" -> AverageAnswer(kernel, spec, cap)
    [] kind = "dc_blocker" -> DcAnswer(spec, cap)
    [] kind = "biquad" -> BiquadAnswer(spec, cap)
    [] kind = "dynamics" -> DynamicsAnswer(kernel, spec)
    [] kind = "oscillator" -> OscillatorAnswer(spec)
    [] kind = "noise" -> NoiseAnswer(spec, cap)
    [] kind = "dither" -> DitherAnswer(kernel, spec, cap)
    [] kind = "scale" -> ScaleAnswer(kernel)
    [] kind = "dc_offset" -> OffsetAnswer(kernel, spec, cap)
    [] kind \in {"gain", "custom"} -> "Ok"

KernelPrepared(spec) ==
  CASE kind = "average" -> AveragePrepared(kernel, spec)
    [] kind = "dc_blocker" -> DcPrepared(kernel, spec)
    [] kind = "biquad" -> BiquadPrepared(kernel, spec)
    [] kind = "dynamics" -> DynamicsPrepared(kernel, spec)
    [] kind = "oscillator" -> OscillatorPrepared(kernel, spec)
    [] kind = "noise" -> NoisePrepared(kernel, spec)
    [] kind = "dither" -> DitherPrepared(kernel, spec)
    [] kind = "custom" -> CustomPrepared(kernel, spec)
    [] OTHER -> kernel

KernelReset ==
  CASE kind = "average" -> AverageReset(kernel)
    [] kind = "dc_blocker" -> DcReset(kernel)
    [] kind = "biquad" -> BiquadReset(kernel)
    [] kind = "dynamics" -> DynamicsReset(kernel)
    [] kind = "oscillator" -> OscillatorReset(kernel)
    [] kind \in {"noise", "dither"} -> RngsReset(kernel)
    [] OTHER -> kernel

KernelRender(k, run, p, slip) ==
  CASE kind = "average" -> AverageRender(k, run, slip)
    [] kind = "dc_blocker" -> DcRender(k, run, p)
    [] kind = "biquad" -> BiquadRender(k, run, p)
    [] kind = "dynamics" -> DynamicsRender(k, run, p)
    [] kind = "oscillator" -> OscillatorRender(k, run, p)
    [] kind = "noise" -> NoiseRender(k, run, p)
    [] kind = "dither" -> DitherRender(k, run)
    [] kind = "gain" -> GainRender(k, run, p)
    [] kind = "scale" -> ScaleRender(k, run)
    [] kind = "dc_offset" -> OffsetRender(k, run)
    [] kind = "custom" -> [kernel |-> k, out |-> Input(run)]

\* The default: nothing to drain.
NoFlush == [kernel |-> kernel, out |-> Silence(prepared.channels, 0), frames |-> 0,
            done |-> TRUE]

KernelFlush(room, slip) ==
  CASE kind = "average" -> AverageFlush(kernel, room, slip)
    [] kind = "dc_blocker" -> DcFlush(kernel, room)
    [] kind = "biquad" -> BiquadFlush(kernel, room)
    [] OTHER -> NoFlush

DeclaredTail == CASE kind = "average" -> AverageTail(kernel)
                  [] kind \in Filters -> kernel.tail_bound
                  [] OTHER -> 0

IoMode ==
  CASE kind = "average" -> "Split"
    [] kind \in {"oscillator", "noise"} -> "OutputOnly"
    [] OTHER -> "InPlace"

SidechainInputs == IF kind = "dynamics" /\ kernel.use_sidechain THEN 1 ELSE 0

Footprint(k) ==
  CASE kind = "average" -> AverageFootprint(k)
    [] kind = "dc_blocker" -> DcFootprint(k)
    [] kind = "biquad" -> BiquadFootprint(k)
    [] kind \in {"noise", "dither"} -> RngFootprint(k)
    [] kind = "dc_offset" -> OffsetFootprint(k)
    [] kind = "custom" -> k.buffer
    [] OTHER -> 0

-----------------------------------------------------------------------------
(* The processor. *)

NotPrepared == [channels |-> 0, io_mode |-> "None", sidechain_inputs |-> 0, max_block |-> 0]
NoBank == [sample_rate |-> 0, smoothers |-> 0]
Unasked == [sample_rate |-> 0, channels |-> 0, max_block |-> 0, max_memory |-> 0]
Nothing(channels) ==
  [x |-> [c \in 1..channels |-> <<>>], sidechain |-> <<<<>>>>, p |-> <<>>]

\* with_sample_type: nothing is allocated before prepare.
Init ==
  /\ \E k \in Kernels : kind = k.kind /\ kernel = k.kernel
  /\ bank = NoBank /\ prepared = NotPrepared /\ asked = Unasked /\ answer = "Unasked"
  /\ fed = Nothing(0) /\ out = <<>> /\ given = 0 /\ ended = FALSE /\ hot = FALSE

BankLayout == Array(NewLayout, Len(ParamInfo), SmootherSize)

\* Mutated form of Remainder: the kernel may use all of the budget.
RemainderAll(cap) == cap

\* What the bank leaves for the kernel.
Remainder(cap) == IF cap = NoCap THEN NoCap ELSE cap - BankLayout.bytes

\* Mutated form of OverTotal: the bank is not counted.
OverTotalKernel(k, cap) == Footprint(k) > cap

OverTotal(k, cap) == cap # NoCap /\ Plus(Footprint(k), BankLayout.bytes) \notin 0..cap

Refuse(why) == answer' = why /\ prepared' = NotPrepared /\ UNCHANGED bank

Forget(channels) ==
  /\ fed' = Nothing(channels) /\ out' = <<>> /\ given' = 0 /\ ended' = FALSE /\ hot' = FALSE

\* Refused before the kernel is asked, or by the kernel.
PrepareRefused(why) == Refuse(why) /\ UNCHANGED <<kernel, history>>

\* The kernel has prepared itself; all that can fail now is the total.
PrepareKernel(spec) ==
  /\ kernel' = KernelPrepared(spec)
  /\ Forget(spec.channels)
  /\ IF OverTotal(kernel', spec.max_memory) THEN Refuse("OverBudget")
     ELSE /\ answer' = "Ok"
          /\ bank' = [sample_rate |-> spec.sample_rate, smoothers |-> Len(ParamInfo)]
          /\ prepared' = [channels |-> spec.channels, io_mode |-> IoMode,
                          sidechain_inputs |-> SidechainInputs, max_block |-> spec.max_block]

Prepare(spec) ==
  /\ Len(fed.p) <= MaxKept
  /\ asked' = spec
  /\ UNCHANGED kind
  /\ IF TypedCount # Len(ParamInfo) \/ ~ ValidParams(ParamInfo)
     THEN PrepareRefused("InvalidParam")
     ELSE LET forBank == Preflight(BankLayout, spec.max_memory)
              forKernel == KernelAnswer(spec, Remainder(spec.max_memory))
          IN  IF forBank # "Ok" THEN PrepareRefused(forBank)
              ELSE IF forKernel # "Ok" THEN PrepareRefused(forKernel)
              ELSE PrepareKernel(spec)

Reset ==
  /\ kernel' = KernelReset
  /\ Forget(Len(fed.x))
  /\ UNCHANGED <<kind, bank, prepared, asked, answer>>

\* The host keeps to the prepared geometry (debug_validate_geometry).
HonorsContract(ctx) ==
  /\ prepared # NotPrepared
  /\ ctx.frames <= prepared.max_block
  /\ ctx.main.mode = prepared.io_mode
  /\ Len(ctx.main.planes) = prepared.channels /\ Even(ctx.main.planes)
  /\ FramesOf(ctx.main.planes) = ctx.frames
  /\ ctx.main.mode = "Split" =>
       /\ Len(ctx.main.input) = prepared.channels /\ Even(ctx.main.input)
       /\ FramesOf(ctx.main.input) = ctx.frames
  /\ Len(ctx.sidechain) = prepared.sidechain_inputs
  /\ \A bus \in DOMAIN ctx.sidechain : FramesOf(ctx.sidechain[bus]) >= ctx.frames

\* One run of a block: it reads and writes its own frames only.
RenderRun(k, ctx, start, len, p, slip) ==
  LET r == KernelRender(k, Run(ctx, start, len), p, slip)
  IN  [kernel |-> r.kernel, ctx |-> [ctx EXCEPT !.main = Written(Run(ctx, start, len), r.out)]]

\* A block whose first cut frames are a run of their own.
RenderBlock(ctx, cut, p, q, slip) ==
  LET first == RenderRun(kernel, ctx, 0, cut, p, slip)
  IN  IF cut = ctx.frames THEN first
      ELSE RenderRun(first.kernel, first.ctx, cut, ctx.frames - cut, q, slip)

Joined(planes, more) == [c \in DOMAIN planes |-> planes[c] \o more[c]]

\* What is played to a generator is its own output: it hears silence.
HeardOf(ctx) ==
  CASE ctx.main.mode = "Split" -> ctx.main.input
    [] ctx.main.mode = "InPlace" -> ctx.main.planes
    [] ctx.main.mode = "OutputOnly" -> Silence(Len(ctx.main.planes), ctx.frames)

ProcessBlock(ctx, cut, p, q, slip) ==
  /\ HonorsContract(ctx)
  /\ Len(fed.p) + ctx.frames <= MaxFrames[kind]
  /\ LET r == RenderBlock(ctx, cut, p, q, slip)
     IN  kernel' = r.kernel /\ out' = r.ctx.main.planes
  /\ fed' = [x |-> Joined(fed.x, HeardOf(ctx)),
             sidechain |-> IF ctx.sidechain = <<>> THEN fed.sidechain
                           ELSE Joined(fed.sidechain, ctx.sidechain[1]),
             p |-> fed.p \o [i \in 1..ctx.frames |-> IF i <= cut THEN p ELSE q]]
  /\ given' = 0 /\ ended' = FALSE
  /\ hot' = (kind \in Filters /\ StatePeak(kernel'.state) > TailHeadroom)
  /\ UNCHANGED <<kind, bank, prepared, asked, answer>>

\* The parameters a drain goes on with: those last rendered with.
LastOf(ps) ==
  IF ps = <<>> THEN [i \in DOMAIN ParamInfo |-> ParamInfo[i].default] ELSE Last(ps)

Flush(room, slip) ==
  /\ prepared # NotPrepared
  /\ LET f == KernelFlush(room, slip)
     IN  /\ kernel' = f.kernel /\ out' = f.out
         /\ given' = given + f.frames
         /\ ended' = f.done
         /\ fed' = [fed EXCEPT !.x = Joined(@, Silence(prepared.channels, f.frames)),
                               !.p = @ \o [i \in 1..f.frames |-> LastOf(@)]]
  /\ UNCHANGED <<kind, bank, prepared, asked, answer, hot>>

-----------------------------------------------------------------------------
(* The host. *)

\* What the compensated sum rounds away in the frames of a call.
Slips == IF kind = "average" THEN Roundings ELSE {0}

\* The values a run may have: the bank keeps them in their ranges.
RunValues ==
  {p \in [DOMAIN ParamInfo -> UNION {Values[kind][i] : i \in DOMAIN Values[kind]}] :
     \A i \in DOMAIN ParamInfo :
       p[i] \in Values[kind][i] \cap (ParamInfo[i].lo)..(ParamInfo[i].hi)}

Planes(channels, frames) == [1..channels -> [1..frames -> Samples[kind]]]

\* The blocks a host has, in the shape the processor asks for.
Contexts(frames) ==
  LET main == CASE prepared.io_mode = "InPlace" ->
                     {InPlace(x) : x \in Planes(prepared.channels, frames)}
                [] prepared.io_mode = "Split" ->
                     {Split(x) : x \in Planes(prepared.channels, frames)}
                [] prepared.io_mode = "OutputOnly" ->
                     {OutputOnly(prepared.channels, frames)}
  IN  IF prepared.sidechain_inputs = 0 THEN main
      ELSE {WithSidechains(ctx, <<key>>) : ctx \in main, key \in Planes(1, frames)}

Process(ctx, p, q) ==
  \E slip \in Slips, cut \in 1..ctx.frames :
    (cut = ctx.frames => p = q) /\ ProcessBlock(ctx, cut, p, q, slip)

Usable == prepared.channels \in 1..MaxChannels

Drain == Usable /\ \E room \in Rooms, slip \in Slips : Flush(room, slip)

Next == \/ \E spec \in Specs[kind] : Prepare(spec)
        \/ Reset
        \/ /\ Usable
           /\ \E p, q \in RunValues, n \in 1..prepared.max_block :
                \E ctx \in Contexts(n) : Process(ctx, p, q)
        \/ Drain

Spec == Init /\ [][Next]_vars

-----------------------------------------------------------------------------
\* What kernels of each kind look like.
KernelOK ==
  CASE kind = "average" ->
         /\ kernel.ring_pos \in 0..AverageTail(kernel) /\ kernel.flushed \in 0..AverageTail(kernel)
         /\ kernel.rings \in [DOMAIN kernel.sums -> [0..(kernel.taps - 1) -> Int]]
    [] kind \in Filters -> kernel.flushed \in 0..kernel.tail_bound
    [] kind = "dynamics" -> kernel.env \in Nat
    [] kind = "oscillator" -> kernel.phase \in 0..(Cycle - 1)
    [] kind \in {"noise", "dither"} ->
         \A c \in DOMAIN kernel.rngs : kernel.rngs[c].seed = ChannelSeed(kernel.seed, c)
    [] OTHER -> TRUE

\* Every variable has a value of its kind: cursors stay in their rings, phases in a period.
TypeOK ==
  /\ KernelOK
  /\ asked \in Specs[kind] \cup {Unasked}
  /\ answer \in {"Unasked", "Ok", "InvalidParam", "UnsupportedSpec", "OverBudget"}
  /\ bank \in [sample_rate : Nat, smoothers : Nat]
  /\ prepared \in [channels : Nat, io_mode : {"None", "InPlace", "Split", "OutputOnly"},
                   sidechain_inputs : 0..1, max_block : Nat]
  /\ given \in Nat /\ ended \in BOOLEAN /\ hot \in BOOLEAN

\* The bytes that a spec takes of a kernel, counted without a bound.
KernelBytes(channels) ==
  CASE kind = "average" -> (kernel.taps + 2) * channels
    [] kind = "dc_blocker" -> 2 * channels
    [] kind = "biquad" -> 4 * channels
    [] kind \in {"noise", "dither"} -> channels
    [] kind = "dc_offset" -> IF kernel.broadcast THEN 0 ELSE channels
    [] kind = "custom" -> CustomSize * channels
    [] OTHER -> 0

\* The sizes of a kernel's buffers: an average has one for each channel, besides its sums and
\* their corrections.
Buffers(channels) ==
  CASE kind = "average" -> IF channels = 0 THEN {} ELSE {kernel.taps, channels}
    [] kind = "custom" -> {}
    [] OTHER -> {KernelBytes(channels)}

\* A spec the kernel can be run with, whatever memory there is.
Supported ==
  /\ TypedCount = Len(ParamInfo) /\ ValidParams(ParamInfo)
  /\ kind \in {"dc_blocker", "dynamics", "oscillator"} => asked.sample_rate >= 1
  /\ kind = "biquad" => asked.sample_rate >= 3
  /\ kind = "average" => kernel.taps >= 1
  /\ kind = "dither" => kernel.bits \in 2..24
  /\ kind = "dynamics" => {kernel.attack_ms, kernel.release_ms} \subseteq Nat
  /\ kind = "scale" => Finite(kernel.factor)
  /\ kind = "dc_offset" => /\ AllFinite(kernel.offsets)
                           /\ Len(kernel.offsets) = IF kernel.broadcast THEN 1 ELSE asked.channels

\* A spec is accepted just if the kernel supports it, what bank and kernel need together is
\* within the cap, or can be counted for each if there is none, and each buffer can be
\* addressed; and it is said to be over budget only when what it needs is indeed over a cap
\* (dsp/memory.rs, KernelProcessor::prepare).
BudgetExact ==
  LET forBank == Len(ParamInfo) * SmootherSize
      forKernel == KernelBytes(asked.channels)
      Fits == IF asked.max_memory # NoCap THEN forBank + forKernel <= asked.max_memory
              ELSE forBank <= MaxUsize /\ (kind # "custom" => forKernel <= MaxUsize)
  IN  answer # "Unasked" =>
        /\ answer = "Ok" <=> /\ Supported /\ Fits
                             /\ {forBank} \cup Buffers(asked.channels) \subseteq 0..MaxIsize
        /\ answer = "OverBudget" =>
             asked.max_memory # NoCap /\ forBank + forKernel > asked.max_memory

\* How many channels a kernel that keeps a state by channel has one for.
KernelChannels ==
  CASE kind = "average" -> Len(kernel.sums)
    [] kind \in Filters -> Len(kernel.state)
    [] kind \in {"noise", "dither"} -> Len(kernel.rngs)
    [] OTHER -> prepared.channels

\* A host can show each parameter on a unit scale and read it back: values map into the
\* interval, and from there to what the bank would make of them.
MappingsExact ==
  \A i \in DOMAIN ParamInfo :
    LET param == ParamInfo[i]
    IN  \A v \in {param.lo - 1, param.lo, param.default, param.hi, param.hi + 1} :
          LET n == Normalize(param, v)
          IN  /\ n[2] > 0 /\ n[1] \in 0..n[2]
              /\ Denormalize(param, n) = ClampTo(v, param.lo, param.hi)

\* A processor that counts as prepared is prepared throughout: kernel and bank are those of
\* the last spec, by rate and channels, what they hold is within its cap, whatever prepares
\* were refused before, and its parameters can be mapped and smoothed
\* (KernelProcessor::prepare, ParamInfo::normalize and denormalize).
PreparedWhole ==
  prepared # NotPrepared =>
    /\ answer = "Ok"
    /\ bank.sample_rate = asked.sample_rate
    /\ "fs" \in DOMAIN kernel => kernel.fs = asked.sample_rate
    /\ KernelChannels = asked.channels /\ prepared.channels = asked.channels
    /\ asked.max_memory # NoCap =>
         Footprint(kernel) + bank.smoothers * SmootherSize <= asked.max_memory
    /\ fed.p = <<>> /\ out = <<>> => MappingsExact

\* A refused prepare leaves the kernel's stream and the bank alone.  Only a kernel that has
\* no look at its budget is found out after it has replaced its state.
RefusalKept ==
  [][asked' # asked /\ answer' # "Ok" =>
       /\ UNCHANGED bank
       /\ kind # "custom" => UNCHANGED <<kernel, history>>]_vars

-----------------------------------------------------------------------------
(* What a kernel's state and its last call's output are of the whole history. *)

Fed == Len(fed.p)

X(c, n) == IF n < 1 THEN 0 ELSE FiniteOrZero(fed.x[c][n])

\* The frames of the history that the last call gave the output of.
Heard(c) == {<<i, Fed - Len(out[c]) + i>> : i \in 1..Len(out[c])}

\* Each sample that the last call gave is what is expected of its frame of the history.
OutIs(Expected(_, _)) == \A c \in DOMAIN out : \A h \in Heard(c) :
                           out[c][h[1]] = Expected(c, h[2])

\* The moving average's rings are the last inputs, those drained as silence included, and
\* its sums are no further from the rings' than what was rounded since they last wrapped,
\* however long the stream (filters/moving_average.rs, render and flush).
AverageExact ==
  kind = "average" =>
    LET taps == kernel.taps
        Recent(c, n) == MapThenSumSet(LAMBDA j : X(c, n - j), 0..(taps - 1))
    IN  \A c \in DOMAIN kernel.sums :
          /\ \A j \in 0..(taps - 1) :
               kernel.rings[c][(kernel.ring_pos + j) % taps] = X(c, Fed - taps + 1 + j)
          /\ Magnitude(kernel.sums[c] - Recent(c, Fed)) <= kernel.ring_pos
          /\ out # <<>> =>
               \A h \in Heard(c) : Magnitude(out[c][h[1]] - Recent(c, h[2])) <= taps - 1

\* The response to the whole history, each frame with the parameters of its run.
Response(c) ==
  LET y[n \in -1..Fed] ==
        IF n < 1 THEN 0
        ELSE IF kind = "dc_blocker"
             THEN X(c, n) - X(c, n - 1) + Quotient(Pole(fed.p[n][1], kernel.fs) * y[n - 1], Unit)
        ELSE LET k == RuntimeCoeffs(kernel, fed.p[n])
             IN  Quotient(k.b0 * X(c, n) + k.b1 * X(c, n - 1) + k.b2 * X(c, n - 2)
                            - k.a1 * y[n - 1] - k.a2 * y[n - 2], k.a0)
  IN  y

\* A recursive filter's output is its difference equation over the whole history, however it
\* was cut into runs, and a drain is what silence would have given with the parameters last
\* rendered with; those coefficients are stable, and the readout gives the same
\* (filters/biquad.rs and repair/dc_blocker.rs, render, flush and try_coeffs).
RecurrenceExact ==
  kind \in Filters /\ prepared # NotPrepared =>
    /\ kind = "biquad" => /\ kernel.flush_coeffs = TryCoeffs(kernel, LastOf(fed.p))
                          /\ IsStable(kernel.flush_coeffs)
    /\ \A c \in DOMAIN kernel.state :
         LET y == Response(c)
             s == kernel.state[c]
         IN  /\ s.y1 = y[Fed] /\ s.x1 = X(c, Fed)
             /\ kind = "biquad" => s.y2 = y[Fed - 1] /\ s.x2 = X(c, Fed - 1)
             /\ out # <<>> => \A h \in Heard(c) : out[c][h[1]] = y[h[2]]

\* All channels of a frame get one gain, the curve's at the envelope of all that the detector
\* has heard: the sidechain where there is one, else the input as it was before this run
\* overwrote it.  A compressor never lifts above its makeup, an expander never lifts, and a
\* gate does not close further than its range (dynamics/*.rs, render).
LinkedGain ==
  kind = "dynamics" /\ prepared # NotPrepared /\ out # <<>> =>
    LET heard == IF kernel.use_sidechain THEN fed.sidechain ELSE fed.x
        env[n \in 0..Fed] == IF n = 0 THEN 0 ELSE Follow(kernel, env[n - 1], Level(heard, n))
        GainAt(n) == Gain(kernel.curve, env[n], fed.p[n])
    IN  /\ OutIs(LAMBDA c, n : <<X(c, n), GainAt(n)>>)
        /\ \A n \in 1..Fed :
             LET g == GainAt(n)
             IN  /\ kernel.curve = "compressor" => g[1] <= g[2] * LnDb * fed.p[n][3]
                 /\ kernel.curve # "compressor" => g[1] <= 0
                 /\ kernel.curve = "gate" => g[1] >= LnDb * fed.p[n][3]

\* An oscillator's phase is the sum of all increments, wrapped, for every channel the same,
\* and no step's smoothing lifts the wave above its amplitude; a random kernel's channels
\* each take the same draws again after a reset, however the stream was cut, and dither is
\* off by less than a step and a half unless it clips (generators/sine.rs, poly_blep.rs,
\* noise.rs; mastering/dither.rs).
StreamsExact ==
  out # <<>> =>
    /\ kind = "oscillator" =>
         LET Phase(n) == MapThenSumSet(LAMBDA m : Increment(kernel, fed.p[m][1]), 1..(n - 1))
             WaveAt(n) == Wave(kernel.waveform, Phase(n) % Cycle, Increment(kernel, fed.p[n][1]))
         IN  /\ OutIs(LAMBDA c, n : <<fed.p[n][2], WaveAt(n)>>)
             /\ kernel.waveform # "Sine" =>
                  \A n \in 1..Fed : Magnitude(WaveAt(n).num) <= WaveAt(n).den
    /\ kind = "noise" =>
         OutIs(LAMBDA c, n : <<fed.p[n][1], Draw(ChannelSeed(kernel.seed, c), n - 1)>>)
    /\ kind = "dither" =>
         LET At(c, n) == Quantized(kernel.levels, X(c, n),
                                   Draw(ChannelSeed(kernel.seed, c), 2 * n - 2),
                                   Draw(ChannelSeed(kernel.seed, c), 2 * n - 1))
             top == kernel.levels - 1
         IN  /\ OutIs(At)
             /\ \A c \in DOMAIN out : \A h \in Heard(c) :
                  LET off == out[c][h[1]] * FullScale - X(c, h[2]) * kernel.levels
                  IN  \/ 2 * Magnitude(off) < 3 * FullScale
                      \/ off < 0 /\ out[c][h[1]] = top
                      \/ off > 0 /\ out[c][h[1]] = -kernel.levels

\* What a kernel gives is what its definition makes of the whole history.
RenderExact == AverageExact /\ RecurrenceExact /\ LinkedGain /\ StreamsExact

\* The state as the drain sees it.
Contract(n) == INSTANCE Drain WITH TailFrames <- n

\* Drains keep the contract of Processor::flush with the tail the kernel declares: at most
\* that many frames, nothing after done, a new drain with new input
\* (contract/traits.rs; the kernels' flush).
DrainKept ==
  /\ Contract(0)!Init
  /\ [][\E n \in {DeclaredTail} : Contract(n)!Next]_<<given, ended>>

\* What is left when a drain is done: of an average nothing, of a DC blocker whose input was
\* within the headroom a state below the floor, by the declared bound if not before it
\* (repair/dc_blocker.rs, prepare and flush; filters/moving_average.rs, tail).
TailCovers ==
  ended /\ ~ hot =>
    /\ kind = "average" =>
         \A c \in DOMAIN kernel.rings : \A i \in DOMAIN kernel.rings[c] \ {kernel.ring_pos} :
           kernel.rings[c][i] = 0
    /\ kind = "dc_blocker" => StatePeak(kernel.state) < TailFloor

-----------------------------------------------------------------------------
(* What the documentation promises of a biquad's drain. *)

\* Bound: frames of silence in which a finished drain is listened to.
AfterDrain == 16

\* The samples that channel c of a biquad would still give on silence.
Ringing(c) ==
  LET s[n \in 0..AfterDrain] ==
        IF n = 0 THEN kernel.state[c] ELSE BiquadStep(s[n - 1], 0, kernel.flush_coeffs)
  IN  {Magnitude(s[n].y1) : n \in 1..AfterDrain}

\* Signals inside the documented headroom end below the absolute floor before the drain
\* reports done (docs/src/core-contract.md, "Latency And Tail").
DrainDecayed ==
  kind = "biquad" /\ ended /\ ~ hot =>
    \A c \in DOMAIN kernel.state : \A y \in Ringing(c) : y < TailFloor
=============================================================================
