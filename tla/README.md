# Specifications of bisque

bisque is a library of deterministic, allocation-free audio processors. It has no
threads: a host owns a processor and calls it. What is hard about it is time that is
cut into pieces by somebody else. The host chooses the blocks, the positions of
parameter events, when input ends and how the drain after it is cut into calls; a source
chooses how much it gives. The library promises that none of this can be heard, and keeps
rings, counters and cached values between calls to make good on it. The modules here state
those promises and check the code's bookkeeping against them; the proofs carry the most
important ones to every value of the parameters.

Source paths below are relative to the repository's root; the crate is in `src/`.

## The parts of the system

| Part | State it keeps | Operations | Uses | What makes it correct |
| --- | --- | --- | --- | --- |
| smoother bank (`src/dsp/driver.rs`) | per parameter: current value, target, countdown, increment or ratio | `set_target`, `set_immediate`, `step`, `reset` | - | values in range; ramps arrive on time, never overshoot, are not restarted by repeats |
| block driver (`src/dsp/driver.rs`: `drive`, `latch_events`, `KernelProcessor`) | within a block: next event, pending grid cell, start of the run | `process`, `reset`, `flush`, `prepare` | bank, kernel | events take effect at the right boundary; each boundary steps once; output does not depend on blocks |
| prepared host (`src/host.rs`) | position on the timeline | `prepare`, `process`, `restart`, `seek`, `set_parameter_immediate`, `flush` | block driver | position and bank agree after any sequence of calls |
| time stretch (`src/time/time_stretch.rs`) | analysis window, accumulator, output ring, counts of input and output | `process`, `reset` | a pull source | one output for every way of asking and supplying; exact duration; ends |
| pull sources (`src/contract/source.rs`) | read position, chunk cap | `pull`, `rewind` | - | every frame once, end reported |
| delay (`src/time/delay.rs`) | ring per channel, two taps and a fade between them, cached feedback, drained frames | `render`, `flush`, `reset` | block driver | hears the frame it means; fades click-free; the tail covers the decay |
| limiter (`src/mastering/limiter.rs`, `src/dsp/oversample.rs`) | detector taps, monotonic wedge, gain history and its non-unity count, envelope, delay line, drained frames | `render`, `flush`, `reset` | block driver | no sample leaves above a gain its peak required; nothing lost in the drain |
| spectral filter (`src/spectral/spectral_filter.rs`, `stft.rs`, `fft.rs`, `window.rs`) | analysis buffer, accumulator, output ring, drained frames | `process`, `flush`, `reset` | FFT | overlap-add of all windows, one window late, never dry |
| kernel preparation (`src/dsp/driver.rs`, `src/dsp/memory.rs`) | prepared contract, kernel, bank | `prepare`, `reset`, `process`, `flush` | layouts, parameters | nothing half prepared; the budget never exceeded; a refusal harms nothing |
| parameter declarations (`src/contract/param.rs`) | - | builders, validation, `normalize`, `denormalize` | - | what is accepted can be mapped and smoothed |
| processing contract (`src/contract/`) | - | blocks, contexts, runs, the contract of `flush` | - | a run reads and writes its own frames |
| moving average (`src/filters/moving_average.rs`) | ring and running sum per channel | `render`, `flush`, `reset` | - | sum equals ring however long the stream; drain empties it |
| biquad (`src/filters/biquad.rs`) | two inputs and two outputs per channel, coefficients for the drain | `render`, `flush`, `reset`, `try_coeffs` | - | the difference equation across runs and drains; stable everywhere |
| DC blocker and offset (`src/repair/`) | one input and one output per channel | `render`, `flush`, `reset` | - | drain covers the decay |
| dynamics (`src/dynamics/`) | an envelope | `render`, `reset` | - | one gain per frame, from the input before it is overwritten |
| gain, scale, dither (`src/mastering/`), generators (`src/generators/`) | a phase, or a random generator per channel | `render`, `reset` | - | continuous across runs, the same again after a reset |
| loudness meter (`src/analysis/loudness.rs`) | filters per channel, three rolling energies, integrated blocks up to a capacity | `prepare`, `observe`, `read`, `reset` | - | windows exact; blocks due on the hop grid; overflow reported |
| other meters (`src/analysis/`) | sums, a peak, rings | `prepare`, `observe`, `read`, `reset` | - | reading independent of blocks |
| STFT, FFT and windows (`src/spectral/`) | scratch buffers | forward, inverse | - | numerical |
| numeric helpers (`src/dsp/math.rs`, `sanitize.rs`, `rng.rs`) | - | - | - | numerical |
| `src/testing/`, `xtask/`, `benches/`, `examples/` | - | - | - | test fixtures and tooling |

How they interact. A `PreparedProcessor` owns a `KernelProcessor`, which owns a kernel and
a smoother bank. `process` reaches `drive`, which latches events into the bank, steps it
at every multiple of 32 frames of the absolute timeline and calls the kernel's `render`
with runs of constant parameters. `flush` goes straight to the kernel and moves neither the
timeline nor the bank. A variable-rate processor stands outside that: it is called for
output and pulls its input.

The behaviours that are hard to test are listed, each at its line, as `hazards` in
`PROJECT.json`: interplay of block cuts, grid, events and seeks; values recomputed or cached
across calls; rings that are written without a look at how full they are; ends of input that
are reported late; drains cut into calls of any size, abandoned, and followed by new input.

## The modules

Each component has a module of its own; where its promise can be said without its
mechanism, an abstract module says it and the component is checked to implement it under a
refinement mapping. `MC...` modules give the constants values for TLC. `..._proofs` modules
hold the proofs.

| Component | Module | Promise | Model | Proofs |
| --- | --- | --- | --- | --- |
| smoother bank | `Smoothing` (operators), `SmootherBank` | properties of `SmootherBank` | `MCSmootherBank` | `Driver_proofs` |
| block driver, prepared host | `Driver` (uses `Smoothing`) | `ControlTimeline` | `MCDriver` | `Driver_proofs` |
| time stretch and its source | `TimeStretch` | `StretchStream` | `MCTimeStretch` | `TimeStretch_proofs` |
| delay | `Delay` | `EchoLine` | `MCDelay` | `Delay_proofs` |
| limiter | `Limiter` | `Ceiling`, `Drain` | `MCLimiter` | `Limiter_proofs` |
| spectral filter | `SpectralFilter` | `OverlapAdd`, `Drain` | `MCSpectralFilter` | `SpectralFilter_proofs` |
| loudness meter | `Loudness`; its filters and `prepare` in `Meters` | `IntegratedHistory` | `MCLoudness`, `MCLoudnessRate`, `MCKernels` | `Loudness_proofs` |
| kernel preparation, processing contract | `MemoryLayout`, `Parameters`, `SubBlock` (operators), `KernelProcessor` | `Drain`, and properties of `KernelProcessor` | `MCKernels` | `Kernels_proofs`, `KernelHistory_proofs` |
| the simple kernels | `MovingAverage`, `RecursiveTail`, `DcBlocker`, `Biquad`, `Dynamics`, `Generators`, `Levels` (operators) | references inside `KernelProcessor` | `MCKernels`, `MCBiquadDrain` | `Kernels_proofs`, `KernelHistory_proofs` |
| the meters | `Meters` (operators), `Rack` | references inside `Rack` | `MCKernels` | - |

Some modules hold *mutated forms* of a definition, named as such in their comment: a
plausible mistake in the code the definition models. They are not part of any
specification; each is there to show that a property would notice.

### Smoothing and SmootherBank

`bank[p]` is one `Smoother`: `cur`, `target`, `left` for `updates_remaining`, and `delta` for
`step_delta` or, in the log domain, `coeff`. `SetTarget`, `SetImmediate`, `StepBank` and
`ResetBank` are the methods of the same names. Abstractions:

- Values are integers. `f64` rounds the quotient that becomes a ramp's increment. Here a
  Linear increment is rounded down and an Exponential one up, so that the code's two ways of
  arriving (the last update sets the target; `min`/`max` clip at it) both have work to do.
- An Exponential parameter is represented by its logarithm, so that multiplying by
  `coeff` is adding `delta`. The order of values, clamping and clipping are the same on both
  sides of the logarithm.
- A OnePole step covers `1/PoleDiv` of the distance, rounded down: it never arrives.

`age` is a history variable, the control steps since the target last changed.

### Driver and ControlTimeline

The loops of `drive` and `latch_events` are unrolled into actions: `Begin` (a call of
`process` up to the loop), `LatchEvent`/`LatchDone`, `StepGrid`/`StepDone`, `Render`,
`Return`. Between calls the host may `Restart`, `Seek` and `SetParameterImmediate`. The
kernel is opaque: `out` keeps the run it was handed. Events come from a script on the
absolute timeline, of which each block gets its share, with offsets, and perhaps some that lie beyond
its end (release builds skip those).

`ControlTimeline` has no blocks: each frame latches the targets stamped with it, steps the
bank if it is a multiple of `Period`, and is rendered with the values it then has. The
refinement maps the timeline's bank to the bank at the end of the last run (`mark`) with the
targets stamped inside that run latched (`InsideRun`), because the driver latches these only before
the next run. The mapping takes them from the script, not from the block's events: that the block was
given the right ones, and consumed them in time, is part of what the refinement shows.

### TimeStretch and StretchStream

The loop of `process` and the cases of `make_more` are actions, so that a pull may come back
short, empty or with the end of input between any two of them. A sample is the index of an
input frame; a slot of the accumulator is the set of `<<n, i>>` with input frame `i` under
tap `n`. `in_buf` and `in_valid` are one array (`Blank` where not valid), and `norm` is
what the taps of a slot add up to. The output ring is a sequence, which is right as long as
it never holds more than its `2W` slots: `FifoBound` says it never holds more than `W/2`. `W = 2 HS`
as the code asserts. `RingPull` is `RingSource`; `FreePull` is any source the trait allows, with underruns and
an end reported late. Saturation of the 64-bit counts at `u64::MAX` is not modelled.

`StretchStream` says what the output is, a function of the input and the ratio alone:
window `j` is read at `j*ha - HS`, laid down at `j*HS - HS`, extended at both edges, and
the output is cut at the rounded duration.

### Delay and EchoLine

A slot of the ring holds the number of the frame that wrote it, which tells what a tap
hears, and a level: how many more passes at the largest feedback bring it below
`TAIL_FLOOR`. `Passes` is `k_max()`. The code's bound assumes that what the ring retains stays within
`TAIL_HEADROOM`; so does the model (`Loudness` is at most `Passes`), hotter input being
documented as decaying by the same ratio only. Channels are all alike, feedback is none or
the largest, and `mix`, which is cached and used exactly as feedback is, is left out, as is
`flush` before `prepare`. One action is one call of `render` (a fixed-parameter run that
ends at the next boundary or before) or of `flush`. The bank is reduced to the values the kernel is
handed: they change at boundaries, by a direct write, and by a reset.

`EchoLine` has neither ring nor runs: frame `n` hears frame `n - d`; a fade to a wanted tap
begins at a grid boundary or with a direct write, when the line is settled.

### Limiter, Ceiling and Drain

One action is one frame of `render`; a run is several of them, and nothing happens between
its frames (the code computes a run's gains first and applies them after, to the same
effect, since the delay line plays no part in the gains). A drain is `Flush`, `FlushFrame`
and `FlushReturn`, with the drained count updated at the end as in the code. Gains are
`0..Unity`. What the detector requires of a frame is any gain in `Required` if any of its
taps is not silent, else unity: threshold, margin, peak and the cached `flush_thresh`
together. The Hann convolution may give anything between the least and the
largest gain of its history, or a rounding less; the release anything between the envelope
and the convolution. Channels are linked and stand for one.

`Ceiling` says what a lookahead limiter owes: samples leave in order, `look` frames
after they came, at no more than the least gain reported while they were in the detector.
`Drain` is the contract of `flush` for a finite tail.

Not modelled: the quotient that normalises the Hann weights may make their sum round
above one, so the gain may exceed a report by an ulp.

### SpectralFilter and OverlapAdd

One action is one frame of `process`, or a step of `flush` as in `Limiter`. Samples are frame
numbers, 0 for silence. What transform, cut and windows make of sample `n` of a window is
the uninterpreted `<<n, window>>`, and nothing if the window is silent. `OverlapAdd` writes
the result down from the whole input.

### Loudness and IntegratedHistory

One action is one frame of `observe`. A frame is the energy that K-weighting and channel
weights leave of it, a whole number; how it comes about is in `Meters`. The loudness of a window
is a monotone function of its average, so averages are compared, by their sums. `sum` stands for `sum`
plus `compensation`: what a compensated sum still rounds away is a *slip* of one unit either
way, chosen at every update that adds or takes something. The recomputation from the ring,
every window's length of updates, is exact. The momentary window and that of the integrated
measure have the same length and see the same frames, and so the same slips. `heard`, the
frames since the last reset, is a history variable.

`IntegratedHistory` is the schedule alone: after a call of any number of frames, how many
blocks were due, how many are kept, and whether one was dropped. It also has the arithmetic
by which `prepare` arrives at frames and at the capacity.

### KernelProcessor and what it is made of

`KernelProcessor` is the wrapper around a kernel and its bank, with each of the crate's simple
kernels in it in turn. One action is one call: `Prepare`, `Reset`, `Process` of a block, `Flush`. How
a block is cut and which smoothed values a run gets are the business of `Driver` and `SmootherBank`;
here a block is cut in two anywhere, and each run has any values the bank could give it.
`prepare` goes through the code's refusals in their order: declarations, the bank's
budget, the kernel's own answer to what remains, the total. `fed` is a history variable, the
samples and parameters since the kernel's state was fresh.

- `MemoryLayout` is `dsp/memory.rs`: `usize` sums that become `Uncounted` (`None`) when they do not
  fit, buffers above `isize::MAX`, and the three answers of `preflight`. Sizes are in words.
- `Parameters` is a declaration, its builders and its validation, and the map to the unit
  interval and back, with normalized values as fractions and logarithms from a table.
- `SubBlock` is `AudioBlock`, `ProcessContext` and the run a kernel sees: planes of samples, in
  place, split or written only, with a sidechain. A sample is an integer or `NotFinite`.
- A kernel is a record with a `New`, an `Answer` and a `Prepared`, a `Reset`, a `Render`, a
  `Flush` and a `Footprint`, named after it. The numbers are exact: sines, cosines, poles and
  amplitudes come from tables in parts of `Unit`, and what the code computes from them is computed.
  Where a recursion divides, it rounds toward zero, which also stands for the flushing of
  denormals. A moving average's `sums` stand for sum plus correction, and one addition may round
  away as much as `Roundings` says. Gains stay logarithms, as fractions. A sine is the phase it
  is computed of, a PolyBLEP sample an exact fraction, a random draw a fixed function of seed
  and count.
- A kernel of the user's own is there too (`custom`): one that allocates without a look at its
  budget and may declare other parameters than it has.

`Drain` is the contract of `flush` for a finite tail; every kernel's `flush` is checked against it.

### Meters and Rack

`Rack` is a host that prepares, resets and feeds a processor and all the meters together. A
refused meter keeps its state and is not used, as the geometry assertion asks. `observed` is, for
each meter, what it has heard since its state was fresh. `Reference` computes every reading
from that alone: sums over frames and channels, windows over the last frames, the interpolation
of the true peak as a convolution over the whole stream. The meters keep sums, rings with a
cursor, and delay lines.

The loudness meter is here up to the energies it hands to its windows: the refusals and the
footprint of `prepare`, explicit or inferred weights, and two filters per channel in the
transposed form (`BiquadState`), whose delays hold exact sums and whose output is rounded
toward zero. The reference is the plain difference equation of the two filters over the whole
stream. What the windows do with the energies is `Loudness`; here they are read off a sequence.

## What TLC checks

| Run | Shows | Bounds and why they are enough |
| --- | --- | --- |
| `smoother_bank` | `RampDeadline`, `NoOvershoot` under any writes, steps and resets | one parameter per shape, 5/2 control steps per smoothing time (a fractional last step), values that do not divide, one out of range. Smoothers do not interact, so states with two of them in motion are not explored further |
| `block_driver` | `GridExact`, `LatchExact`, `SplitInvariance`, `BlockReturns` | a grid of 3 frames, blocks of 0 to 4, a timeline of 7: blocks cross no, one or two boundaries and start on, before and after one; seek into a cell; two targets that redirect each other, unusable events, an event beyond the block |
| `time_stretch` | `FifoBound`, `DurationExact`, `OneOutput`, `StreamEnds` | window 6, every hop from 2 to 6 (rounding up and down, unity), inputs of 0 to 10 frames, calls of 0 to 5, sources that trickle, give half a window, or are free; one reset |
| `delay` | `ClickSafe` and `DrainedDry` with direct writes at any frame; `GridEchoExact` as long as they come on the grid | cells of 3, taps 1 to 3 in a ring of 4, two passes of feedback, a timeline of two cells, drains in calls of 2 and 3 (within, and to the end of, a fade), one restart or seek into the middle of the second cell |
| `delay_split` | `EchoExact` **violated** with direct writes inside a cell | as above, without drains |
| `limiter` | `WedgeMin`, `NonunityExact`, `Transparent`, `CeilingHeld`, `DrainKept` | detector of 3 taps, lookahead 4 (attack 2, wedge 5), 7 frames: more than the wedge and the delay line hold; drains in calls of 3 and 5 (less and more than the tail), one reset |
| `spectral_filter` | `NoUnderrun`, `OverlapExact`, `DrainKept` | window 4 with every hop, 13 frames: three windows and a drain; drain calls of 1, 3, 6 |
| `spectral_tail` | `TailCovered` **violated** | as above |
| `loudness` | `WindowsExact`, `BlocksExact`, `GateSound`, `ScheduleKept` | block 3, hop 2, short window 4, room for two blocks; 8 frames: every window wraps and is recomputed twice, and the third block overflows; energies silent, below and far above the gates; two slips; one reset |
| `loudness_rate` | `DurationCovered` **violated** | the abstract schedule at 47952 Hz and `max_integrated_seconds` 2400, the code's own arithmetic, in calls of one and ten seconds |
| `kernels` | `BudgetExact`, `PreparedWhole`, `RenderExact`, `TailCovers`, `MetersExact`, `RefusalKept`, `DrainKept` | 30 kernels of 11 kinds, sound and misconfigured; specs at and below the least rate, with caps at and next to what is needed, and channels whose bytes are more than a word of 5 bits or a buffer of 4 can count; blocks of 1 and 2 frames cut anywhere, up to 5 frames between prepares (2 where a kernel keeps no ring, 3 for a ring of 3); samples of both signs, beyond full scale, not finite; parameters at both ends and clamped; drains in calls of 1 and 4, shorter and longer than the tails |
| `biquad_drain` | `DrainDecayed` **violated** | a low-pass at its lowest cutoff and largest Q, drained a frame at a time, then listened to for 16 frames |

Every bound is a constant with a comment saying so: `MaxPos`, `MaxBlock`, `LookAhead`
(driver); `MaxInput`, `MaxNeed`, `MaxResets` (time stretch); `MaxPos`, `MaxMoves` (delay);
`MaxFrames`, `MaxResets` (limiter, spectral filter, loudness); `MaxSlips` (loudness);
`MaxTotal` (the loudness schedule); `AgeCap` (bank); `MaxFrames`, `MaxKept`, `MaxChannels`
(kernels: a prepare is asked for with at most `MaxKept` frames in the kernel, enough to find
them there afterwards); `AfterDrain` (biquad drain).
In the runs of the driver, the limiter, the spectral filter and the loudness meter the bound on
the timeline ends the behaviour, and the configuration says `CHECK_DEADLOCK FALSE`. In all
others deadlock is checked.

Fairness. A call runs to completion on the caller's thread, so the steps within a call are
weakly fair: `WF(Drive)`, `WF(Work)`. That a call returns (`BlockReturns`)
needs no more for the driver. That a stretched stream ends (`StreamEnds`), and with it that each
of its calls returns, needs a source that, asked again and again, sometimes gives or reports its
end, and a host that keeps asking for at least one frame. Both are strong fairness, stated in `FairSpec`; they are assumptions on code outside
the library.

### What the four violations show

`delay_split`. `render` decides at every run whether to begin a crossfade. Its comment says
"Runs are grid-anchored, so this decision is host-block-split invariant"
(`src/time/delay.rs`, lines 340-341). Runs begin at grid boundaries *and at block
starts*. With events alone that does not matter: a fade begins at a boundary and is over at
the next. After `set_parameter_immediate` in the middle of a cell a fade ends in the
middle of the next one, and a target that waited for it is taken up at the next run, wherever
the host happened to cut. `delay` shows that with writes on boundaries the
comment holds, and that with writes anywhere the fades are still free of clicks.

`spectral_tail`. `Tail::Frames(n)` means that at most `n` frames remain after the input
(`docs/src/core-contract.md`, line 170), and the filter declares one window. One window of drain completes
the delayed input. But a window from which bins were cut is not zero where its input was,
and the windows over the end of the input reach up to `size - 1` frames beyond it. These
frames are still in the accumulator and the ring when `flush` reports `done`; a host
that goes on with new input hears them there. With the default full band the transform is
the identity and there is nothing beyond the end.

`loudness_rate`. The meter documents that it reports an incomplete history when a programme
exceeds `max_integrated_seconds` (`src/analysis/loudness.rs`, lines 50-53). It reserves one
block per hop of 100 ms, but the hop is rounded to frames. At a rate that is no
multiple of ten the hop can be shorter than 100 ms: 4795 frames instead of 4795.2 at 47952 Hz. In
forty minutes the fifths of a frame add up to more than a hop, and the meter reports overflow shortly before the
programme has reached the duration it was prepared for. At the common rates the hop
is exact.

`biquad_drain`. "Signals inside the documented headroom end below the absolute floor before
the drain reports `done`" (`docs/src/core-contract.md`, lines 181-182). `flush` of the biquad takes
its end from the two last inputs and outputs, and looks at them at the end of a call. The
ringing of a slow, resonant pole pair is small in two consecutive samples whenever it crosses zero.
A host that drains in small calls is likely to stop there, at a zero crossing, with the larger part
of the ringing still to come; one that drains in large calls is not. The run shows it with a slow
rotation. With the code's formulas a low-pass at 10 Hz, Q 16 and 48 kHz, drained a frame at a time, stops
with 1e-3 to come, the floor being 1e-6. The DC blocker's early exit, by a state that only
decays, is safe: `TailCovers`.

## What is proved

TLAPS checks the following for every value of the constants that satisfies the modules'
named assumptions. Nothing is assumed beyond those.

- `Driver_proofs`, of the bank by itself (`BankSpec`): `BankTypeCorrect`, `RangeKept` (values stay in
  range), `DeadlineKept` (`RampDeadline`), `NeverPast` (`NoOvershoot`). Deadlines are not inductive: that
  a ramp arrives on time follows from how many updates are left, and that it does not overshoot from how
  far those carry it. `RampInv` adds both, and rests on two arithmetic facts (a quotient
  times one less than the rounded-up number of steps stays below the distance).
- `Driver_proofs`, of the driver: `TypeCorrect`, `GridStepsExact` (`GridExact`), `LatchedOnTime`
  (`LatchExact`), `RunsFitScratch` (no run crosses a cell). `GridExact` speaks of a driver at rest. The
  invariant `GridInv` says what `pending_cell` is at each point of the loop: while events are latched
  it counts the boundaries before the current frame, and after the step loop those up to it.
  `LatchInv` adds that a block's events are sorted, which the script's order gives.
  `BlocksInvisible` is the refinement `SplitInvariance`: for every schedule, grid and list of
  parameters, whatever the blocks, the driver plays the frame-by-frame timeline. Its invariant `BankInv`
  says what the bank holds at each point of the loop, in the timeline's terms: the bank of the last
  run with the targets that run has not seen, up to the event consumed last (`Held`), and stepped
  once if the step loop has passed a boundary. What is left is that targets latched
  interval by interval are those latched at once (`Compose`, of `SetTargets`, by induction on the
  schedule), because stamps order the schedule; that a target moves no value, so the rest of a run
  sounds like its first frame (`TargetsKeepValues`); and that no frame of a run but the first is on the
  grid (`RunFrames`).
- `TimeStretch_proofs`: `TypeCorrect`, `QueueBounded` (`FifoBound`), `DurationRight`
  (`DurationExact`, from its halves `DurationKept` and `DurationMet`), all from one inductive invariant:
  unless the input was empty, some number `h` of windows has been laid down (`AfterHops`),
  which fixes where the analysis stands, and that emitted and queued frames together
  are those `h` windows finish, cut at the duration once it is known.
  `StreamRight` is the refinement `OneOutput`: whatever the host asks for and the source gives, what
  comes out is the one stream that input and ratio fix. Its invariant `StreamInv` adds what the
  buffers hold after `h` windows (`Content`): a filled slot of the analysis buffer holds the input
  frame of its place, or the edge frame beyond either end, and the accumulator the second half of
  window `h - 1`. Just two windows reach an output frame (`GrainAt`), so the head of the accumulator
  after the next hop is that frame (`PushedStream`), and after the last one too, where the second
  window would start past the end. What is emitted and queued never exceeds the total, even before
  that is known (`QueueWithin`).
- `SpectralFilter_proofs`: `TypeCorrect`, `NeverDry` (`NoUnderrun`) and two refinements,
  `DrainsAsPromised` of `Drain` and `FiltersExactly` (`OverlapExact`) of `OverlapAdd`. The invariant is that
  the ring holds exactly as many samples as the analysis buffer still needs, so that a window
  fires when the ring has just become empty. `FilterInv` adds what is held: the buffer the samples
  from the start of the window that is filling, slot `i` of the accumulator what the windows before
  it say of sample `Start + i`, and the ring the finished sums, oldest first. Windows start at
  multiples of the hop, so those before this one are complete (`HeardKept`), none reaches past its end
  (`NoneBeyond`), and laying it down adds just what it says (`OneMore`).
- `Limiter_proofs`: `TypeCorrect`, `SlidingMinimum` (`WedgeMin`), `CountExact`
  (`NonunityExact`), `TransparentBelow` (`Transparent`), and the two refinements `DrainsAsPromised` of
  `Drain` and `CeilingKept` of `Ceiling`. The chain is that of the code.
  - `WedgeTight`: the live entries of the wedge are reports of frames in the window, later and
    larger from front to back, and each report of the window is dominated by an entry at least as
    late. The front is then the least of them. That entries are a frame apart has
    to be said too: only that keeps them to as many as the ring has slots.
  - `AttackCovers`: minimum `j` of the history bounds all reports of the `look + 1` frames it was taken over.
    The least gain the convolution can give, and with it the envelope, bounds every report
    that contributed to the sample now leaving only because the history is as long as the
    attack, and attack and wedge together reach over the lookahead.
  - `HistoryKept`: the cached count is the cardinality of the set it counts; `CleanMeans`: nothing
    reported since the reset means unity everywhere. Fast path and slow path agree on both.
  - For `Ceiling`, the cells of the delay line are the samples inside, oldest first, from the
    cursor on; this is `Inside` in the refinement mapping, and a frame rotates it (`Cells`).
- `Delay_proofs`: `TypeCorrect`, `TailCovers` (`DrainedDry`), `TapsMoveSoftly` (`ClickSafe`) and
  `EchoesOnGrid` (`GridEchoExact`, the refinement of `EchoLine` while direct writes keep to the grid).
  - `Framed`: the slot `i` frames before the cursor was written by frame `count - i`, or is blank.
  - `Decayed`: during a drain a level is lost with every pass over the ring. A slot written in frame
    `t` of the drain holds level `l` only if `t <= RingLen * (Passes - l)`. What is fed back was
    written at most `MaxDelay` frames before, less than a ring's length, through either tap of a
    crossfade.
  - `LastHeard` ties the last frame heard to the fade as it stands, which `ClickSafe` needs between
    calls. `GridKept` says that, with writes on the grid, a fade begun in a cell is over at its end, so
    that cutting the cell into runs finds no decision to make anew.
- `Loudness_proofs`: `TypeCorrect`, `WindowsRight` (the three windows hold the frames last heard,
  slot by slot, and are full exactly when enough were heard), `WindowsReadRight` (`WindowsExact`),
  `BlocksReadRight` (`BlocksExact`), `GatesRight` (`GateSound`) and `KeepsSchedule`, the refinement of
  `IntegratedHistory`. The invariant (`Inductive`) ties each ring's slots to the history by the
  cursor (`WindowsHold`), each window's sum to the sum of the frames it holds, up to the slips since the
  reset and exactly after a recomputation (`WindowsSum`), and the blocks kept to those due
  (`BlocksKept`). `GatesRight` holds of any history of block energies: a loudest block is not below
  the average, so the gate passes it, and what the gate takes away is below the average. It needs a gate
  of at least a factor two below the average (the code's is ten), because the gate is strict: at a factor
  of one it would shut out blocks that are all equal.

- `Kernels_proofs`: byte counts, coefficients, phases and refusals; the processor's verdicts, types,
  drains and what it holds when it is prepared.
  - `ArraysExact` and `PreflightExact`: what a layout says of its bytes is true of the true sum,
    cut off once, for any number of arrays, and `preflight` accepts just what fits and
    can be counted and addressed. Nothing wraps, whatever is multiplied.
  - `CoefficientsStable`: for every shape, every requested cutoff (however far out of range), Q, gain and
    every sample rate from 3 up, the coefficients of a run pass `is_stable`. The clamp keeps the cutoff
    at most 49.95 hundredths of the sample rate (`ShareBounded`), so the sine is positive and the
    cosine inside (-1, 1); each shape then is an inequality between products of positive numbers.
    It assumes of the tables just that, and that amplitudes are positive.
  - `PhaseKept`: an oscillator advances by at most half a period, so one subtraction wraps its phase.
  - `RefusalsHarmless` (`RefusalKept`): a refused `prepare` leaves kernel and bank as they were, for
    every kernel of the crate. The only danger is a kernel that prepares itself and is then found over
    the total. `NeverOver`: it cannot be, because a kernel asks `preflight` for at least what
    its footprint then is (`FootprintAsked`, kernel by kernel, by `ArraysExact`), within what the bank
    left it.
  - `BudgetsExact` (`BudgetExact`): the verdict of `prepare`, which asks for the bank, then the
    kernel, then counts the total, is the one that the two sums are due (`PrepareExact`). The proof
    showed that without a cap the bank's bytes and the kernel's are each counted, but never
    their sum; the property says so.
  - `KernelsTyped` (`TypeOK`), `DrainsKept` (`DrainKept`) and `PreparedThroughout` (`PreparedWhole`) come
    from one inductive invariant, `KernelInv`. Its parts: `Steady`, the kernel has the fields and the
    settings its constructor gave it; `Shaped`, for some number of channels its state has one entry
    for each, with cursors, phases, envelopes and drained frames in range; `Whole`, if the
    processor counts as prepared, that number, the sample rate and the bank are those of the last
    accepted spec; `DrainCounted`, the frames a drain has handed over are at most those the kernel has
    counted, and a drain that is done has counted the whole tail. Counted may be more than handed over: a
    filter whose state has decayed settles by jumping to the end.
  - A block keeps the shape only because what the kernel reads is samples (`Hears`). A run in place
    overwrites its frames before the next run reads, but only up to the cut (`NextHears`).
  - `PreparedThroughout` also needs that a map from a range onto [0, 1] has an inverse (`InnerMapped`),
    which is what a logarithm that strictly increases gives, and that the footprint of a kernel in shape
    is what its verdict was about (`FootprintShaped`).

  - Its last sections say what a fold makes of a history, frame by frame: a fold goes through its
    frames in order (`FoldWalks`); a run of an average and of a recursive filter, started in the state that
    a history has led to, hands out what is due and ends in the state that the longer history
    leads to (`AverageRenderRight`, `FilterRenderRight`); and what a kernel reads of a block, run by run,
    is what the host offers (`RunPlays`, `BlockOffers`, `DrainOffers`).

- `KernelHistory_proofs`: `HistoryHolds`, `RenderFollows` (`RenderExact`) and `DrainsDry` (`TailCovers`).
  - `RenderExact` is not inductive: it speaks of what was handed out last, and compares that with a
    recursion over all that was ever fed. The invariant `HistoryInv` says that there is a history of
    some number of frames and channels to which the kernel is true (`TrueTo`). The history is one that
    there can be (`Historic`): its planes are of one length, its parameters in their declared ranges
    (`Vetted`), and every level heard has a logarithm (`Audible`). The kernel's state is what
    its definition makes of the history (`Reflects`): rings and sums of an average, the
    two last samples of a difference equation, the envelope, the phase, how many numbers were drawn.
    What was handed out last is what is due for the last frames of it (`Wrote`).
  - For each kind of kernel a run keeps that, whatever its length (`DynamicsRenderRight`,
    `OscillatorRenderRight`, `NoiseRenderRight`, `DitherRenderRight` and the two above); so a block
    cut in two keeps it (`BlockRight`, where the second run reads what the first has left of a buffer used in
    place), and so does a drain (`DrainsRight`), which for an average and a filter is a run over silence with
    the parameters of the last frame.
  - Then `RenderExact` is read off, kind by kind. The invariant says of every
    function that satisfies the reference's recursion that the state is its last value (`EnvelopeAt`); that there
    is one, so that this says something, is a proof of its own (`AnswerExists`, `EnvelopeExists`). The dynamics' gain lies between
    its extremes because of the sign of every factor (`GainBounds`), a smoothed sawtooth or square
    never exceeds its amplitude because a step is smoothed by at most its height (`BlepBounds`), and a dithered sample is within a step and a half of its
    input by what rounding does to it (`QuantizedNear`).
  - `TailCovers`: an average's drain has replaced the whole ring by silence (`Quiet`). For the DC blocker
    `TailInv` says that `tail_bound` is that of the rate, and that the state after `f` frames of a drain is
    faint by `f` powers of the pole it drains at (`Fading`). That pole is at most the slowest,
    that of the lowest cutoff (`SlowestPole`), for which the bound was looked up, so that after
    that many frames the state is below the floor (`CalmDone`). Rounding toward zero helps: it
    never enlarges a product.

  What is assumed of kernels (`HostAssumption`) is what the constructors do and what the tables must hold:
  each kernel is what its `New` makes of some settings (a shape or waveform that there is), a valid attack or
  release time makes an envelope that moves, a declared range on a logarithmic scale has logarithms
  (`Declared`, `Moving`), every pole has decayed within `LongestDecay` frames
  (`DecayAssumption`), amplitudes are tabulated for all gains that can be asked for
  (`CoefficientAssumption`), and logarithms for all levels up to those of the samples (`Heeded`) and for the floor of
  envelopes (`BallisticsAssumption`). Draws are parts of the unit, and an addition rounds away at most a unit
  (`Roundings`). A value that is not finite is neither a number nor a fraction.

Induction. The library's induction theorems take a predicate as a parameter, and the provers
cannot instantiate one. Where an induction is unavoidable the modules state it for a set of numbers, from
the well-foundedness of the order on them (`NatInd`, `SubsetInd`): that is enough for minima, maxima,
cardinalities, functions defined by recursion on a count (`Iteration` in `Driver_proofs`) and the sums
over sets of frames that the loudness meter is specified by (`Sum...` in
`Loudness_proofs`). The simple kernels render by folds over the frames of a run, which the
community modules define by a recursive function on the subsets of the frames. That there is such a
function is proved too (`Recursion` in `Kernels_proofs`: one for subsets of at most n elements, by induction on n), and
then what holds of every step of a fold holds of its result (`AllTyped`).

Checked by TLC only: of the meters `MetersExact`, which compares the states of eight meters with
sums, windows and convolutions over all they were fed. Liveness (`BlockReturns`, `StreamEnds`) is
beyond the prover and stays with TLC. So are the four violations, which are claims about one instance.

## What is not modelled

- Floating point as such: transcendental functions, the rounding of every product, NaN inside
  the signal path (it is sanitised at every input, which is modelled). FFT, STFT and
  windows have little else; the spectral filter takes them as one function. Of the biquad's
  readouts only `try_coeffs` and `is_stable` are there; magnitude, phase and group delay are
  formulas without control.
- The limiter's normalised Hann weights may add up to an ulp above one.
- The byte budgets of the delay, the limiter, the spectral filter and the stretcher: their
  modules begin prepared.
- Several channels in the modules of these large processors, where all channels are treated alike and
  share one cursor. The simple kernels and the meters have two.
- Text conversion of parameter values, error texts.
- The timeline near `u64::MAX`: positions are unbounded here. `seek` can reach it, and there the
  additions in `drive` are unchecked.
- Debug assertions on host geometry, except that hosts are taken to satisfy them; memory safety
  (the crate forbids unsafe code).
- The crate's tests, fixtures and tooling.

A remark on the delay's tail: the documentation of `tail` speaks of about 270 passes at the largest
feedback (`src/time/delay.rs`, lines 173-174). `k_max` counts the decay from a headroom of 1e3,
which makes 405, and a test says so. The bound is the longer one, and safe; `Passes` is what the
code computes.

## Plan

1. (done) Smoother bank, driver, time stretch, delay, limiter, spectral filter, loudness meter,
   with the runs above and the proofs of all of them.
2. (done) Preparation under a byte budget, parameter declarations, the simple kernels, the drains of
   all of them against `Drain`, all meters; the proofs about layouts, coefficients, phases and refusals.
3. `prepare` of the four large processors as `Answer`s of `MemoryLayout`, with `FootprintAsked` for them.
4. The transform of `fft.rs` over a finite field, where butterflies and bit reversal are exact, against
   the sum that defines it.
5. Proofs: `MetersExact` of the rack, along the argument of `KernelHistory_proofs`.
