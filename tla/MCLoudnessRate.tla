--------------------------- MODULE MCLoudnessRate ----------------------------
(***************************************************************************)
(* The integrated measure at a sample rate of which 100 ms are no whole    *)
(* number of frames: 47952 Hz, 48 kHz pulled down by one part in a         *)
(* thousand, and a history of forty minutes.                               *)
(***************************************************************************)
EXTENDS IntegratedHistory

Rate == 47952
MaxSeconds == 2400

RateBlock == FramesForMs(Rate, 400)
RateHop == FramesForMs(Rate, 100)
RateCapacity == IntegratedBlockCapacity(10 * MaxSeconds)

\* A second and ten seconds to the call.
RateCalls == {Rate, 10 * Rate}
RateTotal == Rate * (MaxSeconds + 20)

\* Until the programme has exceeded max_integrated_seconds, the meter does not
\* report an incomplete history (loudness.rs, lines 50-53).
DurationCovered == integrated_overflowed => total_frames > MaxSeconds * Rate
=============================================================================
