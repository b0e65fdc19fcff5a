---------------------------- MODULE MCBiquadDrain ----------------------------
(* One resonant low-pass, at its lowest cutoff and highest Q, drained frame by frame. *)
EXTENDS KernelProcessor

MCKernelSet ==
  {[kind |-> "biquad", kernel |-> BiquadNew([BiquadSettings EXCEPT !.cutoff_hz = 10, !.q = 160])]}

MCSpecs ==
  [k \in {"biquad"} |->
     {[sample_rate |-> 48000, channels |-> 1, max_block |-> 1, max_memory |-> NoCap]}]

MCValues == [k \in {"biquad"} |-> <<{10}, {160}, {0}>>]
MCSamples == [k \in {"biquad"} |-> {0, 64}]
MCMaxFrames == [k \in {"biquad"} |-> 2]

\* A slow rotation in parts of 32, at either end of the range of cutoffs.
MCCos == [h \in 0..49 |-> IF h < 25 THEN 31 ELSE -31]
MCSin == [h \in 0..49 |-> 8]
MCAmplitude == [g \in -24..24 |-> IF g < 24 THEN 32 ELSE 128]
MCRootOf == [g \in -24..24 |-> IF g < 24 THEN 32 ELSE 64]

\* The frames in which a pole pair at the root of 127 / 129 takes 64 to 8.
MCBiquadDecay == 8 :> 267

MCLn == 1 :> 0 @@ 10 :> 1 @@ 1000 :> 2 @@ 24000 :> 3
MCRadius == [h \in 0..49 |-> 1]
MCDbToLin == 0 :> 10
MCOnePole(ms, fs) == 2
MCDraw(seed, n) == 0
=============================================================================
