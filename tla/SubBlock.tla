------------------------------ MODULE SubBlock -------------------------------
(***************************************************************************)
(* Blocks of samples as a host hands them over (contract/block.rs), the    *)
(* context of a call (contract/context.rs, ProcessContext), and the run of *)
(* frames of it that a kernel renders (SubBlock).  A plane is a sequence   *)
(* of samples, a sample an integer or NotFinite; frames count from 0.      *)
(***************************************************************************)
EXTENDS Parameters, SequencesExt

Silence(channels, frames) == [c \in 1..channels |-> [i \in 1..frames |-> 0]]

\* AudioBlock::new: the first plane tells how many frames a block has.
FramesOf(planes) == IF planes = <<>> THEN 0 ELSE Len(planes[1])

Even(planes) == \A c \in DOMAIN planes : Len(planes[c]) = FramesOf(planes)

FiniteOrZero(x) == IF Finite(x) THEN x ELSE 0

Magnitude(x) == IF x < 0 THEN -x ELSE x

\* What is in an output before it is written.
Unwritten(channels, frames) == [c \in 1..channels |-> [i \in 1..frames |-> "unwritten"]]

-----------------------------------------------------------------------------
(* Io and ProcessContext: planes is what the processor writes, and for in-place processing *)
(* what it reads as well.                                                                  *)

\* from_io
FromIo(io) == [main |-> io, sidechain |-> <<>>, frames |-> FramesOf(io.planes)]

InPlace(planes) == FromIo([mode |-> "InPlace", planes |-> planes])

OutputOnly(channels, frames) ==
  FromIo([mode |-> "OutputOnly", planes |-> Unwritten(channels, frames)])

Split(input) == FromIo([mode |-> "Split", input |-> input,
                        planes |-> Unwritten(Len(input), FramesOf(input))])

WithSidechains(ctx, buses) == [ctx EXCEPT !.sidechain = buses]

-----------------------------------------------------------------------------
(* A run: len frames of a context's blocks from start on. *)

Run(ctx, start, len) ==
  [io |-> ctx.main, sc |-> ctx.sidechain, start |-> start, len |-> len]

Channels(run) == Len(run.io.planes)

\* The run's part of each plane.
Part(run, planes) ==
  [c \in DOMAIN planes |-> SubSeq(planes[c], run.start + 1, run.start + run.len)]

\* input and split_channel: what the block holds now, if it is processed in place.
Input(run) == Part(run, IF run.io.mode = "Split" THEN run.io.input ELSE run.io.planes)

Sidechain(run, bus) == Part(run, run.sc[bus])

\* channel_mut and output_mut: the block once the run's part of it has been written.
Written(run, planes) ==
  [run.io EXCEPT !.planes =
     [c \in DOMAIN @ |->
        [i \in DOMAIN @[c] |-> IF i - run.start \in 1..run.len THEN planes[c][i - run.start]
                               ELSE @[c][i]]]]
=============================================================================
