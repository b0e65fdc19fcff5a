------------------------------ MODULE MCDelay -------------------------------
(***************************************************************************)
(* Control cells of three frames, taps of one to three frames in a ring of *)
(* four, two rounds of feedback, and a timeline of two cells: a fade may   *)
(* be cut by runs, meet the next target, and be drained.                   *)
(***************************************************************************)
EXTENDS Delay

\* A default, and times below and above the range of taps.
MCDefault == [tap |-> 2, feedback |-> 1]
MCParams == {MCDefault, [tap |-> 0, feedback |-> 1], [tap |-> 4, feedback |-> 0]}
=============================================================================
