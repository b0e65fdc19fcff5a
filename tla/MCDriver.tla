------------------------------ MODULE MCDriver ------------------------------
(***************************************************************************)
(* A three-frame control grid and a timeline of seven frames: blocks of 0  *)
(* to 4 frames cross zero, one or two boundaries and may start on, before  *)
(* or after one.  A Linear and an Exponential parameter with fractional    *)
(* ramps make every misplaced step or latch visible in what is rendered.   *)
(***************************************************************************)
EXTENDS Driver

MCParam == {"lin", "exp"}
MCInfo ==
  [lin |-> [shape |-> "Linear", lo |-> 0, hi |-> 8, default |-> 1, num |-> 5, den |-> 2],
   exp |-> [shape |-> "Exponential", lo |-> 1, hi |-> 6, default |-> 2, num |-> 2, den |-> 1]]

Lin(f, v) == [at |-> f, param |-> "lin", value |-> v]
Exp(f, v) == [at |-> f, param |-> "exp", value |-> v]

\* A first target and a second one that redirects it or starts another ramp,
\* stamped on, before and after boundaries; and a schedule with unusable events.
MCScripts ==
  { <<Lin(f, 8), e>> : f \in 0..2, e \in { Lin(3, 0), Lin(4, 0), Exp(2, 5), Exp(5, 5) } }
  \cup { << Lin(1, NonFinite), Lin(1, 8), [at |-> 2, param |-> Unknown, value |-> 0] >> }

MCSeekTo == {2}
MCWritable == {4}
=============================================================================
