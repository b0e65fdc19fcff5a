--------------------------- MODULE MCSmootherBank ---------------------------
(***************************************************************************)
(* One parameter of each shape, with a smoothing time of 5/2 control steps *)
(* so that the last step of a ramp is a fraction, and values that do not   *)
(* divide evenly.                                                          *)
(***************************************************************************)
EXTENDS SmootherBank, FiniteSets

MCParam == {"lin", "exp", "pole", "jump"}

MCInfo ==
  [lin  |-> [shape |-> "Linear", lo |-> 0, hi |-> 8, default |-> 1, num |-> 5, den |-> 2],
   exp  |-> [shape |-> "Exponential", lo |-> 1, hi |-> 6, default |-> 1, num |-> 5, den |-> 2],
   pole |-> [shape |-> "OnePole", lo |-> 0, hi |-> 3, default |-> 0, num |-> 2, den |-> 1],
   jump |-> [shape |-> "Step", lo |-> 0, hi |-> 1, default |-> 0, num |-> 1, den |-> 1]]

MCValues == {0, 3, 5, 9}

(***************************************************************************)
(* Smoothers do not interact: StepBank and the writes treat each id alone. *)
(* A state in which two of them have left their initial value is checked   *)
(* and not explored further.                                               *)
(***************************************************************************)
OneInMotion == Cardinality({p \in Param : smoothers[p] # NewBank[p]}) <= 1
=============================================================================
