----------------------------- MODULE Smoothing -----------------------------
(***************************************************************************)
(* One parameter's smoother and the bank that holds one per declared       *)
(* parameter (struct Smoother and SmootherBank in dsp/driver.rs).          *)
(*                                                                         *)
(* Values are fixed-point integers.  The f64 quotient that sets a ramp's   *)
(* step is rounded by the hardware; here a Linear step is rounded down and *)
(* an Exponential one up, so that the Exponential clip at the target has   *)
(* work to do.  An Exponential parameter is represented by its logarithm:  *)
(* multiplying by the per-step ratio is adding the step, and min/max,      *)
(* clamping and equality are the same on both sides of a monotone map.     *)
(* A OnePole smoother covers 1/PoleDiv of the remaining distance a step,   *)
(* rounded down: it approaches the target and never lands on it.           *)
(***************************************************************************)
EXTENDS Integers, Sequences

CONSTANTS
  Param,      \* declared parameter ids
  Info,       \* Info[p]: the metadata the bank copies from ParamInfo
  PoleDiv,    \* a OnePole step covers 1/PoleDiv of the distance
  NonFinite   \* stands for NaN and the infinities

Shape == {"Step", "Linear", "OnePole", "Exponential"}

(***************************************************************************)
(* What validate_param_info and SmootherBank::new leave in a smoother:     *)
(* ordered range, default inside it, and num/den steps per smoothing time, *)
(* at least one.                                                           *)
(***************************************************************************)
InfoType == [shape : Shape, lo : Int, hi : Int, default : Int,
             num : Nat \ {0}, den : Nat \ {0}]

ASSUME InfoAssumption ==
  /\ Info \in [Param -> InfoType]
  /\ \A p \in Param : /\ Info[p].lo <= Info[p].default
                      /\ Info[p].default <= Info[p].hi
                      /\ Info[p].den <= Info[p].num
ASSUME PoleAssumption == PoleDiv \in Nat /\ PoleDiv >= 2
ASSUME NonFiniteAssumption == NonFinite \notin Int

\* cur and target as in the code, left = updates_remaining, and delta =
\* step_delta (Linear) or the logarithm of coeff (Exponential).
Smoother == [cur : Int, target : Int, left : Nat, delta : Nat]
Bank == [Param -> Smoother]

Clamp(p, v) == IF v < Info[p].lo THEN Info[p].lo
               ELSE IF v > Info[p].hi THEN Info[p].hi ELSE v

Dist(a, b) == IF a < b THEN b - a ELSE a - b

\* a moved by d in the direction of b (copysign in the code)
Toward(a, b, d) == IF a <= b THEN a + d ELSE a - d

CeilSteps(p) == (Info[p].num + Info[p].den - 1) \div Info[p].den

\* The ramp step latched with a new target.
LinearDelta(p, dist) == (dist * Info[p].den) \div Info[p].num
ExpDelta(p, dist) == (dist * Info[p].den + Info[p].num - 1) \div Info[p].num

NewBank == [p \in Param |->
  [cur |-> Info[p].default, target |-> Info[p].default, left |-> 0, delta |-> 0]]

-----------------------------------------------------------------------------
\* Mutated form of Retarget: a redirected Linear ramp keeps its old step.
RetargetStale(p, s, t) ==
  [cur |-> s.cur, target |-> t, left |-> CeilSteps(p),
   delta |-> IF s.left > 0 THEN s.delta ELSE LinearDelta(p, Dist(s.cur, t))]

(***************************************************************************)
(* set_target: unknown ids and non-finite values change nothing (the Err   *)
(* is dropped by latch_events); a target equal to the current target does  *)
(* not restart the ramp.                                                   *)
(***************************************************************************)
Retarget(p, s, t) ==
  IF Info[p].shape = "Linear"
  THEN [cur |-> s.cur, target |-> t, left |-> CeilSteps(p),
        delta |-> LinearDelta(p, Dist(s.cur, t))]
  ELSE IF Info[p].shape = "Exponential"
  THEN [cur |-> s.cur, target |-> t, left |-> CeilSteps(p),
        delta |-> ExpDelta(p, Dist(s.cur, t))]
  ELSE [s EXCEPT !.target = t]

\* Mutated form of SetTarget: restarts the ramp on every event.
SetTargetAlways(bank, p, v) ==
  IF p \in Param /\ v # NonFinite
  THEN [bank EXCEPT ![p] = Retarget(p, @, Clamp(p, v))]
  ELSE bank

SetTarget(bank, p, v) ==
  IF p \in Param /\ v # NonFinite
  THEN IF Clamp(p, v) = bank[p].target THEN bank
       ELSE [bank EXCEPT ![p] = Retarget(p, @, Clamp(p, v))]
  ELSE bank

\* The bank after the targets that es holds at the indices in S, in order.
SetTargets(bank, es, S) ==
  LET after[k \in 0..Len(es)] ==
        IF k = 0 THEN bank
        ELSE IF k \in S THEN SetTarget(after[k - 1], es[k].param, es[k].value)
        ELSE after[k - 1]
  IN  after[Len(es)]

\* Value and target at v, no ramp; step_delta and coeff keep their values.
At(s, v) == [cur |-> v, target |-> v, left |-> 0, delta |-> s.delta]

\* set_immediate: value and target jump together and the ramp is cancelled.
SetImmediate(bank, p, v) ==
  IF p \in Param /\ v # NonFinite
  THEN [bank EXCEPT ![p] = At(@, Clamp(p, v))]
  ELSE bank

-----------------------------------------------------------------------------
(***************************************************************************)
(* step: one control-rate update of one smoother, by shape.                *)
(***************************************************************************)
\* Mutated form of LinearStep: waits to arrive instead of counting down.
LinearStepDrift(s) ==
  IF s.cur = s.target THEN At(s, s.target)
  ELSE [s EXCEPT !.cur = Toward(s.cur, s.target, s.delta), !.left = s.left - 1]

LinearStep(s) ==
  IF s.cur = s.target \/ s.left <= 1 THEN At(s, s.target)
  ELSE [s EXCEPT !.cur = Toward(s.cur, s.target, s.delta), !.left = s.left - 1]

\* The ratio's step, clipped at the target (min and max in the code).
ExpMove(s) == IF s.delta >= Dist(s.cur, s.target) THEN s.target
              ELSE Toward(s.cur, s.target, s.delta)

ExpStep(s) ==
  IF s.cur = s.target \/ s.left <= 1 THEN At(s, s.target)
  ELSE [s EXCEPT !.cur = ExpMove(s), !.left = s.left - 1]

PoleStep(s) ==
  [s EXCEPT !.cur = Toward(s.cur, s.target, Dist(s.cur, s.target) \div PoleDiv)]

ShapeStep(p, s) ==
  IF Info[p].shape = "Linear" THEN LinearStep(s)
  ELSE IF Info[p].shape = "Exponential" THEN ExpStep(s)
  ELSE IF Info[p].shape = "OnePole" THEN PoleStep(s)
  ELSE [s EXCEPT !.cur = s.target]

StepOne(p, s) ==
  LET z == ShapeStep(p, s) IN [z EXCEPT !.cur = Clamp(p, z.cur)]

StepBank(bank) == [p \in Param |-> StepOne(p, bank[p])]

\* reset: back to the defaults, no ramps.
ResetBank(bank) == [p \in Param |-> At(bank[p], Info[p].default)]
=============================================================================
