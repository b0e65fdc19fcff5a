---------------------------- MODULE SmootherBank ----------------------------
(***************************************************************************)
(* The public SmootherBank API as a custom driver may use it: targets,     *)
(* immediate writes, control steps and resets in any order.                *)
(***************************************************************************)
EXTENDS Smoothing

CONSTANT Values   \* values the owner writes, out-of-range ones included

ASSUME ValuesAssumption == Values \subseteq Int

VARIABLES
  smoothers,  \* the bank
  age         \* history: control steps since p's target last changed

bankVars == <<smoothers, age>>

BankTypeOK == /\ smoothers \in Bank
              /\ age \in [Param -> Nat]

BankInit == /\ smoothers = NewBank
            /\ age = [p \in Param |-> 0]

\* No property looks at ages past the longest deadline.
AgeCap(p) == CeilSteps(p) + 1

Write(p, v) ==
  /\ smoothers' = SetTarget(smoothers, p, v)
  /\ age' = [age EXCEPT ![p] = IF smoothers'[p].target = smoothers[p].target THEN @ ELSE 0]

WriteNow(p, v) ==
  /\ smoothers' = SetImmediate(smoothers, p, v)
  /\ age' = [age EXCEPT ![p] = IF smoothers'[p].target = smoothers[p].target THEN @ ELSE 0]

Step ==
  /\ smoothers' = StepBank(smoothers)
  /\ age' = [p \in Param |-> IF age[p] < AgeCap(p) THEN age[p] + 1 ELSE age[p]]

Reset ==
  /\ smoothers' = ResetBank(smoothers)
  /\ age' = [p \in Param |-> 0]

BankNext == \/ \E p \in Param, v \in Values \cup {NonFinite} :
                 Write(p, v) \/ WriteNow(p, v)
            \/ Step
            \/ Reset

BankSpec == BankInit /\ [][BankNext]_bankVars

-----------------------------------------------------------------------------
\* A settled smoother sits on its target.
Settled(p) == smoothers[p].cur = smoothers[p].target

\* x lies between a and b, whichever way the ramp goes.
Between(a, x, b) == (a <= x /\ x <= b) \/ (b <= x /\ x <= a)

\* Control steps within which each shape promises to arrive; a OnePole never does.
Deadline(p) == IF Info[p].shape = "Step" THEN 1 ELSE CeilSteps(p)

(***************************************************************************)
(* Without another target change every Linear and Exponential ramp is over *)
(* by the ceil(steps)-th control update, and a Step target by the first    *)
(* (param.rs, Smoothing): repeating the current target must not restart    *)
(* the countdown, and redirecting a ramp must.                             *)
(***************************************************************************)
RampDeadline ==
  \A p \in Param :
    Info[p].shape # "OnePole" /\ age[p] >= Deadline(p) => Settled(p)

(***************************************************************************)
(* Values and targets stay inside the declared range through any sequence  *)
(* of writes, redirected ramps and resets.                                 *)
(***************************************************************************)
InRange ==
  \A p \in Param : /\ Info[p].lo <= smoothers[p].cur    /\ smoothers[p].cur <= Info[p].hi
                   /\ Info[p].lo <= smoothers[p].target /\ smoothers[p].target <= Info[p].hi

(***************************************************************************)
(* A control update moves every parameter toward its target and never past *)
(* it: no shape overshoots, whatever ramp was cut short before.  Nothing   *)
(* in the Linear branch clips at the target; the countdown alone stops it. *)
(***************************************************************************)
NoOvershoot ==
  [][Step => \A p \in Param :
       Between(smoothers[p].cur, smoothers'[p].cur, smoothers[p].target)]_bankVars

(***************************************************************************)
(* The strengthening behind RampDeadline and NoOvershoot: an unsettled     *)
(* ramp has updates left, as many as its deadline allows, and the ones     *)
(* before the last do not carry it past the target.                        *)
(***************************************************************************)
RampOK(p, s, a) ==
  /\ s.left <= CeilSteps(p)
  /\ Info[p].shape \in {"Linear", "Exponential"} /\ s.cur # s.target =>
       s.left >= 1 /\ s.left + a <= CeilSteps(p)
  /\ Info[p].shape = "Linear" => (s.left - 1) * s.delta <= Dist(s.cur, s.target)
  /\ Info[p].shape = "Step" /\ s.cur # s.target => a = 0
=============================================================================
