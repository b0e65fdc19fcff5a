----------------------------- MODULE Parameters ------------------------------
(***************************************************************************)
(* Declared parameters (contract/param.rs): how a declaration is built,    *)
(* which declarations prepare accepts (validate_param_info), and the map   *)
(* between a parameter's values and the unit interval.                     *)
(*                                                                         *)
(* A value is an integer, or NotFinite; a normalized value is a fraction   *)
(* <<n, d>>, or NotFinite.                                                 *)
(***************************************************************************)
EXTENDS Integers, Sequences

CONSTANTS
  NotFinite,  \* NaN and the infinities
  Ln          \* the logarithm of the positive values in use, in some unit

ASSUME ParameterAssumption ==
  /\ NotFinite \notin Int /\ NotFinite \notin Int \X Int
  /\ DOMAIN Ln \subseteq Nat \ {0}
  /\ \A v, w \in DOMAIN Ln : Ln[v] \in Int /\ (v < w => Ln[v] < Ln[w])

Finite(v) == v # NotFinite

Units == {"Db", "Hz", "Ms", "Q", "Linear"}

\* Smoothing::default_for and ValueScale::default_for.
DefaultSmoothing(unit) == IF unit = "Hz" THEN "Exponential" ELSE "Linear"
DefaultScale(unit) == IF unit = "Hz" THEN "Logarithmic" ELSE "Linear"

\* ParamInfo::new.
NewParam(id, lo, hi, default, unit) ==
  [id |-> id, lo |-> lo, hi |-> hi, default |-> default, value_scale |-> DefaultScale(unit),
   smoothing |-> DefaultSmoothing(unit), smoothing_ms |-> 5]

WithSmoothing(param, smoothing) == [param EXCEPT !.smoothing = smoothing]
WithSmoothingMs(param, ms) == [param EXCEPT !.smoothing_ms = ms]

NoParams == <<>>

-----------------------------------------------------------------------------
\* What validate_param_info asks of the parameter declared at an index.
ValidParam(param, index) ==
  /\ param.id = index
  /\ Finite(param.lo) /\ Finite(param.hi) /\ param.lo <= param.hi
  /\ Finite(param.default) /\ param.default \in param.lo..param.hi
  /\ Finite(param.smoothing_ms) /\ param.smoothing_ms > 0
  /\ param.smoothing = "Exponential" => param.lo > 0
  /\ param.value_scale = "Logarithmic" => param.lo > 0

ValidParams(params) == \A i \in DOMAIN params : ValidParam(params[i], i - 1)

-----------------------------------------------------------------------------
ClampTo(v, lo, hi) == IF v < lo THEN lo ELSE IF v > hi THEN hi ELSE v

\* The values on the scale a range is mapped on, and a value's place between the ends.
OnScale(param) ==
  IF param.value_scale = "Linear" THEN param.lo..param.hi
  ELSE DOMAIN Ln \cap param.lo..param.hi

Place(param, v) == IF param.value_scale = "Linear" THEN v ELSE Ln[v]

\* ParamInfo::normalize.  The ends of the range are the ends of the interval.
Normalize(param, value) ==
  IF ~ Finite(value) THEN NotFinite
  ELSE LET v == ClampTo(value, param.lo, param.hi)
       IN  CASE v = param.lo -> <<0, 1>>
             [] v # param.lo /\ v = param.hi -> <<1, 1>>
             [] OTHER -> <<Place(param, v) - Place(param, param.lo),
                           Place(param, param.hi) - Place(param, param.lo)>>

\* ParamInfo::denormalize: the value at a fraction of the way, NotFinite if there is none.
Denormalize(param, normalized) ==
  IF normalized = NotFinite THEN NotFinite
  ELSE LET n == ClampTo(normalized[1], 0, normalized[2])
           d == normalized[2]
       IN  CASE n = 0 -> param.lo
             [] n = d -> param.hi
             [] OTHER ->
                  CHOOSE v \in OnScale(param) :
                    d * Place(param, v)
                      = (d - n) * Place(param, param.lo) + n * Place(param, param.hi)
=============================================================================
