------------------------------ MODULE Dynamics -------------------------------
(***************************************************************************)
(* The dynamics processors (dynamics/shared.rs, compressor.rs, gate.rs,    *)
(* expander.rs): an envelope that follows the largest sample of a frame,   *)
(* and one gain per frame for all channels.                                *)
(*                                                                         *)
(* An output sample is <<sample, gain>>, and a gain the logarithm of what  *)
(* the sample is multiplied with, as a fraction <<n, d>>.  Rounding        *)
(* follows the envelope down.                                              *)
(***************************************************************************)
EXTENDS SubBlock, MemoryLayout

CONSTANTS
  OnePole(_, _),  \* one_pole_coeff: by time and sample rate, what part of its way the
                  \* envelope goes in a frame (its reciprocal)
  DbToLin,        \* db_to_lin of the thresholds in use
  LnDb            \* the logarithm of db_to_lin(1)

\* The least envelope that has a logarithm.
EnvFloor == 1

ASSUME BallisticsAssumption ==
  LnDb \in Nat /\ EnvFloor \in DOMAIN Ln /\ \A db \in DOMAIN DbToLin : DbToLin[db] \in DOMAIN Ln

CompressorSettings ==
  [curve |-> "compressor", threshold_db |-> -20, ratio |-> 4, attack_ms |-> 10,
   release_ms |-> 100, makeup_db |-> 0, use_sidechain |-> FALSE]
GateSettings ==
  [curve |-> "gate", threshold_db |-> -40, ratio |-> 4, range_db |-> -60, attack_ms |-> 1,
   release_ms |-> 100, use_sidechain |-> FALSE]
ExpanderSettings ==
  [curve |-> "expander", threshold_db |-> -40, ratio |-> 2, attack_ms |-> 5,
   release_ms |-> 80, use_sidechain |-> FALSE]

RatioParam(default) == NewParam(1, 1, 20, default, "Linear")

CompressorParams(s) ==
  <<NewParam(0, -60, 0, s.threshold_db, "Db"), RatioParam(s.ratio),
    NewParam(2, 0, 24, s.makeup_db, "Db")>>

GateParams(s) ==
  <<NewParam(0, -80, 0, s.threshold_db, "Db"), RatioParam(s.ratio),
    NewParam(2, -120, 0, s.range_db, "Db")>>

ExpanderParams(s) == <<NewParam(0, -80, 0, s.threshold_db, "Db"), RatioParam(s.ratio)>>

DynamicsParams(s) ==
  CASE s.curve = "compressor" -> CompressorParams(s)
    [] s.curve = "gate" -> GateParams(s)
    [] s.curve = "expander" -> ExpanderParams(s)

\* with_settings and DynamicsCore::new
DynamicsNew(s) ==
  [curve |-> s.curve, params |-> DynamicsParams(s), attack_ms |-> s.attack_ms,
   release_ms |-> s.release_ms, use_sidechain |-> s.use_sidechain, fs |-> 0,
   atk |-> 0, rel |-> 0, env |-> 0]

ValidTime(ms) == Finite(ms) /\ ms >= 0

DynamicsAnswer(k, spec) ==
  IF spec.sample_rate = 0 THEN "UnsupportedSpec"
  ELSE IF ~ ValidTime(k.attack_ms) \/ ~ ValidTime(k.release_ms) THEN "InvalidParam"
  ELSE "Ok"

\* A time of 0 takes the whole way at once.
OnePoleCoeff(ms, fs) == IF ms = 0 THEN 1 ELSE OnePole(ms, fs)

DynamicsPrepared(k, spec) ==
  [k EXCEPT !.fs = spec.sample_rate, !.atk = OnePoleCoeff(k.attack_ms, spec.sample_rate),
            !.rel = OnePoleCoeff(k.release_ms, spec.sample_rate), !.env = 0]

DynamicsReset(k) == [k EXCEPT !.env = 0]

-----------------------------------------------------------------------------
(* The gain curves; p is the threshold, the ratio and makeup or range. *)

\* How far the envelope is above the threshold.
Over(env, p) == Ln[Max({env, EnvFloor})] - Ln[DbToLin[p[1]]]

Ratio(p) == Max({p[2], 1})

CompressorGain(env, p) ==
  IF env <= DbToLin[p[1]] THEN <<LnDb * p[3], 1>>
  ELSE <<Ratio(p) * LnDb * p[3] - (Ratio(p) - 1) * Over(env, p), Ratio(p)>>

ExpanderGain(env, p) ==
  IF env >= DbToLin[p[1]] THEN <<0, 1>> ELSE <<(Ratio(p) - 1) * Over(env, p), 1>>

GateGain(env, p) ==
  IF env >= DbToLin[p[1]] THEN <<0, 1>>
  ELSE <<Max({(Ratio(p) - 1) * Over(env, p), LnDb * p[3]}), 1>>

Gain(curve, env, p) ==
  CASE curve = "compressor" -> CompressorGain(env, p)
    [] curve = "gate" -> GateGain(env, p)
    [] curve = "expander" -> ExpanderGain(env, p)

-----------------------------------------------------------------------------
(* A run. *)

Level(planes, i) == Max({0} \cup {Magnitude(FiniteOrZero(planes[c][i])) : c \in DOMAIN planes})

\* The next envelope: a coefficient of attack while the level rises, of release when not.
Follow(k, env, level) ==
  IF level > env THEN env + (level - env) \div k.atk
  ELSE env - (env - level + k.rel - 1) \div k.rel

\* What the envelope listens to: all channels of the sidechain's bus, or of the input.
Detector(k, run) ==
  IF k.use_sidechain /\ run.sc # <<>> THEN Sidechain(run, 1) ELSE Input(run)

\* The envelopes of a run: found for all of it before any of it is overwritten.
Envelopes(k, run) ==
  LET heard == Detector(k, run)
  IN  FoldLeft(LAMBDA st, i : LET env == Follow(k, st.env, Level(heard, i))
                              IN  [env |-> env, envs |-> Append(st.envs, env)],
               [env |-> k.env, envs |-> <<>>], [i \in 1..run.len |-> i])

DynamicsRender(k, run, p) ==
  LET found == Envelopes(k, run)
      in == Input(run)
  IN  [kernel |-> [k EXCEPT !.env = found.env],
       out |-> [c \in DOMAIN in |->
                  [i \in 1..run.len |->
                     <<FiniteOrZero(in[c][i]), Gain(k.curve, found.envs[i], p)>>]]]
=============================================================================
