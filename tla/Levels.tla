------------------------------- MODULE Levels --------------------------------
(***************************************************************************)
(* The kernels without a state: gain and scale (mastering/gain.rs and      *)
(* scale.rs) and DC offset (repair/dc_offset.rs).  A gain stays symbolic:  *)
(* its samples are <<sample, gain in decibels>>.                           *)
(***************************************************************************)
EXTENDS SubBlock, MemoryLayout

EachSample(run, Of(_, _)) ==
  LET in == Input(run) IN [c \in DOMAIN in |-> [i \in DOMAIN in[c] |->
                                                  Of(FiniteOrZero(in[c][i]), c)]]

GainSettings == [gain_db |-> 0]

GainParams(s) == <<NewParam(0, -96, 24, s.gain_db, "Db")>>

GainNew(s) == [params |-> GainParams(s)]

GainRender(k, run, p) ==
  [kernel |-> k, out |-> EachSample(run, LAMBDA x, c : <<x, p[1]>>)]

\* Scale::new
ScaleNew(factor) == [factor |-> factor]

ScaleAnswer(k) == IF Finite(k.factor) THEN "Ok" ELSE "InvalidParam"

ScaleRender(k, run) == [kernel |-> k, out |-> EachSample(run, LAMBDA x, c : x * k.factor)]

\* DcOffset::broadcast and per_channel.
Broadcast(offset) == [broadcast |-> TRUE, offsets |-> <<offset>>]
PerChannel(offsets) == [broadcast |-> FALSE, offsets |-> offsets]

AllFinite(values) == \A i \in DOMAIN values : Finite(values[i])

OffsetAnswer(k, spec, cap) ==
  IF ~ AllFinite(k.offsets) \/ (~ k.broadcast /\ Len(k.offsets) # spec.channels)
  THEN "InvalidParam"
  ELSE IF k.broadcast THEN "Ok"
  ELSE Preflight(Array(NewLayout, Len(k.offsets), 1), cap)

OffsetFootprint(k) == IF k.broadcast THEN 0 ELSE Len(k.offsets)

OffsetRender(k, run) ==
  [kernel |-> k,
   out |-> EachSample(run, LAMBDA x, c : x + k.offsets[IF k.broadcast THEN 1 ELSE c])]
=============================================================================
