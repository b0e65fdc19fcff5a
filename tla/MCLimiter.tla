----------------------------- MODULE MCLimiter ------------------------------
(***************************************************************************)
(* A detector of three taps, a lookahead of four frames (an attack of two, *)
(* a wedge of five) and a stream of seven: windows slide, wrap and are     *)
(* drained in calls shorter and longer than the tail.                      *)
(***************************************************************************)
EXTENDS Limiter
=============================================================================
