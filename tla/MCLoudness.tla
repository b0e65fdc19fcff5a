----------------------------- MODULE MCLoudness ------------------------------
(***************************************************************************)
(* The loudness meter in miniature: an integrated block of three frames    *)
(* with a hop of two, a short-term window of four, room for two blocks.    *)
(***************************************************************************)
EXTENDS Loudness
=============================================================================
