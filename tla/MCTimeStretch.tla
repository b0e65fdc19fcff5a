--------------------------- MODULE MCTimeStretch ----------------------------
(***************************************************************************)
(* A window of six frames and an odd hop, so that hops 2 to 6 round the    *)
(* duration up and down (stretches 3/2 to 1/2, unity at 3).  Sources of    *)
(* none to ten frames end before, in and after the first windows; calls of *)
(* up to five frames take part of a hop, or more than one.  One source     *)
(* trickles, one gives half a window, one is free.                         *)
(***************************************************************************)
EXTENDS TimeStretch

MCCaps == {1, 4}
=============================================================================
