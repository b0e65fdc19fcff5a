-------------------------- MODULE MCSpectralFilter ---------------------------
(***************************************************************************)
(* The spectral filter with a window of four samples and every hop.        *)
(***************************************************************************)
EXTENDS SpectralFilter
=============================================================================
