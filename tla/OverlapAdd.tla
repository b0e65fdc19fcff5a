----------------------------- MODULE OverlapAdd ------------------------------
(***************************************************************************)
(* What a short-time Fourier filter promises (spectral/spectral_filter.rs, *)
(* module comment; docs/src/processor-catalog.md): windows of size samples *)
(* are taken every hop samples from the start of the input, each is        *)
(* filtered as a whole, and sample x of the result is the sum of what      *)
(* every window over x says of it.  It comes out exactly size frames after *)
(* x went in, whatever blocks the host uses; before that comes silence.    *)
(*                                                                         *)
(* A sample of the result is the set of <<n, window>>: sample n of a       *)
(* filtered window, which depends on all the input of that window.         *)
(***************************************************************************)
EXTENDS Integers, Sequences

CONSTANT size

VARIABLES
  hop,
  inputs,  \* the samples that went in; 0 is silence
  out      \* the sample that came out last

vars == <<hop, inputs, out>>

\* Filtered silence is silence.
Said(n, window) ==
  IF \A i \in DOMAIN window : window[i] = 0 THEN {} ELSE {<<n, window>>}

\* The window that starts at sample s, and those over sample x.
Window(s) == [i \in 0..(size - 1) |-> inputs[s + i + 1]]
Over(x) == {s \in 0..x : s % hop = 0 /\ x < s + size}

Sum(x) == UNION {Said(x - s, Window(s)) : s \in Over(x)}

Init == hop \in 1..size /\ inputs = <<>> /\ out = {}

Take(x) == /\ inputs' = Append(inputs, x)
           /\ out' = IF Len(inputs) < size THEN {} ELSE Sum(Len(inputs) - size)
           /\ UNCHANGED hop

Restart == inputs' = <<>> /\ out' = {} /\ UNCHANGED hop

\* Any sample may go in.
Next == (inputs' # <<>> /\ Take(inputs'[Len(inputs')])) \/ Restart

Spec == Init /\ [][Next]_vars
=============================================================================
