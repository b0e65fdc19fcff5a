--------------------------- MODULE StretchStream ----------------------------
(***************************************************************************)
(* What a time stretch promises (time/time_stretch.rs, struct TimeStretch; *)
(* docs/src/processor-catalog.md): the output is one sequence of frames    *)
(* fixed by the input and the ratio.  How much the host asks for in a      *)
(* call, how much the source gives in a pull and where the source runs dry *)
(* decide when frames come out, never which.  The stream ends after        *)
(* exactly length * HS / ha frames, rounded to the nearest.                *)
(*                                                                         *)
(* A frame is the set of <<n, i>> with input frame i under tap n of the    *)
(* window: the samples it mixes and their weights.                         *)
(***************************************************************************)
EXTENDS Integers, Sequences

CONSTANTS HS, MaxInput

W == 2 * HS

VARIABLES
  ha,       \* analysis hop
  length,   \* input frames
  played,   \* output frames delivered so far
  ended     \* the end of the output has been reported

vars == <<ha, length, played, ended>>

Total == (length * HS + ha \div 2) \div ha

\* Input frame i, the first and the last one held beyond the edges.
Held(i) == IF i < 0 THEN 0 ELSE IF i >= length THEN length - 1 ELSE i

\* Analysis window j is taken at j * ha - HS if that is before the end of the
\* input, and laid down at j * HS - HS.  At unity the input passes through.
Windows == {j \in 0..(length + HS) : j * ha - HS < length}

Taps(t) == {w \in Windows \X (0..(W - 1)) : w[1] * HS + w[2] - HS = t}

Grain(t) == IF ha = HS THEN {<<HS, t>>}
            ELSE {<<w[2], Held(w[1] * ha - HS + w[2])>> : w \in Taps(t)}

Init == /\ ha \in {h \in 1..W : HS <= 2 * h}
        /\ length \in 0..MaxInput
        /\ played = <<>>
        /\ ended = FALSE

Emit(n) ==
  /\ Len(played) + n <= Total
  /\ played' = played \o [i \in 1..n |-> Grain(Len(played) + i - 1)]
  /\ ended' \in BOOLEAN
  /\ ended => ended'
  /\ ended' => Len(played) + n = Total
  /\ UNCHANGED <<ha, length>>

Restart == /\ played' = <<>>
           /\ ended' = FALSE
           /\ UNCHANGED <<ha, length>>

Next == (\E n \in 0..Total : Emit(n)) \/ Restart

Spec == Init /\ [][Next]_vars
=============================================================================
