------------------------------ MODULE Ceiling -------------------------------
(***************************************************************************)
(* What a lookahead limiter promises (mastering/limiter.rs, struct Limiter *)
(* and step_env): samples leave in order, each exactly look frames after   *)
(* it came, at a gain no greater than any the detector reported while the  *)
(* sample was in its taps: with its own frame or the Reach that follow.    *)
(* A drain is silent input.                                                *)
(***************************************************************************)
EXTENDS Integers, Sequences

CONSTANTS
  look,   \* latency in frames
  Reach,  \* frames for which a sample stays in the detector
  Unity   \* gains are 0..Unity

VARIABLES
  pending, \* the samples inside, oldest first, and the least gain reported for each
  left     \* the sample that left last and the gain it left at

vars == <<pending, left>>

\* The silence before the first sample.
Silence == [sample |-> 0, need |-> Unity]

Init == /\ pending = [i \in 1..look |-> Silence]
        /\ left = [sample |-> 0, gain |-> Unity]

\* Every sample still in the detector needs the gain r.
Lowered(q, r) ==
  [i \in DOMAIN q |->
     IF i >= Len(q) - Reach /\ r < q[i].need THEN [q[i] EXCEPT !.need = r] ELSE q[i]]

Take(x, r) ==
  LET q == Lowered(Append(pending, [sample |-> x, need |-> Unity]), r)
  IN  /\ pending' = Tail(q)
      /\ left' \in [sample : {Head(q).sample}, gain : 0..Head(q).need]

Restart == pending' = [i \in 1..look |-> Silence] /\ left' = [sample |-> 0, gain |-> Unity]

\* Any sample may come in.
Next == (\E r \in 0..Unity : Take(pending'[look].sample, r)) \/ Restart

Spec == Init /\ [][Next]_vars
=============================================================================
