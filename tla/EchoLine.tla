------------------------------ MODULE EchoLine ------------------------------
(***************************************************************************)
(* What a delay line with a moving tap promises (time/delay.rs, struct     *)
(* Delay): frame n hears frame n - d of the line, d moves from one tap to  *)
(* another by a fade of Period frames, and a fade begins at the first grid *)
(* boundary at which the line is settled and another tap is wanted, or at  *)
(* the frame of a direct write.  There is no ring here, and there are no   *)
(* blocks: frames are taken one after another.                             *)
(***************************************************************************)
EXTENDS Integers, Sequences

CONSTANTS
  Period,   \* frames between two changes of the parameters, and of a crossfade
  MaxFlush, \* bound: frames the host asks for in a call of flush
  SeekTo,   \* positions the host seeks to
  MaxDelay, \* longest tap
  Params,   \* parameter values, as [tap, feedback] records
  Default   \* the one the processor starts with

VARIABLES
  pos,      \* the timeline
  count,    \* frames that went into the line since it was cleared
  line,     \* the fade: tap heard, tap left, frames of the fade done
  params,   \* current values
  fresh,    \* written directly since the last frame
  feedback, \* the last feedback rendered with
  echoes    \* what the frames of the last call heard

vars == <<pos, count, line, params, fresh, feedback, echoes>>

Settled(d) == [cur |-> d, prev |-> d, k |-> Period]

Tap(p) == CHOOSE d \in 1..MaxDelay : \A e \in 1..MaxDelay :
            (d - p.tap) * (d - p.tap) <= (e - p.tap) * (e - p.tap)

\* The fade with which a frame is played.  Only the first of a call may turn
\* to the tap d; a later one is passed 0.
Turn(l, d) == IF l.k = Period /\ d # 0 /\ d # l.cur THEN [cur |-> d, prev |-> l.cur, k |-> 0]
              ELSE l
Advance(l) == IF l.k + 1 >= Period THEN Settled(l.cur) ELSE [l EXCEPT !.k = @ + 1]

\* What frame n of the line hears; 0 is the silence before the first.
Heard(n, d) == IF n > d THEN n - d ELSE 0
Echo(n, l, fb) == [new |-> Heard(n, l.cur), old |-> IF l.k = Period THEN 0 ELSE Heard(n, l.prev),
                   cur |-> l.cur, prev |-> IF l.k = Period THEN 0 ELSE l.prev,
                   k |-> l.k, feedback |-> fb]

Init == /\ pos = 0 /\ count = 0
        /\ line = Settled(Tap(Default))
        /\ params = Default /\ fresh = FALSE
        /\ feedback = Default.feedback
        /\ echoes = <<>>

\* n frames go through the line, the first of them perhaps towards tap d.
Through(n, d, fb) ==
  LET after[i \in 0..n] ==
        IF i = 0 THEN line ELSE Advance(IF i = 1 THEN Turn(after[0], d) ELSE after[i - 1])
  IN  /\ count' = count + n
      /\ line' = after[n]
      /\ echoes' = [i \in 1..n |-> Echo(count + i, after[i], fb)]

Play(n) ==
  /\ pos' = pos + n
  /\ params' \in IF pos % Period = 0 THEN Params ELSE {params}
  /\ Through(n, IF pos % Period = 0 \/ fresh THEN Tap(params') ELSE 0, params'.feedback)
  /\ fresh' = FALSE
  /\ feedback' = params'.feedback

DrainOn(n) == /\ UNCHANGED <<pos, params, fresh, feedback>>
              /\ Through(n, 0, feedback)

WriteNow(p) == /\ params' = p /\ fresh' = TRUE
               /\ UNCHANGED <<pos, count, line, feedback, echoes>>

MoveTo(q) == /\ pos' = q /\ count' = 0
             /\ line' = Settled(Tap(Default))
             /\ params' = Default /\ fresh' = FALSE
             /\ feedback' = Default.feedback
             /\ echoes' = <<>>

Next == \/ \E n \in 1..Period : Play(n)
        \/ \E n \in 1..MaxFlush : DrainOn(n)
        \/ \E p \in Params : WriteNow(p)
        \/ \E q \in SeekTo \cup {0} : MoveTo(q)

Spec == Init /\ [][Next]_vars
=============================================================================
