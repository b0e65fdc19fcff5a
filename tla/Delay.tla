-------------------------------- MODULE Delay --------------------------------
(***************************************************************************)
(* The feedback delay (time/delay.rs) as the driver runs it: a ring per    *)
(* channel, all alike, a tap that fades to another one over a control      *)
(* cell, and a drain that ends when the ring has decayed or the declared   *)
(* tail has been given.                                                    *)
(*                                                                         *)
(* A ring slot holds the number of the frame that wrote it, to tell which  *)
(* frame a tap hears, and a level: how many passes at the largest feedback *)
(* take it below TAIL_FLOOR, Passes from TAIL_HEADROOM.  What a frame adds *)
(* to may have any level: sustained input stays within TAIL_HEADROOM.      *)
(* feedback is 0 or 1 for MAX_FEEDBACK; mix, cached with it, has no part.  *)
(***************************************************************************)
EXTENDS Integers, Sequences, FiniteSetsExt

CONSTANTS
  Period,        \* CR_STEP, and MAX_RUN_FRAMES
  MaxDelay,      \* ring length less one
  Passes,        \* k_max()
  Params,        \* parameter values: delay_ms in frames, and feedback
  Default,       \* the declared defaults
  MaxPos,        \* bound: where the timeline ends
  Offers,        \* frames the host offers a call of flush
  Loudness,      \* levels of what a run writes
  MaxMoves,      \* bound: restarts and seeks
  SeekTo         \* positions the host seeks to

ASSUME DelayAssumption ==
  /\ Period \in Nat \ {0} /\ MaxDelay \in Nat \ {0} /\ Passes \in Nat
  /\ MaxPos \in Nat /\ MaxMoves \in Nat /\ SeekTo \subseteq Nat
  /\ Offers \subseteq Nat \ {0} /\ Loudness \subseteq 0..Passes
  /\ Params \subseteq [tap : Nat, feedback : {0, 1}] /\ Default \in Params

XFADE_FRAMES == Period
RingLen == MaxDelay + 1
TailBound == (1 + Passes) * RingLen

VARIABLES
  sample_pos, moves,  \* the host's timeline
  params,             \* the smoothers' current values
  fresh,              \* history: written directly since the last run
  on_grid,            \* history: written directly only at boundaries since the last move
  ring, pos,          \* one channel's ring and the write position
  count,              \* history: frames written since the ring was cleared
  tap_cur, tap_prev, xfade_pos,
  flush_feedback, flushed,
  echoes              \* history: what the frames of the last run or flush heard

hostVars == <<sample_pos, moves, params, fresh, on_grid>>
fadeVars == <<tap_cur, tap_prev, xfade_pos>>
ringVars == <<ring, pos, count>>
vars == <<hostVars, ringVars, fadeVars, flush_feedback, flushed, echoes>>

Slots == 0..MaxDelay
Levels == 0..Passes
Silent == [p \in Slots |-> [frame |-> 0, level |-> 0]]

Smaller(a, b) == IF a <= b THEN a ELSE b

\* Mutated form of Clamped: only the upper end.
ClampedAbove(d) == Smaller(d, MaxDelay)

\* delay_ms rounded to frames and clamped.
Clamped(d) == IF d < 1 THEN 1 ELSE Smaller(d, MaxDelay)

Init ==
  /\ sample_pos = 0 /\ moves = 0 /\ params = Default /\ fresh = FALSE /\ on_grid = TRUE
  /\ ring = Silent /\ pos = 0 /\ count = 0
  /\ tap_cur = Clamped(Default.tap) /\ tap_prev = Clamped(Default.tap)
  /\ xfade_pos = XFADE_FRAMES
  /\ flush_feedback = Default.feedback
  /\ flushed = 0
  /\ echoes = <<>>

-----------------------------------------------------------------------------
\* Mutated form of ReadSlot: the ring wraps one slot early.
ReadSlotShort(p, d) == IF p >= d THEN p - d ELSE p + MaxDelay - d

\* The slot d frames behind the write position p.
ReadSlot(p, d) == IF p >= d THEN p - d ELSE p + RingLen - d

(***************************************************************************)
(* read_delayed with the taps f.cur and f.prev, k frames into the fade:    *)
(* what is heard, and its level, that of the louder tap.                   *)
(***************************************************************************)
ReadDelayed(r, p, f, k, fb) ==
  LET new == r[ReadSlot(p, f.cur)]
      old == r[ReadSlot(p, f.prev)]
      fading == k < XFADE_FRAMES
  IN  [echo |-> [new |-> new.frame, old |-> IF fading THEN old.frame ELSE 0,
                 cur |-> f.cur, prev |-> IF fading THEN f.prev ELSE 0,
                 k |-> Smaller(k, XFADE_FRAMES), feedback |-> fb],
       level |-> Max({new.level} \cup (IF fading THEN {old.level} ELSE {}))]

\* A frame fed back is one pass quieter.
FedBack(l, fb) == IF fb = 0 \/ l = 0 THEN 0 ELSE l - 1

\* fade_step of the i-th frame of a run.
Stepped(start, i) == start + i

(***************************************************************************)
(* The loop over n frames of render and of flush: what is heard, and the   *)
(* ring after it.  The fade is f at start; a frame is written at the level *)
(* write[l], l that of what it hears.                                      *)
(***************************************************************************)
Loop(n, f, start, fb, write) ==
  LET at(i) == (pos + i - 1) % RingLen
      heard(r, i) == ReadDelayed(r, at(i), f, Stepped(start, i), fb)
      after[i \in 0..n] ==
        IF i = 0 THEN ring
        ELSE [after[i - 1] EXCEPT ![at(i)] =
                [frame |-> count + i, level |-> write[heard(after[i - 1], i).level]]]
  IN  /\ ring' = after[n]
      /\ echoes' = [i \in 1..n |-> heard(after[i - 1], i).echo]
      /\ pos' = (pos + n) % RingLen
      /\ count' = count + n
      /\ xfade_pos' = Smaller(start + n, XFADE_FRAMES)

\* Mutated form of Turns: redirects a fade in flight.
TurnsEarly(d) == d # tap_cur

\* render begins a crossfade when settled and another tap is wanted.
Turns(d) == xfade_pos >= XFADE_FRAMES /\ d # tap_cur

\* The fade with which render plays a run that wants tap d.
Begun(d) == IF Turns(d) THEN [cur |-> d, prev |-> tap_cur]
            ELSE [cur |-> tap_cur, prev |-> tap_prev]

(***************************************************************************)
(* A fixed-parameter run of n frames: drive steps the smoothers if it      *)
(* starts on the control grid, then render.  Done is flushed = TailBound.  *)
(***************************************************************************)
Run(n) ==
  /\ sample_pos + n <= MaxPos
  /\ n <= Period - (sample_pos % Period)
  /\ params' \in IF sample_pos % Period = 0 THEN Params ELSE {params}
  /\ LET d == Clamped(params'.tap)
         f == Begun(d)
     IN  /\ tap_cur' = f.cur /\ tap_prev' = f.prev
         /\ \E l \in Loudness :
              Loop(n, f, IF Turns(d) THEN 0 ELSE xfade_pos, params'.feedback, [m \in Levels |-> l])
  /\ flush_feedback' = params'.feedback
  /\ flushed' = 0
  /\ sample_pos' = sample_pos + n
  /\ fresh' = FALSE /\ UNCHANGED on_grid
  /\ UNCHANGED moves

Quiet(r) == \A p \in Slots : r[p].level = 0

\* Mutated form of Over: trusts the bound less the last round of the ring.
OverShort == flushed >= Passes * RingLen - MaxDelay

\* The declared worst case has been given.
Over == flushed >= TailBound

\* flush when there is nothing left to give.
FlushNothing ==
  /\ Over \/ Quiet(ring)
  /\ flushed' = TailBound
  /\ UNCHANGED <<hostVars, ringVars, fadeVars, flush_feedback, echoes>>

\* flush of up to n frames: the recursion continues with silent input.
FlushSome(n) ==
  /\ ~ Over /\ ~ Quiet(ring)
  /\ LET want == Smaller(n, TailBound - flushed)
     IN  /\ Loop(want, [cur |-> tap_cur, prev |-> tap_prev], xfade_pos, flush_feedback,
                 [l \in Levels |-> FedBack(l, flush_feedback)])
         /\ flushed' = IF Quiet(ring') THEN TailBound ELSE flushed + want
  /\ UNCHANGED <<hostVars, tap_cur, tap_prev, flush_feedback>>

Flush(n) == FlushNothing \/ FlushSome(n)

-----------------------------------------------------------------------------
ResetFlushState ==
  /\ tap_cur' = Clamped(Default.tap) /\ tap_prev' = Clamped(Default.tap)
  /\ xfade_pos' = XFADE_FRAMES
  /\ flush_feedback' = Default.feedback
  /\ flushed' = 0

\* restart and seek.
MoveTo(q) ==
  /\ moves < MaxMoves /\ moves' = moves + 1
  /\ sample_pos' = q /\ params' = Default /\ fresh' = FALSE /\ on_grid' = TRUE
  /\ ring' = Silent /\ pos' = 0 /\ count' = 0
  /\ ResetFlushState
  /\ echoes' = <<>>

SetParameterImmediate(p) ==
  /\ params' = p /\ fresh' = TRUE
  /\ on_grid' = (on_grid /\ sample_pos % Period = 0)
  /\ UNCHANGED <<sample_pos, moves, ringVars, fadeVars, flush_feedback, flushed, echoes>>

Next == \/ \E n \in 1..Period : Run(n)
        \/ \E n \in Offers : Flush(n)
        \/ \E q \in SeekTo \cup {0} : MoveTo(q)
        \/ \E p \in Params : SetParameterImmediate(p)

Spec == Init /\ [][Next]_vars

-----------------------------------------------------------------------------
Echoes == [new : Nat, old : Nat, cur : 1..MaxDelay, prev : 0..MaxDelay,
           k : 1..XFADE_FRAMES, feedback : {0, 1}]

TypeOK ==
  /\ sample_pos \in Nat /\ moves \in 0..MaxMoves
  /\ params \in Params /\ fresh \in BOOLEAN /\ on_grid \in BOOLEAN
  /\ ring \in [Slots -> [frame : Nat, level : Levels]]
  /\ pos \in Slots /\ count \in Nat
  /\ tap_cur \in 1..MaxDelay /\ tap_prev \in 1..MaxDelay
  /\ xfade_pos \in 0..XFADE_FRAMES
  /\ flush_feedback \in {0, 1}
  /\ flushed \in 0..TailBound
  /\ echoes \in Seq(Echoes)

(***************************************************************************)
(* The delay is the echo line, however runs are cut and drains are called: *)
(* the ring always holds the frame the tap means, and when a fade begins   *)
(* does not depend on the host's blocks (the comment in render).           *)
(***************************************************************************)
Line == INSTANCE EchoLine WITH
  MaxFlush <- TailBound,
  pos <- sample_pos,
  line <- [cur |-> tap_cur,
           prev |-> IF xfade_pos = XFADE_FRAMES THEN tap_cur ELSE tap_prev,
           k |-> xfade_pos],
  feedback <- flush_feedback

EchoExact == Line!Spec

\* While the host writes directly only at boundaries: elsewhere it is not so.
GridEchoExact == Line!Init /\ [][on_grid' => Line!Next]_(Line!vars)

\* The weight of tap d in what a frame hears, in XFADE_FRAMES-ths.
Weight(e, d) == (IF d = e.cur THEN e.k ELSE 0)
                + (IF d = e.prev THEN XFADE_FRAMES - e.k ELSE 0)

(***************************************************************************)
(* A delay-time change is click-safe: from one frame to the next no tap's  *)
(* weight moves by more than 1/XFADE_FRAMES, across runs, changes of the   *)
(* target in mid-fade and into the drain (struct Delay).                   *)
(***************************************************************************)
ClickSafe ==
  [][ echoes # <<>> /\ echoes' # <<>> /\ count' > count =>
        LET heard == <<echoes[Len(echoes)]>> \o echoes'
        IN  \A i \in 1..(Len(heard) - 1), d \in 1..MaxDelay :
              Weight(heard[i + 1], d) - Weight(heard[i], d) \in -1..1 ]_vars

(***************************************************************************)
(* The declared tail covers the drain: flush is done, for good, only when  *)
(* the ring has decayed, whatever the fade and the taps were when the      *)
(* input ended, and new input starts anew (k_max, tail).                   *)
(***************************************************************************)
DrainedDry == flushed = TailBound => Quiet(ring)
=============================================================================
