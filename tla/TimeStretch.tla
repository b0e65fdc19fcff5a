---------------------------- MODULE TimeStretch -----------------------------
(***************************************************************************)
(* The overlap-add time stretcher (time/time_stretch.rs), the host that    *)
(* calls process for some frames at a time and the source it pulls.        *)
(*                                                                         *)
(* One action per decision of process's loop and make_more's, so that a    *)
(* call can run dry, or return, between any two of them.  A sample is the  *)
(* index of the input frame it holds; a slot of the accumulator, and an    *)
(* output frame, is the set of <<n, i>> with input frame i under tap n of  *)
(* the window.  in_buf and in_valid are one array here: Blank marks the    *)
(* slots that are not valid, and norm is what the taps of a slot add up to.*)
(***************************************************************************)
EXTENDS Integers, Sequences

CONSTANTS
  HS,         \* synthesis hop; the window is twice as long
  MaxInput,   \* bound: longest source
  MaxNeed,    \* bound: frames the host asks for in a call
  Caps,       \* chunk caps of RingSource
  MaxResets,  \* bound: times the host starts over
  AnySource,  \* instead of a cap: a source free to give what it likes
  Blank, None

ASSUME StretchAssumption ==
  /\ HS \in Nat \ {0} /\ MaxInput \in Nat /\ MaxNeed \in Nat /\ MaxResets \in Nat
  /\ Caps \subseteq Nat \ {0} /\ AnySource \notin Nat
  /\ Blank \notin Nat /\ None \notin Nat

W == 2 * HS

VARIABLES
  ha,            \* analysis hop
  cap,           \* RingSource::chunk_cap, or AnySource
  length, read,  \* frames of the source, frames pulled from it
  src_done,      \* the source has reported its end
  in_buf, in_fill, input_pulled, analysis_start,
  acc,
  fifo,          \* out_fifo from fifo_head on
  output_emitted, startup_drop, target_output,
  input_eof, tail_flushed,
  pc,            \* idle; in a call: more (the loop of process) or stop
  need,          \* frames still wanted in this call
  done,          \* Produced::done of the last call
  out,           \* history: frames delivered since the last reset
  resets         \* history: bounds the resets

srcVars == <<cap, length, read, src_done>>
inVars == <<in_buf, in_fill, input_pulled, input_eof>>
hopVars == <<analysis_start, acc, startup_drop>>
outVars == <<fifo, output_emitted, target_output>>
hostVars == <<done, out, resets>>
vars == <<ha, srcVars, inVars, hopVars, outVars, tail_flushed, pc, need, hostVars>>

Slots == 0..(W - 1)

\* prepare: ha = round(HS / stretch) for a stretch between 1/2 and 2.
Hops == {h \in 1..W : HS <= 2 * h}

\* What prepare and reset leave in an array.
NoWindow == [n \in Slots |-> Blank]
NoSums == [n \in Slots |-> {}]

Init ==
  /\ ha \in Hops
  /\ cap \in Caps \cup {AnySource}
  /\ length \in 0..MaxInput /\ read = 0 /\ src_done = FALSE
  /\ in_buf = NoWindow /\ in_fill = HS /\ input_pulled = 0 /\ input_eof = FALSE
  /\ analysis_start = -HS /\ acc = NoSums /\ startup_drop = HS
  /\ fifo = <<>> /\ output_emitted = 0 /\ target_output = None
  /\ tail_flushed = FALSE
  /\ pc = "idle" /\ need = 0 /\ done = FALSE /\ out = <<>> /\ resets = 0

-----------------------------------------------------------------------------
Smaller(a, b) == IF a <= b THEN a ELSE b

(***************************************************************************)
(* Source::pull of want frames.  RingSource gives as many as it has and    *)
(* its cap allows, and reports the end as soon as it has nothing left.     *)
(* Another source may give fewer, none at all (an underrun), and may       *)
(* report the end only when asked again.                                   *)
(***************************************************************************)
\* Mutated form of RingPull: does not look at what is left.
RingPullBlind(want) == {[frames |-> Smaller(want, cap), done |-> read + want >= length]}

RingPull(want) ==
  LET n == Smaller(want, Smaller(length - read, cap))
  IN  {[frames |-> n, done |-> read + n >= length]}

FreePull(want) ==
  {p \in [frames : 0..Smaller(want, length - read), done : BOOLEAN] :
     /\ p.done => read + p.frames = length
     /\ src_done => p.done}

Pull(want) == IF cap = AnySource THEN FreePull(want) ELSE RingPull(want)

Take(p) == /\ read' = read + p.frames
           /\ src_done' = p.done
           /\ UNCHANGED <<cap, length>>

RoundedOutputFrames(n) == (n * HS + ha \div 2) \div ha

\* Mutated form of Staged: leaves the room before the first frames blank.
StagedBare(got) ==
  [s \in Slots |-> IF in_fill <= s /\ s < in_fill + got THEN read + (s - in_fill)
                   ELSE in_buf[s]]

\* The window after got more frames: the first ones also fill the room before
\* them, so that the stream does not fade in.
Staged(got) ==
  [s \in Slots |->
     IF input_pulled = 0 /\ got > 0 /\ s < in_fill THEN read
     ELSE IF in_fill <= s /\ s < in_fill + got THEN read + (s - in_fill)
     ELSE in_buf[s]]

\* The window completed with the last input frame, so that it does not fade out.
Extended == [s \in Slots |-> IF s >= in_fill THEN read - 1 ELSE in_buf[s]]

\* The sums of the accumulator with one more window under the taps.
Overlapped(buf) ==
  [s \in Slots |-> IF buf[s] = Blank THEN acc[s] ELSE acc[s] \cup {<<s, buf[s]>>}]

\* Mutated form of PushFinalized: without the limit at the rounded duration.
PushFinalizedAll(a) ==
  LET dropped == Smaller(startup_drop, HS)
  IN  /\ startup_drop' = startup_drop - dropped
      /\ fifo' = fifo \o [i \in 1..(HS - dropped) |-> a[dropped + i - 1]]

\* push_finalized: the HS frames at the head of a are final.  The first HS of a
\* stream are padding; those past the rounded duration are not wanted.
PushFinalized(a) ==
  LET dropped == Smaller(startup_drop, HS)
      queued == output_emitted + Len(fifo)
      room == IF target_output = None THEN HS
              ELSE IF queued >= target_output THEN 0 ELSE target_output - queued
  IN  /\ startup_drop' = startup_drop - dropped
      /\ fifo' = fifo \o [i \in 1..Smaller(HS - dropped, room) |-> a[dropped + i - 1]]

ProduceHop(buf) ==
  LET a == Overlapped(buf)
  IN  /\ PushFinalized(a)
      /\ acc' = [s \in Slots |-> IF s < HS THEN a[s + HS] ELSE {}]
      /\ in_buf' = [s \in Slots |-> IF s < W - ha THEN buf[s + ha] ELSE Blank]
      /\ in_fill' = W - ha
      /\ analysis_start' = analysis_start + ha

-----------------------------------------------------------------------------
\* process at any ratio but unity, up to its loop.
Call(n) ==
  /\ pc = "idle" /\ ha # HS
  /\ pc' = "more" /\ need' = n
  /\ UNCHANGED <<ha, srcVars, inVars, hopVars, outVars, tail_flushed, hostVars>>

\* process at unity: the host's request goes straight to the source.
Through(n) ==
  /\ pc = "idle" /\ ha = HS
  /\ \E p \in Pull(n) :
       /\ Take(p)
       /\ out' = out \o [i \in 1..p.frames |-> {<<HS, read + i - 1>>}]
       /\ done' = p.done
  /\ UNCHANGED <<ha, inVars, hopVars, outVars, tail_flushed, pc, need, resets>>

Deliver ==
  /\ pc = "more" /\ need > 0 /\ fifo # <<>>
  /\ LET n == Smaller(need, Len(fifo))
     IN  /\ out' = out \o SubSeq(fifo, 1, n)
         /\ fifo' = SubSeq(fifo, n + 1, Len(fifo))
         /\ output_emitted' = output_emitted + n
         /\ need' = need - n
  /\ UNCHANGED <<ha, srcVars, inVars, hopVars, target_output, tail_flushed, pc, done, resets>>

\* Mutated form of Starved: synthesizes ahead of what the host has taken.
StarvedEager == pc = "more" /\ need > 0

\* process goes on to make_more when nothing is queued.
Starved == pc = "more" /\ need > 0 /\ fifo = <<>>

\* refill, once round make_more's loop.  An underrun ends the call.
Refill ==
  /\ Starved /\ in_fill < W /\ ~ input_eof
  /\ \E p \in Pull(W - in_fill) :
       /\ Take(p)
       /\ in_buf' = Staged(p.frames)
       /\ in_fill' = in_fill + p.frames
       /\ input_pulled' = input_pulled + p.frames
       /\ input_eof' = p.done
       /\ target_output' = IF p.done THEN RoundedOutputFrames(input_pulled + p.frames)
                           ELSE target_output
       /\ pc' = IF p.frames = 0 /\ ~ p.done THEN "stop" ELSE "more"
  /\ UNCHANGED <<ha, hopVars, fifo, output_emitted, tail_flushed, need, hostVars>>

Hop ==
  /\ Starved /\ in_fill = W
  /\ ProduceHop(in_buf)
  /\ UNCHANGED <<ha, srcVars, input_pulled, input_eof, output_emitted, target_output,
                 tail_flushed, pc, need, hostVars>>

\* make_more has a window to fill and the input is over.
AtEnd == Starved /\ in_fill < W /\ input_eof

\* The windows that start inside the input are all taken.
Exhausted == analysis_start >= input_pulled

EdgeHop ==
  /\ AtEnd /\ input_pulled > 0 /\ ~ Exhausted
  /\ ProduceHop(Extended)
  /\ UNCHANGED <<ha, srcVars, input_pulled, input_eof, output_emitted, target_output,
                 tail_flushed, pc, need, hostVars>>

FlushTail ==
  /\ AtEnd /\ input_pulled > 0 /\ Exhausted /\ ~ tail_flushed
  /\ PushFinalized(acc)
  /\ tail_flushed' = TRUE
  /\ UNCHANGED <<ha, srcVars, inVars, analysis_start, acc, output_emitted, target_output,
                 pc, need, hostVars>>

NoInput ==
  /\ AtEnd /\ input_pulled = 0
  /\ analysis_start' = 0
  /\ tail_flushed' = TRUE
  /\ pc' = "stop"
  /\ UNCHANGED <<ha, srcVars, inVars, acc, startup_drop, outVars, need, hostVars>>

Drained ==
  /\ AtEnd /\ input_pulled > 0 /\ Exhausted /\ tail_flushed
  /\ pc' = "stop"
  /\ UNCHANGED <<ha, srcVars, inVars, hopVars, outVars, tail_flushed, need, hostVars>>

\* Mutated form of FullyDone: waits for one frame more than there is.
FullyDoneStrict == input_eof /\ target_output # None /\ output_emitted > target_output

FullyDone == /\ input_eof
             /\ analysis_start >= input_pulled
             /\ tail_flushed
             /\ fifo = <<>>
             /\ target_output # None
             /\ output_emitted >= target_output

Return ==
  /\ pc = "stop" \/ (pc = "more" /\ need = 0)
  /\ done' = FullyDone
  /\ pc' = "idle" /\ need' = 0
  /\ UNCHANGED <<ha, srcVars, inVars, hopVars, outVars, tail_flushed, out, resets>>

\* The host resets the stretcher and rewinds the source.
Reset ==
  /\ pc = "idle" /\ resets < MaxResets
  /\ in_buf' = NoWindow /\ in_fill' = HS /\ input_pulled' = 0 /\ input_eof' = FALSE
  /\ analysis_start' = -HS /\ acc' = NoSums /\ startup_drop' = HS
  /\ fifo' = <<>> /\ output_emitted' = 0 /\ target_output' = None
  /\ tail_flushed' = FALSE
  /\ read' = 0 /\ src_done' = FALSE
  /\ done' = FALSE /\ out' = <<>> /\ resets' = resets + 1
  /\ UNCHANGED <<ha, cap, length, pc, need>>

Work == Deliver \/ Refill \/ Hop \/ EdgeHop \/ FlushTail \/ NoInput \/ Drained \/ Return

Ask(n) == Call(n) \/ Through(n)

Next == (\E n \in 0..MaxNeed : Ask(n)) \/ Work \/ Reset

Spec == Init /\ [][Next]_vars

(***************************************************************************)
(* A call runs to its end; the host keeps asking for frames; a source that *)
(* is asked again and again gives some or reports its end.                 *)
(***************************************************************************)
Gives == read' > read \/ src_done'

FairSpec ==
  /\ Spec
  /\ WF_vars(Work)
  /\ SF_vars(\E n \in 1..MaxNeed : Ask(n))
  /\ SF_vars(Refill /\ Gives)
  /\ SF_vars((\E n \in 1..MaxNeed : Through(n)) /\ Gives)

-----------------------------------------------------------------------------
TypeOK ==
  /\ ha \in Hops /\ cap \in Caps \cup {AnySource}
  /\ length \in 0..MaxInput /\ read \in 0..length /\ src_done \in BOOLEAN
  /\ in_buf \in [Slots -> Nat \cup {Blank}]
  /\ in_fill \in 0..W /\ input_pulled \in Nat /\ input_eof \in BOOLEAN
  /\ analysis_start \in Int /\ startup_drop \in 0..HS
  /\ acc \in [Slots -> SUBSET (Slots \X Nat)]
  /\ fifo \in Seq(SUBSET (Slots \X Nat))
  /\ output_emitted \in Nat /\ target_output \in Nat \cup {None}
  /\ tail_flushed \in BOOLEAN
  /\ pc \in {"idle", "more", "stop"} /\ need \in Nat
  /\ done \in BOOLEAN /\ out \in Seq(SUBSET (Slots \X Nat)) /\ resets \in Nat

(***************************************************************************)
(* The queue never holds more than one hop, whatever the host and the      *)
(* source do (the comment on fifo_len): push_finalized does not look at    *)
(* what its ring of 2W slots still holds.                                  *)
(***************************************************************************)
FifoBound == Len(fifo) <= HS

(***************************************************************************)
(* The debug assertion of finish_input, and what follows it: the duration  *)
(* is known only when the source reports its end, perhaps long after its   *)
(* last frame, and by then no more may have been emitted or queued.        *)
(***************************************************************************)
WithinDuration ==
  target_output # None => output_emitted + Len(fifo) <= target_output

(***************************************************************************)
(* The rounded duration is always reached: when the tail has been flushed  *)
(* every frame of it is emitted or queued, so that done can be reported.   *)
(***************************************************************************)
DurationReached ==
  tail_flushed => output_emitted + Len(fifo) = target_output

(***************************************************************************)
(* The rounded duration is kept exactly, whatever the pulls and the calls. *)
(***************************************************************************)
DurationExact == WithinDuration /\ DurationReached

(***************************************************************************)
(* What is delivered is the one output of the input, however it was asked  *)
(* for and supplied, and its end is reported exactly at its length.        *)
(***************************************************************************)
Stream == INSTANCE StretchStream WITH played <- out, ended <- done

OneOutput == Stream!Spec

\* A host that keeps asking gets to the end of the stream, even from a source that gives a
\* frame at a time or none: every call returns, and one reports done.
StreamEnds == []<>done
=============================================================================
