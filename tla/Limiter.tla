------------------------------- MODULE Limiter -------------------------------
(***************************************************************************)
(* The lookahead limiter (mastering/limiter.rs): a detector that reports   *)
(* the gain a frame requires, the minimum of the reports over the          *)
(* lookahead kept in a monotonic wedge, a smoothed attack, a release, and  *)
(* the delay line the gain is applied behind.                              *)
(*                                                                         *)
(* Gains are 0..Unity.  A sample is the number of its frame, or 0 for      *)
(* silence, and channels are linked, so one stands for all.  What the      *)
(* detector reports of sound is any gain: that is the threshold, margin    *)
(* and peak together.  The Hann weights and the release coefficient are    *)
(* any: the convolution lies between the least and the largest of the      *)
(* history, or falls a rounding short of it, and a release somewhere       *)
(* between where it is and where it goes.                                  *)
(***************************************************************************)
EXTENDS Integers, Sequences, FiniteSetsExt

CONSTANTS
  look,       \* lookahead in frames
  TP_TAPS,    \* taps per phase of the detector
  Unity,      \* the gain 1.0
  Required,   \* gains the detector reports of sound
  Offers,     \* frames the host offers a call of flush
  MaxFrames,  \* bound: frames pushed between resets
  MaxResets   \* bound: resets

TP_TAIL_FRAMES == TP_TAPS - 1

ASSUME LimiterAssumption ==
  /\ TP_TAPS \in Nat \ {0} /\ look \in Nat \ {0} /\ look >= TP_TAIL_FRAMES
  /\ Unity \in Nat \ {0} /\ Required \subseteq 0..Unity
  /\ Offers \subseteq Nat /\ MaxFrames \in Nat /\ MaxResets \in Nat

\* wedge_val.len()
cap == look + 1

\* Mutated form of attack_len: the attack takes the whole lookahead.
attack_whole == look

\* The length of the Hann window: the lookahead left after the detector's tail.
attack_len == IF look - TP_TAIL_FRAMES > 1 THEN look - TP_TAIL_FRAMES ELSE 1

VARIABLES
  taps,                          \* PolyphaseUpsampler::delay, newest first
  wedge, wedge_head, wedge_len,  \* wedge_idx and wedge_val, as [idx, val] records
  frame,
  wm_hist, wm_pos, wm_nonunity,
  env,
  delay, delay_pos,
  flushed,
  want,     \* frames still to drain in this call of flush
  call,     \* frames this call of flush drains, or None between calls
  reports,  \* history: the last look + 1 required gains
  clean,    \* history: all that was reported since the reset is unity
  left,     \* history: the sample that left last and its gain
  resets    \* history: bounds the resets

None == -1

envVars == <<wedge, wedge_head, wedge_len, frame, wm_hist, wm_pos, wm_nonunity, env>>
lineVars == <<taps, delay, delay_pos, reports, clean, left>>
vars == <<envVars, lineVars, flushed, want, call, resets>>

Ring == 0..(cap - 1)
Hist == 0..(attack_len - 1)
Line == 0..(look - 1)

Init ==
  /\ taps = [i \in 1..TP_TAPS |-> 0]
  /\ wedge = [i \in Ring |-> [idx |-> 0, val |-> 0]] /\ wedge_head = 0 /\ wedge_len = 0
  /\ frame = 0
  /\ wm_hist = [i \in Hist |-> Unity] /\ wm_pos = 0 /\ wm_nonunity = 0
  /\ env = Unity
  /\ delay = [p \in Line |-> 0] /\ delay_pos = 0
  /\ flushed = 0 /\ want = 0 /\ call = None
  /\ reports = <<>> /\ clean = TRUE /\ left = [sample |-> 0, gain |-> Unity] /\ resets = 0

-----------------------------------------------------------------------------
\* peak_abs: the newest sample shifts the delay line.
Shifted(x) == <<x>> \o SubSeq(taps, 1, TP_TAPS - 1)

\* What the detector requires: nothing of silence.
Reported(ts) == IF \A i \in 1..TP_TAPS : ts[i] = 0 THEN {Unity} ELSE Required \cup {Unity}

\* The k-th live entry of the wedge, from the front.
Entry(k) == wedge[(wedge_head + k - 1) % cap]

\* Entries left once those that rg dominates are dropped from the back.
Kept(rg) == Max({k \in 0..wedge_len : k = 0 \/ Entry(k).val < rg})

\* Mutated form of Expired: the window is a frame shorter.
ExpiredSoon(kept) ==
  Min({k \in 0..kept : k = kept \/ frame - Entry(k + 1).idx <= look - 2})

\* Entries then dropped from the front because they have left the window.
Expired(kept) ==
  Min({k \in 0..kept : k = kept \/ frame - Entry(k + 1).idx <= look})

Push(rg) ==
  LET kept == Kept(rg)
      gone == Expired(kept)
  IN  /\ wedge' = [wedge EXCEPT ![(wedge_head + kept) % cap] = [idx |-> frame, val |-> rg]]
      /\ wedge_head' = (wedge_head + gone) % cap
      /\ wedge_len' = kept - gone + 1

NonUnity(g) == IF g # Unity THEN 1 ELSE 0

\* Mutated form of Counted: does not look at what it overwrites.
CountedUp(old, new) == wm_nonunity + NonUnity(new)

\* wm_nonunity once old is overwritten with new.
Counted(old, new) == wm_nonunity - NonUnity(old) + NonUnity(new)

\* Mutated form of Smoothed: no fast path.
SmoothedSlow(h, nonunity) ==
  LET gains == {h[i] : i \in Hist}
  IN  (IF Min(gains) = 0 THEN 0 ELSE Min(gains) - 1)..Max(gains)

\* The convolution of the history with the Hann weights.
Smoothed(h, nonunity) ==
  LET gains == {h[i] : i \in Hist}
  IN  IF nonunity = 0 THEN {Unity}
      ELSE (IF Min(gains) = 0 THEN 0 ELSE Min(gains) - 1)..Max(gains)

\* The attack takes the smoothed gain at once, the release moves towards it.
Follow(fir) == IF fir <= env THEN {fir} ELSE env..fir

StepEnv(rg) ==
  /\ Push(rg)
  /\ frame' = frame + 1
  /\ LET wm == wedge'[wedge_head'].val
     IN  /\ wm_nonunity' = Counted(wm_hist[wm_pos], wm)
         /\ wm_hist' = [wm_hist EXCEPT ![wm_pos] = wm]
  /\ wm_pos' = (wm_pos + 1) % attack_len
  /\ \E fir \in Smoothed(wm_hist', wm_nonunity') : env' \in Follow(fir)

Recent(s, n) == IF Len(s) <= n THEN s ELSE SubSeq(s, Len(s) - n + 1, Len(s))

\* The sample that came look frames ago leaves at the gain, x takes its place.
Pass(x) ==
  /\ delay' = [delay EXCEPT ![delay_pos] = x]
  /\ left' = [sample |-> delay[delay_pos], gain |-> env']
  /\ delay_pos' = (delay_pos + 1) % look

\* One frame through detector, gain and delay.
Frame(x) ==
  /\ frame < MaxFrames
  /\ taps' = Shifted(x)
  /\ \E rg \in Reported(taps') :
       /\ StepEnv(rg)
       /\ reports' = Recent(Append(reports, rg), cap)
       /\ clean' = (clean /\ rg = Unity)
  /\ Pass(x)

(***************************************************************************)
(* One frame of render.  A run is any number of them: nothing else happens *)
(* between its frames, and new input starts a new drain.                   *)
(***************************************************************************)
Render ==
  /\ call = None
  /\ Frame(frame + 1)
  /\ flushed' = 0
  /\ UNCHANGED <<want, call, resets>>

\* Mutated form of Wanted: forgets what was drained before.
WantedAll(n) == IF n < look THEN n ELSE look

\* Frames a call of flush gives.
Wanted(n) == IF n < look - flushed THEN n ELSE look - flushed

Flush(n) ==
  /\ call = None
  /\ want' = Wanted(n) /\ call' = Wanted(n)
  /\ UNCHANGED <<envVars, lineVars, flushed, resets>>

FlushFrame ==
  /\ call # None /\ want > 0
  /\ Frame(0)
  /\ want' = want - 1
  /\ UNCHANGED <<flushed, call, resets>>

FlushReturn ==
  /\ call # None /\ want = 0
  /\ flushed' = flushed + call
  /\ call' = None
  /\ UNCHANGED <<envVars, lineVars, want, resets>>

Reset ==
  /\ call = None /\ resets < MaxResets
  /\ delay' = [p \in Line |-> 0] /\ delay_pos' = 0
  /\ wedge_head' = 0 /\ wedge_len' = 0 /\ frame' = 0
  /\ wm_hist' = [i \in Hist |-> Unity] /\ wm_pos' = 0 /\ wm_nonunity' = 0
  /\ taps' = [i \in 1..TP_TAPS |-> 0]
  /\ env' = Unity
  /\ flushed' = 0
  /\ reports' = <<>> /\ clean' = TRUE /\ left' = [sample |-> 0, gain |-> Unity] /\ resets' = resets + 1
  /\ UNCHANGED <<wedge, want, call>>

Next == Render \/ (\E n \in Offers : Flush(n)) \/ FlushFrame \/ FlushReturn \/ Reset

Spec == Init /\ [][Next]_vars

-----------------------------------------------------------------------------
Gain == 0..Unity

TypeOK ==
  /\ taps \in [1..TP_TAPS -> Nat]
  /\ wedge \in [Ring -> [idx : Nat, val : Gain]]
  /\ wedge_head \in Ring /\ wedge_len \in 0..cap
  /\ frame \in 0..MaxFrames
  /\ wm_hist \in [Hist -> Gain] /\ wm_pos \in Hist /\ wm_nonunity \in 0..attack_len
  /\ env \in Gain
  /\ delay \in [Line -> Nat] /\ delay_pos \in Line
  /\ flushed \in 0..look /\ want \in 0..look /\ call \in {None} \cup 0..look
  /\ reports \in Seq(Gain) /\ clean \in BOOLEAN
  /\ left \in [sample : Nat, gain : Gain]
  /\ resets \in 0..MaxResets

(***************************************************************************)
(* The wedge is a sliding minimum: its front is the least of the last      *)
(* look + 1 reports, after any sequence of reports, drains included, and   *)
(* its ring never overflows.                                               *)
(***************************************************************************)
WedgeMin ==
  reports # <<>> => wedge[wedge_head].val = Min({reports[i] : i \in DOMAIN reports})

(***************************************************************************)
(* wm_nonunity is counted up and down as the history ring is overwritten;  *)
(* the fast path trusts it.  It never drifts.                              *)
(***************************************************************************)
NonunityExact == wm_nonunity = Quantify(Hist, LAMBDA i : wm_hist[i] # Unity)

(***************************************************************************)
(* Below the threshold the limiter is transparent: the gain is exactly one *)
(* until something is reported (the comment on the fast path), and a       *)
(* weight sum that rounds below one does not show.                         *)
(***************************************************************************)
Transparent == clean => env = Unity

(***************************************************************************)
(* The limiter keeps the ceiling's promise: every report takes full effect *)
(* before the samples that contributed to it leave the delay, in input and *)
(* in drains, and nothing is lost or reordered on the way.                 *)
(***************************************************************************)
Needed(f) ==
  LET first == frame - Len(reports)
  IN  Min({Unity} \cup {reports[m - first + 1] : m \in {k \in first..(frame - 1) :
                                                      f <= k /\ k <= f + TP_TAIL_FRAMES}})

Promise == INSTANCE Ceiling WITH
  Reach <- TP_TAIL_FRAMES,
  pending <- [i \in 1..look |-> [sample |-> delay[(delay_pos + i - 1) % look],
                                 need |-> Needed(frame - look + i - 1)]]

CeilingHeld == Promise!Spec

(***************************************************************************)
(* flush keeps its contract: look frames in all, however the calls cut     *)
(* them, nothing after done, and a new drain for new input.                *)
(***************************************************************************)
Contract == INSTANCE Drain WITH
  TailFrames <- look, given <- flushed, ended <- flushed >= look

DrainKept == Contract!Spec
=============================================================================
