-------------------------- MODULE IntegratedHistory --------------------------
(***************************************************************************)
(* The schedule of the integrated measure (analysis/loudness.rs): when a   *)
(* block of 400 ms is complete, how many are kept, and when the meter      *)
(* reports that some were not.  One step is one call of observe; that the  *)
(* frames of a call are looked at one by one makes no difference to it.    *)
(***************************************************************************)
EXTENDS Integers, FiniteSetsExt

CONSTANTS
  BlockFrames, HopFrames,  \* frames of an integrated block and of the hop
  Capacity,                \* blocks kept
  Calls,                   \* frames of a call of observe
  MaxTotal                 \* bound: frames between resets

VARIABLES total_frames, stored, integrated_overflowed

historyVars == <<total_frames, stored, integrated_overflowed>>

\* frames_for_ms: rounded to the nearest frame.
FramesForMs(rate, ms) == Max({(rate * ms + 500) \div 1000, 1})

\* Blocks that end within so many tenths of a second; the first is four long.
IntegratedBlockCapacity(tenths) == Max({tenths - 3, 1})

\* Blocks complete after n frames: the first when it is full, then one a hop.
Due(n) == IF n < BlockFrames THEN 0 ELSE (n - BlockFrames) \div HopFrames + 1

Init == total_frames = 0 /\ stored = 0 /\ integrated_overflowed = FALSE

Observe(frames) ==
  LET complete == stored + Due(total_frames + frames) - Due(total_frames)
  IN  /\ total_frames + frames <= MaxTotal
      /\ total_frames' = total_frames + frames
      /\ stored' = Min({complete, Capacity})
      /\ integrated_overflowed' = (integrated_overflowed \/ complete > Capacity)

Reset == total_frames' = 0 /\ stored' = 0 /\ integrated_overflowed' = FALSE

Next == Reset \/ \E frames \in Calls : Observe(frames)

Spec == Init /\ [][Next]_historyVars
=============================================================================
