-------------------------- MODULE ControlTimeline ---------------------------
(***************************************************************************)
(* What the parameter timeline promises, with no blocks in it              *)
(* (docs/src/parameters-and-events.md, "Events" and "Smoothing").  Every   *)
(* target is latched at the frame it is stamped with; at every multiple of *)
(* Period, frame 0 included, the smoothers step once; every frame is       *)
(* rendered with the values current at that frame.  How many frames are    *)
(* played together makes no difference.                                    *)
(***************************************************************************)
EXTENDS Smoothing

CONSTANTS
  Period,    \* CR_STEP: frames between two control steps
  Scripts,   \* the event schedules considered, in stamp order
  SeekTo,    \* positions the host seeks to
  Writable   \* values the host writes directly

VARIABLES
  script,    \* the schedule of this behaviour: [at, param, value] records
  pos,       \* frames played since the timeline began
  bank,      \* the smoothers after frame pos - 1
  out        \* the last frames played: where, and the values of each

vars == <<script, pos, bank, out>>

StampedAt(f) == {i \in DOMAIN script : script[i].at = f}

\* The bank with which frame f is rendered, from the bank after frame f - 1.
AtFrame(b, f) ==
  LET latched == SetTargets(b, script, StampedAt(f))
  IN  IF f % Period = 0 THEN StepBank(latched) ELSE latched

CurrentValues(b) == [p \in Param |-> b[p].cur]

Nothing == [from |-> 0, values |-> <<>>]

Init == /\ script \in Scripts
        /\ pos = 0
        /\ bank = NewBank
        /\ out = Nothing

Play(n) ==
  LET after[k \in 0..n] ==
        IF k = 0 THEN bank ELSE AtFrame(after[k - 1], pos + k - 1)
  IN  /\ bank' = after[n]
      /\ pos' = pos + n
      /\ out' = [from |-> pos, values |-> [k \in 1..n |-> CurrentValues(after[k])]]
      /\ UNCHANGED script

WriteNow(p, v) == /\ bank' = SetImmediate(bank, p, v)
                  /\ UNCHANGED <<script, pos, out>>

MoveTo(q) == /\ bank' = ResetBank(bank)
             /\ pos' = q
             /\ UNCHANGED <<script, out>>

Next == \/ \E n \in 1..Period : Play(n)
        \/ \E p \in Param, v \in Writable : WriteNow(p, v)
        \/ \E q \in SeekTo \cup {0} : MoveTo(q)

Spec == Init /\ [][Next]_vars
=============================================================================
