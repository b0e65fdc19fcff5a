------------------------------- MODULE Driver -------------------------------
(***************************************************************************)
(* The block driver: PreparedProcessor (host.rs) keeps the timeline and    *)
(* calls process; KernelProcessor::process runs drive (dsp/driver.rs),     *)
(* which latches events, steps the smoother bank at the control-rate grid  *)
(* and hands the kernel one fixed-parameter run after another.             *)
(*                                                                         *)
(* One action per step of drive's loops, so that latching, stepping and    *)
(* rendering interleave with block boundaries as they do in the code.  The *)
(* kernel itself is opaque: what it sees of a run is in `out`.             *)
(***************************************************************************)
EXTENDS Smoothing

CONSTANTS
  Period,    \* CR_STEP
  MaxBlock,  \* ProcessSpec::max_block
  MaxPos,    \* bound: no block ends beyond this position
  LookAhead, \* bound: out-of-block events a careless host may append, in frames
  Scripts,   \* event schedules, [at, param, value] records in stamp order
  SeekTo,    \* positions the host seeks to
  Writable,  \* values the host writes directly
  Unknown    \* an id no parameter has

ASSUME DriverAssumption ==
  /\ Period \in Nat \ {0}
  /\ MaxBlock \in Nat /\ MaxPos \in Nat /\ LookAhead \in Nat
  /\ SeekTo \subseteq 0..MaxPos
  /\ Writable \subseteq Int
  /\ Unknown \notin Param

Stamped == [at : Nat, param : Param \cup {Unknown}, value : Int \cup {NonFinite}]
ParamEvent == [offset : Nat, param : Param \cup {Unknown}, value : Int \cup {NonFinite}]

\* The host hands events over sorted (param.rs, ParamEvent).
ASSUME ScriptAssumption ==
  /\ Scripts \subseteq Seq(Stamped)
  /\ \A s \in Scripts : \A i, j \in DOMAIN s : i < j => s[i].at <= s[j].at

VARIABLES
  script,      \* what the host wants to happen, on the absolute timeline
  sample_pos,  \* PreparedProcessor::sample_pos
  bank,        \* KernelProcessor::bank
  pc,          \* where drive is: idle, latch, step, render, drain, return
  frames,      \* ctx.frames
  events,      \* ctx.events
  start,       \* first frame of the next run, relative to the block
  ev,          \* next event to consume (1-based)
  pending,     \* pending_cell: next grid cell whose boundary has not stepped
  out,         \* history: the last run handed to the kernel
  mark,        \* history: the bank that run, or the last call, left; first frame it has not seen
  origin,      \* history: where the timeline was last placed
  steps        \* history: control steps since then

callVars == <<frames, events, start, ev, pending>>
histVars == <<out, mark, origin, steps>>
vars == <<script, sample_pos, bank, pc, callVars, histVars>>

CurrentValues(b) == [p \in Param |-> b[p].cur]

Nothing == [from |-> 0, values |-> <<>>]

\* Mutated form of FirstPending: rounds down, so a block cut inside a cell
\* steps that cell's boundary again.
FirstPendingFloor(f) == f \div Period

\* drive's first pending cell for a block at f: every boundary before f has stepped.
FirstPending(f) == IF f = 0 THEN 0 ELSE (f - 1) \div Period + 1

\* n events of the script are stamped before frame f.
CutAt(f, n) == \A i \in DOMAIN script : script[i].at < f <=> i <= n

\* The events of the script in (from, to], stamps made relative to frame f.
BlockEvents(f, from, to) ==
  [i \in 1..(to - from) |->
     [offset |-> script[from + i].at - f,
      param |-> script[from + i].param, value |-> script[from + i].value]]

Init ==
  /\ script \in Scripts
  /\ sample_pos = 0
  /\ bank = NewBank
  /\ pc = "idle"
  /\ frames = 0 /\ events = <<>> /\ start = 0 /\ ev = 1 /\ pending = 0
  /\ out = Nothing
  /\ mark = [bank |-> NewBank, seen |-> 0]
  /\ origin = 0 /\ steps = 0

-----------------------------------------------------------------------------
(***************************************************************************)
(* PreparedProcessor::process up to the loop of drive.  The host may pass  *)
(* events beyond the block's end; release builds skip them.                *)
(***************************************************************************)
Begin(n, extra) ==
  /\ pc = "idle"
  /\ sample_pos + n <= MaxPos
  /\ pc' = IF n = 0 THEN "return" ELSE "latch"
  /\ frames' = n
  /\ \E from, to \in 0..Len(script) :
       /\ CutAt(sample_pos, from)
       /\ CutAt(sample_pos + n + extra, to)
       /\ events' = BlockEvents(sample_pos, from, to)
  /\ start' = 0
  /\ ev' = 1
  /\ pending' = FirstPending(sample_pos)
  /\ UNCHANGED <<script, sample_pos, bank, histVars>>

\* latch_events stops at the run's first frame inside the loop, at the block's
\* end after it.
Upto == IF pc = "latch" THEN start ELSE frames

\* Mutated forms of EventDue: a strict comparison, and a driver that forgets
\* the latch after the last run.
EventDueStrict == ev <= Len(events) /\ events[ev].offset < Upto
EventDueInLoop == pc = "latch" /\ ev <= Len(events) /\ events[ev].offset <= Upto

EventDue == ev <= Len(events) /\ events[ev].offset <= Upto

Usable(e) == e.offset < frames /\ e.value # NonFinite

\* One iteration of latch_events.
LatchEvent ==
  /\ pc \in {"latch", "drain"}
  /\ EventDue
  /\ bank' = IF Usable(events[ev])
             THEN SetTarget(bank, events[ev].param, events[ev].value)
             ELSE bank
  /\ ev' = ev + 1
  /\ UNCHANGED <<script, sample_pos, pc, frames, events, start, pending, histVars>>

LatchDone ==
  /\ pc \in {"latch", "drain"}
  /\ ~ EventDue
  /\ pc' = IF pc = "latch" THEN "step" ELSE "return"
  /\ UNCHANGED <<script, sample_pos, bank, callVars, histVars>>

Cell == (sample_pos + start) \div Period

\* One iteration of the step loop: a boundary at or before this run.
StepGrid ==
  /\ pc = "step"
  /\ pending <= Cell
  /\ bank' = StepBank(bank)
  /\ pending' = pending + 1
  /\ steps' = steps + 1
  /\ UNCHANGED <<script, sample_pos, pc, frames, events, start, ev, out, mark, origin>>

StepDone ==
  /\ pc = "step"
  /\ pending > Cell
  /\ pc' = "render"
  /\ UNCHANGED <<script, sample_pos, bank, callVars, histVars>>

\* Mutated forms of RunEnd: to the grid beyond the block's end, and to the boundary
\* already behind.
RunEndGrid == ((sample_pos + start) \div Period + 1) * Period - sample_pos
RunEndBehind ==
  LET back == (sample_pos + start) - ((sample_pos + start) % Period)
  IN  IF back <= sample_pos THEN start
      ELSE IF back - sample_pos < frames THEN back - sample_pos ELSE frames

\* The run ends at the next grid boundary or the block's end.
RunEnd ==
  LET abs == sample_pos + start
      next_grid == (abs - (abs % Period)) + Period
  IN  IF next_grid - sample_pos < frames THEN next_grid - sample_pos ELSE frames

Render ==
  /\ pc = "render"
  /\ out' = [from |-> sample_pos + start,
             values |-> [k \in 1..(RunEnd - start) |-> CurrentValues(bank)]]
  /\ start' = RunEnd
  /\ pc' = IF RunEnd < frames THEN "latch" ELSE "drain"
  /\ mark' = [bank |-> bank, seen |-> sample_pos + start + 1]
  /\ UNCHANGED <<script, sample_pos, bank, frames, events, ev, pending, origin, steps>>

\* drive returns and PreparedProcessor advances the timeline.
Return ==
  /\ pc = "return"
  /\ sample_pos' = sample_pos + frames
  /\ pc' = "idle"
  /\ frames' = 0 /\ events' = <<>> /\ start' = 0 /\ ev' = 1 /\ pending' = 0
  /\ mark' = [bank |-> bank, seen |-> sample_pos']
  /\ UNCHANGED <<script, bank, out, origin, steps>>

-----------------------------------------------------------------------------
\* restart and seek: KernelProcessor::reset, then place the timeline.
MoveTo(q) ==
  /\ pc = "idle"
  /\ bank' = ResetBank(bank)
  /\ sample_pos' = q
  /\ origin' = q /\ steps' = 0
  /\ mark' = [bank |-> bank', seen |-> q]
  /\ UNCHANGED <<script, pc, callVars, out>>

Restart == MoveTo(0)
Seek(q) == MoveTo(q)

SetParameterImmediate(p, v) ==
  /\ pc = "idle"
  /\ bank' = SetImmediate(bank, p, v)
  /\ mark' = [bank |-> bank', seen |-> sample_pos]
  /\ UNCHANGED <<script, sample_pos, pc, callVars, out, origin, steps>>

Next ==
  \/ \E n \in 0..MaxBlock, extra \in 0..LookAhead : Begin(n, extra)
  \/ LatchEvent \/ LatchDone
  \/ StepGrid \/ StepDone
  \/ Render
  \/ Return
  \/ Restart
  \/ \E q \in SeekTo : Seek(q)
  \/ \E p \in Param, v \in Writable : SetParameterImmediate(p, v)

Spec == Init /\ [][Next]_vars

(***************************************************************************)
(* drive runs to completion on the caller's thread once process is called; *)
(* the host is free never to call again.                                   *)
(***************************************************************************)
Drive == LatchEvent \/ LatchDone \/ StepGrid \/ StepDone \/ Render \/ Return

FairSpec == Spec /\ WF_vars(Drive)

-----------------------------------------------------------------------------
Pcs == {"idle", "latch", "step", "render", "drain", "return"}

TypeOK ==
  /\ script \in Scripts
  /\ sample_pos \in Nat
  /\ bank \in Bank
  /\ pc \in Pcs
  /\ frames \in Nat
  /\ events \in Seq(ParamEvent)
  /\ start \in 0..frames
  /\ ev \in 1..(Len(events) + 1)
  /\ pending \in Nat
  /\ mark \in [bank : Bank, seen : Nat]
  /\ origin \in Nat /\ steps \in Nat

(***************************************************************************)
(* A kernel sizes per-run scratch to one control-rate cell (MAX_RUN_FRAMES *)
(* in driver.rs): no run is empty or crosses a grid boundary, wherever the *)
(* block and the timeline started.                                         *)
(***************************************************************************)
RunInCell ==
  out # Nothing =>
    LET last == out.from + Len(out.values) - 1
    IN  out.from <= last /\ out.from \div Period = last \div Period

\* Grid boundaries in 0..f-1, frame 0 included.
Boundaries(f) == (f + Period - 1) \div Period

(***************************************************************************)
(* pending_cell is not stored: every block recomputes it from sample_pos.  *)
(* Yet each grid boundary the timeline has crossed since it was placed was *)
(* stepped once, stream start included, however the blocks were cut.       *)
(***************************************************************************)
GridExact ==
  pc = "idle" => steps = Boundaries(sample_pos) - Boundaries(origin)

(***************************************************************************)
(* When the smoothers step or a run is rendered, the targets latched are   *)
(* those stamped at or before the run's first frame: none late, none early *)
(* (the comment on drive; parameters-and-events.md, "Events").             *)
(***************************************************************************)
LatchExact ==
  pc \in {"step", "render"} =>
    \A i \in DOMAIN events : i < ev <=> events[i].offset <= start

(***************************************************************************)
(* Every call of process returns: the run loop always advances.            *)
(***************************************************************************)
BlockReturns == pc # "idle" ~> pc = "idle"

(***************************************************************************)
(* Bit-identical output under any block splitting: the block driver        *)
(* implements the frame-by-frame timeline.  Between two runs the timeline's*)
(* smoothers are the ones of the last run, with the events stamped inside  *)
(* that run latched.                                                       *)
(***************************************************************************)
InsideRun ==
  {i \in DOMAIN script : mark.seen <= script[i].at /\ script[i].at < sample_pos + start}

Timeline == INSTANCE ControlTimeline WITH
  bank <- SetTargets(mark.bank, script, InsideRun),
  pos  <- sample_pos + start

SplitInvariance == Timeline!Spec
=============================================================================
