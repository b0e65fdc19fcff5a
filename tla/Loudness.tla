------------------------------ MODULE Loudness -------------------------------
(***************************************************************************)
(* The loudness meter (analysis/loudness.rs): the momentary and short-term *)
(* windows, the window of the integrated measure with its blocks, and the  *)
(* two gates of the reading.                                               *)
(*                                                                         *)
(* A frame is the energy left of it by K-weighting and channel weights     *)
(* (those are in Meters).  One action is one frame of observe.  The        *)
(* loudness of a window is a monotone function of its average energy, so   *)
(* averages are compared instead, by their sums.                           *)
(***************************************************************************)
EXTENDS Sequences, FiniteSetsExt, Integers

CONSTANTS
  BlockFrames,   \* the 400 ms of the momentary window and of an integrated block
  ShortFrames,   \* the 3 s of the short-term window
  HopFrames,     \* the 100 ms between integrated blocks
  Capacity,      \* integrated blocks kept
  AbsoluteGate,  \* the absolute gate, as the energy of a block
  RelativeGate,  \* the relative gate: so many times below the average
  Energies,      \* energies of a frame
  MaxFrames,     \* bound: frames between resets
  MaxSlips,      \* bound: roundings between resets
  MaxResets      \* bound: resets

ASSUME LoudnessAssumption ==
  /\ BlockFrames \in Nat \ {0} /\ ShortFrames \in Nat \ {0} /\ HopFrames \in Nat \ {0}
  /\ Capacity \in Nat \ {0} /\ AbsoluteGate \in Nat /\ RelativeGate \in Nat \ {0, 1}
  /\ Energies \subseteq Nat
  /\ MaxFrames \in Nat /\ MaxSlips \in Nat /\ MaxResets \in Nat

-----------------------------------------------------------------------------
(* RollingEnergy, the sum of a window: a ring of the last energies and their sum, kept up by *)
(* adding what enters and subtracting what leaves, and computed afresh from the ring every   *)
(* so many updates.  Energies are whole numbers and one unit stands for what the compensated *)
(* addition still rounds away: sum is sum + compensation of the code, and an update may put  *)
(* it off by a slip of one unit either way.  Adding nothing to it is exact.                  *)

Ring(frames) == 0..(frames - 1)

Rolling(frames) ==
  [ring : [Ring(frames) -> Nat], pos : Ring(frames), len : 0..frames, sum : Int,
   updates_since_recompute : Ring(frames)]

Empty(frames) ==
  [ring |-> [i \in Ring(frames) |-> 0], pos |-> 0, len |-> 0, sum |-> 0,
   updates_since_recompute |-> 0]

\* What the next push takes out of the window.
Leaving(r, frames) == IF r.len < frames THEN 0 ELSE r.ring[r.pos]

Slips(r, frames, energy) ==
  IF energy = 0 /\ Leaving(r, frames) = 0 THEN {0} ELSE {-1, 0, 1}

RingSum(ring, len) == MapThenSumSet(LAMBDA i : ring[i], 0..(len - 1))

Recomputes(updates, frames) == updates >= frames

\* Mutated form of NextSlot: the cursor wraps one slot late.
NextSlotLate(pos, frames) == IF pos = frames THEN 0 ELSE pos + 1

NextSlot(pos, frames) == IF pos + 1 = frames THEN 0 ELSE pos + 1

Push(r, frames, energy, slip) ==
  LET ring == [r.ring EXCEPT ![r.pos] = energy]
      len == IF r.len < frames THEN r.len + 1 ELSE r.len
      updates == r.updates_since_recompute + 1
      fresh == Recomputes(updates, frames)
  IN  [ring |-> ring, pos |-> NextSlot(r.pos, frames), len |-> len,
       sum |-> IF fresh THEN RingSum(ring, len)
               ELSE r.sum + energy - Leaving(r, frames) + slip,
       updates_since_recompute |-> IF fresh THEN 0 ELSE updates]

Full(r, frames) == r.len = frames

\* A window's average is this over its length.
CorrectedSum(r) == IF r.sum < 0 THEN 0 ELSE r.sum

-----------------------------------------------------------------------------
(* The meter. *)

VARIABLES
  momentary, short_term, integrated_block,  \* the three rolling energies
  total_frames,
  integrated_blocks,      \* energies of the blocks kept
  integrated_overflowed,
  heard,   \* history: the frames since the reset
  slips,   \* history: roundings since the reset
  resets   \* history: bounds the resets

windowVars == <<momentary, short_term, integrated_block>>
vars == <<windowVars, total_frames, integrated_blocks, integrated_overflowed,
          heard, slips, resets>>

Init ==
  /\ momentary = Empty(BlockFrames)
  /\ short_term = Empty(ShortFrames)
  /\ integrated_block = Empty(BlockFrames)
  /\ total_frames = 0 /\ integrated_blocks = <<>> /\ integrated_overflowed = FALSE
  /\ heard = <<>> /\ slips = 0 /\ resets = 0

-----------------------------------------------------------------------------
\* Mutated form of BlockDue: blocks are counted from the first frame.
BlockDueFromStart(n) == n >= BlockFrames /\ n % HopFrames = 0

BlockDue(n) == n >= BlockFrames /\ (n - BlockFrames) % HopFrames = 0

\* Mutated form of HasRoom: one block more than was reserved.
HasRoomMore == Len(integrated_blocks) <= Capacity

HasRoom == Len(integrated_blocks) < Capacity

\* By the time a block is due its window is full, so that its average is this
\* sum over BlockFrames.
StoreBlock(window) ==
  /\ integrated_blocks' = IF HasRoom THEN Append(integrated_blocks, CorrectedSum(window))
                          ELSE integrated_blocks
  /\ integrated_overflowed' = (integrated_overflowed \/ ~HasRoom)

Spent(slip) == IF slip = 0 THEN 0 ELSE 1

\* push_weighted_energy.  The momentary window and that of the integrated measure
\* have the same length and frames, hence the same roundings.
PushEnergy(energy, slip, short_slip) ==
  /\ momentary' = Push(momentary, BlockFrames, energy, slip)
  /\ short_term' = Push(short_term, ShortFrames, energy, short_slip)
  /\ integrated_block' = Push(integrated_block, BlockFrames, energy, slip)
  /\ total_frames' = total_frames + 1
  /\ IF BlockDue(total_frames + 1) THEN StoreBlock(integrated_block')
     ELSE UNCHANGED <<integrated_blocks, integrated_overflowed>>
  /\ slips' = slips + Spent(slip) + Spent(short_slip)

Observe(energy) ==
  /\ total_frames < MaxFrames
  /\ \E slip \in Slips(momentary, BlockFrames, energy),
        short_slip \in Slips(short_term, ShortFrames, energy) :
       /\ slips + Spent(slip) + Spent(short_slip) <= MaxSlips
       /\ PushEnergy(energy, slip, short_slip)
  /\ heard' = Append(heard, energy)
  /\ UNCHANGED resets

\* Mutated form of ResetWindows: the short-term window stays as full as it was.
ResetWindowsKeep ==
  /\ momentary' = Empty(BlockFrames)
  /\ short_term' = [Empty(ShortFrames) EXCEPT !.len = short_term.len]
  /\ integrated_block' = Empty(BlockFrames)

ResetWindows ==
  /\ momentary' = Empty(BlockFrames)
  /\ short_term' = Empty(ShortFrames)
  /\ integrated_block' = Empty(BlockFrames)

Reset ==
  /\ resets < MaxResets /\ resets' = resets + 1
  /\ ResetWindows
  /\ total_frames' = 0 /\ integrated_blocks' = <<>> /\ integrated_overflowed' = FALSE
  /\ heard' = <<>> /\ slips' = 0

Next == Reset \/ \E energy \in Energies : Observe(energy)

Spec == Init /\ [][Next]_vars

-----------------------------------------------------------------------------
(* The reading. *)

BlockSum(S) == MapThenSumSet(LAMBDA i : integrated_blocks[i], S)

Audible == {i \in DOMAIN integrated_blocks : integrated_blocks[i] > AbsoluteGate}

\* Mutated form of AboveRelative: the gate is added to the average's level.
AboveRelativeAdded(energy) ==
  energy * Cardinality(Audible) > RelativeGate * BlockSum(Audible)

\* More than a RelativeGate-th of the average of the audible blocks.
AboveRelative(energy) ==
  energy * RelativeGate * Cardinality(Audible) > BlockSum(Audible)

Gated == {i \in Audible : AboveRelative(integrated_blocks[i])}

-----------------------------------------------------------------------------
TypeOK ==
  /\ momentary \in Rolling(BlockFrames)
  /\ short_term \in Rolling(ShortFrames)
  /\ integrated_block \in Rolling(BlockFrames)
  /\ total_frames \in 0..MaxFrames
  /\ integrated_blocks \in Seq(Nat) /\ Len(integrated_blocks) <= Capacity
  /\ integrated_overflowed \in BOOLEAN
  /\ heard \in Seq(Energies) /\ slips \in 0..MaxSlips /\ resets \in 0..MaxResets

Windows == {<<momentary, BlockFrames>>, <<short_term, ShortFrames>>,
            <<integrated_block, BlockFrames>>}

\* What the frames from first to last (those there are) add up to.
HeardSum(first, last) ==
  MapThenSumSet(LAMBDA i : heard[i], Max({first, 1})..last)

Off(a, b) == IF a < b THEN b - a ELSE a - b

\* A window holds the last frames heard, is read once there are enough of them,
\* and its sum is theirs up to roundings; just computed afresh, it is exact
\* (RollingEnergy: push, full_average).
WindowsExact ==
  \A w \in Windows :
    LET r == w[1]
        n == w[2]
        sum == HeardSum(total_frames - n + 1, total_frames)
    IN  /\ Full(r, n) <=> total_frames >= n
        /\ Off(r.sum, sum) <= slips
        /\ r.updates_since_recompute = 0 => r.sum = sum

\* Block j of the history is that of the frames from hop j - 1 on, whatever calls and
\* windows it came from (push_weighted_energy).
BlocksExact ==
  \A j \in DOMAIN integrated_blocks :
    LET first == (j - 1) * HopFrames
    IN  Off(integrated_blocks[j], HeardSum(first + 1, first + BlockFrames)) <= slips

\* If any block is audible there is an integrated reading, and the relative gate does
\* not lower it (integrated_loudness).
GateSound ==
  Audible # {} => /\ Gated # {}
                  /\ BlockSum(Gated) * Cardinality(Audible)
                       >= BlockSum(Audible) * Cardinality(Gated)

History == INSTANCE IntegratedHistory
  WITH stored <- Len(integrated_blocks), Calls <- {1}, MaxTotal <- MaxFrames

\* The meter keeps the schedule: every block due is kept or reported missing, and an
\* incomplete history is reported exactly when one was dropped.
ScheduleKept == History!Spec
=============================================================================
