---------------------------- MODULE MemoryLayout -----------------------------
(***************************************************************************)
(* Checked sums of the bytes a processor is about to allocate              *)
(* (dsp/memory.rs).  A layout knows its bytes, unless the machine cannot   *)
(* count them, and whether each of its buffers can be addressed.           *)
(***************************************************************************)
EXTENDS Integers

CONSTANTS MaxUsize,  \* usize::MAX
          MaxIsize   \* isize::MAX, the largest single buffer

ASSUME LayoutAssumption == MaxUsize \in Nat /\ MaxIsize \in 0..MaxUsize

Uncounted == -1         \* None: the bytes are no usize
NoCap == MaxUsize + 1   \* max_memory = None: above whatever can be counted

\* Mutated form of Checked: the sum wraps around.
CheckedWraps(n) == n % (MaxUsize + 1)

\* The result of checked_add or checked_mul.
Checked(n) == IF n > MaxUsize THEN Uncounted ELSE n

Plus(a, b) == IF Uncounted \in {a, b} THEN Uncounted ELSE Checked(a + b)
Times(a, b) == IF Uncounted \in {a, b} THEN Uncounted ELSE Checked(a * b)

NewLayout == [bytes |-> 0, components_addressable |-> TRUE]

RepeatedBytes(layout, arrays, component) ==
  [bytes |-> Plus(layout.bytes, Times(component, arrays)),
   components_addressable |-> /\ layout.components_addressable
                              /\ component \in 0..MaxIsize]

Array(layout, elements, size) == RepeatedBytes(layout, 1, Times(elements, size))

RepeatedArray(layout, arrays, elements, size) ==
  IF arrays = 0 THEN RepeatedBytes(layout, 0, 0)
  ELSE RepeatedBytes(layout, arrays, Times(elements, size))

\* What preflight answers: the layout fits, or which error it is refused with.
Preflight(layout, cap) ==
  IF layout.bytes = Uncounted
    THEN IF cap < MaxUsize THEN "OverBudget" ELSE "UnsupportedSpec"
  ELSE IF layout.bytes > cap THEN "OverBudget"
  ELSE IF ~layout.components_addressable THEN "UnsupportedSpec"
  ELSE "Ok"
=============================================================================
