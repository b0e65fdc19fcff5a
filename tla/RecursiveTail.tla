---------------------------- MODULE RecursiveTail ----------------------------
(***************************************************************************)
(* What the recursive filters, the DC blocker (repair/dc_blocker.rs) and   *)
(* the biquad (filters/biquad.rs), have in common: a state by channel that *)
(* a step takes to the next frame, and a drain that ends when the state    *)
(* has decayed, or with the bound that prepare computed.  A state's y1 is  *)
(* the last sample it gave.  Samples are integers; a quotient is rounded   *)
(* towards zero, which also stands for the flushing of denormals.          *)
(***************************************************************************)
EXTENDS SubBlock, MemoryLayout

CONSTANTS
  TailFloor,     \* the drain is over when the state is below this
  TailHeadroom,  \* largest state the declared tail is meant for
  Unit           \* parts of the unit in which coefficients are given

ASSUME TailAssumption ==
  TailFloor \in Nat \ {0} /\ TailHeadroom \in Nat /\ Unit \in Nat \ {0}

\* x of a whole of d parts, rounded towards zero.
Quotient(x, d) == IF x < 0 THEN -((-x) \div d) ELSE x \div d

\* The run of a state's step over each plane.
RunStates(states, planes, Step(_, _)) ==
  LET ch == [c \in DOMAIN states |->
               FoldLeft(LAMBDA st, x : LET s == Step(st.s, FiniteOrZero(x))
                                       IN  [s |-> s, out |-> Append(st.out, s.y1)],
                        [s |-> states[c], out |-> <<>>], planes[c])]
  IN  [state |-> [c \in DOMAIN ch |-> ch[c].s], out |-> [c \in DOMAIN ch |-> ch[c].out]]

StatePeak(states) ==
  Max({0} \cup UNION {{Magnitude(states[c][f]) : f \in DOMAIN states[c]} : c \in DOMAIN states})

TailDone(k) == k.flushed >= k.tail_bound \/ StatePeak(k.state) < TailFloor

\* A drain that is over has given all it was to give.
Settle(k) == IF TailDone(k) THEN [k EXCEPT !.flushed = k.tail_bound] ELSE k

FlushStates(k, room, Step(_, _)) ==
  IF TailDone(k)
  THEN [kernel |-> Settle(k), out |-> Silence(Len(k.state), 0), frames |-> 0, done |-> TRUE]
  ELSE LET want == Min({room, k.tail_bound - k.flushed})
           run == RunStates(k.state, Silence(Len(k.state), want), Step)
           drained == [k EXCEPT !.state = run.state, !.flushed = @ + want]
       IN  [kernel |-> Settle(drained), out |-> run.out, frames |-> want,
            done |-> TailDone(drained)]
=============================================================================
