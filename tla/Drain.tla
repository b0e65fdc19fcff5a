------------------------------- MODULE Drain --------------------------------
(***************************************************************************)
(* The contract of Processor::flush (contract/traits.rs, docs/src/         *)
(* core-contract.md, "Latency And Tail").  A drain hands over at most      *)
(* TailFrames frames however it is cut into calls.  Once a call has        *)
(* reported done, later calls write nothing and remain done.  Input or a   *)
(* reset starts a new drain.                                               *)
(***************************************************************************)
EXTENDS Naturals

CONSTANT TailFrames  \* the n of Tail::Frames(n)

VARIABLES
  given,  \* frames handed over in this drain
  ended   \* this drain has been reported done

vars == <<given, ended>>

Init == given = 0 /\ ended = FALSE

Flush(n) == /\ ~ ended \/ n = 0
            /\ given + n <= TailFrames
            /\ given' = given + n
            /\ ended' \in BOOLEAN
            /\ ended => ended'

Begin == given' = 0 /\ ended' = FALSE

Next == (\E n \in 0..TailFrames : Flush(n)) \/ Begin

Spec == Init /\ [][Next]_vars
=============================================================================
