------------------------------ MODULE Transfer ------------------------------
(***************************************************************************)
(* What writing and copying promise: the bytes of the source arrive in      *)
(* order and none twice, whatever has arrived is a prefix of the source,    *)
(* and the transfer is done only when all of it has.  A transfer may fail   *)
(* at any time, and what has arrived by then stays.                         *)
(***************************************************************************)
EXTENDS SequencesExt

CONSTANT Byte
VARIABLES source, moved, phase

vars == <<source, moved, phase>>

Init == phase = "idle" /\ source = <<>> /\ moved = <<>>

Begin == /\ phase = "idle" /\ phase' = "moving"
         /\ source' \in Seq(Byte) /\ moved' = <<>>

Move == /\ phase = "moving"
        /\ moved' # moved
        /\ IsPrefix(moved, moved') /\ IsPrefix(moved', source)
        /\ UNCHANGED <<source, phase>>

Finish == /\ phase = "moving" /\ moved = source
          /\ phase' = "done" /\ UNCHANGED <<source, moved>>

Fail == /\ phase = "moving"
        /\ phase' = "failed" /\ UNCHANGED <<source, moved>>

Forget == /\ phase \in {"done", "failed"} /\ phase' = "idle"
          /\ source' = <<>> /\ moved' = <<>>

Next == Begin \/ Move \/ Finish \/ Fail \/ Forget

Spec == Init /\ [][Next]_vars

\* A transfer that has begun ends.
Ends == phase = "moving" ~> phase # "moving"
=============================================================================
