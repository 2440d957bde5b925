------------------------------ MODULE CF_ByteSet ------------------------------
(***************************************************************************)
(* The promise of a chunk list as a state machine: a set of bytes that     *)
(* learns ranges, forgets one smallest run when it would have to remember  *)
(* too many, and is consumed from the front.                               *)
(***************************************************************************)
EXTENDS CF_Runs

CONSTANTS MaxOffset,   \* offsets lie below MaxOffset
          MaxRuns      \* CF_ChunkList_t.max_chunks

VARIABLE held

Init == held = {}

(* CF_ChunkListAdd as its caller sees it. *)
Learn ==
  \E lo \in 0 .. MaxOffset - 1 : \E hi \in lo + 1 .. MaxOffset :
    held' \in LearnOutcomes(held, lo .. hi - 1, MaxRuns)

(* CF_ChunkList_RemoveFromFirst as its caller sees it: some bytes at the   *)
(* front of the first run, and no byte of another run.                     *)
Consume ==
  \E last \in held :
    /\ NumRuns({b \in held : b <= last}) = 1
    /\ held' = {b \in held : b > last}

Next == Learn \/ Consume

Spec == Init /\ [][Next]_held
===============================================================================
