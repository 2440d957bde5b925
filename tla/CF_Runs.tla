-------------------------------- MODULE CF_Runs --------------------------------
(***************************************************************************)
(* Sets of byte offsets seen as maximal runs of consecutive offsets: what  *)
(* a chunk list of cf_chunk.c means to the transaction that owns it.  A    *)
(* receiver keeps the bytes it holds, a sender the bytes it must send      *)
(* again.  CF_Chunks checks that the sorted array of chunks implements     *)
(* these operators; the transaction modules use them directly.             *)
(***************************************************************************)
EXTENDS Integers, FiniteSets

(* The bytes that start a maximal run of consecutive members of S. *)
RunStarts(S) == {b \in S : b - 1 \notin S}

(* The maximal run of S that contains b. *)
RunOf(S, b) == {c \in S : (b .. c) \cup (c .. b) \subseteq S}

(* The maximal runs of S. *)
Runs(S) == {RunOf(S, b) : b \in RunStarts(S)}

NumRuns(S) == Cardinality(RunStarts(S))

(* The runs of S than which no run of S is shorter. *)
SmallestRuns(S) ==
  {r \in Runs(S) : \A q \in Runs(S) : Cardinality(r) <= Cardinality(q)}

(***************************************************************************)
(* The sets that may result when the bytes of new are added to held: all   *)
(* of them, or all but one smallest run when there are more than maxRuns.  *)
(***************************************************************************)
LearnOutcomes(held, new, maxRuns) ==
  LET all == held \cup new
  IN  IF NumRuns(all) <= maxRuns
        THEN {all}
        ELSE {all \ r : r \in SmallestRuns(all)}

(* The bytes below total that are not held. *)
Missing(held, total) == (0 .. total - 1) \ held

(***************************************************************************)
(* The bytes below total that a gap report limited to maxGaps runs names:  *)
(* the first runs of missing bytes; a run that starts the file is reported *)
(* whatever the limit.                                                     *)
(***************************************************************************)
GapBytes(held, maxGaps, total) ==
  LET missing == Missing(held, total)
      Rank(b) == Cardinality({s \in RunStarts(missing) : s <= b})
  IN  {b \in missing : Rank(b) <= maxGaps \/ 0 .. b \subseteq missing}
===============================================================================
