------------------------------ MODULE CF_Chunks ------------------------------
(***************************************************************************)
(* The chunk list of src/fsw/src/cf_chunk.c: an array of [offset, size]    *)
(* pairs, sorted by offset, that a receiver uses to know which bytes of a  *)
(* file it holds and a sender to know which bytes it was asked to send     *)
(* again.  One operator per C function; a list is a sequence, so the       *)
(* C index i is position i + 1 and chunks->count is Len(c).                *)
(***************************************************************************)
EXTENDS CF_Runs, Sequences, SequencesExt

CONSTANTS MaxChunks,   \* max_chunks, the size of the array
          MaxOffset    \* bound of the model: every chunk ends at or below it

ASSUME MaxChunksAssumption == MaxChunks \in Nat \ {0}   \* CF_ChunkListInit
ASSUME MaxOffsetAssumption == MaxOffset \in Nat

Chunk == [offset : 0 .. MaxOffset - 1, size : 1 .. MaxOffset]

End(ch) == ch.offset + ch.size

EraseRange(c, start, end) ==
  IF start < end THEN SubSeq(c, 1, start - 1) \o SubSeq(c, end, Len(c)) ELSE c

EraseChunk(c, i) == RemoveAt(c, i)

InsertChunk(c, i, ch) == InsertAt(c, i, ch)

(***************************************************************************)
(* The binary search: Search[<<first, count>>] is the position found when  *)
(* count candidates from position first on remain.                         *)
(***************************************************************************)
FindInsertPosition(c, ch) ==
  LET Remaining == {w \in (1 .. Len(c) + 1) \X (0 .. Len(c)) : w[1] + w[2] <= Len(c) + 1}
      Search[w \in Remaining] ==
        LET first == w[1]
            count == w[2]
            step  == count \div 2
        IN  IF count = 0 THEN first
            ELSE IF c[first + step].offset < ch.offset
                   THEN Search[<<first + step + 1, count - step - 1>>]
                   ELSE Search[<<first, step>>]
  IN  Search[<<1, Len(c)>>]

(* Mutant: chunks that touch are not merged. *)
TouchesPrevious_OverlapOnly(c, i, ch) == i > 1 /\ ch.offset < End(c[i - 1])

(* Whether ch overlaps or touches the chunk before position i. *)
TouchesPrevious(c, i, ch) == i > 1 /\ ch.offset <= End(c[i - 1])

(* Mutant: the previous chunk shrinks when it reaches further. *)
CombinePrevious_Shrinks(c, i, ch) ==
  [c EXCEPT ![i - 1].size = End(ch) - c[i - 1].offset]

CombinePrevious(c, i, ch) ==
  IF End(c[i - 1]) < End(ch)
    THEN [c EXCEPT ![i - 1].size = End(ch) - c[i - 1].offset]
    ELSE c

(* The first position from i on whose chunk ch does not reach. *)
FirstApart(c, i, ch) ==
  Min({k \in i .. Len(c) + 1 : k = Len(c) + 1 \/ End(ch) < c[k].offset})

CombineNext(c, i, ch) ==
  LET apart == FirstApart(c, i, ch)
      end   == Max({End(c[apart - 1]), End(ch)})
      new   == [offset |-> ch.offset, size |-> end - ch.offset]
  IN  EraseRange([c EXCEPT ![i] = new], i + 1, apart)

FindSmallestSize(c) ==
  Min({i \in 1 .. Len(c) : \A j \in 1 .. Len(c) : c[i].size <= c[j].size})

(* CF_Chunks_Insert when nothing can be combined. *)
InsertApart(c, i, ch) ==
  LET smallest == FindSmallestSize(c)
      fewer    == EraseChunk(c, smallest)
  IN  IF Len(c) < MaxChunks THEN InsertChunk(c, i, ch)
      ELSE IF c[smallest].size < ch.size
             THEN InsertChunk(fewer, FindInsertPosition(fewer, ch), ch)
             ELSE c

Insert(c, i, ch) ==
  IF FirstApart(c, i, ch) # i
    THEN LET d == CombineNext(c, i, ch)
         IN  IF TouchesPrevious(d, i, d[i])
               THEN EraseChunk(CombinePrevious(d, i, d[i]), i)
               ELSE d
    ELSE IF TouchesPrevious(c, i, ch) THEN CombinePrevious(c, i, ch)
                                      ELSE InsertApart(c, i, ch)

ListAdd(c, offset, size) ==
  LET ch == [offset |-> offset, size |-> size]
  IN  Insert(c, FindInsertPosition(c, ch), ch)

RemoveFromFirst(c, size) ==
  IF size >= c[1].size
    THEN EraseChunk(c, 1)
    ELSE [c EXCEPT ![1] = [offset |-> @.offset + size, size |-> @.size - size]]

ReachesTotal(ch, total) == End(ch) >= total

(* Mutant: a gap runs on to the end of the file. *)
NextOff_Total(c, i, total) == total

NextOff(c, i, total) == IF i = Len(c) THEN total ELSE c[i + 1].offset

(***************************************************************************)
(* CF_ChunkList_ComputeGaps from offset 0, the only start its callers      *)
(* pass: the gaps it hands to its callback, in order.  Its loop reports    *)
(* the gap after each chunk up to the one at which it stops.               *)
(***************************************************************************)
ComputeGaps(c, maxGaps, total) ==
  LET Gap(from, to) == [offset |-> from, size |-> to - from]
      initial == IF c[1].offset > 0 THEN <<Gap(0, c[1].offset)>> ELSE <<>>
      stop == Min({i \in 1 .. Len(c) + 1 : \/ i > Len(c)
                                          \/ Len(initial) + i - 1 >= maxGaps
                                          \/ ReachesTotal(c[i], total)})
  IN  IF total = 0 THEN <<>>
      ELSE IF c = <<>> THEN <<Gap(0, total)>>
      ELSE initial \o [i \in 1 .. stop - 1 |-> Gap(End(c[i]), NextOff(c, i, total))]

(* The bytes that a sequence of chunks or gaps names. *)
BytesOf(c) == UNION {c[i].offset .. End(c[i]) - 1 : i \in DOMAIN c}

-------------------------------------------------------------------------------

VARIABLE chunks

Init == chunks = <<>>

AddBytes ==
  \E offset \in 0 .. MaxOffset - 1 : \E size \in 1 .. MaxOffset - offset :
    chunks' = ListAdd(chunks, offset, size)

(* The caller removes at most what it sent of the first chunk; a request   *)
(* for more than the chunk removes the chunk.                              *)
TakeBytes ==
  /\ chunks # <<>>
  /\ \E size \in 1 .. MaxOffset : chunks' = RemoveFromFirst(chunks, size)

Next == AddBytes \/ TakeBytes

Spec == Init /\ [][Next]_chunks

-------------------------------------------------------------------------------

(***************************************************************************)
(* The array never holds more than MaxChunks chunks, it stays sorted, and  *)
(* no two chunks touch or overlap: what the binary search and the gap walk *)
(* of cf_chunk.c rely on after any order of additions, merges, evictions   *)
(* and removals.                                                           *)
(***************************************************************************)
SortedApart ==
  /\ chunks \in Seq(Chunk) /\ Len(chunks) <= MaxChunks
  /\ \A i \in 1 .. Len(chunks) - 1 : End(chunks[i]) < chunks[i + 1].offset

(***************************************************************************)
(* The array implements the set of bytes of CF_ByteSet: an addition adds   *)
(* exactly its range, merging on both sides, and when the array is full it *)
(* forgets one smallest run and nothing else; a removal takes bytes of the *)
(* first run only.                                                         *)
(***************************************************************************)
ByteSet == INSTANCE CF_ByteSet WITH held <- BytesOf(chunks),
                                    MaxRuns <- MaxChunks
ImplementsByteSet == ByteSet!Spec

(***************************************************************************)
(* CF_CFDP_R_CheckComplete asks for one gap and reads "none" as "the file  *)
(* is complete": that is so exactly when every byte below total is held,   *)
(* for every file size, even when bytes beyond the file were received.     *)
(* The gaps that a NAK reports are missing bytes, in order, and are all of *)
(* them up to the limit, whenever nothing beyond the file was received.    *)
(***************************************************************************)
GapsAreMissingBytes ==
  \A total \in 0 .. MaxOffset :
    /\ (ComputeGaps(chunks, 1, total) = <<>>) <=> (Missing(BytesOf(chunks), total) = {})
    /\ \A maxGaps \in 0 .. MaxChunks + 1 :
         BytesOf(chunks) \subseteq 0 .. total - 1 =>
           BytesOf(ComputeGaps(chunks, maxGaps, total))
             = GapBytes(BytesOf(chunks), maxGaps, total)
===============================================================================
