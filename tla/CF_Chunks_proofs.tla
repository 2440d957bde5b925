--------------------------- MODULE CF_Chunks_proofs ---------------------------
(***************************************************************************)
(* Theorems about CF_Chunks: the array of cf_chunk.c stays sorted, with no *)
(* two chunks that touch, it implements the set of bytes of CF_ByteSet,    *)
(* and the gaps computed from it are the missing bytes.                    *)
(***************************************************************************)
EXTENDS CF_Chunks, CF_Facts_proofs

(* The chunks of a file: none ends beyond MaxOffset. *)
FileChunk == {ch \in Chunk : End(ch) <= MaxOffset}

Bytes(ch) == ch.offset .. End(ch) - 1

Apart(c) == \A i, j \in 1 .. Len(c) : i < j => End(c[i]) < c[j].offset

ListOK(c) == c \in Seq(FileChunk) /\ Apart(c)

ChunksInv == ListOK(chunks) /\ Len(chunks) <= MaxChunks

LEMMA ChunkIs ==
  ASSUME NEW ch \in FileChunk
  PROVE  /\ ch.offset \in Nat /\ ch.size \in Nat \ {0} /\ End(ch) \in Nat
         /\ End(ch) = ch.offset + ch.size /\ ch.offset < End(ch) /\ End(ch) <= MaxOffset
         /\ Bytes(ch) = ch.offset .. End(ch) - 1
BY MaxOffsetAssumption DEF FileChunk, Chunk, End, Bytes

LEMMA ChunkMade ==
  ASSUME NEW offset \in Nat, NEW size \in Nat \ {0}, offset + size <= MaxOffset
  PROVE  [offset |-> offset, size |-> size] \in FileChunk
BY MaxOffsetAssumption DEF FileChunk, Chunk, End

(* What every member of a list in order is. *)
LEMMA MemberIs ==
  ASSUME NEW c, ListOK(c)
  PROVE  /\ c \in Seq(FileChunk) /\ Len(c) \in Nat
         /\ \A i \in 1 .. Len(c) :
              /\ c[i] \in FileChunk
              /\ c[i].offset \in Nat /\ End(c[i]) \in Nat /\ c[i].size \in Nat \ {0}
              /\ End(c[i]) = c[i].offset + c[i].size
              /\ c[i].offset < End(c[i]) /\ End(c[i]) <= MaxOffset
         /\ \A i, j \in 1 .. Len(c) : i < j => End(c[i]) < c[j].offset
<1>1. c \in Seq(FileChunk) /\ Len(c) \in Nat /\ \A i \in 1 .. Len(c) : c[i] \in FileChunk
  BY DEF ListOK
<1> QED
  BY <1>1, ChunkIs DEF ListOK, Apart

-------------------------------------------------------------------------------
(* The binary search. *)

Remaining(c) == {w \in (1 .. Len(c) + 1) \X (0 .. Len(c)) : w[1] + w[2] <= Len(c) + 1}

LEMMA Halves ==
  ASSUME NEW n \in Nat, n # 0
  PROVE  n \div 2 \in Nat /\ n \div 2 < n
OBVIOUS

(* The candidates below and above the one that is looked at. *)
LEMMA FewerRemain ==
  ASSUME NEW c, Len(c) \in Nat, NEW w \in Remaining(c), w[2] # 0
  PROVE  LET step  == w[2] \div 2
             above == <<w[1] + step + 1, w[2] - step - 1>>
             below == <<w[1], step>>
         IN  /\ w[1] \in 1 .. Len(c) + 1 /\ w[2] \in 0 .. Len(c) /\ step \in Nat
             /\ w[1] + step \in 1 .. Len(c) /\ w[1] + step < w[1] + w[2]
             /\ above \in Remaining(c) /\ above[2] < w[2] /\ above[1] + above[2] = w[1] + w[2]
             /\ below \in Remaining(c) /\ below[2] < w[2]
             /\ above[1] = w[1] + step + 1 /\ above[2] \in Nat
             /\ below[1] = w[1] /\ below[2] = step
<1> DEFINE step == w[2] \div 2
<1>1. w[1] \in 1 .. Len(c) + 1 /\ w[2] \in 0 .. Len(c) /\ w[1] + w[2] <= Len(c) + 1
  BY DEF Remaining
<1>2. step \in Nat /\ step < w[2]
  BY <1>1, Halves
<1> HIDE DEF step
<1>3. /\ w[1] + step + 1 \in 1 .. Len(c) + 1 /\ w[2] - step - 1 \in 0 .. Len(c)
      /\ (w[1] + step + 1) + (w[2] - step - 1) = w[1] + w[2]
      /\ step \in 0 .. Len(c) /\ w[1] + step <= Len(c)
  <2>1. PICK x, y, n : x = w[1] /\ y = w[2] /\ n = Len(c)
    OBVIOUS
  <2>2. /\ x \in Nat /\ 1 <= x /\ y \in Nat /\ n \in Nat /\ x + y <= n + 1
        /\ step \in Nat /\ step < y
    BY <1>1, <1>2, <2>1
  <2>3. /\ x + step + 1 \in 1 .. n + 1 /\ y - step - 1 \in 0 .. n
        /\ (x + step + 1) + (y - step - 1) = x + y
        /\ step \in 0 .. n /\ x + step <= n
    BY <2>2
  <2> QED
    BY <2>1, <2>3
<1>4. <<w[1] + step + 1, w[2] - step - 1>> \in Remaining(c)
  BY <1>1, <1>3 DEF Remaining
<1>5. <<w[1], step>> \in Remaining(c)
  <2>1. step \in 0 .. Len(c) /\ w[1] + step <= Len(c) + 1
    BY <1>1, <1>3
  <2> QED
    BY <1>1, <2>1 DEF Remaining
<1>6. /\ <<w[1] + step + 1, w[2] - step - 1>>[1] = w[1] + step + 1
      /\ <<w[1] + step + 1, w[2] - step - 1>>[2] = w[2] - step - 1
      /\ <<w[1], step>>[1] = w[1] /\ <<w[1], step>>[2] = step
  OBVIOUS
<1>7. w[1] + step < w[1] + w[2] /\ w[2] - step - 1 < w[2] /\ w[1] + step \in 1 .. Len(c)
  <2>1. PICK first, count, n : first = w[1] /\ count = w[2] /\ n = Len(c)
    OBVIOUS
  <2>2. first \in Nat \ {0} /\ count \in Nat /\ n \in Nat /\ step \in Nat /\ step < count
        /\ first + step <= n
    <3>1. w[1] \in Nat \ {0} /\ w[2] \in Nat /\ Len(c) \in Nat
      BY <1>1
    <3>2. step \in Nat /\ step < w[2]
      BY <1>2
    <3> QED
      BY <1>3, <2>1, <3>1, <3>2
  <2>3. first + step < first + count
    BY <2>2
  <2>4. count - step - 1 < count
    BY <2>2
  <2>5. first + step \in 1 .. n
    BY <2>2
  <2> QED
    BY <2>1, <2>3, <2>4, <2>5
<1> QED
  BY <1>1, <1>2, <1>3, <1>4, <1>5, <1>6, <1>7 DEF step

Searched(c, ch, f, w) ==
  LET first == w[1]
      count == w[2]
      step  == count \div 2
  IN  IF count = 0 THEN first
      ELSE IF c[first + step].offset < ch.offset
             THEN f[<<first + step + 1, count - step - 1>>]
             ELSE f[<<first, step>>]

LEMMA SearchExists ==
  ASSUME NEW c, Len(c) \in Nat, NEW ch
  PROVE  \E f : f = [w \in Remaining(c) |-> Searched(c, ch, f, w)]
<1> DEFINE R == Remaining(c)
           Good(n) == \E f : f = [w \in R |-> IF w[2] <= n THEN Searched(c, ch, f, w) ELSE 0]
           G == {n \in Nat : Good(n)}
<1>1. \A w \in R : w[2] \in 0 .. Len(c)
  BY DEF Remaining
<1>2. 0 \in G
  <2> DEFINE f == [w \in R |-> IF w[2] <= 0 THEN w[1] ELSE 0]
  <2>1. \A w \in R : w[2] <= 0 => Searched(c, ch, f, w) = w[1]
    BY <1>1 DEF Searched
  <2>2. f = [w \in R |-> IF w[2] <= 0 THEN Searched(c, ch, f, w) ELSE 0]
    BY <2>1
  <2> HIDE DEF f
  <2> QED
    BY <2>2
<1>3. ASSUME NEW n \in Nat, n \in G PROVE n + 1 \in G
  <2>1. PICK f : f = [w \in R |-> IF w[2] <= n THEN Searched(c, ch, f, w) ELSE 0]
    BY <1>3
  <2> DEFINE g == [w \in R |-> IF w[2] <= n THEN f[w]
                               ELSE IF w[2] <= n + 1 THEN Searched(c, ch, f, w) ELSE 0]
  <2>2. ASSUME NEW w \in R, w[2] <= n + 1 PROVE g[w] = Searched(c, ch, g, w)
    <3>1. g[w] = Searched(c, ch, f, w)
      <4>1. w[2] <= n => f[w] = Searched(c, ch, f, w)
        BY <2>1
      <4> HIDE DEF R
      <4> QED
        BY <2>2, <4>1
    <3>2. \A v \in R : v[2] < w[2] => g[v] = f[v]
      BY <1>1, <2>2
    <3> HIDE DEF g
    <3>3. Searched(c, ch, g, w) = Searched(c, ch, f, w)
      <4>1. CASE w[2] = 0
        BY <4>1 DEF Searched
      <4>2. CASE w[2] # 0
        BY <3>2, <4>2, FewerRemain DEF Searched
      <4> QED
        BY <4>1, <4>2
    <3> QED
      BY <3>1, <3>3
  <2>3. \A w \in R : ~(w[2] <= n + 1) => g[w] = 0
    BY <1>1
  <2>4. g = [w \in R |-> g[w]]
    OBVIOUS
  <2> HIDE DEF g, R
  <2>5. g = [w \in R |-> IF w[2] <= n + 1 THEN Searched(c, ch, g, w) ELSE 0]
    BY <2>2, <2>3, <2>4
  <2> QED
    BY <2>5
<1> HIDE DEF G, R
<1>4. Good(Len(c))
  <2>1. Len(c) \in G
    BY <1>2, <1>3, Induction
  <2> QED
    BY <2>1 DEF G
<1>5. PICK f : f = [w \in R |-> IF w[2] <= Len(c) THEN Searched(c, ch, f, w) ELSE 0]
  BY <1>4
<1>6. f = [w \in R |-> Searched(c, ch, f, w)]
  BY <1>1, <1>5
<1> QED
  BY <1>6 DEF R

(* Position p of a list in order is where ch belongs. *)
Place(c, ch, p) ==
  /\ p \in 1 .. Len(c) + 1
  /\ \A k \in 1 .. Len(c) : IF k < p THEN c[k].offset < ch.offset
                                     ELSE ch.offset <= c[k].offset

LEMMA PositionIs ==
  ASSUME NEW c, ListOK(c), NEW ch, ch.offset \in Nat
  PROVE  Place(c, ch, FindInsertPosition(c, ch))
<1> DEFINE R == {w \in (1 .. Len(c) + 1) \X (0 .. Len(c)) : w[1] + w[2] <= Len(c) + 1}
           Search[w \in R] ==
             LET first == w[1]
                 count == w[2]
                 step  == count \div 2
             IN  IF count = 0 THEN first
                 ELSE IF c[first + step].offset < ch.offset
                        THEN Search[<<first + step + 1, count - step - 1>>]
                        ELSE Search[<<first, step>>]
           n == Len(c)
           Before(w) == \A k \in 1 .. n : k < w[1] => c[k].offset < ch.offset
           After(w) == \A k \in 1 .. n : w[1] + w[2] <= k => ch.offset <= c[k].offset
           G == {m \in Nat : \A w \in R :
                   w[2] <= m /\ Before(w) /\ After(w) => Place(c, ch, Search[w])}
<1>1. Search = [w \in R |-> Searched(c, ch, Search, w)]
  <2>1. \E f : f = [w \in R |-> Searched(c, ch, f, w)]
    BY MemberIs, SearchExists DEF Remaining
  <2> QED
    BY <2>1 DEF Searched
<1>2. FindInsertPosition(c, ch) = Search[<<1, Len(c)>>]
  BY DEF FindInsertPosition
<1>3. R = Remaining(c)
  BY DEF Remaining
<1>4. n \in Nat /\ \A w \in R : w[1] \in 1 .. n + 1 /\ w[2] \in 0 .. n
  BY MemberIs
<1> HIDE DEF Search, R
<1>5. ASSUME NEW w \in R, w[2] = 0, Before(w), After(w) PROVE Place(c, ch, Search[w])
  <2>1. Search[w] = w[1]
    BY <1>1, <1>5 DEF Searched
  <2>2. \A k \in 1 .. n : w[1] <= k => w[1] + w[2] <= k
    BY <1>4, <1>5
  <2> QED
    BY <1>4, <1>5, <2>1, <2>2 DEF Place
<1>6. 0 \in G
  BY <1>4, <1>5
<1>7. ASSUME NEW m \in Nat, m \in G PROVE m + 1 \in G
  <2> SUFFICES ASSUME NEW w \in R, w[2] <= m + 1, Before(w), After(w)
               PROVE  Place(c, ch, Search[w])
    OBVIOUS
  <2>1. CASE w[2] = 0
    BY <1>5, <2>1
  <2>2. CASE w[2] # 0
    <3> DEFINE step == w[2] \div 2
               at == w[1] + step
               above == <<w[1] + step + 1, w[2] - step - 1>>
               below == <<w[1], step>>
    <3>1. /\ at \in 1 .. n /\ step \in Nat /\ w[1] \in 1 .. n + 1 /\ w[2] \in 0 .. n
          /\ above \in R /\ above[2] < w[2] /\ above[2] \in Nat
          /\ above[1] + above[2] = w[1] + w[2] /\ above[1] = at + 1
          /\ below \in R /\ below[2] < w[2] /\ below[1] = w[1] /\ below[2] = step
      BY <1>3, <1>4, <2>2, FewerRemain
    <3>2. Search[w] = IF c[at].offset < ch.offset THEN Search[above] ELSE Search[below]
      BY <1>1, <2>2 DEF Searched
    <3>3. \A k, j \in 1 .. n : k < j => c[k].offset < c[j].offset
      BY MemberIs
    <3>4. \A k \in 1 .. n : c[k].offset \in Nat
      BY MemberIs
    <3> HIDE DEF above, below, step, at
    <3>5. CASE c[at].offset < ch.offset
      <4>1. Before(above)
        <5> SUFFICES ASSUME NEW k \in 1 .. n, k < at + 1 PROVE c[k].offset < ch.offset
          BY <3>1
        <5>1. k = at \/ k < at
          BY <3>1
        <5>2. k < at => c[k].offset < c[at].offset
          BY <3>1, <3>3
        <5>3. c[k].offset \in Nat /\ c[at].offset \in Nat
          BY <3>1, <3>4
        <5> QED
          BY <3>5, <5>1, <5>2, <5>3
      <4>2. After(above) /\ above[2] <= m
        BY <3>1
      <4> QED
        BY <1>7, <3>1, <3>2, <3>5, <4>1, <4>2
    <3>6. CASE ~(c[at].offset < ch.offset)
      <4>1. After(below)
        <5> SUFFICES ASSUME NEW k \in 1 .. n, w[1] + step <= k PROVE ch.offset <= c[k].offset
          BY <3>1
        <5>1. k = at \/ at < k
          BY <3>1 DEF at
        <5>2. at < k => c[at].offset < c[k].offset
          BY <3>1, <3>3
        <5>3. PICK o, p, q : o = ch.offset /\ p = c[at].offset /\ q = c[k].offset
          OBVIOUS
        <5>4. /\ o \in Nat /\ p \in Nat /\ q \in Nat /\ ~(p < o)
              /\ p = q \/ p < q
          BY <3>1, <3>4, <3>6, <5>1, <5>2, <5>3
        <5>5. o <= q
          BY <5>4
        <5> QED
          BY <5>3, <5>5
      <4>2. Before(below) /\ below[2] <= m
        BY <3>1
      <4> QED
        BY <1>7, <3>1, <3>2, <3>6, <4>1, <4>2
    <3> QED
      BY <3>5, <3>6
  <2> QED
    BY <2>1, <2>2
<1> HIDE DEF G
<1>8. n \in G
  BY <1>4, <1>6, <1>7, Induction
<1>9. LET w == <<1, n>> IN w \in R /\ w[2] <= n /\ Before(w) /\ After(w)
  BY <1>4 DEF R
<1> QED
  BY <1>2, <1>8, <1>9 DEF G

-------------------------------------------------------------------------------
(* The bytes of a list in order, and their runs. *)

LEMMA BytesAre ==
  ASSUME NEW c \in Seq(FileChunk)
  PROVE  /\ \A b : b \in BytesOf(c) <=> \E i \in 1 .. Len(c) : b \in Bytes(c[i])
         /\ BytesOf(c) \subseteq Nat
<1>1. DOMAIN c = 1 .. Len(c) /\ \A i \in 1 .. Len(c) : c[i] \in FileChunk
  BY LenProperties
<1>2. \A b : b \in BytesOf(c) <=> \E i \in 1 .. Len(c) : b \in Bytes(c[i])
  BY <1>1 DEF BytesOf, Bytes
<1>3. \A i \in 1 .. Len(c) : Bytes(c[i]) \subseteq Nat
  BY <1>1, ChunkIs
<1> QED
  BY <1>2, <1>3

LEMMA InChunk ==
  ASSUME NEW ch \in FileChunk, NEW b
  PROVE  b \in Bytes(ch) <=> b \in Nat /\ ch.offset <= b /\ b < End(ch)
BY ChunkIs

(* The bytes next to a chunk are in no chunk.                              *)
LEMMA Neighbours ==
  ASSUME NEW c, ListOK(c), NEW i \in 1 .. Len(c)
  PROVE  /\ End(c[i]) \notin BytesOf(c)
         /\ c[i].offset - 1 \notin BytesOf(c)
         /\ c[i].offset \in BytesOf(c)
         /\ Bytes(c[i]) \subseteq BytesOf(c)
<1>1. c \in Seq(FileChunk)
  BY DEF ListOK
<1>2. ASSUME NEW j \in 1 .. Len(c)
      PROVE  End(c[i]) \notin Bytes(c[j]) /\ c[i].offset - 1 \notin Bytes(c[j])
  <2>1. i < j \/ i = j \/ j < i
    OBVIOUS
  <2>2. /\ i < j => End(c[i]) < c[j].offset
        /\ j < i => End(c[j]) < c[i].offset
    BY MemberIs
  <2>3. /\ c[i] \in FileChunk /\ c[i].offset \in Nat /\ End(c[i]) \in Nat
        /\ c[j] \in FileChunk /\ c[j].offset \in Nat /\ End(c[j]) \in Nat
        /\ c[i].offset < End(c[i]) /\ c[j].offset < End(c[j])
    BY MemberIs
  <2>4. ~(c[j].offset <= End(c[i]) /\ End(c[i]) < End(c[j]))
    BY <2>1, <2>2, <2>3
  <2>5. ~(c[j].offset <= c[i].offset - 1 /\ c[i].offset - 1 < End(c[j]))
    BY <2>1, <2>2, <2>3
  <2> QED
    BY <2>3, <2>4, <2>5, InChunk
<1>3. c[i].offset \in Bytes(c[i])
  BY MemberIs, InChunk
<1> QED
  BY <1>1, <1>2, <1>3, BytesAre

LEMMA RunStartsAre ==
  ASSUME NEW c, ListOK(c)
  PROVE  /\ RunStarts(BytesOf(c)) = {c[i].offset : i \in 1 .. Len(c)}
         /\ NumRuns(BytesOf(c)) = Len(c)
<1>1. c \in Seq(FileChunk) /\ Len(c) \in Nat
  BY MemberIs
<1>2. ASSUME NEW b \in BytesOf(c), b - 1 \notin BytesOf(c)
      PROVE  \E i \in 1 .. Len(c) : b = c[i].offset
  <2>1. PICK i \in 1 .. Len(c) : b \in Bytes(c[i])
    BY <1>1, BytesAre
  <2>2. c[i] \in FileChunk /\ c[i].offset \in Nat /\ End(c[i]) \in Nat
    BY MemberIs
  <2>3. b \in Nat /\ c[i].offset <= b /\ b < End(c[i])
    BY <2>1, <2>2, InChunk
  <2>4. b - 1 \notin Bytes(c[i])
    BY <1>1, <1>2, BytesAre
  <2>5. ~(b - 1 \in Nat /\ c[i].offset <= b - 1 /\ b - 1 < End(c[i]))
    BY <2>2, <2>4, InChunk
  <2> QED
    BY <2>2, <2>3, <2>5
<1>3. RunStarts(BytesOf(c)) = {c[i].offset : i \in 1 .. Len(c)}
  BY <1>2, Neighbours DEF RunStarts
<1>4. Cardinality({c[i].offset : i \in 1 .. Len(c)}) = Len(c)
  <2> DEFINE T == {c[i].offset : i \in 1 .. Len(c)}
             f == [i \in 1 .. Len(c) |-> c[i].offset]
  <2>1. \A i, j \in 1 .. Len(c) : i # j => c[i].offset # c[j].offset
    <3> SUFFICES ASSUME NEW i \in 1 .. Len(c), NEW j \in 1 .. Len(c), i < j
                 PROVE  c[i].offset # c[j].offset
      OBVIOUS
    <3> QED
      BY MemberIs
  <2>2. f \in [1 .. Len(c) -> T] /\ DOMAIN f = 1 .. Len(c)
    OBVIOUS
  <2>3. \A i, j \in 1 .. Len(c) : f[i] = f[j] => i = j
    BY <2>1
  <2>4. \A t \in T : \E i \in 1 .. Len(c) : f[i] = t
    OBVIOUS
  <2> HIDE DEF f, T
  <2>5. f \in Surjection(1 .. Len(c), T) /\ f \in Injection(1 .. Len(c), T)
    BY <2>2, <2>3, <2>4 DEF Surjection, Injection, IsInjective
  <2>6. IsFiniteSet(1 .. Len(c)) /\ Cardinality(1 .. Len(c)) = Len(c)
    <3>1. PICK n : n = Len(c) /\ n \in Nat
      BY <1>1
    <3>2. 1 \in Int /\ n \in Int /\ (IF 1 > n THEN 0 ELSE n - 1 + 1) = n
      BY <3>1
    <3>3. IsFiniteSet(1 .. n) /\ Cardinality(1 .. n) = n
      BY <3>2, FS_Interval
    <3> QED
      BY <3>1, <3>3
  <2>7. Cardinality(T) = Cardinality(1 .. Len(c))
    BY <2>5, <2>6, FS_Surjection
  <2> QED
    BY <2>6, <2>7 DEF T
<1> QED
  BY <1>3, <1>4 DEF NumRuns

LEMMA RunIs ==
  ASSUME NEW c, ListOK(c), NEW i \in 1 .. Len(c)
  PROVE  RunOf(BytesOf(c), c[i].offset) = Bytes(c[i])
<1> DEFINE S == BytesOf(c)
           b == c[i].offset
<1>1. /\ c[i] \in FileChunk /\ b \in Nat /\ End(c[i]) \in Nat /\ b < End(c[i])
      /\ c \in Seq(FileChunk)
  BY MemberIs
<1>2. b \in S /\ End(c[i]) \notin S /\ b - 1 \notin S /\ Bytes(c[i]) \subseteq S /\ S \subseteq Nat
  BY <1>1, Neighbours, BytesAre
<1> HIDE DEF b, S
<1>3. ASSUME NEW x \in S, (b .. x) \cup (x .. b) \subseteq S PROVE x \in Bytes(c[i])
  <2>1. x \in Nat
    BY <1>2
  <2>2. x < End(c[i])
    <3> SUFFICES ASSUME End(c[i]) <= x PROVE FALSE
      BY <1>1, <2>1
    <3>1. End(c[i]) \in b .. x
      BY <1>1, <2>1
    <3> QED
      BY <1>2, <1>3, <3>1
  <2>3. b <= x
    <3> SUFFICES ASSUME x <= b - 1 PROVE FALSE
      BY <1>1, <2>1
    <3>1. b - 1 \in x .. b
      BY <1>1, <2>1
    <3> QED
      BY <1>2, <1>3, <3>1
  <2> QED
    BY <1>1, <2>1, <2>2, <2>3, InChunk DEF b
<1>4. ASSUME NEW x \in Bytes(c[i]) PROVE x \in S /\ (b .. x) \cup (x .. b) \subseteq S
  <2>1. x \in Nat /\ b <= x /\ x < End(c[i]) /\ x \in S
    BY <1>1, <1>2, <1>4, InChunk DEF b
  <2>2. ASSUME NEW y \in (b .. x) \cup (x .. b) PROVE y \in S
    <3>1. y \in Nat /\ b <= y /\ y < End(c[i])
      BY <1>1, <2>1, <2>2
    <3>2. y \in Bytes(c[i])
      BY <1>1, <3>1, InChunk DEF b
    <3> QED
      BY <1>2, <3>2
  <2> QED
    BY <2>1, <2>2
<1>5. RunOf(S, b) = Bytes(c[i])
  BY <1>3, <1>4 DEF RunOf
<1> QED
  BY <1>5 DEF S, b

LEMMA SizeIs ==
  ASSUME NEW ch \in FileChunk
  PROVE  Cardinality(Bytes(ch)) = ch.size
<1>1. /\ ch.offset \in Int /\ End(ch) - 1 \in Int /\ Bytes(ch) = ch.offset .. End(ch) - 1
      /\ ch.offset <= End(ch) - 1 /\ (End(ch) - 1) - ch.offset + 1 = ch.size
  BY ChunkIs
<1> QED
  BY <1>1, FS_Interval

(* A chunk than which none is smaller is a smallest run.                   *)
LEMMA SmallestIs ==
  ASSUME NEW c, ListOK(c), NEW i \in 1 .. Len(c),
         \A j \in 1 .. Len(c) : c[i].size <= c[j].size
  PROVE  Bytes(c[i]) \in SmallestRuns(BytesOf(c))
<1>1. Runs(BytesOf(c)) = {Bytes(c[j]) : j \in 1 .. Len(c)}
  BY RunStartsAre, RunIs DEF Runs
<1>2. \A j \in 1 .. Len(c) : Cardinality(Bytes(c[j])) = c[j].size
  BY MemberIs, SizeIs
<1> QED
  BY <1>1, <1>2 DEF SmallestRuns

-------------------------------------------------------------------------------
(* A chunk takes the place of some of the list. *)

(* In r, new has taken the place of positions lo to hi - 1 of c.           *)
Replaced(c, r, lo, hi, new) ==
  /\ r \in Seq(FileChunk) /\ Len(r) = Len(c) - (hi - lo) + 1
  /\ \A k \in 1 .. Len(r) : /\ k < lo => r[k] = c[k]
                            /\ k = lo => r[k] = new
                            /\ k > lo => r[k] = c[k + (hi - lo) - 1]

(* The chunk new fits between those before lo and those from hi on.        *)
Fits(c, lo, hi, new) ==
  /\ lo \in 1 .. Len(c) + 1 /\ hi \in lo .. Len(c) + 1 /\ new \in FileChunk
  /\ \A k \in 1 .. Len(c) : /\ k < lo => End(c[k]) < new.offset
                            /\ k >= hi => End(new) < c[k].offset

LEMMA ReplacedInOrder ==
  ASSUME NEW c, ListOK(c), NEW lo, NEW hi, NEW new, NEW r,
         Fits(c, lo, hi, new), Replaced(c, r, lo, hi, new)
  PROVE  ListOK(r)
<1>1. /\ Len(c) \in Nat /\ lo \in 1 .. Len(c) + 1 /\ hi \in lo .. Len(c) + 1
      /\ Len(r) = Len(c) - (hi - lo) + 1
  BY MemberIs DEF Fits, Replaced
<1>2. ASSUME NEW i \in 1 .. Len(r), NEW j \in 1 .. Len(r), i < j
      PROVE  End(r[i]) < r[j].offset
  <2>1. CASE j < lo
    <3>1. /\ i \in 1 .. Len(c) /\ j \in 1 .. Len(c) /\ i < lo
      BY <1>1, <1>2, <2>1
    <3>2. r[i] = c[i] /\ r[j] = c[j]
      BY <2>1, <3>1 DEF Replaced
    <3> QED
      BY <1>2, <3>1, <3>2, MemberIs
  <2>2. CASE j = lo
    <3>1. i \in 1 .. Len(c) /\ i < lo
      BY <1>1, <1>2, <2>2
    <3>2. r[i] = c[i] /\ r[j] = new
      BY <2>2, <3>1 DEF Replaced
    <3> QED
      BY <3>1, <3>2 DEF Fits
  <2>3. CASE j > lo
    <3> DEFINE b == j + (hi - lo) - 1
               a == i + (hi - lo) - 1
    <3>1. b \in 1 .. Len(c) /\ b >= hi /\ r[j] = c[b]
      <4>1. b \in 1 .. Len(c) /\ b >= hi
        BY <1>1, <2>3
      <4> QED
        BY <2>3, <4>1 DEF Replaced
    <3>2. CASE i < lo
      <4>1. i \in 1 .. Len(c) /\ i < b
        BY <1>1, <2>3, <3>1, <3>2
      <4>2. r[i] = c[i]
        BY <3>2 DEF Replaced
      <4> QED
        BY <3>1, <4>1, <4>2, MemberIs
    <3>3. CASE i = lo
      <4>1. r[i] = new
        BY <3>3 DEF Replaced
      <4> QED
        BY <3>1, <4>1 DEF Fits
    <3>4. CASE i > lo
      <4>1. a \in 1 .. Len(c) /\ a < b
        BY <1>1, <1>2, <3>1, <3>4
      <4>2. r[i] = c[a]
        BY <3>4 DEF Replaced
      <4> QED
        BY <3>1, <4>1, <4>2, MemberIs
    <3> QED
      BY <1>1, <3>2, <3>3, <3>4
  <2> QED
    BY <1>1, <2>1, <2>2, <2>3
<1> QED
  BY <1>2 DEF ListOK, Apart, Replaced

LEMMA ReplacedBytes ==
  ASSUME NEW c, ListOK(c), NEW lo, NEW hi, NEW new, NEW r,
         Fits(c, lo, hi, new), Replaced(c, r, lo, hi, new),
         \A k \in lo .. hi - 1 : Bytes(c[k]) \subseteq Bytes(new)
  PROVE  BytesOf(r) = BytesOf(c) \cup Bytes(new)
<1>1. /\ Len(c) \in Nat /\ lo \in 1 .. Len(c) + 1 /\ hi \in lo .. Len(c) + 1
      /\ Len(r) = Len(c) - (hi - lo) + 1 /\ r \in Seq(FileChunk) /\ c \in Seq(FileChunk)
  BY MemberIs DEF Fits, Replaced
<1>2. ASSUME NEW j \in 1 .. Len(r)
      PROVE  r[j] = new \/ \E k \in 1 .. Len(c) : r[j] = c[k]
  <2>1. CASE j < lo
    <3>1. j \in 1 .. Len(c) /\ r[j] = c[j]
      BY <1>1, <2>1 DEF Replaced
    <3> QED
      BY <3>1
  <2>2. CASE j = lo
    BY <2>2 DEF Replaced
  <2>3. CASE j > lo
    <3>1. j + (hi - lo) - 1 \in 1 .. Len(c) /\ r[j] = c[j + (hi - lo) - 1]
      <4>1. j + (hi - lo) - 1 \in 1 .. Len(c)
        BY <1>1, <2>3
      <4> QED
        BY <2>3, <4>1 DEF Replaced
    <3> QED
      BY <3>1
  <2>4. j < lo \/ j = lo \/ j > lo
    BY <1>1
  <2> QED
    BY <2>1, <2>2, <2>3, <2>4
<1>3. ASSUME NEW k \in 1 .. Len(c)
      PROVE  Bytes(c[k]) \subseteq Bytes(new) \/ \E j \in 1 .. Len(r) : r[j] = c[k]
  <2>1. CASE k < lo
    <3>1. k \in 1 .. Len(r) /\ r[k] = c[k]
      <4>1. k \in 1 .. Len(r)
        BY <1>1, <2>1
      <4> QED
        BY <2>1, <4>1 DEF Replaced
    <3> QED
      BY <3>1
  <2>2. CASE k \in lo .. hi - 1
    BY <2>2
  <2>3. CASE k >= hi
    <3> DEFINE j == k - (hi - lo) + 1
    <3>1. j \in 1 .. Len(r) /\ j > lo /\ j + (hi - lo) - 1 = k
      BY <1>1, <2>3
    <3>2. r[j] = c[k]
      BY <3>1 DEF Replaced
    <3> QED
      BY <3>1, <3>2
  <2> QED
    BY <1>1, <2>1, <2>2, <2>3
<1>4. \E j \in 1 .. Len(r) : r[j] = new
  <2>1. lo \in 1 .. Len(r)
    BY <1>1
  <2> QED
    BY <2>1 DEF Replaced
<1>5. \A b : b \in BytesOf(r) <=> \E j \in 1 .. Len(r) : b \in Bytes(r[j])
  BY <1>1, BytesAre
<1>6. \A b : b \in BytesOf(c) <=> \E k \in 1 .. Len(c) : b \in Bytes(c[k])
  BY <1>1, BytesAre
<1> QED
  BY <1>2, <1>3, <1>4, <1>5, <1>6

LEMMA EraseRangeIs ==
  ASSUME NEW S, NEW s \in Seq(S), NEW lo \in 1 .. Len(s) + 1, NEW hi \in lo .. Len(s) + 1,
         NEW r, r = EraseRange(s, lo, hi)
  PROVE  /\ r \in Seq(S) /\ Len(r) = Len(s) - (hi - lo)
         /\ \A k \in 1 .. Len(r) : r[k] = IF k < lo THEN s[k] ELSE s[k + (hi - lo)]
<1>1. CASE lo = hi
  <2>1. ~(lo < hi) /\ hi - lo = 0 /\ \A k \in 1 .. Len(s) : k + 0 = k
    BY <1>1
  <2>2. r = s
    BY <2>1, Zenon DEF EraseRange
  <2> QED
    BY <2>1, <2>2
<1>2. CASE lo < hi
  <2> DEFINE a == SubSeq(s, 1, lo - 1)
             b == SubSeq(s, hi, Len(s))
  <2>1. Len(s) \in Nat /\ lo \in 1 .. Len(s) + 1 /\ hi \in lo .. Len(s) + 1
    OBVIOUS
  <2>2. r = a \o b
    BY <1>2, Zenon DEF EraseRange
  <2>3. a \in Seq(S) /\ Len(a) = lo - 1 /\ \A k \in 1 .. lo - 1 : a[k] = s[k]
    <3>1. 1 \in 1 .. Len(s) + 1 /\ lo - 1 \in 0 .. Len(s)
      BY <2>1
    <3>2. /\ a \in Seq(S) /\ Len(a) = (lo - 1) - 1 + 1
          /\ \A k \in 1 .. (lo - 1) - 1 + 1 : a[k] = s[1 + k - 1]
      BY <2>1, <3>1, SubSeqProperties
    <3>3. (lo - 1) - 1 + 1 = lo - 1 /\ \A k \in 1 .. lo - 1 : 1 + k - 1 = k
      BY <2>1
    <3> QED
      BY <3>2, <3>3
  <2>4. /\ b \in Seq(S) /\ Len(b) = Len(s) - hi + 1
        /\ \A k \in 1 .. Len(s) - hi + 1 : b[k] = s[hi + k - 1]
    <3>1. hi \in 1 .. Len(s) + 1 /\ Len(s) \in hi - 1 .. Len(s)
      BY <2>1
    <3> QED
      BY <2>1, <3>1, SubSeqProperties
  <2> HIDE DEF a, b
  <2>5. /\ r \in Seq(S) /\ Len(r) = Len(a) + Len(b)
        /\ \A k \in 1 .. Len(a) + Len(b) : r[k] = IF k <= Len(a) THEN a[k] ELSE b[k - Len(a)]
    <3>1. /\ (a \o b) \in Seq(S) /\ Len(a \o b) = Len(a) + Len(b)
          /\ \A k \in 1 .. Len(a) + Len(b) :
               (a \o b)[k] = IF k <= Len(a) THEN a[k] ELSE b[k - Len(a)]
      BY <2>3, <2>4, ConcatProperties
    <3> QED
      BY <2>2, <3>1, Zenon
  <2>6. Len(r) = Len(s) - (hi - lo)
    BY <2>1, <2>3, <2>4, <2>5
  <2>7. ASSUME NEW k \in 1 .. Len(r) PROVE r[k] = IF k < lo THEN s[k] ELSE s[k + (hi - lo)]
    <3>1. CASE k < lo
      <4>1. k <= Len(a) /\ k \in 1 .. lo - 1 /\ k \in 1 .. Len(a) + Len(b)
        BY <2>1, <2>3, <2>5, <3>1
      <4> QED
        BY <2>3, <2>5, <3>1, <4>1
    <3>2. CASE ~(k < lo)
      <4>1. /\ ~(k <= Len(a)) /\ k - Len(a) \in 1 .. Len(s) - hi + 1
            /\ k \in 1 .. Len(a) + Len(b) /\ hi + (k - Len(a)) - 1 = k + (hi - lo)
        BY <2>1, <2>3, <2>4, <2>5, <2>6, <3>2
      <4> QED
        BY <2>4, <2>5, <3>2, <4>1
    <3> QED
      BY <3>1, <3>2
  <2> QED
    BY <2>5, <2>6, <2>7
<1> QED
  BY <1>1, <1>2

-------------------------------------------------------------------------------
(* The functions of cf_chunk.c. *)

LEMMA FirstApartIs ==
  ASSUME NEW c, ListOK(c), NEW i \in 1 .. Len(c) + 1, NEW ch \in FileChunk,
         NEW a, a = FirstApart(c, i, ch)
  PROVE  /\ a \in i .. Len(c) + 1
         /\ \A k \in 1 .. Len(c) : k \in i .. a - 1 => c[k].offset <= End(ch)
         /\ \A k \in 1 .. Len(c) : k >= a => End(ch) < c[k].offset
<1> DEFINE T == {k \in i .. Len(c) + 1 : k = Len(c) + 1 \/ End(ch) < c[k].offset}
<1>1. Len(c) \in Nat /\ i \in Nat /\ End(ch) \in Nat
  BY MemberIs, ChunkIs
<1>2. T \subseteq Nat /\ Len(c) + 1 \in T
  BY <1>1
<1>3. a = Min(T)
  BY DEF FirstApart
<1>4. a \in T /\ \A k \in T : a <= k
  <2> HIDE DEF T
  <2> QED
    BY <1>2, <1>3, MinProperties
<1>5. a \in i .. Len(c) + 1
  BY <1>4
<1>6. ASSUME NEW k \in 1 .. Len(c), k \in i .. a - 1 PROVE c[k].offset <= End(ch)
  <2>1. c[k].offset \in Nat
    BY MemberIs
  <2>2. k \in i .. Len(c) + 1 /\ ~(a <= k)
    BY <1>1, <1>5, <1>6
  <2>3. ~(End(ch) < c[k].offset)
    BY <1>4, <2>2
  <2> QED
    BY <1>1, <2>1, <2>3
<1>7. ASSUME NEW k \in 1 .. Len(c), k >= a PROVE End(ch) < c[k].offset
  <2>1. a \in 1 .. Len(c)
    BY <1>1, <1>5, <1>7
  <2>2. End(ch) < c[a].offset
    BY <1>1, <1>4, <2>1
  <2>3. k = a \/ c[a].offset < c[k].offset
    <3>1. k = a \/ a < k
      BY <1>7, <2>1
    <3> QED
      BY <2>1, <3>1, MemberIs
  <2>4. c[a].offset \in Nat /\ c[k].offset \in Nat
    BY <2>1, MemberIs
  <2> QED
    BY <1>1, <2>2, <2>3, <2>4
<1> QED
  BY <1>5, <1>6, <1>7

LEMMA LargerIs ==
  ASSUME NEW x \in Nat, NEW y \in Nat
  PROVE  /\ Max({x, y}) \in {x, y} /\ Max({x, y}) \in Nat
         /\ x <= Max({x, y}) /\ y <= Max({x, y})
<1>1. {x, y} \subseteq 0 .. x + y /\ {x, y} # {} /\ x + y \in Nat
  OBVIOUS
<1>2. Max({x, y}) \in {x, y} /\ \A z \in {x, y} : z <= Max({x, y})
  BY <1>1, MaxProperties
<1> QED
  BY <1>2

(* What takes the place of the chunks that ch reaches.                     *)
LEMMA CombineNextIs ==
  ASSUME NEW c, ListOK(c), NEW i, NEW ch \in FileChunk, Place(c, ch, i),
         NEW a, a = FirstApart(c, i, ch), a # i, NEW r, r = CombineNext(c, i, ch)
  PROVE  \E new \in FileChunk :
           /\ i \in 1 .. Len(c) /\ a \in i + 1 .. Len(c) + 1
           /\ new.offset = ch.offset
           /\ End(new) \in {End(c[a - 1]), End(ch)}
           /\ End(c[a - 1]) <= End(new) /\ End(ch) <= End(new)
           /\ Replaced(c, r, i, a, new)
<1> DEFINE end == Max({End(c[a - 1]), End(ch)})
           new == [offset |-> ch.offset, size |-> end - ch.offset]
           d == [c EXCEPT ![i] = new]
<1>1. Len(c) \in Nat /\ i \in 1 .. Len(c) + 1
  BY MemberIs DEF Place
<1>2. a \in i .. Len(c) + 1
  BY <1>1, FirstApartIs
<1>3. i \in 1 .. Len(c) /\ a \in i + 1 .. Len(c) + 1 /\ a - 1 \in 1 .. Len(c)
  BY <1>1, <1>2
<1>4. /\ c[a - 1] \in FileChunk /\ End(c[a - 1]) \in Nat /\ End(c[a - 1]) <= MaxOffset
      /\ End(ch) \in Nat /\ End(ch) <= MaxOffset /\ ch.offset \in Nat /\ ch.offset < End(ch)
  BY <1>3, MemberIs, ChunkIs
<1>5. /\ end \in {End(c[a - 1]), End(ch)} /\ end \in Nat
      /\ End(c[a - 1]) <= end /\ End(ch) <= end
  BY <1>4, LargerIs
<1> HIDE DEF end
<1>6. new \in FileChunk /\ new.offset = ch.offset /\ End(new) = end
  <2>1. end - ch.offset \in Nat \ {0} /\ ch.offset + (end - ch.offset) = end /\ end <= MaxOffset
    BY <1>4, <1>5
  <2> QED
    BY <1>4, <2>1, ChunkMade DEF End
<1>7. r = EraseRange(d, i + 1, a)
  BY DEF CombineNext, end
<1> HIDE DEF new
<1>8. /\ d \in Seq(FileChunk) /\ Len(d) = Len(c)
      /\ \A k \in 1 .. Len(c) : d[k] = IF k = i THEN new ELSE c[k]
  <2>1. c \in Seq(FileChunk) /\ DOMAIN c = 1 .. Len(c)
    BY MemberIs, LenProperties
  <2> QED
    BY <1>3, <1>6, <2>1, ExceptSeq
<1>9. /\ r \in Seq(FileChunk) /\ Len(r) = Len(d) - (a - (i + 1))
      /\ \A k \in 1 .. Len(r) : r[k] = IF k < i + 1 THEN d[k] ELSE d[k + (a - (i + 1))]
  <2>1. i + 1 \in 1 .. Len(d) + 1 /\ a \in i + 1 .. Len(d) + 1
    BY <1>1, <1>3, <1>8
  <2>2. d \in Seq(FileChunk)
    BY <1>8
  <2> HIDE DEF d
  <2> QED
    BY <1>7, <2>1, <2>2, EraseRangeIs
<1> HIDE DEF d
<1>10. Replaced(c, r, i, a, new)
  <2>1. Len(r) = Len(c) - (a - i) + 1
    BY <1>1, <1>3, <1>8, <1>9
  <2>2. ASSUME NEW k \in 1 .. Len(r)
        PROVE  /\ k < i => r[k] = c[k]
               /\ k = i => r[k] = new
               /\ k > i => r[k] = c[k + (a - i) - 1]
    <3>1. k <= i => k \in 1 .. Len(c) /\ r[k] = d[k]
      BY <1>1, <1>3, <1>9
    <3>2. k > i => /\ k + (a - i) - 1 \in 1 .. Len(c) /\ k + (a - i) - 1 # i
                   /\ k + (a - i) - 1 = k + (a - (i + 1)) /\ r[k] = d[k + (a - (i + 1))]
      <4>1. PICK n, m : n = Len(c) /\ m = Len(r)
        OBVIOUS
      <4>2. /\ n \in Nat /\ m = n - (a - i) + 1 /\ k \in 1 .. m
            /\ i \in 1 .. n /\ a \in i + 1 .. n + 1
        BY <1>1, <1>3, <2>1, <4>1
      <4>3. k > i => /\ k + (a - i) - 1 \in 1 .. n /\ k + (a - i) - 1 # i /\ ~(k < i + 1)
                     /\ k + (a - i) - 1 = k + (a - (i + 1))
        <5>1. /\ n \in Nat /\ i \in Nat /\ a \in Nat /\ k \in Nat /\ 1 <= i
              /\ i + 1 <= a /\ k <= n - (a - i) + 1
          BY <4>2
        <5>2. k > i => 1 <= k + (a - i) - 1 /\ k + (a - i) - 1 <= n /\ i < k + (a - i) - 1
          BY <5>1
        <5>3. k + (a - i) - 1 = k + (a - (i + 1)) /\ k + (a - i) - 1 \in Int
          BY <5>1
        <5> QED
          BY <5>1, <5>2, <5>3
      <4> QED
        BY <1>9, <4>1, <4>3
    <3>3. k < i => k <= i /\ k # i
      BY <1>3
    <3>4. k = i => k <= i
      BY <1>3
    <3> QED
      BY <1>8, <3>1, <3>2, <3>3, <3>4
  <2> QED
    BY <1>9, <2>1, <2>2 DEF Replaced
<1> QED
  BY <1>3, <1>5, <1>6, <1>10

(* The chunk before position i, when ch begins in it or right behind it.   *)
LEMMA CombinePreviousIs ==
  ASSUME NEW d \in Seq(FileChunk), NEW i \in 2 .. Len(d) + 1, NEW ch \in FileChunk,
         d[i - 1].offset <= ch.offset, NEW r, r = CombinePrevious(d, i, ch)
  PROVE  /\ r \in Seq(FileChunk) /\ Len(r) = Len(d)
         /\ \A k \in 1 .. Len(d) : k # i - 1 => r[k] = d[k]
         /\ r[i - 1].offset = d[i - 1].offset
         /\ End(r[i - 1]) \in {End(d[i - 1]), End(ch)}
         /\ End(d[i - 1]) <= End(r[i - 1]) /\ End(ch) <= End(r[i - 1])
<1> DEFINE p == d[i - 1]
           new == [p EXCEPT !.size = End(ch) - p.offset]
<1>1. Len(d) \in Nat /\ DOMAIN d = 1 .. Len(d) /\ i - 1 \in 1 .. Len(d) /\ p \in FileChunk
  BY LenProperties
<1>2. /\ p.offset \in Nat /\ p.offset < End(p) /\ End(p) \in Nat
      /\ End(ch) \in Nat /\ ch.offset < End(ch) /\ ch.offset \in Nat /\ End(ch) <= MaxOffset
  BY <1>1, ChunkIs
<1>3. CASE End(p) < End(ch)
  <2>1. End(ch) - p.offset \in Nat \ {0} /\ p.offset + (End(ch) - p.offset) = End(ch)
    BY <1>2, <1>3
  <2>2. new = [offset |-> p.offset, size |-> End(ch) - p.offset]
    BY <1>1 DEF FileChunk, Chunk
  <2>3. new \in FileChunk /\ new.offset = p.offset /\ End(new) = End(ch)
    BY <1>2, <2>1, <2>2, ChunkMade DEF End
  <2>4. r = [d EXCEPT ![i - 1] = new]
    BY <1>1, <1>3 DEF CombinePrevious
  <2> HIDE DEF new
  <2>5. r \in Seq(FileChunk) /\ Len(r) = Len(d)
    BY <1>1, <2>3, <2>4, ExceptSeq
  <2>6. r[i - 1] = new /\ \A k \in 1 .. Len(d) : k # i - 1 => r[k] = d[k]
    BY <1>1, <2>4
  <2> QED
    BY <1>2, <1>3, <2>3, <2>5, <2>6
<1>4. CASE ~(End(p) < End(ch))
  <2>1. r = d
    BY <1>4 DEF CombinePrevious
  <2> QED
    BY <1>2, <1>4, <2>1
<1> QED
  BY <1>3, <1>4

(* The chunk new is ch and the chunks from lo to hi - 1, which ch reaches. *)
Merges(c, lo, hi, ch, new) ==
  /\ lo \in 1 .. Len(c) /\ hi \in lo + 1 .. Len(c) + 1
  /\ new.offset <= ch.offset /\ new.offset <= c[lo].offset
  /\ End(ch) <= End(new) /\ End(c[hi - 1]) <= End(new)
  /\ \/ new.offset = ch.offset
     \/ new.offset = c[lo].offset /\ ch.offset <= End(c[lo])
  /\ \/ End(new) = End(ch)
     \/ End(new) = End(c[hi - 1]) /\ c[hi - 1].offset <= End(ch)

LEMMA MergesBytes ==
  ASSUME NEW c, ListOK(c), NEW ch \in FileChunk, NEW lo, NEW hi, NEW new, NEW r,
         Fits(c, lo, hi, new), Replaced(c, r, lo, hi, new), Merges(c, lo, hi, ch, new)
  PROVE  ListOK(r) /\ Len(r) <= Len(c) /\ BytesOf(r) = BytesOf(c) \cup Bytes(ch)
<1>1. /\ Len(c) \in Nat /\ lo \in 1 .. Len(c) /\ hi \in lo + 1 .. Len(c) + 1
      /\ hi - 1 \in 1 .. Len(c) /\ new \in FileChunk /\ c \in Seq(FileChunk)
  BY MemberIs DEF Merges, Fits
<1>2. /\ ch.offset \in Nat /\ End(ch) \in Nat /\ new.offset \in Nat /\ End(new) \in Nat
      /\ \A k \in 1 .. Len(c) : /\ c[k] \in FileChunk /\ c[k].offset \in Nat
                                /\ End(c[k]) \in Nat /\ c[k].offset < End(c[k])
  BY <1>1, ChunkIs, MemberIs
<1>3. Len(r) <= Len(c)
  BY <1>1 DEF Replaced
<1>4. ASSUME NEW k \in lo .. hi - 1 PROVE Bytes(c[k]) \subseteq Bytes(new)
  <2>1. k \in 1 .. Len(c)
    BY <1>1
  <2>2. c[lo].offset <= c[k].offset
    <3>1. k = lo \/ lo < k
      BY <1>1, <2>1
    <3>2. lo < k => End(c[lo]) < c[k].offset
      BY <1>1, <2>1, MemberIs
    <3> QED
      BY <1>1, <1>2, <2>1, <3>1, <3>2
  <2>3. End(c[k]) <= End(c[hi - 1])
    <3>1. k = hi - 1 \/ k < hi - 1
      BY <1>1
    <3>2. k < hi - 1 => End(c[k]) < c[hi - 1].offset
      BY <1>1, <2>1, MemberIs
    <3>3. PICK e, o, d : e = End(c[k]) /\ o = c[hi - 1].offset /\ d = End(c[hi - 1])
      OBVIOUS
    <3>4. e \in Nat /\ o \in Nat /\ d \in Nat /\ o < d /\ (e = d \/ e < o)
      BY <1>1, <1>2, <2>1, <3>1, <3>2, <3>3
    <3>5. e <= d
      BY <3>4
    <3> QED
      BY <3>3, <3>5
  <2>4. new.offset <= c[k].offset /\ End(c[k]) <= End(new)
    <3>1. new.offset <= c[lo].offset /\ End(c[hi - 1]) <= End(new)
      BY DEF Merges
    <3>2. c[lo].offset \in Nat /\ End(c[hi - 1]) \in Nat
      BY <1>1, <1>2
    <3> QED
      <4>1. PICK n, o, q : n = new.offset /\ o = c[lo].offset /\ q = c[k].offset
        OBVIOUS
      <4>2. n \in Nat /\ o \in Nat /\ q \in Nat /\ n <= o /\ o <= q
        BY <1>2, <2>1, <2>2, <3>1, <3>2, <4>1
      <4>3. n <= q
        BY <4>2
      <4>4. PICK e, d, f : e = End(c[k]) /\ d = End(c[hi - 1]) /\ f = End(new)
        OBVIOUS
      <4>5. e \in Nat /\ d \in Nat /\ f \in Nat /\ e <= d /\ d <= f
        BY <1>2, <2>1, <2>3, <3>1, <3>2, <4>4
      <4>6. e <= f
        BY <4>5
      <4> QED
        BY <4>1, <4>3, <4>4, <4>6
  <2>5. ASSUME NEW b \in Bytes(c[k]) PROVE b \in Bytes(new)
    <3>1. b \in Nat /\ c[k].offset <= b /\ b < End(c[k])
      BY <1>2, <2>1, <2>5, InChunk
    <3>2. new.offset <= b /\ b < End(new)
      BY <1>2, <2>1, <2>4, <3>1
    <3> QED
      BY <1>1, <3>1, <3>2, InChunk
  <2> QED
    BY <2>5
<1>5. ListOK(r) /\ BytesOf(r) = BytesOf(c) \cup Bytes(new)
  BY <1>4, ReplacedInOrder, ReplacedBytes
<1>6. ASSUME NEW b \in Bytes(ch) PROVE b \in Bytes(new)
  <2>1. b \in Nat /\ ch.offset <= b /\ b < End(ch)
    BY <1>6, InChunk
  <2>2. new.offset <= b /\ b < End(new)
    BY <1>2, <2>1 DEF Merges
  <2> QED
    BY <1>1, <2>1, <2>2, InChunk
<1>7. ASSUME NEW b \in Bytes(new), b \notin Bytes(ch) PROVE b \in BytesOf(c)
  <2>1. b \in Nat /\ new.offset <= b /\ b < End(new)
    BY <1>1, <1>7, InChunk
  <2>2. b < ch.offset \/ End(ch) <= b
    BY <1>2, <1>7, <2>1, InChunk
  <2>3. CASE b < ch.offset
    <3>1. PICK n, o, e, f : /\ n = new.offset /\ o = c[lo].offset /\ e = End(c[lo])
                            /\ f = ch.offset
      OBVIOUS
    <3>2. /\ n \in Nat /\ o \in Nat /\ e \in Nat /\ f \in Nat
          /\ n = f \/ (n = o /\ f <= e)
      BY <1>1, <1>2, <3>1 DEF Merges
    <3>3. o <= b /\ b < e
      BY <2>1, <2>3, <3>1, <3>2
    <3>4. b \in Bytes(c[lo])
      BY <1>1, <1>2, <2>1, <3>1, <3>3, InChunk
    <3> QED
      BY <1>1, <3>4, BytesAre
  <2>4. CASE End(ch) <= b
    <3>1. PICK n, o, e, d : /\ n = End(new) /\ o = c[hi - 1].offset
                            /\ e = End(c[hi - 1]) /\ d = End(ch)
      OBVIOUS
    <3>2. /\ n \in Nat /\ o \in Nat /\ e \in Nat /\ d \in Nat
          /\ n = d \/ (n = e /\ o <= d)
      BY <1>1, <1>2, <3>1 DEF Merges
    <3>3. o <= b /\ b < e
      BY <2>1, <2>4, <3>1, <3>2
    <3>4. b \in Bytes(c[hi - 1])
      BY <1>1, <1>2, <2>1, <3>1, <3>3, InChunk
    <3> QED
      BY <1>1, <3>4, BytesAre
  <2> QED
    BY <2>2, <2>3, <2>4
<1> QED
  BY <1>3, <1>5, <1>6, <1>7

(* Only the chunk before is combined.                                      *)
LEMMA InsertPrevious ==
  ASSUME NEW c, ListOK(c), NEW ch \in FileChunk, NEW i, Place(c, ch, i),
         FirstApart(c, i, ch) = i, TouchesPrevious(c, i, ch), NEW r, r = Insert(c, i, ch)
  PROVE  ListOK(r) /\ Len(r) <= Len(c) /\ BytesOf(r) = BytesOf(c) \cup Bytes(ch)
<1> DEFINE new == r[i - 1]
<1>1. r = CombinePrevious(c, i, ch)
  BY DEF Insert
<1>2. /\ Len(c) \in Nat /\ i \in 2 .. Len(c) + 1 /\ i - 1 \in 1 .. Len(c) /\ i - 1 < i
      /\ ch.offset <= End(c[i - 1]) /\ c \in Seq(FileChunk)
  BY MemberIs DEF Place, TouchesPrevious
<1>3. /\ ch.offset \in Nat /\ End(ch) \in Nat /\ ch.offset < End(ch)
      /\ c[i - 1].offset \in Nat /\ End(c[i - 1]) \in Nat /\ c[i - 1].offset < ch.offset
  BY <1>2, ChunkIs, MemberIs DEF Place
<1>4. /\ r \in Seq(FileChunk) /\ Len(r) = Len(c)
      /\ \A k \in 1 .. Len(c) : k # i - 1 => r[k] = c[k]
      /\ new.offset = c[i - 1].offset
      /\ End(new) \in {End(c[i - 1]), End(ch)}
      /\ End(c[i - 1]) <= End(new) /\ End(ch) <= End(new)
  <2>1. c[i - 1].offset <= ch.offset
    BY <1>3
  <2> QED
    BY <1>1, <1>2, <2>1, CombinePreviousIs
<1>5. new \in FileChunk
  BY <1>2, <1>4
<1> HIDE DEF new
<1>6. Fits(c, i - 1, i, new)
  <2>1. ASSUME NEW k \in 1 .. Len(c), k < i - 1 PROVE End(c[k]) < new.offset
    BY <1>2, <1>4, <2>1, MemberIs
  <2>2. ASSUME NEW k \in 1 .. Len(c), k >= i PROVE End(new) < c[k].offset
    <3>1. End(c[i - 1]) < c[k].offset
      <4>1. i - 1 < k
        BY <1>2, <2>2
      <4> QED
        BY <1>2, <4>1, MemberIs
    <3>2. End(ch) < c[k].offset
      BY <1>2, <2>2, FirstApartIs
    <3> QED
      BY <1>4, <3>1, <3>2
  <2> QED
    BY <1>2, <1>5, <2>1, <2>2 DEF Fits
<1>7. Replaced(c, r, i - 1, i, new)
  <2>1. Len(r) = Len(c) - (i - (i - 1)) + 1
    BY <1>2, <1>4
  <2>2. \A k \in 1 .. Len(r) : k + (i - (i - 1)) - 1 = k
    BY <1>2
  <2>3. \A k \in 1 .. Len(r) : (k < i - 1 => k # i - 1) /\ (k > i - 1 => k # i - 1)
    BY <1>2
  <2> QED
    BY <1>4, <2>1, <2>2, <2>3 DEF Replaced, new
<1>8. Merges(c, i - 1, i, ch, new)
  <2>1. i \in (i - 1) + 1 .. Len(c) + 1
    BY <1>2
  <2>2. new.offset <= ch.offset /\ new.offset <= c[i - 1].offset /\ c[i - 1].offset <= End(ch)
    BY <1>3, <1>4
  <2> QED
    BY <1>2, <1>4, <2>1, <2>2 DEF Merges
<1> QED
  BY <1>6, <1>7, <1>8, MergesBytes

(* Chunks from i on are combined, and then perhaps also the one before.    *)
LEMMA InsertNext ==
  ASSUME NEW c, ListOK(c), NEW ch \in FileChunk, NEW i, Place(c, ch, i),
         FirstApart(c, i, ch) # i, NEW r, r = Insert(c, i, ch)
  PROVE  ListOK(r) /\ Len(r) <= Len(c) /\ BytesOf(r) = BytesOf(c) \cup Bytes(ch)
<1>1. PICK a, d : a = FirstApart(c, i, ch) /\ d = CombineNext(c, i, ch)
  OBVIOUS
<1>2. PICK new \in FileChunk :
        /\ i \in 1 .. Len(c) /\ a \in i + 1 .. Len(c) + 1
        /\ new.offset = ch.offset
        /\ End(new) \in {End(c[a - 1]), End(ch)}
        /\ End(c[a - 1]) <= End(new) /\ End(ch) <= End(new)
        /\ Replaced(c, d, i, a, new)
  BY <1>1, CombineNextIs
<1>3. /\ Len(c) \in Nat /\ i \in 1 .. Len(c) /\ a \in i + 1 .. Len(c) + 1
      /\ a - 1 \in 1 .. Len(c) /\ c \in Seq(FileChunk)
  BY <1>2, MemberIs
<1>4. /\ ch.offset \in Nat /\ End(ch) \in Nat /\ ch.offset < End(ch) /\ End(new) \in Nat
      /\ \A k \in 1 .. Len(c) : /\ c[k] \in FileChunk /\ c[k].offset \in Nat
                                /\ End(c[k]) \in Nat /\ c[k].offset < End(c[k])
  BY ChunkIs, MemberIs
<1>5. c[a - 1].offset <= End(ch) /\ ch.offset <= c[i].offset
  <2>1. a - 1 \in i .. a - 1 /\ ~(i < i) /\ i \in 1 .. Len(c) + 1
    BY <1>3
  <2>2. c[a - 1].offset <= End(ch)
    BY <1>1, <1>3, <2>1, FirstApartIs
  <2> QED
    BY <1>3, <2>1, <2>2 DEF Place
<1>6. ASSUME NEW k \in 1 .. Len(c), k >= a PROVE End(new) < c[k].offset
  <2>1. a - 1 < k /\ i \in 1 .. Len(c) + 1
    BY <1>3, <1>6
  <2>2. End(c[a - 1]) < c[k].offset
    BY <1>3, <2>1, MemberIs
  <2>3. End(ch) < c[k].offset
    BY <1>1, <1>6, <2>1, FirstApartIs
  <2> QED
    BY <1>2, <2>2, <2>3
<1>7. /\ d \in Seq(FileChunk) /\ Len(d) = Len(c) - (a - i) + 1 /\ i \in 1 .. Len(d)
      /\ d[i] = new
      /\ \A k \in 1 .. Len(d) : /\ k < i => d[k] = c[k]
                                /\ k > i => d[k] = c[k + (a - i) - 1]
  <2>1. Len(d) = Len(c) - (a - i) + 1
    BY <1>2 DEF Replaced
  <2>2. i \in 1 .. Len(d)
    BY <1>3, <2>1
  <2> QED
    BY <1>2, <2>1, <2>2 DEF Replaced
<1>8. r = IF TouchesPrevious(d, i, d[i])
            THEN EraseChunk(CombinePrevious(d, i, d[i]), i)
            ELSE d
  BY <1>1 DEF Insert
<1>9. CASE ~TouchesPrevious(d, i, d[i])
  <2>1. ASSUME NEW k \in 1 .. Len(c), k < i PROVE End(c[k]) < new.offset
    <3>1. i - 1 \in 1 .. Len(d) /\ i - 1 \in 1 .. Len(c) /\ i > 1 /\ i - 1 < i
      BY <1>3, <1>7, <2>1
    <3>2. End(c[i - 1]) < new.offset
      <4>1. ~(new.offset <= End(c[i - 1]))
        BY <1>7, <1>9, <3>1 DEF TouchesPrevious
      <4>2. new.offset \in Nat /\ End(c[i - 1]) \in Nat
        BY <1>2, <1>4, <3>1
      <4> QED
        BY <4>1, <4>2
    <3>3. k = i - 1 \/ k < i - 1
      BY <1>3, <2>1
    <3>4. k < i - 1 => End(c[k]) < c[i - 1].offset
      BY <3>1, MemberIs
    <3>5. PICK n, o, e, f : /\ n = new.offset /\ o = c[i - 1].offset
                            /\ e = End(c[i - 1]) /\ f = End(c[k])
      OBVIOUS
    <3>6. /\ n \in Nat /\ o \in Nat /\ e \in Nat /\ f \in Nat /\ o < e /\ e < n
          /\ f = e \/ f < o
      BY <1>2, <1>4, <3>1, <3>2, <3>3, <3>4, <3>5
    <3>7. f < n
      BY <3>6
    <3> QED
      BY <3>5, <3>7
  <2>2. Fits(c, i, a, new)
    <3>1. i \in 1 .. Len(c) + 1 /\ a \in i .. Len(c) + 1
      BY <1>3
    <3> QED
      BY <1>6, <2>1, <3>1 DEF Fits
  <2>3. Merges(c, i, a, ch, new)
    BY <1>2, <1>4, <1>5 DEF Merges
  <2> QED
    BY <1>2, <1>8, <1>9, <2>2, <2>3, MergesBytes
<1>10. CASE TouchesPrevious(d, i, d[i])
  <2>1. PICK e : e = CombinePrevious(d, i, d[i])
    OBVIOUS
  <2>2. /\ i > 1 /\ i - 1 \in 1 .. Len(d) /\ i - 1 \in 1 .. Len(c) /\ i - 1 < i
        /\ d[i - 1] = c[i - 1] /\ new.offset <= End(c[i - 1]) /\ i \in 2 .. Len(d) + 1
    <3>1. i > 1 /\ d[i].offset <= End(d[i - 1])
      BY <1>10 DEF TouchesPrevious
    <3>2. i - 1 \in 1 .. Len(d) /\ i - 1 \in 1 .. Len(c) /\ i - 1 < i /\ i \in 2 .. Len(d) + 1
      BY <1>3, <1>7, <3>1
    <3>3. d[i - 1] = c[i - 1]
      BY <1>7, <3>2
    <3> QED
      BY <1>7, <3>1, <3>2, <3>3
  <2>3. c[i - 1].offset < ch.offset /\ c[i - 1].offset \in Nat /\ End(c[i - 1]) \in Nat
    BY <1>4, <2>2 DEF Place
  <2>4. c[i - 1].offset <= ch.offset /\ c[i - 1].offset <= c[i - 1].offset
    BY <1>4, <2>3
  <2>5. /\ e \in Seq(FileChunk) /\ Len(e) = Len(d)
        /\ \A k \in 1 .. Len(d) : k # i - 1 => e[k] = d[k]
        /\ e[i - 1].offset = c[i - 1].offset
        /\ End(e[i - 1]) \in {End(c[i - 1]), End(new)}
        /\ End(c[i - 1]) <= End(e[i - 1]) /\ End(new) <= End(e[i - 1])
    <3>1. d[i - 1].offset <= d[i].offset /\ d[i] = new
      BY <1>2, <1>7, <2>4, <2>2
    <3>2. i \in 2 .. Len(d) + 1 /\ d[i - 1] = c[i - 1] /\ new \in FileChunk
      BY <1>2, <1>7, <2>2
    <3>3. d \in Seq(FileChunk) /\ e = CombinePrevious(d, i, new)
      BY <1>7, <2>1
    <3>4. d[i - 1].offset <= new.offset
      BY <3>1
    <3>5. /\ e \in Seq(FileChunk) /\ Len(e) = Len(d)
          /\ \A k \in 1 .. Len(d) : k # i - 1 => e[k] = d[k]
          /\ e[i - 1].offset = d[i - 1].offset
          /\ End(e[i - 1]) \in {End(d[i - 1]), End(new)}
          /\ End(d[i - 1]) <= End(e[i - 1]) /\ End(new) <= End(e[i - 1])
      BY <3>2, <3>3, <3>4, CombinePreviousIs
    <3> QED
      BY <3>2, <3>5
  <2>6. PICK all : all = e[i - 1] /\ all \in FileChunk
    BY <2>2, <2>5
  <2>7. End(all) = End(new)
    <3>1. End(c[i - 1]) < c[a - 1].offset
      <4>1. i - 1 < a - 1
        BY <1>3
      <4> QED
        BY <1>3, <2>2, <4>1, MemberIs
    <3>2. c[a - 1].offset < End(c[a - 1]) /\ c[a - 1].offset \in Nat /\ End(c[a - 1]) \in Nat
      BY <1>3, <1>4
    <3>3. End(c[i - 1]) < End(new)
      BY <1>2, <1>4, <2>3, <3>1, <3>2
    <3> QED
      BY <1>4, <2>3, <2>5, <2>6, <3>3
  <2>8. r = RemoveAt(e, i) /\ i \in 1 .. Len(e)
    BY <1>7, <1>8, <1>10, <2>1, <2>5 DEF EraseChunk
  <2>9. /\ r \in Seq(FileChunk) /\ Len(r) = Len(e) - 1
        /\ \A k \in 1 .. Len(e) - 1 : r[k] = IF k < i THEN e[k] ELSE e[k + 1]
    BY <2>5, <2>8, RemoveAtProperties
  <2>10. Replaced(c, r, i - 1, a, all)
    <3>1. Len(r) = Len(c) - (a - (i - 1)) + 1
      BY <1>3, <1>7, <2>5, <2>9
    <3>2. ASSUME NEW k \in 1 .. Len(r)
          PROVE  /\ k < i - 1 => r[k] = c[k]
                 /\ k = i - 1 => r[k] = all
                 /\ k > i - 1 => r[k] = c[k + (a - (i - 1)) - 1]
      <4>1. CASE k < i - 1
        <5>1. k < i /\ k # i - 1 /\ k \in 1 .. Len(d) /\ k \in 1 .. Len(e) - 1
          BY <1>3, <1>7, <2>5, <2>9, <4>1
        <5> QED
          BY <1>7, <2>5, <2>9, <4>1, <5>1
      <4>2. CASE k = i - 1
        <5>1. k < i /\ k \in 1 .. Len(e) - 1
          BY <1>3, <1>7, <2>5, <2>9, <4>2
        <5> QED
          BY <2>6, <2>9, <4>2, <5>1
      <4>3. CASE k > i - 1
        <5>1. /\ ~(k < i) /\ k \in 1 .. Len(e) - 1 /\ k + 1 \in 1 .. Len(d)
              /\ k + 1 > i /\ k + 1 # i - 1
          BY <1>3, <1>7, <2>5, <2>9, <4>3
        <5>2. (k + 1) + (a - i) - 1 = k + (a - (i - 1)) - 1
          BY <1>3
        <5>3. r[k] = e[k + 1] /\ e[k + 1] = d[k + 1] /\ d[k + 1] = c[(k + 1) + (a - i) - 1]
          BY <1>7, <2>5, <2>9, <5>1
        <5>4. ~(k < i - 1) /\ k # i - 1
          BY <1>3, <4>3
        <5> QED
          BY <5>2, <5>3, <5>4
      <4> QED
        BY <1>3, <4>1, <4>2, <4>3
    <3> QED
      BY <2>9, <3>1, <3>2 DEF Replaced
  <2>11. Fits(c, i - 1, a, all)
    <3>1. i - 1 \in 1 .. Len(c) + 1 /\ a \in i - 1 .. Len(c) + 1
      BY <1>3, <2>2
    <3>2. \A k \in 1 .. Len(c) : k < i - 1 => End(c[k]) < c[i - 1].offset
      BY <2>2, MemberIs
    <3> QED
      BY <1>6, <2>5, <2>6, <2>7, <3>1, <3>2 DEF Fits
  <2>12. Merges(c, i - 1, a, ch, all)
    <3>1. a \in (i - 1) + 1 .. Len(c) + 1
      BY <1>3
    <3>2. all.offset <= ch.offset /\ all.offset <= c[i - 1].offset /\ ch.offset <= End(c[i - 1])
      BY <1>2, <2>4, <2>2, <2>5, <2>6
    <3> QED
      BY <1>2, <1>5, <2>2, <2>5, <2>6, <2>7, <3>1, <3>2 DEF Merges
  <2> QED
    BY <2>10, <2>11, <2>12, MergesBytes
<1> QED
  BY <1>9, <1>10

(* A chunk that touches none. *)
TouchesNone(c, ch) ==
  \A k \in 1 .. Len(c) : End(c[k]) < ch.offset \/ End(ch) < c[k].offset

LEMMA InsertChunkIs ==
  ASSUME NEW c, ListOK(c), NEW ch \in FileChunk, TouchesNone(c, ch), NEW p, Place(c, ch, p),
         NEW r, r = InsertChunk(c, p, ch)
  PROVE  /\ ListOK(r) /\ Len(r) = Len(c) + 1
         /\ BytesOf(r) = BytesOf(c) \cup Bytes(ch)
         /\ Replaced(c, r, p, p, ch)
<1>1. Len(c) \in Nat /\ p \in 1 .. Len(c) + 1 /\ c \in Seq(FileChunk)
  BY MemberIs DEF Place
<1>2. /\ r \in Seq(FileChunk) /\ Len(r) = Len(c) + 1
      /\ \A j \in 1 .. Len(c) + 1 : /\ j < p => r[j] = c[j]
                                    /\ j = p => r[j] = ch
                                    /\ j > p => r[j] = c[j - 1]
  <2>1. /\ InsertAt(c, p, ch) \in Seq(FileChunk)
        /\ Len(InsertAt(c, p, ch)) = Len(c) + 1
        /\ \A j \in 1 .. Len(c) + 1 :
             /\ j < p => InsertAt(c, p, ch)[j] = c[j]
             /\ j = p => InsertAt(c, p, ch)[j] = ch
             /\ j > p => InsertAt(c, p, ch)[j] = c[j - 1]
    BY <1>1, InsertAtProperties
  <2>2. r = InsertAt(c, p, ch)
    BY DEF InsertChunk
  <2> QED
    BY <2>1, <2>2, Zenon
<1>3. Replaced(c, r, p, p, ch)
  <2>1. Len(r) = Len(c) - (p - p) + 1 /\ \A j \in 1 .. Len(r) : j + (p - p) - 1 = j - 1
    BY <1>1, <1>2
  <2> QED
    BY <1>2, <2>1 DEF Replaced
<1>4. Fits(c, p, p, ch)
  <2>1. ASSUME NEW k \in 1 .. Len(c)
        PROVE  (k < p => End(c[k]) < ch.offset) /\ (k >= p => End(ch) < c[k].offset)
    <3>1. /\ c[k].offset \in Nat /\ End(c[k]) \in Nat /\ c[k].offset < End(c[k])
          /\ ch.offset \in Nat /\ End(ch) \in Nat /\ ch.offset < End(ch)
      BY MemberIs, ChunkIs
    <3>2. End(c[k]) < ch.offset \/ End(ch) < c[k].offset
      BY DEF TouchesNone
    <3>3. IF k < p THEN c[k].offset < ch.offset ELSE ch.offset <= c[k].offset
      BY DEF Place
    <3>4. k >= p <=> ~(k < p)
      BY <1>1
    <3> QED
      BY <3>1, <3>2, <3>3, <3>4
  <2>2. p \in p .. Len(c) + 1
    BY <1>1
  <2> QED
    BY <1>1, <2>1, <2>2 DEF Fits
<1>5. \A k \in p .. p - 1 : FALSE
  BY <1>1
<1> QED
  BY <1>2, <1>3, <1>4, <1>5, ReplacedInOrder, ReplacedBytes

(* The list r is c without the chunk at position s.                        *)
Erased(c, r, s) ==
  /\ ListOK(r) /\ Len(r) = Len(c) - 1
  /\ BytesOf(r) = BytesOf(c) \ Bytes(c[s])
  /\ \A j \in 1 .. Len(r) : \E k \in 1 .. Len(c) : k # s /\ r[j] = c[k]

LEMMA EraseChunkIs ==
  ASSUME NEW c, ListOK(c), NEW s \in 1 .. Len(c), NEW r, r = EraseChunk(c, s)
  PROVE  Erased(c, r, s)
<1> DEFINE from(j) == IF j < s THEN j ELSE j + 1
<1>1. Len(c) \in Nat /\ c \in Seq(FileChunk)
  BY MemberIs
<1>2. /\ r \in Seq(FileChunk) /\ Len(r) = Len(c) - 1
      /\ \A j \in 1 .. Len(r) : r[j] = c[from(j)]
  <2>1. /\ r \in Seq(FileChunk) /\ Len(r) = Len(c) - 1
        /\ \A j \in 1 .. Len(c) - 1 : r[j] = IF j < s THEN c[j] ELSE c[j + 1]
    BY <1>1, RemoveAtProperties DEF EraseChunk
  <2> QED
    BY <2>1
<1>3. \A j \in 1 .. Len(r) : from(j) \in 1 .. Len(c) /\ from(j) # s
  BY <1>1, <1>2
<1>4. \A i, j \in 1 .. Len(r) : i < j => from(i) < from(j)
  BY <1>1, <1>2
<1>5. \A k \in 1 .. Len(c) : k # s => \E j \in 1 .. Len(r) : from(j) = k
  <2> SUFFICES ASSUME NEW k \in 1 .. Len(c), k # s PROVE \E j \in 1 .. Len(r) : from(j) = k
    OBVIOUS
  <2>1. CASE k < s
    <3>1. k \in 1 .. Len(r) /\ from(k) = k
      BY <1>1, <1>2, <2>1
    <3> QED
      BY <3>1
  <2>2. CASE k > s
    <3>1. k - 1 \in 1 .. Len(r) /\ from(k - 1) = k
      BY <1>1, <1>2, <2>2
    <3> QED
      BY <3>1
  <2> QED
    BY <2>1, <2>2
<1> HIDE DEF from
<1>6. ListOK(r)
  BY <1>2, <1>3, <1>4 DEF ListOK, Apart
<1>7. \A b : b \in BytesOf(r) <=> \E j \in 1 .. Len(r) : b \in Bytes(r[j])
  BY <1>2, BytesAre
<1>8. \A b : b \in BytesOf(c) <=> \E k \in 1 .. Len(c) : b \in Bytes(c[k])
  BY <1>1, BytesAre
<1>9. ASSUME NEW k \in 1 .. Len(c), k # s, NEW b \in Bytes(c[k]) PROVE b \notin Bytes(c[s])
  <2>1. k < s \/ s < k
    BY <1>9
  <2>2. End(c[k]) < c[s].offset \/ End(c[s]) < c[k].offset
    BY <2>1, MemberIs
  <2>3. /\ c[k] \in FileChunk /\ c[k].offset \in Nat /\ End(c[k]) \in Nat
        /\ c[s] \in FileChunk /\ c[s].offset \in Nat /\ End(c[s]) \in Nat
    BY MemberIs
  <2>4. b \in Nat /\ c[k].offset <= b /\ b < End(c[k])
    BY <1>9, <2>3, InChunk
  <2>5. ~(c[s].offset <= b /\ b < End(c[s]))
    BY <2>2, <2>3, <2>4
  <2> QED
    BY <2>3, <2>5, InChunk
<1>10. BytesOf(r) = BytesOf(c) \ Bytes(c[s])
  <2>1. ASSUME NEW b, b \in BytesOf(r) PROVE b \in BytesOf(c) /\ b \notin Bytes(c[s])
    <3>1. PICK j \in 1 .. Len(r) : b \in Bytes(r[j])
      BY <1>7, <2>1
    <3>2. from(j) \in 1 .. Len(c) /\ from(j) # s /\ b \in Bytes(c[from(j)])
      BY <1>2, <1>3, <3>1
    <3> QED
      BY <1>8, <1>9, <3>2
  <2>2. ASSUME NEW b, b \in BytesOf(c), b \notin Bytes(c[s]) PROVE b \in BytesOf(r)
    <3>1. PICK k \in 1 .. Len(c) : b \in Bytes(c[k])
      BY <1>8, <2>2
    <3>2. PICK j \in 1 .. Len(r) : from(j) = k
      BY <1>5, <2>2, <3>1
    <3> QED
      BY <1>2, <1>7, <3>1, <3>2
  <2> QED
    BY <2>1, <2>2
<1>11. \A j \in 1 .. Len(r) : \E k \in 1 .. Len(c) : k # s /\ r[j] = c[k]
  BY <1>2, <1>3
<1> QED
  BY <1>2, <1>6, <1>10, <1>11 DEF Erased

LEMMA SmallestSizeIs ==
  ASSUME NEW c, ListOK(c), Len(c) # 0, NEW s, s = FindSmallestSize(c)
  PROVE  s \in 1 .. Len(c) /\ \A j \in 1 .. Len(c) : c[s].size <= c[j].size
<1> DEFINE T == {i \in 1 .. Len(c) : \A j \in 1 .. Len(c) : c[i].size <= c[j].size}
           Sizes == {c[i].size : i \in 1 .. Len(c)}
<1>1. Len(c) \in Nat /\ \A i \in 1 .. Len(c) : c[i].size \in Nat
  BY MemberIs
<1>2. Sizes \subseteq Nat /\ Sizes # {}
  <2>1. 1 \in 1 .. Len(c)
    BY <1>1
  <2> QED
    BY <1>1, <2>1
<1>3. PICK x \in Sizes : \A y \in Sizes : x <= y
  BY <1>2, LeastNumber
<1>4. T # {} /\ T \subseteq Nat
  BY <1>1, <1>3
<1>5. s = Min(T)
  BY DEF FindSmallestSize
<1>6. s \in T
  <2> HIDE DEF T
  <2> QED
    BY <1>4, <1>5, MinProperties
<1> QED
  BY <1>6

(* Nothing is forgotten, or one smallest run of what would be too many.    *)
LEMMA FewEnough ==
  ASSUME NEW r, ListOK(r), Len(r) <= MaxChunks, NEW held, NEW new, BytesOf(r) = held \cup new
  PROVE  BytesOf(r) \in LearnOutcomes(held, new, MaxChunks)
BY RunStartsAre DEF LearnOutcomes

LEMMA TooMany ==
  ASSUME NEW d, ListOK(d), Len(d) > MaxChunks, NEW held, NEW new, BytesOf(d) = held \cup new,
         NEW k \in 1 .. Len(d), \A j \in 1 .. Len(d) : d[k].size <= d[j].size
  PROVE  (held \cup new) \ Bytes(d[k]) \in LearnOutcomes(held, new, MaxChunks)
<1>1. NumRuns(held \cup new) = Len(d) /\ Len(d) \in Nat
  BY RunStartsAre, MemberIs
<1>2. ~(NumRuns(held \cup new) <= MaxChunks)
  BY <1>1, MaxChunksAssumption
<1>3. Bytes(d[k]) \in SmallestRuns(held \cup new)
  BY SmallestIs
<1> QED
  BY <1>2, <1>3 DEF LearnOutcomes

(* When the array is full, the smallest chunk goes, which may be ch.       *)
LEMMA InsertFull ==
  ASSUME NEW c, ListOK(c), Len(c) = MaxChunks, NEW ch \in FileChunk, TouchesNone(c, ch),
         NEW i, Place(c, ch, i), NEW r, r = InsertApart(c, i, ch)
  PROVE  /\ ListOK(r) /\ Len(r) <= MaxChunks
         /\ BytesOf(r) \in LearnOutcomes(BytesOf(c), Bytes(ch), MaxChunks)
<1>1. PICK s, d, fewer : /\ s = FindSmallestSize(c)
                         /\ d = InsertChunk(c, i, ch)
                         /\ fewer = EraseChunk(c, s)
  OBVIOUS
<1>2. r = IF c[s].size < ch.size
            THEN InsertChunk(fewer, FindInsertPosition(fewer, ch), ch)
            ELSE c
  <2>1. ~(Len(c) < MaxChunks)
    BY MaxChunksAssumption
  <2> QED
    BY <1>1, <2>1 DEF InsertApart
<1>3. /\ Len(c) \in Nat \ {0} /\ c \in Seq(FileChunk)
      /\ \A k \in 1 .. Len(c) : c[k] \in FileChunk /\ c[k].size \in Nat
      /\ ch.size \in Nat /\ ch.offset \in Nat
  BY MaxChunksAssumption, MemberIs, ChunkIs
<1>4. s \in 1 .. Len(c) /\ \A j \in 1 .. Len(c) : c[s].size <= c[j].size
  BY <1>1, <1>3, SmallestSizeIs
<1>5. /\ ListOK(d) /\ Len(d) = Len(c) + 1 /\ Len(d) > MaxChunks
      /\ BytesOf(d) = BytesOf(c) \cup Bytes(ch)
      /\ Replaced(c, d, i, i, ch)
  <2>1. /\ ListOK(d) /\ Len(d) = Len(c) + 1 /\ BytesOf(d) = BytesOf(c) \cup Bytes(ch)
        /\ Replaced(c, d, i, i, ch)
    BY <1>1, InsertChunkIs
  <2> QED
    BY <1>3, <2>1
<1>6. i \in 1 .. Len(c) + 1 /\ i \in 1 .. Len(d)
  BY <1>5 DEF Place
<1>7. /\ \A j \in 1 .. Len(d) : d[j] = ch \/ \E k \in 1 .. Len(c) : d[j] = c[k]
      /\ d[i] = ch
      /\ \E j \in 1 .. Len(d) : d[j] = c[s]
  <2>1. \A j \in 1 .. Len(d) : /\ j < i => d[j] = c[j]
                               /\ j = i => d[j] = ch
                               /\ j > i => d[j] = c[j + (i - i) - 1]
    BY <1>5 DEF Replaced
  <2>2. ASSUME NEW j \in 1 .. Len(d)
        PROVE  d[j] = ch \/ \E k \in 1 .. Len(c) : d[j] = c[k]
    <3>1. /\ j < i => j \in 1 .. Len(c)
          /\ j > i => j + (i - i) - 1 \in 1 .. Len(c)
          /\ j < i \/ j = i \/ j > i
      BY <1>3, <1>5, <1>6
    <3> QED
      BY <2>1, <3>1
  <2>3. \E j \in 1 .. Len(d) : d[j] = c[s]
    <3>1. CASE s < i
      <4>1. s \in 1 .. Len(d)
        BY <1>3, <1>4, <1>5
      <4> QED
        BY <2>1, <3>1, <4>1
    <3>2. CASE ~(s < i)
      <4>1. s + 1 \in 1 .. Len(d) /\ s + 1 > i /\ (s + 1) + (i - i) - 1 = s
        BY <1>3, <1>4, <1>5, <1>6, <3>2
      <4> QED
        BY <2>1, <4>1
    <3> QED
      BY <3>1, <3>2
  <2> QED
    BY <1>6, <2>1, <2>2, <2>3
<1>8. ASSUME NEW k \in 1 .. Len(c) PROVE Bytes(c[k]) \cap Bytes(ch) = {}
  <2>1. End(c[k]) < ch.offset \/ End(ch) < c[k].offset
    BY DEF TouchesNone
  <2>2. /\ c[k] \in FileChunk /\ c[k].offset \in Nat /\ End(c[k]) \in Nat
        /\ ch.offset \in Nat /\ End(ch) \in Nat
    BY MemberIs, ChunkIs
  <2>3. ASSUME NEW b, b \in Bytes(c[k]), b \in Bytes(ch) PROVE FALSE
    <3>1. /\ b \in Nat /\ c[k].offset <= b /\ b < End(c[k])
          /\ ch.offset <= b /\ b < End(ch)
      BY <2>2, <2>3, InChunk
    <3> QED
      BY <2>1, <2>2, <3>1
  <2> QED
    BY <2>3
<1>9. CASE c[s].size < ch.size
  <2>1. /\ ListOK(fewer) /\ Len(fewer) = Len(c) - 1
        /\ BytesOf(fewer) = BytesOf(c) \ Bytes(c[s])
        /\ \A j \in 1 .. Len(fewer) : \E k \in 1 .. Len(c) : fewer[j] = c[k]
    <3>1. s \in 1 .. Len(c) /\ fewer = EraseChunk(c, s)
      BY <1>1, <1>4
    <3>2. Erased(c, fewer, s)
      BY <3>1, EraseChunkIs
    <3> QED
      BY <3>2 DEF Erased
  <2>2. TouchesNone(fewer, ch)
    BY <2>1 DEF TouchesNone
  <2>3. Place(fewer, ch, FindInsertPosition(fewer, ch))
    BY <1>3, <2>1, PositionIs
  <2>4. r = InsertChunk(fewer, FindInsertPosition(fewer, ch), ch)
    BY <1>2, <1>9
  <2>5. ListOK(r) /\ Len(r) = Len(fewer) + 1 /\ BytesOf(r) = BytesOf(fewer) \cup Bytes(ch)
    BY <2>1, <2>2, <2>3, <2>4, InsertChunkIs
  <2>6. BytesOf(r) = (BytesOf(c) \cup Bytes(ch)) \ Bytes(c[s])
    BY <1>4, <1>8, <2>1, <2>5
  <2>7. PICK j \in 1 .. Len(d) : d[j] = c[s]
    BY <1>7
  <2>8. \A k \in 1 .. Len(d) : d[j].size <= d[k].size
    <3> SUFFICES ASSUME NEW k \in 1 .. Len(d) PROVE c[s].size <= d[k].size
      BY <2>7
    <3>1. d[k] = ch => c[s].size <= d[k].size
      BY <1>3, <1>4, <1>9
    <3> QED
      BY <1>4, <1>7, <3>1
  <2>9. (BytesOf(c) \cup Bytes(ch)) \ Bytes(d[j]) \in LearnOutcomes(BytesOf(c), Bytes(ch), MaxChunks)
    BY <1>5, <2>8, TooMany
  <2>10. Len(r) <= MaxChunks
    BY <1>3, <2>1, <2>5
  <2> QED
    BY <2>5, <2>6, <2>7, <2>9, <2>10
<1>10. CASE ~(c[s].size < ch.size)
  <2>1. r = c /\ Len(r) <= MaxChunks
    BY <1>2, <1>3, <1>10
  <2>2. BytesOf(r) = (BytesOf(c) \cup Bytes(ch)) \ Bytes(ch)
    <3>1. ASSUME NEW b, b \in BytesOf(c), b \in Bytes(ch) PROVE FALSE
      <4>1. PICK k \in 1 .. Len(c) : b \in Bytes(c[k])
        BY <1>3, <3>1, BytesAre
      <4> QED
        BY <1>8, <3>1, <4>1
    <3> QED
      BY <2>1, <3>1
  <2>3. \A k \in 1 .. Len(d) : d[i].size <= d[k].size
    <3> SUFFICES ASSUME NEW k \in 1 .. Len(d) PROVE ch.size <= d[k].size
      BY <1>7
    <3>1. ch.size <= c[s].size
      BY <1>3, <1>4, <1>10
    <3>2. d[k] = ch => ch.size <= d[k].size
      BY <1>3
    <3>3. ASSUME NEW m \in 1 .. Len(c) PROVE ch.size <= c[m].size
      BY <1>3, <1>4, <3>1
    <3> QED
      BY <1>7, <3>2, <3>3
  <2>4. (BytesOf(c) \cup Bytes(ch)) \ Bytes(d[i]) \in LearnOutcomes(BytesOf(c), Bytes(ch), MaxChunks)
    BY <1>5, <1>6, <2>3, TooMany
  <2> QED
    BY <1>7, <2>1, <2>2, <2>4
<1> QED
  BY <1>9, <1>10

(* CF_ChunkListAdd.                                                        *)
LEMMA ListAddIs ==
  ASSUME NEW c, ListOK(c), Len(c) <= MaxChunks, NEW offset \in Nat, NEW size \in Nat \ {0},
         offset + size <= MaxOffset, NEW r, r = ListAdd(c, offset, size)
  PROVE  /\ ListOK(r) /\ Len(r) <= MaxChunks
         /\ BytesOf(r) \in LearnOutcomes(BytesOf(c), offset .. offset + size - 1, MaxChunks)
<1>1. PICK ch : ch = [offset |-> offset, size |-> size]
  OBVIOUS
<1>2. /\ ch \in FileChunk /\ ch.offset = offset /\ ch.offset \in Nat /\ End(ch) = offset + size
      /\ Bytes(ch) = offset .. offset + size - 1
  BY <1>1, ChunkMade DEF Bytes, End
<1>3. PICK i : i = FindInsertPosition(c, ch)
  OBVIOUS
<1>4. Place(c, ch, i) /\ r = Insert(c, i, ch) /\ Len(c) \in Nat /\ i \in 1 .. Len(c) + 1
  BY <1>1, <1>2, <1>3, PositionIs, MemberIs DEF ListAdd, Place
<1>5. CASE FirstApart(c, i, ch) # i \/ TouchesPrevious(c, i, ch)
  <2>1. ListOK(r) /\ Len(r) <= Len(c) /\ BytesOf(r) = BytesOf(c) \cup Bytes(ch)
    BY <1>2, <1>4, <1>5, InsertNext, InsertPrevious
  <2>2. Len(r) <= MaxChunks
    BY <1>4, <2>1, MaxChunksAssumption, MemberIs
  <2> QED
    BY <1>2, <2>1, <2>2, FewEnough
<1>6. CASE FirstApart(c, i, ch) = i /\ ~TouchesPrevious(c, i, ch)
  <2>1. r = InsertApart(c, i, ch)
    BY <1>4, <1>6 DEF Insert
  <2>2. TouchesNone(c, ch)
    <3> SUFFICES ASSUME NEW k \in 1 .. Len(c), k < i
                 PROVE  End(c[k]) < ch.offset
      BY <1>2, <1>4, <1>6, FirstApartIs DEF TouchesNone
    <3>1. i - 1 \in 1 .. Len(c) /\ i > 1
      BY <1>4
    <3>2. ~(ch.offset <= End(c[i - 1]))
      BY <1>6, <3>1 DEF TouchesPrevious
    <3>3. /\ c[i - 1].offset \in Nat /\ End(c[i - 1]) \in Nat /\ c[i - 1].offset < End(c[i - 1])
          /\ End(c[k]) \in Nat
      BY <3>1, MemberIs
    <3>4. k = i - 1 \/ k < i - 1
      BY <1>4
    <3>5. k < i - 1 => End(c[k]) < c[i - 1].offset
      BY <3>1, MemberIs
    <3> QED
      BY <1>2, <3>2, <3>3, <3>4, <3>5
  <2>3. CASE Len(c) < MaxChunks
    <3>1. r = InsertChunk(c, i, ch)
      BY <2>1, <2>3 DEF InsertApart
    <3>2. ListOK(r) /\ Len(r) = Len(c) + 1 /\ BytesOf(r) = BytesOf(c) \cup Bytes(ch)
      BY <1>2, <1>4, <2>2, <3>1, InsertChunkIs
    <3>3. Len(r) <= MaxChunks
      BY <1>4, <2>3, <3>2, MaxChunksAssumption
    <3> QED
      BY <1>2, <3>2, <3>3, FewEnough
  <2>4. CASE ~(Len(c) < MaxChunks)
    <3>1. Len(c) = MaxChunks
      BY <1>4, <2>4, MaxChunksAssumption
    <3> QED
      BY <1>2, <1>4, <2>1, <2>2, <3>1, InsertFull
  <2> QED
    BY <2>3, <2>4
<1> QED
  BY <1>5, <1>6

(* Some bytes at the front of the first chunk are taken.                   *)
LEMMA FirstRunIs ==
  ASSUME NEW c, ListOK(c), c # <<>>, NEW last \in Bytes(c[1])
  PROVE  /\ last \in BytesOf(c)
         /\ NumRuns({b \in BytesOf(c) : b <= last}) = 1
         /\ \A b : b \in BytesOf(c) /\ b <= last <=> b \in c[1].offset .. last
<1> DEFINE front == {b \in BytesOf(c) : b <= last}
<1>1. Len(c) \in Nat /\ 1 \in 1 .. Len(c) /\ c \in Seq(FileChunk) /\ c[1] \in FileChunk
  <2>1. Len(c) \in Nat /\ c \in Seq(FileChunk)
    BY MemberIs
  <2>2. 1 \in 1 .. Len(c)
    BY <2>1
  <2> QED
    BY <2>1, <2>2
<1>2. /\ c[1].offset \in Nat /\ End(c[1]) \in Nat
      /\ last \in Nat /\ c[1].offset <= last /\ last < End(c[1])
  BY <1>1, MemberIs, InChunk
<1>3. ASSUME NEW b, b \in BytesOf(c), b <= last PROVE b \in c[1].offset .. last
  <2>1. PICK k \in 1 .. Len(c) : b \in Bytes(c[k])
    BY <1>1, <1>3, BytesAre
  <2>2. c[k] \in FileChunk /\ c[k].offset \in Nat /\ End(c[k]) \in Nat
    BY MemberIs
  <2>3. b \in Nat /\ c[k].offset <= b /\ b < End(c[k])
    BY <2>1, <2>2, InChunk
  <2>4. k = 1
    <3>1. k = 1 \/ 1 < k
      OBVIOUS
    <3>2. 1 < k => End(c[1]) < c[k].offset
      BY <1>1, MemberIs
    <3> QED
      BY <1>2, <1>3, <2>2, <2>3, <3>1, <3>2
  <2> QED
    BY <1>2, <1>3, <2>3, <2>4
<1>4. ASSUME NEW b \in c[1].offset .. last PROVE b \in BytesOf(c) /\ b <= last
  <2>1. b \in Nat /\ c[1].offset <= b /\ b < End(c[1]) /\ b <= last
    BY <1>2
  <2>2. b \in Bytes(c[1])
    BY <1>1, <2>1, InChunk
  <2> QED
    BY <1>1, <2>1, <2>2, BytesAre
<1>5. front = c[1].offset .. last
  BY <1>3, <1>4
<1>6. RunStarts(front) = {c[1].offset}
  <2>1. \A b \in c[1].offset .. last : b - 1 \notin c[1].offset .. last <=> b = c[1].offset
    BY <1>2
  <2>2. c[1].offset \in c[1].offset .. last
    BY <1>2
  <2> QED
    BY <1>5, <2>1, <2>2 DEF RunStarts
<1>7. NumRuns(front) = 1
  BY <1>6, FS_Singleton DEF NumRuns
<1>8. last \in BytesOf(c)
  BY <1>1, BytesAre
<1> QED
  BY <1>3, <1>4, <1>7, <1>8

Consumed(held, left) ==
  \E last \in held : NumRuns({b \in held : b <= last}) = 1 /\ left = {b \in held : b > last}

(* CF_ChunkList_RemoveFromFirst.                                           *)
LEMMA RemoveFromFirstIs ==
  ASSUME NEW c, ListOK(c), c # <<>>, NEW size \in Nat \ {0}, NEW r, r = RemoveFromFirst(c, size)
  PROVE  ListOK(r) /\ Len(r) <= Len(c) /\ Consumed(BytesOf(c), BytesOf(r))
<1>1. /\ Len(c) \in Nat /\ 1 \in 1 .. Len(c) /\ c \in Seq(FileChunk) /\ c[1] \in FileChunk
      /\ DOMAIN c = 1 .. Len(c)
  <2>1. Len(c) \in Nat /\ c \in Seq(FileChunk) /\ DOMAIN c = 1 .. Len(c)
    BY MemberIs, LenProperties
  <2>2. 1 \in 1 .. Len(c)
    BY <2>1
  <2> QED
    BY <2>1, <2>2
<1>2. /\ c[1].offset \in Nat /\ End(c[1]) \in Nat /\ c[1].size \in Nat \ {0}
      /\ End(c[1]) = c[1].offset + c[1].size /\ End(c[1]) <= MaxOffset
  BY <1>1, MemberIs
<1>3. \A b \in BytesOf(c) : b \in Nat
  BY <1>1, BytesAre
<1>4. CASE size >= c[1].size
  <2>1. PICK last : last = End(c[1]) - 1
    OBVIOUS
  <2>2. last \in Bytes(c[1]) /\ last \in Nat /\ Bytes(c[1]) = c[1].offset .. last
    BY <1>1, <1>2, <2>1, InChunk DEF Bytes
  <2>3. r = EraseChunk(c, 1)
    BY <1>4 DEF RemoveFromFirst
  <2>4. Erased(c, r, 1)
    BY <1>1, <2>3, EraseChunkIs
  <2>5. BytesOf(r) = {b \in BytesOf(c) : b > last}
    <3>1. \A b \in BytesOf(c) : b > last <=> ~(b <= last)
      BY <1>3, <2>2
    <3>2. BytesOf(r) = BytesOf(c) \ Bytes(c[1])
      BY <2>4 DEF Erased
    <3> QED
      BY <1>1, <2>2, <3>1, <3>2, FirstRunIs
  <2>6. Len(r) <= Len(c)
    BY <1>1, <2>4 DEF Erased
  <2> QED
    BY <2>2, <2>4, <2>5, <2>6, FirstRunIs DEF Consumed, Erased
<1>5. CASE ~(size >= c[1].size)
  <2>1. PICK last, new : /\ last = c[1].offset + size - 1
                         /\ new = [offset |-> c[1].offset + size, size |-> c[1].size - size]
    OBVIOUS
  <2>2. PICK o, z : o = c[1].offset /\ z = c[1].size
    OBVIOUS
  <2>3. o \in Nat /\ z \in Nat \ {0} /\ End(c[1]) = o + z /\ size < z /\ last = o + size - 1
    BY <1>2, <1>5, <2>2, <2>1
  <2>4. last \in Bytes(c[1]) /\ last \in Nat
    <3>1. last \in Nat /\ o <= last /\ last < o + z
      BY <2>3
    <3> QED
      BY <1>1, <2>2, <2>3, <3>1, InChunk
  <2>5. new \in FileChunk /\ new.offset = last + 1 /\ End(new) = End(c[1])
    <3>1. /\ c[1].offset + size \in Nat /\ c[1].size - size \in Nat \ {0}
          /\ (c[1].offset + size) + (c[1].size - size) = End(c[1])
          /\ c[1].offset + size = last + 1
      <4>1. /\ o + size \in Nat /\ z - size \in Nat \ {0}
            /\ (o + size) + (z - size) = o + z /\ o + size = last + 1
        BY <2>3
      <4> QED
        BY <2>2, <2>3, <4>1
    <3> QED
      BY <1>2, <2>1, <3>1, ChunkMade DEF End
  <2>6. r = [c EXCEPT ![1] = new]
    BY <1>1, <1>5, <2>1 DEF RemoveFromFirst
  <2>7. /\ r \in Seq(FileChunk) /\ Len(r) = Len(c) /\ r[1] = new
        /\ \A k \in 1 .. Len(c) : k # 1 => r[k] = c[k]
    BY <1>1, <2>5, <2>6, ExceptSeq
  <2>8. ListOK(r)
    <3> SUFFICES ASSUME NEW i \in 1 .. Len(c), NEW j \in 1 .. Len(c), i < j
                 PROVE  End(r[i]) < r[j].offset
      BY <2>7 DEF ListOK, Apart
    <3>1. j # 1 /\ r[j] = c[j] /\ End(c[i]) < c[j].offset
      BY <2>7, MemberIs
    <3>2. End(r[i]) = End(c[i])
      BY <2>5, <2>7
    <3> QED
      BY <3>1, <3>2
  <2>9. ASSUME NEW b PROVE b \in BytesOf(r) <=> b \in BytesOf(c) /\ b > last
    <3>1. b \in Bytes(new) <=> b \in Bytes(c[1]) /\ b > last
      BY <1>1, <1>2, <2>4, <2>5, InChunk
    <3>2. ASSUME NEW k \in 1 .. Len(c), k # 1, b \in Bytes(c[k]) PROVE b > last
      <4>1. End(c[1]) < c[k].offset
        <5>1. 1 < k
          BY <3>2
        <5> QED
          BY <1>1, <5>1, MemberIs
      <4>2. c[k] \in FileChunk /\ c[k].offset \in Nat /\ b \in Nat /\ c[k].offset <= b
        BY <3>2, MemberIs, InChunk
      <4>3. last < End(c[1])
        BY <1>1, <2>4, InChunk
      <4> QED
        BY <1>2, <2>4, <4>1, <4>2, <4>3
    <3>3. b \in BytesOf(r) <=> \E k \in 1 .. Len(c) : b \in Bytes(r[k])
      BY <2>7, BytesAre
    <3>4. b \in BytesOf(c) <=> \E k \in 1 .. Len(c) : b \in Bytes(c[k])
      BY <1>1, BytesAre
    <3> QED
      BY <1>1, <2>7, <3>1, <3>2, <3>3, <3>4
  <2>10. BytesOf(r) = {b \in BytesOf(c) : b > last}
    BY <2>9
  <2>11. last \in BytesOf(c) /\ NumRuns({b \in BytesOf(c) : b <= last}) = 1
    BY <2>4, FirstRunIs
  <2>12. Len(r) <= Len(c)
    BY <1>1, <2>7
  <2> QED
    BY <2>8, <2>10, <2>11, <2>12 DEF Consumed
<1> QED
  BY <1>4, <1>5

-------------------------------------------------------------------------------
(* The theorems. *)

LEMMA NothingHeld == BytesOf(<<>>) = {} /\ ListOK(<<>>) /\ Len(<<>>) <= MaxChunks
BY MaxChunksAssumption DEF BytesOf, ListOK, Apart

LEMMA SameCardinality == \A S : ByteSet!Cardinality(S) = Cardinality(S)
BY DEF ByteSet!Cardinality, Cardinality

LEMMA SameLearnOutcomes ==
  \A held, new, max : ByteSet!LearnOutcomes(held, new, max) = LearnOutcomes(held, new, max)
<1>1. \A S : ByteSet!RunStarts(S) = RunStarts(S)
  BY DEF ByteSet!RunStarts, RunStarts
<1>2. \A S, b : ByteSet!RunOf(S, b) = RunOf(S, b)
  BY DEF ByteSet!RunOf, RunOf
<1>3. \A S : ByteSet!Runs(S) = Runs(S)
  BY <1>1, <1>2 DEF ByteSet!Runs, Runs
<1>4. \A S : ByteSet!NumRuns(S) = NumRuns(S)
  BY <1>1, SameCardinality DEF ByteSet!NumRuns, NumRuns
<1>5. \A S : ByteSet!SmallestRuns(S) = SmallestRuns(S)
  BY <1>3, SameCardinality DEF ByteSet!SmallestRuns, SmallestRuns
<1> QED
  BY <1>4, <1>5 DEF ByteSet!LearnOutcomes, LearnOutcomes

LEMMA SameNumRuns == \A S : ByteSet!NumRuns(S) = NumRuns(S)
BY SameCardinality DEF ByteSet!NumRuns, ByteSet!RunStarts, NumRuns, RunStarts

LEMMA InitChunks == Init => ChunksInv /\ ByteSet!Init
BY NothingHeld DEF Init, ChunksInv, ByteSet!Init

LEMMA AddBytesStep ==
  ASSUME ChunksInv, AddBytes
  PROVE  ChunksInv' /\ ByteSet!Next
<1>1. PICK offset \in 0 .. MaxOffset - 1 :
        \E size \in 1 .. MaxOffset - offset : chunks' = ListAdd(chunks, offset, size)
  BY DEF AddBytes
<1>2. PICK size \in 1 .. MaxOffset - offset : chunks' = ListAdd(chunks, offset, size)
  BY <1>1
<1>3. offset \in Nat /\ size \in Nat \ {0} /\ offset + size <= MaxOffset
  BY MaxOffsetAssumption
<1>4. /\ ListOK(chunks') /\ Len(chunks') <= MaxChunks
      /\ BytesOf(chunks') \in
           LearnOutcomes(BytesOf(chunks), offset .. offset + size - 1, MaxChunks)
  BY <1>2, <1>3, ListAddIs DEF ChunksInv
<1>5. ByteSet!Learn
  <2>1. offset + size \in offset + 1 .. MaxOffset
    BY <1>3, MaxOffsetAssumption
  <2> QED
    BY <1>4, <2>1, SameLearnOutcomes DEF ByteSet!Learn
<1> QED
  BY <1>4, <1>5 DEF ChunksInv, ByteSet!Next

LEMMA TakeBytesStep ==
  ASSUME ChunksInv, TakeBytes
  PROVE  ChunksInv' /\ ByteSet!Next
<1>1. PICK size \in 1 .. MaxOffset : chunks' = RemoveFromFirst(chunks, size)
  BY DEF TakeBytes
<1>2. size \in Nat \ {0} /\ chunks # <<>> /\ ListOK(chunks) /\ Len(chunks) \in Nat
  BY MaxOffsetAssumption, MemberIs DEF TakeBytes, ChunksInv
<1>3. /\ ListOK(chunks') /\ Len(chunks') <= Len(chunks)
      /\ Consumed(BytesOf(chunks), BytesOf(chunks'))
  BY <1>1, <1>2, RemoveFromFirstIs
<1>4. Len(chunks') <= MaxChunks
  BY <1>2, <1>3, MaxChunksAssumption, MemberIs DEF ChunksInv
<1>5. ByteSet!Consume
  BY <1>3, SameNumRuns DEF ByteSet!Consume, Consumed
<1> QED
  BY <1>3, <1>4, <1>5 DEF ChunksInv, ByteSet!Next

-------------------------------------------------------------------------------
(* The gaps. *)

Initial(c) == IF c[1].offset > 0 THEN 1 ELSE 0

(* The loop of CF_ChunkList_ComputeGaps stops at this chunk.               *)
Stops(c, maxGaps, total, stop) ==
  /\ stop \in 1 .. Len(c) + 1
  /\ \A i \in 1 .. stop - 1 : Initial(c) + i <= maxGaps /\ End(c[i]) < total
  /\ stop <= Len(c) => Initial(c) + stop > maxGaps \/ End(c[stop]) >= total

InGap(c, i, total, b) == b \in End(c[i]) .. NextOff(c, i, total) - 1

(* The gaps g that it has reported when it stops there.                    *)
StopsAfter(c, maxGaps, total, g, stop) ==
  /\ Stops(c, maxGaps, total, stop)
  /\ DOMAIN g = 1 .. Initial(c) + (stop - 1)
  /\ g = <<>> <=> Initial(c) + (stop - 1) = 0
  /\ Initial(c) = 1 => g[1] = [offset |-> 0, size |-> c[1].offset - 0]
  /\ \A i \in 1 .. stop - 1 :
       g[Initial(c) + i] =
         [offset |-> End(c[i]), size |-> NextOff(c, i, total) - End(c[i])]

LEMMA GapsAre ==
  ASSUME NEW c, ListOK(c), c # <<>>, NEW total \in Nat, total # 0, NEW maxGaps \in Nat,
         NEW g, g = ComputeGaps(c, maxGaps, total)
  PROVE  \E stop : StopsAfter(c, maxGaps, total, g, stop)
<1> DEFINE Gap(from, to) == [offset |-> from, size |-> to - from]
           initial == IF c[1].offset > 0 THEN <<Gap(0, c[1].offset)>> ELSE <<>>
           T == {i \in 1 .. Len(c) + 1 : \/ i > Len(c)
                                         \/ Len(initial) + i - 1 >= maxGaps
                                         \/ ReachesTotal(c[i], total)}
           stop == Min(T)
           rest == [i \in 1 .. stop - 1 |-> Gap(End(c[i]), NextOff(c, i, total))]
<1>1. g = initial \o rest
  BY DEF ComputeGaps
<1>2. Len(initial) = Initial(c) /\ Initial(c) \in {0, 1}
  BY DEF Initial
<1>3. Len(c) \in Nat /\ Len(c) + 1 \in T /\ T \subseteq Nat
  BY MemberIs
<1>4. /\ stop \in T /\ stop \in 1 .. Len(c) + 1
      /\ \A i \in T : stop <= i
  <2> HIDE DEF T
  <2>1. stop \in T /\ \A i \in T : stop <= i
    BY <1>3, MinProperties
  <2> QED
    BY <2>1 DEF T
<1> HIDE DEF stop, initial
<1>5. ASSUME NEW i \in 1 .. stop - 1 PROVE Initial(c) + i <= maxGaps /\ End(c[i]) < total
  <2>1. i \in 1 .. Len(c) /\ ~(stop <= i) /\ ~(i > Len(c)) /\ i \in 1 .. Len(c) + 1
    BY <1>3, <1>4
  <2>2. ~(Len(initial) + i - 1 >= maxGaps) /\ ~ReachesTotal(c[i], total)
    BY <1>4, <2>1
  <2>3. End(c[i]) \in Nat
    BY <2>1, MemberIs
  <2>4. End(c[i]) < total
    BY <2>2, <2>3 DEF ReachesTotal
  <2>5. Initial(c) + i <= maxGaps
    BY <1>2, <2>1, <2>2
  <2> QED
    BY <2>4, <2>5
<1>6. ASSUME stop <= Len(c) PROVE Initial(c) + stop > maxGaps \/ End(c[stop]) >= total
  <2>1. stop \in Nat /\ ~(stop > Len(c))
    BY <1>3, <1>4, <1>6
  <2>2. Len(initial) + stop - 1 >= maxGaps \/ ReachesTotal(c[stop], total)
    BY <1>4, <2>1
  <2>3. Len(initial) + stop - 1 >= maxGaps => Initial(c) + stop > maxGaps
    BY <1>2, <2>1
  <2> QED
    BY <2>2, <2>3 DEF ReachesTotal
<1>7. Stops(c, maxGaps, total, stop)
  BY <1>4, <1>5, <1>6 DEF Stops
<1>8. PICK S : initial \in Seq(S) /\ rest \in Seq(S) /\ Len(rest) = stop - 1
               /\ \A i \in 1 .. stop - 1 : rest[i] = Gap(End(c[i]), NextOff(c, i, total))
  <2> DEFINE S == {Gap(0, c[1].offset)}
                    \cup {Gap(End(c[i]), NextOff(c, i, total)) : i \in 1 .. stop - 1}
  <2>1. stop - 1 \in Nat
    BY <1>4
  <2>2. rest \in [1 .. stop - 1 -> S]
    OBVIOUS
  <2>3. rest \in Seq(S) /\ Len(rest) = stop - 1
    <3> HIDE DEF S, rest
    <3> QED
      BY <2>1, <2>2, LenProperties
  <2>4. initial \in Seq(S)
    <3>1. PICK first : first = Gap(0, c[1].offset)
      OBVIOUS
    <3>2. first \in S /\ (initial = <<first>> \/ initial = <<>>)
      BY <3>1 DEF initial
    <3> HIDE DEF S
    <3>3. <<first>> \in Seq(S) /\ <<>> \in Seq(S)
      BY <3>2
    <3> QED
      BY <3>2, <3>3, Zenon
  <2> QED
    BY <2>3, <2>4
<1> HIDE DEF rest
<1>9. /\ g \in Seq(S)
      /\ Len(g) = Initial(c) + (stop - 1) /\ DOMAIN g = 1 .. Initial(c) + (stop - 1)
      /\ \A i \in 1 .. Initial(c) + (stop - 1) :
           g[i] = IF i <= Initial(c) THEN initial[i] ELSE rest[i - Initial(c)]
  <2>1. /\ (initial \o rest) \in Seq(S)
        /\ Len(initial \o rest) = Len(initial) + Len(rest)
        /\ \A i \in 1 .. Len(initial) + Len(rest) :
             (initial \o rest)[i] = IF i <= Len(initial) THEN initial[i]
                                                         ELSE rest[i - Len(initial)]
    BY <1>8, ConcatProperties
  <2>2. /\ g \in Seq(S) /\ Len(g) = Len(initial) + Len(rest)
        /\ \A i \in 1 .. Len(initial) + Len(rest) :
             g[i] = IF i <= Len(initial) THEN initial[i] ELSE rest[i - Len(initial)]
    BY <1>1, <2>1, Zenon
  <2> QED
    BY <1>2, <1>8, <2>2, LenProperties
<1>10. Initial(c) = 1 => g[1] = [offset |-> 0, size |-> c[1].offset - 0]
  <2> SUFFICES ASSUME Initial(c) = 1 PROVE g[1] = [offset |-> 0, size |-> c[1].offset - 0]
    OBVIOUS
  <2>1. 1 \in 1 .. Initial(c) + (stop - 1) /\ 1 <= Initial(c)
    BY <1>4
  <2>2. initial[1] = [offset |-> 0, size |-> c[1].offset - 0]
    BY DEF Initial, initial
  <2> QED
    BY <1>9, <2>1, <2>2
<1>11. ASSUME NEW i \in 1 .. stop - 1
       PROVE  g[Initial(c) + i] =
                [offset |-> End(c[i]), size |-> NextOff(c, i, total) - End(c[i])]
  <2>1. /\ Initial(c) + i \in 1 .. Initial(c) + (stop - 1) /\ ~(Initial(c) + i <= Initial(c))
        /\ (Initial(c) + i) - Initial(c) = i
    BY <1>2, <1>4
  <2> QED
    BY <1>8, <1>9, <2>1
<1>12. g = <<>> <=> Initial(c) + (stop - 1) = 0
  BY <1>9, EmptySeq
<1> QED
  BY <1>7, <1>9, <1>10, <1>11, <1>12 DEF StopsAfter

LEMMA NextOffIs ==
  ASSUME NEW c, ListOK(c), NEW i \in 1 .. Len(c), NEW total \in Nat, End(c[Len(c)]) <= total
  PROVE  /\ NextOff(c, i, total) \in Nat /\ NextOff(c, i, total) <= total
         /\ End(c[i]) <= NextOff(c, i, total)
         /\ \A k \in 1 .. Len(c) : i < k => NextOff(c, i, total) <= c[k].offset
<1>1. Len(c) \in Nat /\ Len(c) \in 1 .. Len(c) /\ End(c[i]) \in Nat
  BY MemberIs
<1>2. CASE i = Len(c)
  <2>1. NextOff(c, i, total) = total
    BY <1>2 DEF NextOff
  <2> QED
    BY <1>1, <1>2, <2>1
<1>3. CASE i # Len(c)
  <2>1. i + 1 \in 1 .. Len(c) /\ i < i + 1 /\ NextOff(c, i, total) = c[i + 1].offset
    BY <1>1, <1>3 DEF NextOff
  <2>2. /\ c[i + 1].offset \in Nat /\ End(c[i + 1]) \in Nat /\ c[i + 1].offset < End(c[i + 1])
        /\ End(c[i]) < c[i + 1].offset
    BY <2>1, MemberIs
  <2>3. End(c[i + 1]) <= total
    <3>1. i + 1 = Len(c) \/ i + 1 < Len(c)
      BY <1>1, <2>1
    <3>2. i + 1 < Len(c) => End(c[i + 1]) < c[Len(c)].offset
      BY <1>1, <2>1, MemberIs
    <3>3. /\ c[Len(c)].offset \in Nat /\ End(c[Len(c)]) \in Nat
          /\ c[Len(c)].offset < End(c[Len(c)])
      BY <1>1, MemberIs
    <3> QED
      BY <2>2, <3>1, <3>2, <3>3
  <2>4. ASSUME NEW k \in 1 .. Len(c), i < k PROVE c[i + 1].offset <= c[k].offset
    <3>1. k = i + 1 \/ i + 1 < k
      BY <2>1, <2>4
    <3>2. i + 1 < k => End(c[i + 1]) < c[k].offset
      BY <2>1, MemberIs
    <3>3. c[k].offset \in Nat
      BY MemberIs
    <3> QED
      BY <2>2, <3>1, <3>2, <3>3
  <2> QED
    BY <1>1, <2>1, <2>2, <2>3, <2>4
<1> QED
  BY <1>2, <1>3

(* A byte is missing before the first chunk or in the gap after one.       *)
LEMMA MissingIs ==
  ASSUME NEW c, ListOK(c), c # <<>>, NEW total \in Nat, End(c[Len(c)]) <= total, NEW b
  PROVE  b \in Missing(BytesOf(c), total)
           <=> \/ b \in 0 .. c[1].offset - 1
               \/ \E i \in 1 .. Len(c) : InGap(c, i, total, b)
<1>1. /\ Len(c) \in Nat /\ Len(c) \in 1 .. Len(c) /\ 1 \in 1 .. Len(c) /\ c \in Seq(FileChunk)
  <2>1. Len(c) \in Nat /\ c \in Seq(FileChunk)
    BY MemberIs
  <2>2. Len(c) # 0
    BY <2>1
  <2> QED
    BY <2>1, <2>2
<1>2. \A k \in 1 .. Len(c) : /\ c[k] \in FileChunk /\ c[k].offset \in Nat /\ End(c[k]) \in Nat
                             /\ c[k].offset < End(c[k])
  BY MemberIs
<1>3. b \in BytesOf(c) <=> \E k \in 1 .. Len(c) : b \in Bytes(c[k])
  BY <1>1, BytesAre
<1>4. \A k \in 1 .. Len(c) : b \in Bytes(c[k]) <=> b \in Nat /\ c[k].offset <= b /\ b < End(c[k])
  BY <1>2, InChunk
<1>5. \A k \in 1 .. Len(c) : c[1].offset <= c[k].offset /\ End(c[k]) <= total
  <2> SUFFICES ASSUME NEW k \in 1 .. Len(c)
               PROVE  c[1].offset <= c[k].offset /\ End(c[k]) <= total
    OBVIOUS
  <2>1. /\ k = 1 \/ 1 < k
        /\ k = Len(c) \/ k < Len(c)
    BY <1>1
  <2>2. /\ 1 < k => End(c[1]) < c[k].offset
        /\ k < Len(c) => End(c[k]) < c[Len(c)].offset
    BY <1>1, MemberIs
  <2>3. 1 < k => c[1].offset <= c[k].offset
    BY <1>1, <1>2, <2>2
  <2>4. k < Len(c) => End(c[k]) <= total
    <3>1. /\ c[Len(c)].offset < End(c[Len(c)]) /\ c[Len(c)].offset \in Nat
          /\ End(c[Len(c)]) \in Nat /\ End(c[k]) \in Nat
      BY <1>1, <1>2
    <3> QED
      BY <2>2, <3>1
  <2> QED
    BY <1>2, <2>1, <2>3, <2>4
<1>6. ASSUME b \in Missing(BytesOf(c), total), ~(b \in 0 .. c[1].offset - 1)
      PROVE  \E i \in 1 .. Len(c) : InGap(c, i, total, b)
  <2> DEFINE T == {k \in 1 .. Len(c) : End(c[k]) <= b}
  <2>1. /\ b \in Nat /\ b < total /\ c[1].offset <= b
        /\ \A k \in 1 .. Len(c) : ~(c[k].offset <= b /\ b < End(c[k]))
    <3>1. b \in 0 .. total - 1 /\ b \notin BytesOf(c)
      BY <1>6 DEF Missing
    <3>2. b \in Nat /\ b < total
      BY <3>1
    <3>3. c[1].offset <= b
      BY <1>1, <1>2, <1>6, <3>2
    <3> QED
      BY <1>3, <1>4, <3>1, <3>2, <3>3
  <2>2. T \subseteq 0 .. Len(c) /\ T # {}
    <3>1. 1 \in T
      BY <1>1, <1>2, <2>1
    <3> QED
      BY <1>1, <3>1
  <2>3. PICK i : i \in T /\ \A k \in T : k <= i
    <3> HIDE DEF T
    <3> QED
      BY <1>1, <2>2, MaxProperties
  <2>4. i \in 1 .. Len(c) /\ End(c[i]) <= b /\ End(c[i]) \in Nat
    BY <1>2, <2>3
  <2>5. b < NextOff(c, i, total)
    <3>1. CASE i = Len(c)
      BY <2>1, <3>1 DEF NextOff
    <3>2. CASE i # Len(c)
      <4>1. i + 1 \in 1 .. Len(c) /\ ~(i + 1 <= i)
        BY <1>1, <2>4, <3>2
      <4>2. ~(End(c[i + 1]) <= b)
        BY <2>3, <4>1
      <4>3. b < c[i + 1].offset
        BY <1>2, <2>1, <4>1, <4>2
      <4> QED
        BY <3>2, <4>3 DEF NextOff
    <3> QED
      BY <3>1, <3>2
  <2>6. NextOff(c, i, total) \in Nat
    BY <2>4, NextOffIs
  <2> QED
    BY <2>1, <2>4, <2>5, <2>6 DEF InGap
<1>7. ASSUME b \in 0 .. c[1].offset - 1 PROVE b \in Missing(BytesOf(c), total)
  <2>1. b \in Nat /\ b < c[1].offset
    BY <1>1, <1>2, <1>7
  <2>2. b \notin BytesOf(c)
    BY <1>1, <1>2, <1>3, <1>4, <1>5, <2>1
  <2>3. b \in 0 .. total - 1
    <3>1. c[1].offset < End(c[1]) /\ End(c[1]) <= total /\ c[1].offset \in Nat /\ End(c[1]) \in Nat
      BY <1>1, <1>2, <1>5
    <3> QED
      BY <2>1, <3>1
  <2> QED
    BY <2>2, <2>3 DEF Missing
<1>8. ASSUME NEW i \in 1 .. Len(c), InGap(c, i, total, b) PROVE b \in Missing(BytesOf(c), total)
  <2>1. /\ NextOff(c, i, total) \in Nat /\ NextOff(c, i, total) <= total
        /\ \A k \in 1 .. Len(c) : i < k => NextOff(c, i, total) <= c[k].offset
    BY NextOffIs
  <2>2. b \in Nat /\ End(c[i]) <= b /\ b < NextOff(c, i, total) /\ End(c[i]) \in Nat
    BY <1>2, <1>8, <2>1 DEF InGap
  <2>3. ASSUME NEW k \in 1 .. Len(c) PROVE ~(c[k].offset <= b /\ b < End(c[k]))
    <3>1. CASE i < k
      BY <1>2, <2>1, <2>2, <3>1
    <3>2. CASE ~(i < k)
      <4>1. k = i \/ k < i
        BY <3>2
      <4>2. k < i => End(c[k]) < c[i].offset
        BY MemberIs
      <4>3. End(c[k]) <= End(c[i])
        BY <1>2, <4>1, <4>2
      <4> QED
        BY <1>2, <2>2, <4>3
    <3> QED
      BY <3>1, <3>2
  <2>4. b \in 0 .. total - 1
    BY <2>1, <2>2
  <2> QED
    BY <1>3, <1>4, <2>3, <2>4 DEF Missing
<1> QED
  BY <1>6, <1>7, <1>8

(* The runs of missing bytes up to one in the gap after chunk i.           *)
LEMMA MissingStarts ==
  ASSUME NEW c, ListOK(c), c # <<>>, NEW total \in Nat, End(c[Len(c)]) <= total,
         NEW i \in 1 .. Len(c), NEW b, InGap(c, i, total, b), NEW s
  PROVE  s \in RunStarts(Missing(BytesOf(c), total)) /\ s <= b
           <=> \/ Initial(c) = 1 /\ s = 0
               \/ \E k \in 1 .. i : s = End(c[k])
<1> DEFINE M == Missing(BytesOf(c), total)
<1>1. /\ Len(c) \in Nat /\ 1 \in 1 .. Len(c) /\ i \in 1 .. Len(c) /\ c \in Seq(FileChunk)
      /\ \A k \in 1 .. i : k \in 1 .. Len(c)
  <2>1. Len(c) \in Nat /\ c \in Seq(FileChunk)
    BY MemberIs
  <2> QED
    BY <2>1
<1>2. \A k \in 1 .. Len(c) : /\ c[k] \in FileChunk /\ c[k].offset \in Nat /\ End(c[k]) \in Nat
                             /\ c[k].offset < End(c[k])
  BY MemberIs
<1>3. \A k \in 1 .. Len(c) :
        /\ NextOff(c, k, total) \in Nat
        /\ \A j \in 1 .. Len(c) : k < j => NextOff(c, k, total) <= c[j].offset
  BY NextOffIs
<1>4. b \in Nat /\ End(c[i]) <= b /\ b < NextOff(c, i, total)
  BY <1>2, <1>3 DEF InGap
<1>5. M \subseteq Nat
  BY DEF Missing
<1>6. \A x : x \in M <=> \/ x \in 0 .. c[1].offset - 1
                         \/ \E k \in 1 .. Len(c) : InGap(c, k, total, x)
  BY MissingIs
<1> HIDE DEF M
<1>7. ASSUME s \in M, s - 1 \notin M, s <= b
      PROVE  \/ Initial(c) = 1 /\ s = 0
             \/ \E k \in 1 .. i : s = End(c[k])
  <2>1. s \in Nat
    BY <1>5, <1>7
  <2>2. CASE s \in 0 .. c[1].offset - 1
    <3>1. s < c[1].offset /\ c[1].offset \in Nat
      BY <1>1, <1>2, <2>1, <2>2
    <3>2. ~(s - 1 \in 0 .. c[1].offset - 1)
      BY <1>6, <1>7
    <3>3. s = 0 /\ c[1].offset > 0
      BY <2>1, <3>1, <3>2
    <3> QED
      BY <3>3 DEF Initial
  <2>3. CASE ~(s \in 0 .. c[1].offset - 1)
    <3>1. PICK k \in 1 .. Len(c) : InGap(c, k, total, s)
      BY <1>6, <1>7, <2>3
    <3>2. End(c[k]) <= s /\ s < NextOff(c, k, total)
      BY <1>2, <1>3, <2>1, <3>1 DEF InGap
    <3>3. ~InGap(c, k, total, s - 1)
      BY <1>6, <1>7
    <3>4. s = End(c[k])
      <4>1. ~(End(c[k]) <= s - 1 /\ s - 1 <= NextOff(c, k, total) - 1)
        BY <1>2, <1>3, <2>1, <3>3 DEF InGap
      <4>2. End(c[k]) \in Nat /\ NextOff(c, k, total) \in Nat
        BY <1>2, <1>3
      <4> QED
        BY <2>1, <3>2, <4>1, <4>2
    <3>5. ~(i < k)
      <4> SUFFICES ASSUME i < k PROVE FALSE
        OBVIOUS
      <4>1. NextOff(c, i, total) <= c[k].offset /\ NextOff(c, i, total) \in Nat
        BY <1>1, <1>3
      <4>2. c[k].offset < End(c[k]) /\ c[k].offset \in Nat /\ End(c[k]) \in Nat
        BY <1>2
      <4> QED
        BY <1>4, <1>7, <3>4, <4>1, <4>2
    <3>6. k \in 1 .. i
      BY <3>5
    <3> QED
      BY <3>4, <3>6
  <2> QED
    BY <2>2, <2>3
<1>8. ASSUME Initial(c) = 1, s = 0 PROVE s \in M /\ s - 1 \notin M /\ s <= b
  <2>1. c[1].offset > 0 /\ c[1].offset \in Nat
    BY <1>1, <1>2, <1>8 DEF Initial
  <2>2. s \in 0 .. c[1].offset - 1
    BY <1>8, <2>1
  <2>3. s - 1 \notin Nat
    BY <1>8
  <2> QED
    BY <1>4, <1>5, <1>6, <1>8, <2>2, <2>3
<1>9. ASSUME NEW k \in 1 .. i, s = End(c[k]) PROVE s \in M /\ s - 1 \notin M /\ s <= b
  <2>1. k \in 1 .. Len(c) /\ s \in Nat /\ NextOff(c, k, total) \in Nat
    BY <1>1, <1>2, <1>3, <1>9
  <2>2. CASE k = i
    <3>1. s <= b /\ s < NextOff(c, k, total)
      BY <1>4, <1>9, <2>1, <2>2
    <3>2. InGap(c, k, total, s)
      BY <1>9, <2>1, <3>1 DEF InGap
    <3>3. s - 1 \notin M
      <4>1. s - 1 \in Bytes(c[k])
        BY <1>2, <1>9, <2>1, InChunk
      <4> QED
        BY <1>1, <2>1, <4>1, BytesAre DEF M, Missing
    <3> QED
      BY <1>6, <2>1, <3>1, <3>2, <3>3
  <2>3. CASE k # i
    <3>1. k < i /\ k + 1 \in 1 .. Len(c) /\ k < k + 1 /\ k # Len(c)
      BY <1>1, <2>3
    <3>2. s < c[i].offset /\ s < c[k + 1].offset
      BY <1>1, <1>9, <2>1, <3>1, MemberIs
    <3>3. NextOff(c, k, total) = c[k + 1].offset
      BY <3>1 DEF NextOff
    <3>4. InGap(c, k, total, s)
      BY <1>9, <2>1, <3>2, <3>3 DEF InGap
    <3>5. s <= b
      <4>1. c[i].offset < End(c[i]) /\ c[i].offset \in Nat /\ End(c[i]) \in Nat
        BY <1>1, <1>2
      <4> QED
        BY <1>4, <2>1, <3>2, <4>1
    <3>6. s - 1 \notin M
      <4>1. s - 1 \in Bytes(c[k])
        BY <1>2, <1>9, <2>1, InChunk
      <4> QED
        BY <1>1, <2>1, <4>1, BytesAre DEF M, Missing
    <3> QED
      BY <1>6, <2>1, <3>4, <3>5, <3>6
  <2> QED
    BY <2>2, <2>3
<1> QED
  BY <1>7, <1>8, <1>9 DEF M, RunStarts

LEMMA RankIs ==
  ASSUME NEW c, ListOK(c), c # <<>>, NEW total \in Nat, End(c[Len(c)]) <= total,
         NEW i \in 1 .. Len(c), NEW b, InGap(c, i, total, b)
  PROVE  Cardinality({s \in RunStarts(Missing(BytesOf(c), total)) : s <= b}) = Initial(c) + i
<1> DEFINE T == {s \in RunStarts(Missing(BytesOf(c), total)) : s <= b}
           low == 1 - Initial(c)
           f == [k \in low .. i |-> IF k = 0 THEN 0 ELSE End(c[k])]
<1>1. Initial(c) \in {0, 1} /\ low \in {0, 1} /\ (low = 0 <=> Initial(c) = 1) /\ i \in Nat \ {0}
  <2>1. Initial(c) \in {0, 1} /\ i \in Nat \ {0}
    BY DEF Initial
  <2> QED
    BY <2>1
<1>2. \A s : s \in T <=> \/ Initial(c) = 1 /\ s = 0
                         \/ \E k \in 1 .. i : s = End(c[k])
  BY MissingStarts
<1>3. /\ \A k \in 1 .. i : k \in 1 .. Len(c) /\ End(c[k]) \in Nat \ {0}
      /\ \A j, k \in 1 .. i : j < k => End(c[j]) < End(c[k])
  <2>1. Len(c) \in Nat /\ \A k \in 1 .. i : k \in 1 .. Len(c)
    BY MemberIs
  <2>2. \A k \in 1 .. Len(c) : /\ c[k].offset \in Nat /\ End(c[k]) \in Nat
                               /\ c[k].offset < End(c[k])
    BY MemberIs
  <2>3. ASSUME NEW j \in 1 .. i, NEW k \in 1 .. i, j < k PROVE End(c[j]) < End(c[k])
    <3>1. End(c[j]) < c[k].offset
      BY <2>1, <2>3, MemberIs
    <3>2. c[k].offset < End(c[k]) /\ c[k].offset \in Nat /\ End(c[k]) \in Nat /\ End(c[j]) \in Nat
      BY <2>1, <2>2
    <3> QED
      BY <3>1, <3>2
  <2>4. ASSUME NEW k \in 1 .. i PROVE End(c[k]) \in Nat \ {0}
    BY <2>1, <2>2
  <2> QED
    BY <2>1, <2>3, <2>4
<1> HIDE DEF T
<1>4. f \in [low .. i -> T] /\ DOMAIN f = low .. i
  <2>1. ASSUME NEW k \in low .. i PROVE (IF k = 0 THEN 0 ELSE End(c[k])) \in T
    <3>1. k = 0 => Initial(c) = 1
      BY <1>1
    <3>2. k # 0 => k \in 1 .. i
      BY <1>1
    <3> QED
      BY <1>2, <3>1, <3>2
  <2> QED
    BY <2>1
<1>5. \A j, k \in low .. i : f[j] = f[k] => j = k
  <2> SUFFICES ASSUME NEW j \in low .. i, NEW k \in low .. i, j < k PROVE f[j] # f[k]
    BY <1>1
  <2>1. k \in 1 .. i /\ k # 0
    BY <1>1
  <2>2. CASE j = 0
    BY <1>3, <2>1, <2>2
  <2>3. CASE j # 0
    <3>1. j \in 1 .. i
      BY <1>1, <2>3
    <3>2. End(c[j]) < End(c[k]) /\ End(c[j]) \in Nat /\ End(c[k]) \in Nat
      BY <1>3, <2>1, <3>1
    <3> QED
      BY <2>1, <2>3, <3>2
  <2> QED
    BY <2>2, <2>3
<1>6. \A s \in T : \E k \in low .. i : f[k] = s
  <2> SUFFICES ASSUME NEW s \in T PROVE \E k \in low .. i : f[k] = s
    OBVIOUS
  <2>1. CASE Initial(c) = 1 /\ s = 0
    <3>1. 0 \in low .. i /\ f[0] = 0
      BY <1>1, <2>1
    <3> QED
      BY <2>1, <3>1
  <2>2. ASSUME NEW k \in 1 .. i, s = End(c[k]) PROVE \E j \in low .. i : f[j] = s
    <3>1. k \in low .. i /\ k # 0
      BY <1>1
    <3>2. f[k] = s
      BY <2>2, <3>1
    <3> QED
      BY <3>1, <3>2
  <2> QED
    BY <1>2, <2>1, <2>2
<1> HIDE DEF f
<1>7. f \in Surjection(low .. i, T) /\ f \in Injection(low .. i, T)
  BY <1>4, <1>5, <1>6 DEF Surjection, Injection, IsInjective
<1>8. IsFiniteSet(low .. i) /\ Cardinality(low .. i) = Initial(c) + i
  <2>1. low \in Int /\ i \in Int /\ ~(low > i) /\ i - low + 1 = Initial(c) + i
    BY <1>1
  <2> HIDE DEF low
  <2> QED
    BY <2>1, FS_Interval
<1>9. Cardinality(T) = Cardinality(low .. i)
  BY <1>7, <1>8, FS_Surjection
<1> QED
  BY <1>8, <1>9 DEF T

(* No gap is computed when nothing below total is missing, and only then:  *)
(* the test of CF_CFDP_R_CheckComplete, for every total.                   *)
LEMMA NoGapsIs ==
  ASSUME NEW c, ListOK(c), NEW total \in Nat
  PROVE  ComputeGaps(c, 1, total) = <<>> <=> Missing(BytesOf(c), total) = {}
<1>1. CASE total = 0
  BY <1>1 DEF ComputeGaps, Missing
<1>2. CASE total # 0 /\ c = <<>>
  <2>1. ComputeGaps(c, 1, total) # <<>>
    BY <1>2 DEF ComputeGaps
  <2>2. 0 \in Missing(BytesOf(c), total)
    BY <1>2, NothingHeld DEF Missing
  <2> QED
    BY <2>1, <2>2
<1>3. CASE total # 0 /\ c # <<>>
  <2>1. PICK g : g = ComputeGaps(c, 1, total)
    OBVIOUS
  <2>2. PICK stop : Stops(c, 1, total, stop) /\ (g = <<>> <=> Initial(c) + (stop - 1) = 0)
    <3>1. \E stop : StopsAfter(c, 1, total, g, stop)
      BY <1>3, <2>1, GapsAre
    <3> QED
      BY <3>1 DEF StopsAfter
  <2>3. /\ c \in Seq(FileChunk) /\ Len(c) \in Nat /\ 1 \in 1 .. Len(c)
        /\ c[1].offset \in Nat /\ End(c[1]) \in Nat /\ c[1].offset < End(c[1])
        /\ c[1] \in FileChunk
    <3>1. c \in Seq(FileChunk) /\ Len(c) \in Nat
      BY MemberIs
    <3>2. 1 \in 1 .. Len(c)
      BY <1>3, <3>1
    <3> QED
      BY <3>1, <3>2, MemberIs
  <2>4. stop \in Nat \ {0}
    BY <2>2, <2>3 DEF Stops
  <2>5. CASE c[1].offset > 0
    <3>1. Initial(c) = 1
      BY <2>5 DEF Initial
    <3>2. g # <<>>
      BY <2>2, <2>4, <3>1
    <3>3. 0 \notin BytesOf(c)
      <4>1. ASSUME NEW k \in 1 .. Len(c) PROVE 0 \notin Bytes(c[k])
        <5>1. c[k].offset > 0 /\ c[k] \in FileChunk
          <6>1. k = 1 \/ 1 < k
            BY <2>3
          <6>2. 1 < k => End(c[1]) < c[k].offset
            BY <2>3, MemberIs
          <6>3. c[k].offset \in Nat /\ c[k] \in FileChunk
            BY MemberIs
          <6> QED
            BY <2>3, <2>5, <6>1, <6>2, <6>3
        <5>2. c[k].offset \in Nat
          BY MemberIs
        <5> QED
          BY <5>1, <5>2, InChunk
      <4> QED
        BY <2>3, <4>1, BytesAre
    <3>4. 0 \in Missing(BytesOf(c), total)
      BY <1>3, <3>3 DEF Missing
    <3> QED
      BY <2>1, <3>2, <3>4
  <2>6. CASE ~(c[1].offset > 0)
    <3>1. Initial(c) = 0 /\ c[1].offset = 0
      BY <2>3, <2>6 DEF Initial
    <3>2. g = <<>> <=> stop = 1
      BY <2>2, <2>4, <3>1
    <3>3. stop = 1 <=> End(c[1]) >= total
      <4>1. ASSUME stop = 1 PROVE End(c[1]) >= total
        <5>1. stop <= Len(c) /\ ~(Initial(c) + stop > 1)
          BY <2>3, <3>1, <4>1
        <5> QED
          BY <2>2, <4>1, <5>1 DEF Stops
      <4>2. ASSUME stop # 1 PROVE ~(End(c[1]) >= total)
        <5>1. 1 \in 1 .. stop - 1
          BY <2>4, <4>2
        <5>2. End(c[1]) < total
          BY <2>2, <5>1 DEF Stops
        <5> QED
          BY <2>3, <5>2
      <4> QED
        BY <4>1, <4>2
    <3>4. End(c[1]) >= total <=> Missing(BytesOf(c), total) = {}
      <4>1. ASSUME End(c[1]) >= total, NEW b \in 0 .. total - 1 PROVE b \in BytesOf(c)
        <5>1. b \in Nat /\ c[1].offset <= b /\ b < End(c[1])
          BY <2>3, <3>1, <4>1
        <5>2. b \in Bytes(c[1])
          BY <2>3, <5>1, InChunk
        <5> QED
          BY <2>3, <5>2, BytesAre
      <4>2. ASSUME ~(End(c[1]) >= total) PROVE End(c[1]) \in Missing(BytesOf(c), total)
        <5>1. End(c[1]) \in 0 .. total - 1
          BY <2>3, <4>2
        <5>2. End(c[1]) \notin BytesOf(c)
          BY <2>3, Neighbours
        <5> QED
          BY <5>1, <5>2 DEF Missing
      <4> QED
        BY <4>1, <4>2 DEF Missing
    <3> QED
      BY <2>1, <3>2, <3>3, <3>4
  <2> QED
    BY <2>5, <2>6
<1> QED
  BY <1>1, <1>2, <1>3

(* The bytes of the gaps, when no chunk ends beyond total.                 *)
LEMMA GapListBytes ==
  ASSUME NEW c, ListOK(c), c # <<>>, NEW total \in Nat, total # 0, NEW maxGaps \in Nat,
         End(c[Len(c)]) <= total
  PROVE  \E stop :
           /\ Stops(c, maxGaps, total, stop)
           /\ \A b : b \in BytesOf(ComputeGaps(c, maxGaps, total))
                       <=> \/ b \in 0 .. c[1].offset - 1
                           \/ \E i \in 1 .. stop - 1 : InGap(c, i, total, b)
<1>1. PICK g : g = ComputeGaps(c, maxGaps, total)
  OBVIOUS
<1>2. PICK stop :
        /\ Stops(c, maxGaps, total, stop)
        /\ DOMAIN g = 1 .. Initial(c) + (stop - 1)
        /\ Initial(c) = 1 => g[1] = [offset |-> 0, size |-> c[1].offset - 0]
        /\ \A i \in 1 .. stop - 1 :
             g[Initial(c) + i] =
               [offset |-> End(c[i]), size |-> NextOff(c, i, total) - End(c[i])]
  <2>1. \E stop : StopsAfter(c, maxGaps, total, g, stop)
    BY <1>1, GapsAre
  <2> QED
    BY <2>1 DEF StopsAfter
<1>3. /\ Len(c) \in Nat /\ 1 \in 1 .. Len(c) /\ c[1].offset \in Nat
      /\ stop \in Nat \ {0} /\ \A i \in 1 .. stop - 1 : i \in 1 .. Len(c)
  <2>1. Len(c) \in Nat /\ c \in Seq(FileChunk)
    BY MemberIs
  <2>2. 1 \in 1 .. Len(c)
    BY <2>1
  <2>3. c[1].offset \in Nat
    BY <2>2, MemberIs
  <2>4. stop \in 1 .. Len(c) + 1
    BY <1>2 DEF Stops
  <2> QED
    BY <2>1, <2>2, <2>3, <2>4
<1>4. Initial(c) \in {0, 1} /\ (Initial(c) = 1 <=> c[1].offset > 0)
  BY DEF Initial
<1>5. \A b : b \in BytesOf(g)
               <=> \E k \in 1 .. Initial(c) + (stop - 1) : b \in g[k].offset .. End(g[k]) - 1
  BY <1>2 DEF BytesOf
<1>6. ASSUME NEW i \in 1 .. stop - 1, NEW b
      PROVE  b \in g[Initial(c) + i].offset .. End(g[Initial(c) + i]) - 1
               <=> InGap(c, i, total, b)
  <2>1. End(c[i]) \in Nat /\ NextOff(c, i, total) \in Nat
    BY <1>3, MemberIs, NextOffIs
  <2>2. PICK e, n : e = End(c[i]) /\ n = NextOff(c, i, total)
    OBVIOUS
  <2>3. g[Initial(c) + i] = [offset |-> e, size |-> n - e]
    BY <1>2, <2>2
  <2>4. g[Initial(c) + i].offset = e /\ End(g[Initial(c) + i]) = n
    BY <2>1, <2>2, <2>3 DEF End
  <2> QED
    BY <2>2, <2>4 DEF InGap
<1>7. ASSUME Initial(c) = 1, NEW b
      PROVE  b \in g[1].offset .. End(g[1]) - 1 <=> b \in 0 .. c[1].offset - 1
  <2>1. g[1].offset = 0 /\ End(g[1]) = c[1].offset
    BY <1>2, <1>3, <1>7 DEF End
  <2> QED
    BY <2>1
<1>8. ASSUME NEW b
      PROVE  b \in BytesOf(g) <=> \/ b \in 0 .. c[1].offset - 1
                                  \/ \E i \in 1 .. stop - 1 : InGap(c, i, total, b)
  <2>1. ASSUME NEW k \in 1 .. Initial(c) + (stop - 1), b \in g[k].offset .. End(g[k]) - 1
        PROVE  \/ b \in 0 .. c[1].offset - 1
               \/ \E i \in 1 .. stop - 1 : InGap(c, i, total, b)
    <3>1. CASE k <= Initial(c)
      <4>1. Initial(c) = 1 /\ k = 1
        BY <1>3, <1>4, <3>1
      <4> QED
        BY <1>7, <2>1, <4>1
    <3>2. CASE ~(k <= Initial(c))
      <4>1. PICK n : n = Initial(c)
        OBVIOUS
      <4>2. k - n \in 1 .. stop - 1 /\ k = n + (k - n)
        <5>1. n \in {0, 1} /\ k \in 1 .. n + (stop - 1) /\ ~(k <= n)
          BY <1>4, <3>2, <4>1
        <5> QED
          BY <1>3, <5>1
      <4>3. PICK i \in 1 .. stop - 1 : k = Initial(c) + i
        BY <4>1, <4>2
      <4> QED
        BY <1>6, <2>1, <4>3
    <3> QED
      BY <3>1, <3>2
  <2>2. ASSUME b \in 0 .. c[1].offset - 1 PROVE b \in BytesOf(g)
    <3>1. Initial(c) = 1
      BY <1>3, <1>4, <2>2
    <3>2. 1 \in 1 .. Initial(c) + (stop - 1)
      BY <1>3, <3>1
    <3> QED
      BY <1>5, <1>7, <2>2, <3>1, <3>2
  <2>3. ASSUME NEW i \in 1 .. stop - 1, InGap(c, i, total, b) PROVE b \in BytesOf(g)
    <3>1. Initial(c) + i \in 1 .. Initial(c) + (stop - 1)
      BY <1>3, <1>4
    <3> QED
      BY <1>5, <1>6, <2>3, <3>1
  <2> QED
    BY <1>5, <2>1, <2>2, <2>3
<1> QED
  BY <1>1, <1>2, <1>8

(* A byte in the gap after a chunk is reported exactly when the number of  *)
(* missing runs up to it is within the limit.                              *)
LEMMA InReportedGap ==
  ASSUME NEW c, ListOK(c), c # <<>>, NEW total \in Nat, NEW maxGaps \in Nat,
         End(c[Len(c)]) <= total, NEW stop, Stops(c, maxGaps, total, stop),
         NEW i \in 1 .. Len(c), NEW b, InGap(c, i, total, b)
  PROVE  i \in 1 .. stop - 1 <=> Initial(c) + i <= maxGaps
<1>1. /\ Len(c) \in Nat /\ End(c[i]) \in Nat /\ c[i].offset \in Nat /\ c[i].offset < End(c[i])
      /\ NextOff(c, i, total) \in Nat /\ NextOff(c, i, total) <= total
      /\ stop \in 1 .. Len(c) + 1
  BY MemberIs, NextOffIs DEF Stops
<1>2. End(c[i]) < total
  <2>1. PICK e, n : e = End(c[i]) /\ n = NextOff(c, i, total)
    OBVIOUS
  <2>2. b \in e .. n - 1 /\ e \in Nat /\ n \in Nat /\ n <= total
    BY <1>1, <2>1 DEF InGap
  <2>3. e < total
    BY <2>2
  <2> QED
    BY <2>1, <2>3
<1>3. i \in 1 .. stop - 1 => Initial(c) + i <= maxGaps
  BY DEF Stops
<1>4. ASSUME Initial(c) + i <= maxGaps, ~(i \in 1 .. stop - 1) PROVE FALSE
  <2>1. stop \in 1 .. Len(c) /\ (stop = i \/ stop < i)
    <3>1. PICK n : n = Len(c) /\ n \in Nat
      BY <1>1
    <3>2. stop \in 1 .. n + 1 /\ i \in 1 .. n /\ ~(i \in 1 .. stop - 1)
      BY <1>1, <1>4, <3>1
    <3>3. stop \in Nat /\ i \in Nat /\ 1 <= stop /\ 1 <= i /\ i <= n /\ ~(i <= stop - 1)
      BY <3>1, <3>2
    <3>4. stop \in 1 .. n /\ (stop = i \/ stop < i)
      BY <3>1, <3>3
    <3> QED
      BY <3>1, <3>4
  <2>2. ~(Initial(c) + stop > maxGaps)
    <3>1. PICK n : n = Initial(c) /\ n \in {0, 1}
      BY DEF Initial
    <3>2. stop \in Nat /\ i \in Nat /\ stop <= i /\ n + i <= maxGaps
      BY <1>1, <1>4, <2>1, <3>1
    <3>3. ~(n + stop > maxGaps)
      BY <3>1, <3>2
    <3> QED
      BY <3>1, <3>3
  <2>3. End(c[stop]) >= total
    BY <1>1, <2>1, <2>2 DEF Stops
  <2>4. stop < i => End(c[stop]) < c[i].offset
    BY <2>1, MemberIs
  <2>5. End(c[stop]) \in Nat
    BY <2>1, MemberIs
  <2>6. CASE stop = i
    BY <1>1, <1>2, <2>3, <2>6
  <2>7. CASE stop < i
    <3>1. PICK e, o, d : e = End(c[stop]) /\ o = c[i].offset /\ d = End(c[i])
      OBVIOUS
    <3>2. /\ e \in Nat /\ o \in Nat /\ d \in Nat
          /\ e >= total /\ e < o /\ o < d /\ d < total
      BY <1>1, <1>2, <2>3, <2>4, <2>5, <2>7, <3>1
    <3> QED
      BY <3>2
  <2> QED
    BY <2>1, <2>6, <2>7
<1> QED
  BY <1>3, <1>4

(* The gaps reported are the first runs of missing bytes.                  *)
LEMMA GapsAreRuns ==
  ASSUME NEW c, ListOK(c), NEW total \in Nat, NEW maxGaps \in Nat,
         BytesOf(c) \subseteq 0 .. total - 1
  PROVE  BytesOf(ComputeGaps(c, maxGaps, total)) = GapBytes(BytesOf(c), maxGaps, total)
<1>1. CASE total = 0
  <2>1. ComputeGaps(c, maxGaps, total) = <<>>
    BY <1>1 DEF ComputeGaps
  <2>2. Missing(BytesOf(c), total) = {}
    BY <1>1 DEF Missing
  <2>3. GapBytes(BytesOf(c), maxGaps, total) = {}
    BY <2>2 DEF GapBytes
  <2> QED
    BY <2>1, <2>3, NothingHeld
<1>2. CASE total # 0 /\ c = <<>>
  <2>1. PICK g : g = ComputeGaps(c, maxGaps, total)
    OBVIOUS
  <2>2. g = <<[offset |-> 0, size |-> total - 0]>>
    BY <1>2, <2>1 DEF ComputeGaps
  <2>3. DOMAIN g = {1} /\ g[1].offset = 0 /\ End(g[1]) = total
    BY <2>2 DEF End
  <2>4. BytesOf(g) = 0 .. total - 1
    BY <2>3 DEF BytesOf
  <2>5. Missing(BytesOf(c), total) = 0 .. total - 1
    BY <1>2, NothingHeld DEF Missing
  <2>6. \A b \in 0 .. total - 1 : 0 .. b \subseteq 0 .. total - 1
    OBVIOUS
  <2>7. GapBytes(BytesOf(c), maxGaps, total) = 0 .. total - 1
    BY <2>5, <2>6 DEF GapBytes
  <2> QED
    BY <2>1, <2>4, <2>7
<1>3. CASE total # 0 /\ c # <<>>
  <2> DEFINE M == Missing(BytesOf(c), total)
             Rank(b) == Cardinality({s \in RunStarts(M) : s <= b})
             Leads(b) == b \in 0 .. c[1].offset - 1
  <2>1. /\ Len(c) \in Nat /\ 1 \in 1 .. Len(c) /\ Len(c) \in 1 .. Len(c)
        /\ c[1].offset \in Nat /\ c[1].offset \in BytesOf(c)
    <3>1. Len(c) \in Nat /\ c \in Seq(FileChunk)
      BY MemberIs
    <3>2. 1 \in 1 .. Len(c) /\ Len(c) \in 1 .. Len(c)
      BY <1>3, <3>1
    <3> QED
      BY <3>1, <3>2, MemberIs, Neighbours
  <2>2. End(c[Len(c)]) <= total
    <3>1. PICK last : last = c[Len(c)]
      OBVIOUS
    <3>2. /\ last \in FileChunk /\ last.offset \in Nat /\ End(last) \in Nat
          /\ last.offset < End(last)
      BY <2>1, <3>1, MemberIs
    <3>3. End(last) - 1 \in Bytes(last)
      BY <3>2, InChunk
    <3>4. End(last) - 1 \in 0 .. total - 1
      BY <2>1, <3>1, <3>3, Neighbours
    <3> QED
      BY <3>1, <3>2, <3>4
  <2>3. PICK stop :
          /\ Stops(c, maxGaps, total, stop)
          /\ \A b : b \in BytesOf(ComputeGaps(c, maxGaps, total))
                      <=> Leads(b) \/ \E i \in 1 .. stop - 1 : InGap(c, i, total, b)
    BY <1>3, <2>2, GapListBytes
  <2>4. \A b : b \in M <=> Leads(b) \/ \E i \in 1 .. Len(c) : InGap(c, i, total, b)
    BY <1>3, <2>2, MissingIs
  <2>5. \A b : \A i \in 1 .. Len(c) : InGap(c, i, total, b) => Rank(b) = Initial(c) + i
    BY <1>3, <2>2, RankIs
  <2>6. \A b : \A i \in 1 .. Len(c) :
          InGap(c, i, total, b) => (i \in 1 .. stop - 1 <=> Initial(c) + i <= maxGaps)
    BY <1>3, <2>2, <2>3, InReportedGap
  <2>7. \A i \in 1 .. stop - 1 : i \in 1 .. Len(c)
    BY <2>1, <2>3 DEF Stops
  <2>8. ASSUME NEW b, Leads(b) PROVE 0 .. b \subseteq M
    <3>1. \A x \in 0 .. b : Leads(x)
      BY <2>1, <2>8
    <3> QED
      BY <2>4, <3>1
  <2>9. ASSUME NEW i \in 1 .. Len(c), NEW b, InGap(c, i, total, b)
        PROVE  ~(0 .. b \subseteq M)
    <3>1. PICK o, e, n : o = c[i].offset /\ e = End(c[i]) /\ n = NextOff(c, i, total)
      OBVIOUS
    <3>2. o \in Nat /\ e \in Nat /\ n \in Nat /\ o < e /\ b \in e .. n - 1
      BY <2>2, <2>9, <3>1, MemberIs, NextOffIs DEF InGap
    <3>3. c[1].offset <= o
      <4>1. i = 1 \/ 1 < i
        BY <2>1
      <4>2. 1 < i => End(c[1]) < o
        BY <2>1, <3>1, MemberIs
      <4>3. End(c[1]) \in Nat /\ c[1].offset < End(c[1])
        BY <2>1, MemberIs
      <4> QED
        <5>1. PICK f, d : f = c[1].offset /\ d = End(c[1])
          OBVIOUS
        <5>2. f \in Nat /\ d \in Nat /\ f < d /\ (f = o \/ d < o)
          BY <2>1, <3>1, <4>1, <4>2, <4>3, <5>1
        <5>3. f <= o
          BY <3>2, <5>2
        <5> QED
          BY <5>1, <5>3
    <3>4. c[1].offset \in 0 .. b
      <4>1. PICK f : f = c[1].offset
        OBVIOUS
      <4>2. f \in Nat /\ f <= o
        BY <2>1, <3>3, <4>1
      <4>3. f \in 0 .. b
        BY <3>2, <4>2
      <4> QED
        BY <4>1, <4>3
    <3>5. c[1].offset \notin M
      BY <2>1 DEF Missing
    <3> QED
      BY <3>4, <3>5
  <2>10. GapBytes(BytesOf(c), maxGaps, total)
           = {b \in M : Rank(b) <= maxGaps \/ 0 .. b \subseteq M}
    BY DEF GapBytes
  <2> HIDE DEF M, Rank, Leads
  <2>11. \A b : b \in BytesOf(ComputeGaps(c, maxGaps, total))
                  <=> b \in M /\ (Rank(b) <= maxGaps \/ 0 .. b \subseteq M)
    BY <2>3, <2>4, <2>5, <2>6, <2>7, <2>8, <2>9
  <2> QED
    BY <2>10, <2>11
<1> QED
  BY <1>1, <1>2, <1>3

-------------------------------------------------------------------------------
(* The theorems. *)

(* Everything that the list keeps in order, in the form that each addition *)
(* and removal preserves.                                                  *)
THEOREM ChunksInvariant == Spec => []ChunksInv
<1>1. Init => ChunksInv
  BY InitChunks
<1>2. ChunksInv /\ [Next]_chunks => ChunksInv'
  <2> SUFFICES ASSUME ChunksInv, [Next]_chunks PROVE ChunksInv'
    OBVIOUS
  <2>1. CASE AddBytes
    BY <2>1, AddBytesStep
  <2>2. CASE TakeBytes
    BY <2>2, TakeBytesStep
  <2>3. CASE UNCHANGED chunks
    BY <2>3 DEF ChunksInv
  <2> QED
    BY <2>1, <2>2, <2>3 DEF Next
<1> QED
  BY <1>1, <1>2, PTL DEF Spec

(* The array of cf_chunk.c never holds more chunks than it has room for,   *)
(* it stays sorted, and no two chunks touch or overlap.                    *)
THEOREM StaysSortedApart == Spec => []SortedApart
<1>1. ChunksInv => SortedApart
  <2> SUFFICES ASSUME ChunksInv PROVE SortedApart
    OBVIOUS
  <2>1. ListOK(chunks)
    BY DEF ChunksInv
  <2>2. FileChunk \subseteq Chunk
    BY DEF FileChunk
  <2>3. chunks \in Seq(Chunk) /\ Len(chunks) \in Nat
    BY <2>1, <2>2, MemberIs
  <2>4. ASSUME NEW i \in 1 .. Len(chunks) - 1 PROVE End(chunks[i]) < chunks[i + 1].offset
    <3>1. i \in 1 .. Len(chunks) /\ i + 1 \in 1 .. Len(chunks) /\ i < i + 1
      BY <2>3
    <3> QED
      BY <2>1, <3>1, MemberIs
  <2> QED
    BY <2>3, <2>4 DEF SortedApart, ChunksInv
<1> QED
  BY <1>1, ChunksInvariant, PTL

(* The array implements the set of bytes of CF_ByteSet: an addition adds   *)
(* its range and forgets at most one smallest run, a removal takes bytes   *)
(* of the first run only.                                                  *)
THEOREM ChunksImplementByteSet == Spec => ImplementsByteSet
<1>1. Init => ByteSet!Init
  BY InitChunks
<1>2. ChunksInv /\ [Next]_chunks => [ByteSet!Next]_(BytesOf(chunks))
  <2> SUFFICES ASSUME ChunksInv, [Next]_chunks PROVE [ByteSet!Next]_(BytesOf(chunks))
    OBVIOUS
  <2>1. CASE AddBytes
    BY <2>1, AddBytesStep
  <2>2. CASE TakeBytes
    BY <2>2, TakeBytesStep
  <2>3. CASE UNCHANGED chunks
    BY <2>3
  <2> QED
    BY <2>1, <2>2, <2>3 DEF Next
<1> QED
  BY <1>1, <1>2, ChunksInvariant, PTL DEF Spec, ImplementsByteSet, ByteSet!Spec

(* A receiver finds no gap exactly when every byte of the file is held,    *)
(* and a NAK names the first missing runs of a file of which nothing       *)
(* beyond its end was received.                                            *)
THEOREM GapsAreExact == Spec => []GapsAreMissingBytes
<1>1. ChunksInv => GapsAreMissingBytes
  <2> SUFFICES ASSUME ChunksInv PROVE GapsAreMissingBytes
    OBVIOUS
  <2>1. ListOK(chunks)
    BY DEF ChunksInv
  <2>2. 0 .. MaxOffset \subseteq Nat /\ 0 .. MaxChunks + 1 \subseteq Nat
    OBVIOUS
  <2> QED
    BY <2>1, <2>2, NoGapsIs, GapsAreRuns DEF GapsAreMissingBytes
<1> QED
  BY <1>1, ChunksInvariant, PTL
===============================================================================
