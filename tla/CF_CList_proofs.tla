---------------------------- MODULE CF_CList_proofs ----------------------------
(***************************************************************************)
(* Theorems about CF_CList, for every number of nodes and lists: the       *)
(* pointers are rings, and the lists with their traversals implement the   *)
(* sequences of CF_Queues.                                                 *)
(*                                                                         *)
(* Holds(h, Q) says that the pointers of the heap h hold the sequences Q.  *)
(* Each function of cf_clist.c keeps it, for the sequences that CF_Queues  *)
(* says result; what is read off the pointers is then the sequence held.   *)
(***************************************************************************)
EXTENDS CF_CList, CF_Facts_proofs

Heap == [next : [Nodes -> Nodes], prev : [Nodes -> Nodes],
         head : [Lists -> Nodes \cup {Null}], q_size : [Queues -> Nat]]

(* The pointers of one list. *)
Ring(next, prev, s) ==
  \A i \in 1 .. Len(s) :
    /\ i < Len(s) => next[s[i]] = s[i + 1]
    /\ i = Len(s) => next[s[i]] = s[1]
    /\ i > 1 => prev[s[i]] = s[i - 1]
    /\ i = 1 => prev[s[i]] = s[Len(s)]

OnNone(Q) == {n \in Nodes : \A l \in Lists : n \notin ToSet(Q[l])}

Holds(h, Q) ==
  /\ h \in Heap /\ Q \in [Lists -> Seq(Nodes)]
  /\ \A l \in Lists : IsInjective(Q[l]) /\ Ring(h.next, h.prev, Q[l])
  /\ \A l \in Lists : \A m \in Lists \ {l} : ToSet(Q[l]) \cap ToSet(Q[m]) = {}
  /\ \A l \in Lists : /\ Q[l] = <<>> => h.head[l] = Null
                      /\ Q[l] # <<>> => h.head[l] = Q[l][1]
  /\ \A n \in OnNone(Q) : h.next[n] = n /\ h.prev[n] = n

Counted(h, Q) == \A q \in Queues : h.q_size[q] = Len(Q[q])

WalkType ==
  [node : Nodes \cup {Null}, start : Nodes \cup {Null}, link : {"next", "prev"}]

(* A traversal is at place i of a sequence, and goes on to its end or      *)
(* backwards to its front.                                                 *)
At(s, i, w) ==
  /\ w.node = s[i]
  /\ \/ w.link = "next" /\ w.start = s[1]
     \/ w.link = "prev" /\ w.start = s[Len(s)]

AtNode(Q, w) == \E l \in Lists : \E i \in 1 .. Len(Q[l]) : At(Q[l], i, w)

Held == [l \in Lists |-> On(heap, l)]

ListsInv ==
  /\ Holds(heap, Held) /\ Counted(heap, Held)
  /\ walk \in WalkType /\ (walk = NotWalking \/ AtNode(Held, walk))

-------------------------------------------------------------------------------
(* What is read off the pointers. *)

LEMMA NodesAreCounted ==
  /\ Cardinality(Nodes) \in Nat
  /\ \A s \in Seq(Nodes) : IsInjective(s) => Len(s) <= Cardinality(Nodes)
<1>1. IsFiniteSet(Nodes) /\ Cardinality(Nodes) \in Nat
  BY ListsAssumption, FS_CardinalityType
<1>2. ASSUME NEW s \in Seq(Nodes), IsInjective(s) PROVE Len(s) <= Cardinality(Nodes)
  <2> DEFINE n == Len(s)
  <2>1. n \in Nat /\ DOMAIN s = 1 .. n /\ s \in [1 .. n -> Nodes]
    BY LenProperties
  <2> HIDE DEF n
  <2>2. IsFiniteSet(1 .. n) /\ Cardinality(1 .. n) = n
    BY <2>1, FS_Interval
  <2>3. s \in Injection(1 .. n, Nodes)
    BY <1>2, <2>1 DEF IsInjective, Injection
  <2> QED
    BY <1>1, <2>2, <2>3, FS_Injection DEF n
<1> QED
  BY <1>1, <1>2

(* A node, and those to which its link leads. *)
LEMMA Iterates ==
  ASSUME NEW link \in [Nodes -> Nodes], NEW first \in Nodes, NEW max \in Nat
  PROVE  \E f : f = [i \in 1 .. max |-> IF i = 1 THEN first ELSE link[f[i - 1]]]
<1> DEFINE Good(n) == \E f : f = [i \in 1 .. n |-> IF i = 1 THEN first ELSE link[f[i - 1]]]
           G == {n \in Nat : Good(n)}
<1>1. 0 \in G
  <2>1. <<>> = [i \in 1 .. 0 |-> IF i = 1 THEN first ELSE link[<<>>[i - 1]]]
    OBVIOUS
  <2> QED
    BY <2>1
<1>2. ASSUME NEW n \in Nat, n \in G PROVE n + 1 \in G
  <2>1. PICK f : f = [i \in 1 .. n |-> IF i = 1 THEN first ELSE link[f[i - 1]]]
    BY <1>2
  <2> DEFINE g == [i \in 1 .. n + 1 |-> IF i <= n THEN f[i]
                                        ELSE IF i = 1 THEN first ELSE link[f[i - 1]]]
  <2>2. \A i \in 1 .. n + 1 : g[i] = IF i = 1 THEN first ELSE link[g[i - 1]]
    <3> SUFFICES ASSUME NEW i \in 1 .. n + 1
                 PROVE  g[i] = IF i = 1 THEN first ELSE link[g[i - 1]]
      OBVIOUS
    <3>1. i # 1 => i - 1 \in 1 .. n /\ g[i - 1] = f[i - 1]
      OBVIOUS
    <3>2. i <= n => g[i] = f[i] /\ f[i] = IF i = 1 THEN first ELSE link[f[i - 1]]
      BY <2>1
    <3>3. ~(i <= n) => g[i] = IF i = 1 THEN first ELSE link[f[i - 1]]
      OBVIOUS
    <3> HIDE DEF g
    <3> QED
      BY <3>1, <3>2, <3>3
  <2>3. g = [i \in 1 .. n + 1 |-> g[i]]
    OBVIOUS
  <2> HIDE DEF g
  <2>4. g = [i \in 1 .. n + 1 |-> IF i = 1 THEN first ELSE link[g[i - 1]]]
    BY <2>2, <2>3
  <2> QED
    BY <2>4
<1> HIDE DEF G
<1>3. Nat \subseteq G
  BY <1>1, <1>2, Induction
<1> QED
  BY <1>3 DEF G

LEMMA ChainIs ==
  ASSUME NEW link \in [Nodes -> Nodes], NEW s \in Seq(Nodes), NEW stop, s # <<>>,
         Len(s) <= Cardinality(Nodes),
         \A i \in 1 .. Len(s) - 1 : link[s[i]] = s[i + 1] /\ link[s[i]] # stop,
         link[s[Len(s)]] = stop
  PROVE  Chain(link, s[1], stop) = s
<1> DEFINE max == Cardinality(Nodes)
           first == s[1]
           Nth[i \in 1 .. max] == IF i = 1 THEN first ELSE link[Nth[i - 1]]
           ends == {i \in 1 .. max : link[Nth[i]] = stop}
           n == Len(s)
<1>1. max \in Nat /\ n \in 1 .. max /\ first \in Nodes
  BY NodesAreCounted
<1>2. Nth = [i \in 1 .. max |-> IF i = 1 THEN first ELSE link[Nth[i - 1]]]
  <2>1. \E f : f = [i \in 1 .. max |-> IF i = 1 THEN first ELSE link[f[i - 1]]]
    BY <1>1, Iterates
  <2> QED
    BY <2>1
<1>3. Chain(link, first, stop) = [i \in 1 .. Min(ends \cup {max}) |-> Nth[i]]
  BY DEF Chain
<1> HIDE DEF Nth, first
<1>4. ASSUME NEW i \in 1 .. max
      PROVE  Nth[i] = IF i = 1 THEN first ELSE link[Nth[i - 1]]
  BY <1>2
<1>5. \A i \in 1 .. n : Nth[i] = s[i]
  <2> DEFINE G == {j \in Nat : j + 1 \in 1 .. n => Nth[j + 1] = s[j + 1]}
  <2>1. 0 \in G
    BY <1>1, <1>4 DEF first
  <2>2. ASSUME NEW j \in Nat, j \in G PROVE j + 1 \in G
    <3> SUFFICES ASSUME j + 2 \in 1 .. n PROVE Nth[j + 2] = s[j + 2]
      OBVIOUS
    <3>1. j + 1 \in 1 .. n - 1 /\ Nth[j + 1] = s[j + 1] /\ j + 2 \in 1 .. max /\ j + 2 # 1
      BY <1>1, <2>2
    <3>2. Nth[j + 2] = link[Nth[(j + 2) - 1]] /\ (j + 2) - 1 = j + 1 /\ (j + 1) + 1 = j + 2
      BY <1>4, <3>1
    <3> QED
      BY <3>1, <3>2
  <2> HIDE DEF G
  <2>3. Nat \subseteq G
    BY <2>1, <2>2, Induction
  <2>4. ASSUME NEW i \in 1 .. n PROVE Nth[i] = s[i]
    <3>1. i - 1 \in G /\ (i - 1) + 1 = i
      BY <1>1, <2>3
    <3> QED
      BY <3>1 DEF G
  <2> QED
    BY <2>4
<1>6. n \in ends /\ \A j \in ends \cup {max} : n <= j
  <2>1. link[Nth[n]] = stop
    BY <1>1, <1>5
  <2>2. ASSUME NEW j \in ends \cup {max}, j < n PROVE FALSE
    <3>1. j \in 1 .. n - 1
      BY <1>1, <2>2
    <3>2. Nth[j] = s[j] /\ link[s[j]] # stop
      BY <1>1, <1>5, <3>1
    <3>3. j # max
      BY <1>1, <3>1
    <3> QED
      BY <2>2, <3>2, <3>3
  <2> QED
    BY <1>1, <2>1, <2>2
<1>7. Min(ends \cup {max}) = n
  <2>1. ends \cup {max} \subseteq Nat
    BY <1>1
  <2> HIDE DEF ends, max
  <2>2. Min(ends \cup {max}) \in ends \cup {max} /\ Min(ends \cup {max}) <= n
    BY <1>6, <2>1, MinProperties
  <2>3. n <= Min(ends \cup {max}) /\ Min(ends \cup {max}) \in Nat
    BY <1>6, <2>1, <2>2
  <2> QED
    BY <1>1, <2>2, <2>3
<1>8. s = [i \in 1 .. n |-> s[i]]
  BY LenProperties
<1> QED
  BY <1>3, <1>5, <1>7, <1>8 DEF first

LEMMA ForwardChain ==
  ASSUME NEW next \in [Nodes -> Nodes], NEW prev, NEW s \in Seq(Nodes), IsInjective(s),
         Ring(next, prev, s), NEW i \in 1 .. Len(s)
  PROVE  /\ Chain(next, s[i], s[1]) = SubSeq(s, i, Len(s))
         /\ SubSeq(s, i, Len(s)) \in Seq(Nodes)
         /\ Len(SubSeq(s, i, Len(s))) = Len(s) - i + 1
         /\ \A j \in 1 .. Len(s) - i + 1 : SubSeq(s, i, Len(s))[j] = s[i + j - 1]
<1> DEFINE n == Len(s)
           r == SubSeq(s, i, n)
<1>1. n \in Nat /\ n <= Cardinality(Nodes) /\ DOMAIN s = 1 .. n
  BY NodesAreCounted, LenProperties
<1>2. r \in Seq(Nodes) /\ Len(r) = n - i + 1 /\ \A j \in 1 .. n - i + 1 : r[j] = s[i + j - 1]
  <2>1. i \in 1 .. n + 1 /\ n \in i - 1 .. n
    BY <1>1
  <2> QED
    BY <1>1, <2>1, SubSeqProperties
<1>3. \A j \in 1 .. n : /\ j < n => next[s[j]] = s[j + 1]
                        /\ j = n => next[s[j]] = s[1]
  BY DEF Ring
<1> HIDE DEF r, n
<1>4. r # <<>> /\ r[1] = s[i] /\ Len(r) <= Cardinality(Nodes) /\ Cardinality(Nodes) \in Nat
  <2>1. 1 \in 1 .. n - i + 1 /\ i + 1 - 1 = i
    BY <1>1 DEF n
  <2> QED
    BY <1>1, <1>2, <2>1, NodesAreCounted
<1>5. ASSUME NEW j \in 1 .. Len(r) - 1
      PROVE  next[r[j]] = r[j + 1] /\ next[r[j]] # s[1]
  <2>1. /\ i + j - 1 \in 1 .. n /\ i + j - 1 < n /\ i + (j + 1) - 1 = (i + j - 1) + 1
        /\ j \in 1 .. n - i + 1 /\ j + 1 \in 1 .. n - i + 1 /\ i + j \in 1 .. n /\ i + j # 1
        /\ (i + j - 1) + 1 = i + j /\ 1 \in 1 .. n
    BY <1>1, <1>2 DEF n
  <2>2. r[j] = s[i + j - 1] /\ r[j + 1] = s[i + j] /\ next[s[i + j - 1]] = s[i + j]
    BY <1>2, <1>3, <2>1
  <2>3. s[i + j] # s[1]
    BY <1>1, <2>1 DEF IsInjective
  <2> QED
    BY <2>2, <2>3
<1>6. next[r[Len(r)]] = s[1]
  <2>1. Len(r) \in 1 .. n - i + 1 /\ i + Len(r) - 1 = n /\ n \in 1 .. n
    BY <1>1, <1>2 DEF n
  <2> QED
    BY <1>2, <1>3, <2>1
<1>7. Chain(next, r[1], s[1]) = r
  BY <1>2, <1>4, <1>5, <1>6, ChainIs
<1> QED
  BY <1>2, <1>4, <1>7 DEF r, n

(* From place i to the front. *)
Backwards(s, i, t) ==
  t \in Seq(Nodes) /\ Len(t) = i /\ \A j \in 1 .. i : t[j] = s[i - j + 1]

LEMMA BackwardChain ==
  ASSUME NEW next, NEW prev \in [Nodes -> Nodes], NEW s \in Seq(Nodes), IsInjective(s),
         Ring(next, prev, s), NEW i \in 1 .. Len(s),
         NEW t, t = Chain(prev, s[i], s[Len(s)])
  PROVE  Backwards(s, i, t)
<1> DEFINE n == Len(s)
           r == [j \in 1 .. i |-> s[i - j + 1]]
<1>1. n \in Nat /\ n <= Cardinality(Nodes) /\ DOMAIN s = 1 .. n
  BY NodesAreCounted, LenProperties
<1>2. r \in Seq(Nodes) /\ Len(r) = i /\ \A j \in 1 .. i : r[j] = s[i - j + 1]
  <2>1. \A j \in 1 .. i : i - j + 1 \in 1 .. n
    BY <1>1
  <2>2. r \in [1 .. i -> Nodes] /\ i \in Nat
    BY <1>1, <2>1
  <2>3. r \in Seq(Nodes)
    BY <2>2, SeqDef
  <2>4. DOMAIN r = 1 .. Len(r) /\ DOMAIN r = 1 .. i /\ Len(r) \in Nat
    BY <2>3, LenProperties
  <2> HIDE DEF r
  <2>5. Len(r) = i
    BY <2>2, <2>4
  <2> QED
    BY <2>3, <2>5 DEF r
<1>3. \A j \in 1 .. n : /\ j > 1 => prev[s[j]] = s[j - 1]
                        /\ j = 1 => prev[s[j]] = s[n]
  BY DEF Ring
<1> HIDE DEF r, n
<1>4. r # <<>> /\ r[1] = s[i] /\ Len(r) <= Cardinality(Nodes) /\ Cardinality(Nodes) \in Nat
  <2>1. 1 \in 1 .. i /\ i - 1 + 1 = i
    BY <1>1 DEF n
  <2> QED
    BY <1>1, <1>2, <2>1, NodesAreCounted DEF n
<1>5. ASSUME NEW j \in 1 .. Len(r) - 1
      PROVE  prev[r[j]] = r[j + 1] /\ prev[r[j]] # s[n]
  <2>1. /\ i - j + 1 \in 1 .. n /\ i - j + 1 > 1 /\ i - (j + 1) + 1 = (i - j + 1) - 1
        /\ j \in 1 .. i /\ j + 1 \in 1 .. i /\ i - j \in 1 .. n /\ i - j # n
        /\ (i - j + 1) - 1 = i - j /\ n \in 1 .. n
    BY <1>1, <1>2 DEF n
  <2>2. r[j] = s[i - j + 1] /\ r[j + 1] = s[i - j] /\ prev[s[i - j + 1]] = s[i - j]
    BY <1>2, <1>3, <2>1
  <2>3. s[i - j] # s[n]
    BY <1>1, <2>1 DEF IsInjective
  <2> QED
    BY <2>2, <2>3
<1>6. prev[r[Len(r)]] = s[n]
  <2>1. Len(r) \in 1 .. i /\ i - Len(r) + 1 = 1 /\ 1 \in 1 .. n
    BY <1>1, <1>2 DEF n
  <2>2. r[Len(r)] = s[1] /\ prev[s[1]] = s[n]
    BY <1>2, <1>3, <2>1
  <2> QED
    BY <2>2
<1>7. Chain(prev, r[1], s[n]) = r
  BY <1>2, <1>4, <1>5, <1>6, ChainIs
<1> QED
  BY <1>2, <1>4, <1>7 DEF n, Backwards

LEMMA OnIs ==
  ASSUME NEW h, NEW Q, Holds(h, Q), NEW l \in Lists
  PROVE  On(h, l) = Q[l]
<1>1. /\ h.next \in [Nodes -> Nodes] /\ Q[l] \in Seq(Nodes) /\ IsInjective(Q[l])
      /\ Ring(h.next, h.prev, Q[l])
  BY DEF Holds, Heap
<1>2. CASE Q[l] = <<>>
  BY <1>2 DEF Holds, On
<1>3. CASE Q[l] # <<>>
  <2>1. h.head[l] = Q[l][1] /\ Q[l][1] \in Nodes /\ 1 \in 1 .. Len(Q[l])
    BY <1>1, <1>3 DEF Holds
  <2>2. h.head[l] # Null
    BY <2>1, ListsAssumption
  <2>3. Chain(h.next, Q[l][1], Q[l][1]) = SubSeq(Q[l], 1, Len(Q[l]))
    BY <1>1, <2>1, ForwardChain
  <2> QED
    BY <1>1, <2>1, <2>2, <2>3, SubSeqFull DEF On
<1> QED
  BY <1>2, <1>3

LEMMA HeldIs ==
  ASSUME NEW Q, Holds(heap, Q)
  PROVE  Held = Q
BY OnIs DEF Held, Holds

-------------------------------------------------------------------------------
(* One ring, when a node is linked in or out. *)

(* From h to r, node n comes between a and b.                              *)
LinkedIn(h, r, a, n, b) ==
  /\ r \in Heap /\ r.q_size = h.q_size
  /\ r.next[a] = n /\ r.next[n] = b /\ r.prev[b] = n /\ r.prev[n] = a
  /\ \A m \in Nodes \ {a, n} : r.next[m] = h.next[m]
  /\ \A m \in Nodes \ {b, n} : r.prev[m] = h.prev[m]

(* From h to r, node n leaves its place between a and b.                   *)
LinkedOut(h, r, a, n, b) ==
  /\ r \in Heap /\ r.q_size = h.q_size
  /\ r.next[a] = b /\ r.prev[b] = a /\ r.next[n] = n /\ r.prev[n] = n
  /\ \A m \in Nodes \ {a, n} : r.next[m] = h.next[m]
  /\ \A m \in Nodes \ {b, n} : r.prev[m] = h.prev[m]

LEMMA RingGrows ==
  ASSUME NEW h \in Heap, NEW r, NEW s \in Seq(Nodes), IsInjective(s), s # <<>>,
         Ring(h.next, h.prev, s), NEW n \in Nodes \ ToSet(s), NEW i \in 1 .. Len(s) + 1,
         NEW a, NEW b, LinkedIn(h, r, a, n, b),
         i = 1 => a = s[Len(s)], i > 1 => a = s[i - 1],
         i = Len(s) + 1 => b = s[1], i <= Len(s) => b = s[i]
  PROVE  Ring(r.next, r.prev, InsertAt(s, i, n))
<1> DEFINE len == Len(s)
           t == InsertAt(s, i, n)
<1>1. len \in Nat \ {0} /\ DOMAIN s = 1 .. len /\ i \in 1 .. len + 1
  BY LenProperties
<1>2. /\ t \in Seq(Nodes) /\ Len(t) = len + 1
      /\ \A j \in 1 .. len + 1 : /\ j < i => t[j] = s[j]
                                 /\ j = i => t[j] = n
                                 /\ j > i => t[j] = s[j - 1]
  BY InsertAtProperties
<1>3. \A j \in 1 .. len : /\ j < len => h.next[s[j]] = s[j + 1]
                          /\ j = len => h.next[s[j]] = s[1]
                          /\ j > 1 => h.prev[s[j]] = s[j - 1]
                          /\ j = 1 => h.prev[s[j]] = s[len]
  BY DEF Ring
<1>4. \A j \in 1 .. len : s[j] \in Nodes /\ s[j] # n
  BY <1>1 DEF ToSet
<1>5. \A j, k \in 1 .. len : s[j] = s[k] => j = k
  BY <1>1 DEF IsInjective
<1>6. /\ i = 1 => a = s[len]
      /\ i > 1 => a = s[i - 1]
      /\ i = len + 1 => b = s[1]
      /\ i <= len => b = s[i]
  OBVIOUS
<1>7. /\ r.next[a] = n /\ r.next[n] = b /\ r.prev[b] = n /\ r.prev[n] = a
      /\ \A j \in 1 .. len : /\ s[j] # a => r.next[s[j]] = h.next[s[j]]
                             /\ s[j] # b => r.prev[s[j]] = h.prev[s[j]]
  BY <1>4 DEF LinkedIn
<1> HIDE DEF t, len
<1>8. ASSUME NEW j \in 1 .. len + 1
      PROVE  /\ j < len + 1 => r.next[t[j]] = t[j + 1]
             /\ j = len + 1 => r.next[t[j]] = t[1]
  <2>1. CASE j < i - 1
    <3>1. /\ j \in 1 .. len /\ j + 1 \in 1 .. len + 1 /\ j < i /\ j + 1 < i /\ i > 1 /\ j < len
          /\ i - 1 \in 1 .. len /\ j # i - 1
      BY <1>1, <2>1
    <3>2. s[j] # a
      BY <1>5, <1>6, <3>1
    <3>3. r.next[s[j]] = s[j + 1]
      BY <1>3, <1>7, <3>1, <3>2
    <3>4. t[j] = s[j] /\ t[j + 1] = s[j + 1] /\ j # len + 1
      BY <1>1, <1>2, <3>1
    <3> QED
      BY <3>3, <3>4
  <2>2. CASE j = i - 1
    <3>1. j \in 1 .. len /\ j + 1 \in 1 .. len + 1 /\ j < i /\ j + 1 = i /\ i > 1 /\ j < len + 1
      BY <1>1, <2>2
    <3> QED
      BY <1>2, <1>6, <1>7, <2>2, <3>1
  <2>3. CASE j = i
    <3>1. CASE i <= len
      <4>1. j + 1 \in 1 .. len + 1 /\ j + 1 > i /\ (j + 1) - 1 = i
        BY <1>1, <2>3, <3>1
      <4> QED
        BY <1>1, <1>2, <1>6, <1>7, <2>3, <3>1, <4>1
    <3>2. CASE i = len + 1
      <4>1. 1 < i /\ 1 \in 1 .. len + 1
        BY <1>1, <3>2
      <4> QED
        BY <1>1, <1>2, <1>6, <1>7, <2>3, <3>2, <4>1
    <3> QED
      BY <1>1, <3>1, <3>2
  <2>4. CASE j > i /\ j < len + 1
    <3>1. /\ j - 1 \in 1 .. len /\ j - 1 < len /\ (j - 1) + 1 = j /\ j + 1 > i /\ (j + 1) - 1 = j
          /\ j + 1 \in 1 .. len + 1 /\ len \in 1 .. len /\ j - 1 # len
          /\ (i > 1 => i - 1 \in 1 .. len /\ j - 1 # i - 1)
      BY <1>1, <2>4
    <3>2. s[j - 1] # a
      BY <1>1, <1>5, <1>6, <3>1
    <3>3. r.next[s[j - 1]] = s[j]
      BY <1>3, <1>7, <3>1, <3>2
    <3>4. t[j] = s[j - 1] /\ t[j + 1] = s[j]
      BY <1>2, <2>4, <3>1
    <3> QED
      BY <2>4, <3>3, <3>4
  <2>5. CASE j > i /\ j = len + 1
    <3>1. t[j] = s[len] /\ len \in 1 .. len /\ 1 \in 1 .. len + 1 /\ ~(j < len + 1)
      BY <1>1, <1>2, <2>5
    <3>2. CASE i = 1
      BY <1>2, <1>6, <1>7, <2>5, <3>1, <3>2
    <3>3. CASE i > 1
      <4>1. i - 1 \in 1 .. len /\ i - 1 # len /\ 1 < i
        BY <1>1, <2>5, <3>3
      <4>2. s[len] # a
        BY <1>5, <1>6, <3>1, <3>3, <4>1
      <4> QED
        BY <1>2, <1>3, <1>7, <2>5, <3>1, <4>1, <4>2
    <3> QED
      BY <1>1, <3>2, <3>3
  <2> QED
    BY <1>1, <2>1, <2>2, <2>3, <2>4, <2>5
<1>9. ASSUME NEW j \in 1 .. len + 1
      PROVE  /\ j > 1 => r.prev[t[j]] = t[j - 1]
             /\ j = 1 => r.prev[t[j]] = t[len + 1]
  <2>1. CASE j > i + 1
    <3>1. /\ j - 1 \in 1 .. len /\ j - 1 > 1 /\ j > i /\ j - 1 > i /\ j - 1 \in 1 .. len + 1
          /\ i \in 1 .. len /\ j - 1 # i /\ i <= len /\ j > 1
      BY <1>1, <2>1
    <3>2. s[j - 1] # b
      BY <1>5, <1>6, <3>1
    <3>3. t[j] = s[j - 1] /\ t[j - 1] = s[(j - 1) - 1] /\ r.prev[s[j - 1]] = s[(j - 1) - 1]
      BY <1>2, <1>3, <1>7, <3>1, <3>2
    <3> QED
      BY <3>1, <3>3
  <2>2. CASE j = i + 1
    <3>1. /\ j > i /\ j - 1 = i /\ j - 1 \in 1 .. len + 1 /\ i <= len /\ j > 1
      BY <1>1, <2>2
    <3> QED
      BY <1>2, <1>6, <1>7, <3>1
  <2>3. CASE j = i
    <3>1. CASE i > 1
      <4>1. j - 1 \in 1 .. len + 1 /\ j - 1 < i
        BY <1>1, <2>3, <3>1
      <4> QED
        BY <1>1, <1>2, <1>6, <1>7, <2>3, <3>1, <4>1
    <3>2. CASE i = 1
      <4>1. len + 1 > i /\ len + 1 \in 1 .. len + 1 /\ (len + 1) - 1 = len
        BY <1>1, <3>2
      <4> QED
        BY <1>1, <1>2, <1>6, <1>7, <2>3, <3>2, <4>1
    <3> QED
      BY <1>1, <3>1, <3>2
  <2>4. CASE j < i /\ j > 1
    <3>1. /\ j \in 1 .. len /\ j - 1 < i /\ j - 1 \in 1 .. len + 1 /\ 1 \in 1 .. len /\ j # 1
          /\ (i <= len => i \in 1 .. len /\ j # i)
      BY <1>1, <2>4
    <3>2. s[j] # b
      BY <1>1, <1>5, <1>6, <3>1
    <3> QED
      BY <1>2, <1>3, <1>7, <2>4, <3>1, <3>2
  <2>5. CASE j < i /\ j = 1
    <3>1. t[j] = s[1] /\ 1 \in 1 .. len /\ len + 1 \in 1 .. len + 1 /\ ~(j > 1)
      BY <1>1, <1>2, <2>5
    <3>2. CASE i = len + 1
      BY <1>2, <1>6, <1>7, <2>5, <3>1, <3>2
    <3>3. CASE i <= len
      <4>1. i \in 1 .. len /\ i # 1 /\ len + 1 > i /\ (len + 1) - 1 = len
        BY <1>1, <2>5, <3>3
      <4>2. s[1] # b
        BY <1>5, <1>6, <3>1, <3>3, <4>1
      <4>3. r.prev[s[1]] = s[len]
        BY <1>3, <1>7, <3>1, <4>2
      <4>4. t[len + 1] = s[len]
        BY <1>2, <3>1, <4>1
      <4> QED
        BY <2>5, <3>1, <4>3, <4>4
    <3> QED
      BY <1>1, <3>2, <3>3
  <2> QED
    BY <1>1, <2>1, <2>2, <2>3, <2>4, <2>5
<1> QED
  BY <1>2, <1>8, <1>9 DEF Ring, t

LEMMA RingShrinks ==
  ASSUME NEW h \in Heap, NEW r, NEW s \in Seq(Nodes), IsInjective(s), Len(s) > 1,
         Ring(h.next, h.prev, s), NEW i \in 1 .. Len(s),
         LinkedOut(h, r, h.prev[s[i]], s[i], h.next[s[i]])
  PROVE  Ring(r.next, r.prev, RemoveAt(s, i))
<1> DEFINE len == Len(s)
           t == RemoveAt(s, i)
           n == s[i]
           a == h.prev[n]
           b == h.next[n]
<1>1. len \in Nat \ {0} /\ len > 1 /\ DOMAIN s = 1 .. len /\ i \in 1 .. len
  BY LenProperties
<1>2. /\ t \in Seq(Nodes) /\ Len(t) = len - 1
      /\ \A j \in 1 .. len - 1 : t[j] = IF j < i THEN s[j] ELSE s[j + 1]
  BY RemoveAtProperties
<1>3. \A j \in 1 .. len : /\ j < len => h.next[s[j]] = s[j + 1]
                          /\ j = len => h.next[s[j]] = s[1]
                          /\ j > 1 => h.prev[s[j]] = s[j - 1]
                          /\ j = 1 => h.prev[s[j]] = s[len]
  BY DEF Ring
<1>4. \A j \in 1 .. len : s[j] \in Nodes
  BY <1>1
<1>5. \A j, k \in 1 .. len : s[j] = s[k] => j = k
  BY <1>1 DEF IsInjective
<1> HIDE DEF t, len
<1>6. /\ i = 1 => a = s[len]
      /\ i > 1 => a = s[i - 1]
      /\ i = len => b = s[1]
      /\ i < len => b = s[i + 1]
  <2>1. /\ i = 1 => h.prev[s[i]] = s[len]
        /\ i > 1 => h.prev[s[i]] = s[i - 1]
        /\ i = len => h.next[s[i]] = s[1]
        /\ i < len => h.next[s[i]] = s[i + 1]
    BY <1>1, <1>3
  <2> QED
    BY <2>1
<1>7. /\ r.next[a] = b /\ r.prev[b] = a
      /\ \A j \in 1 .. len : /\ s[j] # a /\ j # i => r.next[s[j]] = h.next[s[j]]
                             /\ s[j] # b /\ j # i => r.prev[s[j]] = h.prev[s[j]]
  BY <1>1, <1>4, <1>5 DEF LinkedOut
<1> HIDE DEF a, b, n
<1>8. ASSUME NEW j \in 1 .. len - 1
      PROVE  /\ j < len - 1 => r.next[t[j]] = t[j + 1]
             /\ j = len - 1 => r.next[t[j]] = t[1]
  <2>1. CASE j < i - 1
    <3>1. /\ j \in 1 .. len /\ j + 1 \in 1 .. len - 1 /\ j < i /\ j + 1 < i /\ i > 1 /\ j < len
          /\ i - 1 \in 1 .. len /\ j # i - 1 /\ j # i
      BY <1>1, <2>1
    <3>2. s[j] # a
      BY <1>5, <1>6, <3>1
    <3> QED
      BY <1>2, <1>3, <1>7, <3>1, <3>2
  <2>2. CASE j = i - 1
    <3>1. j < i /\ i > 1 /\ t[j] = s[i - 1] /\ r.next[t[j]] = b
      BY <1>1, <1>2, <1>6, <1>7, <2>2
    <3>2. CASE i < len
      <4>1. j + 1 \in 1 .. len - 1 /\ ~(j + 1 < i) /\ (j + 1) + 1 = i + 1 /\ j < len - 1
        BY <1>1, <2>2, <3>2
      <4> QED
        BY <1>2, <1>6, <3>1, <3>2, <4>1
    <3>3. CASE i = len
      <4>1. 1 \in 1 .. len - 1 /\ 1 < i /\ j = len - 1 /\ ~(j < len - 1)
        BY <1>1, <2>2, <3>3
      <4> QED
        BY <1>2, <1>6, <3>1, <3>3, <4>1
    <3> QED
      BY <1>1, <3>2, <3>3
  <2>3. CASE ~(j < i) /\ j < len - 1
    <3>1. /\ j + 1 \in 1 .. len /\ j + 1 < len /\ (j + 1) + 1 = j + 2 /\ ~(j + 1 < i)
          /\ j + 1 \in 1 .. len - 1 /\ len \in 1 .. len /\ j + 1 # len /\ j + 1 # i
          /\ (i > 1 => i - 1 \in 1 .. len /\ j + 1 # i - 1)
      BY <1>1, <2>3
    <3>2. s[j + 1] # a
      BY <1>1, <1>5, <1>6, <3>1
    <3>3. r.next[s[j + 1]] = s[j + 2]
      BY <1>3, <1>7, <3>1, <3>2
    <3>4. t[j] = s[j + 1] /\ t[j + 1] = s[j + 2]
      BY <1>2, <2>3, <3>1
    <3> QED
      BY <2>3, <3>3, <3>4
  <2>4. CASE ~(j < i) /\ j = len - 1
    <3>1. t[j] = s[len] /\ len \in 1 .. len /\ 1 \in 1 .. len - 1 /\ i < len /\ ~(j < len - 1)
      BY <1>1, <1>2, <2>4
    <3>2. CASE i = 1
      <4>1. t[1] = s[i + 1]
        BY <1>2, <3>1, <3>2
      <4> QED
        BY <1>6, <1>7, <3>1, <3>2, <4>1
    <3>3. CASE i > 1
      <4>1. i - 1 \in 1 .. len /\ i - 1 # len /\ t[1] = s[1] /\ len # i
        BY <1>1, <1>2, <3>1, <3>3
      <4>2. s[len] # a
        BY <1>5, <1>6, <3>1, <3>3, <4>1
      <4> QED
        BY <1>3, <1>7, <3>1, <4>1, <4>2
    <3> QED
      BY <1>1, <3>2, <3>3
  <2> QED
    BY <1>1, <2>1, <2>2, <2>3, <2>4
<1>9. ASSUME NEW j \in 1 .. len - 1
      PROVE  /\ j > 1 => r.prev[t[j]] = t[j - 1]
             /\ j = 1 => r.prev[t[j]] = t[len - 1]
  <2>1. CASE j > i
    <3>1. /\ j + 1 \in 1 .. len /\ j + 1 > 1 /\ ~(j < i) /\ ~(j - 1 < i) /\ j - 1 \in 1 .. len - 1
          /\ i + 1 \in 1 .. len /\ j + 1 # i + 1 /\ j + 1 # i /\ i < len /\ j > 1
          /\ (j - 1) + 1 = j /\ (j + 1) - 1 = j
      BY <1>1, <2>1
    <3>2. s[j + 1] # b
      BY <1>5, <1>6, <3>1
    <3>3. r.prev[s[j + 1]] = s[j]
      BY <1>3, <1>7, <3>1, <3>2
    <3>4. t[j] = s[j + 1] /\ t[j - 1] = s[(j - 1) + 1]
      BY <1>2, <3>1
    <3>5. (j - 1) + 1 = j /\ j # 1
      BY <1>1, <2>1
    <3>6. t[j - 1] = s[j]
      BY <3>4, <3>5
    <3> QED
      BY <3>3, <3>4, <3>5, <3>6
  <2>2. CASE j = i
    <3>1. i < len /\ t[j] = s[i + 1] /\ r.prev[t[j]] = a
      BY <1>1, <1>2, <1>6, <1>7, <2>2
    <3>2. CASE i > 1
      <4>1. j - 1 \in 1 .. len - 1 /\ j - 1 < i /\ j # 1
        BY <1>1, <2>2, <3>2
      <4> QED
        BY <1>2, <1>6, <2>2, <3>1, <3>2, <4>1
    <3>3. CASE i = 1
      <4>1. len - 1 \in 1 .. len - 1 /\ ~(len - 1 < i) /\ (len - 1) + 1 = len /\ ~(j > 1)
        BY <1>1, <2>2, <3>1, <3>3
      <4> QED
        BY <1>2, <1>6, <3>1, <3>3, <4>1
    <3> QED
      BY <1>1, <3>2, <3>3
  <2>3. CASE j < i /\ j > 1
    <3>1. /\ j \in 1 .. len /\ j - 1 < i /\ j - 1 \in 1 .. len - 1 /\ 1 \in 1 .. len /\ j # 1
          /\ j # i /\ (i < len => i + 1 \in 1 .. len /\ j # i + 1)
      BY <1>1, <2>3
    <3>2. s[j] # b
      BY <1>1, <1>5, <1>6, <3>1
    <3> QED
      BY <1>2, <1>3, <1>7, <2>3, <3>1, <3>2
  <2>4. CASE j < i /\ j = 1
    <3>1. t[j] = s[1] /\ 1 \in 1 .. len /\ len - 1 \in 1 .. len - 1 /\ ~(j > 1) /\ i # 1
      BY <1>1, <1>2, <2>4
    <3>2. CASE i = len
      <4>1. len - 1 < i /\ t[len - 1] = s[i - 1] /\ i > 1
        BY <1>1, <1>2, <3>1, <3>2
      <4> QED
        BY <1>6, <1>7, <2>4, <3>1, <3>2, <4>1
    <3>3. CASE i < len
      <4>1. i + 1 \in 1 .. len /\ i + 1 # 1 /\ ~(len - 1 < i) /\ (len - 1) + 1 = len
        BY <1>1, <2>4, <3>3
      <4>2. s[1] # b
        BY <1>5, <1>6, <3>1, <3>3, <4>1
      <4> QED
        BY <1>2, <1>3, <1>7, <2>4, <3>1, <4>1, <4>2
    <3> QED
      BY <1>1, <3>2, <3>3
  <2> QED
    BY <1>1, <2>1, <2>2, <2>3, <2>4
<1> QED
  BY <1>2, <1>8, <1>9 DEF Ring, t, len

LEMMA RingSame ==
  ASSUME NEW a, NEW b, NEW c, NEW d, NEW s \in Seq(Nodes), Ring(a, b, s),
         \A n \in ToSet(s) : c[n] = a[n] /\ d[n] = b[n]
  PROVE  Ring(c, d, s)
<1>1. \A i \in 1 .. Len(s) : s[i] \in ToSet(s)
  BY LenProperties DEF ToSet
<1> QED
  BY <1>1 DEF Ring

(* A node that is on a sequence once is removed at its place.              *)
LEMMA RemoveFirstAt ==
  ASSUME NEW s \in Seq(Nodes), IsInjective(s), NEW i \in 1 .. Len(s)
  PROVE  /\ RemoveFirst(s, s[i]) = RemoveAt(s, i)
         /\ ToSet(RemoveAt(s, i)) = ToSet(s) \ {s[i]} /\ IsInjective(RemoveAt(s, i))
         /\ s[i] \in ToSet(s)
<1> DEFINE e == s[i]
           k == SelectInSeq(s, LAMBDA v : v = e)
           I == {j \in 1 .. Len(s) : s[j] = e}
<1>1. DOMAIN s = 1 .. Len(s) /\ Len(s) \in Nat /\ e \in ToSet(s)
  BY LenProperties DEF ToSet
<1>2. RemoveFirst(s, e) = RemoveAt(s, k)
  BY <1>1 DEF RemoveFirst, ToSet
<1>3. I # {} /\ k = Min(I)
  BY DEF SelectInSeq
<1>4. \A j \in I : j = i
  BY <1>1 DEF IsInjective
<1>5. I \subseteq Nat
  BY <1>1
<1> HIDE DEF I
<1>6. Min(I) = i
  BY <1>3, <1>4, <1>5, MinProperties
<1>7. RemoveFirst(s, e) = RemoveAt(s, i)
  BY <1>2, <1>3, <1>6
<1> HIDE DEF e
<1>8. ToSet(RemoveFirst(s, e)) = ToSet(s) \ {e} /\ IsInjective(RemoveFirst(s, e))
  BY RemoveFirstSet
<1> QED
  BY <1>1, <1>7, <1>8 DEF e

LEMMA AppendIsInsert ==
  ASSUME NEW s \in Seq(Nodes), NEW n \in Nodes
  PROVE  InsertAt(s, Len(s) + 1, n) = Append(s, n)
<1> DEFINE len == Len(s)
           t == InsertAt(s, len + 1, n)
           r == Append(s, n)
<1>1. len \in Nat /\ len + 1 \in 1 .. len + 1
  BY LenProperties
<1>2. /\ t \in Seq(Nodes) /\ Len(t) = len + 1
      /\ \A j \in 1 .. len + 1 : /\ j < len + 1 => t[j] = s[j]
                                 /\ j = len + 1 => t[j] = n
  BY <1>1, InsertAtProperties
<1>3. /\ r \in Seq(Nodes) /\ Len(r) = len + 1 /\ r[len + 1] = n
      /\ \A j \in 1 .. len : r[j] = s[j]
  BY AppendProperties
<1> HIDE DEF t, r, len
<1>4. \A j \in 1 .. len + 1 : t[j] = r[j]
  <2> SUFFICES ASSUME NEW j \in 1 .. len + 1 PROVE t[j] = r[j]
    OBVIOUS
  <2>1. CASE j = len + 1
    BY <1>2, <1>3, <2>1
  <2>2. CASE j # len + 1
    <3>1. j \in 1 .. len /\ j < len + 1
      BY <1>1, <2>2
    <3> QED
      BY <1>2, <1>3, <3>1
  <2> QED
    BY <2>1, <2>2
<1>5. t = r
  BY <1>2, <1>3, <1>4, SeqEqual
<1> QED
  BY <1>5 DEF t, r, len

-------------------------------------------------------------------------------
(* All the lists, when a node comes to one of them or leaves it. *)

LEMMA OnTheLists ==
  ASSUME NEW h, NEW Q, Holds(h, Q), NEW k \in Lists
  PROVE  /\ ToSet(Q[k]) \subseteq Nodes
         /\ \A l \in Lists \ {k} : \A m \in ToSet(Q[k]) : m \notin ToSet(Q[l])
<1>1. Q[k] \in Seq(Nodes)
  BY DEF Holds
<1>2. ToSet(Q[k]) \subseteq Nodes
  BY <1>1, LenProperties DEF ToSet
<1>3. \A l \in Lists \ {k} : ToSet(Q[k]) \cap ToSet(Q[l]) = {}
  BY DEF Holds
<1> QED
  BY <1>2, <1>3

LEMMA PutHolds ==
  ASSUME NEW h, NEW Q, Holds(h, Q), NEW l \in Lists, NEW n \in OnNone(Q),
         NEW i \in 1 .. Len(Q[l]) + 1, NEW r \in Heap,
         Ring(r.next, r.prev, InsertAt(Q[l], i, n)),
         \A m \in Nodes : m \notin ToSet(Q[l]) /\ m # n =>
                            r.next[m] = h.next[m] /\ r.prev[m] = h.prev[m],
         r.head[l] = InsertAt(Q[l], i, n)[1], \A k \in Lists \ {l} : r.head[k] = h.head[k]
  PROVE  Holds(r, [Q EXCEPT ![l] = InsertAt(Q[l], i, n)])
<1> DEFINE t == InsertAt(Q[l], i, n)
           P == [Q EXCEPT ![l] = t]
<1>1. /\ Q \in [Lists -> Seq(Nodes)] /\ Q[l] \in Seq(Nodes) /\ IsInjective(Q[l])
      /\ n \in Nodes /\ \A k \in Lists : n \notin ToSet(Q[k])
  BY DEF Holds, OnNone
<1>2. /\ t \in Seq(Nodes) /\ Len(t) = Len(Q[l]) + 1 /\ ToSet(t) = ToSet(Q[l]) \cup {n}
      /\ IsInjective(t)
  BY <1>1, InsertAtSet
<1>3. t # <<>>
  BY <1>1, <1>2
<1> HIDE DEF t
<1>4. P \in [Lists -> Seq(Nodes)] /\ P[l] = t /\ \A k \in Lists \ {l} : P[k] = Q[k]
  BY <1>1, <1>2
<1> HIDE DEF P
<1>5. ASSUME NEW k \in Lists
      PROVE  IsInjective(P[k]) /\ Ring(r.next, r.prev, P[k])
  <2>1. CASE k = l
    BY <1>2, <1>4, <2>1 DEF t
  <2>2. CASE k # l
    <3>1. \A m \in ToSet(Q[k]) : m \in Nodes /\ m \notin ToSet(Q[l]) /\ m # n
      BY <1>1, <2>2, OnTheLists
    <3>2. Ring(h.next, h.prev, Q[k]) /\ IsInjective(Q[k]) /\ Q[k] \in Seq(Nodes)
      BY DEF Holds
    <3>3. Ring(r.next, r.prev, Q[k])
      BY <3>1, <3>2, RingSame
    <3> QED
      BY <1>4, <2>2, <3>2, <3>3
  <2> QED
    BY <2>1, <2>2
<1>6. ASSUME NEW k \in Lists, NEW m \in Lists \ {k}
      PROVE  ToSet(P[k]) \cap ToSet(P[m]) = {}
  <2>1. ToSet(Q[k]) \cap ToSet(Q[m]) = {} /\ k # m
    BY DEF Holds
  <2>2. CASE k = l
    BY <1>1, <1>2, <1>4, <2>1, <2>2
  <2>3. CASE m = l
    BY <1>1, <1>2, <1>4, <2>1, <2>3
  <2>4. CASE k # l /\ m # l
    BY <1>4, <2>1, <2>4
  <2> QED
    BY <2>2, <2>3, <2>4
<1>7. ASSUME NEW k \in Lists
      PROVE  /\ P[k] = <<>> => r.head[k] = Null
             /\ P[k] # <<>> => r.head[k] = P[k][1]
  BY <1>3, <1>4 DEF Holds, t
<1>8. ASSUME NEW m \in OnNone(P)
      PROVE  r.next[m] = m /\ r.prev[m] = m
  <2>1. /\ m \in Nodes /\ m \notin ToSet(Q[l]) /\ m # n
        /\ \A k \in Lists : m \notin ToSet(Q[k])
    BY <1>2, <1>4 DEF OnNone
  <2>2. h.next[m] = m /\ h.prev[m] = m
    BY <2>1 DEF Holds, OnNone
  <2> QED
    BY <2>1, <2>2
<1>9. Holds(r, P)
  BY <1>4, <1>5, <1>6, <1>7, <1>8 DEF Holds
<1> QED
  BY <1>9 DEF P, t

LEMMA TakeHolds ==
  ASSUME NEW h, NEW Q, Holds(h, Q), NEW l \in Lists, NEW i \in 1 .. Len(Q[l]), NEW r \in Heap,
         Ring(r.next, r.prev, RemoveAt(Q[l], i)),
         r.next[Q[l][i]] = Q[l][i], r.prev[Q[l][i]] = Q[l][i],
         \A m \in Nodes : m \notin ToSet(Q[l]) =>
                            r.next[m] = h.next[m] /\ r.prev[m] = h.prev[m],
         Len(Q[l]) = 1 => r.head[l] = Null, Len(Q[l]) > 1 => r.head[l] = RemoveAt(Q[l], i)[1],
         \A k \in Lists \ {l} : r.head[k] = h.head[k]
  PROVE  /\ Holds(r, [Q EXCEPT ![l] = RemoveAt(Q[l], i)])
         /\ Q[l][i] \in OnNone([Q EXCEPT ![l] = RemoveAt(Q[l], i)])
<1> DEFINE n == Q[l][i]
           t == RemoveAt(Q[l], i)
           P == [Q EXCEPT ![l] = t]
<1>1. /\ Q \in [Lists -> Seq(Nodes)] /\ Q[l] \in Seq(Nodes) /\ IsInjective(Q[l])
      /\ Len(Q[l]) \in Nat /\ n \in Nodes
  BY LenProperties DEF Holds
<1>2. ToSet(t) = ToSet(Q[l]) \ {n} /\ IsInjective(t) /\ n \in ToSet(Q[l])
  BY <1>1, RemoveFirstAt
<1>3. t \in Seq(Nodes) /\ Len(t) = Len(Q[l]) - 1
  BY <1>1, RemoveAtProperties
<1>4. \A k \in Lists \ {l} : n \notin ToSet(Q[k])
  BY <1>2 DEF Holds
<1> HIDE DEF t, n
<1>5. P \in [Lists -> Seq(Nodes)] /\ P[l] = t /\ \A k \in Lists \ {l} : P[k] = Q[k]
  BY <1>1, <1>3
<1> HIDE DEF P
<1>6. ASSUME NEW k \in Lists
      PROVE  IsInjective(P[k]) /\ Ring(r.next, r.prev, P[k])
  <2>1. CASE k = l
    BY <1>2, <1>5, <2>1 DEF t
  <2>2. CASE k # l
    <3>1. \A m \in ToSet(Q[k]) : m \in Nodes /\ m \notin ToSet(Q[l])
      BY <2>2, OnTheLists
    <3>2. Ring(h.next, h.prev, Q[k]) /\ IsInjective(Q[k]) /\ Q[k] \in Seq(Nodes)
      BY DEF Holds
    <3>3. Ring(r.next, r.prev, Q[k])
      BY <3>1, <3>2, RingSame
    <3> QED
      BY <1>5, <2>2, <3>2, <3>3
  <2> QED
    BY <2>1, <2>2
<1>7. ASSUME NEW k \in Lists, NEW m \in Lists \ {k}
      PROVE  ToSet(P[k]) \cap ToSet(P[m]) = {}
  <2>1. ToSet(Q[k]) \cap ToSet(Q[m]) = {}
    BY DEF Holds
  <2> QED
    BY <1>2, <1>5, <2>1
<1>8. ASSUME NEW k \in Lists
      PROVE  /\ P[k] = <<>> => r.head[k] = Null
             /\ P[k] # <<>> => r.head[k] = P[k][1]
  <2>1. CASE k = l
    <3>1. t = <<>> => Len(Q[l]) = 1
      BY <1>1, <1>3
    <3>2. t # <<>> => Len(Q[l]) > 1
      BY <1>1, <1>3
    <3> QED
      BY <1>5, <2>1, <3>1, <3>2 DEF t
  <2>2. CASE k # l
    BY <1>5, <2>2 DEF Holds
  <2> QED
    BY <2>1, <2>2
<1>9. ASSUME NEW m \in OnNone(P)
      PROVE  r.next[m] = m /\ r.prev[m] = m
  <2>1. CASE m = n
    BY <2>1 DEF n
  <2>2. CASE m # n
    <3>1. m \in Nodes /\ m \notin ToSet(Q[l]) /\ \A k \in Lists : m \notin ToSet(Q[k])
      BY <1>2, <1>5, <2>2 DEF OnNone
    <3>2. h.next[m] = m /\ h.prev[m] = m
      BY <3>1 DEF Holds, OnNone
    <3> QED
      BY <3>1, <3>2
  <2> QED
    BY <2>1, <2>2
<1>10. Holds(r, P)
  BY <1>5, <1>6, <1>7, <1>8, <1>9 DEF Holds
<1>11. n \in OnNone(P)
  BY <1>1, <1>2, <1>5, <1>4 DEF OnNone
<1> QED
  BY <1>10, <1>11 DEF P, t, n

-------------------------------------------------------------------------------
(* The functions of cf_clist.c. *)

WithHead(h, l, n) == [h EXCEPT !.head[l] = n]

LEMMA HeadSet ==
  ASSUME NEW h \in Heap, NEW l \in Lists, NEW n \in Nodes \cup {Null},
         NEW r, r = WithHead(h, l, n)
  PROVE  /\ r \in Heap /\ r.next = h.next /\ r.prev = h.prev /\ r.q_size = h.q_size
         /\ r.head[l] = n /\ \A k \in Lists \ {l} : r.head[k] = h.head[k]
<1> DEFINE head == [h.head EXCEPT ![l] = n]
<1>1. h.head \in [Lists -> Nodes \cup {Null}]
  BY DEF Heap
<1>2. r = [h EXCEPT !.head = head]
  BY DEF Heap, WithHead
<1>3. /\ head \in [Lists -> Nodes \cup {Null}] /\ head[l] = n
      /\ \A k \in Lists \ {l} : head[k] = h.head[k]
  BY <1>1
<1> HIDE DEF head
<1> QED
  BY <1>2, <1>3 DEF Heap

LEMMA LinkedBeforeIs ==
  ASSUME NEW h \in Heap, NEW head \in Nodes, NEW n \in Nodes, n # head, n # h.prev[head],
         NEW r, r = LinkedBefore(h, head, n)
  PROVE  LinkedIn(h, r, h.prev[head], n, head) /\ r.head = h.head
<1> DEFINE last == h.prev[head]
<1>1. last \in Nodes /\ n # last
  BY DEF Heap
<1> HIDE DEF last
<1>2. r = [h EXCEPT !.next[n] = head, !.prev[n] = last, !.next[last] = n, !.prev[head] = n]
  BY DEF LinkedBefore, last
<1>3. h.next \in [Nodes -> Nodes] /\ h.prev \in [Nodes -> Nodes]
  BY DEF Heap
<1> DEFINE next == [[h.next EXCEPT ![n] = head] EXCEPT ![last] = n]
           prev == [[h.prev EXCEPT ![n] = last] EXCEPT ![head] = n]
<1>4. r = [h EXCEPT !.next = next, !.prev = prev]
  BY <1>2, <1>3 DEF Heap
<1>5. next \in [Nodes -> Nodes] /\ prev \in [Nodes -> Nodes]
  BY <1>1, <1>3
<1> HIDE DEF next, prev
<1>6. /\ r \in Heap /\ r.q_size = h.q_size /\ r.head = h.head
      /\ r.next = next /\ r.prev = prev
  BY <1>4, <1>5 DEF Heap
<1>7. /\ r.next[last] = n /\ r.next[n] = head /\ r.prev[head] = n /\ r.prev[n] = last
      /\ \A m \in Nodes \ {last, n} : r.next[m] = h.next[m]
      /\ \A m \in Nodes \ {head, n} : r.prev[m] = h.prev[m]
  BY <1>1, <1>3, <1>6 DEF next, prev
<1> QED
  BY <1>6, <1>7 DEF LinkedIn, last

LEMMA InsertAfterIs ==
  ASSUME NEW h \in Heap, NEW start \in Nodes, NEW n \in Nodes, n # start, n # h.next[start],
         NEW r, r = InsertAfter(h, start, n)
  PROVE  LinkedIn(h, r, start, n, h.next[start]) /\ r.head = h.head
<1> DEFINE after == h.next[start]
<1>1. after \in Nodes /\ n # after
  BY DEF Heap
<1> HIDE DEF after
<1>2. r = [h EXCEPT !.next[n] = after, !.next[start] = n, !.prev[n] = start, !.prev[after] = n]
  BY DEF InsertAfter, after
<1>3. h.next \in [Nodes -> Nodes] /\ h.prev \in [Nodes -> Nodes]
  BY DEF Heap
<1> DEFINE next == [[h.next EXCEPT ![n] = after] EXCEPT ![start] = n]
           prev == [[h.prev EXCEPT ![n] = start] EXCEPT ![after] = n]
<1>4. r = [h EXCEPT !.next = next, !.prev = prev]
  BY <1>2, <1>3 DEF Heap
<1>5. next \in [Nodes -> Nodes] /\ prev \in [Nodes -> Nodes]
  BY <1>1, <1>3
<1> HIDE DEF next, prev
<1>6. /\ r \in Heap /\ r.q_size = h.q_size /\ r.head = h.head
      /\ r.next = next /\ r.prev = prev
  BY <1>4, <1>5 DEF Heap
<1>7. /\ r.next[start] = n /\ r.next[n] = after /\ r.prev[after] = n /\ r.prev[n] = start
      /\ \A m \in Nodes \ {start, n} : r.next[m] = h.next[m]
      /\ \A m \in Nodes \ {after, n} : r.prev[m] = h.prev[m]
  BY <1>1, <1>3, <1>6 DEF next, prev
<1> QED
  BY <1>6, <1>7 DEF LinkedIn, after

LEMMA LinkedInHolds ==
  ASSUME NEW h, NEW Q, Holds(h, Q), NEW l \in Lists, Q[l] # <<>>, NEW n \in OnNone(Q),
         NEW i \in 1 .. Len(Q[l]) + 1, NEW a, NEW b, NEW r, LinkedIn(h, r, a, n, b),
         i = 1 => a = Q[l][Len(Q[l])], i > 1 => a = Q[l][i - 1],
         i = Len(Q[l]) + 1 => b = Q[l][1], i <= Len(Q[l]) => b = Q[l][i],
         i = 1 => r.head[l] = n, i > 1 => r.head[l] = h.head[l],
         \A k \in Lists \ {l} : r.head[k] = h.head[k]
  PROVE  Holds(r, [Q EXCEPT ![l] = InsertAt(Q[l], i, n)])
<1> DEFINE s == Q[l]
<1>1. /\ s \in Seq(Nodes) /\ IsInjective(s) /\ Ring(h.next, h.prev, s) /\ h \in Heap /\ r \in Heap
      /\ n \in Nodes \ ToSet(s) /\ Len(s) \in Nat \ {0} /\ DOMAIN s = 1 .. Len(s)
  <2>1. s \in Seq(Nodes) /\ s # <<>>
    BY DEF Holds
  <2>2. Len(s) \in Nat \ {0} /\ DOMAIN s = 1 .. Len(s)
    BY <2>1
  <2> QED
    BY <2>1, <2>2 DEF Holds, OnNone, LinkedIn
<1>2. Ring(r.next, r.prev, InsertAt(s, i, n))
  <2> HIDE DEF s
  <2> QED
    BY <1>1, RingGrows DEF s
<1>3. a \in ToSet(s) /\ b \in ToSet(s)
  <2>1. /\ i = 1 \/ (i > 1 /\ i - 1 \in 1 .. Len(s))
        /\ i = Len(s) + 1 \/ (i <= Len(s) /\ i \in 1 .. Len(s))
        /\ 1 \in 1 .. Len(s) /\ Len(s) \in 1 .. Len(s)
    BY <1>1
  <2> QED
    BY <1>1, <2>1 DEF ToSet
<1>4. \A m \in Nodes : m \notin ToSet(s) /\ m # n =>
                         r.next[m] = h.next[m] /\ r.prev[m] = h.prev[m]
  BY <1>3 DEF LinkedIn
<1>5. r.head[l] = InsertAt(s, i, n)[1]
  <2> DEFINE t == InsertAt(s, i, n)
  <2>1. 1 \in 1 .. Len(s) + 1
    BY <1>1
  <2>2. \A j \in 1 .. Len(s) + 1 : /\ j < i => t[j] = s[j]
                                   /\ j = i => t[j] = n
    <3>1. s \in Seq(Nodes) /\ n \in Nodes /\ i \in 1 .. Len(s) + 1
      BY <1>1
    <3> HIDE DEF s
    <3> QED
      BY <3>1, InsertAtProperties
  <2>3. /\ i = 1 => t[1] = n
        /\ i > 1 => t[1] = s[1]
    <3> HIDE DEF t
    <3> QED
      BY <2>1, <2>2
  <2>4. h.head[l] = s[1]
    BY DEF Holds
  <2> QED
    BY <2>3, <2>4
<1> QED
  BY <1>1, <1>2, <1>4, <1>5, PutHolds

LEMMA InsertBackHolds ==
  ASSUME NEW h, NEW Q, Holds(h, Q), NEW l \in Lists, NEW n \in OnNone(Q),
         NEW r, r = InsertBack(h, l, n)
  PROVE  /\ Holds(r, [Q EXCEPT ![l] = InsertAt(Q[l], Len(Q[l]) + 1, n)])
         /\ r.q_size = h.q_size
<1> DEFINE s == Q[l]
<1>1. /\ h \in Heap /\ n \in Nodes /\ n \notin ToSet(s) /\ s \in Seq(Nodes)
      /\ Len(s) \in Nat /\ DOMAIN s = 1 .. Len(s)
  BY LenProperties DEF Holds, OnNone
<1>2. CASE s = <<>>
  <2>1. h.head[l] = Null /\ h.next[n] = n /\ h.prev[n] = n
    BY <1>2 DEF Holds
  <2>2. r = WithHead(h, l, n)
    BY <2>1 DEF InsertBack, WithHead
  <2>3. /\ r \in Heap /\ r.next = h.next /\ r.prev = h.prev /\ r.q_size = h.q_size
        /\ r.head[l] = n /\ \A k \in Lists \ {l} : r.head[k] = h.head[k]
    <3>1. h \in Heap /\ n \in Nodes \cup {Null}
      BY <1>1
    <3> QED
      BY <2>2, <3>1, HeadSet
  <2>4. Len(s) + 1 = 1 /\ 1 \in 1 .. Len(s) + 1
    BY <1>2
  <2>5. Len(InsertAt(s, 1, n)) = 1 /\ InsertAt(s, 1, n)[1] = n
    <3> DEFINE t == InsertAt(s, 1, n)
    <3>1. Len(t) = Len(s) + 1 /\ \A j \in 1 .. Len(s) + 1 : j = 1 => t[j] = n
      BY <1>1, <2>4, InsertAtProperties
    <3> HIDE DEF t
    <3>2. Len(t) = 1 /\ t[1] = n
      BY <2>4, <3>1
    <3> QED
      BY <3>2 DEF t
  <2>6. Ring(r.next, r.prev, InsertAt(s, 1, n))
    BY <2>1, <2>3, <2>5 DEF Ring
  <2> QED
    BY <2>3, <2>4, <2>5, <2>6, PutHolds
<1>3. CASE s # <<>>
  <2>1. h.head[l] = s[1] /\ s[1] \in Nodes /\ h.head[l] # Null /\ 1 \in 1 .. Len(s)
        /\ Len(s) \in 1 .. Len(s)
    <3>1. h.head[l] = s[1]
      BY <1>3 DEF Holds
    <3>2. s[1] \in Nodes /\ 1 \in 1 .. Len(s) /\ Len(s) \in 1 .. Len(s)
      BY <1>1, <1>3
    <3> QED
      BY <3>1, <3>2, ListsAssumption
  <2>2. r = LinkedBefore(h, s[1], n)
    BY <2>1 DEF InsertBack
  <2>3. h.prev[s[1]] = s[Len(s)]
    BY <2>1 DEF Holds, Ring
  <2>4. n # s[1] /\ n # s[Len(s)]
    BY <1>1, <2>1 DEF ToSet
  <2>5. LinkedIn(h, r, s[Len(s)], n, s[1]) /\ r.head = h.head
    BY <1>1, <2>1, <2>2, <2>3, <2>4, LinkedBeforeIs
  <2>6. /\ Len(s) + 1 \in 1 .. Len(s) + 1 /\ Len(s) + 1 > 1 /\ (Len(s) + 1) - 1 = Len(s)
        /\ ~(Len(s) + 1 <= Len(s))
    BY <1>1, <2>1
  <2>7. Holds(r, [Q EXCEPT ![l] = InsertAt(Q[l], Len(Q[l]) + 1, n)])
    <3> DEFINE i == Len(s) + 1
               a == s[Len(s)]
               b == s[1]
    <3>1. /\ i \in 1 .. Len(Q[l]) + 1 /\ i # 1 /\ a = Q[l][i - 1] /\ i > 1
          /\ b = Q[l][1] /\ ~(i <= Len(Q[l])) /\ LinkedIn(h, r, a, n, b)
      BY <2>5, <2>6
    <3> HIDE DEF i, a, b
    <3>2. Holds(r, [Q EXCEPT ![l] = InsertAt(Q[l], i, n)])
      BY <1>3, <2>5, <3>1, LinkedInHolds
    <3> QED
      BY <3>2 DEF i
  <2> QED
    BY <2>5, <2>7 DEF LinkedIn
<1> QED
  BY <1>2, <1>3

LEMMA InsertFrontHolds ==
  ASSUME NEW h, NEW Q, Holds(h, Q), NEW l \in Lists, NEW n \in OnNone(Q),
         NEW r, r = InsertFront(h, l, n)
  PROVE  /\ Holds(r, [Q EXCEPT ![l] = InsertAt(Q[l], 1, n)])
         /\ r.q_size = h.q_size
<1> DEFINE s == Q[l]
<1>1. /\ h \in Heap /\ n \in Nodes /\ n \notin ToSet(s) /\ s \in Seq(Nodes)
      /\ Len(s) \in Nat /\ DOMAIN s = 1 .. Len(s)
  BY LenProperties DEF Holds, OnNone
<1>2. CASE s = <<>>
  <2>1. h.head[l] = Null
    BY <1>2 DEF Holds
  <2>2. r = InsertBack(h, l, n)
    BY <2>1 DEF InsertBack, InsertFront
  <2>3. Len(Q[l]) + 1 = 1
    BY <1>2
  <2> QED
    BY <2>2, <2>3, InsertBackHolds
<1>3. CASE s # <<>>
  <2>1. h.head[l] = s[1] /\ s[1] \in Nodes /\ h.head[l] # Null /\ 1 \in 1 .. Len(s)
        /\ Len(s) \in 1 .. Len(s)
    <3>1. h.head[l] = s[1]
      BY <1>3 DEF Holds
    <3>2. s[1] \in Nodes /\ 1 \in 1 .. Len(s) /\ Len(s) \in 1 .. Len(s)
      BY <1>1, <1>3
    <3> QED
      BY <3>1, <3>2, ListsAssumption
  <2> DEFINE g == LinkedBefore(h, s[1], n)
  <2>2. r = WithHead(g, l, n)
    BY <2>1 DEF InsertFront, WithHead
  <2>3. h.prev[s[1]] = s[Len(s)]
    BY <2>1 DEF Holds, Ring
  <2>4. n # s[1] /\ n # s[Len(s)]
    BY <1>1, <2>1 DEF ToSet
  <2>5. LinkedIn(h, g, s[Len(s)], n, s[1]) /\ g.head = h.head
    BY <1>1, <2>1, <2>3, <2>4, LinkedBeforeIs
  <2> HIDE DEF g
  <2>6. g \in Heap
    BY <2>5 DEF LinkedIn
  <2>7. /\ r \in Heap /\ r.next = g.next /\ r.prev = g.prev /\ r.q_size = g.q_size
        /\ r.head[l] = n /\ \A k \in Lists \ {l} : r.head[k] = g.head[k]
    <3>1. g \in Heap /\ n \in Nodes \cup {Null}
      BY <1>1, <2>6
    <3> QED
      BY <2>2, <3>1, HeadSet
  <2>8. LinkedIn(h, r, s[Len(s)], n, s[1])
    BY <2>5, <2>7 DEF LinkedIn
  <2>9. /\ 1 \in 1 .. Len(s) + 1 /\ ~(1 > 1) /\ 1 <= Len(s) /\ 1 # Len(s) + 1
    BY <1>1, <2>1
  <2>10. Holds(r, [Q EXCEPT ![l] = InsertAt(Q[l], 1, n)])
    <3> DEFINE i == 1
               a == s[Len(s)]
               b == s[1]
    <3>1. /\ i \in 1 .. Len(Q[l]) + 1 /\ ~(i > 1) /\ a = Q[l][Len(Q[l])] /\ i # Len(Q[l]) + 1
          /\ b = Q[l][i] /\ LinkedIn(h, r, a, n, b) /\ r.head[l] = n
          /\ \A k \in Lists \ {l} : r.head[k] = h.head[k]
      BY <2>5, <2>7, <2>8, <2>9
    <3> HIDE DEF i, a, b
    <3>2. Holds(r, [Q EXCEPT ![l] = InsertAt(Q[l], i, n)])
      BY <1>3, <3>1, LinkedInHolds
    <3> QED
      BY <3>2 DEF i
  <2> QED
    BY <2>8, <2>10 DEF LinkedIn
<1> QED
  BY <1>2, <1>3

LEMMA InsertAfterHolds ==
  ASSUME NEW h, NEW Q, Holds(h, Q), NEW l \in Lists, NEW n \in OnNone(Q),
         NEW j \in 1 .. Len(Q[l]), NEW r, r = InsertAfter(h, Q[l][j], n)
  PROVE  /\ Holds(r, [Q EXCEPT ![l] = InsertAt(Q[l], j + 1, n)])
         /\ r.q_size = h.q_size
<1> DEFINE s == Q[l]
<1>1. /\ h \in Heap /\ n \in Nodes /\ n \notin ToSet(s) /\ s \in Seq(Nodes)
      /\ Len(s) \in Nat /\ DOMAIN s = 1 .. Len(s)
  BY LenProperties DEF Holds, OnNone
<1>2. /\ j < Len(s) => h.next[s[j]] = s[j + 1]
      /\ j = Len(s) => h.next[s[j]] = s[1]
  BY DEF Holds, Ring
<1>3. \A k \in 1 .. Len(s) : s[k] \in Nodes /\ n # s[k]
  BY <1>1 DEF ToSet
<1>4. /\ j + 1 \in 1 .. Len(s) + 1 /\ j + 1 > 1 /\ (j + 1) - 1 = j /\ s # <<>> /\ j + 1 # 1
      /\ j < Len(s) => j + 1 \in 1 .. Len(s)
      /\ 1 \in 1 .. Len(s)
      /\ j < Len(s) \/ j = Len(s)
  BY <1>1
<1>5. h.next[s[j]] # n
  BY <1>2, <1>3, <1>4
<1>6. LinkedIn(h, r, s[j], n, h.next[s[j]]) /\ r.head = h.head
  BY <1>1, <1>3, <1>5, InsertAfterIs
<1>7. /\ j + 1 = Len(s) + 1 => h.next[s[j]] = s[1]
      /\ j + 1 <= Len(s) => h.next[s[j]] = s[j + 1]
  BY <1>1, <1>2
<1>8. Holds(r, [Q EXCEPT ![l] = InsertAt(Q[l], j + 1, n)])
  BY <1>4, <1>6, <1>7, LinkedInHolds
<1> QED
  BY <1>6, <1>8 DEF LinkedIn

LEMMA NodeInit ==
  ASSUME NEW h \in Heap, NEW n \in Nodes, NEW r, r = InitNode(h, n)
  PROVE  /\ r \in Heap /\ r.head = h.head /\ r.q_size = h.q_size
         /\ r.next[n] = n /\ r.prev[n] = n
         /\ \A m \in Nodes \ {n} : r.next[m] = h.next[m] /\ r.prev[m] = h.prev[m]
<1> DEFINE next == [h.next EXCEPT ![n] = n]
           prev == [h.prev EXCEPT ![n] = n]
<1>1. h.next \in [Nodes -> Nodes] /\ h.prev \in [Nodes -> Nodes]
  BY DEF Heap
<1>2. r = [h EXCEPT !.next = next, !.prev = prev]
  BY DEF InitNode, Heap
<1>3. /\ next \in [Nodes -> Nodes] /\ prev \in [Nodes -> Nodes] /\ next[n] = n /\ prev[n] = n
      /\ \A m \in Nodes \ {n} : next[m] = h.next[m] /\ prev[m] = h.prev[m]
  BY <1>1
<1> HIDE DEF next, prev
<1>4. /\ r \in Heap /\ r.head = h.head /\ r.q_size = h.q_size /\ r.next = next /\ r.prev = prev
  BY <1>2, <1>3 DEF Heap
<1> QED
  BY <1>3, <1>4

(* What is done with the neighbours of a node that leaves. *)
Around(h, a, b) == [h EXCEPT !.prev[b] = a, !.next[a] = b]

PassedBy(h, r, a, b) ==
  /\ r \in Heap /\ r.head = h.head /\ r.q_size = h.q_size
  /\ r.next[a] = b /\ r.prev[b] = a
  /\ \A m \in Nodes \ {a} : r.next[m] = h.next[m]
  /\ \A m \in Nodes \ {b} : r.prev[m] = h.prev[m]

LEMMA AroundIs ==
  ASSUME NEW h \in Heap, NEW a \in Nodes, NEW b \in Nodes, NEW r, r = Around(h, a, b)
  PROVE  PassedBy(h, r, a, b)
<1> DEFINE next == [h.next EXCEPT ![a] = b]
           prev == [h.prev EXCEPT ![b] = a]
<1>1. h.next \in [Nodes -> Nodes] /\ h.prev \in [Nodes -> Nodes]
  BY DEF Heap
<1>2. r = [h EXCEPT !.next = next, !.prev = prev]
  BY DEF Around, Heap
<1>3. /\ next \in [Nodes -> Nodes] /\ prev \in [Nodes -> Nodes] /\ next[a] = b /\ prev[b] = a
      /\ \A m \in Nodes \ {a} : next[m] = h.next[m]
      /\ \A m \in Nodes \ {b} : prev[m] = h.prev[m]
  BY <1>1
<1> HIDE DEF next, prev
<1>4. /\ r \in Heap /\ r.head = h.head /\ r.q_size = h.q_size /\ r.next = next /\ r.prev = prev
  BY <1>2, <1>3 DEF Heap
<1> QED
  BY <1>3, <1>4 DEF PassedBy

(* From h to r, the node at place i has left its list. *)
Removed(h, Q, l, i, r) ==
  /\ Holds(r, [Q EXCEPT ![l] = RemoveAt(Q[l], i)])
  /\ Q[l][i] \in OnNone([Q EXCEPT ![l] = RemoveAt(Q[l], i)])
  /\ r.q_size = h.q_size

LEMMA RemoveNodeHolds ==
  ASSUME NEW h, NEW Q, Holds(h, Q), NEW l \in Lists, NEW i \in 1 .. Len(Q[l]),
         NEW r, r = RemoveNode(h, l, Q[l][i])
  PROVE  Removed(h, Q, l, i, r)
<1> DEFINE s == Q[l]
           len == Len(s)
           n == s[i]
           a == h.prev[n]
           b == h.next[n]
<1>1. /\ h \in Heap /\ s \in Seq(Nodes) /\ len \in Nat \ {0} /\ DOMAIN s = 1 .. len
      /\ i \in 1 .. len /\ IsInjective(s) /\ Ring(h.next, h.prev, s)
  BY LenProperties DEF Holds
<1>2. \A j, k \in 1 .. len : s[j] = s[k] => j = k
  BY <1>1 DEF IsInjective
<1>3. \A j \in 1 .. len : s[j] \in ToSet(s) /\ s[j] \in Nodes
  BY <1>1 DEF ToSet
<1>4. /\ i < len => b = s[i + 1]
      /\ i = len => b = s[1]
      /\ i > 1 => a = s[i - 1]
      /\ i = 1 => a = s[len]
  BY <1>1 DEF Ring
<1>5. h.head[l] = s[1] /\ s # <<>>
  <2>1. s # <<>>
    BY <1>1
  <2> QED
    BY <2>1 DEF Holds
<1> HIDE DEF len
<1>6. n \in Nodes /\ n \in ToSet(s) /\ 1 \in 1 .. len /\ len \in 1 .. len
  BY <1>1, <1>3
<1>7. a \in ToSet(s) /\ b \in ToSet(s) /\ a \in Nodes /\ b \in Nodes
  <2>1. /\ i = len \/ (i < len /\ i + 1 \in 1 .. len)
        /\ i = 1 \/ (i > 1 /\ i - 1 \in 1 .. len)
    BY <1>1
  <2> HIDE DEF a, b, n
  <2> QED
    BY <1>3, <1>4, <1>6, <2>1
<1>8. r = InitNode(IF b = n THEN WithHead(h, l, Null)
                   ELSE IF h.head[l] = n THEN WithHead(Around(h, a, b), l, b)
                   ELSE Around(h, a, b), n)
  BY DEF RemoveNode, WithHead, Around
<1>9. CASE len = 1
  <2>1. i = 1 /\ b = n
    BY <1>1, <1>4, <1>9
  <2> DEFINE g == WithHead(h, l, Null)
  <2>2. r = InitNode(g, n)
    BY <1>8, <2>1
  <2>3. /\ g \in Heap /\ g.next = h.next /\ g.prev = h.prev /\ g.q_size = h.q_size
        /\ g.head[l] = Null /\ \A k \in Lists \ {l} : g.head[k] = h.head[k]
    <3>1. Null \in Nodes \cup {Null}
      OBVIOUS
    <3> QED
      BY <1>1, <3>1, HeadSet
  <2> HIDE DEF g, n
  <2>4. /\ r \in Heap /\ r.head = g.head /\ r.q_size = g.q_size
        /\ r.next[n] = n /\ r.prev[n] = n
        /\ \A m \in Nodes \ {n} : r.next[m] = g.next[m] /\ r.prev[m] = g.prev[m]
    BY <1>6, <2>2, <2>3, NodeInit
  <2>5. Len(RemoveAt(s, i)) = 0
    <3>1. Len(RemoveAt(s, i)) = len - 1
      BY <1>1, RemoveAtProperties DEF len
    <3> QED
      BY <1>9, <3>1
  <2>6. Ring(r.next, r.prev, RemoveAt(s, i))
    <3> HIDE DEF s
    <3> QED
      BY <2>5 DEF Ring
  <2>7. \A m \in Nodes : m \notin ToSet(s) => r.next[m] = h.next[m] /\ r.prev[m] = h.prev[m]
    BY <1>6, <2>3, <2>4
  <2>8. r.head[l] = Null /\ (\A k \in Lists \ {l} : r.head[k] = h.head[k]) /\ ~(Len(Q[l]) > 1)
    BY <1>9, <2>3, <2>4 DEF len
  <2>9. r \in Heap /\ r.q_size = h.q_size
    BY <2>3, <2>4
  <2>10. r.next[Q[l][i]] = Q[l][i] /\ r.prev[Q[l][i]] = Q[l][i]
    BY <2>4 DEF n
  <2> HIDE DEF a, b
  <2>11. /\ Holds(r, [Q EXCEPT ![l] = RemoveAt(Q[l], i)])
         /\ Q[l][i] \in OnNone([Q EXCEPT ![l] = RemoveAt(Q[l], i)])
    BY <2>6, <2>7, <2>8, <2>9, <2>10, TakeHolds
  <2> QED
    BY <2>9, <2>11 DEF Removed
<1>10. CASE len > 1
  <2>1. a # n /\ b # n
    <3>1. /\ i = len \/ (i < len /\ i + 1 \in 1 .. len /\ i + 1 # i)
          /\ i = 1 \/ (i > 1 /\ i - 1 \in 1 .. len /\ i - 1 # i)
          /\ i = len => i # 1
      BY <1>1, <1>10
    <3> HIDE DEF a, b
    <3> QED
      BY <1>1, <1>2, <1>4, <1>6, <3>1
  <2> DEFINE e == Around(h, a, b)
             g == IF h.head[l] = n THEN WithHead(e, l, b) ELSE e
  <2>2. r = InitNode(g, n)
    BY <1>8, <2>1
  <2>3. /\ e \in Heap /\ e.head = h.head /\ e.q_size = h.q_size
        /\ e.next[a] = b /\ e.prev[b] = a
        /\ \A m \in Nodes \ {a} : e.next[m] = h.next[m]
        /\ \A m \in Nodes \ {b} : e.prev[m] = h.prev[m]
    <3>1. h \in Heap /\ a \in Nodes /\ b \in Nodes /\ e = Around(h, a, b)
      BY <1>1, <1>7
    <3> HIDE DEF a, b, e
    <3>2. PassedBy(h, e, a, b)
      BY <3>1, AroundIs
    <3> QED
      BY <3>2 DEF PassedBy
  <2> HIDE DEF e
  <2>4. /\ g \in Heap /\ g.next = e.next /\ g.prev = e.prev /\ g.q_size = e.q_size
        /\ h.head[l] = n => g.head[l] = b
        /\ h.head[l] # n => g.head[l] = h.head[l]
        /\ \A k \in Lists \ {l} : g.head[k] = h.head[k]
    <3>1. CASE h.head[l] = n
      <4>1. g = WithHead(e, l, b) /\ b \in Nodes \cup {Null}
        BY <1>7, <3>1
      <4> HIDE DEF g, b
      <4>2. /\ g \in Heap /\ g.next = e.next /\ g.prev = e.prev /\ g.q_size = e.q_size
            /\ g.head[l] = b /\ \A k \in Lists \ {l} : g.head[k] = e.head[k]
        BY <2>3, <4>1, HeadSet
      <4> QED
        BY <2>3, <3>1, <4>2
    <3>2. CASE h.head[l] # n
      <4>1. g = e
        BY <3>2
      <4> HIDE DEF g
      <4> QED
        BY <2>3, <3>2, <4>1
    <3> QED
      BY <3>1, <3>2
  <2> HIDE DEF g, n
  <2>5. /\ r \in Heap /\ r.head = g.head /\ r.q_size = g.q_size
        /\ r.next[n] = n /\ r.prev[n] = n
        /\ \A m \in Nodes \ {n} : r.next[m] = g.next[m] /\ r.prev[m] = g.prev[m]
    BY <1>6, <2>2, <2>4, NodeInit
  <2>6. LinkedOut(h, r, a, n, b)
    <3> HIDE DEF a, b
    <3> QED
      BY <1>7, <2>1, <2>3, <2>4, <2>5 DEF LinkedOut
  <2>7. Ring(r.next, r.prev, RemoveAt(s, i))
    BY <1>1, <1>10, <2>6, RingShrinks DEF n, len
  <2>8. \A m \in Nodes : m \notin ToSet(s) => r.next[m] = h.next[m] /\ r.prev[m] = h.prev[m]
    BY <1>6, <1>7, <2>6 DEF LinkedOut
  <2>9. r.head[l] = RemoveAt(s, i)[1]
    <3>1. /\ i = 1 => RemoveAt(s, i)[1] = s[2]
          /\ i > 1 => RemoveAt(s, i)[1] = s[1]
      <4> DEFINE t == RemoveAt(s, i)
      <4>1. \A j \in 1 .. len - 1 : t[j] = IF j < i THEN s[j] ELSE s[j + 1]
        BY <1>1, RemoveAtProperties DEF len
      <4>2. 1 \in 1 .. len - 1
        BY <1>1, <1>10
      <4> HIDE DEF t
      <4>3. i > 1 => t[1] = s[1]
        BY <4>1, <4>2
      <4>4. i = 1 => t[1] = s[2]
        BY <4>1, <4>2
      <4> QED
        BY <4>3, <4>4 DEF t
    <3>2. i = 1 => h.head[l] = n /\ b = s[2]
      BY <1>4, <1>5, <1>10 DEF n
    <3>3. i > 1 => h.head[l] # n
      BY <1>1, <1>2, <1>5, <1>6 DEF n
    <3> QED
      BY <1>1, <1>5, <2>4, <2>5, <3>1, <3>2, <3>3
  <2>10. (\A k \in Lists \ {l} : r.head[k] = h.head[k]) /\ r.q_size = h.q_size
    <3>1. r.q_size = h.q_size
      BY <2>3, <2>4, <2>5
    <3>2. ASSUME NEW k \in Lists \ {l} PROVE r.head[k] = h.head[k]
      BY <2>4, <2>5
    <3> QED
      BY <3>1, <3>2
  <2>11. Len(Q[l]) # 1 /\ r \in Heap
    <3>1. Len(Q[l]) = len
      BY DEF len
    <3>2. len # 1 /\ r \in Heap
      BY <1>1, <1>10, <2>5
    <3> QED
      BY <3>1, <3>2
  <2>12. r.next[Q[l][i]] = Q[l][i] /\ r.prev[Q[l][i]] = Q[l][i]
    BY <2>5 DEF n
  <2> HIDE DEF a, b
  <2>13. /\ Holds(r, [Q EXCEPT ![l] = RemoveAt(Q[l], i)])
         /\ Q[l][i] \in OnNone([Q EXCEPT ![l] = RemoveAt(Q[l], i)])
    BY <2>7, <2>8, <2>9, <2>10, <2>11, <2>12, TakeHolds
  <2> QED
    BY <2>10, <2>13 DEF Removed
<1> QED
  BY <1>1, <1>9, <1>10

-------------------------------------------------------------------------------
(* The inline functions of cf_utils.h: the count changes with the queue. *)

WithCount(h, q, k) == [h EXCEPT !.q_size[q] = k]

Recounted(h, q, k, r) ==
  r.q_size[q] = k /\ \A p \in Queues \ {q} : r.q_size[p] = h.q_size[p]

LEMMA CountSet ==
  ASSUME NEW h, NEW Q, Holds(h, Q), NEW q \in Queues, NEW k \in Nat,
         NEW r, r = WithCount(h, q, k)
  PROVE  Recounted(h, q, k, r) /\ Holds(r, Q)
<1> DEFINE size == [h.q_size EXCEPT ![q] = k]
<1>1. h \in Heap /\ h.q_size \in [Queues -> Nat]
  BY DEF Heap, Holds
<1>2. r = [h EXCEPT !.q_size = size]
  BY <1>1 DEF Heap, WithCount
<1>3. /\ size \in [Queues -> Nat] /\ size[q] = k
      /\ \A p \in Queues \ {q} : size[p] = h.q_size[p]
  BY <1>1
<1> HIDE DEF size
<1>4. /\ r \in Heap /\ r.q_size = size
      /\ r.next = h.next /\ r.prev = h.prev /\ r.head = h.head
  BY <1>1, <1>2, <1>3 DEF Heap
<1>5. Holds(r, Q)
  BY <1>4 DEF Holds
<1> QED
  BY <1>3, <1>4, <1>5 DEF Recounted

(* The sequences when one of them is another one.                          *)
LEMMA OneOther ==
  ASSUME NEW Q \in [Lists -> Seq(Nodes)], NEW l \in Lists, NEW s
  PROVE  [Q EXCEPT ![l] = s][l] = s /\ \A k \in Lists \ {l} : [Q EXCEPT ![l] = s][k] = Q[k]
OBVIOUS

LEMMA CountedWith ==
  ASSUME NEW h, NEW Q, Holds(h, Q), Counted(h, Q), NEW q \in Queues, NEW s, NEW g,
         Holds(g, [Q EXCEPT ![q] = s]), g.q_size = h.q_size, Len(s) \in Nat,
         NEW r, r = WithCount(g, q, Len(s))
  PROVE  Holds(r, [Q EXCEPT ![q] = s]) /\ Counted(r, [Q EXCEPT ![q] = s])
<1> DEFINE P == [Q EXCEPT ![q] = s]
<1>1. q \in Lists /\ Queues \subseteq Lists /\ Q \in [Lists -> Seq(Nodes)]
  BY DEF Lists, Holds
<1>2. P[q] = s /\ \A k \in Lists \ {q} : P[k] = Q[k]
  BY <1>1, OneOther
<1> HIDE DEF P
<1>3. /\ Holds(r, P)
      /\ r.q_size[q] = Len(s) /\ \A p \in Queues \ {q} : r.q_size[p] = g.q_size[p]
  <2>1. Holds(g, P)
    BY DEF P
  <2>2. PICK k \in Nat : k = Len(s)
    OBVIOUS
  <2>3. r = WithCount(g, q, k)
    BY <2>2
  <2>4. Recounted(g, q, k, r) /\ Holds(r, P)
    BY <2>1, <2>3, CountSet
  <2> QED
    BY <2>2, <2>4 DEF Recounted
<1>4. Counted(r, P)
  BY <1>1, <1>2, <1>3 DEF Counted
<1> QED
  BY <1>3, <1>4 DEF P

LEMMA PutCounted ==
  ASSUME NEW h, NEW Q, Holds(h, Q), Counted(h, Q), NEW q \in Queues, NEW n \in OnNone(Q),
         NEW i \in 1 .. Len(Q[q]) + 1, NEW g,
         Holds(g, [Q EXCEPT ![q] = InsertAt(Q[q], i, n)]), g.q_size = h.q_size,
         NEW r, r = [g EXCEPT !.q_size[q] = @ + 1]
  PROVE  /\ Holds(r, [Q EXCEPT ![q] = InsertAt(Q[q], i, n)])
         /\ Counted(r, [Q EXCEPT ![q] = InsertAt(Q[q], i, n)])
<1> DEFINE s == InsertAt(Q[q], i, n)
<1>1. Len(Q[q]) \in Nat /\ Len(s) = Len(Q[q]) + 1
  <2>1. Q[q] \in Seq(Nodes) /\ n \in Nodes
    BY DEF Holds, Lists, OnNone
  <2> QED
    BY <2>1, InsertAtProperties, LenProperties
<1> HIDE DEF s
<1>2. g.q_size[q] = Len(Q[q])
  BY DEF Counted
<1>3. r = WithCount(g, q, Len(s))
  BY <1>1, <1>2 DEF WithCount
<1>4. Holds(g, [Q EXCEPT ![q] = s]) /\ Len(s) \in Nat
  BY <1>1 DEF s
<1>5. Holds(r, [Q EXCEPT ![q] = s]) /\ Counted(r, [Q EXCEPT ![q] = s])
  BY <1>3, <1>4, CountedWith
<1> QED
  BY <1>5 DEF s

LEMMA TakeCounted ==
  ASSUME NEW h, NEW Q, Holds(h, Q), Counted(h, Q), NEW q \in Queues,
         NEW i \in 1 .. Len(Q[q]), NEW r, r = Remove_Ex(h, q, Q[q][i])
  PROVE  /\ Holds(r, [Q EXCEPT ![q] = RemoveAt(Q[q], i)])
         /\ Counted(r, [Q EXCEPT ![q] = RemoveAt(Q[q], i)])
         /\ Q[q][i] \in OnNone([Q EXCEPT ![q] = RemoveAt(Q[q], i)])
<1> DEFINE s == RemoveAt(Q[q], i)
           g == RemoveNode(h, q, Q[q][i])
<1>1. Len(Q[q]) \in Nat \ {0} /\ Len(s) = Len(Q[q]) - 1
  <2>1. Q[q] \in Seq(Nodes)
    BY DEF Holds, Lists
  <2>2. Len(Q[q]) \in Nat \ {0}
    BY <2>1, LenProperties
  <2>3. Len(s) = Len(Q[q]) - 1
    BY <2>1, RemoveAtProperties
  <2> QED
    BY <2>2, <2>3
<1>2. /\ Holds(g, [Q EXCEPT ![q] = RemoveAt(Q[q], i)])
      /\ Q[q][i] \in OnNone([Q EXCEPT ![q] = RemoveAt(Q[q], i)])
      /\ g.q_size = h.q_size
  <2>1. q \in Lists /\ g = RemoveNode(h, q, Q[q][i])
    BY DEF Lists
  <2> HIDE DEF g, s
  <2>2. Removed(h, Q, q, i, g)
    BY <2>1, RemoveNodeHolds
  <2> QED
    BY <2>2 DEF Removed
<1>3. r = [g EXCEPT !.q_size[q] = @ - 1]
  BY DEF Remove_Ex
<1> HIDE DEF s, g
<1>4. g.q_size[q] = Len(Q[q])
  BY <1>2 DEF Counted
<1>5. r = WithCount(g, q, Len(s))
  BY <1>1, <1>3, <1>4 DEF WithCount
<1>6. Holds(g, [Q EXCEPT ![q] = s]) /\ Len(s) \in Nat
  BY <1>1, <1>2 DEF s
<1>7. Holds(r, [Q EXCEPT ![q] = s]) /\ Counted(r, [Q EXCEPT ![q] = s])
  BY <1>2, <1>5, <1>6, CountedWith
<1> QED
  BY <1>2, <1>7 DEF s

LEMMA InsertBackCounted ==
  ASSUME NEW h, NEW Q, Holds(h, Q), Counted(h, Q), NEW q \in Queues, NEW n \in OnNone(Q),
         NEW r, r = InsertBack_Ex(h, q, n)
  PROVE  /\ Holds(r, [Q EXCEPT ![q] = InsertAt(Q[q], Len(Q[q]) + 1, n)])
         /\ Counted(r, [Q EXCEPT ![q] = InsertAt(Q[q], Len(Q[q]) + 1, n)])
<1> DEFINE g == InsertBack(h, q, n)
           i == Len(Q[q]) + 1
<1>1. /\ Holds(g, [Q EXCEPT ![q] = InsertAt(Q[q], Len(Q[q]) + 1, n)])
      /\ g.q_size = h.q_size
  <2>1. q \in Lists
    BY DEF Lists
  <2> QED
    BY <2>1, InsertBackHolds
<1>2. r = [g EXCEPT !.q_size[q] = @ + 1]
  BY DEF InsertBack_Ex
<1>3. i \in 1 .. Len(Q[q]) + 1
  <2>1. Len(Q[q]) \in Nat
    BY LenProperties DEF Holds, Lists
  <2> QED
    BY <2>1
<1>4. Holds(g, [Q EXCEPT ![q] = InsertAt(Q[q], i, n)]) /\ g.q_size = h.q_size
  BY <1>1
<1> HIDE DEF g, i
<1>5. /\ Holds(r, [Q EXCEPT ![q] = InsertAt(Q[q], i, n)])
      /\ Counted(r, [Q EXCEPT ![q] = InsertAt(Q[q], i, n)])
  BY <1>2, <1>3, <1>4, PutCounted
<1> QED
  BY <1>5 DEF i

LEMMA InsertAfterCounted ==
  ASSUME NEW h, NEW Q, Holds(h, Q), Counted(h, Q), NEW q \in Queues, NEW n \in OnNone(Q),
         NEW j \in 1 .. Len(Q[q]), NEW r, r = InsertAfter_Ex(h, q, Q[q][j], n)
  PROVE  /\ Holds(r, [Q EXCEPT ![q] = InsertAt(Q[q], j + 1, n)])
         /\ Counted(r, [Q EXCEPT ![q] = InsertAt(Q[q], j + 1, n)])
<1> DEFINE g == InsertAfter(h, Q[q][j], n)
           i == j + 1
<1>1. /\ Holds(g, [Q EXCEPT ![q] = InsertAt(Q[q], j + 1, n)])
      /\ g.q_size = h.q_size
  <2>1. q \in Lists
    BY DEF Lists
  <2> QED
    BY <2>1, InsertAfterHolds
<1>2. r = [g EXCEPT !.q_size[q] = @ + 1]
  BY DEF InsertAfter_Ex
<1>3. i \in 1 .. Len(Q[q]) + 1
  <2>1. Len(Q[q]) \in Nat
    BY LenProperties DEF Holds, Lists
  <2> QED
    BY <2>1
<1>4. Holds(g, [Q EXCEPT ![q] = InsertAt(Q[q], i, n)]) /\ g.q_size = h.q_size
  BY <1>1
<1> HIDE DEF g, i
<1>5. /\ Holds(r, [Q EXCEPT ![q] = InsertAt(Q[q], i, n)])
      /\ Counted(r, [Q EXCEPT ![q] = InsertAt(Q[q], i, n)])
  BY <1>2, <1>3, <1>4, PutCounted
<1> QED
  BY <1>5 DEF i

(* The node at place i of one queue goes to the end of another.            *)
Moved(Q, from, to, i) ==
  [Q EXCEPT ![from] = RemoveAt(Q[from], i), ![to] = Append(Q[to], Q[from][i])]

LEMMA MoveCounted ==
  ASSUME NEW h, NEW Q, Holds(h, Q), Counted(h, Q), NEW from \in Queues,
         NEW to \in Queues \ {from}, NEW i \in 1 .. Len(Q[from]),
         NEW r, r = Move(h, from, to, Q[from][i])
  PROVE  /\ Holds(r, Moved(Q, from, to, i))
         /\ Counted(r, Moved(Q, from, to, i))
<1> DEFINE n == Q[from][i]
           P == [Q EXCEPT ![from] = RemoveAt(Q[from], i)]
           g == Remove_Ex(h, from, n)
<1>1. /\ from \in Lists /\ to \in Lists /\ from # to /\ Q \in [Lists -> Seq(Nodes)]
      /\ Q[from] \in Seq(Nodes) /\ Q[to] \in Seq(Nodes)
  BY DEF Lists, Holds
<1>2. Holds(g, P) /\ Counted(g, P) /\ n \in OnNone(P)
  BY TakeCounted
<1>3. r = InsertBack_Ex(g, to, n)
  BY DEF Move
<1>4. P[to] = Q[to] /\ P \in [Lists -> Seq(Nodes)]
  <2>1. P[to] = Q[to]
    BY <1>1
  <2> QED
    BY <1>2, <2>1 DEF Holds
<1>5. n \in Nodes
  BY <1>2 DEF OnNone
<1>6. Moved(Q, from, to, i) = [P EXCEPT ![to] = Append(P[to], n)]
  <2>1. Moved(Q, from, to, i) = [[Q EXCEPT ![from] = RemoveAt(Q[from], i)]
                                    EXCEPT ![to] = Append(Q[to], Q[from][i])]
    BY DEF Moved
  <2> QED
    BY <1>4, <2>1
<1> HIDE DEF n, P, g
<1>7. /\ Holds(r, [P EXCEPT ![to] = InsertAt(P[to], Len(P[to]) + 1, n)])
      /\ Counted(r, [P EXCEPT ![to] = InsertAt(P[to], Len(P[to]) + 1, n)])
  BY <1>2, <1>3, InsertBackCounted
<1>8. InsertAt(P[to], Len(P[to]) + 1, n) = Append(P[to], n)
  BY <1>1, <1>4, <1>5, AppendIsInsert
<1> QED
  BY <1>6, <1>7, <1>8

-------------------------------------------------------------------------------
(* The traversals. *)

LEMMA LinksStay ==
  ASSUME NEW h, NEW Q, Holds(h, Q), NEW l \in Lists, NEW n \in ToSet(Q[l])
  PROVE  h.next[n] \in ToSet(Q[l]) /\ h.prev[n] \in ToSet(Q[l])
<1> DEFINE s == Q[l]
           len == Len(s)
<1>1. s \in Seq(Nodes) /\ Ring(h.next, h.prev, s)
  BY DEF Holds
<1>2. len \in Nat /\ DOMAIN s = 1 .. len
  BY <1>1, LenProperties
<1>3. PICK i \in 1 .. len : n = s[i]
  BY <1>2 DEF ToSet
<1>4. /\ i < len => h.next[s[i]] = s[i + 1]
      /\ i = len => h.next[s[i]] = s[1]
      /\ i > 1 => h.prev[s[i]] = s[i - 1]
      /\ i = 1 => h.prev[s[i]] = s[len]
  BY <1>1 DEF Ring
<1>5. /\ i = len \/ (i < len /\ i + 1 \in 1 .. len)
      /\ i = 1 \/ (i > 1 /\ i - 1 \in 1 .. len)
      /\ 1 \in 1 .. len /\ len \in 1 .. len
  BY <1>2
<1>6. \A j \in 1 .. len : s[j] \in ToSet(s)
  BY <1>2 DEF ToSet
<1> HIDE DEF s, len
<1>7. h.next[n] \in ToSet(s) /\ h.prev[n] \in ToSet(s)
  BY <1>3, <1>4, <1>5, <1>6
<1> QED
  BY <1>7 DEF s

(* The nodes that a traversal at place i has yet to visit.                 *)
Remaining(s, i, w, r) ==
  /\ r \in Seq(Nodes)
  /\ w.link = "next" => /\ Len(r) = Len(s) - i + 1
                        /\ \A j \in 1 .. Len(s) - i + 1 : r[j] = s[i + j - 1]
  /\ w.link = "prev" => /\ Len(r) = i
                        /\ \A j \in 1 .. i : r[j] = s[i - j + 1]

LEMMA Rest ==
  ASSUME NEW h, NEW Q, Holds(h, Q), NEW l \in Lists, NEW i \in 1 .. Len(Q[l]),
         NEW w, At(Q[l], i, w), NEW r, r = Chain(h[w.link], w.node, w.start)
  PROVE  Remaining(Q[l], i, w, r)
<1> DEFINE s == Q[l]
<1>1. /\ s \in Seq(Nodes) /\ IsInjective(s) /\ Ring(h.next, h.prev, s)
      /\ h.next \in [Nodes -> Nodes] /\ h.prev \in [Nodes -> Nodes]
  BY DEF Holds, Heap
<1>2. CASE w.link = "next"
  <2>1. r = Chain(h.next, s[i], s[1])
    BY <1>2 DEF At
  <2>2. /\ Chain(h.next, s[i], s[1]) = SubSeq(s, i, Len(s))
        /\ SubSeq(s, i, Len(s)) \in Seq(Nodes)
        /\ Len(SubSeq(s, i, Len(s))) = Len(s) - i + 1
        /\ \A j \in 1 .. Len(s) - i + 1 : SubSeq(s, i, Len(s))[j] = s[i + j - 1]
    BY <1>1, ForwardChain
  <2> QED
    BY <1>2, <2>1, <2>2 DEF Remaining
<1>3. CASE w.link = "prev"
  <2>1. r = Chain(h.prev, s[i], s[Len(s)])
    BY <1>3 DEF At
  <2>2. r \in Seq(Nodes) /\ Len(r) = i /\ \A j \in 1 .. i : r[j] = s[i - j + 1]
    <3>1. i \in 1 .. Len(s)
      OBVIOUS
    <3> HIDE DEF s
    <3>2. Backwards(s, i, r)
      BY <1>1, <2>1, <3>1, BackwardChain
    <3> QED
      BY <3>2 DEF Backwards
  <2> QED
    BY <1>3, <2>2 DEF Remaining
<1> QED
  BY <1>2, <1>3 DEF At

LEMMA TailIs ==
  ASSUME NEW r \in Seq(Nodes), NEW t \in Seq(Nodes), Len(r) = Len(t) + 1,
         \A j \in 1 .. Len(t) : t[j] = r[j + 1]
  PROVE  t = Tail(r)
<1> DEFINE u == Tail(r)
<1>1. Len(t) \in Nat /\ r # <<>>
  BY LenProperties
<1>2. u \in Seq(Nodes) /\ Len(u) = Len(r) - 1 /\ \A j \in 1 .. Len(u) : u[j] = r[j + 1]
  BY <1>1, HeadTailProperties
<1> HIDE DEF u
<1>3. Len(u) = Len(t) /\ \A j \in 1 .. Len(t) : t[j] = u[j]
  BY <1>1, <1>2
<1>4. t = u
  BY <1>2, <1>3, SeqEqual
<1> QED
  BY <1>4 DEF u

(* Node p is the one that a traversal at place i goes on with.             *)
Follows(s, i, w, p) ==
  \/ w.link = "next" /\ i < Len(s) /\ p = s[i + 1] /\ w.start = s[1]
  \/ w.link = "prev" /\ i > 1 /\ p = s[i - 1] /\ w.start = s[Len(s)]

LEMMA FollowsIs ==
  ASSUME NEW h, NEW Q, Holds(h, Q), NEW l \in Lists, NEW i \in 1 .. Len(Q[l]),
         NEW w, At(Q[l], i, w), NEW p, p = h[w.link][w.node], p # w.start
  PROVE  Follows(Q[l], i, w, p)
<1> DEFINE s == Q[l]
           len == Len(s)
<1>1. Ring(h.next, h.prev, s) /\ len \in Nat
  BY LenProperties DEF Holds
<1>2. /\ i < len => h.next[s[i]] = s[i + 1]
      /\ i = len => h.next[s[i]] = s[1]
      /\ i > 1 => h.prev[s[i]] = s[i - 1]
      /\ i = 1 => h.prev[s[i]] = s[len]
  BY <1>1 DEF Ring
<1>3. CASE w.link = "next" /\ w.start = s[1] /\ w.node = s[i]
  <2>1. p = h.next[s[i]]
    BY <1>3
  <2>2. i # len
    BY <1>2, <1>3, <2>1
  <2> QED
    BY <1>1, <1>2, <1>3, <2>1, <2>2 DEF Follows
<1>4. CASE w.link = "prev" /\ w.start = s[len] /\ w.node = s[i]
  <2>1. p = h.prev[s[i]]
    BY <1>4
  <2>2. i # 1
    BY <1>2, <1>4, <2>1
  <2> QED
    BY <1>1, <1>2, <1>4, <2>1, <2>2 DEF Follows
<1> QED
  BY <1>3, <1>4 DEF At

(* From w to x, and from h to g that holds P, a traversal goes on.         *)
Continues(h, w, g, P, x) ==
  /\ AtNode(P, x)
  /\ Chain(g[x.link], x.node, x.start) = Tail(Chain(h[w.link], w.node, w.start))

(* A traversal goes on along a sequence that has not changed.              *)
LEMMA GoesOn ==
  ASSUME NEW h, NEW Q, Holds(h, Q), NEW l \in Lists, NEW i \in 1 .. Len(Q[l]),
         NEW w, At(Q[l], i, w), NEW p, Follows(Q[l], i, w, p),
         NEW x, x.node = p, x.link = w.link, x.start = w.start
  PROVE  Continues(h, w, h, Q, x)
<1> DEFINE s == Q[l]
           len == Len(s)
<1>1. PICK r, t : /\ r = Chain(h[w.link], w.node, w.start)
                  /\ t = Chain(h[x.link], x.node, x.start)
  OBVIOUS
<1>2. len \in Nat /\ i \in 1 .. len
  BY LenProperties DEF Holds
<1>3. /\ r \in Seq(Nodes)
      /\ w.link = "next" => /\ Len(r) = len - i + 1
                            /\ \A j \in 1 .. len - i + 1 : r[j] = s[i + j - 1]
      /\ w.link = "prev" => /\ Len(r) = i
                            /\ \A j \in 1 .. i : r[j] = s[i - j + 1]
  <2>1. Remaining(Q[l], i, w, r)
    BY <1>1, Rest
  <2> QED
    BY <2>1 DEF Remaining
<1>4. CASE w.link = "next"
  <2>1. i + 1 \in 1 .. len /\ At(s, i + 1, x)
    BY <1>2, <1>4 DEF Follows, At
  <2>2. /\ t \in Seq(Nodes) /\ Len(t) = len - (i + 1) + 1
        /\ \A j \in 1 .. len - (i + 1) + 1 : t[j] = s[(i + 1) + j - 1]
    <3> DEFINE k == i + 1
    <3>1. k \in 1 .. Len(Q[l]) /\ At(Q[l], k, x) /\ x.link = "next"
      BY <1>4, <2>1
    <3> HIDE DEF k
    <3>2. Remaining(Q[l], k, x, t)
      BY <1>1, <3>1, Rest
    <3> QED
      BY <3>1, <3>2 DEF k, Remaining
  <2> HIDE DEF s, len
  <2>3. Len(r) = Len(t) + 1 /\ Len(t) = len - i
    BY <1>2, <1>3, <1>4, <2>2
  <2>4. ASSUME NEW j \in 1 .. Len(t) PROVE t[j] = r[j + 1]
    <3>1. /\ j \in 1 .. len - (i + 1) + 1 /\ j + 1 \in 1 .. len - i + 1
          /\ (i + 1) + j - 1 = i + j /\ i + (j + 1) - 1 = i + j
      BY <1>2, <2>3
    <3>2. t[j] = s[i + j] /\ r[j + 1] = s[i + j]
      BY <1>3, <1>4, <2>2, <3>1
    <3> QED
      BY <3>2
  <2>5. t = Tail(r)
    BY <1>3, <2>2, <2>3, <2>4, TailIs
  <2> QED
    BY <1>1, <2>1, <2>5 DEF AtNode, Continues, s, len
<1>5. CASE w.link = "prev"
  <2>1. i - 1 \in 1 .. len /\ At(s, i - 1, x)
    BY <1>2, <1>5 DEF Follows, At
  <2>2. /\ t \in Seq(Nodes) /\ Len(t) = i - 1
        /\ \A j \in 1 .. i - 1 : t[j] = s[(i - 1) - j + 1]
    <3> DEFINE k == i - 1
    <3>1. k \in 1 .. Len(Q[l]) /\ At(Q[l], k, x) /\ x.link = "prev"
      BY <1>5, <2>1
    <3> HIDE DEF k
    <3>2. Remaining(Q[l], k, x, t)
      BY <1>1, <3>1, Rest
    <3> QED
      BY <3>1, <3>2 DEF k, Remaining
  <2> HIDE DEF s, len
  <2>3. Len(r) = Len(t) + 1
    BY <1>2, <1>3, <1>5, <2>2
  <2>4. ASSUME NEW j \in 1 .. Len(t) PROVE t[j] = r[j + 1]
    <3>1. /\ j \in 1 .. i - 1 /\ j + 1 \in 1 .. i
          /\ (i - 1) - j + 1 = i - j /\ i - (j + 1) + 1 = i - j
      BY <1>2, <2>2
    <3>2. t[j] = s[i - j] /\ r[j + 1] = s[i - j]
      BY <1>3, <1>5, <2>2, <3>1
    <3> QED
      BY <3>2
  <2>5. t = Tail(r)
    BY <1>3, <2>2, <2>3, <2>4, TailIs
  <2> QED
    BY <1>1, <2>1, <2>5 DEF AtNode, Continues, s, len
<1> QED
  BY <1>4, <1>5 DEF At

(* A traversal goes on although its node has left.                         *)
LEMMA GoesOnWithout ==
  ASSUME NEW h, NEW Q, Holds(h, Q), NEW g, NEW P, Holds(g, P), NEW l \in Lists,
         NEW i \in 1 .. Len(Q[l]), P[l] = RemoveAt(Q[l], i),
         NEW w, At(Q[l], i, w), NEW p, Follows(Q[l], i, w, p),
         NEW x, x.node = p, x.link = w.link,
         w.start = w.node => x.start = p, w.start # w.node => x.start = w.start
  PROVE  Continues(h, w, g, P, x)
<1> DEFINE s == Q[l]
           len == Len(s)
           u == P[l]
<1>1. PICK r, t : /\ r = Chain(h[w.link], w.node, w.start)
                  /\ t = Chain(g[x.link], x.node, x.start)
  OBVIOUS
<1>2. /\ len \in Nat /\ i \in 1 .. len /\ DOMAIN s = 1 .. len /\ s \in Seq(Nodes)
      /\ \A j, k \in 1 .. len : s[j] = s[k] => j = k
  BY LenProperties DEF Holds, IsInjective
<1>3. /\ r \in Seq(Nodes)
      /\ w.link = "next" => /\ Len(r) = len - i + 1
                            /\ \A j \in 1 .. len - i + 1 : r[j] = s[i + j - 1]
      /\ w.link = "prev" => /\ Len(r) = i
                            /\ \A j \in 1 .. i : r[j] = s[i - j + 1]
  <2>1. Remaining(Q[l], i, w, r)
    BY <1>1, Rest
  <2> QED
    BY <2>1 DEF Remaining
<1>4. /\ Len(u) = len - 1
      /\ \A j \in 1 .. len - 1 : j < i => u[j] = s[j]
      /\ \A j \in 1 .. len - 1 : ~(j < i) => u[j] = s[j + 1]
  <2>1. u = RemoveAt(s, i) /\ s \in Seq(Nodes) /\ i \in 1 .. Len(s)
    BY <1>2
  <2> HIDE DEF u, s, len
  <2>2. Len(u) = Len(s) - 1 /\ \A j \in 1 .. Len(s) - 1 : u[j] = IF j < i THEN s[j] ELSE s[j + 1]
    <3>1. /\ Len(RemoveAt(s, i)) = Len(s) - 1
          /\ \A j \in 1 .. Len(s) - 1 : RemoveAt(s, i)[j] = IF j < i THEN s[j] ELSE s[j + 1]
      BY <2>1, RemoveAtProperties
    <3> QED
      BY <2>1, <3>1
  <2> QED
    BY <2>2 DEF len
<1>5. w.node = s[i]
  BY DEF At
<1>6. CASE w.link = "next"
  <2>1. i < len /\ p = s[i + 1] /\ w.start = s[1]
    BY <1>6 DEF Follows
  <2>2. /\ i \in 1 .. len - 1 /\ 1 \in 1 .. len - 1 /\ ~(i < i) /\ 1 \in 1 .. len
        /\ i \in 1 .. len
    BY <1>2, <2>1
  <2>3. u[i] = p
    BY <1>4, <2>1, <2>2
  <2>4. x.start = u[1]
    <3>1. CASE i = 1
      BY <1>5, <2>1, <2>3, <3>1
    <3>2. CASE i # 1
      <4>1. s[1] # s[i] /\ 1 < i
        BY <1>2, <2>2, <3>2
      <4>2. u[1] = s[1]
        BY <1>4, <2>2, <4>1
      <4>3. w.start # w.node
        BY <1>5, <2>1, <4>1
      <4> QED
        BY <2>1, <4>2, <4>3
    <3> QED
      BY <3>1, <3>2
  <2>5. i \in 1 .. Len(u) /\ At(u, i, x) /\ x.link = "next"
    BY <1>4, <1>6, <2>2, <2>3, <2>4 DEF At
  <2>6. /\ t \in Seq(Nodes) /\ Len(t) = (len - 1) - i + 1
        /\ \A j \in 1 .. (len - 1) - i + 1 : t[j] = u[i + j - 1]
    <3>1. Remaining(u, i, x, t)
      BY <1>1, <2>5, Rest
    <3> HIDE DEF u
    <3> QED
      BY <1>4, <2>5, <3>1 DEF Remaining
  <2> HIDE DEF s, u, len
  <2>7. Len(r) = Len(t) + 1 /\ Len(t) = len - i
    BY <1>2, <1>3, <1>6, <2>6
  <2>8. ASSUME NEW j \in 1 .. Len(t) PROVE t[j] = r[j + 1]
    <3>1. /\ j \in 1 .. (len - 1) - i + 1 /\ j + 1 \in 1 .. len - i + 1
          /\ i + j - 1 \in 1 .. len - 1 /\ ~(i + j - 1 < i)
          /\ (i + j - 1) + 1 = i + j /\ i + (j + 1) - 1 = i + j
      BY <1>2, <2>7
    <3>2. t[j] = u[i + j - 1] /\ r[j + 1] = s[i + j]
      BY <1>3, <1>6, <2>6, <3>1
    <3>3. u[i + j - 1] = s[(i + j - 1) + 1]
      BY <1>4, <3>1
    <3> QED
      BY <3>1, <3>2, <3>3
  <2>9. t = Tail(r)
    BY <1>3, <2>6, <2>7, <2>8, TailIs
  <2> QED
    BY <1>1, <2>5, <2>9 DEF AtNode, Continues, u
<1>7. CASE w.link = "prev"
  <2>1. i > 1 /\ p = s[i - 1] /\ w.start = s[len]
    BY <1>7 DEF Follows
  <2>2. /\ i - 1 \in 1 .. len - 1 /\ len - 1 \in 1 .. len - 1 /\ i - 1 < i /\ len \in 1 .. len
        /\ i \in 1 .. len
    BY <1>2, <2>1
  <2>3. u[i - 1] = p
    BY <1>4, <2>1, <2>2
  <2>4. x.start = u[len - 1]
    <3>1. CASE i = len
      <4>1. x.start = p
        BY <1>5, <2>1, <3>1
      <4> QED
        BY <2>3, <3>1, <4>1
    <3>2. CASE i # len
      <4>1. s[len] # s[i] /\ ~(len - 1 < i) /\ (len - 1) + 1 = len
        <5>1. s[len] # s[i]
          BY <1>2, <2>2, <3>2
        <5>2. ~(len - 1 < i) /\ (len - 1) + 1 = len
          BY <1>2, <3>2
        <5> QED
          BY <5>1, <5>2
      <4>2. u[len - 1] = s[len]
        BY <1>4, <2>2, <4>1
      <4>3. w.start # w.node
        BY <1>5, <2>1, <4>1
      <4> QED
        BY <2>1, <4>2, <4>3
    <3> QED
      BY <3>1, <3>2
  <2>5. i - 1 \in 1 .. Len(u) /\ At(u, i - 1, x) /\ x.link = "prev"
    BY <1>4, <1>7, <2>2, <2>3, <2>4 DEF At
  <2>6. /\ t \in Seq(Nodes) /\ Len(t) = i - 1
        /\ \A j \in 1 .. i - 1 : t[j] = u[(i - 1) - j + 1]
    <3> DEFINE k == i - 1
    <3>1. k \in 1 .. Len(P[l]) /\ At(P[l], k, x)
      BY <2>5
    <3> HIDE DEF k
    <3>2. Remaining(u, k, x, t)
      BY <1>1, <3>1, Rest
    <3> HIDE DEF u
    <3> QED
      BY <2>5, <3>2 DEF k, Remaining
  <2> HIDE DEF s, u, len
  <2>7. Len(r) = Len(t) + 1
    BY <1>2, <1>3, <1>7, <2>6
  <2>8. ASSUME NEW j \in 1 .. Len(t) PROVE t[j] = r[j + 1]
    <3>1. /\ j \in 1 .. i - 1 /\ j + 1 \in 1 .. i
          /\ (i - 1) - j + 1 = i - j /\ i - (j + 1) + 1 = i - j
          /\ i - j \in 1 .. len - 1 /\ i - j < i
      BY <1>2, <2>6
    <3>2. t[j] = u[i - j] /\ r[j + 1] = s[i - j]
      BY <1>3, <1>7, <2>6, <3>1
    <3>3. u[i - j] = s[i - j]
      BY <1>4, <3>1
    <3> QED
      BY <3>2, <3>3
  <2>9. t = Tail(r)
    BY <1>3, <2>6, <2>7, <2>8, TailIs
  <2> QED
    BY <1>1, <2>5, <2>9 DEF AtNode, Continues, u
<1> QED
  BY <1>6, <1>7 DEF At

-------------------------------------------------------------------------------
(* The operators on sequences that CF_Queues uses are those of this module. *)

LEMMA SameInsertAt == \A s, i, n : AsQueues!InsertAt(s, i, n) = InsertAt(s, i, n)
BY DEF AsQueues!InsertAt, InsertAt

LEMMA SameToSet == \A s : AsQueues!ToSet(s) = ToSet(s)
BY DEF AsQueues!ToSet, ToSet

LEMMA SameRemoveFirst == \A s, n : AsQueues!RemoveFirst(s, n) = RemoveFirst(s, n)
BY DEF AsQueues!RemoveFirst, RemoveFirst, AsQueues!RemoveAt, RemoveAt,
       AsQueues!SelectInSeq, SelectInSeq, AsQueues!Min, Min

LEMMA SameReverse == \A s : AsQueues!Reverse(s) = Reverse(s)
BY DEF AsQueues!Reverse, Reverse

-------------------------------------------------------------------------------
(* The steps, and those of CF_Queues that they implement. *)

LEMMA HeldNext ==
  ASSUME NEW Q, Holds(heap', Q)
  PROVE  Held' = Q
<1>1. \A l \in Lists : On(heap', l) = Q[l]
  BY OnIs
<1>2. Q = [l \in Lists |-> Q[l]]
  BY DEF Holds
<1>3. Held' = [l \in Lists |-> On(heap', l)]
  BY DEF Held
<1> QED
  BY <1>1, <1>2, <1>3

LEMMA WalkingIs ==
  ASSUME ListsInv
  PROVE  /\ Walking => AtNode(Held, walk)
         /\ ~Walking => walk = NotWalking
<1>1. ASSUME AtNode(Held, walk) PROVE Walking
  <2>1. PICK l \in Lists : \E i \in 1 .. Len(Held[l]) : At(Held[l], i, walk)
    BY <1>1 DEF AtNode
  <2>2. PICK i \in 1 .. Len(Held[l]) : walk.node = Held[l][i]
    BY <2>1 DEF At
  <2>3. Held[l] \in Seq(Nodes)
    BY DEF ListsInv, Holds
  <2>4. walk.node \in Nodes
    BY <2>2, <2>3, LenProperties
  <2> QED
    BY <2>4, ListsAssumption DEF Walking
<1>2. walk = NotWalking => ~Walking
  BY DEF Walking, NotWalking
<1> QED
  BY <1>1, <1>2 DEF ListsInv

LEMMA ToVisitIs ==
  /\ ~Walking => ToVisit = <<>>
  /\ Walking => ToVisit = Chain(heap[walk.link], walk.node, walk.start)
BY DEF ToVisit

LEMMA AtNodeIsType ==
  ASSUME NEW h, NEW Q, Holds(h, Q), NEW w, AtNode(Q, w)
  PROVE  /\ w.node \in Nodes /\ w.start \in Nodes /\ w.link \in {"next", "prev"}
         /\ Chain(h[w.link], w.node, w.start) \in Seq(Nodes)
         /\ Chain(h[w.link], w.node, w.start) # <<>>
         /\ Head(Chain(h[w.link], w.node, w.start)) = w.node
<1>1. PICK l \in Lists : \E i \in 1 .. Len(Q[l]) : At(Q[l], i, w)
  BY DEF AtNode
<1>2. PICK i \in 1 .. Len(Q[l]) : At(Q[l], i, w)
  BY <1>1
<1>3. Q[l] \in Seq(Nodes) /\ Len(Q[l]) \in Nat
  BY LenProperties DEF Holds
<1>4. w.node \in Nodes /\ w.start \in Nodes /\ w.link \in {"next", "prev"} /\ w.node = Q[l][i]
  BY <1>2, <1>3 DEF At
<1>5. PICK r : r = Chain(h[w.link], w.node, w.start)
  OBVIOUS
<1>6. Remaining(Q[l], i, w, r)
  BY <1>2, <1>5, Rest
<1>7. r \in Seq(Nodes) /\ Len(r) # 0 /\ r[1] = w.node
  <2>1. CASE w.link = "next"
    <3>1. 1 \in 1 .. Len(Q[l]) - i + 1 /\ i + 1 - 1 = i /\ Len(Q[l]) - i + 1 # 0
      BY <1>3
    <3>2. r \in Seq(Nodes) /\ Len(r) = Len(Q[l]) - i + 1 /\ r[1] = Q[l][i + 1 - 1]
      BY <1>6, <2>1, <3>1 DEF Remaining
    <3> QED
      BY <1>4, <3>1, <3>2
  <2>2. CASE w.link = "prev"
    <3>1. 1 \in 1 .. i /\ i - 1 + 1 = i /\ i # 0
      BY <1>3
    <3>2. r \in Seq(Nodes) /\ Len(r) = i /\ r[1] = Q[l][i - 1 + 1]
      BY <1>6, <2>2, <3>1 DEF Remaining
    <3> QED
      BY <1>4, <3>1, <3>2
  <2> QED
    BY <1>4, <2>1, <2>2
<1>8. r # <<>> /\ Head(r) = r[1]
  BY <1>7
<1> QED
  BY <1>4, <1>5, <1>7, <1>8

LEMMA InitLists == Init => ListsInv /\ AsQueues!Init
<1> SUFFICES ASSUME Init PROVE ListsInv /\ AsQueues!Init
  OBVIOUS
<1> DEFINE Q == [l \in Lists |-> <<>>]
<1>1. /\ heap.next = [n \in Nodes |-> n] /\ heap.prev = [n \in Nodes |-> n]
      /\ heap.head = [l \in Lists |-> Null] /\ heap.q_size = [q \in Queues |-> 0]
      /\ heap \in Heap
  BY DEF Init, Heap
<1>2. Q \in [Lists -> Seq(Nodes)]
  OBVIOUS
<1>3. ToSet(<<>>) = {}
  BY DEF ToSet
<1>4. IsInjective(<<>>) /\ Ring(heap.next, heap.prev, <<>>)
  BY DEF IsInjective, Ring
<1>5. Holds(heap, Q)
  <2>1. \A l \in Lists : Q[l] = <<>>
    OBVIOUS
  <2> HIDE DEF Q
  <2> QED
    BY <1>1, <1>2, <1>3, <1>4, <2>1 DEF Holds, OnNone
<1>6. Held = Q
  BY <1>5, HeldIs
<1>7. Counted(heap, Q)
  BY <1>1 DEF Counted, Lists
<1>8. walk = NotWalking /\ ~Walking
  BY DEF Init, Walking, NotWalking
<1>9. walk \in WalkType
  BY <1>8 DEF NotWalking, WalkType
<1>10. ListsInv
  BY <1>5, <1>6, <1>7, <1>8, <1>9 DEF ListsInv
<1>11. AsQueues!Init
  <2>1. ToVisit = <<>>
    BY <1>8, ToVisitIs
  <2> QED
    BY <1>6, <2>1 DEF AsQueues!Init, Held
<1> QED
  BY <1>10, <1>11

LEMMA PutStep ==
  ASSUME ListsInv, ~Walking, UNCHANGED walk, NEW l \in Lists, NEW n \in OnNone(Held),
         NEW i \in 1 .. Len(Held[l]) + 1,
         Holds(heap', [Held EXCEPT ![l] = InsertAt(Held[l], i, n)]),
         Counted(heap', [Held EXCEPT ![l] = InsertAt(Held[l], i, n)])
  PROVE  ListsInv' /\ AsQueues!Next
<1>1. Held' = [Held EXCEPT ![l] = InsertAt(Held[l], i, n)]
  BY HeldNext
<1>2. walk' = NotWalking /\ ~Walking' /\ walk' \in WalkType
  <2>1. walk' = NotWalking
    BY WalkingIs
  <2> QED
    BY <2>1 DEF Walking, NotWalking, WalkType
<1>3. ListsInv'
  BY <1>1, <1>2 DEF ListsInv
<1>4. ToVisit = <<>> /\ ToVisit' = <<>>
  BY <1>2, ToVisitIs DEF ToVisit
<1>5. /\ \A k \in Lists : n \notin AsQueues!ToSet(Held[k])
      /\ Held' = [Held EXCEPT ![l] = AsQueues!InsertAt(Held[l], i, n)]
  BY <1>1, SameToSet, SameInsertAt DEF OnNone
<1>6. AsQueues!Put
  <2>1. n \in Nodes
    BY DEF OnNone
  <2> QED
    BY <1>4, <1>5, <2>1 DEF AsQueues!Put, AsQueues!Idle, AsQueues!Free, Held
<1> QED
  BY <1>3, <1>6 DEF AsQueues!Next

LEMMA TakeStep ==
  ASSUME ListsInv, ~Walking, UNCHANGED walk, NEW l \in Lists, NEW i \in 1 .. Len(Held[l]),
         Holds(heap', [Held EXCEPT ![l] = RemoveAt(Held[l], i)]),
         Counted(heap', [Held EXCEPT ![l] = RemoveAt(Held[l], i)])
  PROVE  ListsInv' /\ AsQueues!Next
<1>1. Held' = [Held EXCEPT ![l] = RemoveAt(Held[l], i)]
  BY HeldNext
<1>2. walk' = NotWalking /\ ~Walking' /\ walk' \in WalkType
  <2>1. walk' = NotWalking
    BY WalkingIs
  <2> QED
    BY <2>1 DEF Walking, NotWalking, WalkType
<1>3. ListsInv'
  BY <1>1, <1>2 DEF ListsInv
<1>4. ToVisit = <<>> /\ ToVisit' = <<>>
  BY <1>2, ToVisitIs DEF ToVisit
<1>5. /\ Held[l][i] \in AsQueues!ToSet(Held[l])
      /\ Held' = [Held EXCEPT ![l] = AsQueues!RemoveFirst(Held[l], Held[l][i])]
  <2>1. Held[l] \in Seq(Nodes) /\ IsInjective(Held[l])
    BY DEF ListsInv, Holds
  <2>2. RemoveFirst(Held[l], Held[l][i]) = RemoveAt(Held[l], i) /\ Held[l][i] \in ToSet(Held[l])
    BY <2>1, RemoveFirstAt
  <2> QED
    BY <1>1, <2>2, SameToSet, SameRemoveFirst
<1>6. AsQueues!Take
  BY <1>4, <1>5 DEF AsQueues!Take, AsQueues!Idle, Held
<1> QED
  BY <1>3, <1>6 DEF AsQueues!Next

LEMMA BeginsWith ==
  ASSUME ListsInv, NEW l \in Lists, NEW link \in {"next", "prev"}, Begin(l, link),
         AtNode(Held, walk'), NEW r, r = Chain(heap[walk'.link], walk'.node, walk'.start),
         r \in {Held[l], Reverse(Held[l])}
  PROVE  ListsInv' /\ AsQueues!Next
<1>1. ~Walking /\ heap' = heap /\ Held' = Held
  BY DEF Begin, Held
<1>2. Holds(heap, Held) /\ Counted(heap, Held)
  BY DEF ListsInv
<1>3. walk'.node \in Nodes /\ walk'.start \in Nodes /\ walk'.link \in {"next", "prev"}
  BY <1>2, AtNodeIsType
<1>4. PICK first : walk' = [node |-> first, start |-> first, link |-> link]
  BY DEF Begin
<1>5. walk' \in WalkType
  BY <1>3, <1>4 DEF WalkType
<1>6. ListsInv'
  BY <1>1, <1>2, <1>5 DEF ListsInv
<1>7. Walking'
  BY <1>3, ListsAssumption DEF Walking
<1>8. ToVisit = <<>> /\ ToVisit' = r
  BY <1>1, <1>7 DEF ToVisit
<1>9. ToVisit' \in {Held[l], AsQueues!Reverse(Held[l])}
  BY <1>8, SameReverse
<1>10. AsQueues!Begin
  BY <1>1, <1>8, <1>9 DEF AsQueues!Begin, AsQueues!Idle, Held
<1> QED
  BY <1>6, <1>10 DEF AsQueues!Next

LEMMA BeginStep ==
  ASSUME ListsInv, NEW l \in Lists, NEW link \in {"next", "prev"}, Begin(l, link)
  PROVE  ListsInv' /\ AsQueues!Next
<1> DEFINE s == Held[l]
           len == Len(s)
<1>1. /\ ~Walking /\ heap.head[l] # Null /\ heap' = heap /\ Held' = Held
  BY DEF Begin, Held
<1>2. /\ Holds(heap, Held) /\ s \in Seq(Nodes) /\ s # <<>> /\ len \in Nat \ {0}
      /\ heap.head[l] = s[1] /\ DOMAIN s = 1 .. len /\ 1 \in 1 .. len /\ len \in 1 .. len
      /\ heap.prev[s[1]] = s[len]
  <2>1. Holds(heap, Held)
    BY DEF ListsInv
  <2>2. s \in Seq(Nodes) /\ s # <<>> /\ heap.head[l] = s[1] /\ Ring(heap.next, heap.prev, s)
    BY <1>1, <2>1 DEF Holds
  <2>3. len \in Nat \ {0} /\ DOMAIN s = 1 .. len /\ 1 \in 1 .. len /\ len \in 1 .. len
    BY <2>2, LenProperties
  <2>4. heap.prev[s[1]] = s[len]
    BY <2>2, <2>3 DEF Ring
  <2> QED
    BY <2>1, <2>2, <2>3, <2>4
<1>3. PICK r : r = Chain(heap[walk'.link], walk'.node, walk'.start)
  OBVIOUS
<1>4. CASE link = "next"
  <2>1. walk' = [node |-> s[1], start |-> s[1], link |-> "next"]
    BY <1>2, <1>4 DEF Begin
  <2>2. At(s, 1, walk')
    BY <2>1 DEF At
  <2>3. AtNode(Held, walk')
    BY <1>2, <2>2 DEF AtNode
  <2>4. Remaining(s, 1, walk', r)
    <3> DEFINE k == 1
    <3>1. k \in 1 .. Len(Held[l]) /\ At(Held[l], k, walk')
      BY <1>2, <2>2
    <3> HIDE DEF k
    <3>2. Remaining(Held[l], k, walk', r)
      BY <1>2, <1>3, <3>1, Rest
    <3> QED
      BY <3>2 DEF k
  <2>5. r \in Seq(Nodes) /\ Len(r) = len /\ \A j \in 1 .. len : r[j] = s[j]
    <3>1. walk'.link = "next"
      BY <2>1
    <3>2. r \in Seq(Nodes) /\ Len(r) = len - 1 + 1 /\ \A j \in 1 .. len - 1 + 1 : r[j] = s[1 + j - 1]
      BY <2>4, <3>1 DEF Remaining
    <3> HIDE DEF s
    <3> QED
      BY <1>2, <3>2
  <2>6. r = s
    <3> HIDE DEF s
    <3> QED
      BY <1>2, <2>5, SeqEqual
  <2> QED
    BY <1>1, <1>2, <1>3, <2>3, <2>6, BeginsWith
<1>5. CASE link = "prev"
  <2>1. walk' = [node |-> s[len], start |-> s[len], link |-> "prev"]
    BY <1>2, <1>5 DEF Begin
  <2>2. At(s, len, walk')
    BY <2>1 DEF At
  <2>3. AtNode(Held, walk')
    BY <1>2, <2>2 DEF AtNode
  <2>4. Remaining(s, len, walk', r)
    <3> DEFINE k == len
    <3>1. k \in 1 .. Len(Held[l]) /\ At(Held[l], k, walk')
      BY <1>2, <2>2
    <3> HIDE DEF k
    <3>2. Remaining(Held[l], k, walk', r)
      BY <1>2, <1>3, <3>1, Rest
    <3> QED
      BY <3>2 DEF k
  <2>5. r \in Seq(Nodes) /\ Len(r) = len /\ \A j \in 1 .. len : r[j] = s[(len - j) + 1]
    <3>1. walk'.link = "prev"
      BY <2>1
    <3> HIDE DEF s, len
    <3> QED
      BY <2>4, <3>1 DEF Remaining
  <2>6. r = Reverse(s)
    <3>1. r = [j \in 1 .. len |-> r[j]]
      BY <2>5, LenProperties
    <3>2. [j \in 1 .. len |-> r[j]] = [j \in 1 .. len |-> s[(len - j) + 1]]
      <4> HIDE DEF s, len
      <4> QED
        BY <2>5
    <3>3. Reverse(s) = [j \in 1 .. len |-> s[(len - j) + 1]]
      BY DEF Reverse
    <3> QED
      BY <3>1, <3>2, <3>3
  <2> QED
    BY <1>1, <1>2, <1>3, <2>3, <2>6, BeginsWith
<1> QED
  BY <1>4, <1>5

LEMMA VisitsWith ==
  ASSUME ListsInv, Walking, NEW P, Holds(heap', P), Counted(heap', P), walk' \in WalkType,
         \/ P = Held
         \/ \E from \in Queues : \E to \in Queues \ {from} : \E i \in 1 .. Len(Held[from]) :
              walk.node = Held[from][i] /\ P = Moved(Held, from, to, i),
         \/ walk' = NotWalking
         \/ Continues(heap, walk, heap', P, walk')
  PROVE  ListsInv' /\ AsQueues!Next
<1>1. Held' = P
  BY HeldNext
<1>2. ListsInv'
  BY <1>1 DEF ListsInv, Continues
<1>3. /\ Holds(heap, Held) /\ ToVisit # <<>> /\ Head(ToVisit) = walk.node
      /\ ToVisit = Chain(heap[walk.link], walk.node, walk.start)
  <2>1. Holds(heap, Held) /\ AtNode(Held, walk)
    BY WalkingIs DEF ListsInv
  <2> QED
    BY <2>1, AtNodeIsType, ToVisitIs
<1>4. ToVisit' \in {Tail(ToVisit), <<>>}
  <2>1. CASE walk' = NotWalking
    <3>1. ~Walking'
      BY <2>1 DEF Walking, NotWalking
    <3> QED
      BY <3>1 DEF ToVisit
  <2>2. CASE Continues(heap, walk, heap', P, walk')
    <3>1. walk'.node \in Nodes
      BY <2>2, AtNodeIsType DEF Continues
    <3>2. Walking'
      BY <3>1, ListsAssumption DEF Walking
    <3>3. ToVisit' = Chain(heap'[walk'.link], walk'.node, walk'.start)
      BY <3>2 DEF ToVisit
    <3> QED
      BY <1>3, <2>2, <3>3 DEF Continues
  <2> QED
    BY <2>1, <2>2
<1>5. \/ Held' = Held
      \/ \E k \in Lists : \E m \in Lists \ {k} :
           /\ walk.node \in AsQueues!ToSet(Held[k])
           /\ Held' = [Held EXCEPT ![k] = AsQueues!RemoveFirst(Held[k], walk.node),
                                   ![m] = Append(Held[m], walk.node)]
  <2>1. CASE P = Held
    BY <1>1, <2>1
  <2>2. ASSUME NEW from \in Queues, NEW to \in Queues \ {from}, NEW i \in 1 .. Len(Held[from]),
               walk.node = Held[from][i], P = Moved(Held, from, to, i)
        PROVE  \E k \in Lists : \E m \in Lists \ {k} :
                 /\ walk.node \in AsQueues!ToSet(Held[k])
                 /\ Held' = [Held EXCEPT ![k] = AsQueues!RemoveFirst(Held[k], walk.node),
                                         ![m] = Append(Held[m], walk.node)]
    <3>1. from \in Lists /\ to \in Lists \ {from}
      BY DEF Lists
    <3>2. Held[from] \in Seq(Nodes) /\ IsInjective(Held[from])
      BY <1>3, <3>1 DEF Holds
    <3>3. /\ RemoveFirst(Held[from], Held[from][i]) = RemoveAt(Held[from], i)
          /\ Held[from][i] \in ToSet(Held[from])
      BY <3>2, RemoveFirstAt
    <3>4. /\ walk.node \in AsQueues!ToSet(Held[from])
          /\ AsQueues!RemoveFirst(Held[from], walk.node) = RemoveAt(Held[from], i)
      BY <2>2, <3>3, SameToSet, SameRemoveFirst
    <3>5. Held' = [Held EXCEPT ![from] = AsQueues!RemoveFirst(Held[from], walk.node),
                               ![to] = Append(Held[to], walk.node)]
      BY <1>1, <2>2, <3>4 DEF Moved
    <3> QED
      BY <3>1, <3>4, <3>5
  <2> QED
    BY <2>1, <2>2
<1>6. \/ Held' = Held
      \/ \E k \in Lists : \E m \in Lists \ {k} :
           /\ Head(ToVisit) \in AsQueues!ToSet(Held[k])
           /\ Held' = [Held EXCEPT ![k] = AsQueues!RemoveFirst(Held[k], Head(ToVisit)),
                                   ![m] = Append(Held[m], Head(ToVisit))]
  BY <1>3, <1>5
<1>7. AsQueues!Visit
  <2>1. ~(ToVisit = <<>>)
    BY <1>3
  <2> QED
    BY <1>4, <1>6, <2>1, Zenon DEF AsQueues!Visit, AsQueues!Idle, Held
<1> QED
  BY <1>2, <1>7 DEF AsQueues!Next

LEMMA VisitStep ==
  ASSUME ListsInv, Visit
  PROVE  ListsInv' /\ AsQueues!Next
<1> DEFINE nn == heap[walk.link][walk.node]
<1>1. /\ Walking /\ Holds(heap, Held) /\ Counted(heap, Held) /\ AtNode(Held, walk)
      /\ walk \in WalkType
  BY WalkingIs DEF Visit, ListsInv
<1>2. PICK l \in Lists : \E i \in 1 .. Len(Held[l]) : At(Held[l], i, walk)
  BY <1>1 DEF AtNode
<1>3. PICK i \in 1 .. Len(Held[l]) : At(Held[l], i, walk)
  BY <1>2
<1>4. walk.node = Held[l][i] /\ Held[l] \in Seq(Nodes) /\ walk.node \in ToSet(Held[l])
  <2>1. Held[l] \in Seq(Nodes)
    BY <1>1 DEF Holds
  <2> QED
    BY <1>3, <2>1, LenProperties DEF At, ToSet
<1>5. walk.node \in Nodes /\ walk.start \in Nodes /\ walk.link \in {"next", "prev"}
  BY <1>1, AtNodeIsType
<1>6. nn # walk.start => Follows(Held[l], i, walk, nn)
  BY <1>1, <1>3, FollowsIs
<1>7. nn \in ToSet(Held[l]) /\ nn \in Nodes
  <2>1. heap.next[walk.node] \in ToSet(Held[l]) /\ heap.prev[walk.node] \in ToSet(Held[l])
    BY <1>1, <1>4, LinksStay
  <2>2. nn \in ToSet(Held[l])
    BY <1>5, <2>1
  <2> QED
    BY <1>1, <2>2, OnTheLists
<1>8. PICK goOn \in BOOLEAN :
        \/ Visited(heap, goOn)
        \/ \E from \in Queues : \E to \in Queues \ {from} :
             /\ walk.node \in ToSet(On(heap, from))
             /\ Visited(Move(heap, from, to, walk.node), goOn)
  BY DEF Visit
<1> HIDE DEF nn
<1>9. CASE Visited(heap, goOn)
  <2>1. heap' = heap
    BY <1>9 DEF Visited
  <2>2. CASE walk' = NotWalking
    <3>1. walk' \in WalkType
      BY <2>2 DEF NotWalking, WalkType
    <3> QED
      BY <1>1, <2>1, <2>2, <3>1, VisitsWith
  <2>3. CASE walk' # NotWalking
    <3>1. nn # walk.start /\ walk' = [walk EXCEPT !.node = nn, !.start = NewStart(heap, nn)]
      BY <1>9, <2>3 DEF Visited, nn
    <3>2. NewStart(heap, nn) = walk.start
      BY DEF NewStart, nn
    <3>3. /\ walk'.node = nn /\ walk'.link = walk.link /\ walk'.start = walk.start
          /\ walk' \in WalkType
      BY <1>1, <1>5, <1>7, <3>1, <3>2 DEF WalkType
    <3>4. Continues(heap, walk, heap, Held, walk')
      BY <1>1, <1>3, <1>6, <3>1, <3>3, GoesOn
    <3> QED
      BY <1>1, <2>1, <3>3, <3>4, VisitsWith
  <2> QED
    BY <2>2, <2>3
<1>10. ASSUME NEW from \in Queues, NEW to \in Queues \ {from},
              walk.node \in ToSet(On(heap, from)),
              Visited(Move(heap, from, to, walk.node), goOn)
       PROVE  ListsInv' /\ AsQueues!Next
  <2> DEFINE P == Moved(Held, from, to, i)
  <2>1. from \in Lists /\ to \in Lists /\ from # to /\ Held \in [Lists -> Seq(Nodes)]
    BY <1>1 DEF Lists, Holds
  <2>2. On(heap, from) = Held[from]
    BY <2>1 DEF Held
  <2>3. from = l
    BY <1>1, <1>4, <1>10, <2>1, <2>2 DEF Holds
  <2>4. heap' = Move(heap, from, to, Held[from][i]) /\ i \in 1 .. Len(Held[from])
    BY <1>4, <1>10, <2>3 DEF Visited
  <2>5. Holds(heap', P) /\ Counted(heap', P)
    BY <1>1, <2>4, MoveCounted
  <2>6. P[l] = RemoveAt(Held[l], i) /\ P[to] = Append(Held[to], walk.node)
    BY <1>4, <2>1, <2>3 DEF Moved
  <2>7. walk.node = Held[from][i]
    BY <1>4, <2>3
  <2> HIDE DEF P
  <2>8. CASE walk' = NotWalking
    <3>1. walk' \in WalkType
      BY <2>8 DEF NotWalking, WalkType
    <3> QED
      BY <1>1, <2>4, <2>5, <2>7, <2>8, <3>1, VisitsWith DEF P
  <2>9. CASE walk' # NotWalking
    <3>1. nn # walk.start /\ walk' = [walk EXCEPT !.node = nn, !.start = NewStart(heap', nn)]
      BY <1>10, <2>9 DEF Visited, nn
    <3>2. heap'[walk.link][walk.node] # nn
      <4>1. walk.node \in ToSet(P[to])
        <5>1. Held[to] \in Seq(Nodes) /\ Append(Held[to], walk.node) \in Seq(Nodes)
          BY <1>5, <2>1
        <5>2. /\ Len(Held[to]) + 1 \in DOMAIN Append(Held[to], walk.node)
              /\ Append(Held[to], walk.node)[Len(Held[to]) + 1] = walk.node
          BY <1>5, <5>1
        <5> QED
          BY <2>6, <5>2 DEF ToSet
      <4>2. heap'.next[walk.node] \in ToSet(P[to]) /\ heap'.prev[walk.node] \in ToSet(P[to])
        BY <2>1, <2>5, <4>1, LinksStay
      <4>3. heap'[walk.link][walk.node] \in ToSet(P[to])
        BY <1>5, <4>2
      <4>4. nn \in ToSet(P[l])
        <5>1. nn # walk.node
          <6>1. Follows(Held[l], i, walk, nn) /\ Len(Held[l]) \in Nat
            BY <1>4, <1>6, <3>1, LenProperties
          <6>2. \E k \in 1 .. Len(Held[l]) : k # i /\ nn = Held[l][k]
            <7>1. CASE i < Len(Held[l]) /\ nn = Held[l][i + 1]
              <8>1. i + 1 \in 1 .. Len(Held[l]) /\ i + 1 # i
                BY <6>1, <7>1
              <8> QED
                BY <7>1, <8>1
            <7>2. CASE i > 1 /\ nn = Held[l][i - 1]
              <8>1. i - 1 \in 1 .. Len(Held[l]) /\ i - 1 # i
                BY <6>1, <7>2
              <8> QED
                BY <7>2, <8>1
            <7> QED
              BY <6>1, <7>1, <7>2 DEF Follows
          <6>3. IsInjective(Held[l]) /\ DOMAIN Held[l] = 1 .. Len(Held[l])
            BY <1>1, <1>4, LenProperties DEF Holds
          <6> QED
            BY <1>4, <6>2, <6>3 DEF IsInjective
        <5>2. ToSet(RemoveAt(Held[l], i)) = ToSet(Held[l]) \ {Held[l][i]}
          <6>1. IsInjective(Held[l])
            BY <1>1 DEF Holds
          <6> QED
            BY <1>4, <6>1, RemoveFirstAt
        <5> QED
          BY <1>4, <1>7, <2>6, <5>1, <5>2
      <4>5. ToSet(P[l]) \cap ToSet(P[to]) = {}
        BY <2>1, <2>3, <2>5 DEF Holds
      <4> QED
        BY <4>3, <4>4, <4>5
    <3>3. /\ walk.start = walk.node => NewStart(heap', nn) = nn
          /\ walk.start # walk.node => NewStart(heap', nn) = walk.start
      BY <3>2 DEF NewStart
    <3>4. NewStart(heap', nn) \in Nodes
      BY <1>5, <1>7, <3>3
    <3>5. /\ walk'.node = nn /\ walk'.link = walk.link /\ walk'.start = NewStart(heap', nn)
          /\ walk' \in WalkType
      <4> DEFINE start == NewStart(heap', nn)
      <4>1. start \in Nodes /\ walk' = [walk EXCEPT !.node = nn, !.start = start]
        BY <3>1, <3>4
      <4> HIDE DEF start
      <4>2. /\ walk'.node = nn /\ walk'.link = walk.link /\ walk'.start = start
            /\ walk' \in WalkType
        BY <1>1, <1>5, <1>7, <4>1 DEF WalkType
      <4> QED
        BY <4>2 DEF start
    <3>6. Continues(heap, walk, heap', P, walk')
      <4>1. /\ walk.start = walk.node => walk'.start = nn
            /\ walk.start # walk.node => walk'.start = walk.start
        BY <3>3, <3>5
      <4>2. Follows(Held[l], i, walk, nn)
        BY <1>6, <3>1
      <4> QED
        BY <1>1, <1>3, <2>5, <2>6, <3>5, <4>1, <4>2, GoesOnWithout
    <3> QED
      BY <1>1, <2>4, <2>5, <2>7, <3>5, <3>6, VisitsWith DEF P
  <2> QED
    BY <2>8, <2>9
<1> QED
  BY <1>8, <1>9, <1>10

LEMMA ChunksNotCounted ==
  ASSUME NEW h, NEW Q, Holds(h, Q), Counted(h, Q), NEW l \in ChunkLists, NEW s, NEW g,
         g.q_size = h.q_size
  PROVE  Counted(g, [Q EXCEPT ![l] = s])
<1> DEFINE P == [Q EXCEPT ![l] = s]
<1>1. l \in Lists /\ Q \in [Lists -> Seq(Nodes)]
  BY DEF Lists, Holds
<1>2. \A q \in Queues : q # l /\ q \in Lists
  BY ListsAssumption DEF Lists
<1>3. \A q \in Queues : P[q] = Q[q]
  BY <1>1, <1>2
<1> HIDE DEF P
<1>4. Counted(g, P)
  BY <1>3 DEF Counted
<1> QED
  BY <1>4 DEF P

LEMMA FloatingIs ==
  ASSUME ListsInv
  PROVE  /\ Floating = OnNone(Held)
         /\ \A l \in Lists : /\ On(heap, l) = Held[l]
                             /\ \A n \in ToSet(Held[l]) : \E i \in 1 .. Len(Held[l]) : n = Held[l][i]
<1>1. \A l \in Lists : On(heap, l) = Held[l]
  BY DEF Held
<1>2. Floating = OnNone(Held)
  BY <1>1 DEF Floating, OnNone
<1>3. ASSUME NEW l \in Lists, NEW n \in ToSet(Held[l])
      PROVE  \E i \in 1 .. Len(Held[l]) : n = Held[l][i]
  <2>1. Held[l] \in Seq(Nodes)
    BY DEF ListsInv, Holds
  <2> QED
    BY <2>1, LenProperties DEF ToSet
<1> QED
  BY <1>1, <1>2, <1>3

LEMMA EnqueueStep ==
  ASSUME ListsInv, NEW q \in Queues, NEW n \in Nodes, Enqueue(q, n)
  PROVE  ListsInv' /\ AsQueues!Next
<1> DEFINE i == Len(Held[q]) + 1
<1>1. /\ Holds(heap, Held) /\ Counted(heap, Held) /\ q \in Lists /\ n \in OnNone(Held)
      /\ ~Walking /\ UNCHANGED walk /\ heap' = InsertBack_Ex(heap, q, n)
  BY FloatingIs DEF ListsInv, Lists, Enqueue, Changed
<1>2. /\ Holds(heap', [Held EXCEPT ![q] = InsertAt(Held[q], i, n)])
      /\ Counted(heap', [Held EXCEPT ![q] = InsertAt(Held[q], i, n)])
  BY <1>1, InsertBackCounted
<1>3. i \in 1 .. Len(Held[q]) + 1
  <2>1. Len(Held[q]) \in Nat
    BY <1>1, LenProperties DEF Holds
  <2> QED
    BY <2>1
<1> HIDE DEF i
<1> QED
  BY <1>1, <1>2, <1>3, PutStep

LEMMA EnqueueAfterStep ==
  ASSUME ListsInv, NEW q \in Queues, NEW start \in Nodes, NEW n \in Nodes,
         EnqueueAfter(q, start, n)
  PROVE  ListsInv' /\ AsQueues!Next
<1>1. /\ Holds(heap, Held) /\ Counted(heap, Held) /\ q \in Lists /\ n \in OnNone(Held)
      /\ ~Walking /\ UNCHANGED walk /\ heap' = InsertAfter_Ex(heap, q, start, n)
      /\ start \in ToSet(Held[q])
  BY FloatingIs DEF ListsInv, Lists, EnqueueAfter, Changed
<1>2. PICK j \in 1 .. Len(Held[q]) : start = Held[q][j]
  BY <1>1, FloatingIs
<1> DEFINE i == j + 1
<1>3. /\ Holds(heap', [Held EXCEPT ![q] = InsertAt(Held[q], i, n)])
      /\ Counted(heap', [Held EXCEPT ![q] = InsertAt(Held[q], i, n)])
  BY <1>1, <1>2, InsertAfterCounted
<1>4. i \in 1 .. Len(Held[q]) + 1
  <2>1. Len(Held[q]) \in Nat
    BY <1>1, LenProperties DEF Holds
  <2> QED
    BY <2>1
<1> HIDE DEF i
<1> QED
  BY <1>1, <1>3, <1>4, PutStep

LEMMA DequeueStep ==
  ASSUME ListsInv, NEW q \in Queues, NEW n \in Nodes, Dequeue(q, n)
  PROVE  ListsInv' /\ AsQueues!Next
<1>1. /\ Holds(heap, Held) /\ Counted(heap, Held) /\ q \in Lists
      /\ ~Walking /\ UNCHANGED walk /\ heap' = Remove_Ex(heap, q, n)
      /\ n \in ToSet(Held[q])
  BY FloatingIs DEF ListsInv, Lists, Dequeue, Changed
<1>2. PICK i \in 1 .. Len(Held[q]) : n = Held[q][i]
  BY <1>1, FloatingIs
<1>3. /\ Holds(heap', [Held EXCEPT ![q] = RemoveAt(Held[q], i)])
      /\ Counted(heap', [Held EXCEPT ![q] = RemoveAt(Held[q], i)])
  BY <1>1, <1>2, TakeCounted
<1> QED
  BY <1>1, <1>3, TakeStep

(* When nothing changes. *)
LEMMA SameStep ==
  ASSUME ListsInv, UNCHANGED vars
  PROVE  ListsInv' /\ UNCHANGED AsQueues!vars
<1>1. heap' = heap /\ walk' = walk
  BY DEF vars
<1>2. Held' = Held /\ ToVisit' = ToVisit
  BY <1>1 DEF Held, ToVisit, Walking
<1>3. ListsInv'
  BY <1>1, <1>2 DEF ListsInv
<1> QED
  BY <1>2, <1>3 DEF AsQueues!vars, Held

LEMMA TakeChunkListStep ==
  ASSUME ListsInv, NEW l \in ChunkLists, TakeChunkList(l)
  PROVE  ListsInv' /\ (AsQueues!Next \/ UNCHANGED AsQueues!vars)
<1>1. /\ Holds(heap, Held) /\ Counted(heap, Held) /\ l \in Lists
      /\ ~Walking /\ UNCHANGED walk /\ heap' = Pop(heap, l)
  BY DEF ListsInv, Lists, TakeChunkList, Changed
<1>2. CASE heap.head[l] = Null
  <2>1. heap' = heap
    BY <1>1, <1>2 DEF Pop
  <2> QED
    BY <1>1, <2>1, SameStep DEF vars
<1>3. CASE heap.head[l] # Null
  <2>1. heap.head[l] = Held[l][1] /\ 1 \in 1 .. Len(Held[l])
    <3>1. Held[l] \in Seq(Nodes) /\ Held[l] # <<>> /\ heap.head[l] = Held[l][1]
      BY <1>1, <1>3 DEF Holds
    <3> QED
      BY <3>1, LenProperties
  <2> DEFINE i == 1
  <2>2. heap' = RemoveNode(heap, l, Held[l][i]) /\ i \in 1 .. Len(Held[l])
    BY <1>1, <1>3, <2>1 DEF Pop
  <2> HIDE DEF i
  <2>3. Holds(heap', [Held EXCEPT ![l] = RemoveAt(Held[l], i)]) /\ heap'.q_size = heap.q_size
    <3>1. PICK r : r = heap'
      OBVIOUS
    <3>2. r = RemoveNode(heap, l, Held[l][i])
      BY <2>2, <3>1
    <3>3. Removed(heap, Held, l, i, r)
      BY <1>1, <2>2, <3>2, RemoveNodeHolds
    <3> QED
      BY <3>1, <3>3 DEF Removed
  <2>4. Counted(heap', [Held EXCEPT ![l] = RemoveAt(Held[l], i)])
    BY <1>1, <2>3, ChunksNotCounted
  <2> QED
    BY <1>1, <2>2, <2>3, <2>4, TakeStep
<1> QED
  BY <1>2, <1>3

LEMMA ReturnChunkListStep ==
  ASSUME ListsInv, NEW l \in ChunkLists, NEW n \in Nodes, ReturnChunkList(l, n)
  PROVE  ListsInv' /\ AsQueues!Next
<1>1. /\ Holds(heap, Held) /\ Counted(heap, Held) /\ l \in Lists /\ n \in OnNone(Held)
      /\ ~Walking /\ UNCHANGED walk
      /\ heap' = InsertBack(heap, l, n) \/ heap' = InsertFront(heap, l, n)
  BY FloatingIs DEF ListsInv, Lists, ReturnChunkList, Changed
<1>2. Len(Held[l]) \in Nat
  BY <1>1, LenProperties DEF Holds
<1>3. CASE heap' = InsertBack(heap, l, n)
  <2> DEFINE i == Len(Held[l]) + 1
  <2>1. Holds(heap', [Held EXCEPT ![l] = InsertAt(Held[l], i, n)]) /\ heap'.q_size = heap.q_size
    BY <1>1, <1>3, InsertBackHolds
  <2>2. Counted(heap', [Held EXCEPT ![l] = InsertAt(Held[l], i, n)])
    BY <1>1, <2>1, ChunksNotCounted
  <2>3. i \in 1 .. Len(Held[l]) + 1
    BY <1>2
  <2> HIDE DEF i
  <2> QED
    BY <1>1, <2>1, <2>2, <2>3, PutStep
<1>4. CASE heap' = InsertFront(heap, l, n)
  <2> DEFINE i == 1
  <2>1. Holds(heap', [Held EXCEPT ![l] = InsertAt(Held[l], i, n)]) /\ heap'.q_size = heap.q_size
    BY <1>1, <1>4, InsertFrontHolds
  <2>2. Counted(heap', [Held EXCEPT ![l] = InsertAt(Held[l], i, n)])
    BY <1>1, <2>1, ChunksNotCounted
  <2>3. i \in 1 .. Len(Held[l]) + 1
    BY <1>2
  <2> HIDE DEF i
  <2> QED
    BY <1>1, <2>1, <2>2, <2>3, PutStep
<1> QED
  BY <1>1, <1>3, <1>4

LEMMA NextLists ==
  ASSUME ListsInv, [Next]_vars
  PROVE  ListsInv' /\ [AsQueues!Next]_(AsQueues!vars)
<1>1. ASSUME NEW q \in Queues, NEW n \in Nodes, Enqueue(q, n)
      PROVE  ListsInv' /\ AsQueues!Next
  BY <1>1, EnqueueStep
<1>2. ASSUME NEW q \in Queues, NEW n \in Nodes, Dequeue(q, n)
      PROVE  ListsInv' /\ AsQueues!Next
  BY <1>2, DequeueStep
<1>3. ASSUME NEW q \in Queues, NEW start \in Nodes, NEW n \in Nodes, EnqueueAfter(q, start, n)
      PROVE  ListsInv' /\ AsQueues!Next
  BY <1>3, EnqueueAfterStep
<1>4. ASSUME NEW l \in ChunkLists, TakeChunkList(l)
      PROVE  ListsInv' /\ (AsQueues!Next \/ UNCHANGED AsQueues!vars)
  BY <1>4, TakeChunkListStep
<1>5. ASSUME NEW l \in ChunkLists, NEW n \in Nodes, ReturnChunkList(l, n)
      PROVE  ListsInv' /\ AsQueues!Next
  BY <1>5, ReturnChunkListStep
<1>6. ASSUME NEW l \in Lists, NEW link \in {"next", "prev"}, Begin(l, link)
      PROVE  ListsInv' /\ AsQueues!Next
  BY <1>6, BeginStep
<1>7. CASE Visit
  BY <1>7, VisitStep
<1>8. CASE UNCHANGED vars
  BY <1>8, SameStep
<1> QED
  BY <1>1, <1>2, <1>3, <1>4, <1>5, <1>6, <1>7, <1>8, Zenon DEF Next

-------------------------------------------------------------------------------

(***************************************************************************)
(* The pointers of cf_clist.c hold one sequence of nodes for each list,    *)
(* q_size is the length of a queue's, and a traversal is at a node of one. *)
(***************************************************************************)
THEOREM ListsInvariant == Spec => []ListsInv
<1>1. Init => ListsInv
  BY InitLists
<1>2. ListsInv /\ [Next]_vars => ListsInv'
  BY NextLists
<1> QED
  BY <1>1, <1>2, PTL DEF Spec

(***************************************************************************)
(* After any calls of cf_clist.c, prev undoes next, a node is on one list  *)
(* at most and points to itself when it is on none, and q_size is the      *)
(* length of the queue.                                                    *)
(***************************************************************************)
THEOREM RingsStay == Spec => []ListsAreRings
<1>1. ListsInv => ListsAreRings
  <2> SUFFICES ASSUME ListsInv PROVE ListsAreRings
    OBVIOUS
  <2>1. Holds(heap, Held) /\ Counted(heap, Held) /\ Floating = OnNone(Held)
    BY FloatingIs DEF ListsInv
  <2>2. \A l \in Lists : On(heap, l) = Held[l]
    BY DEF Held
  <2>3. ASSUME NEW n \in Nodes
        PROVE  heap.prev[heap.next[n]] = n /\ heap.next[heap.prev[n]] = n
    <3>1. CASE n \in OnNone(Held)
      BY <2>1, <3>1 DEF Holds
    <3>2. CASE n \notin OnNone(Held)
      <4>1. PICK l \in Lists : n \in ToSet(Held[l])
        BY <3>2 DEF OnNone
      <4>2. PICK i \in 1 .. Len(Held[l]) : n = Held[l][i]
        BY <4>1, FloatingIs
      <4> DEFINE s == Held[l]
                 len == Len(s)
      <4>3. len \in Nat /\ i \in 1 .. len
        BY <2>1, LenProperties DEF Holds
      <4>4. \A j \in 1 .. len : /\ j < len => heap.next[s[j]] = s[j + 1]
                                /\ j = len => heap.next[s[j]] = s[1]
                                /\ j > 1 => heap.prev[s[j]] = s[j - 1]
                                /\ j = 1 => heap.prev[s[j]] = s[len]
        BY <2>1 DEF Holds, Ring
      <4>5. n = s[i]
        BY <4>2
      <4> HIDE DEF s, len
      <4>6. heap.prev[heap.next[s[i]]] = s[i]
        <5>1. CASE i < len
          <6>1. i + 1 \in 1 .. len /\ i + 1 > 1 /\ (i + 1) - 1 = i
            BY <4>3, <5>1
          <6>2. heap.next[s[i]] = s[i + 1] /\ heap.prev[s[i + 1]] = s[(i + 1) - 1]
            BY <4>3, <4>4, <5>1, <6>1
          <6> QED
            BY <6>1, <6>2
        <5>2. CASE i = len
          <6>1. 1 \in 1 .. len
            BY <4>3
          <6> QED
            BY <4>3, <4>4, <5>2, <6>1
        <5> QED
          BY <4>3, <5>1, <5>2
      <4>7. heap.next[heap.prev[s[i]]] = s[i]
        <5>1. CASE i > 1
          <6>1. i - 1 \in 1 .. len /\ i - 1 < len /\ (i - 1) + 1 = i
            BY <4>3, <5>1
          <6>2. heap.prev[s[i]] = s[i - 1] /\ heap.next[s[i - 1]] = s[(i - 1) + 1]
            BY <4>3, <4>4, <5>1, <6>1
          <6> QED
            BY <6>1, <6>2
        <5>2. CASE i = 1
          <6>1. len \in 1 .. len
            BY <4>3
          <6> QED
            BY <4>3, <4>4, <5>2, <6>1
        <5> QED
          BY <4>3, <5>1, <5>2
      <4> QED
        BY <4>5, <4>6, <4>7
    <3> QED
      BY <3>1, <3>2
  <2>4. \A n \in Floating : heap.next[n] = n
    BY <2>1 DEF Holds
  <2>5. \A l \in Lists : \A m \in Lists \ {l} :
          ToSet(On(heap, l)) \cap ToSet(On(heap, m)) = {}
    BY <2>1, <2>2 DEF Holds
  <2>6. \A q \in Queues : heap.q_size[q] = Len(On(heap, q))
    BY <2>1, <2>2 DEF Counted, Lists
  <2> QED
    BY <2>3, <2>4, <2>5, <2>6 DEF ListsAreRings
<1> QED
  BY <1>1, ListsInvariant, PTL

(***************************************************************************)
(* The lists of cf_clist.c implement the sequences of CF_Queues: a node    *)
(* goes where the caller put it, and a traversal comes to every node of    *)
(* its list once, in order, although its callback moves the node that it   *)
(* is given to another list.                                               *)
(***************************************************************************)
THEOREM ListsImplementQueues == Spec => ImplementsQueues
<1>1. Init => AsQueues!Init
  BY InitLists
<1>2. ListsInv /\ [Next]_vars => [AsQueues!Next]_(AsQueues!vars)
  BY NextLists
<1> QED
  BY <1>1, <1>2, ListsInvariant, PTL DEF ImplementsQueues, AsQueues!Spec, Spec
================================================================================
