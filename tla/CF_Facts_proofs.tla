---------------------------- MODULE CF_Facts_proofs ----------------------------
(***************************************************************************)
(* Facts about numbers and sequences that the theorems about CF's queues,  *)
(* pools and tables rest on.                                               *)
(***************************************************************************)
EXTENDS Integers, Sequences, FiniteSets, SequencesExt, FiniteSetsExt,
        FiniteSetTheorems, SequenceTheorems, TLAPS

(* A set of natural numbers has a least member.                            *)
LEMMA LeastNumber ==
  ASSUME NEW T, T \subseteq Nat, T # {}
  PROVE  \E x \in T : \A y \in T : x <= y
<1> DEFINE R == {ss \in Nat \X Nat : ss[1] < ss[2]}
<1>1. IsWellFoundedOn(R, Nat)
  BY NatLessThanWellFounded DEF OpToRel
<1>2. \E x \in T : \A y \in T : ~ (<<y, x>> \in R)
  BY <1>1, WFMin
<1>3. PICK x \in T : \A y \in T : ~ (<<y, x>> \in R)
  BY <1>2
<1>4. ASSUME NEW y \in T PROVE x <= y
  <2>1. ~ (<<y, x>> \in R)
    BY <1>3
  <2>2. y \in Nat /\ x \in Nat
    OBVIOUS
  <2>3. <<y, x>>[1] = y /\ <<y, x>>[2] = x /\ <<y, x>> \in Nat \X Nat
    BY <2>2
  <2>4. ~ (y < x)
    BY <2>1, <2>3
  <2> QED
    BY <2>2, <2>4
<1>5. QED
  BY <1>4

(* Induction over the natural numbers, for a set instead of a predicate.   *)
LEMMA Induction ==
  ASSUME NEW G, 0 \in G, \A n \in Nat : n \in G => n + 1 \in G
  PROVE  Nat \subseteq G
<1> SUFFICES ASSUME ~(Nat \subseteq G) PROVE FALSE
  OBVIOUS
<1>1. PICK x \in Nat \ G : \A y \in Nat \ G : x <= y
  BY LeastNumber
<1>2. x # 0 /\ x - 1 \in Nat
  BY <1>1
<1>3. x - 1 \in G
  BY <1>1, <1>2
<1>4. QED
  BY <1>1, <1>2, <1>3

LEMMA MinProperties ==
  ASSUME NEW T, T \subseteq Nat, T # {}
  PROVE  Min(T) \in T /\ \A y \in T : Min(T) <= y
BY LeastNumber DEF Min

LEMMA MaxProperties ==
  ASSUME NEW n \in Nat, NEW T, T \subseteq 0 .. n, T # {}
  PROVE  Max(T) \in T /\ \A y \in T : y <= Max(T)
<1> DEFINE U == {n - y : y \in T}
<1>1. U \subseteq Nat /\ U # {}
  <2>1. \A y \in T : n - y \in Nat
    OBVIOUS
  <2>2. PICK y \in T : TRUE
    OBVIOUS
  <2> QED
    BY <2>1, <2>2
<1> HIDE DEF U
<1>2. PICK x \in U : \A y \in U : x <= y
  BY <1>1, LeastNumber
<1> USE DEF U
<1>3. PICK z \in T : x = n - z
  OBVIOUS
<1>4. \A y \in T : y <= z
  <2> SUFFICES ASSUME NEW y \in T PROVE y <= z
    OBVIOUS
  <2>1. n - y \in U
    OBVIOUS
  <2> QED
    BY <1>2, <1>3, <2>1
<1> QED
  BY <1>4 DEF Max

-------------------------------------------------------------------------------
(* Sequences. *)

LEMMA InsertAtProperties ==
  ASSUME NEW S, NEW s \in Seq(S), NEW i \in 1 .. Len(s) + 1, NEW e \in S
  PROVE  /\ InsertAt(s, i, e) \in Seq(S)
         /\ Len(InsertAt(s, i, e)) = Len(s) + 1
         /\ \A j \in 1 .. Len(s) + 1 :
              /\ j < i => InsertAt(s, i, e)[j] = s[j]
              /\ j = i => InsertAt(s, i, e)[j] = e
              /\ j > i => InsertAt(s, i, e)[j] = s[j - 1]
<1> DEFINE a == SubSeq(s, 1, i - 1)
           b == SubSeq(s, i, Len(s))
<1>1. a \in Seq(S) /\ Len(a) = i - 1 /\ \A j \in 1 .. i - 1 : a[j] = s[j]
  OBVIOUS
<1>2. /\ b \in Seq(S) /\ Len(b) = Len(s) - i + 1
      /\ \A j \in 1 .. Len(s) - i + 1 : b[j] = s[i + j - 1]
  OBVIOUS
<1> HIDE DEF a, b
<1>3. InsertAt(s, i, e) = a \o <<e>> \o b
  BY DEF InsertAt, a, b
<1> DEFINE c == a \o <<e>>
<1>4. /\ c \in Seq(S) /\ Len(c) = i
      /\ \A j \in 1 .. i : c[j] = IF j < i THEN s[j] ELSE e
  BY <1>1
<1> HIDE DEF c
<1>5. InsertAt(s, i, e) = c \o b
  BY <1>3 DEF c
<1>6. Len(s) \in Nat
  OBVIOUS
<1>7. c \o b \in Seq(S) /\ Len(c \o b) = Len(c) + Len(b)
  BY <1>2, <1>4, ConcatProperties, Zenon
<1>8. c \o b \in Seq(S) /\ Len(c \o b) = Len(s) + 1
  BY <1>2, <1>4, <1>6, <1>7
<1>9. \A j \in 1 .. Len(c) + Len(b) :
        (c \o b)[j] = IF j <= Len(c) THEN c[j] ELSE b[j - Len(c)]
  BY <1>2, <1>4, ConcatProperties, Zenon
<1>10. \A j \in 1 .. Len(s) + 1 : (c \o b)[j] = IF j <= i THEN c[j] ELSE b[j - i]
  <2>1. Len(c) + Len(b) = Len(s) + 1
    BY <1>2, <1>4, <1>6
  <2> QED
    BY <1>4, <1>9, <2>1
<1>11. ASSUME NEW j \in 1 .. Len(s) + 1
      PROVE  /\ j < i => (c \o b)[j] = s[j]
             /\ j = i => (c \o b)[j] = e
             /\ j > i => (c \o b)[j] = s[j - 1]
  <2>1. j > i => b[j - i] = s[j - 1]
    <3> SUFFICES ASSUME j > i PROVE b[j - i] = s[j - 1]
      OBVIOUS
    <3>1. j - i \in 1 .. Len(s) - i + 1 /\ i + (j - i) - 1 = j - 1
      OBVIOUS
    <3> QED
      BY <1>2, <3>1
  <2>2. j <= i => c[j] = IF j < i THEN s[j] ELSE e
    BY <1>4
  <2>3. (c \o b)[j] = IF j <= i THEN c[j] ELSE b[j - i]
    BY <1>10
  <2> QED
    BY <2>1, <2>2, <2>3
<1> QED
  BY <1>5, <1>8, <1>11

LEMMA RemoveAtProperties ==
  ASSUME NEW S, NEW s \in Seq(S), NEW i \in 1 .. Len(s)
  PROVE  /\ RemoveAt(s, i) \in Seq(S)
         /\ Len(RemoveAt(s, i)) = Len(s) - 1
         /\ \A j \in 1 .. Len(s) - 1 :
              RemoveAt(s, i)[j] = IF j < i THEN s[j] ELSE s[j + 1]
<1> DEFINE a == SubSeq(s, 1, i - 1)
           b == SubSeq(s, i + 1, Len(s))
<1>1. a \in Seq(S) /\ Len(a) = i - 1 /\ \A j \in 1 .. i - 1 : a[j] = s[j]
  OBVIOUS
<1>2. /\ b \in Seq(S) /\ Len(b) = Len(s) - i
      /\ \A j \in 1 .. Len(s) - i : b[j] = s[i + j]
  OBVIOUS
<1>3. RemoveAt(s, i) = a \o b
  BY DEF RemoveAt
<1> HIDE DEF a, b
<1>4. Len(s) \in Nat
  OBVIOUS
<1>5. a \o b \in Seq(S) /\ Len(a \o b) = Len(a) + Len(b)
  BY <1>1, <1>2, ConcatProperties, Zenon
<1>6. a \o b \in Seq(S) /\ Len(a \o b) = Len(s) - 1
  BY <1>1, <1>2, <1>4, <1>5
<1>7. \A j \in 1 .. Len(a) + Len(b) :
        (a \o b)[j] = IF j <= Len(a) THEN a[j] ELSE b[j - Len(a)]
  BY <1>1, <1>2, ConcatProperties, Zenon
<1>8. \A j \in 1 .. Len(s) - 1 : (a \o b)[j] = IF j < i THEN a[j] ELSE b[j - i + 1]
  <2>1. Len(a) + Len(b) = Len(s) - 1
    BY <1>1, <1>2, <1>4
  <2>2. \A j \in 1 .. Len(s) - 1 : (j <= i - 1 <=> j < i) /\ j - (i - 1) = j - i + 1
    BY <1>4
  <2> QED
    BY <1>1, <1>7, <2>1, <2>2
<1>9. ASSUME NEW j \in 1 .. Len(s) - 1
      PROVE  (a \o b)[j] = IF j < i THEN s[j] ELSE s[j + 1]
  <2>1. j >= i => b[j - i + 1] = s[j + 1]
    <3> SUFFICES ASSUME j >= i PROVE b[j - i + 1] = s[j + 1]
      OBVIOUS
    <3>1. j - i + 1 \in 1 .. Len(s) - i /\ i + (j - i + 1) = j + 1
      OBVIOUS
    <3> QED
      BY <1>2, <3>1
  <2>2. j < i => a[j] = s[j]
    BY <1>1
  <2>3. (a \o b)[j] = IF j < i THEN a[j] ELSE b[j - i + 1]
    BY <1>8
  <2> QED
    BY <2>1, <2>2, <2>3
<1> QED
  BY <1>3, <1>6, <1>9

(* u stands before t wherever the two stand in s.                          *)
Precedes(s, u, t) == \A i, j \in DOMAIN s : s[i] = u /\ s[j] = t => i < j

LEMMA InsertAtSet ==
  ASSUME NEW S, NEW s \in Seq(S), NEW i \in 1 .. Len(s) + 1, NEW e \in S,
         IsInjective(s), e \notin ToSet(s)
  PROVE  LET r == InsertAt(s, i, e)
         IN  /\ r \in Seq(S) /\ Len(r) = Len(s) + 1
             /\ ToSet(r) = ToSet(s) \cup {e}
             /\ IsInjective(r)
             /\ \A u, t \in ToSet(s) : Precedes(s, u, t) => Precedes(r, u, t)
             /\ \A j \in 1 .. i - 1 : Precedes(r, s[j], e)
<1> DEFINE r == InsertAt(s, i, e)
           n == Len(s)
<1>1. n \in Nat
  BY LenProperties
<1> HIDE DEF r, n
<1>2. /\ InsertAt(s, i, e) \in Seq(S)
      /\ Len(InsertAt(s, i, e)) = Len(s) + 1
      /\ \A j \in 1 .. Len(s) + 1 :
           /\ j < i => InsertAt(s, i, e)[j] = s[j]
           /\ j = i => InsertAt(s, i, e)[j] = e
           /\ j > i => InsertAt(s, i, e)[j] = s[j - 1]
  <2>1. InsertAt(s, i, e) \in Seq(S) /\ Len(InsertAt(s, i, e)) = Len(s) + 1
    BY InsertAtProperties
  <2>2. ASSUME NEW j \in 1 .. Len(s) + 1
        PROVE  /\ j < i => InsertAt(s, i, e)[j] = s[j]
               /\ j = i => InsertAt(s, i, e)[j] = e
               /\ j > i => InsertAt(s, i, e)[j] = s[j - 1]
    BY InsertAtProperties
  <2> QED
    BY <2>1, <2>2, Zenon
<1>3. /\ r \in Seq(S) /\ Len(r) = n + 1 /\ n \in Nat
      /\ \A j \in 1 .. n + 1 : /\ j < i => r[j] = s[j]
                               /\ j = i => r[j] = e
                               /\ j > i => r[j] = s[j - 1]
  BY <1>1, <1>2, Zenon DEF r, n
<1>4. DOMAIN r = 1 .. n + 1 /\ DOMAIN s = 1 .. n /\ i \in 1 .. n + 1
  BY <1>3, LenProperties DEF n
<1>5. \A j \in 1 .. n : s[j] # e
  BY <1>4 DEF ToSet
<1>6. \A j, k \in 1 .. n : s[j] = s[k] => j = k
  BY <1>4 DEF IsInjective
<1>7. ToSet(r) = ToSet(s) \cup {e}
  <2>1. ASSUME NEW j \in 1 .. n + 1 PROVE r[j] \in ToSet(s) \cup {e}
    <3>1. (j < i => j \in 1 .. n) /\ (j > i => j - 1 \in 1 .. n)
      BY <1>3, <1>4
    <3>2. (j < i => s[j] \in ToSet(s)) /\ (j > i => s[j - 1] \in ToSet(s))
      BY <1>4, <3>1 DEF ToSet
    <3> QED
      BY <1>3, <1>4, <3>2
  <2>2. ASSUME NEW j \in 1 .. n PROVE s[j] \in ToSet(r)
    <3>1. CASE j < i
      <4>1. j \in 1 .. n + 1 /\ r[j] = s[j]
        BY <1>3, <1>4, <3>1
      <4> QED
        BY <1>4, <4>1 DEF ToSet
    <3>2. CASE ~(j < i)
      <4>1. j + 1 \in 1 .. n + 1 /\ r[j + 1] = s[j]
        BY <1>3, <1>4, <3>2
      <4> QED
        BY <1>4, <4>1 DEF ToSet
    <3> QED
      BY <3>1, <3>2
  <2>3. e \in ToSet(r)
    BY <1>3, <1>4 DEF ToSet
  <2>4. ToSet(r) \subseteq ToSet(s) \cup {e}
    BY <1>4, <2>1 DEF ToSet
  <2>5. ToSet(s) \subseteq ToSet(r)
    BY <1>4, <2>2 DEF ToSet
  <2> QED
    BY <2>3, <2>4, <2>5
<1>8. ASSUME NEW j \in 1 .. n + 1
      PROVE  /\ j < i => j \in 1 .. n /\ r[j] = s[j]
             /\ j = i => r[j] = e
             /\ j > i => j - 1 \in 1 .. n /\ r[j] = s[j - 1]
  BY <1>3, <1>4
<1>9. IsInjective(r)
  <2> SUFFICES ASSUME NEW j \in 1 .. n + 1, NEW k \in 1 .. n + 1, r[j] = r[k] PROVE j = k
    BY <1>4 DEF IsInjective
  <2>1. j < i \/ j = i \/ j > i
    BY <1>3, <1>4
  <2>2. k < i \/ k = i \/ k > i
    BY <1>3, <1>4
  <2> QED
    BY <1>3, <1>4, <1>5, <1>6, <1>8, <2>1, <2>2
<1>10. ASSUME NEW u \in ToSet(s), NEW t \in ToSet(s), Precedes(s, u, t)
      PROVE  Precedes(r, u, t)
  <2> SUFFICES ASSUME NEW j \in 1 .. n + 1, NEW k \in 1 .. n + 1, r[j] = u, r[k] = t
               PROVE  j < k
    BY <1>4 DEF Precedes
  <2>1. u # e /\ t # e
    OBVIOUS
  <2>2. \A a, b \in 1 .. n : s[a] = u /\ s[b] = t => a < b
    BY <1>4, <1>10 DEF Precedes
  <2>3. (j < i \/ j > i) /\ (k < i \/ k > i)
    BY <1>3, <1>4, <1>8, <2>1
  <2> QED
    BY <1>3, <1>4, <1>8, <2>2, <2>3
<1>11. ASSUME NEW j \in 1 .. i - 1 PROVE Precedes(r, s[j], e)
  <2> SUFFICES ASSUME NEW a \in 1 .. n + 1, NEW b \in 1 .. n + 1, r[a] = s[j], r[b] = e
               PROVE  a < b
    BY <1>4 DEF Precedes
  <2>1. j \in 1 .. n + 1 /\ j < i /\ r[j] = s[j] /\ r[i] = e
    BY <1>3, <1>4, <1>8
  <2>2. a = j /\ b = i
    BY <1>4, <1>9, <2>1 DEF IsInjective
  <2> QED
    BY <2>1, <2>2
<1> QED
  BY <1>3, <1>7, <1>9, <1>10, <1>11 DEF r, n

LEMMA AppendSet ==
  ASSUME NEW S, NEW s \in Seq(S), NEW e \in S, IsInjective(s), e \notin ToSet(s)
  PROVE  /\ Append(s, e) \in Seq(S)
         /\ ToSet(Append(s, e)) = ToSet(s) \cup {e}
         /\ IsInjective(Append(s, e))
         /\ \A u, t \in ToSet(s) : Precedes(s, u, t) => Precedes(Append(s, e), u, t)
<1> DEFINE r == Append(s, e)
           n == Len(s)
<1>1. n \in Nat /\ DOMAIN s = 1 .. n
  BY LenProperties
<1>2. r \in Seq(S) /\ DOMAIN r = 1 .. n + 1
  BY <1>1
<1>3. (\A j \in 1 .. n : r[j] = s[j]) /\ r[n + 1] = e
  BY <1>1
<1> HIDE DEF r, n
<1>4. ToSet(r) = ToSet(s) \cup {e}
  <2>1. \A j \in 1 .. n + 1 : j \in 1 .. n \/ j = n + 1
    BY <1>1
  <2>2. \A j \in 1 .. n : j \in 1 .. n + 1
    BY <1>1
  <2>3. n + 1 \in 1 .. n + 1
    BY <1>1
  <2> QED
    BY <1>1, <1>2, <1>3, <2>1, <2>2, <2>3 DEF ToSet
<1>5. IsInjective(r)
  <2>1. \A j, k \in 1 .. n : s[j] = s[k] => j = k
    BY <1>1 DEF IsInjective
  <2>2. \A j \in 1 .. n : s[j] # e
    BY <1>1 DEF ToSet
  <2> QED
    BY <1>1, <1>2, <1>3, <2>1, <2>2 DEF IsInjective
<1>6. ASSUME NEW u \in ToSet(s), NEW t \in ToSet(s), Precedes(s, u, t)
      PROVE  Precedes(r, u, t)
  <2>1. \A j \in 1 .. n + 1 : r[j] # e => j \in 1 .. n /\ r[j] = s[j]
    BY <1>1, <1>3
  <2> QED
    BY <1>1, <1>2, <1>6, <2>1 DEF Precedes
<1> QED
  BY <1>2, <1>4, <1>5, <1>6 DEF r

LEMMA RemoveFirstSet ==
  ASSUME NEW S, NEW s \in Seq(S), NEW e, IsInjective(s)
  PROVE  LET r == RemoveFirst(s, e)
         IN  /\ r \in Seq(S)
             /\ Len(r) = IF e \in ToSet(s) THEN Len(s) - 1 ELSE Len(s)
             /\ ToSet(r) = ToSet(s) \ {e}
             /\ IsInjective(r)
             /\ \A u, t \in ToSet(r) : Precedes(s, u, t) => Precedes(r, u, t)
<1> DEFINE n == Len(s)
           i == SelectInSeq(s, LAMBDA v : v = e)
           r == RemoveAt(s, i)
<1>1. n \in Nat /\ DOMAIN s = 1 .. n
  BY LenProperties
<1>2. CASE e \notin ToSet(s)
  <2>1. RemoveFirst(s, e) = s
    BY <1>1, <1>2 DEF RemoveFirst, ToSet
  <2> QED
    BY <1>2, <2>1
<1>3. CASE e \in ToSet(s)
  <2>1. RemoveFirst(s, e) = r
    BY <1>1, <1>3 DEF RemoveFirst, ToSet
  <2>2. i \in 1 .. n /\ s[i] = e
    <3> DEFINE I == {j \in 1 .. n : s[j] = e}
    <3>1. i = Min(I) /\ I # {}
      BY <1>1, <1>3 DEF SelectInSeq, ToSet
    <3>2. I \subseteq Nat
      BY <1>1
    <3>3. Min(I) \in I
      BY <3>1, <3>2, MinProperties
    <3> QED
      BY <3>1, <3>3
  <2> HIDE DEF i
  <2>3. /\ r \in Seq(S) /\ Len(r) = n - 1
        /\ \A j \in 1 .. n - 1 : r[j] = IF j < i THEN s[j] ELSE s[j + 1]
    BY <2>2, RemoveAtProperties
  <2>4. DOMAIN r = 1 .. n - 1
    BY <2>3, LenProperties
  <2>5. \A j, k \in 1 .. n : s[j] = s[k] => j = k
    BY <1>1 DEF IsInjective
  <2> HIDE DEF r, n
  <2> DEFINE at(j) == IF j < i THEN j ELSE j + 1
  <2>6. ASSUME NEW j \in 1 .. n - 1
        PROVE  at(j) \in 1 .. n /\ at(j) # i /\ r[j] = s[at(j)]
    BY <1>1, <2>2, <2>3
  <2>7. ASSUME NEW j \in 1 .. n, j # i PROVE \E k \in 1 .. n - 1 : at(k) = j
    <3>1. j < i => j \in 1 .. n - 1 /\ at(j) = j
      BY <1>1, <2>2
    <3>2. ~(j < i) => j - 1 \in 1 .. n - 1 /\ at(j - 1) = j
      BY <1>1, <2>2, <2>7
    <3> HIDE DEF at
    <3> QED
      BY <3>1, <3>2
  <2>8. \A j, k \in 1 .. n - 1 : at(j) < at(k) => j < k
    BY <1>1, <2>2
  <2>9. \A j, k \in 1 .. n - 1 : at(j) = at(k) => j = k
    BY <1>1, <2>2
  <2> HIDE DEF at
  <2>10. ToSet(r) = ToSet(s) \ {e}
    <3>1. \A j \in 1 .. n - 1 : r[j] \in ToSet(s) \ {e}
      BY <1>1, <2>2, <2>5, <2>6 DEF ToSet
    <3>2. \A j \in 1 .. n : s[j] # e => s[j] \in ToSet(r)
      BY <2>2, <2>4, <2>6, <2>7 DEF ToSet
    <3> QED
      BY <1>1, <2>4, <3>1, <3>2 DEF ToSet
  <2>11. IsInjective(r)
    BY <2>4, <2>5, <2>6, <2>9 DEF IsInjective
  <2>12. ASSUME NEW u \in ToSet(r), NEW t \in ToSet(r), Precedes(s, u, t)
         PROVE  Precedes(r, u, t)
    BY <1>1, <2>4, <2>6, <2>8, <2>12 DEF Precedes
  <2> QED
    BY <1>3, <2>1, <2>3, <2>10, <2>11, <2>12 DEF n
<1> QED
  BY <1>2, <1>3

LEMMA TailSet ==
  ASSUME NEW S, NEW s \in Seq(S), s # <<>>, IsInjective(s)
  PROVE  /\ Head(s) \in ToSet(s) /\ Head(s) \in S /\ Head(s) = s[1]
         /\ Tail(s) \in Seq(S) /\ Len(Tail(s)) = Len(s) - 1 /\ Len(s) \in Nat \ {0}
         /\ \A i \in 1 .. Len(s) - 1 : Tail(s)[i] = s[i + 1]
         /\ \A u : u \in ToSet(Tail(s)) <=> u \in ToSet(s) /\ u # Head(s)
         /\ IsInjective(Tail(s))
<1> DEFINE r == Tail(s)
           n == Len(s)
<1>1. n \in Nat \ {0} /\ DOMAIN s = 1 .. n /\ Head(s) = s[1] /\ s[1] \in S
  OBVIOUS
<1>2. r \in Seq(S) /\ Len(r) = n - 1 /\ DOMAIN r = 1 .. n - 1
  OBVIOUS
<1>3. \A i \in 1 .. n - 1 : r[i] = s[i + 1]
  OBVIOUS
<1>4. Head(s) \in ToSet(s)
  BY <1>1 DEF ToSet
<1> HIDE DEF r, n
<1>5. IsInjective(r)
  <2> SUFFICES ASSUME NEW i \in 1 .. n - 1, NEW j \in 1 .. n - 1, r[i] = r[j] PROVE i = j
    BY <1>2 DEF IsInjective
  <2>1. s[i + 1] = s[j + 1] /\ i + 1 \in 1 .. n /\ j + 1 \in 1 .. n
    BY <1>1, <1>3
  <2>2. i + 1 = j + 1
    BY <1>1, <2>1 DEF IsInjective
  <2> QED
    BY <2>2
<1>6. ASSUME NEW u PROVE u \in ToSet(r) <=> u \in ToSet(s) /\ u # Head(s)
  <2>1. ASSUME u \in ToSet(r) PROVE u \in ToSet(s) /\ u # Head(s)
    <3>1. PICK i \in 1 .. n - 1 : u = r[i]
      BY <1>2, <2>1 DEF ToSet
    <3>2. u = s[i + 1] /\ i + 1 \in 1 .. n /\ i + 1 # 1 /\ 1 \in 1 .. n
      BY <1>1, <1>3, <3>1
    <3> QED
      BY <1>1, <3>2 DEF ToSet, IsInjective
  <2>2. ASSUME u \in ToSet(s), u # Head(s) PROVE u \in ToSet(r)
    <3>1. PICK i \in 1 .. n : u = s[i]
      BY <1>1, <2>2 DEF ToSet
    <3>2. i - 1 \in 1 .. n - 1 /\ i = (i - 1) + 1
      BY <1>1, <2>2, <3>1
    <3>3. u = r[i - 1]
      BY <1>3, <3>1, <3>2
    <3> QED
      BY <1>2, <3>2, <3>3 DEF ToSet
  <2> QED
    BY <2>1, <2>2
<1> QED
  BY <1>1, <1>2, <1>3, <1>4, <1>5, <1>6 DEF r, n
===============================================================================
