----------------------------- MODULE CF_Wire_proofs -----------------------------
(***************************************************************************)
(* Theorems about CF_Wire, for every entity, sequence number, size of PDU, *)
(* file and radix that its assumptions allow: messages are as long as they *)
(* say and no buffer is lost, what is encoded is what is decoded, what was *)
(* cut is understood as far as it goes or not at all, and the checksum is  *)
(* that of the file however it is read.                                    *)
(*                                                                         *)
(* The invariant WireInv: a message under way has, up to its size, the     *)
(* octets that the encoder left for the PDU that it was meant to be        *)
(* (OnWire).  The lemmas about encoders say where the octets of every      *)
(* field lie, those about decoders that reading there gives the field, or  *)
(* breaks the decoder for good when the message ends before.               *)
(***************************************************************************)
EXTENDS CF_Wire, CF_Facts_proofs

-------------------------------------------------------------------------------
(* Folds *)

(* What a fold over 1 .. n does, from left to right, in terms of a function *)
(* step that takes what there is so far and an index.                      *)
Folded(it, n, base, step) ==
  it = [s \in SUBSET (1 .. n) |-> IF s = {} THEN base
                                  ELSE step[<<it[s \ {Max(s)}], Max(s)>>]]

LEMMA MaxOfSet ==
  ASSUME NEW n \in Nat, NEW s \in SUBSET (1 .. n), s # {}
  PROVE  Max(s) \in s /\ Max(s) \in 1 .. n /\ \A y \in s : y <= Max(s)
<1>1. s \subseteq 0 .. n
  OBVIOUS
<1> QED
  BY <1>1, MaxProperties

LEMMA FoldExists ==
  ASSUME NEW n \in Nat, NEW X, NEW base \in X, NEW step \in [X \X (1 .. n) -> X]
  PROVE  \E it \in [SUBSET (1 .. n) -> X] : Folded(it, n, base, step)
<1> DEFINE D == SUBSET (1 .. n)
           Next1(it, s) == IF s = {} THEN base ELSE step[<<it[s \ {Max(s)}], Max(s)>>]
           Upto(m) == SUBSET (1 .. m)
           Good(m) == \E it \in [D -> X] : \A s \in D : s \in Upto(m) => it[s] = Next1(it, s)
           G == {m \in Nat : Good(m)}
<1>1. 0 \in G
  <2> DEFINE it == [s \in D |-> base]
  <2>1. it \in [D -> X] /\ \A s \in D : s \in Upto(0) => it[s] = Next1(it, s)
    <3>1. \A s \in Upto(0) : s = {}
      OBVIOUS
    <3> QED
      BY <3>1
  <2> HIDE DEF it, Next1, D
  <2> QED
    BY <2>1
<1>2. ASSUME NEW m \in Nat, m \in G PROVE m + 1 \in G
  <2>1. PICK it \in [D -> X] : \A s \in D : s \in Upto(m) => it[s] = Next1(it, s)
    BY <1>2
  <2> DEFINE jt == [s \in D |-> IF s \in Upto(m) THEN it[s] ELSE Next1(it, s)]
  <2>2. ASSUME NEW s \in D, s # {}
        PROVE  /\ s \ {Max(s)} \in D /\ Max(s) \in 1 .. n
               /\ s \in Upto(m + 1) => s \ {Max(s)} \in Upto(m)
    <3>1. Max(s) \in s /\ Max(s) \in 1 .. n /\ \A y \in s : y <= Max(s)
      BY <2>2, MaxOfSet
    <3>2. ASSUME s \in Upto(m + 1) PROVE s \ {Max(s)} \in Upto(m)
      <4> SUFFICES ASSUME NEW y \in s \ {Max(s)} PROVE y \in 1 .. m
        OBVIOUS
      <4>1. y \in 1 .. m + 1 /\ Max(s) \in 1 .. m + 1 /\ y <= Max(s) /\ y # Max(s)
        BY <3>1, <3>2
      <4> QED
        BY <4>1
    <3> QED
      BY <3>1, <3>2
  <2>3. ASSUME NEW s \in D PROVE Next1(it, s) \in X
    <3>1. CASE s = {}
      BY <3>1
    <3>2. CASE s # {}
      <4>1. s \ {Max(s)} \in D /\ Max(s) \in 1 .. n
        BY <2>2, <3>2
      <4>2. <<it[s \ {Max(s)}], Max(s)>> \in X \X (1 .. n)
        BY <4>1
      <4> QED
        BY <3>2, <4>2
    <3> QED
      BY <3>1, <3>2
  <2>4. \A s \in D : it[s] \in X
    OBVIOUS
  <2>5. jt \in [D -> X]
    <3> HIDE DEF Next1, D
    <3> QED
      BY <2>3, <2>4
  <2>6. ASSUME NEW s \in D, s \in Upto(m + 1) PROVE jt[s] = Next1(jt, s)
    <3>1. jt[s] = Next1(it, s)
      <4> HIDE DEF Next1, D
      <4> QED
        BY <2>1
    <3>2. Next1(jt, s) = Next1(it, s)
      <4>1. CASE s = {}
        BY <4>1
      <4>2. CASE s # {}
        <5>1. s \ {Max(s)} \in D /\ s \ {Max(s)} \in Upto(m)
          BY <2>2, <2>6, <4>2
        <5>2. jt[s \ {Max(s)}] = it[s \ {Max(s)}]
          BY <5>1
        <5> QED
          BY <5>2
      <4> QED
        BY <4>1, <4>2
    <3> QED
      BY <3>1, <3>2
  <2> HIDE DEF jt, Next1, D
  <2> QED
    BY <2>5, <2>6
<1> HIDE DEF G
<1>3. n \in G
  BY <1>1, <1>2, Induction
<1>4. PICK it \in [D -> X] : \A s \in D : s \in Upto(n) => it[s] = Next1(it, s)
  BY <1>3 DEF G
<1>5. it = [s \in D |-> Next1(it, s)]
  <2> HIDE DEF Next1
  <2> QED
    BY <1>4
<1> QED
  BY <1>4, <1>5 DEF Folded

LEMMA Initials ==
  ASSUME NEW n \in Nat
  PROVE  /\ {} \in SUBSET (1 .. n) /\ 1 .. 0 = {}
         /\ \A k \in 1 .. n : /\ 1 .. k \in SUBSET (1 .. n) /\ 1 .. k # {}
                              /\ Max(1 .. k) = k /\ (1 .. k) \ {k} = 1 .. (k - 1)
<1>1. ASSUME NEW k \in 1 .. n
      PROVE  /\ 1 .. k \in SUBSET (1 .. n) /\ 1 .. k # {}
             /\ Max(1 .. k) = k /\ (1 .. k) \ {k} = 1 .. (k - 1)
  <2>1. 1 .. k \in SUBSET (1 .. n) /\ 1 .. k # {}
    OBVIOUS
  <2>2. Max(1 .. k) = k
    <3>1. Max(1 .. k) \in 1 .. k /\ \A y \in 1 .. k : y <= Max(1 .. k)
      BY <2>1, MaxOfSet
    <3> QED
      BY <3>1
  <2>3. (1 .. k) \ {k} = 1 .. (k - 1)
    OBVIOUS
  <2> QED
    BY <2>1, <2>2, <2>3
<1> QED
  BY <1>1

LEMMA RunStaysIn ==
  ASSUME NEW n \in Nat, NEW X, NEW h, h[0] \in X,
         \A k \in 1 .. n : h[k - 1] \in X => h[k] \in X
  PROVE  \A k \in 0 .. n : h[k] \in X
<1> DEFINE G == {k \in Nat : k <= n => h[k] \in X}
<1>1. 0 \in G
  OBVIOUS
<1>2. ASSUME NEW k \in Nat, k \in G PROVE k + 1 \in G
  <2> SUFFICES ASSUME k + 1 <= n PROVE h[k + 1] \in X
    OBVIOUS
  <2>1. k + 1 \in 1 .. n /\ (k + 1) - 1 = k /\ h[k] \in X
    BY <1>2
  <2> QED
    BY <2>1
<1> HIDE DEF G
<1>3. Nat \subseteq G
  BY <1>1, <1>2, Induction
<1> QED
  BY <1>3 DEF G

LEMMA OctetsAreNumbers ==
  ASSUME NEW o \in Seq(Octet)
  PROVE  Len(o) \in Nat /\ DOMAIN o = 1 .. Len(o) /\ \A k \in 1 .. Len(o) : o[k] \in Octet /\ o[k] \in Nat
<1>1. Len(o) \in Nat /\ DOMAIN o = 1 .. Len(o) /\ \A k \in 1 .. Len(o) : o[k] \in Octet
  BY LenProperties, ElementOfSeq
<1>2. Octet \subseteq Nat
  BY DEF Octet
<1> QED
  BY <1>1, <1>2

LEMMA ValueRuns ==
  ASSUME NEW o \in Seq(Octet)
  PROVE  \E h : /\ h[0] = 0 /\ Value(o) = h[Len(o)]
                /\ \A k \in 0 .. Len(o) : h[k] \in Nat
                /\ \A k \in 1 .. Len(o) : h[k] = h[k - 1] * 256 + o[k]
<1> DEFINE n == Len(o)
           step == [p \in Nat \X (1 .. n) |-> p[1] * 256 + o[p[2]]]
           it[s \in SUBSET (1 .. n)] ==
             IF s = {} THEN 0 ELSE it[s \ {Max(s)}] * 256 + o[Max(s)]
           h == [k \in 0 .. n |-> it[1 .. k]]
<1>1. n \in Nat /\ DOMAIN o = 1 .. n /\ \A k \in 1 .. n : o[k] \in Nat
  BY OctetsAreNumbers
<1>2. step \in [Nat \X (1 .. n) -> Nat]
  BY <1>1
<1>3. \A x \in Nat, k \in 1 .. n : step[<<x, k>>] = x * 256 + o[k]
  OBVIOUS
<1> HIDE DEF step, n
<1>4. Value(o) = it[1 .. n]
  BY <1>1 DEF Value, FoldLeft, MapThenFoldSet
<1>5. it = [s \in SUBSET (1 .. n) |-> IF s = {} THEN 0
                                     ELSE it[s \ {Max(s)}] * 256 + o[Max(s)]]
  <2>1. PICK jt \in [SUBSET (1 .. n) -> Nat] : Folded(jt, n, 0, step)
    BY <1>1, <1>2, FoldExists
  <2>2. ASSUME NEW s \in SUBSET (1 .. n), s # {}
        PROVE  step[<<jt[s \ {Max(s)}], Max(s)>>] = jt[s \ {Max(s)}] * 256 + o[Max(s)]
    <3>1. Max(s) \in 1 .. n /\ jt[s \ {Max(s)}] \in Nat
      BY <1>1, <2>2, MaxOfSet
    <3> QED
      BY <1>3, <3>1, ZenonT(60)
  <2>3. jt = [s \in SUBSET (1 .. n) |-> IF s = {} THEN 0
                                       ELSE jt[s \ {Max(s)}] * 256 + o[Max(s)]]
    BY <2>1, <2>2, Zenon DEF Folded
  <2> QED
    BY <2>3
<1> HIDE DEF it
<1>6. it[1 .. 0] = 0
  BY <1>1, <1>5, Initials
<1>7. ASSUME NEW k \in 1 .. n PROVE it[1 .. k] = it[1 .. (k - 1)] * 256 + o[k]
  <2>1. /\ 1 .. k \in SUBSET (1 .. n) /\ 1 .. k # {}
        /\ Max(1 .. k) = k /\ (1 .. k) \ {k} = 1 .. (k - 1)
    BY <1>1, Initials
  <2>2. it[1 .. k] = it[(1 .. k) \ {Max(1 .. k)}] * 256 + o[Max(1 .. k)]
    BY <1>5, <2>1, Zenon
  <2> QED
    BY <2>1, <2>2
<1>8. h[0] = 0 /\ h[n] = it[1 .. n]
  BY <1>1, <1>6
<1>9. ASSUME NEW k \in 1 .. n PROVE h[k] = h[k - 1] * 256 + o[k]
  BY <1>1, <1>7
<1> HIDE DEF h
<1>10. \A k \in 0 .. n : h[k] \in Nat
  <2>1. \A k \in 1 .. n : h[k - 1] \in Nat => h[k] \in Nat
    BY <1>1, <1>9
  <2>2. h[0] \in Nat
    BY <1>8
  <2> QED
    BY <1>1, <2>1, <2>2, RunStaysIn, Zenon
<1> QED
  BY <1>4, <1>8, <1>9, <1>10 DEF n

-------------------------------------------------------------------------------
(* The checksum *)

LEMMA Remainders ==
  ASSUME NEW m \in Nat \ {0}, NEW x \in Int
  PROVE  /\ (x % m) \in 0 .. m - 1 /\ (x \div m) \in Int
         /\ x = (x \div m) * m + (x % m)
<1>1. (x % m) \in 0 .. m - 1
  BY SMT
<1>2. (x \div m) \in Int
  BY SMT
<1>3. x = (x \div m) * m + (x % m)
  BY SMT
<1> QED
  BY <1>1, <1>2, <1>3

LEMMA RemainderIs ==
  ASSUME NEW m \in Nat \ {0}, NEW q \in Int, NEW r \in 0 .. m - 1
  PROVE  (q * m + r) % m = r
BY SMT

LEMMA QuotientBounds ==
  ASSUME NEW m \in Nat \ {0}, NEW x \in Nat
  PROVE  (x \div m) \in Nat /\ (x \div m) * m <= x /\ x < (x \div m) * m + m
BY SMT

LEMMA RemainderOfSum ==
  ASSUME NEW m \in Nat \ {0}, NEW x \in Int, NEW y \in Int
  PROVE  ((x % m) + y) % m = (x + y) % m
<1> DEFINE q == x \div m
           u == (x % m) + y
<1>1. q \in Int /\ x = q * m + (x % m) /\ u \in Int /\ x + y = q * m + u
  BY Remainders
<1> HIDE DEF q, u
<1> DEFINE p == u \div m
           r == u % m
<1>2. p \in Int /\ u = p * m + r /\ r \in 0 .. m - 1
  BY <1>1, Remainders
<1> HIDE DEF p, r
<1>3. x + y = (q + p) * m + r
  BY <1>1, <1>2
<1>4. q + p \in Int
  BY <1>1, <1>2
<1>5. ((q + p) * m + r) % m = r
  BY <1>2, <1>4, RemainderIs
<1> QED
  BY <1>3, <1>5 DEF r, u

LEMMA PowersAre ==
  /\ Power[1] = Radix /\ Power[2] = Radix * Radix /\ Power[3] = Radix * Radix * Radix
  /\ Power[4] = Radix * Radix * Radix * Radix
  /\ \A j \in 1 .. 4 : Power[j] \in Nat \ {0}
BY RadixAssumption DEF Power

Modulus == Power[4]

LEMMA ModulusIs ==
  /\ Modulus \in Nat \ {0} /\ Radix \in Nat \ {0} /\ Radix > 1
  /\ Modulus = Radix * Radix * Radix * Radix /\ Word = 0 .. Modulus - 1
BY PowersAre, RadixAssumption DEF Modulus, Word

(* The octet i of the file, with zeros before it and behind it.            *)
DigitOf(i) == IF i \in 1 .. FileLength THEN File[i] ELSE 0

(* The word of the last four octets up to i.                               *)
WordUpTo(i) ==
  ((DigitOf(i - 3) * Radix + DigitOf(i - 2)) * Radix + DigitOf(i - 1)) * Radix + DigitOf(i)

LEMMA FileIs ==
  /\ FileLength \in Nat /\ Radix \in 0 .. 256
  /\ File \in Seq(0 .. Radix - 1) /\ Len(File) = FileLength
  /\ \A i \in Int : DigitOf(i) \in 0 .. Radix - 1
  /\ \A i \in 1 .. FileLength : DigitOf(i) = File[i]
<1>1. FileLength \in Nat /\ Radix \in Nat \ {0} /\ Radix \in 0 .. 256
  BY WireAssumption, RadixAssumption DEF Numbers32
<1>2. ASSUME NEW i \in 1 .. FileLength PROVE (i * i + (i \div 4)) % Radix \in 0 .. Radix - 1
  <2>1. i * i + (i \div 4) \in Int
    BY <1>1
  <2> QED
    BY <1>1, <2>1, Remainders
<1>3. \A i \in 1 .. FileLength : File[i] \in 0 .. Radix - 1
  BY <1>2 DEF File
<1>4. File \in Seq(0 .. Radix - 1) /\ Len(File) = FileLength
  BY <1>1, <1>2 DEF File
<1> QED
  BY <1>1, <1>3, <1>4 DEF DigitOf

LEMMA HornerBound ==
  ASSUME NEW r \in Nat \ {0}, NEW a \in Nat, NEW m \in Nat \ {0}, a <= m - 1,
         NEW d \in 0 .. r - 1
  PROVE  a * r + d \in Nat /\ a * r + d <= m * r - 1
<1>1. a * r <= (m - 1) * r
  BY SMT
<1>2. (m - 1) * r = m * r - r
  BY SMT
<1>3. a * r \in Nat /\ m * r \in Nat
  BY SMT
<1> QED
  BY <1>1, <1>2, <1>3

LEMMA WordUpToIs ==
  ASSUME NEW i \in Int
  PROVE  WordUpTo(i) \in Word
<1>1. PICK a, b, c, d : /\ a = DigitOf(i - 3) /\ b = DigitOf(i - 2)
                        /\ c = DigitOf(i - 1) /\ d = DigitOf(i)
  OBVIOUS
<1>2. a \in 0 .. Radix - 1 /\ b \in 0 .. Radix - 1 /\ c \in 0 .. Radix - 1 /\ d \in 0 .. Radix - 1
  BY <1>1, FileIs
<1>3. a * Radix + b \in Nat /\ a * Radix + b <= Radix * Radix - 1
  BY <1>2, ModulusIs, HornerBound
<1>4. /\ (a * Radix + b) * Radix + c \in Nat
      /\ (a * Radix + b) * Radix + c <= Radix * Radix * Radix - 1
  <2>1. Radix * Radix \in Nat \ {0}
    BY ModulusIs
  <2> QED
    BY <1>2, <1>3, <2>1, ModulusIs, HornerBound
<1>5. /\ ((a * Radix + b) * Radix + c) * Radix + d \in Nat
      /\ ((a * Radix + b) * Radix + c) * Radix + d <= Modulus - 1
  <2>1. Radix * Radix * Radix \in Nat \ {0}
    BY ModulusIs
  <2> QED
    BY <1>2, <1>4, <2>1, ModulusIs, HornerBound
<1>6. WordUpTo(i) = ((a * Radix + b) * Radix + c) * Radix + d
  BY <1>1 DEF WordUpTo
<1> QED
  BY <1>5, <1>6, ModulusIs

LEMMA WordShifts ==
  ASSUME NEW i \in Int
  PROVE  (WordUpTo(i - 1) * Radix + DigitOf(i)) % Modulus = WordUpTo(i)
<1>1. PICK a, b, c, d, e : /\ a = DigitOf(i - 4) /\ b = DigitOf(i - 3)
                           /\ c = DigitOf(i - 2) /\ d = DigitOf(i - 1) /\ e = DigitOf(i)
  OBVIOUS
<1>2. a \in Nat /\ b \in Nat /\ c \in Nat /\ d \in Nat /\ e \in Nat /\ Radix \in Nat
  BY <1>1, FileIs
<1>3. (i - 1) - 3 = i - 4 /\ (i - 1) - 2 = i - 3 /\ (i - 1) - 1 = i - 2
  OBVIOUS
<1>4. WordUpTo(i - 1) = ((a * Radix + b) * Radix + c) * Radix + d
  BY <1>1, <1>3 DEF WordUpTo
<1>5. WordUpTo(i) = ((b * Radix + c) * Radix + d) * Radix + e
  BY <1>1 DEF WordUpTo
<1>6. WordUpTo(i - 1) * Radix + e = a * Modulus + WordUpTo(i)
  BY <1>2, <1>4, <1>5, ModulusIs
<1>7. WordUpTo(i) \in 0 .. Modulus - 1
  BY WordUpToIs, ModulusIs
<1>8. (a * Modulus + WordUpTo(i)) % Modulus = WordUpTo(i)
  <2>1. a \in Int
    BY <1>2
  <2> QED
    BY <1>7, <2>1, ModulusIs, RemainderIs, Zenon
<1> QED
  BY <1>1, <1>6, <1>8

CrcStates == [working : Word, result : Word, index : 0 .. 3]

(* h[k] is the sum of the first k words of the file.                       *)
SumsAre(h) ==
  /\ h[0] = 0 /\ \A k \in 0 .. (FileLength + 3) \div 4 : h[k] \in Word
  /\ \A k \in 1 .. (FileLength + 3) \div 4 : h[k] = (h[k - 1] + WordUpTo(4 * k)) % Modulus
  /\ ModularSum = h[(FileLength + 3) \div 4]

LEMMA SumsExist == \E h : SumsAre(h)
<1> DEFINE n == (FileLength + 3) \div 4
           Digit(i) == IF i <= FileLength THEN File[i] ELSE 0
           WordAt(k) == ((Digit(4*k + 1) * Radix + Digit(4*k + 2)) * Radix + Digit(4*k + 3)) * Radix
                          + Digit(4*k + 4)
           seq == [k \in 1 .. n |-> k]
           op(sum, k) == (sum + WordAt(k - 1)) % Power[4]
           step == [p \in Word \X (1 .. n) |-> op(p[1], p[2])]
           it[s \in SUBSET (1 .. n)] ==
             IF s = {} THEN 0 ELSE op(it[s \ {Max(s)}], seq[Max(s)])
           h == [k \in 0 .. n |-> it[1 .. k]]
<1>1. n \in Nat /\ DOMAIN seq = 1 .. n /\ \A k \in 1 .. n : seq[k] = k
  BY FileIs
<1>2. ModularSum = it[1 .. n]
  BY <1>1 DEF ModularSum, FoldLeft, MapThenFoldSet
<1> HIDE DEF op, it, step, seq
<1>3. ASSUME NEW k \in 1 .. n PROVE WordAt(k - 1) = WordUpTo(4 * k) /\ WordAt(k - 1) \in Int
  <2>1. n \in Nat /\ k \in Nat \ {0}
    BY <1>1
  <2> HIDE DEF n
  <2>2. /\ 4 * k - 3 = 4*(k - 1) + 1 /\ 4 * k - 2 = 4*(k - 1) + 2 /\ 4 * k - 1 = 4*(k - 1) + 3
        /\ 4 * k = 4*(k - 1) + 4
        /\ 4 * k - 3 \in Nat \ {0} /\ 4 * k - 2 \in Nat \ {0} /\ 4 * k - 1 \in Nat \ {0}
        /\ 4 * k \in Nat \ {0}
    BY <2>1
  <2>3. \A i \in Nat \ {0} : Digit(i) = DigitOf(i)
    BY FileIs DEF DigitOf
  <2> HIDE DEF Digit
  <2>4. WordAt(k - 1) = WordUpTo(4 * k)
    BY <2>2, <2>3 DEF WordUpTo
  <2>5. WordUpTo(4 * k) \in Word /\ Word \subseteq Int
    BY <2>2, WordUpToIs, ModulusIs
  <2> QED
    BY <2>4, <2>5
<1> USE DEF op, step, seq
<1> HIDE DEF WordAt
<1>4. ASSUME NEW x \in Word, NEW k \in 1 .. n PROVE op(x, k) \in Word
  <2>1. x + WordAt(k - 1) \in Int
    BY <1>3, ModulusIs
  <2> QED
    BY <2>1, Remainders, ModulusIs DEF Modulus
<1>5. step \in [Word \X (1 .. n) -> Word] /\ 0 \in Word
  BY <1>4, ModulusIs, SMTT(60)
<1>6. \A x \in Word, k \in 1 .. n : step[<<x, k>>] = op(x, k)
  OBVIOUS
<1> HIDE DEF step, n, op, seq
<1>7. it = [s \in SUBSET (1 .. n) |-> IF s = {} THEN 0
                                     ELSE op(it[s \ {Max(s)}], seq[Max(s)])]
  <2>1. PICK jt \in [SUBSET (1 .. n) -> Word] : Folded(jt, n, 0, step)
    BY <1>1, <1>5, FoldExists
  <2>2. ASSUME NEW s \in SUBSET (1 .. n), s # {}
        PROVE  step[<<jt[s \ {Max(s)}], Max(s)>>] = op(jt[s \ {Max(s)}], seq[Max(s)])
    <3>1. Max(s) \in 1 .. n /\ jt[s \ {Max(s)}] \in Word
      BY <1>1, <2>2, MaxOfSet
    <3> QED
      BY <1>1, <1>6, <3>1
  <2>3. jt = [s \in SUBSET (1 .. n) |-> IF s = {} THEN 0
                                       ELSE op(jt[s \ {Max(s)}], seq[Max(s)])]
    BY <2>1, <2>2, Zenon DEF Folded
  <2> QED
    BY <2>3 DEF it
<1> HIDE DEF it
<1>8. it[1 .. 0] = 0
  BY <1>1, <1>7, Initials
<1>9. ASSUME NEW k \in 1 .. n PROVE it[1 .. k] = op(it[1 .. (k - 1)], k)
  <2>1. /\ 1 .. k \in SUBSET (1 .. n) /\ 1 .. k # {}
        /\ Max(1 .. k) = k /\ (1 .. k) \ {k} = 1 .. (k - 1)
    BY <1>1, Initials
  <2>2. it[1 .. k] = op(it[(1 .. k) \ {Max(1 .. k)}], seq[Max(1 .. k)])
    BY <1>7, <2>1, Zenon
  <2> QED
    BY <1>1, <2>1, <2>2
<1>10. h[0] = 0 /\ h[n] = it[1 .. n]
  BY <1>1, <1>8
<1>11. ASSUME NEW k \in 1 .. n PROVE h[k] = op(h[k - 1], k)
  BY <1>1, <1>9
<1> HIDE DEF h
<1>12. \A k \in 0 .. n : h[k] \in Word
  <2>1. \A k \in 1 .. n : h[k - 1] \in Word => h[k] \in Word
    BY <1>4, <1>11
  <2>2. h[0] \in Word
    BY <1>5, <1>10
  <2> QED
    BY <1>1, <2>1, <2>2, RunStaysIn, Zenon
<1>13. \A k \in 1 .. n : h[k] = (h[k - 1] + WordUpTo(4 * k)) % Modulus
  BY <1>1, <1>3, <1>11 DEF op, Modulus
<1> QED
  BY <1>2, <1>10, <1>12, <1>13 DEF n, SumsAre

Sums == CHOOSE h : SumsAre(h)

(* The checksum after the first i octets of the file.                      *)
CrcAt(i) == [working |-> WordUpTo(i), result |-> Sums[i \div 4], index |-> i % 4]

LEMMA SumsHold == SumsAre(Sums)
BY SumsExist DEF Sums

LEMMA CrcAtIs ==
  ASSUME NEW i \in 0 .. FileLength
  PROVE  CrcAt(i) \in CrcStates
<1>1. i \div 4 \in 0 .. (FileLength + 3) \div 4 /\ i % 4 \in 0 .. 3
  BY FileIs, SMTT(60)
<1>2. Sums[i \div 4] \in Word
  BY <1>1, SumsHold DEF SumsAre
<1>3. WordUpTo(i) \in Word
  BY WordUpToIs
<1> QED
  BY <1>1, <1>2, <1>3 DEF CrcAt, CrcStates

LEMMA CrcAtStart == CrcAt(0) = CRC_Start
<1>1. 0 \div 4 = 0 /\ 0 % 4 = 0
  OBVIOUS
<1>2. DigitOf(0 - 3) = 0 /\ DigitOf(0 - 2) = 0 /\ DigitOf(0 - 1) = 0 /\ DigitOf(0) = 0
  BY FileIs DEF DigitOf
<1>3. WordUpTo(0) = 0
  BY <1>2, ModulusIs DEF WordUpTo
<1> QED
  BY <1>1, <1>3, SumsHold DEF CrcAt, CRC_Start, SumsAre

LEMMA CrcAtNext ==
  ASSUME NEW i \in 1 .. FileLength
  PROVE  DigestOctet(CrcAt(i - 1), File[i]) = CrcAt(i)
<1>1. (WordUpTo(i - 1) * Radix + File[i]) % Power[4] = WordUpTo(i)
  BY WordShifts, FileIs DEF Modulus
<1>2. i \in Nat \ {0} /\ FileLength \in Nat /\ i <= FileLength
  BY FileIs
<1>3. CASE i % 4 = 0
  <2>1. /\ (i - 1) % 4 = 3 /\ (i - 1) \div 4 = (i \div 4) - 1 /\ 4 * (i \div 4) = i
        /\ i \div 4 \in 1 .. (FileLength + 3) \div 4
    BY <1>2, <1>3
  <2>2. Sums[i \div 4] = (Sums[(i \div 4) - 1] + WordUpTo(i)) % Power[4]
    BY <2>1, SumsHold DEF SumsAre, Modulus
  <2> QED
    BY <1>1, <1>3, <2>1, <2>2 DEF DigestOctet, CrcAt
<1>4. CASE i % 4 # 0
  <2>1. /\ (i - 1) % 4 # 3 /\ (i - 1) \div 4 = i \div 4 /\ ((i - 1) % 4) + 1 = i % 4
    BY <1>2, <1>4
  <2> QED
    BY <1>1, <2>1 DEF DigestOctet, CrcAt
<1> QED
  BY <1>3, <1>4

LEMMA DigestOctetIs ==
  ASSUME NEW c \in CrcStates, NEW octet \in Nat
  PROVE  DigestOctet(c, octet) \in CrcStates
<1>1. c.working \in Nat /\ c.result \in Nat /\ c.index \in 0 .. 3
  BY ModulusIs DEF CrcStates
<1> DEFINE working == (c.working * Radix + octet) % Modulus
           result == (c.result + working) % Modulus
<1>2. working \in Word
  <2>1. c.working * Radix + octet \in Int
    BY <1>1, ModulusIs
  <2> QED
    BY <2>1, Remainders, ModulusIs
<1>3. result \in Word
  <2>1. c.result + working \in Int
    BY <1>1, <1>2, ModulusIs
  <2> HIDE DEF working
  <2> QED
    BY <2>1, Remainders, ModulusIs
<1>4. c.result \in Word
  BY DEF CrcStates
<1>5. DigestOctet(c, octet) =
        [working |-> working, index |-> IF c.index = 3 THEN 0 ELSE c.index + 1,
         result  |-> IF c.index = 3 THEN result ELSE c.result]
  BY DEF DigestOctet, Modulus
<1> HIDE DEF working, result
<1>6. c.index # 3 => c.index + 1 \in 0 .. 3
  BY <1>1
<1> QED
  BY <1>2, <1>3, <1>4, <1>5, <1>6 DEF CrcStates

LEMMA DigestRuns ==
  ASSUME NEW c \in CrcStates, NEW data \in Seq(0 .. Radix - 1)
  PROVE  \E h : /\ h[0] = c /\ CRC_Digest(c, data) = h[Len(data)]
                /\ \A k \in 0 .. Len(data) : h[k] \in CrcStates
                /\ \A k \in 1 .. Len(data) : h[k] = DigestOctet(h[k - 1], data[k])
<1> DEFINE n == Len(data)
           step == [p \in CrcStates \X (1 .. n) |-> DigestOctet(p[1], data[p[2]])]
           it[s \in SUBSET (1 .. n)] ==
             IF s = {} THEN c ELSE DigestOctet(it[s \ {Max(s)}], data[Max(s)])
           h == [k \in 0 .. n |-> it[1 .. k]]
<1>1. n \in Nat /\ DOMAIN data = 1 .. n /\ \A k \in 1 .. n : data[k] \in Nat
  <2>1. n \in Nat /\ DOMAIN data = 1 .. n /\ \A k \in 1 .. n : data[k] \in 0 .. Radix - 1
    BY LenProperties, ElementOfSeq
  <2>2. \A d \in 0 .. Radix - 1 : d \in Nat
    BY ModulusIs
  <2> QED
    BY <2>1, <2>2
<1>2. \A x \in CrcStates, k \in 1 .. n : DigestOctet(x, data[k]) \in CrcStates
  BY <1>1, DigestOctetIs
<1>3. /\ step \in [CrcStates \X (1 .. n) -> CrcStates]
      /\ \A x \in CrcStates, k \in 1 .. n : step[<<x, k>>] = DigestOctet(x, data[k])
  BY <1>2
<1> HIDE DEF step, n
<1>4. CRC_Digest(c, data) = it[1 .. n]
  BY <1>1 DEF CRC_Digest, FoldLeft, MapThenFoldSet
<1>5. it = [s \in SUBSET (1 .. n) |-> IF s = {} THEN c
                                     ELSE DigestOctet(it[s \ {Max(s)}], data[Max(s)])]
  <2>1. PICK jt \in [SUBSET (1 .. n) -> CrcStates] : Folded(jt, n, c, step)
    BY <1>1, <1>3, FoldExists
  <2>2. ASSUME NEW s \in SUBSET (1 .. n), s # {}
        PROVE  step[<<jt[s \ {Max(s)}], Max(s)>>] = DigestOctet(jt[s \ {Max(s)}], data[Max(s)])
    <3>1. Max(s) \in 1 .. n /\ jt[s \ {Max(s)}] \in CrcStates
      BY <1>1, <2>2, MaxOfSet
    <3> QED
      BY <1>3, <3>1
  <2>3. jt = [s \in SUBSET (1 .. n) |-> IF s = {} THEN c
                                       ELSE DigestOctet(jt[s \ {Max(s)}], data[Max(s)])]
    BY <2>1, <2>2, Zenon DEF Folded
  <2> QED
    BY <2>3
<1> HIDE DEF it
<1>6. it[1 .. 0] = c
  BY <1>1, <1>5, Initials
<1>7. ASSUME NEW k \in 1 .. n PROVE it[1 .. k] = DigestOctet(it[1 .. (k - 1)], data[k])
  <2>1. /\ 1 .. k \in SUBSET (1 .. n) /\ 1 .. k # {}
        /\ Max(1 .. k) = k /\ (1 .. k) \ {k} = 1 .. (k - 1)
    BY <1>1, Initials
  <2>2. it[1 .. k] = DigestOctet(it[(1 .. k) \ {Max(1 .. k)}], data[Max(1 .. k)])
    BY <1>5, <2>1, Zenon
  <2> QED
    BY <2>1, <2>2
<1>8. h[0] = c /\ h[n] = it[1 .. n]
  BY <1>1, <1>6
<1>9. ASSUME NEW k \in 1 .. n PROVE h[k] = DigestOctet(h[k - 1], data[k])
  BY <1>1, <1>7
<1> HIDE DEF h
<1>10. \A k \in 0 .. n : h[k] \in CrcStates
  <2>1. \A k \in 1 .. n : h[k - 1] \in CrcStates => h[k] \in CrcStates
    BY <1>2, <1>9
  <2>2. h[0] \in CrcStates
    BY <1>8
  <2> QED
    BY <1>1, <2>1, <2>2, RunStaysIn, Zenon
<1> QED
  BY <1>4, <1>8, <1>9, <1>10 DEF n

LEMMA DigestIs ==
  ASSUME NEW c \in CrcStates, NEW data \in Seq(0 .. Radix - 1)
  PROVE  CRC_Digest(c, data) \in CrcStates
<1>1. Len(data) \in Nat
  BY LenProperties
<1> QED
  BY <1>1, DigestRuns

(* Digesting a piece of the file leads from its beginning to its end.      *)
LEMMA DigestOfFile ==
  ASSUME NEW i \in 0 .. FileLength, NEW j \in i .. FileLength
  PROVE  /\ SubSeq(File, i + 1, j) \in Seq(0 .. Radix - 1)
         /\ Len(SubSeq(File, i + 1, j)) = j - i
         /\ CRC_Digest(CrcAt(i), SubSeq(File, i + 1, j)) = CrcAt(j)
<1> DEFINE data == SubSeq(File, i + 1, j)
<1>1. i \in Nat /\ j \in Nat /\ i <= j /\ j <= FileLength /\ FileLength \in Nat
  BY FileIs
<1>2. /\ data \in Seq(0 .. Radix - 1) /\ Len(data) = j - i
      /\ \A k \in 1 .. j - i : data[k] = File[i + k]
  <2>1. /\ i + 1 \in Int /\ j \in Int
        /\ \A k \in (i + 1) .. j : File[k] \in 0 .. Radix - 1
    <3>1. \A k \in (i + 1) .. j : k \in 1 .. Len(File)
      BY <1>1, FileIs
    <3>2. File \in Seq(0 .. Radix - 1)
      BY FileIs
    <3>3. \A k \in 1 .. Len(File) : File[k] \in 0 .. Radix - 1
      BY <3>2, ElementOfSeq, Zenon
    <3> QED
      BY <1>1, <3>1, <3>3
  <2>2. /\ data \in Seq(0 .. Radix - 1)
        /\ Len(data) = (IF i + 1 <= j THEN j - (i + 1) + 1 ELSE 0)
        /\ \A k \in 1 .. j - (i + 1) + 1 : data[k] = File[(i + 1) + k - 1]
    BY <2>1, SubSeqProperties
  <2>3. (IF i + 1 <= j THEN j - (i + 1) + 1 ELSE 0) = j - i /\ j - (i + 1) + 1 = j - i
    BY <1>1
  <2>4. \A k \in 1 .. j - i : (i + 1) + k - 1 = i + k
    BY <1>1
  <2> HIDE DEF data
  <2> QED
    BY <2>2, <2>3, <2>4
<1> HIDE DEF data
<1>3. CrcAt(i) \in CrcStates
  BY CrcAtIs
<1>4. PICK h : /\ h[0] = CrcAt(i) /\ CRC_Digest(CrcAt(i), data) = h[Len(data)]
               /\ \A k \in 1 .. Len(data) : h[k] = DigestOctet(h[k - 1], data[k])
  BY <1>2, <1>3, DigestRuns
<1> DEFINE G == {k \in Nat : k <= j - i => h[k] = CrcAt(i + k)}
<1>5. 0 \in G
  BY <1>1, <1>4
<1>6. ASSUME NEW k \in Nat, k \in G PROVE k + 1 \in G
  <2> SUFFICES ASSUME k + 1 <= j - i PROVE h[k + 1] = CrcAt(i + (k + 1))
    OBVIOUS
  <2>1. /\ k + 1 \in 1 .. j - i /\ (k + 1) - 1 = k /\ i + (k + 1) \in 1 .. FileLength
        /\ (i + (k + 1)) - 1 = i + k
    BY <1>1
  <2>2. h[k + 1] = DigestOctet(h[k], data[k + 1])
    BY <1>2, <1>4, <2>1
  <2>3. h[k] = CrcAt(i + k) /\ data[k + 1] = File[i + (k + 1)]
    BY <1>1, <1>2, <1>6, <2>1
  <2>4. DigestOctet(CrcAt((i + (k + 1)) - 1), File[i + (k + 1)]) = CrcAt(i + (k + 1))
    BY <2>1, CrcAtNext
  <2> QED
    BY <2>1, <2>2, <2>3, <2>4
<1> HIDE DEF G
<1>7. Nat \subseteq G
  BY <1>5, <1>6, Induction
<1>8. j - i \in Nat /\ i + (j - i) = j
  BY <1>1
<1>9. h[j - i] = CrcAt(j)
  BY <1>7, <1>8 DEF G
<1> QED
  BY <1>2, <1>4, <1>9 DEF data

(* The last octets of the file, shifted to the beginning of their word.    *)
LEMMA LastWord ==
  ASSUME NEW j \in 1 .. 3, FileLength % 4 = j, NEW r \in Int
  PROVE  (r + WordUpTo(FileLength) * Power[4 - j]) % Modulus
           = (r + WordUpTo(FileLength + 4 - j)) % Modulus
<1> DEFINE n == FileLength
<1>1. n \in Nat
  BY FileIs
<1>2. PICK a, b, c, d, m : /\ a = DigitOf(n - 3) /\ b = DigitOf(n - 2) /\ c = DigitOf(n - 1)
                           /\ d = DigitOf(n) /\ m = Radix
  OBVIOUS
<1>3. a \in Nat /\ b \in Nat /\ c \in Nat /\ d \in Nat /\ m \in Nat
  <2>1. n - 3 \in Int /\ n - 2 \in Int /\ n - 1 \in Int /\ n \in Int
    BY <1>1
  <2>2. ASSUME NEW i \in Int PROVE DigitOf(i) \in Nat
    <3>1. DigitOf(i) \in 0 .. Radix - 1
      BY FileIs
    <3> QED
      BY <3>1
  <2> QED
    BY <1>2, <2>1, <2>2, ModulusIs
<1>4. \A i \in Int : i > n => DigitOf(i) = 0
  BY <1>1 DEF DigitOf
<1>5. WordUpTo(n) = ((a * m + b) * m + c) * m + d
  BY <1>2 DEF WordUpTo
<1>6. Modulus = m * m * m * m
  BY <1>2, ModulusIs
<1>7. \E q \in Int : WordUpTo(n) * Power[4 - j] = q * Modulus + WordUpTo(n + 4 - j)
  <2>1. CASE j = 1
    <3>1. WordUpTo(n + 3) = d * m * m * m
      <4>1. DigitOf((n + 3) - 2) = 0 /\ DigitOf((n + 3) - 1) = 0 /\ DigitOf(n + 3) = 0
        BY <1>1, <1>4
      <4>2. (n + 3) - 3 = n
        BY <1>1
      <4>3. WordUpTo(n + 3) = ((d * m + 0) * m + 0) * m + 0
        BY <1>2, <4>1, <4>2 DEF WordUpTo
      <4> QED
        BY <1>3, <4>3
    <3>2. Power[4 - j] = m * m * m /\ n + 4 - j = n + 3
      BY <1>1, <1>2, <2>1, PowersAre
    <3>3. (((a * m + b) * m + c) * m + d) * (m * m * m)
            = ((a * m + b) * m + c) * (m * m * m * m) + d * m * m * m
      BY <1>3, SMT
    <3>4. ((a * m + b) * m + c) \in Int
      BY <1>3
    <3> QED
      BY <1>5, <1>6, <3>1, <3>2, <3>3, <3>4
  <2>2. CASE j = 2
    <3>1. WordUpTo(n + 2) = (c * m + d) * m * m
      <4>1. DigitOf((n + 2) - 1) = 0 /\ DigitOf(n + 2) = 0
        BY <1>1, <1>4
      <4>2. (n + 2) - 3 = n - 1 /\ (n + 2) - 2 = n
        BY <1>1
      <4>3. WordUpTo(n + 2) = ((c * m + d) * m + 0) * m + 0
        BY <1>2, <4>1, <4>2 DEF WordUpTo
      <4> QED
        BY <1>3, <4>3
    <3>2. Power[4 - j] = m * m /\ n + 4 - j = n + 2
      BY <1>1, <1>2, <2>2, PowersAre
    <3>3. (((a * m + b) * m + c) * m + d) * (m * m)
            = (a * m + b) * (m * m * m * m) + (c * m + d) * m * m
      BY <1>3, SMT
    <3>4. (a * m + b) \in Int
      BY <1>3
    <3> QED
      BY <1>5, <1>6, <3>1, <3>2, <3>3, <3>4
  <2>3. CASE j = 3
    <3>1. WordUpTo(n + 1) = ((b * m + c) * m + d) * m
      <4>1. DigitOf(n + 1) = 0
        BY <1>1, <1>4
      <4>2. (n + 1) - 3 = n - 2 /\ (n + 1) - 2 = n - 1 /\ (n + 1) - 1 = n
        BY <1>1
      <4>3. WordUpTo(n + 1) = ((b * m + c) * m + d) * m + 0
        BY <1>2, <4>1, <4>2 DEF WordUpTo
      <4> QED
        BY <1>3, <4>3
    <3>2. Power[4 - j] = m /\ n + 4 - j = n + 1
      BY <1>1, <1>2, <2>3, PowersAre
    <3>3. (((a * m + b) * m + c) * m + d) * m
            = a * (m * m * m * m) + ((b * m + c) * m + d) * m
      BY <1>3, SMT
    <3>4. a \in Int
      BY <1>3
    <3> QED
      BY <1>5, <1>6, <3>1, <3>2, <3>3, <3>4
  <2> QED
    BY <2>1, <2>2, <2>3
<1>8. PICK q \in Int : WordUpTo(n) * Power[4 - j] = q * Modulus + WordUpTo(n + 4 - j)
  BY <1>7
<1>9. PICK w : w = WordUpTo(n + 4 - j)
  OBVIOUS
<1>10. w \in Int
  <2>1. n + 4 - j \in Int
    BY <1>1
  <2>2. w \in Word
    BY <1>9, <2>1, WordUpToIs
  <2> QED
    BY <2>2, ModulusIs
<1>11. (r + (q * Modulus + w)) % Modulus = (r + w) % Modulus
  <2>1. (q * Modulus + 0) % Modulus = 0
    <3>1. 0 \in 0 .. Modulus - 1 /\ Modulus \in Nat \ {0}
      BY ModulusIs
    <3> QED
      BY <3>1, RemainderIs, Zenon
  <2>2. q * Modulus \in Int /\ q * Modulus + 0 = q * Modulus /\ r + w \in Int
    BY <1>10, ModulusIs
  <2>3. (((q * Modulus) % Modulus) + (r + w)) % Modulus = (q * Modulus + (r + w)) % Modulus
    BY <2>2, ModulusIs, RemainderOfSum
  <2>4. q * Modulus + (r + w) = r + (q * Modulus + w) /\ 0 + (r + w) = r + w
    BY <1>10, <2>2
  <2> QED
    BY <2>1, <2>2, <2>3, <2>4
<1> QED
  BY <1>8, <1>9, <1>11

LEMMA FinalChecksum == CRC_Finalize(CrcAt(FileLength)).result = ModularSum
<1> DEFINE n == FileLength
           k == n \div 4
           last == (n + 3) \div 4
<1>1. n \in Nat
  BY FileIs
<1>2. ModularSum = Sums[last]
  BY SumsHold DEF SumsAre
<1>3. CASE n % 4 = 0
  <2>1. last = k
    BY <1>1, <1>3
  <2>2. CRC_Finalize(CrcAt(n)).result = Sums[k]
    BY <1>3 DEF CRC_Finalize, CrcAt
  <2> QED
    BY <1>2, <2>1, <2>2
<1>4. CASE n % 4 # 0
  <2>1. PICK j \in 1 .. 3 : n % 4 = j
    BY <1>1, <1>4
  <2>2. last = k + 1 /\ last \in 1 .. (n + 3) \div 4 /\ last - 1 = k /\ 4 * last = n + 4 - j
        /\ k \in 0 .. (n + 3) \div 4
    BY <1>1, <2>1
  <2>3. CRC_Finalize(CrcAt(n)).result = (Sums[k] + WordUpTo(n) * Power[4 - j]) % Modulus
    BY <1>4, <2>1 DEF CRC_Finalize, CrcAt, Modulus
  <2>4. Sums[last] = (Sums[k] + WordUpTo(n + 4 - j)) % Modulus /\ Sums[k] \in Word
    BY <2>2, SumsHold DEF SumsAre
  <2>5. Sums[k] \in Int
    BY <2>4, ModulusIs
  <2> HIDE DEF k, last
  <2> QED
    BY <1>2, <2>1, <2>3, <2>4, <2>5, LastWord
<1> QED
  BY <1>3, <1>4

(* Where the piece i of n octets ends.                                     *)
PieceEnd(n, i) == IF i * n <= FileLength THEN i * n ELSE FileLength

LEMMA PiecesAre ==
  ASSUME NEW n \in Nat \ {0}
  PROVE  LET count == (FileLength + n - 1) \div n
         IN  /\ count \in Nat /\ PieceEnd(n, 0) = 0 /\ PieceEnd(n, count) = FileLength
             /\ \A i \in 1 .. count : /\ (i - 1) * n = PieceEnd(n, i - 1)
                                      /\ Min({i * n, FileLength}) = PieceEnd(n, i)
                                      /\ PieceEnd(n, i - 1) \in 0 .. FileLength
                                      /\ PieceEnd(n, i) \in PieceEnd(n, i - 1) .. FileLength
<1> DEFINE l == FileLength
           count == (l + n - 1) \div n
<1>1. l \in Nat
  BY FileIs
<1>2. count \in Nat /\ count * n <= l + n - 1 /\ l + n - 1 < count * n + n
  <2>1. l + n - 1 \in Nat
    BY <1>1
  <2> QED
    BY <2>1, QuotientBounds
<1> HIDE DEF count
<1>3. 0 * n = 0 /\ count * n \in Nat /\ count * n >= l
  BY <1>1, <1>2
<1>4. PieceEnd(n, 0) = 0 /\ PieceEnd(n, count) = l
  BY <1>1, <1>2, <1>3 DEF PieceEnd
<1>5. ASSUME NEW i \in 1 .. count
      PROVE  /\ (i - 1) * n = PieceEnd(n, i - 1)
             /\ Min({i * n, l}) = PieceEnd(n, i)
             /\ PieceEnd(n, i - 1) \in 0 .. l
             /\ PieceEnd(n, i) \in PieceEnd(n, i - 1) .. l
  <2>1. i * n \in Nat /\ (i - 1) * n = i * n - n /\ (i - 1) * n \in Nat /\ i * n <= count * n
    <3>1. i \in Nat /\ i - 1 \in Nat /\ count - i \in Nat
      BY <1>2
    <3>2. i * n \in Nat /\ (i - 1) * n \in Nat /\ (count - i) * n \in Nat
      BY <3>1
    <3>3. (i - 1) * n = i * n - n /\ (count - i) * n = count * n - i * n
      BY <1>2, <3>1
    <3> QED
      BY <1>3, <3>2, <3>3
  <2>2. (i - 1) * n <= l
    BY <1>1, <1>2, <1>3, <2>1
  <2>3. Min({i * n, l}) \in {i * n, l} /\ \A y \in {i * n, l} : Min({i * n, l}) <= y
    <3>1. {i * n, l} \subseteq Nat /\ {i * n, l} # {}
      BY <1>1, <2>1
    <3> HIDE DEF l
    <3> QED
      BY <3>1, MinProperties, Zenon
  <2>4. PICK x, y, m : x = i * n /\ y = (i - 1) * n /\ m = Min({i * n, l})
    OBVIOUS
  <2>5. x \in Nat /\ y \in Nat /\ y = x - n /\ y <= l /\ m \in {x, l} /\ m <= x /\ m <= l
    BY <2>1, <2>2, <2>3, <2>4
  <2>6. m = (IF x <= l THEN x ELSE l)
    BY <1>1, <2>5
  <2> QED
    BY <1>1, <2>4, <2>5, <2>6 DEF PieceEnd
<1> QED
  BY <1>2, <1>4, <1>5 DEF count

(* The receiver's checksum of the whole file, in pieces of n octets.       *)
LEMMA ChecksumInPieces ==
  ASSUME NEW n \in Nat \ {0}, file = File
  PROVE  ChecksumBy(n) = ModularSum
<1> DEFINE count == (FileLength + n - 1) \div n
           Piece(i) == SubSeq(file, (i - 1) * n + 1, Min({i * n, FileLength}))
           pieces == [i \in 1 .. count |-> Piece(i)]
           step == [p \in CrcStates \X (1 .. count) |-> CRC_Digest(p[1], pieces[p[2]])]
           it[s \in SUBSET (1 .. count)] ==
             IF s = {} THEN CRC_Start ELSE CRC_Digest(it[s \ {Max(s)}], pieces[Max(s)])
           e(i) == PieceEnd(n, i)
           G == {i \in Nat : i <= count => it[1 .. i] = CrcAt(e(i))}
<1>1. /\ count \in Nat /\ e(0) = 0 /\ e(count) = FileLength
      /\ \A i \in 1 .. count : /\ (i - 1) * n = e(i - 1)
                               /\ Min({i * n, FileLength}) = e(i)
                               /\ e(i - 1) \in 0 .. FileLength
                               /\ e(i) \in e(i - 1) .. FileLength
  BY PiecesAre
<1>2. ChecksumBy(n) = CRC_Finalize(it[1 .. count]).result
  BY DEF ChecksumBy, FoldLeft, MapThenFoldSet
<1> HIDE DEF count, e
<1>3. \A i \in 1 .. count : pieces[i] = SubSeq(File, e(i - 1) + 1, e(i))
  BY <1>1
<1>4. DOMAIN pieces = 1 .. count
  OBVIOUS
<1> HIDE DEF pieces
<1>5. ASSUME NEW x \in CrcStates, NEW i \in 1 .. count
      PROVE  CRC_Digest(x, pieces[i]) \in CrcStates
  <2>1. pieces[i] \in Seq(0 .. Radix - 1)
    <3>1. e(i - 1) \in 0 .. FileLength /\ e(i) \in e(i - 1) .. FileLength
      BY <1>1
    <3>2. SubSeq(File, e(i - 1) + 1, e(i)) \in Seq(0 .. Radix - 1)
      BY <3>1, DigestOfFile
    <3> QED
      BY <1>3, <3>2
  <2> QED
    BY <2>1, DigestIs
<1>6. /\ step \in [CrcStates \X (1 .. count) -> CrcStates]
      /\ \A x \in CrcStates, i \in 1 .. count : step[<<x, i>>] = CRC_Digest(x, pieces[i])
  BY <1>5
<1> HIDE DEF step
<1>7. CRC_Start \in CrcStates
  <2>1. 0 \in 0 .. FileLength
    BY FileIs
  <2> QED
    BY <2>1, CrcAtStart, CrcAtIs
<1>8. it = [s \in SUBSET (1 .. count) |->
              IF s = {} THEN CRC_Start ELSE CRC_Digest(it[s \ {Max(s)}], pieces[Max(s)])]
  <2>1. PICK jt \in [SUBSET (1 .. count) -> CrcStates] : Folded(jt, count, CRC_Start, step)
    BY <1>1, <1>6, <1>7, FoldExists
  <2>2. ASSUME NEW s \in SUBSET (1 .. count), s # {}
        PROVE  step[<<jt[s \ {Max(s)}], Max(s)>>] = CRC_Digest(jt[s \ {Max(s)}], pieces[Max(s)])
    <3>1. Max(s) \in 1 .. count /\ jt[s \ {Max(s)}] \in CrcStates
      BY <1>1, <2>2, MaxOfSet
    <3> QED
      BY <1>6, <3>1
  <2>3. jt = [s \in SUBSET (1 .. count) |->
                IF s = {} THEN CRC_Start ELSE CRC_Digest(jt[s \ {Max(s)}], pieces[Max(s)])]
    BY <2>1, <2>2, Zenon DEF Folded
  <2> QED
    BY <2>3
<1> HIDE DEF it
<1>9. 0 \in G
  <2>1. it[1 .. 0] = CRC_Start
    BY <1>1, <1>8, Initials
  <2> QED
    BY <1>1, <2>1, CrcAtStart
<1>10. ASSUME NEW i \in Nat, i \in G PROVE i + 1 \in G
  <2> SUFFICES ASSUME i + 1 <= count PROVE it[1 .. (i + 1)] = CrcAt(e(i + 1))
    OBVIOUS
  <2>1. i + 1 \in 1 .. count /\ (i + 1) - 1 = i /\ i <= count
    BY <1>1
  <2> DEFINE k == i + 1
  <2>2. /\ 1 .. k \in SUBSET (1 .. count) /\ 1 .. k # {}
        /\ Max(1 .. k) = k /\ (1 .. k) \ {k} = 1 .. (k - 1)
    BY <1>1, <2>1, Initials
  <2>3. it[1 .. k] = CRC_Digest(it[(1 .. k) \ {Max(1 .. k)}], pieces[Max(1 .. k)])
    BY <1>8, <2>2, Zenon
  <2>4. it[1 .. i] = CrcAt(e(i))
    BY <1>10, <2>1
  <2>5. /\ pieces[k] = SubSeq(File, e(i) + 1, e(k))
        /\ e(i) \in 0 .. FileLength /\ e(k) \in e(i) .. FileLength
    BY <1>1, <1>3, <2>1
  <2>6. CRC_Digest(CrcAt(e(i)), pieces[k]) = CrcAt(e(k))
    BY <2>5, DigestOfFile
  <2> QED
    BY <2>1, <2>2, <2>3, <2>4, <2>6
<1> HIDE DEF G
<1>11. Nat \subseteq G
  BY <1>9, <1>10, Induction
<1>12. it[1 .. count] = CrcAt(FileLength)
  BY <1>1, <1>11 DEF G
<1> QED
  BY <1>2, <1>12, FinalChecksum

-------------------------------------------------------------------------------
(* Numbers and their octets *)

LEMMA PowersOf256 ==
  /\ 256 ^ 0 = 1 /\ 256 ^ 1 = 256 /\ 256 ^ 2 = 65536 /\ 256 ^ 3 = 16777216
  /\ 256 ^ 4 = 65536 * 65536
BY SMT

LEMMA OctetsAre ==
  ASSUME NEW v \in Nat, NEW n \in Nat
  PROVE  Octets(v, n) \in Seq(Octet) /\ Len(Octets(v, n)) = n
<1>1. ASSUME NEW k \in 1 .. n
      PROVE  (IF n - k >= 4 THEN 0 ELSE (v \div 256 ^ (n - k)) % 256) \in Octet
  <2>1. CASE n - k >= 4
    BY <2>1 DEF Octet
  <2>2. CASE ~(n - k >= 4)
    <3>1. n - k = 0 \/ n - k = 1 \/ n - k = 2 \/ n - k = 3
      BY <2>2
    <3>2. 256 ^ (n - k) \in Nat \ {0}
      <4>1. CASE n - k = 0
        BY <4>1, 256 ^ 0 = 1, SMT
      <4>2. CASE n - k = 1
        BY <4>2, 256 ^ 1 = 256, SMT
      <4>3. CASE n - k = 2
        BY <4>3, 256 ^ 2 = 65536, SMT
      <4>4. CASE n - k = 3
        BY <4>4, 256 ^ 3 = 16777216, SMT
      <4> QED
        BY <3>1, <4>1, <4>2, <4>3, <4>4
    <3>3. v \div 256 ^ (n - k) \in Nat
      BY <3>2, QuotientBounds
    <3>4. (v \div 256 ^ (n - k)) % 256 \in 0 .. 255
      BY <3>3, SMT
    <3> QED
      BY <2>2, <3>4 DEF Octet
  <2> QED
    BY <2>1, <2>2
<1>2. Octets(v, n) = [k \in 1 .. n |-> IF n - k >= 4 THEN 0 ELSE (v \div 256 ^ (n - k)) % 256]
  BY DEF Octets
<1> QED
  BY <1>1, <1>2

(* The value of at most four octets.                                       *)
LEMMA ValueOf ==
  ASSUME NEW o \in Seq(Octet)
  PROVE  /\ Value(o) \in Nat
         /\ Len(o) = 1 => Value(o) = o[1]
         /\ Len(o) = 2 => Value(o) = o[1] * 256 + o[2]
         /\ Len(o) = 3 => Value(o) = (o[1] * 256 + o[2]) * 256 + o[3]
         /\ Len(o) = 4 => Value(o) = ((o[1] * 256 + o[2]) * 256 + o[3]) * 256 + o[4]
<1>1. PICK h : /\ h[0] = 0 /\ Value(o) = h[Len(o)]
               /\ \A k \in 0 .. Len(o) : h[k] \in Nat
               /\ \A k \in 1 .. Len(o) : h[k] = h[k - 1] * 256 + o[k]
  BY ValueRuns
<1>2. Len(o) \in Nat /\ \A k \in 1 .. Len(o) : o[k] \in Nat
  BY OctetsAreNumbers
<1>3. Value(o) \in Nat
  BY <1>1, <1>2
<1>4. Len(o) >= 1 => h[1] = o[1]
  BY <1>1, <1>2
<1>5. Len(o) >= 2 => h[2] = h[1] * 256 + o[2]
  BY <1>1, <1>2
<1>6. Len(o) >= 3 => h[3] = h[2] * 256 + o[3]
  BY <1>1, <1>2
<1>7. Len(o) >= 4 => h[4] = h[3] * 256 + o[4]
  BY <1>1, <1>2
<1>8. Len(o) = 1 => Value(o) = o[1]
  BY <1>1, <1>4
<1>9. Len(o) = 2 => Value(o) = o[1] * 256 + o[2]
  BY <1>1, <1>4, <1>5
<1>10. Len(o) = 3 => Value(o) = (o[1] * 256 + o[2]) * 256 + o[3]
  <2> SUFFICES ASSUME Len(o) = 3 PROVE Value(o) = (o[1] * 256 + o[2]) * 256 + o[3]
    OBVIOUS
  <2>1. Value(o) = h[3] /\ h[3] = h[2] * 256 + o[3] /\ h[2] = h[1] * 256 + o[2] /\ h[1] = o[1]
    BY <1>1, <1>4, <1>5, <1>6, SMT
  <2> QED
    BY <2>1, Zenon
<1>11. Len(o) = 4 => Value(o) = ((o[1] * 256 + o[2]) * 256 + o[3]) * 256 + o[4]
  <2> SUFFICES ASSUME Len(o) = 4
               PROVE  Value(o) = ((o[1] * 256 + o[2]) * 256 + o[3]) * 256 + o[4]
    OBVIOUS
  <2>1. /\ Value(o) = h[4] /\ h[4] = h[3] * 256 + o[4] /\ h[3] = h[2] * 256 + o[3]
        /\ h[2] = h[1] * 256 + o[2] /\ h[1] = o[1]
    BY <1>1, <1>4, <1>5, <1>6, <1>7, SMT
  <2>2. h[3] = (o[1] * 256 + o[2]) * 256 + o[3]
    BY <2>1, SMTT(60)
  <2> QED
    BY <2>1, <2>2, Zenon
<1> QED
  BY <1>3, <1>8, <1>9, <1>10, <1>11

(* A number that n octets hold.                                            *)
Fits(v, n) ==
  /\ v \in Numbers32 /\ n \in 1 .. 4
  /\ n = 1 => v < 256
  /\ n = 2 => v < 65536
  /\ n = 3 => v < 16777216

LEMMA ValueOfOctets ==
  ASSUME NEW v, NEW n, Fits(v, n)
  PROVE  Value(Octets(v, n)) = v
<1>1. v \in Nat /\ v \div 65536 < 65536 /\ n \in 1 .. 4
  BY DEF Fits, Numbers32
<1> DEFINE o == Octets(v, n)
<1>2. o \in Seq(Octet) /\ Len(o) = n
  BY <1>1, OctetsAre
<1>3. \A k \in 1 .. n : o[k] = IF n - k >= 4 THEN 0 ELSE (v \div 256 ^ (n - k)) % 256
  BY DEF Octets
<1>4. v \div 1 = v
  BY <1>1, SMT
<1> HIDE DEF o
<1>5. CASE n = 1
  <2>1. o[1] = (v \div 256 ^ (1 - 1)) % 256
    BY <1>3, <1>5, SMT
  <2>2. o[1] = v % 256
    BY <1>1, <1>4, <2>1, PowersOf256, SMT
  <2>3. v % 256 = v
    BY <1>1, <1>5, SMT DEF Fits
  <2> QED
    <3>1. Value(o) = o[1]
      BY <1>2, <1>5, ValueOf, SMT
    <3> QED
      BY <2>2, <2>3, <3>1, SMT DEF o
<1>6. CASE n = 2
  <2>1. o[1] = (v \div 256 ^ (2 - 1)) % 256 /\ o[2] = (v \div 256 ^ (2 - 2)) % 256
    BY <1>3, <1>6, SMT
  <2>2. o[1] = (v \div 256) % 256 /\ o[2] = v % 256
    BY <1>1, <1>4, <2>1, PowersOf256, SMT
  <2>3. Value(o) = o[1] * 256 + o[2]
    BY <1>2, <1>6, ValueOf, SMT
  <2>4. v < 65536
    BY <1>6, SMT DEF Fits
  <2> QED
    BY <1>1, <2>2, <2>3, <2>4, SMTT(60) DEF o
<1>7. CASE n = 3
  <2>1. /\ o[1] = (v \div 256 ^ (3 - 1)) % 256 /\ o[2] = (v \div 256 ^ (3 - 2)) % 256
        /\ o[3] = (v \div 256 ^ (3 - 3)) % 256
    BY <1>3, <1>7, SMT
  <2>2. o[1] = (v \div 65536) % 256 /\ o[2] = (v \div 256) % 256 /\ o[3] = v % 256
    BY <1>1, <1>4, <2>1, PowersOf256, SMT
  <2>3. Value(o) = (o[1] * 256 + o[2]) * 256 + o[3]
    BY <1>2, <1>7, ValueOf, SMT
  <2>4. v < 16777216
    BY <1>7, SMT DEF Fits
  <2> QED
    BY <1>1, <2>2, <2>3, <2>4, SMTT(60) DEF o
<1>8. CASE n = 4
  <2>1. /\ o[1] = (v \div 256 ^ (4 - 1)) % 256 /\ o[2] = (v \div 256 ^ (4 - 2)) % 256
        /\ o[3] = (v \div 256 ^ (4 - 3)) % 256 /\ o[4] = (v \div 256 ^ (4 - 4)) % 256
    BY <1>3, <1>8, SMT
  <2>2. /\ o[1] = (v \div 16777216) % 256 /\ o[2] = (v \div 65536) % 256
        /\ o[3] = (v \div 256) % 256 /\ o[4] = v % 256
    BY <1>1, <1>4, <2>1, PowersOf256, SMT
  <2>3. Value(o) = ((o[1] * 256 + o[2]) * 256 + o[3]) * 256 + o[4]
    BY <1>2, <1>8, ValueOf, SMT
  <2> QED
    BY <1>1, <2>2, <2>3, SMTT(60) DEF o
<1>9. n = 1 \/ n = 2 \/ n = 3 \/ n = 4
  BY <1>1
<1> QED
  BY <1>5, <1>6, <1>7, <1>8, <1>9 DEF o

LEMMA EncodedSizeIs ==
  ASSUME NEW v \in Numbers32
  PROVE  GetValueEncodedSize(v) \in 1 .. 4 /\ Fits(v, GetValueEncodedSize(v))
<1> DEFINE P(n) == (v < 256 ^ n \/ n = 4) /\ \A k \in 1 .. n - 1 : v >= 256 ^ k
           s == GetValueEncodedSize(v)
<1>1. v \in Nat
  BY DEF Numbers32
<1>2. \E n \in 1 .. 4 : P(n)
  <2>1. CASE v < 256 ^ 1
    <3>1. P(1)
      BY <2>1
    <3> QED
      BY <3>1
  <2>2. CASE ~(v < 256 ^ 1) /\ v < 256 ^ 2
    <3>1. P(2)
      BY <1>1, <2>2, PowersOf256, SMT
    <3> QED
      BY <3>1
  <2>3. CASE ~(v < 256 ^ 1) /\ ~(v < 256 ^ 2) /\ v < 256 ^ 3
    <3>1. P(3)
      BY <1>1, <2>3, PowersOf256, SMT
    <3> QED
      BY <3>1
  <2>4. CASE ~(v < 256 ^ 1) /\ ~(v < 256 ^ 2) /\ ~(v < 256 ^ 3)
    <3>1. P(4)
      BY <1>1, <2>4, PowersOf256, SMT
    <3> QED
      BY <3>1
  <2> QED
    BY <2>1, <2>2, <2>3, <2>4
<1>3. s \in 1 .. 4 /\ P(s)
  <2>1. s = CHOOSE n \in 1 .. 4 : P(n)
    BY DEF GetValueEncodedSize
  <2> HIDE DEF s, P
  <2> QED
    BY <1>2, <2>1
<1>4. v < 256 ^ s \/ s = 4
  BY <1>3
<1> HIDE DEF s, P
<1>5. s = 1 \/ s = 2 \/ s = 3 \/ s = 4
  BY <1>3
<1>6. s = 1 => v < 256
  BY <1>4, 256 ^ 1 = 256, SMT
<1>7. s = 2 => v < 65536
  BY <1>4, 256 ^ 2 = 65536, SMT
<1>8. s = 3 => v < 16777216
  BY <1>4, 256 ^ 3 = 16777216, SMT
<1> QED
  BY <1>3, <1>6, <1>7, <1>8, SMT DEF s, Fits

-------------------------------------------------------------------------------
(* Encoders and decoders *)

Codecs(b) == [is_valid : BOOLEAN, next_offset : Nat, max_size : Nat, base : {b}]

LEMMA SetDoneIs ==
  ASSUME NEW b, NEW d \in Codecs(b)
  PROVE  /\ SetDone(d) \in Codecs(b) /\ ~SetDone(d).is_valid
         /\ SetDone(d).next_offset = d.next_offset /\ SetDone(d).max_size = d.max_size
BY DEF Codecs, SetDone

LEMMA OffsetIs ==
  ASSUME NEW b, NEW d \in Codecs(b), NEW n \in Nat
  PROVE  LET c == [d EXCEPT !.next_offset = @ + n]
         IN  /\ c \in Codecs(b) /\ c.is_valid = d.is_valid
             /\ c.next_offset = d.next_offset + n /\ c.max_size = d.max_size
BY DEF Codecs

LEMMA CheckSizeIs ==
  ASSUME NEW b, NEW d \in Codecs(b), NEW n \in Nat
  PROVE  LET c == CheckSize(d, n)
         IN  /\ c \in Codecs(b) /\ c.max_size = d.max_size
             /\ d.next_offset + n > d.max_size => ~c.is_valid /\ c.next_offset = d.next_offset
             /\ ~(d.next_offset + n > d.max_size) =>
                   c.is_valid = d.is_valid /\ c.next_offset = d.next_offset + n
BY SetDoneIs, OffsetIs DEF CheckSize

LEMMA BaseIs ==
  ASSUME NEW b, NEW d \in Codecs(b), NEW c
  PROVE  LET e == [d EXCEPT !.base = c]
         IN  /\ e \in Codecs(c) /\ e.base = c /\ e.is_valid = d.is_valid
             /\ e.next_offset = d.next_offset /\ e.max_size = d.max_size
BY DEF Codecs

(* The octets r lie in base behind the first at ones.                      *)
Holds(base, at, r) == \A i \in 1 .. Len(r) : base[at + i] = r[i]

(* The first at octets of c are those of b.                                *)
Keeps(c, b, at) == \A i \in 1 .. at : c[i] = b[i]

LEMMA HoldsKept ==
  ASSUME NEW b, NEW c, NEW at \in Nat, NEW n \in Nat, Keeps(c, b, n),
         NEW r \in Seq(Octet), Holds(b, at, r), at + Len(r) <= n
  PROVE  Holds(c, at, r)
<1> SUFFICES ASSUME NEW i \in 1 .. Len(r) PROVE c[at + i] = r[i]
  BY DEF Holds
<1>1. Len(r) \in Nat
  BY LenProperties
<1>2. at + i \in 1 .. n
  BY <1>1
<1> QED
  BY <1>2 DEF Holds, Keeps

LEMMA KeepsLess ==
  ASSUME NEW b, NEW c, NEW d, NEW n \in Nat, NEW m \in Nat, m <= n, Keeps(c, b, m), Keeps(d, c, n)
  PROVE  Keeps(d, b, m)
BY DEF Keeps

(* An encoder of a PDU with at octets, with which nothing went wrong.      *)
Encoder(e, at) ==
  /\ e \in Codecs(e.base) /\ e.base \in [1 .. MaxPduSize -> Octet] /\ e.max_size = MaxPduSize
  /\ e.is_valid /\ e.next_offset = at /\ at \in 0 .. MaxPduSize

LEMMA EncodeAt ==
  ASSUME NEW e, NEW at, Encoder(e, at), NEW r \in Seq(Octet), at + Len(r) <= MaxPduSize
  PROVE  LET f == Encode(e, r)
         IN  Encoder(f, at + Len(r)) /\ Holds(f.base, at, r) /\ Keeps(f.base, e.base, at)
<1> DEFINE n == Len(r)
           base == [i \in 1 .. MaxPduSize |-> IF i > at /\ i <= at + n THEN r[i - at]
                                                                       ELSE e.base[i]]
           c == CheckSize(e, n)
           f == Encode(e, r)
<1>1. at \in Nat /\ n \in Nat /\ at + n \in 0 .. MaxPduSize /\ MaxPduSize \in Nat
  BY LenProperties, SizeAssumption DEF Encoder
<1>2. /\ e.is_valid /\ e.next_offset = at /\ e.max_size = MaxPduSize /\ e \in Codecs(e.base)
      /\ e.base \in [1 .. MaxPduSize -> Octet]
  BY DEF Encoder
<1>3. /\ c \in Codecs(e.base) /\ c.base = e.base /\ c.is_valid /\ c.next_offset = at + n
      /\ c.max_size = MaxPduSize
  <2>1. ~(e.next_offset + n > e.max_size)
    BY <1>1, <1>2
  <2>2. c \in Codecs(e.base) /\ c.is_valid = e.is_valid /\ c.next_offset = e.next_offset + n
        /\ c.max_size = e.max_size
    BY <1>1, <1>2, <2>1, CheckSizeIs
  <2>3. c.base = e.base
    BY <2>2 DEF Codecs
  <2> QED
    BY <1>2, <2>2, <2>3
<1> HIDE DEF c
<1>4. f = [c EXCEPT !.base = base]
  <2>1. DOMAIN c.base = 1 .. MaxPduSize
    BY <1>2, <1>3
  <2>2. base = [i \in DOMAIN c.base |-> IF i > at /\ i <= at + n THEN r[i - at] ELSE c.base[i]]
    BY <1>3, <2>1
  <2> HIDE DEF base
  <2>3. f = [c EXCEPT !.base =
               [i \in DOMAIN @ |-> IF i > at /\ i <= at + n THEN r[i - at] ELSE @[i]]]
    BY <1>2, <1>3 DEF Encode, c
  <2> QED
    BY <2>2, <2>3
<1>5. /\ f \in Codecs(base) /\ f.base = base /\ f.is_valid /\ f.next_offset = at + n
      /\ f.max_size = MaxPduSize
  <2> HIDE DEF base, f
  <2> QED
    BY <1>3, <1>4, BaseIs
<1>6. base \in [1 .. MaxPduSize -> Octet]
  <2> SUFFICES ASSUME NEW i \in 1 .. MaxPduSize, i > at, i <= at + n PROVE r[i - at] \in Octet
    BY <1>2
  <2>1. i - at \in 1 .. n
    BY <1>1
  <2> QED
    BY <2>1, ElementOfSeq
<1>7. Holds(base, at, r)
  <2> SUFFICES ASSUME NEW i \in 1 .. n PROVE base[at + i] = r[i]
    BY DEF Holds
  <2>1. /\ at + i \in 1 .. MaxPduSize /\ at + i > at /\ at + i <= at + n /\ (at + i) - at = i
    BY <1>1
  <2> QED
    BY <2>1
<1>8. Keeps(base, e.base, at)
  <2> SUFFICES ASSUME NEW i \in 1 .. at PROVE base[i] = e.base[i]
    BY DEF Keeps
  <2>1. i \in 1 .. MaxPduSize /\ ~(i > at)
    BY <1>1
  <2> QED
    BY <2>1
<1> HIDE DEF base, f
<1>9. Encoder(f, at + n)
  BY <1>1, <1>5, <1>6 DEF Encoder
<1> QED
  BY <1>5, <1>7, <1>8, <1>9 DEF f

LEMMA EncodeStartAt == Encoder(EncodeStart, 0)
<1>1. MaxPduSize \in Nat /\ Junk \in Octet
  BY SizeAssumption, WireAssumption
<1>2. /\ EncodeStart \in Codecs(EncodeStart.base) /\ EncodeStart.is_valid
      /\ EncodeStart.next_offset = 0 /\ EncodeStart.max_size = MaxPduSize
      /\ EncodeStart.base \in [1 .. MaxPduSize -> Octet]
  BY <1>1 DEF EncodeStart, CodecState, Codecs
<1> QED
  BY <1>1, <1>2 DEF Encoder

(* A decoder of a message of the given size, behind at octets; those that  *)
(* are left are as in base.                                                *)
Decoder(d, base, size, at) ==
  /\ d \in Codecs(d.base) /\ d.is_valid /\ d.max_size = size /\ d.next_offset = at
  /\ size \in Nat /\ at \in 0 .. size
  /\ \A i \in at + 1 .. size : base[i] \in Octet /\ d.base[i] = base[i]

(* A decoder that has found an error.                                      *)
Broken(d) == d \in Codecs(d.base) /\ ~d.is_valid

LEMMA BrokenStays ==
  ASSUME NEW d, Broken(d), NEW n \in Nat
  PROVE  /\ Broken(CheckSize(d, n)) /\ Broken(SetDone(d))
         /\ Broken(Decode(d, n).s) /\ Decode(d, n).v = <<>>
<1>1. d \in Codecs(d.base) /\ ~d.is_valid
  BY DEF Broken
<1>2. CheckSize(d, n) \in Codecs(d.base) /\ ~CheckSize(d, n).is_valid
  BY <1>1, CheckSizeIs
<1>3. SetDone(d) \in Codecs(d.base) /\ ~SetDone(d).is_valid
  BY <1>1, SetDoneIs
<1>4. Decode(d, n).s = CheckSize(d, n) /\ Decode(d, n).v = <<>>
  BY <1>2 DEF Decode
<1>5. \A b, c : c \in Codecs(b) => c.base = b
  BY DEF Codecs
<1> QED
  BY <1>2, <1>3, <1>4, <1>5 DEF Broken

LEMMA CheckSizeAt ==
  ASSUME NEW d, NEW base, NEW size, NEW at, Decoder(d, base, size, at), NEW n \in Nat
  PROVE  /\ at + n > size => Broken(CheckSize(d, n))
         /\ at + n <= size => Decoder(CheckSize(d, n), base, size, at + n)
         /\ Broken(SetDone(d))
<1>1. /\ d \in Codecs(d.base) /\ d.is_valid /\ d.max_size = size /\ d.next_offset = at
      /\ size \in Nat /\ at \in Nat
      /\ \A i \in at + 1 .. size : base[i] \in Octet /\ d.base[i] = base[i]
  BY DEF Decoder
<1> DEFINE c == CheckSize(d, n)
<1>2. /\ c \in Codecs(d.base) /\ c.max_size = size
      /\ at + n > size => ~c.is_valid
      /\ ~(at + n > size) => c.is_valid /\ c.next_offset = at + n
  BY <1>1, CheckSizeIs
<1>3. c.base = d.base
  BY <1>2 DEF Codecs
<1> HIDE DEF c
<1>4. ASSUME at + n > size PROVE Broken(c)
  BY <1>2, <1>3, <1>4 DEF Broken
<1>5. ASSUME at + n <= size PROVE Decoder(c, base, size, at + n)
  <2>1. at + n \in 0 .. size /\ ~(at + n > size) /\ (at + n) + 1 .. size \subseteq at + 1 .. size
    BY <1>1, <1>5
  <2>2. \A i \in (at + n) + 1 .. size : base[i] \in Octet /\ c.base[i] = base[i]
    BY <1>1, <1>3, <2>1
  <2> QED
    BY <1>1, <1>2, <1>3, <2>1, <2>2 DEF Decoder
<1>6. Broken(SetDone(d))
  <2>1. SetDone(d) \in Codecs(d.base) /\ ~SetDone(d).is_valid
    BY <1>1, SetDoneIs
  <2> QED
    BY <2>1 DEF Broken, Codecs
<1> QED
  BY <1>4, <1>5, <1>6 DEF c

LEMMA ChunkIs ==
  ASSUME NEW d, NEW base, NEW size, NEW at, Decoder(d, base, size, at),
         NEW n \in Nat, at + n <= size
  PROVE  LET v == ChunkAt(d, n)
         IN  v \in Seq(Octet) /\ Len(v) = n /\ \A i \in 1 .. n : v[i] = base[at + i]
<1>1. /\ d.next_offset = at /\ size \in Nat /\ at \in Nat
      /\ \A i \in at + 1 .. size : base[i] \in Octet /\ d.base[i] = base[i]
  BY DEF Decoder
<1>2. PICK b : b = d.base
  OBVIOUS
<1> DEFINE c == SubSeq(b, at + 1, at + n)
<1>3. \A j \in (at + 1) .. (at + n) : b[j] \in Octet /\ b[j] = base[j]
  BY <1>1, <1>2
<1>4. /\ c \in Seq(Octet) /\ Len(c) = (IF at + 1 <= at + n THEN (at + n) - (at + 1) + 1 ELSE 0)
      /\ \A i \in 1 .. (at + n) - (at + 1) + 1 : c[i] = b[(at + 1) + i - 1]
  <2>1. at + 1 \in Int /\ at + n \in Int
    BY <1>1
  <2> QED
    BY <1>3, <2>1, SubSeqProperties
<1>5. (IF at + 1 <= at + n THEN (at + n) - (at + 1) + 1 ELSE 0) = n /\ (at + n) - (at + 1) + 1 = n
      /\ \A i \in 1 .. n : (at + 1) + i - 1 = at + i /\ at + i \in (at + 1) .. (at + n)
  BY <1>1
<1> HIDE DEF c
<1>6. c \in Seq(Octet) /\ Len(c) = n /\ \A i \in 1 .. n : c[i] = base[at + i]
  BY <1>3, <1>4, <1>5
<1> QED
  BY <1>1, <1>2, <1>6 DEF c, ChunkAt

LEMMA DecodeAt ==
  ASSUME NEW d, NEW base, NEW size, NEW at, Decoder(d, base, size, at), NEW n \in Nat
  PROVE  LET e == Decode(d, n)
         IN  /\ at + n > size => Broken(e.s) /\ ~e.s.is_valid
             /\ at + n <= size => /\ Decoder(e.s, base, size, at + n) /\ e.s.is_valid
                                  /\ e.v \in Seq(Octet) /\ Len(e.v) = n
                                  /\ \A i \in 1 .. n : e.v[i] = base[at + i]
<1> DEFINE e == Decode(d, n)
<1>1. e.s = CheckSize(d, n) /\ e.v = IF e.s.is_valid THEN ChunkAt(d, n) ELSE <<>>
  BY DEF Decode
<1> HIDE DEF e
<1>2. ASSUME at + n > size PROVE Broken(e.s) /\ ~e.s.is_valid
  BY <1>1, <1>2, CheckSizeAt DEF Broken
<1>3. ASSUME at + n <= size
      PROVE  /\ Decoder(e.s, base, size, at + n) /\ e.s.is_valid
             /\ e.v \in Seq(Octet) /\ Len(e.v) = n /\ \A i \in 1 .. n : e.v[i] = base[at + i]
  <2>1. Decoder(e.s, base, size, at + n)
    BY <1>1, <1>3, CheckSizeAt
  <2>2. e.s.is_valid
    BY <2>1 DEF Decoder
  <2> QED
    BY <1>1, <1>3, <2>1, <2>2, ChunkIs
<1> QED
  BY <1>2, <1>3 DEF e

(* Decoding what is known to be there.                                     *)
LEMMA DecodeHeld ==
  ASSUME NEW d, NEW base, NEW size, NEW at, Decoder(d, base, size, at),
         NEW r \in Seq(Octet), Holds(base, at, r), NEW n, n = Len(r)
  PROVE  LET e == Decode(d, n)
         IN  /\ n \in Nat
             /\ at + n > size => Broken(e.s) /\ ~e.s.is_valid
             /\ at + n <= size => Decoder(e.s, base, size, at + n) /\ e.s.is_valid /\ e.v = r
<1>1. n \in Nat
  BY LenProperties
<1> DEFINE e == Decode(d, n)
<1>2. /\ at + n > size => Broken(e.s) /\ ~e.s.is_valid
      /\ at + n <= size => /\ Decoder(e.s, base, size, at + n) /\ e.s.is_valid
                           /\ e.v \in Seq(Octet) /\ Len(e.v) = n
                           /\ \A i \in 1 .. n : e.v[i] = base[at + i]
  BY <1>1, DecodeAt
<1> HIDE DEF e
<1>3. ASSUME at + n <= size PROVE e.v = r
  <2>1. \A i \in 1 .. n : e.v[i] = r[i]
    BY <1>2, <1>3 DEF Holds
  <2>2. e.v \in Seq(Octet) /\ Len(e.v) = Len(r)
    BY <1>2, <1>3
  <2> QED
    BY <2>1, <2>2, SeqEqual
<1> QED
  BY <1>1, <1>2, <1>3 DEF e

-------------------------------------------------------------------------------
(* Fields of octets *)

LEMMA PowersOf2 ==
  /\ 2 ^ 0 = 1 /\ 2 ^ 1 = 2 /\ 2 ^ 2 = 4 /\ 2 ^ 3 = 8 /\ 2 ^ 4 = 16 /\ 2 ^ 5 = 32
  /\ 2 ^ 6 = 64 /\ 2 ^ 7 = 128
BY SMT

HeaderFlags(h) ==
  Field(h.version, 3, 5) + Field(h.pdu_type, 1, 4) + Field(h.direction, 1, 3)
    + Field(h.txm_mode, 1, 2)

HeaderLengths(h) ==
  Field(h.segmentation_control, 1, 7) + Field(h.eid_length - 1, 3, 4)
    + Field(h.segment_meta_flag, 1, 3) + Field(h.txn_seq_length - 1, 3, 0)

(* The first octet of a header, to which a peer may add flags.             *)
LEMMA FlagsAre ==
  ASSUME NEW v \in 0 .. 7, NEW p \in 0 .. 1, NEW d \in 0 .. 1, NEW t \in 0 .. 1,
         NEW x \in 0 .. 3, NEW f,
         f = Field(v, 3, 5) + Field(p, 1, 4) + Field(d, 1, 3) + Field(t, 1, 2) + x
  PROVE  /\ f \in Octet
         /\ GetField(f, 3, 5) = v /\ GetField(f, 1, 4) = p /\ GetField(f, 1, 3) = d
         /\ GetField(f, 1, 2) = t /\ GetField(f, 1, 1) = x \div 2 /\ GetField(f, 1, 0) = x % 2
<1>1. f = v * 32 + p * 16 + d * 8 + t * 4 + x
  <2>1. v % 8 = v /\ p % 2 = p /\ d % 2 = d /\ t % 2 = t
    BY SMT
  <2> QED
    BY <2>1, PowersOf2, SMT DEF Field
<1>2. f \in Octet
  BY <1>1, SMT DEF Octet
<1>3. GetField(f, 3, 5) = (f \div 32) % 8
  BY PowersOf2, SMT DEF GetField
<1>4. GetField(f, 1, 4) = (f \div 16) % 2
  BY PowersOf2, SMT DEF GetField
<1>5. GetField(f, 1, 3) = (f \div 8) % 2
  BY PowersOf2, SMT DEF GetField
<1>6. GetField(f, 1, 2) = (f \div 4) % 2
  BY PowersOf2, SMT DEF GetField
<1>7. GetField(f, 1, 1) = (f \div 2) % 2
  BY PowersOf2, SMT DEF GetField
<1>8. GetField(f, 1, 0) = f % 2
  <2>1. f \div 1 = f
    BY <1>1, SMT
  <2> QED
    BY <2>1, PowersOf2, SMT DEF GetField
<1>9. (f \div 32) % 8 = v
  BY <1>1, SMT
<1>10. (f \div 16) % 2 = p
  BY <1>1, SMT
<1>11. (f \div 8) % 2 = d
  BY <1>1, SMT
<1>12. (f \div 4) % 2 = t
  BY <1>1, SMT
<1>13. (f \div 2) % 2 = x \div 2
  BY <1>1, SMT
<1>14. f % 2 = x % 2
  BY <1>1, SMT
<1> QED
  BY <1>2, <1>3, <1>4, <1>5, <1>6, <1>7, <1>8, <1>9, <1>10, <1>11, <1>12, <1>13, <1>14, SMT

LEMMA LengthsAre ==
  ASSUME NEW c \in 0 .. 1, NEW e \in 1 .. 8, NEW m \in 0 .. 1, NEW s \in 1 .. 8, NEW l,
         l = Field(c, 1, 7) + Field(e - 1, 3, 4) + Field(m, 1, 3) + Field(s - 1, 3, 0)
  PROVE  /\ l \in Octet
         /\ GetField(l, 1, 7) = c /\ GetField(l, 3, 4) = e - 1 /\ GetField(l, 1, 3) = m
         /\ GetField(l, 3, 0) = s - 1
<1>1. l = c * 128 + (e - 1) * 16 + m * 8 + (s - 1)
  <2>1. c % 2 = c /\ (e - 1) % 8 = e - 1 /\ m % 2 = m /\ (s - 1) % 8 = s - 1
    BY SMT
  <2> QED
    BY <2>1, PowersOf2, SMT DEF Field
<1>2. l \in Octet
  BY <1>1, SMT DEF Octet
<1>3. GetField(l, 1, 7) = (l \div 128) % 2
  BY PowersOf2, SMT DEF GetField
<1>4. GetField(l, 3, 4) = (l \div 16) % 8
  BY PowersOf2, SMT DEF GetField
<1>5. GetField(l, 1, 3) = (l \div 8) % 2
  BY PowersOf2, SMT DEF GetField
<1>6. GetField(l, 3, 0) = l % 8
  <2>1. l \div 1 = l
    BY <1>1, SMT
  <2> QED
    BY <2>1, PowersOf2, SMT DEF GetField
<1>7. (l \div 128) % 2 = c
  BY <1>1, SMT
<1>8. (l \div 16) % 8 = e - 1
  BY <1>1, SMT
<1>9. (l \div 8) % 2 = m
  BY <1>1, SMT
<1>10. l % 8 = s - 1
  BY <1>1, SMT
<1> QED
  BY <1>2, <1>3, <1>4, <1>5, <1>6, <1>7, <1>8, <1>9, <1>10, SMT

(* The octets of directives: two fields of four bits, and those of a FIN.  *)
LEMMA NibblesAre ==
  ASSUME NEW a \in 0 .. 15, NEW b \in 0 .. 15, NEW f, f = Field(a, 4, 4) + Field(b, 4, 0)
  PROVE  f \in Octet /\ GetField(f, 4, 4) = a /\ GetField(f, 4, 0) = b
<1>1. f = a * 16 + b
  <2>1. a % 16 = a /\ b % 16 = b
    BY SMT
  <2> QED
    BY <2>1, PowersOf2, SMT DEF Field
<1>2. f \in Octet
  BY <1>1, SMT DEF Octet
<1>3. GetField(f, 4, 4) = (f \div 16) % 16
  BY PowersOf2, SMT DEF GetField
<1>4. GetField(f, 4, 0) = f % 16
  <2>1. f \div 1 = f
    BY <1>1, SMT
  <2> QED
    BY <2>1, PowersOf2, SMT DEF GetField
<1>5. (f \div 16) % 16 = a
  BY <1>1, SMT
<1>6. f % 16 = b
  BY <1>1, SMT
<1> QED
  BY <1>2, <1>3, <1>4, <1>5, <1>6, SMT

LEMMA FinFieldsAre ==
  ASSUME NEW a \in 0 .. 15, NEW b \in 0 .. 1, NEW c \in 0 .. 3, NEW f,
         f = Field(a, 4, 4) + Field(b, 1, 2) + Field(c, 2, 0)
  PROVE  /\ f \in Octet
         /\ GetField(f, 4, 4) = a /\ GetField(f, 1, 2) = b /\ GetField(f, 2, 0) = c
<1>1. f = a * 16 + b * 4 + c
  <2>1. a % 16 = a /\ b % 2 = b /\ c % 4 = c
    BY SMT
  <2> QED
    BY <2>1, PowersOf2, SMT DEF Field
<1>2. f \in Octet
  BY <1>1, SMT DEF Octet
<1>3. GetField(f, 4, 4) = (f \div 16) % 16
  BY PowersOf2, SMT DEF GetField
<1>4. GetField(f, 1, 2) = (f \div 4) % 2
  BY PowersOf2, SMT DEF GetField
<1>5. GetField(f, 2, 0) = f % 4
  <2>1. f \div 1 = f
    BY <1>1, SMT
  <2> QED
    BY <2>1, PowersOf2, SMT DEF GetField
<1>6. (f \div 16) % 16 = a
  BY <1>1, SMT
<1>7. (f \div 4) % 2 = b
  BY <1>1, SMT
<1>8. f % 4 = c
  BY <1>1, SMT
<1> QED
  BY <1>2, <1>3, <1>4, <1>5, <1>6, <1>7, <1>8, SMT

(* The first octet of metadata, and the second one of an acknowledgement.  *)
LEMMA MdFieldsAre ==
  ASSUME NEW a \in 0 .. 1, NEW f, f = Field(a, 1, 7) + Field(0, 4, 0)
  PROVE  f \in Octet /\ GetField(f, 1, 7) = a /\ GetField(f, 4, 0) = 0
<1>1. f = a * 128
  <2>1. a % 2 = a
    BY SMT
  <2> QED
    BY <2>1, PowersOf2, SMT DEF Field
<1>2. f \in Octet
  BY <1>1, SMT DEF Octet
<1>3. GetField(f, 1, 7) = (f \div 128) % 2
  BY PowersOf2, SMT DEF GetField
<1>4. GetField(f, 4, 0) = f % 16
  <2>1. f \div 1 = f
    BY <1>1, SMT
  <2> QED
    BY <2>1, PowersOf2, SMT DEF GetField
<1>5. (f \div 128) % 2 = a
  BY <1>1, SMT
<1>6. f % 16 = 0
  BY <1>1, SMT
<1> QED
  BY <1>2, <1>3, <1>4, <1>5, <1>6, SMT

LEMMA AckFieldsAre ==
  ASSUME NEW a \in 0 .. 15, NEW b \in 0 .. 3, NEW f, f = Field(a, 4, 4) + Field(b, 2, 0)
  PROVE  f \in Octet /\ GetField(f, 4, 4) = a /\ GetField(f, 2, 0) = b
<1>1. f = a * 16 + b
  <2>1. a % 16 = a /\ b % 4 = b
    BY SMT
  <2> QED
    BY <2>1, PowersOf2, SMT DEF Field
<1>2. f \in Octet
  BY <1>1, SMT DEF Octet
<1>3. GetField(f, 4, 4) = (f \div 16) % 16
  BY PowersOf2, SMT DEF GetField
<1>4. GetField(f, 2, 0) = f % 4
  <2>1. f \div 1 = f
    BY <1>1, SMT
  <2> QED
    BY <2>1, PowersOf2, SMT DEF GetField
<1>5. (f \div 16) % 16 = a
  BY <1>1, SMT
<1>6. f % 4 = b
  BY <1>1, SMT
<1> QED
  BY <1>2, <1>3, <1>4, <1>5, <1>6, SMT

-------------------------------------------------------------------------------
(* Headers *)

(* A header as CF builds it, or with identifiers that are too long.        *)
Encodable(h) ==
  /\ h \in PduHeader /\ h.eid_length \in 1 .. 5 /\ h.txn_seq_length \in 1 .. 4

HeaderLength(h) == 4 + (2 * h.eid_length + h.txn_seq_length)

LEMMA RoomForHeaders ==
  /\ MaxPduSize \in Nat /\ MaxPduSize >= 32 /\ Junk \in Octet
  /\ MaxPduSize >= 25 + 8 * MaxSegments /\ MaxPduSize >= 24 + 2 * MaxFilename
  /\ MaxSegments \in Nat /\ MaxFilename \in Octet /\ MaxFilename \in Nat
<1>1. Octet \subseteq Nat
  BY DEF Octet
<1> QED
  BY <1>1, SizeAssumption, WireAssumption, CodecAssumption, SMT
     DEF LongestHeader, HeaderSize, EntityIdSize

LEMMA IdOctetsAre ==
  ASSUME NEW h, Encodable(h)
  PROVE  /\ Octets(h.source_eid, h.eid_length) \in Seq(Octet)
         /\ Octets(h.sequence_num, h.txn_seq_length) \in Seq(Octet)
         /\ Octets(h.destination_eid, h.eid_length) \in Seq(Octet)
         /\ Len(Octets(h.source_eid, h.eid_length)) = h.eid_length
         /\ Len(Octets(h.sequence_num, h.txn_seq_length)) = h.txn_seq_length
         /\ Len(Octets(h.destination_eid, h.eid_length)) = h.eid_length
<1>1. /\ h.source_eid \in Nat /\ h.sequence_num \in Nat /\ h.destination_eid \in Nat
      /\ h.eid_length \in Nat /\ h.txn_seq_length \in Nat
  BY DEF Encodable, PduHeader
<1> QED
  BY <1>1, OctetsAre

LEMMA HeaderOctetsAre ==
  ASSUME NEW h, Encodable(h)
  PROVE  HeaderFlags(h) \in Octet /\ HeaderLengths(h) \in Octet
<1>1. /\ h.version \in 0 .. 7 /\ h.pdu_type \in 0 .. 1 /\ h.direction \in 0 .. 1
      /\ h.txm_mode \in 0 .. 1 /\ h.segmentation_control \in 0 .. 1
      /\ h.segment_meta_flag \in 0 .. 1 /\ h.eid_length \in 1 .. 8 /\ h.txn_seq_length \in 1 .. 8
  BY DEF Encodable, PduHeader
<1>2. HeaderLengths(h) \in Octet
  BY <1>1, LengthsAre DEF HeaderLengths
<1>3. HeaderFlags(h) + 0 \in Octet
  BY <1>1, FlagsAre DEF HeaderFlags
<1>4. HeaderFlags(h) + 0 = HeaderFlags(h)
  <2>1. HeaderFlags(h) \in Int
    BY <1>1, PowersOf2, SMT DEF HeaderFlags, Field
  <2> QED
    BY <2>1
<1> QED
  BY <1>2, <1>3, <1>4

LEMMA LengthBlank ==
  ASSUME NEW f \in Octet, NEW l \in Octet
  PROVE  /\ <<f>> \o SubSeq(EncodeStart.base, 2, 3) \o <<l>> = <<f, Junk, Junk, l>>
         /\ <<f, Junk, Junk, l>> \in Seq(Octet) /\ Len(<<f, Junk, Junk, l>>) = 4
<1>1. EncodeStart.base = [i \in 1 .. MaxPduSize |-> Junk]
  BY DEF EncodeStart, CodecState
<1>2. MaxPduSize \in Nat /\ MaxPduSize >= 32 /\ Junk \in Octet
  BY RoomForHeaders
<1> DEFINE base == EncodeStart.base
           c == SubSeq(base, 2, 3)
<1>3. c = <<Junk, Junk>>
  <2>1. /\ c \in Seq(Octet) /\ Len(c) = (IF 2 <= 3 THEN 3 - 2 + 1 ELSE 0)
        /\ \A i \in 1 .. 3 - 2 + 1 : c[i] = base[2 + i - 1]
    <3>1. \A j \in 2 .. 3 : base[j] \in Octet
      BY <1>1, <1>2
    <3> HIDE DEF base
    <3> QED
      BY <3>1, SubSeqProperties, SMT
  <2>2. base[2] = Junk /\ base[3] = Junk
    BY <1>1, <1>2
  <2> HIDE DEF base, c
  <2>3. c \in Seq(Octet) /\ Len(c) = 2 /\ \A i \in 1 .. 2 : c[i] = base[2 + i - 1]
    BY <2>1
  <2>4. c[1] = Junk /\ c[2] = Junk
    BY <2>2, <2>3
  <2> QED
    BY <2>3, <2>4
<1> HIDE DEF base, c
<1>4. <<f>> \o c \o <<l>> = <<f, Junk, Junk, l>>
  <2>1. PICK x, y, z : x = <<f>> /\ y = <<Junk, Junk>> /\ z = <<f, Junk, Junk>>
    OBVIOUS
  <2>2. /\ x \in Seq(Octet) /\ y \in Seq(Octet) /\ z \in Seq(Octet)
        /\ Len(x) = 1 /\ Len(y) = 2 /\ Len(z) = 3 /\ x[1] = f /\ y[1] = Junk
        /\ y[2] = Junk /\ z[1] = f /\ z[2] = Junk /\ z[3] = Junk
    BY <1>2, <2>1
  <2>3. PICK u, v : u = <<l>> /\ v = <<f, Junk, Junk, l>>
    OBVIOUS
  <2>4. /\ u \in Seq(Octet) /\ Len(u) = 1 /\ u[1] = l /\ v \in Seq(Octet) /\ Len(v) = 4
        /\ v[1] = f /\ v[2] = Junk /\ v[3] = Junk /\ v[4] = l
    BY <1>2, <2>3
  <2>5. x \in Seq(Octet) /\ y \in Seq(Octet) /\ z \in Seq(Octet) /\ u \in Seq(Octet)
    BY <2>2, <2>4
  <2>6. x \o y = z
    <3>1. x \o y \in Seq(Octet) /\ Len(x \o y) = Len(x) + Len(y)
          /\ \A i \in 1 .. Len(x) + Len(y) : (x \o y)[i] = IF i <= Len(x) THEN x[i] ELSE y[i - Len(x)]
      BY <2>5, ConcatProperties, Zenon
    <3>2. Len(x \o y) = 3 /\ (x \o y)[1] = x[1] /\ (x \o y)[2] = y[1] /\ (x \o y)[3] = y[2]
      BY <2>2, <3>1
    <3>3. \A i \in 1 .. 3 : (x \o y)[i] = z[i]
      BY <2>2, <3>2
    <3> QED
      BY <2>2, <3>1, <3>2, <3>3, SeqEqual
  <2>7. z \o u = v
    <3>1. z \o u \in Seq(Octet) /\ Len(z \o u) = Len(z) + Len(u)
          /\ \A i \in 1 .. Len(z) + Len(u) : (z \o u)[i] = IF i <= Len(z) THEN z[i] ELSE u[i - Len(z)]
      BY <2>5, ConcatProperties, Zenon
    <3>2. /\ Len(z \o u) = 4 /\ (z \o u)[1] = z[1] /\ (z \o u)[2] = z[2] /\ (z \o u)[3] = z[3]
          /\ (z \o u)[4] = u[1]
      BY <2>2, <2>4, <3>1
    <3>3. \A i \in 1 .. 4 : (z \o u)[i] = v[i]
      BY <2>2, <2>4, <3>2
    <3> QED
      BY <2>4, <3>1, <3>2, <3>3, SeqEqual
  <2> QED
    BY <1>3, <2>1, <2>3, <2>6, <2>7
<1>5. <<f, Junk, Junk, l>> \in Seq(Octet) /\ Len(<<f, Junk, Junk, l>>) = 4
  BY <1>2
<1> QED
  BY <1>4, <1>5 DEF c, base

(* The numbers of the header, in base.                                     *)
IdsIn(base, h) ==
  /\ Holds(base, 4, Octets(h.source_eid, h.eid_length))
  /\ Holds(base, 4 + h.eid_length, Octets(h.sequence_num, h.txn_seq_length))
  /\ Holds(base, 4 + (h.eid_length + h.txn_seq_length), Octets(h.destination_eid, h.eid_length))

LEMMA HeaderEncodes ==
  ASSUME NEW h, Encodable(h)
  PROVE  LET r == EncodeHeaderWithoutSize(EncodeStart, h)
         IN  /\ Encoder(r.s, HeaderLength(h))
             /\ r.s.base[1] = HeaderFlags(h) /\ r.s.base[4] = HeaderLengths(h)
             /\ IdsIn(r.s.base, h)
             /\ r.h = [h EXCEPT !.header_encoded_length = HeaderLength(h)]
<1> DEFINE f == HeaderFlags(h)
           l == HeaderLengths(h)
           fixed == <<f, Junk, Junk, l>>
           e == Encode(EncodeStart, <<f>> \o SubSeq(EncodeStart.base, 2, 3) \o <<l>>)
<1>1. f \in Octet /\ l \in Octet
  BY HeaderOctetsAre
<1>2. PICK a, b, c : /\ a = Octets(h.source_eid, h.eid_length)
                     /\ b = Octets(h.sequence_num, h.txn_seq_length)
                     /\ c = Octets(h.destination_eid, h.eid_length)
  OBVIOUS
<1>3. PICK m, n : m = h.eid_length /\ n = h.txn_seq_length
  OBVIOUS
<1>4. /\ a \in Seq(Octet) /\ b \in Seq(Octet) /\ c \in Seq(Octet)
      /\ Len(a) = m /\ Len(b) = n /\ Len(c) = m
      /\ m \in 1 .. 5 /\ n \in 1 .. 4 /\ HeaderLength(h) = 4 + (2 * m + n)
  BY <1>2, <1>3, IdOctetsAre DEF Encodable, HeaderLength
<1> HIDE DEF f, l
<1>5. /\ <<f>> \o SubSeq(EncodeStart.base, 2, 3) \o <<l>> = fixed
      /\ fixed \in Seq(Octet) /\ Len(fixed) = 4 /\ fixed[1] = f /\ fixed[4] = l
  BY <1>1, LengthBlank
<1> HIDE DEF fixed
<1>6. Encoder(e, 4) /\ Holds(e.base, 0, fixed)
  <2>1. 0 + Len(fixed) <= MaxPduSize /\ 0 + Len(fixed) = 4
    BY <1>5, RoomForHeaders
  <2> QED
    BY <1>5, <2>1, EncodeStartAt, EncodeAt
<1> HIDE DEF e
<1> DEFINE e1 == Encode(e, a)
           e2 == Encode(e1, b)
           e3 == Encode(e2, c)
<1>7. Encoder(e1, 4 + m) /\ Holds(e1.base, 4, a) /\ Keeps(e1.base, e.base, 4)
  <2>1. 4 + Len(a) <= MaxPduSize /\ 4 + Len(a) = 4 + m
    BY <1>4, RoomForHeaders
  <2> QED
    BY <1>4, <1>6, <2>1, EncodeAt
<1> HIDE DEF e1
<1>8. Encoder(e2, 4 + (m + n)) /\ Holds(e2.base, 4 + m, b) /\ Keeps(e2.base, e1.base, 4 + m)
  <2>1. (4 + m) + Len(b) <= MaxPduSize /\ (4 + m) + Len(b) = 4 + (m + n)
    BY <1>4, RoomForHeaders
  <2> QED
    BY <1>4, <1>7, <2>1, EncodeAt
<1> HIDE DEF e2
<1>9. /\ Encoder(e3, HeaderLength(h)) /\ Holds(e3.base, 4 + (m + n), c)
       /\ Keeps(e3.base, e2.base, 4 + (m + n))
  <2>1. /\ (4 + (m + n)) + Len(c) <= MaxPduSize
        /\ (4 + (m + n)) + Len(c) = HeaderLength(h)
    BY <1>4, RoomForHeaders
  <2> QED
    BY <1>4, <1>8, <2>1, EncodeAt
<1> HIDE DEF e3
<1>10. /\ 4 + m \in Nat /\ 4 + (m + n) \in Nat /\ 4 + m <= 4 + (m + n) /\ 4 <= 4 + m
       /\ 4 + Len(a) <= 4 + m /\ (4 + m) + Len(b) <= 4 + (m + n) /\ 4 <= 4 + (m + n)
  BY <1>4
<1>11. Keeps(e3.base, e1.base, 4 + m) /\ Keeps(e3.base, e.base, 4)
  BY <1>7, <1>8, <1>9, <1>10, KeepsLess
<1>12. Holds(e3.base, 4, a) /\ Holds(e3.base, 4 + m, b)
  BY <1>4, <1>7, <1>8, <1>9, <1>10, <1>11, HoldsKept
<1>13. IdsIn(e3.base, h)
  BY <1>2, <1>3, <1>9, <1>12 DEF IdsIn
<1>14. e3.base[1] = f /\ e3.base[4] = l
  <2>1. e.base[0 + 1] = fixed[1] /\ e.base[0 + 4] = fixed[4]
    BY <1>5, <1>6 DEF Holds
  <2>2. e3.base[1] = e.base[1] /\ e3.base[4] = e.base[4]
    BY <1>11 DEF Keeps
  <2> QED
    BY <1>5, <2>1, <2>2
<1>15. e.is_valid /\ e3.next_offset = HeaderLength(h)
  BY <1>6, <1>9 DEF Encoder
<1>16. EncodeHeaderWithoutSize(EncodeStart, h)
         = [s |-> e3, h |-> [h EXCEPT !.header_encoded_length = e3.next_offset]]
  <2>1. e = Encode(EncodeStart, <<HeaderFlags(h)>> \o SubSeq(EncodeStart.base, 2, 3) \o <<HeaderLengths(h)>>)
    BY DEF e, f, l
  <2> QED
    BY <1>2, <1>15, <2>1
       DEF EncodeHeaderWithoutSize, EncodeIntegerInSize, HeaderFlags, HeaderLengths, e1, e2, e3
<1> DEFINE r == EncodeHeaderWithoutSize(EncodeStart, h)
<1>17. r.s = e3 /\ r.h = [h EXCEPT !.header_encoded_length = HeaderLength(h)]
  BY <1>15, <1>16
<1> HIDE DEF r
<1> QED
  BY <1>9, <1>13, <1>14, <1>17 DEF r, f, l

-------------------------------------------------------------------------------
(* Parts of directives *)

LEMMA PartIs ==
  ASSUME NEW s \in Seq(Octet), NEW r \in Seq(Octet), NEW i \in Nat, NEW j \in Nat,
         j = i + Len(r), j <= Len(s), \A k \in 1 .. Len(r) : s[i + k] = r[k]
  PROVE  SubSeq(s, i + 1, j) = r
<1> DEFINE c == SubSeq(s, i + 1, j)
<1>1. Len(r) \in Nat /\ Len(s) \in Nat
  BY LenProperties
<1>2. \A k \in (i + 1) .. j : s[k] \in Octet
  <2> SUFFICES ASSUME NEW k \in (i + 1) .. j PROVE s[k] \in Octet
    OBVIOUS
  <2>1. k \in 1 .. Len(s)
    BY <1>1
  <2> QED
    BY <2>1, ElementOfSeq
<1>3. /\ c \in Seq(Octet) /\ Len(c) = (IF i + 1 <= j THEN j - (i + 1) + 1 ELSE 0)
      /\ \A k \in 1 .. j - (i + 1) + 1 : c[k] = s[(i + 1) + k - 1]
  <2>1. i + 1 \in Int /\ j \in Int
    BY <1>1
  <2> QED
    BY <1>2, <2>1, SubSeqProperties
<1>4. (IF i + 1 <= j THEN j - (i + 1) + 1 ELSE 0) = Len(r) /\ j - (i + 1) + 1 = Len(r)
      /\ \A k \in 1 .. Len(r) : (i + 1) + k - 1 = i + k
  BY <1>1
<1> HIDE DEF c
<1>5. c \in Seq(Octet) /\ Len(c) = Len(r) /\ \A k \in 1 .. Len(r) : c[k] = r[k]
  BY <1>3, <1>4
<1>6. c = r
  BY <1>5, SeqEqual
<1> QED
  BY <1>6 DEF c

(* The fields of the fixed parts of directives.                            *)
LEMMA PairIs ==
  ASSUME NEW a \in Seq(Octet), NEW b \in Seq(Octet), Len(a) = 4, Len(b) = 4
  PROVE  /\ a \o b \in Seq(Octet) /\ Len(a \o b) = 8
         /\ SubSeq(a \o b, 1, 4) = a /\ SubSeq(a \o b, 5, 8) = b
<1>1. PICK s : s = a \o b
  OBVIOUS
<1>2. /\ s \in Seq(Octet) /\ Len(s) = Len(a) + Len(b)
      /\ \A i \in 1 .. Len(a) + Len(b) : s[i] = IF i <= Len(a) THEN a[i] ELSE b[i - Len(a)]
  BY <1>1, ConcatProperties
<1>3. /\ Len(s) = 8 /\ \A k \in 1 .. 4 : s[0 + k] = a[k] /\ s[4 + k] = b[k]
  BY <1>2
<1>4. SubSeq(s, 0 + 1, 4) = a
  BY <1>2, <1>3, PartIs
<1>5. SubSeq(s, 4 + 1, 8) = b
  BY <1>2, <1>3, PartIs
<1> QED
  BY <1>1, <1>2, <1>3, <1>4, <1>5

LEMMA OctetAndIs ==
  ASSUME NEW x \in Octet, NEW a \in Seq(Octet), Len(a) = 4
  PROVE  /\ <<x>> \o a \in Seq(Octet) /\ Len(<<x>> \o a) = 5
         /\ (<<x>> \o a)[1] = x /\ SubSeq(<<x>> \o a, 2, 5) = a
<1>1. PICK s, o : s = o \o a /\ o = <<x>>
  OBVIOUS
<1>2. o \in Seq(Octet) /\ Len(o) = 1 /\ o[1] = x
  BY <1>1
<1>3. /\ s \in Seq(Octet) /\ Len(s) = Len(o) + Len(a)
      /\ \A i \in 1 .. Len(o) + Len(a) : s[i] = IF i <= Len(o) THEN o[i] ELSE a[i - Len(o)]
  BY <1>1, <1>2, ConcatProperties, ZenonT(60)
<1>4. /\ Len(s) = 5 /\ s[1] = x /\ \A k \in 1 .. 4 : s[1 + k] = a[k]
  BY <1>2, <1>3
<1>5. SubSeq(s, 1 + 1, 5) = a
  BY <1>3, <1>4, PartIs
<1> QED
  BY <1>1, <1>3, <1>4, <1>5

LEMMA OctetAndPairIs ==
  ASSUME NEW x \in Octet, NEW a \in Seq(Octet), NEW b \in Seq(Octet), Len(a) = 4, Len(b) = 4
  PROVE  /\ <<x>> \o a \o b \in Seq(Octet) /\ Len(<<x>> \o a \o b) = 9
         /\ (<<x>> \o a \o b)[1] = x
         /\ SubSeq(<<x>> \o a \o b, 2, 5) = a /\ SubSeq(<<x>> \o a \o b, 6, 9) = b
<1>1. PICK o, p, s : s = p \o b /\ p = o \o a /\ o = <<x>>
  OBVIOUS
<1>2. o \in Seq(Octet) /\ Len(o) = 1 /\ o[1] = x
  BY <1>1
<1>3. /\ p \in Seq(Octet) /\ Len(p) = Len(o) + Len(a)
      /\ \A i \in 1 .. Len(o) + Len(a) : p[i] = IF i <= Len(o) THEN o[i] ELSE a[i - Len(o)]
  BY <1>1, <1>2, ConcatProperties, ZenonT(60)
<1>4. /\ Len(p) = 5 /\ p[1] = x /\ \A k \in 1 .. 4 : p[1 + k] = a[k]
  BY <1>2, <1>3
<1>5. /\ s \in Seq(Octet) /\ Len(s) = Len(p) + Len(b)
      /\ \A i \in 1 .. Len(p) + Len(b) : s[i] = IF i <= Len(p) THEN p[i] ELSE b[i - Len(p)]
  BY <1>1, <1>3, ConcatProperties
<1>6. /\ Len(s) = 9 /\ s[1] = p[1]
      /\ \A k \in 1 .. 4 : s[1 + k] = p[1 + k] /\ s[5 + k] = b[k]
  BY <1>4, <1>5
<1>7. SubSeq(s, 1 + 1, 5) = a
  BY <1>4, <1>5, <1>6, PartIs
<1>8. SubSeq(s, 5 + 1, 9) = b
  BY <1>5, <1>6, PartIs
<1> QED
  BY <1>1, <1>4, <1>5, <1>6, <1>7, <1>8

LEMMA FourOctets ==
  ASSUME NEW v \in Numbers32
  PROVE  /\ Octets(v, 4) \in Seq(Octet) /\ Len(Octets(v, 4)) = 4 /\ Value(Octets(v, 4)) = v
         /\ v \in Nat
<1>1. v \in Nat /\ Fits(v, 4)
  BY DEF Numbers32, Fits
<1> QED
  BY <1>1, OctetsAre, ValueOfOctets

-------------------------------------------------------------------------------
(* Fault locations *)

(* What reports the entity at which a fault was found, if there was one.   *)
Fault(v) == Tlv(EntityIdTlv, GetValueEncodedSize(v), v)
Faults == {<<>>} \cup {<<Fault(v)>> : v \in Numbers32}

FaultOctets(v) == Octets(v, GetValueEncodedSize(v))
FaultsSize(list) == IF list = <<>> THEN 0 ELSE 2 + list[1].length

FaultsIn(base, at, list) ==
  list = <<>> \/ \E v \in Numbers32 : /\ list = <<Fault(v)>>
                                      /\ Holds(base, at, <<EntityIdTlv, GetValueEncodedSize(v)>>)
                                      /\ Holds(base, at + 2, FaultOctets(v))

LEMMA FaultIs ==
  ASSUME NEW v \in Numbers32
  PROVE  /\ Fault(v).type = EntityIdTlv /\ Fault(v).length = GetValueEncodedSize(v)
         /\ Fault(v).eid = v /\ EntityIdTlv \in Octet
         /\ GetValueEncodedSize(v) \in 1 .. 4 /\ GetValueEncodedSize(v) \in Octet
         /\ FaultOctets(v) \in Seq(Octet) /\ Len(FaultOctets(v)) = GetValueEncodedSize(v)
         /\ Value(FaultOctets(v)) = v
         /\ <<Fault(v)>> # <<>> /\ <<Fault(v)>>[1] = Fault(v) /\ Len(<<Fault(v)>>) = 1
         /\ FaultsSize(<<Fault(v)>>) = 2 + GetValueEncodedSize(v)
         /\ <<EntityIdTlv, GetValueEncodedSize(v)>> \in Seq(Octet)
         /\ Len(<<EntityIdTlv, GetValueEncodedSize(v)>>) = 2
<1>1. /\ Fault(v).type = EntityIdTlv /\ Fault(v).length = GetValueEncodedSize(v)
      /\ Fault(v).eid = v
  BY DEF Fault, Tlv
<1>2. EntityIdTlv \in Octet
  BY DEF EntityIdTlv, Octet
<1>3. GetValueEncodedSize(v) \in 1 .. 4 /\ Fits(v, GetValueEncodedSize(v))
  BY EncodedSizeIs
<1>4. GetValueEncodedSize(v) \in Octet
  BY <1>3 DEF Octet
<1>5. v \in Nat /\ GetValueEncodedSize(v) \in Nat
  BY <1>3 DEF Numbers32
<1>6. FaultOctets(v) \in Seq(Octet) /\ Len(FaultOctets(v)) = GetValueEncodedSize(v)
  BY <1>5, OctetsAre DEF FaultOctets
<1>7. Value(FaultOctets(v)) = v
  BY <1>3, ValueOfOctets DEF FaultOctets
<1>8. <<Fault(v)>> # <<>> /\ <<Fault(v)>>[1] = Fault(v) /\ Len(<<Fault(v)>>) = 1
  OBVIOUS
<1>9. FaultsSize(<<Fault(v)>>) = 2 + GetValueEncodedSize(v)
  BY <1>1, <1>8 DEF FaultsSize
<1>10. /\ <<EntityIdTlv, GetValueEncodedSize(v)>> \in Seq(Octet)
       /\ Len(<<EntityIdTlv, GetValueEncodedSize(v)>>) = 2
  BY <1>2, <1>4
<1> QED
  BY <1>1, <1>2, <1>3, <1>4, <1>6, <1>7, <1>8, <1>9, <1>10

(* The encoding of a list with at most one entry.                          *)
LEMMA FewTlvs ==
  ASSUME NEW e, e.is_valid
  PROVE  /\ EncodeAllTlv(e, <<>>) = e
         /\ \A tlv : EncodeAllTlv(e, <<tlv>>) = EncodeTLV(e, tlv)
<1> DEFINE op(x, tlv) == IF x.is_valid THEN EncodeTLV(x, tlv) ELSE x
<1>1. EncodeAllTlv(e, <<>>) = e
  <2> DEFINE n == Len(<<>>)
             it[s \in SUBSET (DOMAIN <<>>)] ==
               IF s = {} THEN e ELSE op(it[s \ {Max(s)}], <<>>[Max(s)])
             jt == [s \in SUBSET (DOMAIN <<>>) |-> e]
  <2>1. EncodeAllTlv(e, <<>>) = it[DOMAIN <<>>]
    BY DEF EncodeAllTlv, FoldLeft, MapThenFoldSet
  <2>2. DOMAIN <<>> = {}
    OBVIOUS
  <2>3. \A s \in SUBSET (DOMAIN <<>>) : s = {}
    BY <2>2
  <2>4. jt = [s \in SUBSET (DOMAIN <<>>) |->
                IF s = {} THEN e ELSE op(jt[s \ {Max(s)}], <<>>[Max(s)])]
    BY <2>3
  <2>5. it = [s \in SUBSET (DOMAIN <<>>) |->
                IF s = {} THEN e ELSE op(it[s \ {Max(s)}], <<>>[Max(s)])]
    <3> HIDE DEF jt, op
    <3> QED
      BY <2>4
  <2> HIDE DEF it, op
  <2>6. it[DOMAIN <<>>] = e
    BY <2>2, <2>3, <2>5
  <2> QED
    BY <2>1, <2>6
<1>2. ASSUME NEW tlv PROVE EncodeAllTlv(e, <<tlv>>) = EncodeTLV(e, tlv)
  <2> DEFINE seq == <<tlv>>
             it[s \in SUBSET (DOMAIN seq)] ==
               IF s = {} THEN e ELSE op(it[s \ {Max(s)}], seq[Max(s)])
             jt == [s \in SUBSET (DOMAIN seq) |-> IF s = {} THEN e ELSE op(e, tlv)]
  <2>1. EncodeAllTlv(e, <<tlv>>) = it[DOMAIN seq]
    BY DEF EncodeAllTlv, FoldLeft, MapThenFoldSet
  <2>2. DOMAIN seq = 1 .. 1 /\ seq[1] = tlv
    OBVIOUS
  <2> HIDE DEF seq
  <2>3. ASSUME NEW s \in SUBSET (DOMAIN seq), s # {}
        PROVE  Max(s) = 1 /\ s \ {Max(s)} = {} /\ {} \in SUBSET (DOMAIN seq)
    <3>1. Max(s) \in 1 .. 1
      BY <2>2, <2>3, MaxOfSet
    <3> QED
      BY <2>2, <3>1
  <2>4. jt = [s \in SUBSET (DOMAIN seq) |->
                IF s = {} THEN e ELSE op(jt[s \ {Max(s)}], seq[Max(s)])]
    <3> HIDE DEF op
    <3>1. ASSUME NEW s \in SUBSET (DOMAIN seq), s # {}
          PROVE  op(jt[s \ {Max(s)}], seq[Max(s)]) = op(e, tlv)
      BY <2>2, <2>3, <3>1
    <3> QED
      BY <3>1
  <2>5. it = [s \in SUBSET (DOMAIN seq) |->
                IF s = {} THEN e ELSE op(it[s \ {Max(s)}], seq[Max(s)])]
    <3> HIDE DEF jt, op
    <3> QED
      BY <2>4
  <2> HIDE DEF it, op
  <2>6. it[DOMAIN seq] = op(it[{}], tlv) /\ it[{}] = e
    <3>1. DOMAIN seq \in SUBSET (DOMAIN seq) /\ DOMAIN seq # {} /\ {} \in SUBSET (DOMAIN seq)
      BY <2>2
    <3> QED
      BY <2>2, <2>3, <2>5, <3>1
  <2> QED
    BY <2>1, <2>6 DEF op
<1> QED
  BY <1>1, <1>2

LEMMA FaultsEncode ==
  ASSUME NEW e, NEW at, Encoder(e, at), NEW list \in Faults, at + FaultsSize(list) <= MaxPduSize
  PROVE  LET f == EncodeAllTlv(e, list)
         IN  /\ Encoder(f, at + FaultsSize(list)) /\ FaultsIn(f.base, at, list)
             /\ Keeps(f.base, e.base, at)
<1>1. e.is_valid /\ at \in Nat
  BY RoomForHeaders DEF Encoder
<1>2. CASE list = <<>>
  <2>1. EncodeAllTlv(e, list) = e /\ at + FaultsSize(list) = at
    BY <1>1, <1>2, FewTlvs DEF FaultsSize
  <2> QED
    BY <1>2, <2>1 DEF FaultsIn, Keeps
<1>3. CASE list # <<>>
  <2>1. PICK v \in Numbers32 : list = <<Fault(v)>>
    BY <1>3 DEF Faults
  <2> DEFINE n == GetValueEncodedSize(v)
             first == <<EntityIdTlv, n>>
             c == Encode(e, first)
             f == Encode(c, FaultOctets(v))
  <2>2. n \in 1 .. 4 /\ FaultsSize(list) = 2 + n
    BY <2>1, FaultIs
  <2>3. first \in Seq(Octet) /\ Len(first) = 2
    BY FaultIs
  <2>4. Encoder(c, at + 2) /\ Holds(c.base, at, first) /\ Keeps(c.base, e.base, at)
    <3> HIDE DEF first, n
    <3>1. at + Len(first) <= MaxPduSize /\ at + Len(first) = at + 2
      BY <1>1, <2>2, <2>3, RoomForHeaders
    <3> QED
      BY <2>3, <3>1, EncodeAt
  <2>5. /\ Encoder(f, at + FaultsSize(list)) /\ Holds(f.base, at + 2, FaultOctets(v))
        /\ Keeps(f.base, c.base, at + 2)
    <3> HIDE DEF c
    <3>1. FaultOctets(v) \in Seq(Octet) /\ Len(FaultOctets(v)) = n
      BY FaultIs
    <3> HIDE DEF n
    <3>2. (at + 2) + Len(FaultOctets(v)) <= MaxPduSize
          /\ (at + 2) + Len(FaultOctets(v)) = at + FaultsSize(list)
      BY <1>1, <2>2, <3>1, RoomForHeaders
    <3> QED
      BY <2>4, <3>1, <3>2, EncodeAt
  <2>6. c.is_valid
    BY <2>4 DEF Encoder
  <2>7. EncodeAllTlv(e, list) = f
    <3>1. EncodeAllTlv(e, list) = EncodeTLV(e, Fault(v))
      BY <1>1, <2>1, FewTlvs
    <3>2. c = Encode(e, <<Fault(v).type, Fault(v).length>>)
      BY FaultIs
    <3>3. f = EncodeIntegerInSize(c, Fault(v).eid, Fault(v).length)
      BY FaultIs DEF EncodeIntegerInSize, FaultOctets
    <3> HIDE DEF c, f
    <3>4. EncodeTLV(e, Fault(v)) = f
      BY <2>6, <3>2, <3>3, FaultIs DEF EncodeTLV
    <3> QED
      BY <3>1, <3>4
  <2> HIDE DEF f, c
  <2>8. Keeps(f.base, e.base, at)
    <3>1. at + 2 \in Nat /\ at <= at + 2
      BY <1>1
    <3> QED
      BY <1>1, <2>4, <2>5, <3>1, KeepsLess
  <2>9. Holds(f.base, at, first)
    <3>1. at + Len(first) <= at + 2 /\ at + 2 \in Nat
      BY <1>1, <2>3
    <3> HIDE DEF first
    <3> QED
      BY <1>1, <2>3, <2>4, <2>5, <3>1, HoldsKept
  <2>10. FaultsIn(f.base, at, list)
    BY <2>1, <2>5, <2>9 DEF FaultsIn
  <2> QED
    BY <2>5, <2>7, <2>8, <2>10
<1> QED
  BY <1>2, <1>3

-------------------------------------------------------------------------------
(* Segment requests *)

Segments == [offset_start : Numbers32, offset_end : Numbers32]

SegmentOctets(segment) == Octets(segment.offset_start, 4) \o Octets(segment.offset_end, 4)

SegmentsIn(base, at, list) ==
  \A j \in 1 .. Len(list) : Holds(base, at + 8 * (j - 1), SegmentOctets(list[j]))

LEMMA SegmentIs ==
  ASSUME NEW g \in Segments
  PROVE  /\ SegmentOctets(g) \in Seq(Octet) /\ Len(SegmentOctets(g)) = 8
         /\ Value(SubSeq(SegmentOctets(g), 1, 4)) = g.offset_start
         /\ Value(SubSeq(SegmentOctets(g), 5, 8)) = g.offset_end
         /\ Segment(g.offset_start, g.offset_end) = g
<1>1. g.offset_start \in Numbers32 /\ g.offset_end \in Numbers32
  BY DEF Segments
<1>2. PICK a, b : a = Octets(g.offset_start, 4) /\ b = Octets(g.offset_end, 4)
  OBVIOUS
<1>3. /\ a \in Seq(Octet) /\ Len(a) = 4 /\ Value(a) = g.offset_start
      /\ b \in Seq(Octet) /\ Len(b) = 4 /\ Value(b) = g.offset_end
  BY <1>1, <1>2, FourOctets
<1>4. SegmentOctets(g) = a \o b
  BY <1>2 DEF SegmentOctets
<1>5. Segment(g.offset_start, g.offset_end) = g
  BY DEF Segment, Segments
<1> QED
  BY <1>3, <1>4, <1>5, PairIs, ZenonT(60)

(* Encoders, also those with which something went wrong.                   *)
Encoders ==
  {x \in UNION {Codecs(b) : b \in [1 .. MaxPduSize -> Octet]} :
     x.is_valid => Encoder(x, x.next_offset)}

LEMMA EncodersStay ==
  ASSUME NEW x \in Encoders, x.is_valid, NEW r \in Seq(Octet)
  PROVE  Encode(x, r) \in Encoders
<1> DEFINE at == x.next_offset
           f == Encode(x, r)
           n == Len(r)
<1>1. Encoder(x, at)
  BY DEF Encoders
<1>2. at \in Nat /\ n \in Nat /\ MaxPduSize \in Nat
  BY <1>1, LenProperties, RoomForHeaders DEF Encoder
<1>3. CASE at + n <= MaxPduSize
  <2>1. Encoder(f, at + n)
    BY <1>1, <1>3, EncodeAt
  <2> HIDE DEF f
  <2>2. f \in Codecs(f.base) /\ f.base \in [1 .. MaxPduSize -> Octet] /\ f.next_offset = at + n
    BY <2>1 DEF Encoder
  <2>3. Encoder(f, f.next_offset)
    BY <2>1, <2>2
  <2> QED
    BY <2>2, <2>3 DEF Encoders, f
<1>4. CASE ~(at + n <= MaxPduSize)
  <2>1. x \in Codecs(x.base) /\ x.max_size = MaxPduSize /\ x.base \in [1 .. MaxPduSize -> Octet]
    BY <1>1 DEF Encoder
  <2>2. x.next_offset + n > x.max_size
    BY <1>2, <1>4, <2>1
  <2>3. CheckSize(x, n) \in Codecs(x.base) /\ ~CheckSize(x, n).is_valid
    BY <1>2, <2>1, <2>2, CheckSizeIs
  <2>4. f = CheckSize(x, n)
    BY <2>3 DEF Encode
  <2> HIDE DEF f
  <2> QED
    BY <2>1, <2>3, <2>4 DEF Encoders, f
<1> QED
  BY <1>3, <1>4

LEMMA SegmentsRun ==
  ASSUME NEW e, NEW at, Encoder(e, at), NEW list \in Seq(Segments)
  PROVE  \E h : /\ h[0] = e /\ EncodeAllSegments(e, list) = h[Len(list)]
                /\ \A k \in 1 .. Len(list) :
                     h[k] = IF h[k - 1].is_valid THEN Encode(h[k - 1], SegmentOctets(list[k]))
                                                 ELSE h[k - 1]
<1> DEFINE n == Len(list)
           op(x, g) == IF x.is_valid THEN EncodeSegmentRequest(x, g) ELSE x
           step == [p \in Encoders \X (1 .. n) |-> op(p[1], list[p[2]])]
           it[s \in SUBSET (1 .. n)] ==
             IF s = {} THEN e ELSE op(it[s \ {Max(s)}], list[Max(s)])
           h == [k \in 0 .. n |-> it[1 .. k]]
<1>1. n \in Nat /\ DOMAIN list = 1 .. n /\ \A k \in 1 .. n : list[k] \in Segments
  BY LenProperties, ElementOfSeq
<1>2. EncodeAllSegments(e, list) = it[1 .. n]
  BY <1>1 DEF EncodeAllSegments, FoldLeft, MapThenFoldSet
<1>3. ASSUME NEW x \in Encoders, NEW k \in 1 .. n PROVE op(x, list[k]) \in Encoders
  <2>1. SegmentOctets(list[k]) \in Seq(Octet)
    BY <1>1, SegmentIs
  <2>2. x.is_valid => Encode(x, SegmentOctets(list[k])) \in Encoders
    BY <2>1, EncodersStay
  <2> QED
    BY <2>2 DEF EncodeSegmentRequest, SegmentOctets
<1> HIDE DEF op, n
<1>4. /\ step \in [Encoders \X (1 .. n) -> Encoders]
      /\ \A x \in Encoders, k \in 1 .. n : step[<<x, k>>] = op(x, list[k])
  BY <1>3
<1> HIDE DEF step
<1>5. e \in Encoders
  BY DEF Encoders, Encoder
<1>6. it = [s \in SUBSET (1 .. n) |-> IF s = {} THEN e ELSE op(it[s \ {Max(s)}], list[Max(s)])]
  <2>1. PICK jt \in [SUBSET (1 .. n) -> Encoders] : Folded(jt, n, e, step)
    BY <1>1, <1>4, <1>5, FoldExists
  <2>2. ASSUME NEW s \in SUBSET (1 .. n), s # {}
        PROVE  step[<<jt[s \ {Max(s)}], Max(s)>>] = op(jt[s \ {Max(s)}], list[Max(s)])
    <3>1. Max(s) \in 1 .. n /\ jt[s \ {Max(s)}] \in Encoders
      BY <1>1, <2>2, MaxOfSet
    <3> QED
      BY <1>4, <3>1
  <2>3. jt = [s \in SUBSET (1 .. n) |-> IF s = {} THEN e ELSE op(jt[s \ {Max(s)}], list[Max(s)])]
    BY <2>1, <2>2, Zenon DEF Folded
  <2> QED
    BY <2>3
<1> HIDE DEF it
<1>7. it[1 .. 0] = e
  BY <1>1, <1>6, Initials
<1>8. ASSUME NEW k \in 1 .. n PROVE it[1 .. k] = op(it[1 .. (k - 1)], list[k])
  <2>1. /\ 1 .. k \in SUBSET (1 .. n) /\ 1 .. k # {}
        /\ Max(1 .. k) = k /\ (1 .. k) \ {k} = 1 .. (k - 1)
    BY <1>1, Initials
  <2>2. it[1 .. k] = op(it[(1 .. k) \ {Max(1 .. k)}], list[Max(1 .. k)])
    BY <1>6, <2>1, Zenon
  <2> QED
    BY <2>1, <2>2
<1>9. h[0] = e /\ h[n] = it[1 .. n]
  BY <1>1, <1>7
<1>10. ASSUME NEW k \in 1 .. n PROVE h[k] = op(h[k - 1], list[k])
  BY <1>1, <1>8
<1> HIDE DEF h
<1>11. \A k \in 1 .. n : h[k] = IF h[k - 1].is_valid
                                  THEN Encode(h[k - 1], SegmentOctets(list[k])) ELSE h[k - 1]
  BY <1>10 DEF op, EncodeSegmentRequest, SegmentOctets
<1> QED
  BY <1>2, <1>9, <1>11 DEF n

LEMMA SegmentsEncode ==
  ASSUME NEW e, NEW at, Encoder(e, at), NEW list \in Seq(Segments),
         at + 8 * Len(list) <= MaxPduSize
  PROVE  LET f == EncodeAllSegments(e, list)
         IN  /\ Encoder(f, at + 8 * Len(list)) /\ SegmentsIn(f.base, at, list)
             /\ Keeps(f.base, e.base, at)
<1> DEFINE n == Len(list)
<1>1. n \in Nat /\ at \in Nat /\ MaxPduSize \in Nat /\ \A k \in 1 .. n : list[k] \in Segments
  BY LenProperties, ElementOfSeq, RoomForHeaders DEF Encoder
<1>2. PICK h : /\ h[0] = e /\ EncodeAllSegments(e, list) = h[n]
               /\ \A k \in 1 .. n :
                    h[k] = IF h[k - 1].is_valid THEN Encode(h[k - 1], SegmentOctets(list[k]))
                                                ELSE h[k - 1]
  BY SegmentsRun
<1> DEFINE Good(k) == /\ Encoder(h[k], at + 8 * k) /\ Keeps(h[k].base, e.base, at)
                      /\ \A j \in 1 .. k : Holds(h[k].base, at + 8 * (j - 1), SegmentOctets(list[j]))
           G == {k \in Nat : k <= n => Good(k)}
<1>3. 0 \in G
  <2>1. at + 8 * 0 = at
    BY <1>1
  <2>2. Good(0)
    BY <1>2, <2>1 DEF Keeps
  <2> QED
    BY <2>2
<1>4. ASSUME NEW m \in Nat, m \in G PROVE m + 1 \in G
  <2> SUFFICES ASSUME m + 1 <= n PROVE Good(m + 1)
    OBVIOUS
  <2>1. m \in 0 .. n /\ m + 1 \in 1 .. n /\ (m + 1) - 1 = m /\ Good(m)
    BY <1>1, <1>4
  <2>2. h[m].is_valid
    BY <2>1 DEF Encoder
  <2>3. PICK k, o, p : k = m + 1 /\ o = at + 8 * m /\ p = at + 8 * (m + 1)
    OBVIOUS
  <2>4. PICK r : r = SegmentOctets(list[k])
    OBVIOUS
  <2>5. r \in Seq(Octet) /\ Len(r) = 8
    BY <1>1, <2>1, <2>3, <2>4, SegmentIs
  <2>6. h[k] = Encode(h[m], r)
    BY <1>2, <2>1, <2>2, <2>3, <2>4
  <2>7. /\ o \in Nat /\ p \in Nat /\ o + Len(r) = p /\ p <= MaxPduSize /\ at <= o
        /\ at + 8 * (k - 1) = o
    BY <1>1, <2>1, <2>3, <2>5
  <2>8. Encoder(h[m], o) /\ Keeps(h[m].base, e.base, at)
        /\ \A j \in 1 .. m : Holds(h[m].base, at + 8 * (j - 1), SegmentOctets(list[j]))
    BY <2>1, <2>3
  <2>9. Encoder(h[k], p) /\ Holds(h[k].base, o, r) /\ Keeps(h[k].base, h[m].base, o)
    <3>1. o + Len(r) <= MaxPduSize
      BY <2>7
    <3> QED
      BY <2>5, <2>6, <2>7, <2>8, <3>1, EncodeAt
  <2>10. Keeps(h[k].base, e.base, at)
    BY <1>1, <2>7, <2>8, <2>9, KeepsLess
  <2>11. ASSUME NEW j \in 1 .. k
         PROVE  Holds(h[k].base, at + 8 * (j - 1), SegmentOctets(list[j]))
    <3>1. CASE j = k
      BY <2>4, <2>7, <2>9, <3>1
    <3>2. CASE j # k
      <4>1. j \in 1 .. m /\ j \in 1 .. n
        BY <2>1, <2>3, <3>2
      <4>2. PICK q, u : q = at + 8 * (j - 1) /\ u = SegmentOctets(list[j])
        OBVIOUS
      <4>3. u \in Seq(Octet) /\ Len(u) = 8
        BY <1>1, <4>1, <4>2, SegmentIs
      <4>4. q \in Nat /\ q + Len(u) <= o
        BY <1>1, <2>1, <2>3, <4>1, <4>2, <4>3
      <4>5. Holds(h[m].base, q, u)
        BY <2>8, <4>1, <4>2
      <4>6. PICK b, c : b = h[m].base /\ c = h[k].base
        OBVIOUS
      <4>7. Keeps(c, b, o) /\ Holds(b, q, u) /\ o \in Nat
        BY <2>7, <2>9, <4>5, <4>6
      <4>8. Holds(c, q, u)
        BY <4>3, <4>4, <4>7, HoldsKept
      <4> QED
        BY <4>2, <4>6, <4>8
    <3> QED
      BY <3>1, <3>2
  <2> QED
    BY <2>3, <2>9, <2>10, <2>11
<1> HIDE DEF G
<1>5. Nat \subseteq G
  BY <1>3, <1>4, Induction
<1>6. Good(n)
  BY <1>1, <1>5 DEF G
<1> QED
  BY <1>2, <1>6 DEF SegmentsIn

-------------------------------------------------------------------------------
(* Metadata and EOF *)

(* Names of files with their final NUL, which one octet can count.         *)
FileNames == {o \in Seq(Octet) : Len(o) <= MaxFilename}

NameIn(base, at, o) == Holds(base, at, <<Len(o)>>) /\ Holds(base, at + 1, o)

LEMMA NameIs ==
  ASSUME NEW o \in FileNames
  PROVE  /\ o \in Seq(Octet) /\ Len(o) \in Nat /\ Len(o) <= MaxFilename /\ Len(o) \in Octet
         /\ <<Len(o)>> \in Seq(Octet) /\ Len(<<Len(o)>>) = 1
<1>1. o \in Seq(Octet) /\ Len(o) \in Nat /\ Len(o) <= MaxFilename
  BY LenProperties DEF FileNames
<1>2. Len(o) \in Octet
  <2>1. MaxFilename \in 0 .. 255 /\ MaxFilename \in Nat
    BY RoomForHeaders DEF Octet
  <2>2. ASSUME NEW n \in Nat, n <= MaxFilename PROVE n \in Octet
    BY <2>1, <2>2 DEF Octet
  <2> QED
    BY <1>1, <2>2
<1> QED
  BY <1>1, <1>2

LEMMA KeptNameIn ==
  ASSUME NEW b, NEW c, NEW at \in Nat, NEW n \in Nat, Keeps(c, b, n),
         NEW o \in FileNames, NameIn(b, at, o), at + (1 + Len(o)) <= n
  PROVE  NameIn(c, at, o)
<1>1. /\ o \in Seq(Octet) /\ Len(o) \in Nat /\ <<Len(o)>> \in Seq(Octet) /\ Len(<<Len(o)>>) = 1
  BY NameIs
<1>2. PICK l : l = <<Len(o)>>
  OBVIOUS
<1>3. /\ l \in Seq(Octet) /\ at + Len(l) <= n /\ at + 1 \in Nat /\ (at + 1) + Len(o) <= n
      /\ Holds(b, at, l) /\ Holds(b, at + 1, o)
  BY <1>1, <1>2 DEF NameIn
<1>4. Holds(c, at, l) /\ Holds(c, at + 1, o)
  BY <1>1, <1>3, HoldsKept
<1> QED
  BY <1>2, <1>4 DEF NameIn

LEMMA NameEncodes ==
  ASSUME NEW e, NEW at, Encoder(e, at), NEW o \in FileNames, at + (1 + Len(o)) <= MaxPduSize
  PROVE  LET f == EncodeLV(e, o)
         IN  /\ Encoder(f, at + (1 + Len(o))) /\ NameIn(f.base, at, o) /\ Keeps(f.base, e.base, at)
<1>1. /\ o \in Seq(Octet) /\ Len(o) \in Nat /\ <<Len(o)>> \in Seq(Octet) /\ Len(<<Len(o)>>) = 1
      /\ at \in Nat /\ MaxPduSize \in Nat
  BY NameIs, RoomForHeaders DEF Encoder
<1>2. PICK l, n : l = <<Len(o)>> /\ n = Len(o)
  OBVIOUS
<1> DEFINE c == Encode(e, l)
           f == Encode(c, o)
<1>3. EncodeLV(e, o) = f
  BY <1>2 DEF EncodeLV
<1>4. /\ l \in Seq(Octet) /\ Len(l) = 1 /\ n \in Nat /\ at + Len(l) <= MaxPduSize
      /\ at + Len(l) = at + 1 /\ (at + 1) + Len(o) <= MaxPduSize
      /\ (at + 1) + Len(o) = at + (1 + n) /\ at + 1 \in Nat /\ at <= at + 1
      /\ at + Len(l) <= at + 1
  BY <1>1, <1>2
<1>5. Encoder(c, at + 1) /\ Holds(c.base, at, l) /\ Keeps(c.base, e.base, at)
  BY <1>4, EncodeAt
<1> HIDE DEF c
<1>6. Encoder(f, at + (1 + n)) /\ Holds(f.base, at + 1, o) /\ Keeps(f.base, c.base, at + 1)
  BY <1>1, <1>4, <1>5, EncodeAt
<1> HIDE DEF f
<1>7. Keeps(f.base, e.base, at) /\ Holds(f.base, at, l)
  BY <1>1, <1>4, <1>5, <1>6, KeepsLess, HoldsKept
<1> QED
  BY <1>2, <1>3, <1>6, <1>7 DEF NameIn

(* What CF puts into metadata, and where it is then.                       *)
Md == [close_req : 0 .. 1, checksum_type : {0}, size : Numbers32,
       source_filename : FileNames, dest_filename : FileNames]

MdFlags(md) == Field(md.close_req, 1, 7) + Field(md.checksum_type, 4, 0)
MdFixed(md) == <<MdFlags(md)>> \o Octets(md.size, 4)

MdIn(base, at, md) ==
  /\ Holds(base, at, MdFixed(md)) /\ NameIn(base, at + 5, md.source_filename)
  /\ NameIn(base, at + (6 + Len(md.source_filename)), md.dest_filename)

MdSize(md) == 7 + (Len(md.source_filename) + Len(md.dest_filename))

LEMMA MdIs ==
  ASSUME NEW md \in Md
  PROVE  /\ MdFixed(md) \in Seq(Octet) /\ Len(MdFixed(md)) = 5
         /\ GetField(MdFixed(md)[1], 1, 7) = md.close_req
         /\ GetField(MdFixed(md)[1], 4, 0) = md.checksum_type
         /\ Value(SubSeq(MdFixed(md), 2, 5)) = md.size
         /\ md.source_filename \in FileNames /\ md.dest_filename \in FileNames
<1>1. /\ md.close_req \in 0 .. 1 /\ md.checksum_type = 0 /\ md.size \in Numbers32
      /\ md.source_filename \in FileNames /\ md.dest_filename \in FileNames
  BY DEF Md
<1>2. PICK x, a : x = MdFlags(md) /\ a = Octets(md.size, 4)
  OBVIOUS
<1>3. x \in Octet /\ GetField(x, 1, 7) = md.close_req /\ GetField(x, 4, 0) = 0
  BY <1>1, <1>2, MdFieldsAre DEF MdFlags
<1>4. a \in Seq(Octet) /\ Len(a) = 4 /\ Value(a) = md.size
  BY <1>1, <1>2, FourOctets
<1>5. PICK s : s = MdFixed(md)
  OBVIOUS
<1>6. s = <<x>> \o a
  BY <1>2, <1>5 DEF MdFixed
<1>7. s \in Seq(Octet) /\ Len(s) = 5 /\ s[1] = x /\ SubSeq(s, 2, 5) = a
  BY <1>3, <1>4, <1>6, OctetAndIs
<1> QED
  BY <1>1, <1>3, <1>4, <1>5, <1>7

LEMMA MdEncodes ==
  ASSUME NEW e, NEW at, Encoder(e, at), NEW md \in Md, at + MdSize(md) <= MaxPduSize
  PROVE  LET f == EncodeMd(e, md)
         IN  /\ Encoder(f, at + MdSize(md)) /\ MdIn(f.base, at, md) /\ Keeps(f.base, e.base, at)
<1>1. PICK r, s, d : r = MdFixed(md) /\ s = md.source_filename /\ d = md.dest_filename
  OBVIOUS
<1>2. PICK m, n : m = Len(s) /\ n = Len(d)
  OBVIOUS
<1>3. /\ r \in Seq(Octet) /\ Len(r) = 5 /\ s \in FileNames /\ d \in FileNames
      /\ m \in Nat /\ n \in Nat /\ at \in Nat /\ MaxPduSize \in Nat
      /\ MdSize(md) = 7 + (m + n)
  BY <1>1, <1>2, MdIs, NameIs, RoomForHeaders DEF MdSize, Encoder
<1> DEFINE c == Encode(e, r)
           g == EncodeLV(c, s)
           f == EncodeLV(g, d)
<1>4. /\ at + Len(r) <= MaxPduSize /\ at + Len(r) = at + 5 /\ at + 5 \in Nat /\ at <= at + 5
      /\ at + Len(r) <= at + 5
      /\ (at + 5) + (1 + Len(s)) <= MaxPduSize /\ (at + 5) + (1 + Len(s)) = at + (6 + m)
      /\ (at + (6 + m)) + (1 + Len(d)) <= MaxPduSize
      /\ (at + (6 + m)) + (1 + Len(d)) = at + MdSize(md)
      /\ at + (6 + m) \in Nat /\ at + 5 <= at + (6 + m) /\ at + 5 <= at + MdSize(md)
  BY <1>2, <1>3
<1>5. Encoder(c, at + 5) /\ Holds(c.base, at, r) /\ Keeps(c.base, e.base, at)
  BY <1>3, <1>4, EncodeAt
<1> HIDE DEF c
<1>6. Encoder(g, at + (6 + m)) /\ NameIn(g.base, at + 5, s) /\ Keeps(g.base, c.base, at + 5)
  BY <1>3, <1>4, <1>5, NameEncodes
<1> HIDE DEF g
<1>7. /\ Encoder(f, at + MdSize(md)) /\ NameIn(f.base, at + (6 + m), d)
      /\ Keeps(f.base, g.base, at + (6 + m))
  BY <1>3, <1>4, <1>6, NameEncodes
<1> HIDE DEF f
<1>8. Keeps(f.base, c.base, at + 5)
  BY <1>4, <1>6, <1>7, KeepsLess
<1>9. Keeps(f.base, e.base, at) /\ Holds(f.base, at, r)
  BY <1>3, <1>4, <1>5, <1>8, KeepsLess, HoldsKept
<1>10. NameIn(f.base, at + 5, s)
  <2>1. (at + 5) + (1 + Len(s)) <= at + (6 + m)
    BY <1>2, <1>3
  <2> QED
    BY <1>3, <1>4, <1>6, <1>7, <2>1, KeptNameIn
<1>11. EncodeMd(e, md) = f
  <2>1. c.is_valid
    BY <1>5 DEF Encoder
  <2> QED
    BY <1>1, <2>1 DEF EncodeMd, MdFixed, MdFlags, c, g, f
<1>12. MdIn(f.base, at, md)
  BY <1>1, <1>2, <1>7, <1>9, <1>10 DEF MdIn
<1> QED
  BY <1>7, <1>9, <1>11, <1>12

Eof == [cc : 0 .. 15, crc : Numbers32, size : Numbers32, tlv_list : Faults]

EofFixed(eof) == <<Field(eof.cc, 4, 4)>> \o Octets(eof.crc, 4) \o Octets(eof.size, 4)

EofIn(base, at, eof) ==
  Holds(base, at, EofFixed(eof)) /\ FaultsIn(base, at + 9, eof.tlv_list)

EofSize(eof) == 9 + FaultsSize(eof.tlv_list)

LEMMA EofIs ==
  ASSUME NEW eof \in Eof
  PROVE  /\ EofFixed(eof) \in Seq(Octet) /\ Len(EofFixed(eof)) = 9
         /\ GetField(EofFixed(eof)[1], 4, 4) = eof.cc
         /\ Value(SubSeq(EofFixed(eof), 2, 5)) = eof.crc
         /\ Value(SubSeq(EofFixed(eof), 6, 9)) = eof.size
         /\ eof.tlv_list \in Faults
<1>1. /\ eof.cc \in 0 .. 15 /\ eof.crc \in Numbers32 /\ eof.size \in Numbers32
      /\ eof.tlv_list \in Faults
  BY DEF Eof
<1>2. PICK x, a, b : /\ x = Field(eof.cc, 4, 4) /\ a = Octets(eof.crc, 4)
                     /\ b = Octets(eof.size, 4)
  OBVIOUS
<1>3. x \in Octet /\ GetField(x, 4, 4) = eof.cc
  <2>1. 0 \in 0 .. 15 /\ Field(0, 4, 0) = 0 /\ Field(eof.cc, 4, 4) \in Int
    <3>1. Field(0, 4, 0) = 0
      BY PowersOf2, SMT DEF Field
    <3>2. Field(eof.cc, 4, 4) \in Int
      BY <1>1, PowersOf2, SMT DEF Field
    <3> QED
      BY <3>1, <3>2
  <2>2. x = Field(eof.cc, 4, 4) + Field(0, 4, 0)
    BY <1>2, <2>1
  <2> QED
    BY <1>1, <2>1, <2>2, NibblesAre
<1>4. /\ a \in Seq(Octet) /\ Len(a) = 4 /\ Value(a) = eof.crc
      /\ b \in Seq(Octet) /\ Len(b) = 4 /\ Value(b) = eof.size
  BY <1>1, <1>2, FourOctets
<1>5. PICK s : s = EofFixed(eof)
  OBVIOUS
<1>6. s = <<x>> \o a \o b
  BY <1>2, <1>5 DEF EofFixed
<1>7. /\ s \in Seq(Octet) /\ Len(s) = 9 /\ s[1] = x
      /\ SubSeq(s, 2, 5) = a /\ SubSeq(s, 6, 9) = b
  BY <1>3, <1>4, <1>6, OctetAndPairIs
<1> QED
  BY <1>1, <1>3, <1>4, <1>5, <1>7

LEMMA FaultsSizeIs ==
  ASSUME NEW list \in Faults
  PROVE  FaultsSize(list) \in 0 .. 6
<1>1. CASE list = <<>>
  BY <1>1 DEF FaultsSize
<1>2. CASE list # <<>>
  <2>1. PICK v \in Numbers32 : list = <<Fault(v)>>
    BY <1>2 DEF Faults
  <2> QED
    BY <2>1, FaultIs
<1> QED
  BY <1>1, <1>2

(* Octets that are followed by a list of faults.                           *)
LEMMA FaultsFollow ==
  ASSUME NEW e, NEW at, Encoder(e, at), NEW r \in Seq(Octet), NEW n \in Nat, Len(r) = n,
         NEW list \in Faults, at + (n + FaultsSize(list)) <= MaxPduSize
  PROVE  LET c == Encode(e, r)
             f == EncodeAllTlv(c, list)
         IN  /\ c.is_valid /\ Encoder(f, at + (n + FaultsSize(list)))
             /\ Holds(f.base, at, r) /\ FaultsIn(f.base, at + n, list)
             /\ Keeps(f.base, e.base, at)
<1>1. at \in Nat /\ MaxPduSize \in Nat /\ FaultsSize(list) \in Nat
  BY RoomForHeaders, FaultsSizeIs DEF Encoder
<1> DEFINE c == Encode(e, r)
           f == EncodeAllTlv(c, list)
           m == FaultsSize(list)
<1> HIDE DEF m
<1>2. /\ at + Len(r) <= MaxPduSize /\ at + Len(r) = at + n /\ at + n \in Nat /\ at <= at + n
      /\ (at + n) + m <= MaxPduSize /\ (at + n) + m = at + (n + m) /\ at + Len(r) <= at + n
  BY <1>1 DEF m
<1>3. Encoder(c, at + n) /\ Holds(c.base, at, r) /\ Keeps(c.base, e.base, at)
  BY <1>2, EncodeAt
<1> HIDE DEF c
<1>4. /\ Encoder(f, at + (n + m)) /\ FaultsIn(f.base, at + n, list)
      /\ Keeps(f.base, c.base, at + n)
  BY <1>2, <1>3, FaultsEncode DEF m
<1> HIDE DEF f
<1>5. Keeps(f.base, e.base, at) /\ Holds(f.base, at, r)
  BY <1>1, <1>2, <1>3, <1>4, KeepsLess, HoldsKept
<1>6. c.is_valid
  BY <1>3 DEF Encoder
<1> QED
  BY <1>4, <1>5, <1>6 DEF f, c, m

LEMMA EofEncodes ==
  ASSUME NEW e, NEW at, Encoder(e, at), NEW eof \in Eof, at + EofSize(eof) <= MaxPduSize
  PROVE  LET f == EncodeEof(e, eof)
         IN  /\ Encoder(f, at + EofSize(eof)) /\ EofIn(f.base, at, eof)
             /\ Keeps(f.base, e.base, at)
<1>1. PICK r, list : r = EofFixed(eof) /\ list = eof.tlv_list
  OBVIOUS
<1>2. /\ r \in Seq(Octet) /\ Len(r) = 9 /\ list \in Faults
      /\ EofSize(eof) = 9 + FaultsSize(list)
  BY <1>1, EofIs DEF EofSize
<1> DEFINE c == Encode(e, r)
           f == EncodeAllTlv(c, list)
<1>3. /\ c.is_valid /\ Encoder(f, at + EofSize(eof)) /\ Holds(f.base, at, r)
      /\ FaultsIn(f.base, at + 9, list) /\ Keeps(f.base, e.base, at)
  BY <1>2, FaultsFollow
<1>4. EncodeEof(e, eof) = f
  BY <1>1, <1>3 DEF EncodeEof, EofFixed
<1> HIDE DEF f
<1> QED
  BY <1>1, <1>3, <1>4 DEF EofIn

-------------------------------------------------------------------------------
(* FIN, ACK, NAK and file data *)

Fin == [cc : 0 .. 15, delivery_code : 0 .. 1, file_status : 0 .. 3, tlv_list : Faults]

FinFlags(fin) == Field(fin.cc, 4, 4) + Field(fin.delivery_code, 1, 2) + Field(fin.file_status, 2, 0)

FinIn(base, at, fin) ==
  Holds(base, at, <<FinFlags(fin)>>) /\ FaultsIn(base, at + 1, fin.tlv_list)

FinSize(fin) == 1 + FaultsSize(fin.tlv_list)

LEMMA FinIs ==
  ASSUME NEW fin \in Fin
  PROVE  /\ FinFlags(fin) \in Octet /\ <<FinFlags(fin)>> \in Seq(Octet)
         /\ Len(<<FinFlags(fin)>>) = 1
         /\ GetField(FinFlags(fin), 4, 4) = fin.cc
         /\ GetField(FinFlags(fin), 1, 2) = fin.delivery_code
         /\ GetField(FinFlags(fin), 2, 0) = fin.file_status
         /\ fin.tlv_list \in Faults
<1>1. /\ fin.cc \in 0 .. 15 /\ fin.delivery_code \in 0 .. 1 /\ fin.file_status \in 0 .. 3
      /\ fin.tlv_list \in Faults
  BY DEF Fin
<1>2. PICK x : x = FinFlags(fin)
  OBVIOUS
<1>3. /\ x \in Octet /\ GetField(x, 4, 4) = fin.cc /\ GetField(x, 1, 2) = fin.delivery_code
      /\ GetField(x, 2, 0) = fin.file_status
  BY <1>1, <1>2, FinFieldsAre DEF FinFlags
<1>4. <<x>> \in Seq(Octet) /\ Len(<<x>>) = 1
  BY <1>3
<1> QED
  BY <1>1, <1>2, <1>3, <1>4

LEMMA FinEncodes ==
  ASSUME NEW e, NEW at, Encoder(e, at), NEW fin \in Fin, at + FinSize(fin) <= MaxPduSize
  PROVE  LET f == EncodeFin(e, fin)
         IN  /\ Encoder(f, at + FinSize(fin)) /\ FinIn(f.base, at, fin)
             /\ Keeps(f.base, e.base, at)
<1>1. PICK r, list : r = <<FinFlags(fin)>> /\ list = fin.tlv_list
  OBVIOUS
<1>2. /\ r \in Seq(Octet) /\ Len(r) = 1 /\ list \in Faults
      /\ FinSize(fin) = 1 + FaultsSize(list)
  BY <1>1, FinIs DEF FinSize
<1> DEFINE c == Encode(e, r)
           f == EncodeAllTlv(c, list)
<1>3. /\ c.is_valid /\ Encoder(f, at + FinSize(fin)) /\ Holds(f.base, at, r)
      /\ FaultsIn(f.base, at + 1, list) /\ Keeps(f.base, e.base, at)
  BY <1>2, FaultsFollow
<1>4. EncodeFin(e, fin) = f
  BY <1>1, <1>3 DEF EncodeFin, FinFlags
<1> HIDE DEF f
<1> QED
  BY <1>1, <1>3, <1>4 DEF FinIn

Ack == [ack_directive_code : 0 .. 15, ack_subtype_code : 0 .. 15, cc : 0 .. 15,
        txn_status : 0 .. 3]

AckCodes(ack) == Field(ack.ack_directive_code, 4, 4) + Field(ack.ack_subtype_code, 4, 0)
AckStatus(ack) == Field(ack.cc, 4, 4) + Field(ack.txn_status, 2, 0)
AckOctets(ack) == <<AckCodes(ack), AckStatus(ack)>>

AckIn(base, at, ack) == Holds(base, at, AckOctets(ack))

LEMMA AckIs ==
  ASSUME NEW ack \in Ack
  PROVE  /\ AckOctets(ack) \in Seq(Octet) /\ Len(AckOctets(ack)) = 2
         /\ GetField(AckOctets(ack)[1], 4, 4) = ack.ack_directive_code
         /\ GetField(AckOctets(ack)[1], 4, 0) = ack.ack_subtype_code
         /\ GetField(AckOctets(ack)[2], 4, 4) = ack.cc
         /\ GetField(AckOctets(ack)[2], 2, 0) = ack.txn_status
<1>1. /\ ack.ack_directive_code \in 0 .. 15 /\ ack.ack_subtype_code \in 0 .. 15
      /\ ack.cc \in 0 .. 15 /\ ack.txn_status \in 0 .. 3
  BY DEF Ack
<1>2. PICK x, y : x = AckCodes(ack) /\ y = AckStatus(ack)
  OBVIOUS
<1>3. /\ x \in Octet /\ GetField(x, 4, 4) = ack.ack_directive_code
      /\ GetField(x, 4, 0) = ack.ack_subtype_code
  BY <1>1, <1>2, NibblesAre DEF AckCodes
<1>4. /\ y \in Octet /\ GetField(y, 4, 4) = ack.cc /\ GetField(y, 2, 0) = ack.txn_status
  BY <1>1, <1>2, AckFieldsAre DEF AckStatus
<1>5. PICK s : s = AckOctets(ack)
  OBVIOUS
<1>6. s = <<x, y>>
  BY <1>2, <1>5 DEF AckOctets
<1>7. s \in Seq(Octet) /\ Len(s) = 2 /\ s[1] = x /\ s[2] = y
  BY <1>3, <1>4, <1>6
<1> QED
  BY <1>3, <1>4, <1>5, <1>7

LEMMA AckEncodes ==
  ASSUME NEW e, NEW at, Encoder(e, at), NEW ack \in Ack, at + 2 <= MaxPduSize
  PROVE  LET f == EncodeAck(e, ack)
         IN  /\ Encoder(f, at + 2) /\ AckIn(f.base, at, ack) /\ Keeps(f.base, e.base, at)
<1>1. PICK r : r = AckOctets(ack)
  OBVIOUS
<1>2. r \in Seq(Octet) /\ Len(r) = 2
  BY <1>1, AckIs
<1> DEFINE f == Encode(e, r)
<1>3. Encoder(f, at + 2) /\ Holds(f.base, at, r) /\ Keeps(f.base, e.base, at)
  <2>1. at + Len(r) <= MaxPduSize /\ at + Len(r) = at + 2
    BY <1>2
  <2> QED
    BY <1>2, <2>1, EncodeAt
<1>4. EncodeAck(e, ack) = f
  BY <1>1 DEF EncodeAck, AckOctets, AckCodes, AckStatus
<1> HIDE DEF f
<1> QED
  BY <1>1, <1>3, <1>4 DEF AckIn

Nak == [scope_start : Numbers32, scope_end : Numbers32, segment_list : Seq(Segments)]

NakFixed(nak) == Octets(nak.scope_start, 4) \o Octets(nak.scope_end, 4)

NakIn(base, at, nak) ==
  Holds(base, at, NakFixed(nak)) /\ SegmentsIn(base, at + 8, nak.segment_list)

NakSize(nak) == 8 + 8 * Len(nak.segment_list)

LEMMA NakIs ==
  ASSUME NEW nak \in Nak
  PROVE  /\ NakFixed(nak) \in Seq(Octet) /\ Len(NakFixed(nak)) = 8
         /\ Value(SubSeq(NakFixed(nak), 1, 4)) = nak.scope_start
         /\ Value(SubSeq(NakFixed(nak), 5, 8)) = nak.scope_end
         /\ nak.segment_list \in Seq(Segments)
<1>1. /\ nak.scope_start \in Numbers32 /\ nak.scope_end \in Numbers32
      /\ nak.segment_list \in Seq(Segments)
  BY DEF Nak
<1>2. PICK a, b : a = Octets(nak.scope_start, 4) /\ b = Octets(nak.scope_end, 4)
  OBVIOUS
<1>3. /\ a \in Seq(Octet) /\ Len(a) = 4 /\ Value(a) = nak.scope_start
      /\ b \in Seq(Octet) /\ Len(b) = 4 /\ Value(b) = nak.scope_end
  BY <1>1, <1>2, FourOctets
<1>4. PICK s : s = NakFixed(nak)
  OBVIOUS
<1>5. s = a \o b
  BY <1>2, <1>4 DEF NakFixed
<1>6. s \in Seq(Octet) /\ Len(s) = 8 /\ SubSeq(s, 1, 4) = a /\ SubSeq(s, 5, 8) = b
  BY <1>3, <1>5, PairIs
<1> QED
  BY <1>1, <1>3, <1>4, <1>6

LEMMA NakEncodes ==
  ASSUME NEW e, NEW at, Encoder(e, at), NEW nak \in Nak, at + NakSize(nak) <= MaxPduSize
  PROVE  LET f == EncodeNak(e, nak)
         IN  /\ Encoder(f, at + NakSize(nak)) /\ NakIn(f.base, at, nak)
             /\ Keeps(f.base, e.base, at)
<1>1. PICK r, list, n : r = NakFixed(nak) /\ list = nak.segment_list /\ n = 8 * Len(list)
  OBVIOUS
<1>2. /\ r \in Seq(Octet) /\ Len(r) = 8 /\ list \in Seq(Segments) /\ n \in Nat
      /\ NakSize(nak) = 8 + n /\ at \in Nat
  <2>1. list \in Seq(Segments) /\ r \in Seq(Octet) /\ Len(r) = 8
    BY <1>1, NakIs
  <2>2. n \in Nat
    BY <1>1, <2>1, LenProperties
  <2> QED
    BY <1>1, <2>1, <2>2, RoomForHeaders DEF NakSize, Encoder
<1> DEFINE c == Encode(e, r)
           f == EncodeAllSegments(c, list)
<1>3. /\ at + Len(r) <= MaxPduSize /\ at + Len(r) = at + 8 /\ at + 8 \in Nat /\ at <= at + 8
      /\ (at + 8) + n <= MaxPduSize /\ (at + 8) + n = at + (8 + n) /\ at + Len(r) <= at + 8
  BY <1>2, RoomForHeaders
<1>4. Encoder(c, at + 8) /\ Holds(c.base, at, r) /\ Keeps(c.base, e.base, at)
  BY <1>2, <1>3, EncodeAt
<1>5. c.is_valid
  BY <1>4 DEF Encoder
<1>6. EncodeNak(e, nak) = f
  BY <1>1, <1>5 DEF EncodeNak, NakFixed
<1> HIDE DEF c
<1>7. /\ Encoder(f, at + NakSize(nak)) /\ SegmentsIn(f.base, at + 8, list)
      /\ Keeps(f.base, c.base, at + 8)
  BY <1>1, <1>2, <1>3, <1>4, SegmentsEncode
<1> HIDE DEF f
<1>8. Keeps(f.base, e.base, at) /\ Holds(f.base, at, r)
  BY <1>2, <1>3, <1>4, <1>7, KeepsLess, HoldsKept
<1> QED
  BY <1>1, <1>6, <1>7, <1>8 DEF NakIn

Fd == {[NoFd EXCEPT !.offset = o, !.data = s] : o \in Numbers32, s \in Seq(Octet)}

FdIn(base, at, fd) ==
  Holds(base, at, Octets(fd.offset, 4)) /\ Holds(base, at + 4, fd.data)

FdSize(fd) == 4 + Len(fd.data)

LEMMA FdIs ==
  ASSUME NEW o, NEW s
  PROVE  LET fd == [NoFd EXCEPT !.offset = o, !.data = s]
         IN  /\ fd.offset = o /\ fd.data = s
             /\ [[NoFd EXCEPT !.offset = o] EXCEPT !.data = s] = fd
             /\ [NoFd EXCEPT !.offset = o].offset = o
             /\ [NoFd EXCEPT !.offset = o].data = <<>>
             /\ \A t : [fd EXCEPT !.data = t] = [NoFd EXCEPT !.offset = o, !.data = t]
BY DEF NoFd

LEMMA FdHeaderEncodes ==
  ASSUME NEW e, NEW at, Encoder(e, at), NEW o \in Numbers32, at + 4 <= MaxPduSize
  PROVE  LET f == EncodeFileDataHeader(e, FALSE, [NoFd EXCEPT !.offset = o])
         IN  /\ Encoder(f, at + 4) /\ Holds(f.base, at, Octets(o, 4)) /\ Keeps(f.base, e.base, at)
<1>1. PICK r : r = Octets(o, 4)
  OBVIOUS
<1>2. r \in Seq(Octet) /\ Len(r) = 4
  BY <1>1, FourOctets
<1>3. EncodeFileDataHeader(e, FALSE, [NoFd EXCEPT !.offset = o]) = Encode(e, r)
  BY <1>1 DEF EncodeFileDataHeader, NoFd
<1>4. at + Len(r) <= MaxPduSize /\ at + Len(r) = at + 4
  BY <1>2
<1>5. LET f == Encode(e, r)
      IN  Encoder(f, at + Len(r)) /\ Holds(f.base, at, r) /\ Keeps(f.base, e.base, at)
  BY <1>2, <1>4, EncodeAt
<1> QED
  BY <1>1, <1>3, <1>4, <1>5

-------------------------------------------------------------------------------
(* What CF sends *)

(* The headers that CF sends.                                              *)
Sent(h) ==
  /\ h \in PduHeader /\ h.version = 1
  /\ h.crc_flag = 0 /\ h.large_flag = 0 /\ h.segmentation_control = 0 /\ h.segment_meta_flag = 0
  /\ Fits(h.source_eid, h.eid_length) /\ Fits(h.destination_eid, h.eid_length)
  /\ Fits(h.sequence_num, h.txn_seq_length)
  /\ h.header_encoded_length = HeaderLength(h)

LEMMA FitsLess ==
  ASSUME NEW v \in Numbers32, NEW w, NEW n, Fits(w, n), v <= w
  PROVE  Fits(v, n)
<1>1. v \in Nat /\ w \in Nat
  BY DEF Numbers32, Fits
<1> QED
  BY <1>1, SMT DEF Fits

LEMMA LengthKept ==
  ASSUME NEW h \in PduHeader, NEW n \in Nat
  PROVE  LET g == [h EXCEPT !.header_encoded_length = n]
         IN  /\ g \in PduHeader /\ g.header_encoded_length = n
             /\ g.version = h.version /\ g.pdu_type = h.pdu_type /\ g.direction = h.direction
             /\ g.txm_mode = h.txm_mode /\ g.crc_flag = h.crc_flag /\ g.large_flag = h.large_flag
             /\ g.segmentation_control = h.segmentation_control
             /\ g.eid_length = h.eid_length /\ g.segment_meta_flag = h.segment_meta_flag
             /\ g.txn_seq_length = h.txn_seq_length
             /\ g.data_encoded_length = h.data_encoded_length
             /\ g.source_eid = h.source_eid /\ g.destination_eid = h.destination_eid
             /\ g.sequence_num = h.sequence_num
BY DEF PduHeader

LEMMA DataLengthKept ==
  ASSUME NEW h \in PduHeader, NEW n \in Nat
  PROVE  LET g == [h EXCEPT !.data_encoded_length = n]
         IN  /\ g \in PduHeader /\ g.data_encoded_length = n
             /\ g.version = h.version /\ g.pdu_type = h.pdu_type /\ g.direction = h.direction
             /\ g.txm_mode = h.txm_mode /\ g.crc_flag = h.crc_flag /\ g.large_flag = h.large_flag
             /\ g.segmentation_control = h.segmentation_control
             /\ g.eid_length = h.eid_length /\ g.segment_meta_flag = h.segment_meta_flag
             /\ g.txn_seq_length = h.txn_seq_length
             /\ g.header_encoded_length = h.header_encoded_length
             /\ g.source_eid = h.source_eid /\ g.destination_eid = h.destination_eid
             /\ g.sequence_num = h.sequence_num
BY DEF PduHeader

(* The header in base, but for the length of the data, with flags x that a *)
(* peer adds.                                                              *)
HeaderIn(base, h) ==
  base[1] = HeaderFlags(h) /\ base[4] = HeaderLengths(h) /\ IdsIn(base, h)

CodeIn(base, h, code) == h.pdu_type = 0 => Holds(base, HeaderLength(h), <<code>>)

(* Where the body begins.                                                  *)
BodyAt(h) == IF h.pdu_type = 1 THEN HeaderLength(h) ELSE HeaderLength(h) + 1

LEMMA KeptHeaderIn ==
  ASSUME NEW g, Encodable(g), NEW b, NEW d, HeaderIn(b, g), NEW l \in Nat, Keeps(d, b, l),
         HeaderLength(g) <= l
  PROVE  HeaderIn(d, g)
<1>1. PICK m, n : m = g.eid_length /\ n = g.txn_seq_length
  OBVIOUS
<1>2. m \in 1 .. 5 /\ n \in 1 .. 4 /\ 4 + (2 * m + n) <= l
  BY <1>1 DEF Encodable, HeaderLength
<1>3. d[1] = b[1] /\ d[4] = b[4]
  BY <1>2 DEF Keeps
<1>4. PICK u, v, w : /\ u = Octets(g.source_eid, g.eid_length)
                     /\ v = Octets(g.sequence_num, g.txn_seq_length)
                     /\ w = Octets(g.destination_eid, g.eid_length)
  OBVIOUS
<1>5. /\ u \in Seq(Octet) /\ v \in Seq(Octet) /\ w \in Seq(Octet)
      /\ Len(u) = m /\ Len(v) = n /\ Len(w) = m
  BY <1>1, <1>4, IdOctetsAre
<1>6. Holds(b, 4, u) /\ Holds(b, 4 + m, v) /\ Holds(b, 4 + (m + n), w)
  BY <1>1, <1>4 DEF HeaderIn, IdsIn
<1>7. /\ 4 + m \in Nat /\ 4 + (m + n) \in Nat
      /\ 4 + Len(u) <= l /\ (4 + m) + Len(v) <= l /\ (4 + (m + n)) + Len(w) <= l
  BY <1>2, <1>5
<1>8. Holds(d, 4, u) /\ Holds(d, 4 + m, v) /\ Holds(d, 4 + (m + n), w)
  BY <1>5, <1>6, <1>7, HoldsKept
<1> QED
  BY <1>1, <1>3, <1>4, <1>8 DEF HeaderIn, IdsIn

TxnOK ==
  /\ txn.src \in EntityIds /\ txn.dst \in EntityIds /\ txn.seq \in SeqNums /\ txn.class \in {1, 2}
  /\ txn.foffs \in 0 .. FileLength /\ txn.crc = CrcAt(txn.foffs)

LEMMA IdsAreNumbers ==
  ASSUME TxnOK
  PROVE  txn.src \in Numbers32 /\ txn.dst \in Numbers32 /\ txn.seq \in Numbers32
BY WireAssumption DEF TxnOK

LEMMA HeaderConstructed ==
  ASSUME TxnOK, NEW code \in Octet, NEW t \in 0 .. 1
  PROVE  LET c == ConstructPduHeader(code, t)
         IN  /\ Sent(c.h) /\ Encoder(c.s, BodyAt(c.h)) /\ HeaderIn(c.s.base, c.h)
             /\ CodeIn(c.s.base, c.h, code)
             /\ c.h.pdu_type = (IF code = FileData THEN 1 ELSE 0)
             /\ BodyAt(c.h) \in 5 .. 17
<1> DEFINE larger == IF txn.src > txn.dst THEN txn.src ELSE txn.dst
           h == [NoHeader EXCEPT
                  !.version = 1, !.pdu_type = IF code = FileData THEN 1 ELSE 0,
                  !.direction = t, !.txm_mode = IF txn.class = 1 THEN 1 ELSE 0,
                  !.eid_length = GetValueEncodedSize(larger),
                  !.txn_seq_length = GetValueEncodedSize(txn.seq),
                  !.source_eid = txn.src, !.destination_eid = txn.dst, !.sequence_num = txn.seq]
           r == EncodeHeaderWithoutSize(EncodeStart, h)
           s == IF code = FileData THEN r.s ELSE EncodeFileDirectiveHeader(r.s, code)
           c == ConstructPduHeader(code, t)
<1>1. /\ txn.src \in Numbers32 /\ txn.dst \in Numbers32 /\ txn.seq \in Numbers32
      /\ txn.src \in Nat /\ txn.dst \in Nat /\ txn.seq \in Nat
  BY IdsAreNumbers DEF Numbers32
<1>2. larger \in Numbers32 /\ txn.src <= larger /\ txn.dst <= larger
  BY <1>1
<1> HIDE DEF larger
<1>3. PICK m, n : m = GetValueEncodedSize(larger) /\ n = GetValueEncodedSize(txn.seq)
  OBVIOUS
<1>4. m \in 1 .. 4 /\ n \in 1 .. 4 /\ Fits(txn.src, m) /\ Fits(txn.dst, m) /\ Fits(txn.seq, n)
  <2>1. m \in 1 .. 4 /\ Fits(larger, m) /\ n \in 1 .. 4 /\ Fits(txn.seq, n)
    BY <1>1, <1>2, <1>3, EncodedSizeIs
  <2> QED
    BY <1>1, <1>2, <2>1, FitsLess
<1>5. PICK p, x : p = (IF code = FileData THEN 1 ELSE 0) /\ x = (IF txn.class = 1 THEN 1 ELSE 0)
  OBVIOUS
<1>6. p \in 0 .. 1 /\ x \in 0 .. 1
  BY <1>5
<1>7. h = [NoHeader EXCEPT
             !.version = 1, !.pdu_type = p, !.direction = t, !.txm_mode = x,
             !.eid_length = m, !.txn_seq_length = n,
             !.source_eid = txn.src, !.destination_eid = txn.dst, !.sequence_num = txn.seq]
  BY <1>3, <1>5
<1>8. c = [s |-> s, h |-> r.h]
  BY DEF ConstructPduHeader, larger
<1> HIDE DEF h, c
<1>9. /\ h \in PduHeader /\ h.version = 1 /\ h.pdu_type = p
      /\ h.crc_flag = 0 /\ h.large_flag = 0 /\ h.segmentation_control = 0
      /\ h.segment_meta_flag = 0 /\ h.eid_length = m /\ h.txn_seq_length = n
      /\ h.source_eid = txn.src /\ h.destination_eid = txn.dst /\ h.sequence_num = txn.seq
  <2>1. h = [version |-> 1, pdu_type |-> p, direction |-> t, txm_mode |-> x, crc_flag |-> 0,
             large_flag |-> 0, segmentation_control |-> 0, eid_length |-> m,
             segment_meta_flag |-> 0, txn_seq_length |-> n, header_encoded_length |-> 0,
             data_encoded_length |-> 0, source_eid |-> txn.src, destination_eid |-> txn.dst,
             sequence_num |-> txn.seq]
    BY <1>7 DEF NoHeader
  <2>2. m \in 0 .. 8 /\ n \in 0 .. 8
    BY <1>4
  <2> QED
    BY <1>1, <1>6, <2>1, <2>2 DEF PduHeader
<1>10. Encodable(h)
  BY <1>4, <1>9 DEF Encodable
<1>11. /\ Encoder(r.s, HeaderLength(h)) /\ r.s.base[1] = HeaderFlags(h)
       /\ r.s.base[4] = HeaderLengths(h) /\ IdsIn(r.s.base, h)
       /\ r.h = [h EXCEPT !.header_encoded_length = HeaderLength(h)]
  BY <1>10, HeaderEncodes
<1>12. HeaderLength(h) = 4 + (2 * m + n) /\ HeaderLength(h) \in 7 .. 16
  BY <1>4, <1>9 DEF HeaderLength
<1> HIDE DEF r
<1>13. PICK g, e : g = r.h /\ e = r.s
  OBVIOUS
<1>14. /\ g \in PduHeader /\ g.header_encoded_length = HeaderLength(h)
       /\ g.version = h.version /\ g.pdu_type = h.pdu_type /\ g.direction = h.direction
       /\ g.txm_mode = h.txm_mode /\ g.crc_flag = h.crc_flag /\ g.large_flag = h.large_flag
       /\ g.segmentation_control = h.segmentation_control
       /\ g.eid_length = h.eid_length /\ g.segment_meta_flag = h.segment_meta_flag
       /\ g.txn_seq_length = h.txn_seq_length
       /\ g.source_eid = h.source_eid /\ g.destination_eid = h.destination_eid
       /\ g.sequence_num = h.sequence_num
  <2>1. HeaderLength(h) \in Nat
    BY <1>12
  <2> QED
    BY <1>9, <1>11, <1>13, <2>1, LengthKept
<1>15. /\ HeaderLength(g) = HeaderLength(h) /\ HeaderFlags(g) = HeaderFlags(h)
       /\ HeaderLengths(g) = HeaderLengths(h) /\ (IdsIn(e.base, g) <=> IdsIn(e.base, h))
  BY <1>14, Zenon DEF HeaderLength, HeaderFlags, HeaderLengths, IdsIn
<1>16. Sent(g)
  BY <1>4, <1>9, <1>14, <1>15 DEF Sent
<1>17. Encoder(e, HeaderLength(g)) /\ HeaderIn(e.base, g)
  BY <1>11, <1>13, <1>15 DEF HeaderIn
<1>18. c.h = g /\ c.s = IF code = FileData THEN e ELSE EncodeFileDirectiveHeader(e, code)
  BY <1>8, <1>13
<1>19. g.pdu_type = p
  BY <1>9, <1>14
<1>20. BodyAt(g) \in 5 .. 17
  BY <1>12, <1>15 DEF BodyAt
<1>21. CASE code = FileData
  <2>1. g.pdu_type = 1 /\ c.s = e
    BY <1>5, <1>18, <1>19, <1>21
  <2> QED
    BY <1>16, <1>17, <1>18, <1>20, <1>21, <2>1 DEF BodyAt, CodeIn, c
<1>22. CASE code # FileData
  <2>1. g.pdu_type = 0 /\ BodyAt(g) = HeaderLength(g) + 1
    BY <1>5, <1>19, <1>22 DEF BodyAt
  <2>2. PICK o, l : o = <<code>> /\ l = HeaderLength(g)
    OBVIOUS
  <2>3. o \in Seq(Octet) /\ Len(o) = 1 /\ l \in 7 .. 16 /\ l + Len(o) <= MaxPduSize /\ l + Len(o) = l + 1
    <3>1. o \in Seq(Octet) /\ Len(o) = 1
      BY <2>2
    <3> QED
      BY <1>12, <1>15, <2>2, <3>1, RoomForHeaders
  <2>4. c.s = Encode(e, o)
    BY <1>18, <1>22, <2>2 DEF EncodeFileDirectiveHeader
  <2>5. Encoder(c.s, l + 1) /\ Holds(c.s.base, l, o) /\ Keeps(c.s.base, e.base, l)
    BY <1>17, <2>2, <2>3, <2>4, EncodeAt
  <2>6. HeaderIn(c.s.base, g)
    <3>1. Encodable(g) /\ HeaderLength(g) <= l /\ l \in Nat
      BY <1>4, <1>9, <1>14, <2>2, <2>3 DEF Encodable
    <3> QED
      BY <1>17, <2>5, <3>1, KeptHeaderIn
  <2>7. CodeIn(c.s.base, g, code)
    BY <2>2, <2>5 DEF CodeIn
  <2> QED
    BY <1>16, <1>18, <1>20, <1>22, <2>1, <2>2, <2>5, <2>6, <2>7 DEF c
<1> QED
  BY <1>21, <1>22

LEMMA CodesAre ==
  /\ DirectiveCode.METADATA = 7 /\ DirectiveCode.EOF = 4 /\ DirectiveCode.FIN = 5
  /\ DirectiveCode.ACK = 6 /\ DirectiveCode.NAK = 8 /\ FileData = 0
BY DEF DirectiveCode, FileData

(* What lies in the file at the offset.                                    *)
FilePieces ==
  {[NoFd EXCEPT !.offset = x[1], !.data = SubSeq(File, x[1] + 1, x[1] + x[2])] :
     x \in {y \in (0 .. FileLength) \X (0 .. FileLength) : y[1] + y[2] <= FileLength}}

(* The bodies that CF builds.                                              *)
IsBody(code, body) ==
  \/ code = DirectiveCode.METADATA /\ body \in Md
  \/ code = DirectiveCode.EOF /\ body \in Eof /\ (body.cc = 0 => body.crc = ModularSum)
  \/ code = DirectiveCode.FIN /\ body \in Fin
  \/ code = DirectiveCode.ACK /\ body \in Ack
  \/ code = DirectiveCode.NAK /\ body \in Nak /\ Len(body.segment_list) <= MaxSegments
  \/ code = FileData /\ body \in FilePieces

BodyIn(base, at, code, body) ==
  /\ code = DirectiveCode.METADATA => MdIn(base, at, body)
  /\ code = DirectiveCode.EOF => EofIn(base, at, body)
  /\ code = DirectiveCode.FIN => FinIn(base, at, body)
  /\ code = DirectiveCode.ACK => AckIn(base, at, body)
  /\ code = DirectiveCode.NAK => NakIn(base, at, body)
  /\ code = FileData => FdIn(base, at, body)

BodySize(code, body) ==
  CASE code = DirectiveCode.METADATA -> MdSize(body)
    [] code = DirectiveCode.EOF -> EofSize(body)
    [] code = DirectiveCode.FIN -> FinSize(body)
    [] code = DirectiveCode.ACK -> 2
    [] code = DirectiveCode.NAK -> NakSize(body)
    [] code = FileData -> FdSize(body)

LEMMA BodySizeIs ==
  ASSUME NEW code, NEW body
  PROVE  /\ code = DirectiveCode.METADATA => BodySize(code, body) = MdSize(body)
         /\ code = DirectiveCode.EOF => BodySize(code, body) = EofSize(body)
         /\ code = DirectiveCode.FIN => BodySize(code, body) = FinSize(body)
         /\ code = DirectiveCode.ACK => BodySize(code, body) = 2
         /\ code = DirectiveCode.NAK => BodySize(code, body) = NakSize(body)
         /\ code = FileData => BodySize(code, body) = FdSize(body)
BY CodesAre DEF BodySize

LEMMA BodyCodes ==
  ASSUME NEW code, NEW body, IsBody(code, body)
  PROVE  /\ code \in Octet
         /\ code = DirectiveCode.METADATA => body \in Md
         /\ code = DirectiveCode.EOF => body \in Eof /\ (body.cc = 0 => body.crc = ModularSum)
         /\ code = DirectiveCode.FIN => body \in Fin
         /\ code = DirectiveCode.ACK => body \in Ack
         /\ code = DirectiveCode.NAK => body \in Nak /\ Len(body.segment_list) <= MaxSegments
         /\ code = FileData => body \in FilePieces
<1>1. 4 \in Octet /\ 5 \in Octet /\ 6 \in Octet /\ 7 \in Octet /\ 8 \in Octet /\ 0 \in Octet
  BY DEF Octet
<1> QED
  BY <1>1, CodesAre DEF IsBody

(* A directive fits behind its header.                                     *)
LEMMA DirectivesFit ==
  ASSUME NEW code, NEW body, IsBody(code, body), code # FileData, NEW at \in 5 .. 17
  PROVE  BodySize(code, body) \in Nat /\ at + BodySize(code, body) <= MaxPduSize
<1>1. CASE code = DirectiveCode.METADATA
  <2>1. body.source_filename \in FileNames /\ body.dest_filename \in FileNames
    BY <1>1, BodyCodes, MdIs
  <2>2. /\ Len(body.source_filename) \in Nat /\ Len(body.source_filename) <= MaxFilename
        /\ Len(body.dest_filename) \in Nat /\ Len(body.dest_filename) <= MaxFilename
    BY <2>1, NameIs
  <2>3. BodySize(code, body) = 7 + (Len(body.source_filename) + Len(body.dest_filename))
    BY <1>1, BodySizeIs DEF MdSize
  <2>4. PICK m, n, x : m = Len(body.source_filename) /\ n = Len(body.dest_filename) /\ x = MaxFilename
    OBVIOUS
  <2>5. /\ m \in Nat /\ n \in Nat /\ x \in Nat /\ m <= x /\ n <= x
        /\ MaxPduSize \in Nat /\ MaxPduSize >= 24 + 2 * x
    BY <2>2, <2>4, RoomForHeaders
  <2>6. 7 + (m + n) \in Nat /\ at + (7 + (m + n)) <= MaxPduSize
    BY <2>5
  <2> QED
    BY <2>3, <2>4, <2>6
<1>2. CASE code = DirectiveCode.EOF
  <2>1. body.tlv_list \in Faults
    BY <1>2, BodyCodes, EofIs
  <2>2. BodySize(code, body) = 9 + FaultsSize(body.tlv_list)
    BY <1>2, BodySizeIs DEF EofSize
  <2> QED
    BY <2>1, <2>2, FaultsSizeIs, RoomForHeaders
<1>3. CASE code = DirectiveCode.FIN
  <2>1. body.tlv_list \in Faults
    BY <1>3, BodyCodes, FinIs
  <2>2. BodySize(code, body) = 1 + FaultsSize(body.tlv_list)
    BY <1>3, BodySizeIs DEF FinSize
  <2> QED
    BY <2>1, <2>2, FaultsSizeIs, RoomForHeaders
<1>4. CASE code = DirectiveCode.ACK
  BY <1>4, BodySizeIs, RoomForHeaders
<1>5. CASE code = DirectiveCode.NAK
  <2>1. body.segment_list \in Seq(Segments) /\ Len(body.segment_list) <= MaxSegments
    BY <1>5, BodyCodes, NakIs
  <2>2. Len(body.segment_list) \in Nat
    BY <2>1, LenProperties
  <2>3. BodySize(code, body) = 8 + 8 * Len(body.segment_list)
    BY <1>5, BodySizeIs DEF NakSize
  <2> QED
    BY <2>1, <2>2, <2>3, RoomForHeaders
<1> QED
  BY <1>1, <1>2, <1>3, <1>4, <1>5 DEF IsBody

LEMMA BodyEncodes ==
  ASSUME NEW p, NEW at \in 5 .. 17, Encoder(p.s, at), NEW code, NEW body, IsBody(code, body),
         code # FileData
  PROVE  LET f == EncodedBody(p, code, body)
         IN  /\ Encoder(f.s, at + BodySize(code, body)) /\ BodyIn(f.s.base, at, code, body)
             /\ Keeps(f.s.base, p.s.base, at)
             /\ f.h = p.h /\ f.code = code /\ f.body = body
<1> DEFINE f == EncodedBody(p, code, body)
<1>1. f.h = p.h /\ f.code = code /\ f.body = body
  BY DEF EncodedBody
<1>2. at + BodySize(code, body) <= MaxPduSize
  BY DirectivesFit
<1>3. CASE code = DirectiveCode.METADATA
  <2>1. f.s = EncodeMd(p.s, body)
    BY <1>3, CodesAre DEF EncodedBody
  <2>2. BodySize(code, body) = MdSize(body) /\ body \in Md
    BY <1>3, BodySizeIs, BodyCodes
  <2>3. /\ Encoder(f.s, at + MdSize(body)) /\ MdIn(f.s.base, at, body)
        /\ Keeps(f.s.base, p.s.base, at)
    BY <1>2, <2>1, <2>2, MdEncodes
  <2> HIDE DEF f
  <2>4. BodyIn(f.s.base, at, code, body)
    BY <1>3, <2>3, CodesAre DEF BodyIn
  <2> QED
    BY <1>1, <2>2, <2>3, <2>4 DEF f
<1>4. CASE code = DirectiveCode.EOF
  <2>1. f.s = EncodeEof(p.s, body)
    BY <1>4, CodesAre DEF EncodedBody
  <2>2. BodySize(code, body) = EofSize(body) /\ body \in Eof
    BY <1>4, BodySizeIs, BodyCodes
  <2>3. /\ Encoder(f.s, at + EofSize(body)) /\ EofIn(f.s.base, at, body)
        /\ Keeps(f.s.base, p.s.base, at)
    BY <1>2, <2>1, <2>2, EofEncodes
  <2> HIDE DEF f
  <2>4. BodyIn(f.s.base, at, code, body)
    BY <1>4, <2>3, CodesAre DEF BodyIn
  <2> QED
    BY <1>1, <2>2, <2>3, <2>4 DEF f
<1>5. CASE code = DirectiveCode.FIN
  <2>1. f.s = EncodeFin(p.s, body)
    BY <1>5, CodesAre DEF EncodedBody
  <2>2. BodySize(code, body) = FinSize(body) /\ body \in Fin
    BY <1>5, BodySizeIs, BodyCodes
  <2>3. /\ Encoder(f.s, at + FinSize(body)) /\ FinIn(f.s.base, at, body)
        /\ Keeps(f.s.base, p.s.base, at)
    BY <1>2, <2>1, <2>2, FinEncodes
  <2> HIDE DEF f
  <2>4. BodyIn(f.s.base, at, code, body)
    BY <1>5, <2>3, CodesAre DEF BodyIn
  <2> QED
    BY <1>1, <2>2, <2>3, <2>4 DEF f
<1>6. CASE code = DirectiveCode.ACK
  <2>1. f.s = EncodeAck(p.s, body)
    BY <1>6, CodesAre DEF EncodedBody
  <2>2. BodySize(code, body) = 2 /\ body \in Ack
    BY <1>6, BodySizeIs, BodyCodes
  <2>3. Encoder(f.s, at + 2) /\ AckIn(f.s.base, at, body) /\ Keeps(f.s.base, p.s.base, at)
    BY <1>2, <2>1, <2>2, AckEncodes
  <2> HIDE DEF f
  <2>4. BodyIn(f.s.base, at, code, body)
    BY <1>6, <2>3, CodesAre DEF BodyIn
  <2> QED
    BY <1>1, <2>2, <2>3, <2>4 DEF f
<1>7. CASE code = DirectiveCode.NAK
  <2>1. f.s = EncodeNak(p.s, body)
    BY <1>7, CodesAre DEF EncodedBody
  <2>2. BodySize(code, body) = NakSize(body) /\ body \in Nak
    BY <1>7, BodySizeIs, BodyCodes
  <2>3. /\ Encoder(f.s, at + NakSize(body)) /\ NakIn(f.s.base, at, body)
        /\ Keeps(f.s.base, p.s.base, at)
    BY <1>2, <2>1, <2>2, NakEncodes
  <2> HIDE DEF f
  <2>4. BodyIn(f.s.base, at, code, body)
    BY <1>7, <2>3, CodesAre DEF BodyIn
  <2> QED
    BY <1>1, <2>2, <2>3, <2>4 DEF f
<1> QED
  BY <1>3, <1>4, <1>5, <1>6, <1>7 DEF IsBody

PduIn(base, h, code, body) ==
  HeaderIn(base, h) /\ CodeIn(base, h, code) /\ BodyIn(base, BodyAt(h), code, body)

(* Headers and bodies that belong together.                                *)
Pdu(h, code, body) ==
  /\ Sent(h) /\ IsBody(code, body) /\ h.pdu_type = (IF code = FileData THEN 1 ELSE 0)
  /\ BodySize(code, body) \in Nat

PduSize(h, code, body) == BodyAt(h) + BodySize(code, body)

PduBuilt(p) ==
  /\ p = [s |-> p.s, h |-> p.h, code |-> p.code, body |-> p.body]
  /\ Pdu(p.h, p.code, p.body)
  /\ Encoder(p.s, PduSize(p.h, p.code, p.body)) /\ PduIn(p.s.base, p.h, p.code, p.body)

LEMMA SentIs ==
  ASSUME NEW h, Sent(h)
  PROVE  /\ Encodable(h) /\ h \in PduHeader /\ h.eid_length \in 1 .. 4 /\ h.txn_seq_length \in 1 .. 4
         /\ HeaderLength(h) = 4 + (2 * h.eid_length + h.txn_seq_length)
         /\ HeaderLength(h) \in 7 .. 16 /\ BodyAt(h) \in HeaderLength(h) .. 17
         /\ BodyAt(h) \in 5 .. 17 /\ h.pdu_type \in 0 .. 1
<1>1. h \in PduHeader /\ h.eid_length \in 1 .. 4 /\ h.txn_seq_length \in 1 .. 4
  BY DEF Sent, Fits
<1>2. Encodable(h)
  BY <1>1 DEF Encodable
<1>3. PICK m, n : m = h.eid_length /\ n = h.txn_seq_length
  OBVIOUS
<1>4. HeaderLength(h) = 4 + (2 * m + n) /\ m \in 1 .. 4 /\ n \in 1 .. 4
  BY <1>1, <1>3 DEF HeaderLength
<1>5. HeaderLength(h) \in 7 .. 16
  BY <1>4
<1>6. h.pdu_type \in 0 .. 1
  BY <1>1 DEF PduHeader
<1>7. BodyAt(h) \in HeaderLength(h) .. 17 /\ BodyAt(h) \in 5 .. 17
  BY <1>5, <1>6 DEF BodyAt
<1> QED
  BY <1>1, <1>2, <1>3, <1>4, <1>5, <1>6, <1>7

LEMMA DirectiveBuilt ==
  ASSUME TxnOK, NEW t \in 0 .. 1, NEW code, NEW body, IsBody(code, body), code # FileData
  PROVE  PduBuilt(Built(code, t, body))
<1>1. code \in Octet
  BY BodyCodes
<1>2. PICK c : c = ConstructPduHeader(code, t)
  OBVIOUS
<1>3. /\ Sent(c.h) /\ Encoder(c.s, BodyAt(c.h)) /\ HeaderIn(c.s.base, c.h)
      /\ CodeIn(c.s.base, c.h, code) /\ c.h.pdu_type = 0 /\ BodyAt(c.h) \in 5 .. 17
  BY <1>1, <1>2, HeaderConstructed
<1> DEFINE p == EncodedBody(c, code, body)
<1>4. /\ Encoder(p.s, BodyAt(c.h) + BodySize(code, body))
      /\ BodyIn(p.s.base, BodyAt(c.h), code, body) /\ Keeps(p.s.base, c.s.base, BodyAt(c.h))
      /\ p.h = c.h /\ p.code = code /\ p.body = body
  BY <1>3, BodyEncodes
<1>5. p = [s |-> p.s, h |-> p.h, code |-> p.code, body |-> p.body]
  <2> DEFINE x == CASE code = DirectiveCode.METADATA -> EncodeMd(c.s, body)
                    [] code = DirectiveCode.EOF -> EncodeEof(c.s, body)
                    [] code = DirectiveCode.FIN -> EncodeFin(c.s, body)
                    [] code = DirectiveCode.ACK -> EncodeAck(c.s, body)
                    [] code = DirectiveCode.NAK -> EncodeNak(c.s, body)
  <2>1. p = [s |-> x, h |-> c.h, code |-> code, body |-> body]
    BY Zenon DEF EncodedBody
  <2> HIDE DEF x, p
  <2> QED
    BY <2>1
<1>6. Built(code, t, body) = p
  BY <1>2 DEF Built
<1> HIDE DEF p
<1>7. PICK at, l : at = BodyAt(c.h) /\ l = HeaderLength(c.h)
  OBVIOUS
<1>8. at \in 5 .. 17 /\ l \in 7 .. 16 /\ at = l + 1 /\ Encodable(c.h)
  BY <1>3, <1>7, SentIs DEF BodyAt
<1>9. HeaderIn(p.s.base, c.h)
  <2>1. l <= at /\ at \in Nat
    BY <1>8
  <2> QED
    BY <1>3, <1>4, <1>7, <1>8, <2>1, KeptHeaderIn
<1>10. CodeIn(p.s.base, c.h, code)
  <2>1. PICK o : o = <<code>>
    OBVIOUS
  <2>2. o \in Seq(Octet) /\ Len(o) = 1
    BY <1>1, <2>1
  <2>3. Holds(c.s.base, l, o)
    BY <1>3, <1>7, <2>1 DEF CodeIn
  <2>4. l + Len(o) <= at /\ at \in Nat /\ l \in Nat
    BY <1>8, <2>2
  <2>5. Keeps(p.s.base, c.s.base, at)
    BY <1>4, <1>7
  <2>6. Holds(p.s.base, l, o)
    BY <2>2, <2>3, <2>4, <2>5, HoldsKept
  <2> QED
    BY <1>7, <2>1, <2>6 DEF CodeIn
<1>11. BodySize(code, body) \in Nat
  BY <1>3, DirectivesFit
<1>12. Pdu(p.h, p.code, p.body)
  BY <1>3, <1>4, <1>11 DEF Pdu
<1>13. PduIn(p.s.base, p.h, p.code, p.body)
  BY <1>4, <1>9, <1>10 DEF PduIn
<1>14. Encoder(p.s, PduSize(p.h, p.code, p.body))
  BY <1>4 DEF PduSize
<1> QED
  BY <1>5, <1>6, <1>12, <1>13, <1>14 DEF PduBuilt

LEMMA FilePieceIs ==
  ASSUME NEW o \in 0 .. FileLength, NEW n \in Nat, o + n <= FileLength
  PROVE  LET data == SubSeq(File, o + 1, o + n)
         IN  /\ data \in Seq(Octet) /\ Len(data) = n /\ \A i \in 1 .. n : data[i] = File[o + i]
             /\ [NoFd EXCEPT !.offset = o, !.data = data] \in FilePieces
<1> DEFINE data == SubSeq(File, o + 1, o + n)
<1>1. FileLength \in Nat /\ File \in Seq(0 .. Radix - 1) /\ Len(File) = FileLength /\ Radix \in 0 .. 256
  BY FileIs
<1>2. \A j \in 1 .. FileLength : File[j] \in Octet
  <2>1. \A j \in 1 .. FileLength : File[j] \in 0 .. Radix - 1
    BY <1>1, ElementOfSeq
  <2>2. 0 .. Radix - 1 \subseteq 0 .. 255
    BY <1>1
  <2> QED
    BY <2>1, <2>2 DEF Octet
<1>3. \A j \in (o + 1) .. (o + n) : File[j] \in Octet
  BY <1>1, <1>2
<1>4. /\ data \in Seq(Octet) /\ Len(data) = (IF o + 1 <= o + n THEN (o + n) - (o + 1) + 1 ELSE 0)
      /\ \A i \in 1 .. (o + n) - (o + 1) + 1 : data[i] = File[(o + 1) + i - 1]
  <2>1. o + 1 \in Int /\ o + n \in Int
    BY <1>1
  <2> QED
    BY <1>3, <2>1, SubSeqProperties
<1>5. (IF o + 1 <= o + n THEN (o + n) - (o + 1) + 1 ELSE 0) = n /\ (o + n) - (o + 1) + 1 = n
      /\ \A i \in 1 .. n : (o + 1) + i - 1 = o + i
  BY <1>1
<1>6. data \in Seq(Octet) /\ Len(data) = n /\ \A i \in 1 .. n : data[i] = File[o + i]
  <2> HIDE DEF data
  <2> QED
    BY <1>4, <1>5
<1>7. [NoFd EXCEPT !.offset = o, !.data = data] \in FilePieces
  <2>1. PICK x : x = <<o, n>>
    OBVIOUS
  <2>2. /\ x \in {y \in (0 .. FileLength) \X (0 .. FileLength) : y[1] + y[2] <= FileLength}
        /\ x[1] = o /\ x[2] = n
    BY <1>1, <2>1
  <2> HIDE DEF data
  <2>3. data = SubSeq(File, x[1] + 1, x[1] + x[2])
    BY <2>2 DEF data
  <2> QED
    BY <2>2, <2>3 DEF FilePieces
<1> QED
  BY <1>6, <1>7

LEMMA FilePiecesAre ==
  ASSUME NEW fd \in FilePieces
  PROVE  \E o \in 0 .. FileLength, n \in Nat :
           /\ o + n <= FileLength /\ fd = [NoFd EXCEPT !.offset = o, !.data = SubSeq(File, o + 1, o + n)]
           /\ fd.offset = o /\ fd.data = SubSeq(File, o + 1, o + n)
           /\ fd.offset \in Numbers32 /\ fd.data \in Seq(Octet) /\ Len(fd.data) = n
           /\ \A i \in 1 .. n : fd.data[i] = File[o + i]
<1>1. PICK x \in {y \in (0 .. FileLength) \X (0 .. FileLength) : y[1] + y[2] <= FileLength} :
        fd = [NoFd EXCEPT !.offset = x[1], !.data = SubSeq(File, x[1] + 1, x[1] + x[2])]
  BY DEF FilePieces
<1>2. PICK o, n : o = x[1] /\ n = x[2]
  OBVIOUS
<1>3. o \in 0 .. FileLength /\ n \in 0 .. FileLength /\ o + n <= FileLength /\ FileLength \in Nat
  BY <1>1, <1>2, FileIs
<1>4. n \in Nat
  BY <1>3
<1>5. PICK data : data = SubSeq(File, o + 1, o + n)
  OBVIOUS
<1>6. fd = [NoFd EXCEPT !.offset = o, !.data = data]
  BY <1>1, <1>2, <1>5
<1>7. fd.offset = o /\ fd.data = data
  BY <1>6 DEF NoFd
<1>8. data \in Seq(Octet) /\ Len(data) = n /\ \A i \in 1 .. n : data[i] = File[o + i]
  BY <1>3, <1>4, <1>5, FilePieceIs
<1>9. o \in Numbers32
  <2>1. FileLength \in Numbers32 /\ FileLength \in Nat
    BY WireAssumption, FileIs
  <2> QED
    BY <1>3, <2>1, SMT DEF Numbers32
<1> QED
  BY <1>3, <1>4, <1>5, <1>6, <1>7, <1>8, <1>9, ZenonT(60)

(* One of the three sizes is the least.                                    *)
LEMMA LeastOfThree ==
  ASSUME NEW a \in Nat, NEW b \in Nat, NEW c \in Nat
  PROVE  Min({a, b, c}) \in Nat /\ Min({a, b, c}) <= a /\ Min({a, b, c}) <= b
<1>1. {a, b, c} \subseteq Nat /\ {a, b, c} # {}
  OBVIOUS
<1> QED
  BY <1>1, MinProperties

LEMMA FileDataBuilt ==
  ASSUME TxnOK, txn.foffs < FileLength, NEW chunk \in ChunkSizes
  PROVE  LET p == FileDataPdu(chunk)
         IN  /\ PduBuilt(p) /\ p.code = FileData
             /\ \E n \in Nat : /\ txn.foffs + n <= FileLength /\ Len(p.body.data) = n
                               /\ p.body.data = SubSeq(File, txn.foffs + 1, txn.foffs + n)
<1>1. PICK c : c = ConstructPduHeader(FileData, ToReceiver)
  OBVIOUS
<1>2. /\ Sent(c.h) /\ Encoder(c.s, BodyAt(c.h)) /\ HeaderIn(c.s.base, c.h)
      /\ c.h.pdu_type = 1 /\ BodyAt(c.h) \in 5 .. 17
  <2>1. FileData \in Octet /\ ToReceiver \in 0 .. 1
    BY DEF FileData, ToReceiver, Octet
  <2> QED
    BY <1>1, <2>1, HeaderConstructed
<1>3. PICK at, o : at = BodyAt(c.h) /\ o = txn.foffs
  OBVIOUS
<1>4. /\ at \in 5 .. 17 /\ o \in 0 .. FileLength /\ o \in Numbers32 /\ o < FileLength
      /\ FileLength \in Nat /\ at + 4 <= MaxPduSize /\ MaxPduSize \in Nat
  <2>1. o \in 0 .. FileLength /\ FileLength \in Nat /\ FileLength \in Numbers32
    BY <1>3, FileIs, WireAssumption DEF TxnOK
  <2>2. o \in Numbers32
    BY <2>1, SMT DEF Numbers32
  <2> QED
    BY <1>2, <1>3, <2>1, <2>2, RoomForHeaders
<1> DEFINE e == EncodeFileDataHeader(c.s, c.h.segment_meta_flag = 1, [NoFd EXCEPT !.offset = o])
           n == ActualBytes(e, FileLength - o, chunk)
           data == SubSeq(File, o + 1, o + n)
           fd == [NoFd EXCEPT !.offset = o, !.data = data]
           s == Encode(e, data)
           p == [s |-> s, h |-> c.h, code |-> FileData, body |-> fd]
<1>5. FileDataPdu(chunk) = p
  BY <1>1, <1>3 DEF FileDataPdu, FileDataBehind
<1>6. e = EncodeFileDataHeader(c.s, FALSE, [NoFd EXCEPT !.offset = o])
  <2>1. (c.h.segment_meta_flag = 1) = FALSE
    BY <1>2 DEF Sent
  <2> QED
    BY <2>1
<1> HIDE DEF e
<1>7. /\ Encoder(e, at + 4) /\ Holds(e.base, at, Octets(o, 4)) /\ Keeps(e.base, c.s.base, at)
  BY <1>2, <1>3, <1>4, <1>6, FdHeaderEncodes
<1>8. n \in Nat /\ (at + 4) + n <= MaxPduSize /\ o + n <= FileLength
  <2>1. GetRemain(e) = MaxPduSize - (at + 4)
    BY <1>7 DEF GetRemain, Encoder
  <2>2. GetRemain(e) \in Nat /\ FileLength - o \in Nat /\ chunk \in Nat
    BY <1>4, <2>1, WireAssumption
  <2>3. n \in Nat /\ n <= GetRemain(e) /\ n <= FileLength - o
    BY <2>2, LeastOfThree DEF ActualBytes
  <2> HIDE DEF n
  <2> QED
    BY <1>4, <2>1, <2>3
<1> HIDE DEF n
<1>9. data \in Seq(Octet) /\ Len(data) = n /\ fd \in FilePieces
  BY <1>4, <1>8, FilePieceIs
<1>10. fd.offset = o /\ fd.data = data
  BY FdIs
<1> HIDE DEF data, fd
<1>11. /\ Encoder(s, (at + 4) + n) /\ Holds(s.base, at + 4, data) /\ Keeps(s.base, e.base, at + 4)
  BY <1>7, <1>8, <1>9, EncodeAt
<1> HIDE DEF s
<1>12. PICK r : r = Octets(o, 4)
  OBVIOUS
<1>13. r \in Seq(Octet) /\ Len(r) = 4
  BY <1>4, <1>12, FourOctets
<1>14. Holds(s.base, at, r) /\ Keeps(s.base, c.s.base, at)
  <2>1. at \in Nat /\ at + 4 \in Nat /\ at <= at + 4 /\ at + Len(r) <= at + 4
    BY <1>4, <1>13
  <2> QED
    BY <1>7, <1>11, <1>12, <1>13, <2>1, HoldsKept, KeepsLess
<1>15. HeaderIn(s.base, c.h)
  <2>1. Encodable(c.h) /\ HeaderLength(c.h) <= at /\ at \in Nat
    BY <1>2, <1>3, SentIs DEF BodyAt
  <2> QED
    BY <1>2, <1>14, <2>1, KeptHeaderIn
<1>16. BodyIn(s.base, at, FileData, fd)
  BY <1>10, <1>11, <1>12, <1>14, CodesAre DEF BodyIn, FdIn
<1>17. CodeIn(s.base, c.h, FileData)
  BY <1>2 DEF CodeIn
<1>18. BodySize(FileData, fd) = 4 + n /\ BodySize(FileData, fd) \in Nat
  BY <1>8, <1>9, <1>10, BodySizeIs DEF FdSize
<1>19. Pdu(c.h, FileData, fd)
  BY <1>2, <1>9, <1>18 DEF Pdu, IsBody
<1>20. Encoder(s, PduSize(c.h, FileData, fd))
  <2>1. PduSize(c.h, FileData, fd) = (at + 4) + n
    BY <1>3, <1>4, <1>8, <1>18 DEF PduSize
  <2> QED
    BY <1>11, <2>1
<1>21. PduIn(s.base, c.h, FileData, fd)
  BY <1>3, <1>15, <1>16, <1>17 DEF PduIn
<1>22. PduBuilt(p)
  BY <1>19, <1>20, <1>21 DEF PduBuilt
<1>23. p.body.data = SubSeq(File, o + 1, o + n) /\ Len(p.body.data) = n
  BY <1>9, <1>10 DEF data
<1> QED
  BY <1>3, <1>5, <1>8, <1>22, <1>23

-------------------------------------------------------------------------------
(* The length of a PDU *)

(* The first n octets of base are those of a PDU with the header h that    *)
(* the encoder left in b, with the length set and the flags x added.       *)
Agrees(base, b, h, x, n) ==
  \A i \in 1 .. n : /\ base[i] \in Octet /\ b[i] \in Octet
                    /\ i = 1 => base[i] = HeaderFlags(h) + x
                    /\ i = 3 => base[2] * 256 + base[3] = h.data_encoded_length
                    /\ i >= 4 => base[i] = b[i]

LEMMA DataLengthMatters ==
  ASSUME NEW h \in PduHeader, NEW n \in Nat, NEW g, g = [h EXCEPT !.data_encoded_length = n]
  PROVE  /\ HeaderLength(g) = HeaderLength(h) /\ BodyAt(g) = BodyAt(h)
         /\ HeaderFlags(g) = HeaderFlags(h) /\ HeaderLengths(g) = HeaderLengths(h)
         /\ Sent(h) => Sent(g)
         /\ \A code, body : PduSize(g, code, body) = PduSize(h, code, body)
         /\ \A code, body : Pdu(h, code, body) => Pdu(g, code, body)
         /\ \A b, code, body : PduIn(b, h, code, body) => PduIn(b, g, code, body)
         /\ g.data_encoded_length = n /\ g \in PduHeader
<1>1. /\ g \in PduHeader /\ g.data_encoded_length = n
      /\ g.version = h.version /\ g.pdu_type = h.pdu_type /\ g.direction = h.direction
      /\ g.txm_mode = h.txm_mode /\ g.crc_flag = h.crc_flag /\ g.large_flag = h.large_flag
      /\ g.segmentation_control = h.segmentation_control
      /\ g.eid_length = h.eid_length /\ g.segment_meta_flag = h.segment_meta_flag
      /\ g.txn_seq_length = h.txn_seq_length
      /\ g.header_encoded_length = h.header_encoded_length
      /\ g.source_eid = h.source_eid /\ g.destination_eid = h.destination_eid
      /\ g.sequence_num = h.sequence_num
  BY DataLengthKept
<1>2. /\ HeaderLength(g) = HeaderLength(h) /\ HeaderFlags(g) = HeaderFlags(h)
      /\ HeaderLengths(g) = HeaderLengths(h)
  BY <1>1, Zenon DEF HeaderLength, HeaderFlags, HeaderLengths
<1>3. BodyAt(g) = BodyAt(h)
  BY <1>1, <1>2 DEF BodyAt
<1>4. Sent(h) => Sent(g)
  BY <1>1, <1>2 DEF Sent
<1>5. \A code, body : PduSize(g, code, body) = PduSize(h, code, body)
  BY <1>3 DEF PduSize
<1>6. \A code, body : Pdu(h, code, body) => Pdu(g, code, body)
  BY <1>1, <1>4 DEF Pdu
<1>7. \A b : IdsIn(b, g) <=> IdsIn(b, h)
  BY <1>1, Zenon DEF IdsIn
<1>8. ASSUME NEW b, NEW code, NEW body, PduIn(b, h, code, body)
      PROVE  PduIn(b, g, code, body)
  <2>1. HeaderIn(b, h) /\ CodeIn(b, h, code) /\ BodyIn(b, BodyAt(h), code, body)
    BY <1>8 DEF PduIn
  <2>2. HeaderIn(b, g)
    BY <1>2, <1>7, <2>1 DEF HeaderIn
  <2>3. CodeIn(b, g, code)
    BY <1>1, <1>2, <2>1 DEF CodeIn
  <2> QED
    BY <1>3, <2>1, <2>2, <2>3 DEF PduIn
<1> QED
  BY <1>1, <1>2, <1>3, <1>4, <1>5, <1>6, <1>8

LEMMA LengthOctetsAre ==
  ASSUME NEW l \in Nat, l < 65536
  PROVE  /\ l \div 256 \in Octet /\ l % 256 \in Octet /\ (l \div 256) * 256 + (l % 256) = l
<1>1. l % 256 \in 0 .. 255 /\ l \div 256 \in 0 .. 255
  BY SMT
<1>2. (l \div 256) * 256 + (l % 256) = l
  <2>1. PICK m : m = 256
    OBVIOUS
  <2>2. l \in Int /\ m \in Nat \ {0}
    BY <2>1, SMT
  <2>3. l = (l \div m) * m + (l % m)
    BY <2>2, Remainders
  <2> QED
    BY <2>1, <2>3
<1> QED
  BY <1>1, <1>2 DEF Octet

LEMMA LengthSet ==
  ASSUME NEW p, PduBuilt(p)
  PROVE  LET q == SetPduLength(p)
             total == PduSize(q.h, q.code, q.body)
         IN  /\ Pdu(q.h, q.code, q.body) /\ q.code = p.code /\ q.body = p.body
             /\ PduIn(p.s.base, q.h, q.code, q.body)
             /\ total \in HeaderLength(q.h) .. MaxPduSize
             /\ q.h.header_encoded_length + q.h.data_encoded_length = total
             /\ q.h.data_encoded_length = total - HeaderLength(q.h)
             /\ q.s.base \in [1 .. MaxPduSize -> Octet]
             /\ Agrees(q.s.base, p.s.base, q.h, 0, total) /\ p.s.is_valid
<1>1. PICK s, h, code, body : s = p.s /\ h = p.h /\ code = p.code /\ body = p.body
  OBVIOUS
<1>2. /\ p = [s |-> s, h |-> h, code |-> code, body |-> body] /\ Pdu(h, code, body)
      /\ Encoder(s, PduSize(h, code, body)) /\ PduIn(s.base, h, code, body)
  BY <1>1 DEF PduBuilt
<1>3. PICK total, l, n : total = PduSize(h, code, body) /\ l = HeaderLength(h) /\ n = total - l
  OBVIOUS
<1>4. /\ Sent(h) /\ h \in PduHeader /\ h.header_encoded_length = l
      /\ Encodable(h) /\ l \in 7 .. 16 /\ BodyAt(h) \in l .. 17
      /\ BodySize(code, body) \in Nat
  BY <1>2, <1>3, SentIs DEF Pdu, Sent
<1>5. /\ s \in Codecs(s.base) /\ s.base \in [1 .. MaxPduSize -> Octet] /\ s.is_valid
      /\ s.next_offset = total /\ total \in 0 .. MaxPduSize /\ MaxPduSize \in Nat /\ MaxPduSize < 65536
  BY <1>2, <1>3, SizeAssumption DEF Encoder
<1>6. total \in l .. MaxPduSize /\ n < 65536 /\ n \in Nat /\ l + n = total /\ total >= 7
  <2>1. total = BodyAt(h) + BodySize(code, body)
    BY <1>3 DEF PduSize
  <2>2. PICK at, k : at = BodyAt(h) /\ k = BodySize(code, body)
    OBVIOUS
  <2>3. total = at + k /\ at \in l .. 17 /\ k \in Nat /\ l \in 7 .. 16 /\ n = total - l
    BY <1>3, <1>4, <2>1, <2>2
  <2>4. PICK m : m = MaxPduSize
    OBVIOUS
  <2>5. m \in Nat /\ m < 65536 /\ total \in 0 .. m
    BY <1>5, <2>4, SMT
  <2>6. total \in l .. m /\ n \in Nat /\ l + n = total /\ total >= 7 /\ n <= m
    BY <2>3, <2>5, SMT
  <2>7. n < 65536
    BY <2>5, <2>6, SMT
  <2> QED
    BY <2>4, <2>6, <2>7, SMT
<1>7. PICK g : g = [h EXCEPT !.data_encoded_length = n]
  OBVIOUS
<1>8. /\ HeaderLength(g) = l /\ HeaderFlags(g) = HeaderFlags(h)
      /\ Sent(g) /\ PduSize(g, code, body) = total /\ Pdu(g, code, body)
      /\ PduIn(s.base, g, code, body) /\ g.data_encoded_length = n
      /\ g.header_encoded_length = l
  <2>1. /\ HeaderLength(g) = l /\ HeaderFlags(g) = HeaderFlags(h)
        /\ Sent(g) /\ PduSize(g, code, body) = total /\ Pdu(g, code, body)
        /\ PduIn(s.base, g, code, body) /\ g.data_encoded_length = n
    <3>1. h \in PduHeader /\ n \in Nat /\ g = [h EXCEPT !.data_encoded_length = n]
      BY <1>4, <1>6, <1>7
    <3>2. /\ HeaderLength(g) = HeaderLength(h) /\ HeaderFlags(g) = HeaderFlags(h)
          /\ Sent(h) => Sent(g)
          /\ \A k, b : PduSize(g, k, b) = PduSize(h, k, b)
          /\ \A k, b : Pdu(h, k, b) => Pdu(g, k, b)
          /\ \A c, k, b : PduIn(c, h, k, b) => PduIn(c, g, k, b)
          /\ g.data_encoded_length = n
      BY <3>1, DataLengthMatters
    <3> QED
      BY <1>2, <1>3, <1>4, <3>2
  <2>2. g.header_encoded_length = l
    BY <2>1 DEF Sent
  <2> QED
    BY <2>1, <2>2
<1> DEFINE c == ReplaceAt(ReplaceAt(s.base, 2, n \div 256), 3, n % 256)
           d == [s EXCEPT !.base = c]
           q == SetPduLength(p)
<1>9. EncodeHeaderFinalSize(s, g) = SetDone(d)
  <2>1. s.is_valid /\ s.next_offset >= HeaderSize
    BY <1>5, <1>6 DEF HeaderSize
  <2> QED
    BY <1>8, <2>1 DEF EncodeHeaderFinalSize
<1>10. c = [[s.base EXCEPT ![2] = n \div 256] EXCEPT ![3] = n % 256]
  BY DEF ReplaceAt
<1>11. /\ c \in [1 .. MaxPduSize -> Octet] /\ c[2] = n \div 256 /\ c[3] = n % 256
       /\ \A i \in 1 .. MaxPduSize : i # 2 /\ i # 3 => c[i] = s.base[i]
  <2>1. PICK u, v, b : u = n \div 256 /\ v = n % 256 /\ b = s.base
    OBVIOUS
  <2>2. u \in Octet /\ v \in Octet
    BY <1>6, <2>1, LengthOctetsAre
  <2>3. 2 \in 1 .. MaxPduSize /\ 3 \in 1 .. MaxPduSize /\ b \in [1 .. MaxPduSize -> Octet]
    BY <1>5, <2>1, RoomForHeaders
  <2>4. c = [[b EXCEPT ![2] = u] EXCEPT ![3] = v]
    BY <1>10, <2>1
  <2>5. PICK a : a = [b EXCEPT ![2] = u]
    OBVIOUS
  <2>6. /\ a \in [1 .. MaxPduSize -> Octet] /\ a[2] = u
        /\ \A i \in 1 .. MaxPduSize : i # 2 => a[i] = b[i]
    BY <2>2, <2>3, <2>5
  <2> HIDE DEF c, d, q
  <2>7. PICK e : e = c
    OBVIOUS
  <2>8. e = [a EXCEPT ![3] = v]
    BY <2>4, <2>5, <2>7
  <2>9. /\ e \in [1 .. MaxPduSize -> Octet] /\ e[3] = v
        /\ \A i \in 1 .. MaxPduSize : i # 3 => e[i] = a[i]
    BY <2>2, <2>3, <2>6, <2>8
  <2>10. e[2] = u /\ \A i \in 1 .. MaxPduSize : i # 2 /\ i # 3 => e[i] = b[i]
    BY <2>3, <2>6, <2>9
  <2> QED
    BY <2>1, <2>7, <2>9, <2>10
<1>12. (n \div 256) * 256 + (n % 256) = n
  BY <1>6, LengthOctetsAre
<1>13. SetDone(d).base = c
  <2> HIDE DEF c
  <2>1. d \in Codecs(c)
    BY <1>5, BaseIs
  <2>2. SetDone(d) \in Codecs(c)
    BY <2>1, SetDoneIs
  <2> QED
    BY <2>2 DEF Codecs
<1>14. q.s = SetDone(d) /\ q.h = g /\ q.code = code /\ q.body = body
  <2>1. p.s.next_offset >= p.h.header_encoded_length
    BY <1>1, <1>4, <1>5, <1>6
  <2>2. g = [p.h EXCEPT !.data_encoded_length = p.s.next_offset - p.h.header_encoded_length]
    BY <1>1, <1>3, <1>4, <1>5, <1>7
  <2>3. q = [p EXCEPT !.s = EncodeHeaderFinalSize(p.s, g), !.h = g]
    BY <2>1, <2>2 DEF SetPduLength
  <2> HIDE DEF d, q
  <2>4. q = [[s |-> s, h |-> h, code |-> code, body |-> body] EXCEPT !.s = SetDone(d), !.h = g]
    BY <1>1, <1>2, <1>9, <2>3
  <2> QED
    BY <2>4
<1> HIDE DEF c, d, q
<1>15. Agrees(c, s.base, g, 0, total)
  <2> SUFFICES ASSUME NEW i \in 1 .. total
               PROVE  /\ c[i] \in Octet /\ s.base[i] \in Octet
                      /\ i = 1 => c[i] = HeaderFlags(g) + 0
                      /\ i = 3 => c[2] * 256 + c[3] = g.data_encoded_length
                      /\ i >= 4 => c[i] = s.base[i]
    BY DEF Agrees
  <2>1. i \in 1 .. MaxPduSize
    BY <1>5
  <2>2. c[i] \in Octet /\ s.base[i] \in Octet
    BY <1>5, <1>11, <2>1
  <2>3. i = 3 => c[2] * 256 + c[3] = g.data_encoded_length
    <3>1. PICK u, v, m : u = n \div 256 /\ v = n % 256 /\ m = 256
      OBVIOUS
    <3>2. u * m + v = n
      BY <1>12, <3>1
    <3>3. c[2] = u /\ c[3] = v
      BY <1>11, <3>1
    <3> QED
      BY <1>8, <3>1, <3>2, <3>3
  <2>4. i >= 4 => c[i] = s.base[i]
    BY <1>11, <2>1
  <2>5. i = 1 => c[i] = HeaderFlags(g) + 0
    <3>1. s.base[1] = HeaderFlags(h)
      BY <1>2 DEF PduIn, HeaderIn
    <3>2. HeaderFlags(h) \in Octet
      BY <1>4, HeaderOctetsAre
    <3>3. HeaderFlags(h) + 0 = HeaderFlags(h)
      BY <3>2 DEF Octet
    <3> QED
      BY <1>8, <1>11, <2>1, <3>1, <3>3
  <2> QED
    BY <2>2, <2>3, <2>4, <2>5
<1>16. q.h.header_encoded_length + q.h.data_encoded_length = total
  BY <1>6, <1>8, <1>14
<1>17. q.h.data_encoded_length = total - HeaderLength(q.h)
  BY <1>3, <1>8, <1>14
<1>18. total \in HeaderLength(q.h) .. MaxPduSize
  <2>1. HeaderLength(q.h) = l
    BY <1>8, <1>14
  <2> QED
    BY <1>6, <2>1
<1>19. PduSize(q.h, q.code, q.body) = total
  BY <1>8, <1>14
<1>20. Pdu(q.h, q.code, q.body) /\ q.code = p.code /\ q.body = p.body
       /\ PduIn(p.s.base, q.h, q.code, q.body)
  BY <1>1, <1>8, <1>14
<1>21. q.s.base \in [1 .. MaxPduSize -> Octet] /\ Agrees(q.s.base, p.s.base, q.h, 0, total)
       /\ p.s.is_valid
  BY <1>1, <1>5, <1>11, <1>13, <1>14, <1>15
<1> QED
  BY <1>16, <1>17, <1>18, <1>19, <1>20, <1>21 DEF q

-------------------------------------------------------------------------------
(* Decoding headers *)

LEMMA NumberDecodes ==
  ASSUME NEW d, NEW b, NEW size, NEW at, Decoder(d, b, size, at),
         NEW v, NEW n, Fits(v, n), Holds(b, at, Octets(v, n))
  PROVE  LET e == DecodeIntegerInSize(d, n)
         IN  /\ at + n > size => Broken(e.s)
             /\ at + n <= size => Decoder(e.s, b, size, at + n) /\ e.v = v
<1>1. v \in Nat /\ n \in Nat
  BY DEF Fits, Numbers32
<1>2. PICK r : r = Octets(v, n)
  OBVIOUS
<1>3. r \in Seq(Octet) /\ Len(r) = n /\ Value(r) = v
  BY <1>1, <1>2, OctetsAre, ValueOfOctets
<1> DEFINE c == Decode(d, n)
<1>4. /\ at + n > size => Broken(c.s)
      /\ at + n <= size => Decoder(c.s, b, size, at + n) /\ c.v = r
  BY <1>2, <1>3, DecodeHeld
<1>5. DecodeIntegerInSize(d, n).s = c.s /\ DecodeIntegerInSize(d, n).v = Value(c.v)
  BY DEF DecodeIntegerInSize
<1> HIDE DEF c
<1> QED
  BY <1>3, <1>4, <1>5

LEMMA NumberStaysBroken ==
  ASSUME NEW d, Broken(d), NEW n \in Nat
  PROVE  Broken(DecodeIntegerInSize(d, n).s)
BY BrokenStays DEF DecodeIntegerInSize

(* The first four octets of a header.                                      *)
LEMMA HeaderStart ==
  ASSUME NEW m, m.size \in Nat, \A i \in 1 .. m.size : m.base[i] \in Octet
  PROVE  LET d == Decode(DecodeStart(m), HeaderSize)
         IN  /\ m.size < 4 => Broken(d.s) /\ ~d.s.is_valid
             /\ m.size >= 4 => /\ Decoder(d.s, m.base, m.size, 4) /\ d.s.is_valid
                               /\ \A i \in 1 .. 4 : d.v[i] = m.base[i]
<1> DEFINE s == CodecState(m.base, m.size)
<1>1. /\ s \in Codecs(m.base) /\ s.base = m.base /\ s.is_valid /\ s.max_size = m.size
      /\ s.next_offset = 0
  BY DEF CodecState, Codecs
<1>2. DecodeStart(m) = IF m.size > 0 THEN s ELSE SetDone(s)
  BY DEF DecodeStart
<1> HIDE DEF s
<1>3. Decoder(s, m.base, m.size, 0)
  BY <1>1 DEF Decoder
<1>4. HeaderSize = 4 /\ HeaderSize \in Nat
  BY DEF HeaderSize
<1>5. CASE m.size = 0
  <2>1. Broken(DecodeStart(m))
    <3>1. 0 \in Nat
      OBVIOUS
    <3>2. Broken(SetDone(s))
      BY <1>3, <3>1, CheckSizeAt
    <3> QED
      BY <1>2, <1>5, <3>2
  <2> QED
    BY <1>4, <1>5, <2>1, BrokenStays DEF Broken
<1>6. CASE m.size > 0
  <2>1. DecodeStart(m) = s
    BY <1>2, <1>6
  <2> DEFINE d == Decode(s, HeaderSize)
  <2>2. /\ 0 + HeaderSize > m.size => Broken(d.s) /\ ~d.s.is_valid
        /\ 0 + HeaderSize <= m.size => /\ Decoder(d.s, m.base, m.size, 0 + HeaderSize) /\ d.s.is_valid
                                       /\ \A i \in 1 .. HeaderSize : d.v[i] = m.base[0 + i]
    BY <1>3, <1>4, DecodeAt
  <2> HIDE DEF d
  <2>3. \A i \in 1 .. 4 : 0 + i = i
    OBVIOUS
  <2> QED
    BY <1>4, <2>1, <2>2, <2>3 DEF d
<1> QED
  BY <1>5, <1>6

LEMMA HeadersEqual ==
  ASSUME NEW h \in PduHeader, NEW g \in PduHeader,
         /\ g.version = h.version /\ g.pdu_type = h.pdu_type /\ g.direction = h.direction
         /\ g.txm_mode = h.txm_mode /\ g.crc_flag = h.crc_flag /\ g.large_flag = h.large_flag
         /\ g.segmentation_control = h.segmentation_control
         /\ g.eid_length = h.eid_length /\ g.segment_meta_flag = h.segment_meta_flag
         /\ g.txn_seq_length = h.txn_seq_length
         /\ g.header_encoded_length = h.header_encoded_length
         /\ g.data_encoded_length = h.data_encoded_length
         /\ g.source_eid = h.source_eid /\ g.destination_eid = h.destination_eid
         /\ g.sequence_num = h.sequence_num
  PROVE  g = h
BY SMT DEF PduHeader

Fixed(h, x) ==
  [version |-> h.version, pdu_type |-> h.pdu_type, direction |-> h.direction,
   txm_mode |-> h.txm_mode, crc_flag |-> x \div 2, large_flag |-> x % 2,
   segmentation_control |-> 0, eid_length |-> h.eid_length, segment_meta_flag |-> 0,
   txn_seq_length |-> h.txn_seq_length, header_encoded_length |-> 0,
   data_encoded_length |-> h.data_encoded_length,
   source_eid |-> 0, destination_eid |-> 0, sequence_num |-> 0]

LEMMA FixedIs ==
  ASSUME NEW h, Sent(h), NEW x \in 0 .. 3, NEW c, c[1] = HeaderFlags(h) + x,
         c[2] * 256 + c[3] = h.data_encoded_length, c[4] = HeaderLengths(h)
  PROVE  FixedHeader(c) = Fixed(h, x)
<1>1. /\ h.version \in 0 .. 7 /\ h.pdu_type \in 0 .. 1 /\ h.direction \in 0 .. 1
      /\ h.txm_mode \in 0 .. 1 /\ h.segmentation_control = 0
      /\ h.segment_meta_flag = 0 /\ h.eid_length \in 1 .. 8 /\ h.txn_seq_length \in 1 .. 8
      /\ h.segmentation_control \in 0 .. 1 /\ h.segment_meta_flag \in 0 .. 1
      /\ h.eid_length \in 1 .. 4 /\ h.txn_seq_length \in 1 .. 4
  <2>1. h \in PduHeader /\ h.eid_length \in 1 .. 4 /\ h.txn_seq_length \in 1 .. 4
    BY SentIs
  <2> QED
    BY <2>1 DEF Sent, PduHeader
<1>2. /\ GetField(c[1], 3, 5) = h.version /\ GetField(c[1], 1, 4) = h.pdu_type
      /\ GetField(c[1], 1, 3) = h.direction /\ GetField(c[1], 1, 2) = h.txm_mode
      /\ GetField(c[1], 1, 1) = x \div 2 /\ GetField(c[1], 1, 0) = x % 2
  BY <1>1, FlagsAre DEF HeaderFlags
<1>3. /\ GetField(c[4], 1, 7) = 0 /\ GetField(c[4], 3, 4) = h.eid_length - 1
      /\ GetField(c[4], 1, 3) = 0 /\ GetField(c[4], 3, 0) = h.txn_seq_length - 1
  BY <1>1, LengthsAre DEF HeaderLengths
<1>4. (h.eid_length - 1) + 1 = h.eid_length /\ (h.txn_seq_length - 1) + 1 = h.txn_seq_length
  BY <1>1
<1>5. PICK y, z : y = x \div 2 /\ z = x % 2
  OBVIOUS
<1>6. PICK f1, f2, f3, f4, f5, f6, f7, f8, f9, f10, f11 :
        /\ f1 = GetField(c[1], 3, 5) /\ f2 = GetField(c[1], 1, 4) /\ f3 = GetField(c[1], 1, 3)
        /\ f4 = GetField(c[1], 1, 2) /\ f5 = GetField(c[1], 1, 1) /\ f6 = GetField(c[1], 1, 0)
        /\ f7 = GetField(c[4], 1, 7) /\ f8 = GetField(c[4], 3, 4) + 1 /\ f9 = GetField(c[4], 1, 3)
        /\ f10 = GetField(c[4], 3, 0) + 1 /\ f11 = c[2] * 256 + c[3]
  OBVIOUS
<1>7. FixedHeader(c) =
        [NoHeader EXCEPT
          !.version = f1, !.pdu_type = f2, !.direction = f3, !.txm_mode = f4, !.crc_flag = f5,
          !.large_flag = f6, !.segmentation_control = f7, !.eid_length = f8,
          !.segment_meta_flag = f9, !.txn_seq_length = f10, !.data_encoded_length = f11]
  BY <1>6 DEF FixedHeader
<1>8. /\ f1 = h.version /\ f2 = h.pdu_type /\ f3 = h.direction /\ f4 = h.txm_mode /\ f5 = y
      /\ f6 = z /\ f7 = 0 /\ f9 = 0 /\ f11 = h.data_encoded_length
      /\ f8 = h.eid_length /\ f10 = h.txn_seq_length
  BY <1>2, <1>3, <1>4, <1>5, <1>6
<1>9. FixedHeader(c) =
        [version |-> f1, pdu_type |-> f2, direction |-> f3, txm_mode |-> f4, crc_flag |-> f5,
         large_flag |-> f6, segmentation_control |-> f7, eid_length |-> f8,
         segment_meta_flag |-> f9, txn_seq_length |-> f10, header_encoded_length |-> 0,
         data_encoded_length |-> f11, source_eid |-> 0, destination_eid |-> 0,
         sequence_num |-> 0]
  <2>1. PICK e : e = [NoHeader EXCEPT
                        !.version = f1, !.pdu_type = f2, !.direction = f3, !.txm_mode = f4,
                        !.crc_flag = f5, !.large_flag = f6, !.segmentation_control = f7]
    OBVIOUS
  <2>2. PICK g : g = FixedHeader(c)
    OBVIOUS
  <2>3. g = [e EXCEPT !.eid_length = f8, !.segment_meta_flag = f9,
                      !.txn_seq_length = f10, !.data_encoded_length = f11]
    BY <1>7, <2>1, <2>2
  <2>4. e = [version |-> f1, pdu_type |-> f2, direction |-> f3, txm_mode |-> f4, crc_flag |-> f5,
             large_flag |-> f6, segmentation_control |-> f7, eid_length |-> 0,
             segment_meta_flag |-> 0, txn_seq_length |-> 0, header_encoded_length |-> 0,
             data_encoded_length |-> 0, source_eid |-> 0, destination_eid |-> 0,
             sequence_num |-> 0]
    BY <2>1 DEF NoHeader
  <2>5. g = [version |-> f1, pdu_type |-> f2, direction |-> f3, txm_mode |-> f4, crc_flag |-> f5,
             large_flag |-> f6, segmentation_control |-> f7, eid_length |-> f8,
             segment_meta_flag |-> f9, txn_seq_length |-> f10, header_encoded_length |-> 0,
             data_encoded_length |-> f11, source_eid |-> 0, destination_eid |-> 0,
             sequence_num |-> 0]
    BY <2>3, <2>4
  <2> QED
    BY <2>2, <2>5
<1> QED
  BY <1>5, <1>8, <1>9 DEF Fixed

(* The header that is decoded: that of the sender, but for the flags x.    *)
Decoded(h, x) == [h EXCEPT !.crc_flag = x \div 2, !.large_flag = x % 2]

LEMMA DecodedIs ==
  ASSUME NEW h, Sent(h), NEW x \in 0 .. 3
  PROVE  /\ Decoded(h, x) = [Fixed(h, x) EXCEPT !.source_eid = h.source_eid,
              !.sequence_num = h.sequence_num, !.destination_eid = h.destination_eid,
              !.header_encoded_length = HeaderLength(h)]
         /\ Decoded(h, x) \in PduHeader /\ Decoded(h, x).pdu_type = h.pdu_type
         /\ Decoded(h, x).crc_flag = x \div 2 /\ Decoded(h, x).large_flag = x % 2
         /\ Decoded(h, x).segment_meta_flag = 0
         /\ Decoded(h, 0) = h
<1>1. /\ h \in PduHeader /\ h.crc_flag = 0 /\ h.large_flag = 0 /\ h.segmentation_control = 0
      /\ h.segment_meta_flag = 0 /\ h.header_encoded_length = HeaderLength(h)
  BY DEF Sent
<1>2. x \div 2 \in 0 .. 1 /\ x % 2 \in 0 .. 1 /\ 0 \div 2 = 0 /\ 0 % 2 = 0
  BY SMT
<1>3. PICK y, z : y = x \div 2 /\ z = x % 2
  OBVIOUS
<1>4. y \in 0 .. 1 /\ z \in 0 .. 1
  BY <1>2, <1>3
<1> DEFINE g == [h EXCEPT !.crc_flag = y, !.large_flag = z]
<1>5. /\ g \in PduHeader /\ g.pdu_type = h.pdu_type /\ g.crc_flag = y /\ g.large_flag = z
      /\ g.segment_meta_flag = 0
  BY <1>1, <1>4 DEF PduHeader
<1>6. g = [Fixed(h, x) EXCEPT !.source_eid = h.source_eid,
             !.sequence_num = h.sequence_num, !.destination_eid = h.destination_eid,
             !.header_encoded_length = HeaderLength(h)]
  <2>1. PICK e : e = [version |-> h.version, pdu_type |-> h.pdu_type, direction |-> h.direction,
                   txm_mode |-> h.txm_mode, crc_flag |-> y, large_flag |-> z,
                   segmentation_control |-> 0, eid_length |-> h.eid_length,
                   segment_meta_flag |-> 0, txn_seq_length |-> h.txn_seq_length,
                   header_encoded_length |-> HeaderLength(h),
                   data_encoded_length |-> h.data_encoded_length,
                   source_eid |-> h.source_eid, destination_eid |-> h.destination_eid,
                   sequence_num |-> h.sequence_num]
    OBVIOUS
  <2>2. PICK f : f = Fixed(h, x)
    OBVIOUS
  <2>3. f = [version |-> h.version, pdu_type |-> h.pdu_type, direction |-> h.direction,
             txm_mode |-> h.txm_mode, crc_flag |-> y, large_flag |-> z,
             segmentation_control |-> 0, eid_length |-> h.eid_length, segment_meta_flag |-> 0,
             txn_seq_length |-> h.txn_seq_length, header_encoded_length |-> 0,
             data_encoded_length |-> h.data_encoded_length,
             source_eid |-> 0, destination_eid |-> 0, sequence_num |-> 0]
    BY <1>3, <2>2 DEF Fixed
  <2>4. [f EXCEPT !.source_eid = h.source_eid,
             !.sequence_num = h.sequence_num, !.destination_eid = h.destination_eid,
             !.header_encoded_length = HeaderLength(h)] = e
    <3>1. PICK a, b, c, d : /\ a = h.source_eid /\ b = h.sequence_num /\ c = h.destination_eid
                            /\ d = HeaderLength(h)
      OBVIOUS
    <3>2. PICK k : k = [f EXCEPT !.source_eid = a, !.sequence_num = b, !.destination_eid = c,
                                 !.header_encoded_length = d]
      OBVIOUS
    <3>3. k = [version |-> h.version, pdu_type |-> h.pdu_type, direction |-> h.direction,
               txm_mode |-> h.txm_mode, crc_flag |-> y, large_flag |-> z,
               segmentation_control |-> 0, eid_length |-> h.eid_length, segment_meta_flag |-> 0,
               txn_seq_length |-> h.txn_seq_length, header_encoded_length |-> d,
               data_encoded_length |-> h.data_encoded_length,
               source_eid |-> a, destination_eid |-> c, sequence_num |-> b]
      BY <2>3, <3>2
    <3>4. k = e
      BY <2>1, <3>1, <3>3
    <3> QED
      BY <3>1, <3>2, <3>4
  <2>5. e \in PduHeader
    <3>1. /\ HeaderLength(h) \in Nat /\ h.version \in 0 .. 7 /\ h.pdu_type \in 0 .. 1
          /\ h.direction \in 0 .. 1 /\ h.txm_mode \in 0 .. 1 /\ h.eid_length \in 0 .. 8
          /\ h.txn_seq_length \in 0 .. 8 /\ h.data_encoded_length \in Nat
          /\ h.source_eid \in Nat /\ h.destination_eid \in Nat /\ h.sequence_num \in Nat
          /\ 0 \in 0 .. 1
      <4>1. h.header_encoded_length \in Nat
        BY <1>1 DEF PduHeader
      <4> QED
        BY <1>1, <4>1 DEF PduHeader
    <3> QED
      BY <1>4, <2>1, <3>1 DEF PduHeader
  <2>6. /\ e.version = h.version /\ e.pdu_type = h.pdu_type /\ e.direction = h.direction
        /\ e.txm_mode = h.txm_mode /\ e.crc_flag = y /\ e.large_flag = z
        /\ e.segmentation_control = 0 /\ e.eid_length = h.eid_length /\ e.segment_meta_flag = 0
        /\ e.txn_seq_length = h.txn_seq_length
        /\ e.header_encoded_length = HeaderLength(h)
        /\ e.data_encoded_length = h.data_encoded_length
        /\ e.source_eid = h.source_eid /\ e.destination_eid = h.destination_eid
        /\ e.sequence_num = h.sequence_num
    BY <2>1
  <2>7. PICK k : k = g
    OBVIOUS
  <2>8. /\ k.version = h.version /\ k.pdu_type = h.pdu_type /\ k.direction = h.direction
        /\ k.txm_mode = h.txm_mode /\ k.crc_flag = y /\ k.large_flag = z
        /\ k.segmentation_control = 0 /\ k.eid_length = h.eid_length /\ k.segment_meta_flag = 0
        /\ k.txn_seq_length = h.txn_seq_length
        /\ k.header_encoded_length = HeaderLength(h)
        /\ k.data_encoded_length = h.data_encoded_length
        /\ k.source_eid = h.source_eid /\ k.destination_eid = h.destination_eid
        /\ k.sequence_num = h.sequence_num
    BY <1>1, <2>7 DEF PduHeader
  <2>9. k \in PduHeader
    BY <1>5, <2>7
  <2>10. k = e
    BY <2>5, <2>6, <2>8, <2>9, HeadersEqual
  <2> HIDE DEF g
  <2> QED
    BY <2>2, <2>4, <2>7, <2>10
<1>7. [h EXCEPT !.crc_flag = 0, !.large_flag = 0] = h
  BY <1>1 DEF PduHeader
<1> QED
  BY <1>2, <1>3, <1>5, <1>6, <1>7 DEF Decoded

(* What the identifiers of a header with the flags x are decoded as.       *)
LEMMA IdsDecode ==
  ASSUME NEW h, Sent(h), NEW x \in 0 .. 3, NEW b, IdsIn(b, h), NEW s, NEW size,
         Decoder(s, b, size, 4)
  PROVE  LET d == DecodeIds(s, Fixed(h, x))
         IN  /\ d.ok = TRUE
             /\ HeaderLength(h) > size => Broken(d.s)
             /\ HeaderLength(h) <= size => Decoder(d.s, b, size, HeaderLength(h)) /\ d.v = Decoded(h, x)
<1>1. PICK m, n, f : m = h.eid_length /\ n = h.txn_seq_length /\ f = Fixed(h, x)
  OBVIOUS
<1>2. /\ m \in 1 .. 4 /\ n \in 1 .. 4 /\ HeaderLength(h) = 4 + (2 * m + n)
      /\ Fits(h.source_eid, m) /\ Fits(h.destination_eid, m) /\ Fits(h.sequence_num, n)
  BY <1>1, SentIs DEF Sent
<1>3. f.eid_length = m /\ f.txn_seq_length = n
  BY <1>1 DEF Fixed
<1>4. /\ Holds(b, 4, Octets(h.source_eid, m)) /\ Holds(b, 4 + m, Octets(h.sequence_num, n))
      /\ Holds(b, 4 + (m + n), Octets(h.destination_eid, m))
  BY <1>1 DEF IdsIn
<1> DEFINE src == DecodeIntegerInSize(s, m)
           seq == DecodeIntegerInSize(src.s, n)
           dst == DecodeIntegerInSize(seq.s, m)
           d == DecodeIds(s, f)
<1>5. /\ 4 + m > size => Broken(src.s)
      /\ 4 + m <= size => Decoder(src.s, b, size, 4 + m) /\ src.v = h.source_eid
  BY <1>2, <1>4, NumberDecodes
<1>6. ~(f.eid_length > EntityIdSize \/ f.txn_seq_length > EntityIdSize)
  BY <1>2, <1>3 DEF EntityIdSize
<1>7. d = [s |-> dst.s, ok |-> TRUE,
           v |-> [f EXCEPT !.source_eid = src.v, !.sequence_num = seq.v,
                           !.destination_eid = dst.v, !.header_encoded_length = dst.s.next_offset]]
  BY <1>3, <1>6 DEF DecodeIds
<1> HIDE DEF d, src
<1>8. m \in Nat /\ n \in Nat /\ 4 \in Nat /\ size \in Nat
  BY <1>2 DEF Decoder
<1>9. /\ 4 + (m + n) > size => Broken(seq.s)
      /\ 4 + (m + n) <= size => /\ Decoder(seq.s, b, size, 4 + (m + n)) /\ seq.v = h.sequence_num
                                /\ src.v = h.source_eid
  <2>1. (4 + m) + n = 4 + (m + n) /\ (4 + (m + n) <= size => 4 + m <= size)
    BY <1>8
  <2>2. CASE 4 + m > size
    BY <1>5, <1>8, <2>1, <2>2, NumberStaysBroken
  <2>3. CASE 4 + m <= size
    <3>1. /\ (4 + m) + n > size => Broken(seq.s)
          /\ (4 + m) + n <= size => Decoder(seq.s, b, size, (4 + m) + n) /\ seq.v = h.sequence_num
      BY <1>2, <1>4, <1>5, <2>3, NumberDecodes
    <3> QED
      BY <1>5, <2>1, <2>3, <3>1
  <2> QED
    BY <1>8, <2>2, <2>3
<1> HIDE DEF seq
<1>10. /\ HeaderLength(h) > size => Broken(dst.s)
       /\ HeaderLength(h) <= size =>
            /\ Decoder(dst.s, b, size, HeaderLength(h)) /\ dst.v = h.destination_eid
            /\ seq.v = h.sequence_num /\ src.v = h.source_eid
  <2>1. /\ (4 + (m + n)) + m = HeaderLength(h)
        /\ HeaderLength(h) <= size => 4 + (m + n) <= size
    BY <1>2, <1>8
  <2>2. CASE 4 + (m + n) > size
    BY <1>8, <1>9, <2>1, <2>2, NumberStaysBroken
  <2>3. CASE 4 + (m + n) <= size
    <3>1. /\ (4 + (m + n)) + m > size => Broken(dst.s)
          /\ (4 + (m + n)) + m <= size =>
               Decoder(dst.s, b, size, (4 + (m + n)) + m) /\ dst.v = h.destination_eid
      BY <1>2, <1>4, <1>9, <2>3, NumberDecodes
    <3> QED
      BY <1>9, <2>1, <2>3, <3>1
  <2> QED
    BY <1>8, <2>2, <2>3
<1> HIDE DEF dst
<1>11. ASSUME HeaderLength(h) <= size PROVE d.v = Decoded(h, x)
  <2>1. dst.s.next_offset = HeaderLength(h)
    BY <1>10, <1>11 DEF Decoder
  <2>2. Decoded(h, x) = [Fixed(h, x) EXCEPT !.source_eid = h.source_eid,
          !.sequence_num = h.sequence_num, !.destination_eid = h.destination_eid,
          !.header_encoded_length = HeaderLength(h)]
    BY DecodedIs
  <2>3. d.v = [f EXCEPT !.source_eid = src.v, !.sequence_num = seq.v,
                        !.destination_eid = dst.v, !.header_encoded_length = dst.s.next_offset]
    BY <1>7
  <2>4. src.v = h.source_eid /\ seq.v = h.sequence_num /\ dst.v = h.destination_eid
    BY <1>10, <1>11
  <2> QED
    BY <1>1, <2>1, <2>2, <2>3, <2>4
<1>12. d.ok = TRUE /\ d.s = dst.s
  BY <1>7
<1> QED
  BY <1>1, <1>10, <1>11, <1>12 DEF d

(* Where a decoder is, base can be replaced by what agrees with it there.  *)
LEMMA DecoderMoves ==
  ASSUME NEW d, NEW base, NEW b, NEW size, NEW at, Decoder(d, base, size, at),
         \A i \in at + 1 .. size : b[i] = base[i]
  PROVE  Decoder(d, b, size, at)
BY DEF Decoder

LEMMA HeaderDecodes ==
  ASSUME NEW m, NEW b, NEW h, Sent(h), NEW x \in 0 .. 3, HeaderIn(b, h), m.size \in Nat,
         Agrees(m.base, b, h, x, m.size)
  PROVE  LET d == DecodeHeader(DecodeStart(m))
         IN  /\ d.ok = TRUE
             /\ HeaderLength(h) > m.size => Broken(d.s)
             /\ HeaderLength(h) <= m.size =>
                  Decoder(d.s, b, m.size, HeaderLength(h)) /\ d.v = Decoded(h, x)
<1> DEFINE c == Decode(DecodeStart(m), HeaderSize)
           d == DecodeHeader(DecodeStart(m))
<1>1. \A i \in 1 .. m.size : m.base[i] \in Octet
  BY DEF Agrees
<1>2. /\ m.size < 4 => Broken(c.s) /\ ~c.s.is_valid
      /\ m.size >= 4 => /\ Decoder(c.s, m.base, m.size, 4) /\ c.s.is_valid
                        /\ \A i \in 1 .. 4 : c.v[i] = m.base[i]
  BY <1>1, HeaderStart
<1>3. d = IF c.s.is_valid THEN DecodeIds(c.s, FixedHeader(c.v))
          ELSE [s |-> c.s, v |-> NoHeader, ok |-> TRUE]
  BY DEF DecodeHeader
<1> HIDE DEF c, d
<1>4. HeaderLength(h) \in 7 .. 16
  BY SentIs
<1>5. CASE m.size < 4
  BY <1>2, <1>3, <1>4, <1>5 DEF d
<1>6. CASE m.size >= 4
  <2>1. Decoder(c.s, b, m.size, 4)
    <3>1. \A i \in 4 + 1 .. m.size : b[i] = m.base[i]
      BY <1>6 DEF Agrees
    <3> QED
      BY <1>2, <1>6, <3>1, DecoderMoves
  <2>2. c.v[1] = HeaderFlags(h) + x /\ c.v[4] = HeaderLengths(h)
    <3>1. 1 \in 1 .. m.size /\ 4 \in 1 .. m.size /\ 1 \in 1 .. 4 /\ 4 \in 1 .. 4 /\ 4 >= 4
      BY <1>6
    <3>2. m.base[1] = HeaderFlags(h) + x /\ m.base[4] = b[4]
      BY <3>1 DEF Agrees
    <3> QED
      BY <1>2, <1>6, <3>1, <3>2 DEF HeaderIn
  <2>3. c.v[2] * 256 + c.v[3] = h.data_encoded_length
    <3>1. 3 \in 1 .. m.size /\ 2 \in 1 .. 4 /\ 3 \in 1 .. 4
      BY <1>6
    <3>2. m.base[2] * 256 + m.base[3] = h.data_encoded_length
      BY <3>1 DEF Agrees
    <3>3. c.v[2] = m.base[2] /\ c.v[3] = m.base[3]
      BY <1>2, <1>6, <3>1
    <3> QED
      BY <3>2, <3>3
  <2>4. FixedHeader(c.v) = Fixed(h, x)
    BY <2>2, <2>3, FixedIs
  <2>5. d = DecodeIds(c.s, Fixed(h, x))
    BY <1>2, <1>3, <1>6, <2>4
  <2> QED
    BY <2>1, <2>5, IdsDecode DEF HeaderIn, d
<1>7. m.size < 4 \/ m.size >= 4
  OBVIOUS
<1> QED
  BY <1>5, <1>6, <1>7

(* What is known of a PDU when its header and its code are decoded.        *)
LEMMA PhReceived ==
  ASSUME NEW m, NEW b, NEW h, NEW code, NEW body, Pdu(h, code, body), PduIn(b, h, code, body),
         NEW x \in 0 .. 3, m.size \in Nat, Agrees(m.base, b, h, x, m.size)
  PROVE  LET p == RecvPh(DecodeStart(m))
         IN  /\ x % 2 = 1 /\ HeaderLength(h) <= m.size => p.ret = "CF_ERROR"
             /\ x % 2 = 0 /\ BodyAt(h) > m.size => p.ret = "CF_SHORT_PDU_ERROR"
             /\ x % 2 = 0 /\ BodyAt(h) <= m.size =>
                  /\ p.ret = "CFE_SUCCESS" /\ p.h = Decoded(h, x) /\ p.code = code
                  /\ Decoder(p.s, b, m.size, BodyAt(h))
<1> DEFINE d == DecodeHeader(DecodeStart(m))
           p == RecvPh(DecodeStart(m))
           directive == d.s.is_valid /\ d.v.pdu_type = 0
           c == DecodeFileDirectiveHeader(d.s)
           e == IF directive THEN c.s ELSE d.s
<1>1. /\ Sent(h) /\ HeaderIn(b, h) /\ CodeIn(b, h, code) /\ IsBody(code, body)
      /\ h.pdu_type = (IF code = FileData THEN 1 ELSE 0)
  BY DEF Pdu, PduIn
<1>2. /\ d.ok = TRUE
      /\ HeaderLength(h) > m.size => Broken(d.s)
      /\ HeaderLength(h) <= m.size =>
           Decoder(d.s, b, m.size, HeaderLength(h)) /\ d.v = Decoded(h, x)
  BY <1>1, HeaderDecodes
<1>3. p = [s |-> e, h |-> d.v, code |-> IF directive THEN c.v ELSE FileData,
           ret |-> IF ~d.ok \/ (d.s.is_valid /\ d.v.large_flag = 1) THEN "CF_ERROR"
                   ELSE IF ~e.is_valid THEN "CF_SHORT_PDU_ERROR" ELSE "CFE_SUCCESS"]
  BY DEF RecvPh, CheckedPh
<1> HIDE DEF d, p
<1>4. /\ HeaderLength(h) \in 7 .. 16 /\ BodyAt(h) \in HeaderLength(h) .. 17
      /\ h.pdu_type \in 0 .. 1
  BY <1>1, SentIs
<1>5. CASE HeaderLength(h) > m.size
  <2>1. ~d.s.is_valid /\ BodyAt(h) > m.size
    BY <1>2, <1>4, <1>5 DEF Broken
  <2>2. p.ret = "CF_SHORT_PDU_ERROR"
    BY <1>2, <1>3, <2>1
  <2> QED
    BY <1>4, <1>5, <2>1, <2>2 DEF p
<1>6. CASE HeaderLength(h) <= m.size
  <2>1. d.s.is_valid /\ Decoder(d.s, b, m.size, HeaderLength(h))
    BY <1>2, <1>6 DEF Decoder
  <2>2. /\ d.v = Decoded(h, x) /\ d.v.pdu_type = h.pdu_type /\ d.v.large_flag = x % 2
    <3>1. /\ Decoded(h, x).pdu_type = h.pdu_type /\ Decoded(h, x).large_flag = x % 2
      BY <1>1, DecodedIs
    <3>2. d.v = Decoded(h, x)
      BY <1>2, <1>6
    <3> QED
      BY <3>1, <3>2
  <2>3. CASE x % 2 = 1
    <3>1. p.ret = "CF_ERROR"
      BY <1>3, <2>1, <2>2, <2>3
    <3> QED
      BY <2>3, <3>1 DEF p
  <2>4. CASE x % 2 # 1
    <3>1. d.v.large_flag # 1
      BY <2>2, <2>4
    <3>2. p.ret = (IF ~e.is_valid THEN "CF_SHORT_PDU_ERROR" ELSE "CFE_SUCCESS")
          /\ p.h = Decoded(h, x) /\ p.s = e /\ p.code = IF directive THEN c.v ELSE FileData
      BY <1>2, <1>3, <2>2, <3>1, Zenon
    <3>3. CASE code = FileData
      <4>1. ~directive /\ e = d.s /\ BodyAt(h) = HeaderLength(h)
        BY <1>1, <2>2, <3>3 DEF BodyAt
      <4>2. p.ret = "CFE_SUCCESS" /\ p.code = code /\ p.s = d.s
        BY <2>1, <3>2, <3>3, <4>1
      <4> QED
        BY <1>4, <1>6, <2>1, <2>4, <3>2, <4>1, <4>2 DEF p
    <3>4. CASE code # FileData
      <4>1. directive /\ e = c.s /\ BodyAt(h) = HeaderLength(h) + 1 /\ h.pdu_type = 0
        BY <1>1, <2>1, <2>2, <3>4 DEF BodyAt
      <4>2. PICK r : r = <<code>>
        OBVIOUS
      <4>3. code \in Octet
        BY <1>1, BodyCodes
      <4>4. r \in Seq(Octet) /\ Len(r) = 1 /\ Value(r) = code
        <5>1. r \in Seq(Octet) /\ Len(r) = 1 /\ r[1] = code
          BY <4>2, <4>3
        <5>2. Len(r) = 1 => Value(r) = r[1]
          BY <5>1, ValueOf
        <5> QED
          BY <5>1, <5>2
      <4>5. Holds(b, HeaderLength(h), r)
        BY <1>1, <4>1, <4>2 DEF CodeIn
      <4> DEFINE g == Decode(d.s, 1)
      <4>6. /\ HeaderLength(h) + 1 > m.size => Broken(g.s)
            /\ HeaderLength(h) + 1 <= m.size =>
                 Decoder(g.s, b, m.size, HeaderLength(h) + 1) /\ g.v = r
        <5>1. PICK n, k, y, z : n = 1 /\ k = HeaderLength(h) /\ y = d.s /\ z = m.size
          OBVIOUS
        <5>2. n = Len(r) /\ Decoder(y, b, z, k) /\ r \in Seq(Octet) /\ Holds(b, k, r)
          BY <2>1, <4>4, <4>5, <5>1
        <5>3. LET f == Decode(y, n)
              IN  /\ k + n > z => Broken(f.s)
                  /\ k + n <= z => Decoder(f.s, b, z, k + n) /\ f.v = r
          BY <5>2, DecodeHeld
        <5> QED
          BY <5>1, <5>3
      <4>7. c = [s |-> g.s, v |-> Value(g.v)]
        BY DEF DecodeFileDirectiveHeader, DecodeIntegerInSize
      <4> HIDE DEF g, c
      <4>8. CASE BodyAt(h) > m.size
        <5>1. ~e.is_valid
          BY <4>1, <4>6, <4>7, <4>8 DEF Broken
        <5> QED
          BY <1>4, <2>4, <3>2, <4>8, <5>1 DEF p
      <4>9. CASE BodyAt(h) <= m.size
        <5>1. Decoder(e, b, m.size, BodyAt(h)) /\ c.v = code
          BY <4>1, <4>4, <4>6, <4>7, <4>9
        <5>2. e.is_valid
          BY <5>1 DEF Decoder
        <5> QED
          BY <1>4, <2>4, <3>2, <4>1, <4>9, <5>1, <5>2 DEF p
      <4> QED
        BY <1>4, <4>8, <4>9
    <3> QED
      BY <3>3, <3>4
  <2> QED
    BY <2>3, <2>4
<1> QED
  BY <1>4, <1>5, <1>6

-------------------------------------------------------------------------------
(* Decoding bodies *)

LEMMA PrefixIs ==
  ASSUME NEW X, NEW r \in Seq(X), NEW s \in Seq(X), Len(r) <= Len(s),
         \A i \in 1 .. Len(r) : r[i] = s[i]
  PROVE  IsPrefix(r, s)
<1>1. Len(r) \in Nat /\ Len(s) \in Nat
  BY LenProperties
<1>2. PICK n : n = Len(r)
  OBVIOUS
<1> DEFINE u == SubSeq(r, 1, n)
           v == SubSeq(s, 1, n)
<1>3. (\A i \in 1 .. n : r[i] \in X) /\ \A i \in 1 .. n : s[i] \in X
  <2>1. \A i \in 1 .. n : i \in 1 .. Len(r) /\ i \in 1 .. Len(s)
    BY <1>1, <1>2
  <2> QED
    BY <2>1, ElementOfSeq
<1>4. /\ u \in Seq(X) /\ Len(u) = (IF 1 <= n THEN n - 1 + 1 ELSE 0)
      /\ \A i \in 1 .. n - 1 + 1 : u[i] = r[1 + i - 1]
  <2>1. 1 \in Int /\ n \in Int
    BY <1>1, <1>2
  <2> QED
    BY <1>3, <2>1, SubSeqProperties
<1>5. /\ v \in Seq(X) /\ Len(v) = (IF 1 <= n THEN n - 1 + 1 ELSE 0)
      /\ \A i \in 1 .. n - 1 + 1 : v[i] = s[1 + i - 1]
  <2>1. 1 \in Int /\ n \in Int
    BY <1>1, <1>2
  <2> QED
    BY <1>3, <2>1, SubSeqProperties
<1> HIDE DEF u, v
<1>6. /\ (IF 1 <= n THEN n - 1 + 1 ELSE 0) = n /\ n - 1 + 1 = n
      /\ \A i \in 1 .. n : 1 + i - 1 = i
  BY <1>1, <1>2
<1>7. Len(u) = n /\ Len(v) = n /\ \A i \in 1 .. n : u[i] = v[i]
  BY <1>2, <1>4, <1>5, <1>6
<1>8. u = v
  BY <1>4, <1>5, <1>7, SeqEqual
<1> QED
  BY <1>2, <1>8 DEF IsPrefix, u, v

LEMMA PrefixItself ==
  ASSUME NEW X, NEW s \in Seq(X)
  PROVE  IsPrefix(s, s) /\ IsPrefix(<<>>, s)
<1>1. Len(s) \in Nat /\ <<>> \in Seq(X) /\ Len(<<>>) = 0
  BY LenProperties
<1>2. IsPrefix(s, s)
  BY <1>1, PrefixIs
<1>3. PICK e : e = <<>>
  OBVIOUS
<1>4. e \in Seq(X) /\ Len(e) = 0 /\ Len(e) <= Len(s) /\ \A i \in 1 .. Len(e) : e[i] = s[i]
  BY <1>1, <1>3
<1>5. IsPrefix(e, s)
  BY <1>4, PrefixIs
<1> QED
  BY <1>2, <1>3, <1>5

(* What is made of the octets of a body: all of it, when they are whole,   *)
(* and nothing else.                                                       *)
Understood(r, body, whole) ==
  /\ r.ret = "CFE_SUCCESS" => FarAsItGoes(r.body, body)
  /\ whole => r.ret = "CFE_SUCCESS" /\ r.body = body

FdOf(o, data) == [NoFd EXCEPT !.offset = o, !.data = data]

LEMMA FdFarAsItGoes ==
  ASSUME NEW o, NEW r, NEW s, IsPrefix(r, s)
  PROVE  FarAsItGoes(FdOf(o, r), FdOf(o, s))
<1>1. IsPrefix(<<>>, <<>>)
  <2>1. <<>> \in Seq(Nat)
    OBVIOUS
  <2> QED
    BY <2>1, PrefixItself
<1>2. DOMAIN FdOf(o, s) = {"continuation_state", "segment_list", "offset", "data"}
  BY DEF FdOf, NoFd
<1>3. /\ FdOf(o, r)["continuation_state"] = FdOf(o, s)["continuation_state"]
      /\ FdOf(o, r)["segment_list"] = <<>> /\ FdOf(o, s)["segment_list"] = <<>>
      /\ FdOf(o, r)["offset"] = o /\ FdOf(o, s)["offset"] = o
      /\ FdOf(o, r)["data"] = r /\ FdOf(o, s)["data"] = s
  BY DEF FdOf, NoFd
<1>4. /\ "continuation_state" \notin Lists /\ "segment_list" \in Lists /\ "offset" \notin Lists
      /\ "data" \in Lists
  BY DEF Lists
<1> QED
  BY <1>1, <1>2, <1>3, <1>4 DEF FarAsItGoes

(* File data, which may have a CRC of the PDU behind it.                   *)
LEMMA FileDataDecodes ==
  ASSUME NEW s, NEW b, NEW size, NEW at, Decoder(s, b, size, at), NEW o \in Numbers32,
         NEW data \in Seq(Octet), FdIn(b, at, FdOf(o, data)),
         NEW g, g.segment_meta_flag = 0, g.crc_flag \in 0 .. 1,
         g.crc_flag = 0 => size <= at + (4 + Len(data)),
         g.crc_flag = 1 => size = (at + (4 + Len(data))) + 4
  PROVE  /\ Understood(RecvFd(s, g), FdOf(o, data), size >= at + (4 + Len(data)))
         /\ RecvFd(s, g).ret = "CFE_SUCCESS" => RecvFd(s, g).body.data \in Seq(Octet)
<1> DEFINE n == Len(data)
           c == DecodeIntegerInSize(s, 4)
           d == DecodeFileDataHeader(s, g.segment_meta_flag = 1)
           r == RecvFd(s, g)
           short == ~d.s.is_valid \/ (g.crc_flag = 1 /\ Len(d.v.data) < 4)
<1>1. FdOf(o, data).offset = o /\ FdOf(o, data).data = data
  BY FdIs DEF FdOf
<1>2. Fits(o, 4) /\ Holds(b, at, Octets(o, 4)) /\ Holds(b, at + 4, data)
  BY <1>1, SMT DEF Fits, FdIn
<1>3. /\ at + 4 > size => Broken(c.s)
      /\ at + 4 <= size => Decoder(c.s, b, size, at + 4) /\ c.v = o
  BY <1>2, NumberDecodes
<1>4. at \in Nat /\ size \in Nat /\ n \in Nat
  BY LenProperties DEF Decoder
<1>5. (g.segment_meta_flag = 1) = FALSE
  OBVIOUS
<1>6. d = DecodeFileDataHeader(s, FALSE)
  BY <1>5
<1>7. d = IF ~c.s.is_valid THEN [s |-> c.s, v |-> NoFd]
          ELSE [s |-> CheckSize(c.s, GetRemain(c.s)),
                v |-> [NoFd EXCEPT !.offset = c.v, !.data = ChunkAt(c.s, GetRemain(c.s))]]
  BY <1>6 DEF DecodeFileDataHeader
<1>8. /\ r.body = (IF ~short /\ g.crc_flag = 1 THEN [d.v EXCEPT !.data = WithoutCrc(@)] ELSE d.v)
      /\ r.ret = (IF short THEN "CF_SHORT_PDU_ERROR"
                  ELSE IF g.segment_meta_flag = 1 THEN "CF_ERROR" ELSE "CFE_SUCCESS")
  BY DEF RecvFd
<1> HIDE DEF c, d, r, n
<1>9. CASE at + 4 > size
  <2>1. ~c.s.is_valid
    BY <1>3, <1>9 DEF Broken
  <2>2. ~d.s.is_valid
    BY <1>7, <2>1
  <2>3. r.ret # "CFE_SUCCESS"
    BY <1>8, <2>2
  <2>4. ~(size >= at + (4 + n))
    BY <1>4, <1>9
  <2> QED
    BY <2>3, <2>4 DEF Understood, r, n
<1>10. CASE at + 4 <= size
  <2>1. c.s.is_valid /\ c.v = o /\ Decoder(c.s, b, size, at + 4)
    BY <1>3, <1>10 DEF Decoder
  <2>2. PICK k : k = size - (at + 4)
    OBVIOUS
  <2>3. GetRemain(c.s) = k /\ k \in Nat /\ (at + 4) + k = size /\ (at + 4) + k <= size
    BY <1>4, <1>10, <2>1, <2>2 DEF GetRemain, Decoder
  <2>4. PICK u : u = ChunkAt(c.s, k)
    OBVIOUS
  <2>5. u \in Seq(Octet) /\ Len(u) = k /\ \A i \in 1 .. k : u[i] = b[(at + 4) + i]
    BY <2>1, <2>3, <2>4, ChunkIs
  <2>6. Decoder(CheckSize(c.s, k), b, size, (at + 4) + k)
    BY <2>1, <2>3, CheckSizeAt
  <2>7. d.v = FdOf(o, u) /\ d.s = CheckSize(c.s, k)
    BY <1>7, <2>1, <2>3, <2>4 DEF FdOf
  <2>8. d.s.is_valid /\ d.v.data = u
    <3>1. d.s.is_valid
      BY <2>6, <2>7 DEF Decoder
    <3>2. FdOf(o, u).data = u
      BY FdIs DEF FdOf
    <3> QED
      BY <2>7, <3>1, <3>2
  <2>9. \A i \in 1 .. n : i <= k => u[i] = data[i]
    <3> SUFFICES ASSUME NEW i \in 1 .. n, i <= k PROVE u[i] = data[i]
      OBVIOUS
    <3>1. i \in 1 .. k /\ i \in 1 .. Len(data)
      BY <1>4, <2>3 DEF n
    <3> QED
      BY <1>2, <2>5, <3>1 DEF Holds
  <2>10. CASE g.crc_flag = 0
    <3>1. ~short
      BY <2>8, <2>10
    <3>2. r.ret = "CFE_SUCCESS" /\ r.body = FdOf(o, u)
      BY <1>8, <2>7, <2>10, <3>1
    <3>3. k <= n
      BY <1>4, <2>2, <2>3, <2>10 DEF n
    <3>4. IsPrefix(u, data)
      <4>1. Len(u) <= Len(data) /\ \A i \in 1 .. Len(u) : u[i] = data[i]
        BY <1>4, <2>3, <2>5, <2>9, <3>3 DEF n
      <4> QED
        BY <2>5, <4>1, PrefixIs
    <3>5. size >= at + (4 + n) => u = data
      <4> SUFFICES ASSUME size >= at + (4 + n) PROVE u = data
        OBVIOUS
      <4>1. k = n
        BY <1>4, <2>2, <2>3, <3>3
      <4>2. Len(u) = Len(data) /\ \A i \in 1 .. Len(u) : u[i] = data[i]
        BY <1>4, <2>5, <2>9, <4>1 DEF n
      <4> QED
        BY <2>5, <4>2, SeqEqual
    <3>6. FarAsItGoes(r.body, FdOf(o, data))
      BY <3>2, <3>4, FdFarAsItGoes
    <3>7. r.body.data \in Seq(Octet)
      <4>1. FdOf(o, u).data = u
        BY FdIs DEF FdOf
      <4> QED
        BY <2>5, <3>2, <4>1
    <3> QED
      BY <3>2, <3>5, <3>6, <3>7 DEF Understood, r, n
  <2>11. CASE g.crc_flag = 1
    <3>1. k = n + 4
      BY <1>4, <2>2, <2>3, <2>11 DEF n
    <3>2. ~short
      BY <1>4, <2>5, <2>8, <3>1
    <3>3. WithoutCrc(u) = data
      <4>1. Len(u) - 4 = n
        BY <1>4, <2>5, <3>1
      <4>2. SubSeq(u, 0 + 1, n) = data
        <5>1. n = 0 + Len(data) /\ n <= Len(u) /\ 0 \in Nat
              /\ \A i \in 1 .. Len(data) : u[0 + i] = data[i]
          BY <1>4, <2>5, <2>9, <3>1 DEF n
        <5> QED
          BY <1>4, <2>5, <5>1, PartIs
      <4> QED
        BY <4>1, <4>2 DEF WithoutCrc
    <3>4. r.body = [d.v EXCEPT !.data = WithoutCrc(@)]
      BY <1>8, <2>11, <3>2
    <3>5. r.body = FdOf(o, data)
      <4>1. r.body = [d.v EXCEPT !.data = data]
        BY <2>8, <3>3, <3>4
      <4> QED
        BY <2>7, <4>1, FdIs DEF FdOf
    <3>6. r.ret = "CFE_SUCCESS"
      BY <1>8, <3>2
    <3>7. FarAsItGoes(r.body, FdOf(o, data))
      BY <3>5, PrefixItself, FdFarAsItGoes
    <3>8. r.body.data \in Seq(Octet)
      <4>1. FdOf(o, data).data = data
        BY FdIs DEF FdOf
      <4> QED
        BY <3>5, <4>1
    <3> QED
      BY <3>5, <3>6, <3>7, <3>8 DEF Understood, r
  <2> QED
    BY <2>10, <2>11
<1> QED
  BY <1>4, <1>9, <1>10

(* An iteration of the loop that decodes TLVs.                             *)
TlvStep(list) ==
  IF list.s.is_valid /\ GetRemain(list.s) # 0 THEN Counted(list, DecodeTLV(list.s)) ELSE list

(* When the first one is the last one.                                     *)
LEMMA TlvsOnce ==
  ASSUME NEW s, NEW first, first = [s |-> s, v |-> <<>>], NEW next, next = TlvStep(first),
         TlvStep(next) = next
  PROVE  DecodeAllTlv(s, MaxTlv) = next
<1> DEFINE n == MaxTlv
           it[t \in SUBSET (1 .. n)] == IF t = {} THEN first ELSE TlvStep(it[t \ {Max(t)}])
           jt == [t \in SUBSET (1 .. n) |-> IF t = {} THEN first ELSE next]
           h == [k \in 0 .. n |-> it[1 .. k]]
<1>1. n \in Nat /\ n > 0
  BY CodecAssumption
<1>2. DecodeAllTlv(s, MaxTlv) = it[1 .. n]
  BY DEF DecodeAllTlv, FoldLeft, MapThenFoldSet, TlvStep
<1> HIDE DEF n
<1>3. ASSUME NEW t \in SUBSET (1 .. n), t # {}
      PROVE  TlvStep(jt[t \ {Max(t)}]) = next
  <2>1. t \ {Max(t)} \in SUBSET (1 .. n)
    OBVIOUS
  <2>2. jt[t \ {Max(t)}] \in {first, next}
    BY <2>1
  <2> HIDE DEF jt
  <2> QED
    BY <2>2
<1>4. jt = [t \in SUBSET (1 .. n) |-> IF t = {} THEN first ELSE TlvStep(jt[t \ {Max(t)}])]
  BY <1>3
<1>5. it = [t \in SUBSET (1 .. n) |-> IF t = {} THEN first ELSE TlvStep(it[t \ {Max(t)}])]
  <2> HIDE DEF jt
  <2> QED
    BY <1>4
<1> HIDE DEF it, jt
<1>6. it[1 .. 0] = first
  BY <1>1, <1>5, Initials
<1>7. ASSUME NEW k \in 1 .. n PROVE it[1 .. k] = TlvStep(it[1 .. (k - 1)])
  <2>1. /\ 1 .. k \in SUBSET (1 .. n) /\ 1 .. k # {}
        /\ Max(1 .. k) = k /\ (1 .. k) \ {k} = 1 .. (k - 1)
    BY <1>1, Initials
  <2>2. it[1 .. k] = TlvStep(it[(1 .. k) \ {Max(1 .. k)}])
    BY <1>5, <2>1, Zenon
  <2> QED
    BY <2>1, <2>2
<1>8. h[0] = first /\ h[n] = it[1 .. n] /\ h[n] = TlvStep(h[n - 1])
  <2>1. 0 \in 0 .. n /\ n \in 0 .. n /\ n \in 1 .. n /\ n - 1 \in 0 .. n
    BY <1>1
  <2> QED
    BY <1>6, <1>7, <2>1
<1>9. \A k \in 1 .. n : h[k] = TlvStep(h[k - 1])
  <2> SUFFICES ASSUME NEW k \in 1 .. n PROVE h[k] = TlvStep(h[k - 1])
    OBVIOUS
  <2>1. k \in 0 .. n /\ k - 1 \in 0 .. n
    BY <1>1
  <2> QED
    BY <1>7, <2>1
<1> HIDE DEF h
<1>10. \A k \in 0 .. n : h[k] \in {first, next}
  <2>1. \A k \in 1 .. n : h[k - 1] \in {first, next} => h[k] \in {first, next}
    BY <1>9
  <2>2. h[0] \in {first, next}
    BY <1>8
  <2>3. PICK X : X = {first, next}
    OBVIOUS
  <2>4. n \in Nat /\ h[0] \in X /\ \A k \in 1 .. n : h[k - 1] \in X => h[k] \in X
    BY <1>1, <2>1, <2>2, <2>3
  <2>5. \A k \in 0 .. n : h[k] \in X
    BY <2>4, RunStaysIn
  <2> QED
    BY <2>3, <2>5
<1>11. h[n - 1] \in {first, next}
  BY <1>1, <1>10
<1> QED
  BY <1>2, <1>8, <1>11

LEMMA TlvsDecode ==
  ASSUME NEW s, NEW b, NEW size, NEW at, Decoder(s, b, size, at),
         NEW list \in Faults, FaultsIn(b, at, list), size <= at + FaultsSize(list)
  PROVE  LET d == DecodeAllTlv(s, MaxTlv)
         IN  /\ d.s.is_valid => d.v \in {<<>>, list}
             /\ size = at + FaultsSize(list) => d.s.is_valid /\ d.v = list
<1>1. PICK first : first = [s |-> s, v |-> <<>>]
  OBVIOUS
<1>2. PICK next : next = TlvStep(first)
  OBVIOUS
<1>3. at \in Nat /\ size \in Nat /\ at <= size /\ s.is_valid /\ GetRemain(s) = size - at
  BY DEF Decoder, GetRemain
<1>4. SUFFICES /\ TlvStep(next) = next
               /\ next.s.is_valid => next.v \in {<<>>, list}
               /\ size = at + FaultsSize(list) => next.s.is_valid /\ next.v = list
  BY <1>1, <1>2, TlvsOnce
<1>5. CASE size = at
  <2>1. next = first
    BY <1>1, <1>2, <1>3, <1>5 DEF TlvStep
  <2>2. size = at + FaultsSize(list) => list = <<>>
    <3>1. ASSUME NEW v \in Numbers32, list = <<Fault(v)>> PROVE FaultsSize(list) \in Nat \ {0}
      <4>1. /\ FaultsSize(<<Fault(v)>>) = 2 + GetValueEncodedSize(v)
            /\ GetValueEncodedSize(v) \in 1 .. 4
        BY FaultIs
      <4> QED
        BY <3>1, <4>1
    <3> QED
      BY <1>3, <1>5, <3>1 DEF Faults
  <2> QED
    BY <1>1, <1>2, <1>3, <2>1, <2>2
<1>6. CASE size # at
  <2>1. list # <<>>
    BY <1>3, <1>6 DEF FaultsSize
  <2>2. PICK v \in Numbers32 : /\ list = <<Fault(v)>>
                               /\ Holds(b, at, <<EntityIdTlv, GetValueEncodedSize(v)>>)
                               /\ Holds(b, at + 2, FaultOctets(v))
    BY <2>1 DEF FaultsIn
  <2>3. PICK n, r, o : /\ n = GetValueEncodedSize(v) /\ r = <<EntityIdTlv, n>>
                       /\ o = FaultOctets(v)
    OBVIOUS
  <2>4. /\ n \in 1 .. 4 /\ r \in Seq(Octet) /\ Len(r) = 2 /\ r[1] = EntityIdTlv /\ r[2] = n
        /\ o \in Seq(Octet) /\ Len(o) = n /\ Value(o) = v /\ FaultsSize(list) = 2 + n
        /\ Holds(b, at, r) /\ Holds(b, at + 2, o)
    BY <2>2, <2>3, FaultIs
  <2> DEFINE d == Decode(s, 2)
             tlv == Tlv(d.v[1], d.v[2], 0)
             eid == DecodeIntegerInSize(d.s, tlv.length)
  <2>5. /\ at + 2 > size => Broken(d.s)
        /\ at + 2 <= size => Decoder(d.s, b, size, at + 2) /\ d.v = r
    <3>1. PICK k : k = 2
      OBVIOUS
    <3>2. k = Len(r)
      BY <2>4, <3>1
    <3>3. LET f == Decode(s, k)
          IN  /\ at + k > size => Broken(f.s)
              /\ at + k <= size => Decoder(f.s, b, size, at + k) /\ f.v = r
      <4>1. r \in Seq(Octet) /\ Holds(b, at, r) /\ k = Len(r)
        BY <2>4, <3>2
      <4> QED
        BY <4>1, DecodeHeld
    <3> QED
      BY <3>1, <3>3
  <2>6. next = Counted(first, DecodeTLV(s))
    BY <1>1, <1>2, <1>3, <1>6 DEF TlvStep
  <2>7. DecodeTLV(s) =
          IF ~d.s.is_valid THEN [s |-> d.s, v |-> Tlv(0, 0, 0)]
          ELSE IF tlv.type = EntityIdTlv THEN [s |-> eid.s, v |-> [tlv EXCEPT !.eid = eid.v]]
          ELSE [s |-> CheckSize(d.s, tlv.length), v |-> tlv]
    BY DEF DecodeTLV
  <2>8. /\ tlv.type = d.v[1] /\ tlv.length = d.v[2]
        /\ \A x : [tlv EXCEPT !.eid = x] = Tlv(d.v[1], d.v[2], x)
    BY DEF Tlv
  <2> HIDE DEF d, tlv, eid
  <2>9. CASE at + 2 > size
    <3>1. ~d.s.is_valid
      BY <2>5, <2>9 DEF Broken
    <3>2. next.s = d.s
      BY <2>6, <2>7, <3>1 DEF Counted
    <3>3. TlvStep(next) = next
      BY <3>1, <3>2 DEF TlvStep
    <3>4. size # at + FaultsSize(list)
      BY <1>3, <2>4, <2>9
    <3> QED
      BY <3>1, <3>2, <3>3, <3>4
  <2>10. CASE at + 2 <= size
    <3>1. Decoder(d.s, b, size, at + 2) /\ d.v = r /\ d.s.is_valid
      BY <2>5, <2>10 DEF Decoder
    <3>2. tlv.type = EntityIdTlv /\ tlv.length = n /\ \A x : [tlv EXCEPT !.eid = x] = Tlv(EntityIdTlv, n, x)
      BY <2>4, <2>8, <3>1
    <3> DEFINE e == Decode(d.s, n)
    <3>3. /\ (at + 2) + n > size => Broken(e.s)
          /\ (at + 2) + n <= size => Decoder(e.s, b, size, (at + 2) + n) /\ e.v = o
      BY <2>4, <3>1, DecodeHeld
    <3>4. eid.s = e.s /\ eid.v = Value(e.v)
      BY <3>2 DEF DecodeIntegerInSize, eid
    <3> HIDE DEF e
    <3>5. DecodeTLV(s) = [s |-> e.s, v |-> Tlv(EntityIdTlv, n, Value(e.v))]
      BY <2>7, <3>1, <3>2, <3>4
    <3>6. next = [s |-> e.s, v |-> IF e.s.is_valid
                                     THEN Append(<<>>, Tlv(EntityIdTlv, n, Value(e.v))) ELSE <<>>]
      BY <1>1, <2>6, <3>5 DEF Counted
    <3>7. CASE (at + 2) + n > size
      <4>1. ~e.s.is_valid
        BY <3>3, <3>7 DEF Broken
      <4>2. next.s = e.s
        BY <3>6
      <4>3. TlvStep(next) = next
        BY <4>1, <4>2 DEF TlvStep
      <4>4. size # at + FaultsSize(list)
        BY <1>3, <2>4, <3>7
      <4> QED
        BY <4>1, <4>2, <4>3, <4>4
    <3>8. CASE (at + 2) + n <= size
      <4>1. size = (at + 2) + n
        BY <1>3, <2>4, <3>8
      <4>2. Decoder(e.s, b, size, size) /\ e.v = o
        BY <3>3, <3>8, <4>1
      <4>3. e.s.is_valid /\ GetRemain(e.s) = 0
        BY <1>3, <4>2 DEF Decoder, GetRemain
      <4>4. next = [s |-> e.s, v |-> Append(<<>>, Fault(v))]
        BY <2>3, <2>4, <3>6, <4>2, <4>3 DEF Fault
      <4>5. Append(<<>>, Fault(v)) = <<Fault(v)>>
        OBVIOUS
      <4>6. next.s = e.s /\ next.v = list
        BY <2>2, <4>4, <4>5
      <4>7. TlvStep(next) = next
        BY <4>3, <4>6 DEF TlvStep
      <4> QED
        BY <4>3, <4>6, <4>7
    <3> QED
      BY <1>3, <2>4, <3>7, <3>8
  <2> QED
    BY <1>3, <2>9, <2>10
<1> QED
  BY <1>5, <1>6

LEMMA FaultsPrefixes ==
  ASSUME NEW list \in Faults, NEW l \in {<<>>, list}
  PROVE  IsPrefix(l, list)
<1>1. CASE list = <<>>
  <2>1. list \in Seq(Nat) /\ l = list
    BY <1>1
  <2> QED
    BY <2>1, PrefixItself
<1>2. CASE list # <<>>
  <2>1. PICK v \in Numbers32 : list = <<Fault(v)>>
    BY <1>2 DEF Faults
  <2>2. list \in Seq({Fault(v)})
    BY <2>1
  <2>3. PICK X : X = {Fault(v)}
    OBVIOUS
  <2>4. list \in Seq(X)
    BY <2>2, <2>3
  <2>5. IsPrefix(list, list) /\ IsPrefix(<<>>, list)
    BY <2>4, PrefixItself
  <2> QED
    BY <2>5
<1> QED
  BY <1>1, <1>2

LEMMA WholeIs ==
  ASSUME NEW d, NEW body, NEW whole,
         d.s.is_valid => FarAsItGoes(d.v, body),
         whole => d.s.is_valid /\ d.v = body
  PROVE  Understood(Whole(d), body, whole)
<1>1. Whole(d).body = d.v
      /\ Whole(d).ret = (IF d.s.is_valid THEN "CFE_SUCCESS" ELSE "CF_SHORT_PDU_ERROR")
  BY DEF Whole
<1> QED
  BY <1>1 DEF Understood

LEMMA EofDecodes ==
  ASSUME NEW s, NEW b, NEW size, NEW at, Decoder(s, b, size, at), NEW eof \in Eof,
         EofIn(b, at, eof), size <= at + EofSize(eof)
  PROVE  Understood(RecvEof(s), eof, size >= at + EofSize(eof))
<1> DEFINE e == DecodeEof(s)
           d == Decode(s, 9)
           tlvs == DecodeAllTlv(d.s, MaxTlv)
<1>1. PICK fixed, list, n : fixed = EofFixed(eof) /\ list = eof.tlv_list /\ n = 9
  OBVIOUS
<1>2. /\ fixed \in Seq(Octet) /\ Len(fixed) = n /\ GetField(fixed[1], 4, 4) = eof.cc
      /\ Value(SubSeq(fixed, 2, 5)) = eof.crc /\ Value(SubSeq(fixed, 6, 9)) = eof.size
      /\ list \in Faults
  BY <1>1, EofIs
<1>3. Holds(b, at, fixed) /\ FaultsIn(b, at + n, list)
  BY <1>1 DEF EofIn
<1>4. PICK k, m : k = FaultsSize(list) /\ m = EofSize(eof)
  OBVIOUS
<1>5. at \in Nat /\ size \in Nat /\ k \in Nat /\ n \in Nat /\ m = n + k /\ size <= at + m
  <2>1. k \in Nat
    BY <1>2, <1>4, FaultsSizeIs
  <2>2. m = n + k
    BY <1>1, <1>4 DEF EofSize
  <2> QED
    BY <1>1, <1>4, <2>1, <2>2 DEF Decoder
<1>6. /\ at + n > size => Broken(d.s)
      /\ at + n <= size => Decoder(d.s, b, size, at + n) /\ d.v = fixed
  <2> DEFINE f == Decode(s, n)
  <2>1. n = Len(fixed)
    BY <1>2
  <2>2. /\ at + n > size => Broken(f.s)
        /\ at + n <= size => Decoder(f.s, b, size, at + n) /\ f.v = fixed
    BY <1>2, <1>3, <2>1, DecodeHeld
  <2> QED
    BY <1>1, <2>2
<1>7. e = IF ~d.s.is_valid THEN [s |-> d.s, v |-> NoEof]
          ELSE [s |-> tlvs.s,
                v |-> [cc |-> GetField(d.v[1], 4, 4), crc |-> Value(SubSeq(d.v, 2, 5)),
                       size |-> Value(SubSeq(d.v, 6, 9)), tlv_list |-> tlvs.v]]
  BY DEF DecodeEof
<1> HIDE DEF d, tlvs, e
<1> SUFFICES /\ e.s.is_valid => FarAsItGoes(e.v, eof)
             /\ size >= at + m => e.s.is_valid /\ e.v = eof
  BY <1>4, WholeIs DEF RecvEof, e
<1>8. CASE at + n > size
  <2>1. ~d.s.is_valid /\ ~(size >= at + m)
    BY <1>5, <1>6, <1>8 DEF Broken
  <2> QED
    BY <1>7, <2>1
<1>9. CASE at + n <= size
  <2>1. d.s.is_valid /\ Decoder(d.s, b, size, at + n) /\ d.v = fixed
    BY <1>6, <1>9 DEF Decoder
  <2>2. size <= (at + n) + k /\ (size >= at + m => size = (at + n) + k)
    BY <1>5
  <2>3. /\ tlvs.s.is_valid => tlvs.v \in {<<>>, list}
        /\ size = (at + n) + k => tlvs.s.is_valid /\ tlvs.v = list
    BY <1>2, <1>3, <1>4, <2>1, <2>2, TlvsDecode DEF tlvs
  <2>4. PICK l : l = tlvs.v
    OBVIOUS
  <2>5. e.s = tlvs.s
        /\ e.v = [cc |-> eof.cc, crc |-> eof.crc, size |-> eof.size, tlv_list |-> l]
    BY <1>2, <1>7, <2>1, <2>4
  <2>6. eof = [cc |-> eof.cc, crc |-> eof.crc, size |-> eof.size, tlv_list |-> list]
    BY <1>1 DEF Eof
  <2>7. ASSUME IsPrefix(l, list) PROVE FarAsItGoes(e.v, eof)
    <3>1. DOMAIN eof = {"cc", "crc", "size", "tlv_list"}
      BY <2>6
    <3>2. "cc" \notin Lists /\ "crc" \notin Lists /\ "size" \notin Lists
      BY DEF Lists
    <3>3. /\ e.v["cc"] = eof["cc"] /\ e.v["crc"] = eof["crc"] /\ e.v["size"] = eof["size"]
          /\ e.v["tlv_list"] = l /\ eof["tlv_list"] = list
      BY <1>1, <2>5
    <3>4. "tlv_list" \in Lists
      BY DEF Lists
    <3> QED
      BY <2>7, <3>1, <3>2, <3>3, <3>4 DEF FarAsItGoes
  <2>8. e.s.is_valid => FarAsItGoes(e.v, eof)
    BY <1>2, <2>3, <2>4, <2>5, <2>7, FaultsPrefixes
  <2>9. size >= at + m => e.s.is_valid /\ e.v = eof
    BY <2>2, <2>3, <2>4, <2>5, <2>6
  <2> QED
    BY <2>8, <2>9
<1> QED
  BY <1>5, <1>8, <1>9

LEMMA FinDecodes ==
  ASSUME NEW s, NEW b, NEW size, NEW at, Decoder(s, b, size, at), NEW fin \in Fin,
         FinIn(b, at, fin), size <= at + FinSize(fin)
  PROVE  Understood(RecvFin(s), fin, size >= at + FinSize(fin))
<1> DEFINE e == DecodeFin(s)
           d == DecodeIntegerInSize(s, 1)
           tlvs == DecodeAllTlv(d.s, MaxTlv)
<1>1. PICK flags, fixed, list, n : /\ flags = FinFlags(fin) /\ fixed = <<flags>>
                                   /\ list = fin.tlv_list /\ n = 1
  OBVIOUS
<1>2. /\ fixed \in Seq(Octet) /\ Len(fixed) = n /\ fixed[1] = flags
      /\ GetField(flags, 4, 4) = fin.cc /\ GetField(flags, 1, 2) = fin.delivery_code
      /\ GetField(flags, 2, 0) = fin.file_status /\ list \in Faults
  BY <1>1, FinIs
<1>3. Holds(b, at, fixed) /\ FaultsIn(b, at + n, list)
  BY <1>1 DEF FinIn
<1>4. PICK k, m : k = FaultsSize(list) /\ m = FinSize(fin)
  OBVIOUS
<1>5. at \in Nat /\ size \in Nat /\ k \in Nat /\ n \in Nat /\ m = n + k /\ size <= at + m
  <2>1. k \in Nat
    BY <1>2, <1>4, FaultsSizeIs
  <2>2. m = n + k
    BY <1>1, <1>4 DEF FinSize
  <2> QED
    BY <1>1, <1>4, <2>1, <2>2 DEF Decoder
<1>6. /\ at + n > size => Broken(d.s)
      /\ at + n <= size => Decoder(d.s, b, size, at + n) /\ d.v = flags
  <2> DEFINE f == Decode(s, n)
  <2>1. n = Len(fixed)
    BY <1>2
  <2>2. /\ at + n > size => Broken(f.s)
        /\ at + n <= size => Decoder(f.s, b, size, at + n) /\ f.v = fixed
    BY <1>2, <1>3, <2>1, DecodeHeld
  <2>3. d.s = f.s /\ d.v = Value(f.v)
    BY <1>1 DEF DecodeIntegerInSize
  <2>4. Len(fixed) = 1 => Value(fixed) = fixed[1]
    BY <1>2, ValueOf
  <2> HIDE DEF d, f
  <2> QED
    BY <1>1, <1>2, <2>2, <2>3, <2>4
<1>7. e = IF ~d.s.is_valid THEN [s |-> d.s, v |-> NoFin]
          ELSE [s |-> tlvs.s,
                v |-> [cc |-> GetField(d.v, 4, 4), delivery_code |-> GetField(d.v, 1, 2),
                       file_status |-> GetField(d.v, 2, 0), tlv_list |-> tlvs.v]]
  BY DEF DecodeFin
<1> HIDE DEF d, tlvs, e
<1> SUFFICES /\ e.s.is_valid => FarAsItGoes(e.v, fin)
             /\ size >= at + m => e.s.is_valid /\ e.v = fin
  BY <1>4, WholeIs DEF RecvFin, e
<1>8. CASE at + n > size
  <2>1. ~d.s.is_valid /\ ~(size >= at + m)
    BY <1>5, <1>6, <1>8 DEF Broken
  <2> QED
    BY <1>7, <2>1
<1>9. CASE at + n <= size
  <2>1. d.s.is_valid /\ Decoder(d.s, b, size, at + n) /\ d.v = flags
    BY <1>6, <1>9 DEF Decoder
  <2>2. size <= (at + n) + k /\ (size >= at + m => size = (at + n) + k)
    BY <1>5
  <2>3. /\ tlvs.s.is_valid => tlvs.v \in {<<>>, list}
        /\ size = (at + n) + k => tlvs.s.is_valid /\ tlvs.v = list
    BY <1>2, <1>3, <1>4, <2>1, <2>2, TlvsDecode DEF tlvs
  <2>4. PICK l : l = tlvs.v
    OBVIOUS
  <2>5. e.s = tlvs.s
        /\ e.v = [cc |-> fin.cc, delivery_code |-> fin.delivery_code,
                  file_status |-> fin.file_status, tlv_list |-> l]
    BY <1>2, <1>7, <2>1, <2>4
  <2>6. fin = [cc |-> fin.cc, delivery_code |-> fin.delivery_code,
               file_status |-> fin.file_status, tlv_list |-> list]
    BY <1>1 DEF Fin
  <2>7. ASSUME IsPrefix(l, list) PROVE FarAsItGoes(e.v, fin)
    <3>1. DOMAIN fin = {"cc", "delivery_code", "file_status", "tlv_list"}
      BY <2>6
    <3>2. "cc" \notin Lists /\ "delivery_code" \notin Lists /\ "file_status" \notin Lists
      BY DEF Lists
    <3>3. /\ e.v["cc"] = fin["cc"] /\ e.v["delivery_code"] = fin["delivery_code"]
          /\ e.v["file_status"] = fin["file_status"]
          /\ e.v["tlv_list"] = l /\ fin["tlv_list"] = list
      BY <1>1, <2>5
    <3>4. "tlv_list" \in Lists
      BY DEF Lists
    <3> QED
      BY <2>7, <3>1, <3>2, <3>3, <3>4 DEF FarAsItGoes
  <2>8. e.s.is_valid => FarAsItGoes(e.v, fin)
    BY <1>2, <2>3, <2>4, <2>5, <2>7, FaultsPrefixes
  <2>9. size >= at + m => e.s.is_valid /\ e.v = fin
    BY <2>2, <2>3, <2>4, <2>5, <2>6
  <2> QED
    BY <2>8, <2>9
<1> QED
  BY <1>5, <1>8, <1>9

LEMMA AckDecodes ==
  ASSUME NEW s, NEW b, NEW size, NEW at, Decoder(s, b, size, at), NEW ack \in Ack,
         AckIn(b, at, ack), size <= at + 2
  PROVE  Understood(RecvAck(s), ack, size >= at + 2)
<1> DEFINE e == DecodeAck(s)
           d == Decode(s, 2)
<1>1. PICK r, n : r = AckOctets(ack) /\ n = 2
  OBVIOUS
<1>2. /\ r \in Seq(Octet) /\ Len(r) = n
      /\ GetField(r[1], 4, 4) = ack.ack_directive_code
      /\ GetField(r[1], 4, 0) = ack.ack_subtype_code
      /\ GetField(r[2], 4, 4) = ack.cc /\ GetField(r[2], 2, 0) = ack.txn_status
      /\ Holds(b, at, r)
  BY <1>1, AckIs DEF AckIn
<1>3. at \in Nat /\ size \in Nat
  BY DEF Decoder
<1>4. /\ at + n > size => Broken(d.s)
      /\ at + n <= size => Decoder(d.s, b, size, at + n) /\ d.v = r
  <2> DEFINE f == Decode(s, n)
  <2>1. n = Len(r)
    BY <1>2
  <2>2. /\ at + n > size => Broken(f.s)
        /\ at + n <= size => Decoder(f.s, b, size, at + n) /\ f.v = r
    BY <1>2, <2>1, DecodeHeld
  <2> QED
    BY <1>1, <2>2
<1>5. e = IF ~d.s.is_valid THEN [s |-> d.s, v |-> NoAck]
          ELSE [s |-> d.s,
                v |-> [ack_directive_code |-> GetField(d.v[1], 4, 4),
                       ack_subtype_code |-> GetField(d.v[1], 4, 0),
                       cc |-> GetField(d.v[2], 4, 4), txn_status |-> GetField(d.v[2], 2, 0)]]
  BY DEF DecodeAck
<1> HIDE DEF d, e
<1> SUFFICES /\ e.s.is_valid => FarAsItGoes(e.v, ack)
             /\ size >= at + 2 => e.s.is_valid /\ e.v = ack
  BY WholeIs DEF RecvAck, e
<1>6. CASE at + n > size
  <2>1. ~d.s.is_valid /\ ~(size >= at + 2)
    BY <1>1, <1>3, <1>4, <1>6 DEF Broken
  <2> QED
    BY <1>5, <2>1
<1>7. CASE at + n <= size
  <2>1. d.s.is_valid /\ d.v = r
    BY <1>4, <1>7 DEF Decoder
  <2>2. ack = [ack_directive_code |-> ack.ack_directive_code,
               ack_subtype_code |-> ack.ack_subtype_code,
               cc |-> ack.cc, txn_status |-> ack.txn_status]
    BY DEF Ack
  <2>3. e.s.is_valid /\ e.v = ack
    BY <1>2, <1>5, <2>1, <2>2
  <2>4. FarAsItGoes(ack, ack)
    <3>1. DOMAIN ack = {"ack_directive_code", "ack_subtype_code", "cc", "txn_status"}
      BY <2>2
    <3>2. /\ "ack_directive_code" \notin Lists /\ "ack_subtype_code" \notin Lists
          /\ "cc" \notin Lists /\ "txn_status" \notin Lists
      BY DEF Lists
    <3> QED
      BY <3>1, <3>2 DEF FarAsItGoes
  <2> QED
    BY <2>3, <2>4
<1> QED
  BY <1>1, <1>3, <1>6, <1>7

LEMMA NameDecodes ==
  ASSUME NEW s, NEW b, NEW size, NEW at, Decoder(s, b, size, at), NEW o \in FileNames,
         NameIn(b, at, o)
  PROVE  LET d == DecodeLV(s)
         IN  /\ at + (1 + Len(o)) > size => Broken(d.s)
             /\ at + (1 + Len(o)) <= size => Decoder(d.s, b, size, at + (1 + Len(o))) /\ d.v = o
<1> DEFINE length == DecodeIntegerInSize(s, 1)
           d == DecodeLV(s)
<1>1. PICK r, n, k : r = <<n>> /\ n = Len(o) /\ k = 1
  OBVIOUS
<1>2. /\ r \in Seq(Octet) /\ Len(r) = k /\ n \in Nat /\ o \in Seq(Octet) /\ r[1] = n
      /\ Holds(b, at, r) /\ Holds(b, at + k, o)
  BY <1>1, NameIs DEF NameIn
<1>3. at \in Nat /\ size \in Nat
  BY DEF Decoder
<1>4. /\ at + k > size => Broken(length.s)
      /\ at + k <= size => Decoder(length.s, b, size, at + k) /\ length.v = n
  <2> DEFINE f == Decode(s, k)
  <2>1. k = Len(r)
    BY <1>2
  <2>2. /\ at + k > size => Broken(f.s)
        /\ at + k <= size => Decoder(f.s, b, size, at + k) /\ f.v = r
    BY <1>2, <2>1, DecodeHeld
  <2>3. length.s = f.s /\ length.v = Value(f.v)
    BY <1>1 DEF DecodeIntegerInSize
  <2>4. Value(r) = r[1]
    BY <1>1, <1>2, ValueOf, ZenonT(60)
  <2> HIDE DEF length, f
  <2> QED
    BY <1>2, <2>2, <2>3, <2>4
<1>5. d = IF length.s.is_valid THEN Decode(length.s, length.v) ELSE [s |-> length.s, v |-> <<>>]
  BY DEF DecodeLV
<1> HIDE DEF length, d
<1>6. CASE at + k > size
  <2>1. ~length.s.is_valid /\ Broken(length.s) /\ at + (1 + n) > size
    BY <1>1, <1>2, <1>3, <1>4, <1>6 DEF Broken
  <2>2. d.s = length.s
    BY <1>5, <2>1
  <2> QED
    BY <1>1, <1>2, <1>3, <2>1, <2>2 DEF d
<1>7. CASE at + k <= size
  <2>1. length.s.is_valid /\ Decoder(length.s, b, size, at + k) /\ length.v = n
    BY <1>4, <1>7 DEF Decoder
  <2>2. d = Decode(length.s, n)
    BY <1>5, <2>1
  <2>3. PICK x, a : x = length.s /\ a = at + k
    OBVIOUS
  <2>4. Decoder(x, b, size, a) /\ Holds(b, a, o) /\ n = Len(o)
    BY <1>1, <1>2, <2>1, <2>3
  <2> DEFINE f == Decode(x, n)
  <2>5. /\ a + n > size => Broken(f.s)
        /\ a + n <= size => Decoder(f.s, b, size, a + n) /\ f.v = o
    BY <1>2, <2>4, DecodeHeld
  <2>6. d = f /\ a + n = at + (1 + n)
    BY <1>1, <1>2, <1>3, <2>2, <2>3
  <2> HIDE DEF f
  <2> QED
    BY <1>1, <2>5, <2>6 DEF d
<1> QED
  BY <1>1, <1>3, <1>6, <1>7

LEMMA NameBroken ==
  ASSUME NEW s, Broken(s)
  PROVE  Broken(DecodeLV(s).s)
<1> DEFINE length == DecodeIntegerInSize(s, 1)
<1>1. length.s = Decode(s, 1).s
  BY DEF DecodeIntegerInSize
<1>2. Broken(Decode(s, 1).s)
  BY BrokenStays
<1> HIDE DEF length
<1>3. Broken(length.s) /\ ~length.s.is_valid
  BY <1>1, <1>2 DEF Broken
<1>4. DecodeLV(s) = [s |-> length.s, v |-> <<>>]
  BY <1>3 DEF DecodeLV, length
<1> QED
  BY <1>3, <1>4

(* Two names behind one another.                                           *)
LEMMA NamesDecode ==
  ASSUME NEW s, NEW b, NEW size, NEW at, Decoder(s, b, size, at), NEW o \in FileNames,
         NEW p \in FileNames, NameIn(b, at, o), NameIn(b, at + (1 + Len(o)), p),
         NEW n, n = (1 + Len(o)) + (1 + Len(p))
  PROVE  LET src == DecodeLV(s)
             dst == DecodeLV(src.s)
         IN  /\ at + n > size => Broken(dst.s)
             /\ at + n <= size => dst.s.is_valid /\ src.v = o /\ dst.v = p
<1> DEFINE src == DecodeLV(s)
           dst == DecodeLV(src.s)
<1>1. PICK m, k : m = 1 + Len(o) /\ k = 1 + Len(p)
  OBVIOUS
<1>2. m \in Nat /\ k \in Nat /\ at \in Nat /\ size \in Nat /\ n = m + k
  BY <1>1, NameIs DEF Decoder
<1>3. /\ at + m > size => Broken(src.s)
      /\ at + m <= size => Decoder(src.s, b, size, at + m) /\ src.v = o
  BY <1>1, NameDecodes
<1>4. ASSUME Broken(src.s) PROVE Broken(dst.s)
  BY <1>4, NameBroken
<1>5. ASSUME Decoder(src.s, b, size, at + m)
      PROVE  /\ (at + m) + k > size => Broken(dst.s)
             /\ (at + m) + k <= size => dst.s.is_valid /\ dst.v = p
  <2>1. PICK x, a : x = src.s /\ a = at + m
    OBVIOUS
  <2>2. Decoder(x, b, size, a) /\ NameIn(b, a, p)
    BY <1>1, <1>5, <2>1
  <2>3. /\ a + (1 + Len(p)) > size => Broken(DecodeLV(x).s)
        /\ a + (1 + Len(p)) <= size => /\ Decoder(DecodeLV(x).s, b, size, a + (1 + Len(p)))
                                       /\ DecodeLV(x).v = p
    BY <2>2, NameDecodes
  <2>4. dst = DecodeLV(x)
    BY <2>1
  <2> HIDE DEF src, dst
  <2> QED
    BY <1>1, <2>1, <2>3, <2>4 DEF Decoder
<1> HIDE DEF src, dst
<1>6. CASE at + m > size
  BY <1>2, <1>3, <1>4, <1>6 DEF src, dst
<1>7. CASE at + m <= size
  <2>1. at + n = (at + m) + k
    BY <1>2
  <2> QED
    BY <1>3, <1>5, <1>7, <2>1 DEF src, dst
<1> QED
  BY <1>2, <1>6, <1>7

LEMMA MdDecodes ==
  ASSUME NEW s, NEW b, NEW size, NEW at, Decoder(s, b, size, at), NEW md \in Md,
         MdIn(b, at, md), NEW n, n = MdSize(md)
  PROVE  LET d == DecodeMd(s)
         IN  /\ at + n > size => ~d.s.is_valid
             /\ at + n <= size => d.s.is_valid /\ d.v = md
<1> DEFINE d == Decode(s, 5)
           src == DecodeLV(d.s)
           dst == DecodeLV(src.s)
           e == DecodeMd(s)
<1>1. PICK fixed, k, o, p : /\ fixed = MdFixed(md) /\ k = 5
                            /\ o = md.source_filename /\ p = md.dest_filename
  OBVIOUS
<1>2. /\ fixed \in Seq(Octet) /\ Len(fixed) = k /\ GetField(fixed[1], 1, 7) = md.close_req
      /\ GetField(fixed[1], 4, 0) = md.checksum_type /\ Value(SubSeq(fixed, 2, 5)) = md.size
      /\ o \in FileNames /\ p \in FileNames
  BY <1>1, MdIs
<1>3. PICK x, y : x = Len(o) /\ y = Len(p)
  OBVIOUS
<1>4. x \in Nat /\ y \in Nat /\ at \in Nat /\ size \in Nat
  BY <1>2, <1>3, NameIs DEF Decoder
<1>5. n = 7 + (x + y) /\ Holds(b, at, fixed) /\ NameIn(b, at + 5, o) /\ NameIn(b, at + (6 + x), p)
  BY <1>1, <1>3 DEF MdIn, MdSize
<1>6. PICK m, a : m = (1 + Len(o)) + (1 + Len(p)) /\ a = at + 5
  OBVIOUS
<1>7. /\ at + k = a /\ a + (1 + Len(o)) = at + (6 + x) /\ a + m = at + n /\ a \in Nat /\ m \in Nat
      /\ a <= a + m
  <2>1. k = 5 /\ a = at + 5 /\ m = (1 + x) + (1 + y) /\ n = 7 + (x + y) /\ Len(o) = x
    BY <1>1, <1>3, <1>5, <1>6
  <2> QED
    BY <1>4, <2>1
<1>8. /\ a > size => Broken(d.s)
      /\ a <= size => Decoder(d.s, b, size, a) /\ d.v = fixed
  <2> DEFINE f == Decode(s, k)
  <2>1. k = Len(fixed)
    BY <1>2
  <2>2. /\ at + k > size => Broken(f.s)
        /\ at + k <= size => Decoder(f.s, b, size, at + k) /\ f.v = fixed
    BY <1>2, <1>5, <2>1, DecodeHeld
  <2>3. d = f
    BY <1>1
  <2> HIDE DEF d, f
  <2> QED
    BY <1>7, <2>2, <2>3
<1>9. ASSUME Decoder(d.s, b, size, a)
      PROVE  /\ a + m > size => Broken(dst.s)
             /\ a + m <= size => dst.s.is_valid /\ src.v = o /\ dst.v = p
  <2>1. PICK z : z = d.s
    OBVIOUS
  <2> DEFINE u == DecodeLV(z)
             v == DecodeLV(u.s)
  <2>2. Decoder(z, b, size, a) /\ NameIn(b, a, o) /\ NameIn(b, a + (1 + Len(o)), p)
    BY <1>5, <1>6, <1>7, <1>9, <2>1
  <2>3. /\ a + m > size => Broken(v.s)
        /\ a + m <= size => v.s.is_valid /\ u.v = o /\ v.v = p
    BY <1>2, <1>6, <2>2, NamesDecode
  <2>4. u = src /\ v = dst
    BY <2>1
  <2> HIDE DEF u, v, src, dst
  <2> QED
    BY <2>3, <2>4
<1>10. e = IF ~d.s.is_valid THEN [s |-> d.s, v |-> NoMd]
           ELSE [s |-> dst.s,
                 v |-> [close_req |-> GetField(d.v[1], 1, 7),
                        checksum_type |-> GetField(d.v[1], 4, 0),
                        size |-> Value(SubSeq(d.v, 2, 5)),
                        source_filename |-> src.v, dest_filename |-> dst.v]]
  BY DEF DecodeMd
<1> HIDE DEF d, src, dst, e
<1>11. CASE a > size
  <2>1. ~d.s.is_valid
    BY <1>8, <1>11 DEF Broken
  <2>2. ~e.s.is_valid /\ at + n > size
    BY <1>4, <1>7, <1>10, <1>11, <2>1
  <2> QED
    BY <1>4, <1>7, <2>2 DEF e
<1>12. CASE a <= size
  <2>1. Decoder(d.s, b, size, a) /\ d.s.is_valid /\ d.v = fixed
    BY <1>8, <1>12 DEF Decoder
  <2>2. /\ e.s = dst.s
        /\ e.v = [close_req |-> md.close_req, checksum_type |-> md.checksum_type,
                  size |-> md.size, source_filename |-> src.v, dest_filename |-> dst.v]
    BY <1>2, <1>10, <2>1
  <2>3. md = [close_req |-> md.close_req, checksum_type |-> md.checksum_type,
              size |-> md.size, source_filename |-> o, dest_filename |-> p]
    BY <1>1 DEF Md
  <2>4. ASSUME at + n > size PROVE ~e.s.is_valid
    BY <1>7, <1>9, <2>1, <2>2, <2>4 DEF Broken
  <2>5. ASSUME at + n <= size PROVE e.s.is_valid /\ e.v = md
    BY <1>7, <1>9, <2>1, <2>2, <2>3, <2>5
  <2> QED
    BY <2>4, <2>5 DEF e
<1> QED
  BY <1>4, <1>7, <1>11, <1>12

LEMMA RecvMdIs ==
  ASSUME NEW s, NEW b, NEW size, NEW at, Decoder(s, b, size, at), NEW md \in Md,
         MdIn(b, at, md), NEW n, n = MdSize(md)
  PROVE  LET r == RecvMd(s)
         IN  /\ r.ret = "CFE_SUCCESS" => r.body = md
             /\ at + n <= size =>
                  IF MaxFilename \in {Len(md.source_filename), Len(md.dest_filename)}
                    THEN r.ret = "CF_PDU_METADATA_ERROR"
                    ELSE r.ret = "CFE_SUCCESS" /\ r.body = md
<1> DEFINE d == DecodeMd(s)
           r == RecvMd(s)
<1>1. /\ at + n > size => ~d.s.is_valid
      /\ at + n <= size => d.s.is_valid /\ d.v = md
  BY MdDecodes
<1>2. PICK o, p : o = md.source_filename /\ p = md.dest_filename
  OBVIOUS
<1>3. /\ Len(o) \in Nat /\ Len(p) \in Nat /\ Len(o) <= MaxFilename /\ Len(p) <= MaxFilename
      /\ MaxFilename \in Nat
  BY <1>2, MdIs, NameIs, RoomForHeaders, SMTT(60) DEF Octet
<1>4. /\ r.body = d.v
      /\ r.ret = IF d.s.is_valid /\ FitsString(d.v.source_filename) /\ FitsString(d.v.dest_filename)
                   THEN "CFE_SUCCESS" ELSE "CF_PDU_METADATA_ERROR"
  BY DEF RecvMd
<1> HIDE DEF d, r
<1>5. at \in Nat /\ size \in Nat /\ n \in Nat
  <2>1. n = 7 + (Len(o) + Len(p))
    BY <1>2 DEF MdSize
  <2> QED
    BY <1>3, <2>1 DEF Decoder
<1>6. CASE at + n > size
  BY <1>1, <1>4, <1>5, <1>6 DEF r
<1>7. CASE at + n <= size
  <2>1. d.s.is_valid /\ d.v = md
    BY <1>1, <1>7
  <2>2. r.ret = IF Len(o) < MaxFilename /\ Len(p) < MaxFilename
                  THEN "CFE_SUCCESS" ELSE "CF_PDU_METADATA_ERROR"
    BY <1>2, <1>4, <2>1 DEF FitsString
  <2>3. Len(o) < MaxFilename /\ Len(p) < MaxFilename <=> ~(MaxFilename \in {Len(o), Len(p)})
    BY <1>3
  <2> QED
    BY <1>2, <1>4, <2>1, <2>2, <2>3 DEF r
<1> QED
  BY <1>5, <1>6, <1>7

(* An iteration of the loop that decodes segment requests.                 *)
SegmentStep(x) ==
  IF x.s.is_valid /\ GetRemain(x.s) # 0 THEN Counted(x, DecodeSegmentRequest(x.s)) ELSE x

SegmentStates(c) == [s : Codecs(c), v : Seq(Segments)]

(* The first j segment requests of list have been read.                    *)
Read(x, b, size, at, list, j) ==
  /\ Decoder(x.s, b, size, at + 8 * j)
  /\ Len(x.v) = j /\ \A i \in 1 .. j : x.v[i] = list[i]

LEMMA SegmentRequestIs ==
  ASSUME NEW s, NEW b, NEW size, NEW at, Decoder(s, b, size, at), NEW g \in Segments,
         Holds(b, at, SegmentOctets(g))
  PROVE  LET d == DecodeSegmentRequest(s)
         IN  /\ d.s = CheckSize(s, 8)
             /\ at + 8 > size => ~d.s.is_valid
             /\ at + 8 <= size => Decoder(d.s, b, size, at + 8) /\ d.s.is_valid /\ d.v = g
<1> DEFINE d == DecodeSegmentRequest(s)
           f == Decode(s, 8)
<1>1. PICK r, k : r = SegmentOctets(g) /\ k = 8
  OBVIOUS
<1>2. /\ r \in Seq(Octet) /\ Len(r) = k /\ Value(SubSeq(r, 1, 4)) = g.offset_start
      /\ Value(SubSeq(r, 5, 8)) = g.offset_end /\ Segment(g.offset_start, g.offset_end) = g
      /\ Holds(b, at, r)
  BY <1>1, SegmentIs
<1>3. /\ at + 8 > size => ~f.s.is_valid
      /\ at + 8 <= size => Decoder(f.s, b, size, at + 8) /\ f.s.is_valid /\ f.v = r
  <2> DEFINE h == Decode(s, k)
  <2>1. k = Len(r)
    BY <1>2
  <2>2. /\ at + k > size => ~h.s.is_valid
        /\ at + k <= size => Decoder(h.s, b, size, at + k) /\ h.s.is_valid /\ h.v = r
    BY <1>2, <2>1, DecodeHeld
  <2>3. h = f
    BY <1>1
  <2> HIDE DEF h, f
  <2> QED
    BY <1>1, <2>2, <2>3
<1>4. f.s = CheckSize(s, 8)
  BY DEF Decode
<1>5. d = [s |-> f.s, v |-> IF f.s.is_valid
                              THEN Segment(Value(SubSeq(f.v, 1, 4)), Value(SubSeq(f.v, 5, 8)))
                              ELSE Segment(0, 0)]
  BY DEF DecodeSegmentRequest
<1> HIDE DEF d, f
<1>6. d.s = f.s
  BY <1>5
<1>7. ASSUME at + 8 <= size PROVE d.v = g
  BY <1>2, <1>3, <1>5, <1>7
<1> QED
  BY <1>3, <1>4, <1>6, <1>7 DEF d

(* The segment requests of list are what is left, as far as they go.       *)
Ahead(b, size, at, list, n) ==
  /\ at \in Nat /\ list \in Seq(Segments) /\ SegmentsIn(b, at, list)
  /\ n = Len(list) /\ size <= at + 8 * n

Advanced(c, x, y, b, size, at, list, n, j) ==
  /\ y \in SegmentStates(c)
  /\ at + 8 * j = size => y = x
  /\ at + 8 * j # size /\ size < at + 8 * (j + 1) => ~y.s.is_valid
  /\ at + 8 * (j + 1) <= size => j + 1 \in 0 .. n /\ Read(y, b, size, at, list, j + 1)

LEMMA SegmentReads ==
  ASSUME NEW c, NEW x \in SegmentStates(c), NEW b, NEW size, NEW at, NEW list, NEW n,
         Ahead(b, size, at, list, n), NEW j \in 0 .. n, Read(x, b, size, at, list, j)
  PROVE  Advanced(c, x, SegmentStep(x), b, size, at, list, n, j)
<1> SUFFICES ASSUME at \in Nat, list \in Seq(Segments), SegmentsIn(b, at, list),
                    n = Len(list), size <= at + 8 * n
             PROVE  LET y == SegmentStep(x)
                    IN  /\ y \in SegmentStates(c)
                        /\ at + 8 * j = size => y = x
                        /\ at + 8 * j # size /\ size < at + 8 * (j + 1) => ~y.s.is_valid
                        /\ at + 8 * (j + 1) <= size =>
                              j + 1 \in 0 .. n /\ Read(y, b, size, at, list, j + 1)
  BY DEF Ahead, Advanced
<1>1. PICK o, k : o = at + 8 * j /\ k = j + 1
  OBVIOUS
<1>2. /\ n \in Nat /\ j \in Nat /\ j <= n /\ o \in Nat /\ o + 8 = at + 8 * k /\ k \in Nat
      /\ o <= size /\ size \in Nat /\ x.s.is_valid /\ GetRemain(x.s) = size - o
      /\ Decoder(x.s, b, size, o)
  <2>1. Decoder(x.s, b, size, o)
    BY <1>1 DEF Read
  <2>2. n \in Nat
    BY LenProperties
  <2>3. size \in Nat /\ o \in 0 .. size /\ x.s.is_valid /\ GetRemain(x.s) = size - o
    BY <2>1 DEF Decoder, GetRemain
  <2> QED
    BY <1>1, <2>1, <2>2, <2>3
<1>3. x = [s |-> x.s, v |-> x.v] /\ x.s \in Codecs(c) /\ x.v \in Seq(Segments)
  BY DEF SegmentStates
<1> DEFINE y == SegmentStep(x)
           d == DecodeSegmentRequest(x.s)
<1>4. CASE o = size
  <2>1. y = x
    BY <1>2, <1>4 DEF SegmentStep
  <2>2. ~(at + 8 * k <= size)
    BY <1>2, <1>4
  <2> HIDE DEF y
  <2> QED
    BY <1>1, <1>4, <2>1, <2>2 DEF y
<1>5. CASE o # size
  <2>1. k \in 1 .. n
    <3>1. at + 8 * j < at + 8 * n
      BY <1>1, <1>2, <1>5
    <3> QED
      BY <1>1, <1>2, <3>1
  <2>2. PICK g : g = list[k]
    OBVIOUS
  <2>3. g \in Segments /\ Holds(b, o, SegmentOctets(g))
    <3>1. at + 8 * (k - 1) = o
      BY <1>1, <1>2
    <3>2. list[k] \in Segments
      BY <2>1, ElementOfSeq
    <3> QED
      BY <2>1, <2>2, <3>1, <3>2 DEF SegmentsIn
  <2>4. /\ d.s = CheckSize(x.s, 8)
        /\ o + 8 > size => ~d.s.is_valid
        /\ o + 8 <= size => Decoder(d.s, b, size, o + 8) /\ d.s.is_valid /\ d.v = g
    BY <1>2, <2>3, SegmentRequestIs
  <2>5. y = [s |-> d.s, v |-> IF d.s.is_valid THEN Append(x.v, d.v) ELSE x.v]
    <3>1. GetRemain(x.s) # 0
      BY <1>2, <1>5
    <3> QED
      BY <1>2, <3>1 DEF SegmentStep, Counted
  <2>6. d.s \in Codecs(c)
    <3>1. 8 \in Nat /\ x.s \in Codecs(c)
      BY <1>3
    <3>2. CheckSize(x.s, 8) \in Codecs(c)
      BY <3>1, CheckSizeIs
    <3> QED
      BY <2>4, <3>2
  <2> HIDE DEF d, y
  <2>7. CASE o + 8 > size
    <3>1. y = [s |-> d.s, v |-> x.v]
      BY <2>4, <2>5, <2>7
    <3>2. y \in SegmentStates(c) /\ ~y.s.is_valid
      BY <1>3, <2>4, <2>6, <2>7, <3>1 DEF SegmentStates
    <3>3. ~(at + 8 * k <= size)
      BY <1>2, <2>7
    <3> QED
      BY <1>1, <1>5, <3>2, <3>3 DEF y
  <2>8. CASE o + 8 <= size
    <3>1. y = [s |-> d.s, v |-> Append(x.v, g)]
      BY <2>4, <2>5, <2>8
    <3>2. Len(x.v) = j /\ \A i \in 1 .. j : x.v[i] = list[i]
      BY DEF Read
    <3>3. PICK v : v = Append(x.v, g)
      OBVIOUS
    <3>4. /\ v \in Seq(Segments) /\ Len(v) = Len(x.v) + 1
          /\ \A i \in 1 .. Len(x.v) : v[i] = x.v[i]
          /\ v[Len(x.v) + 1] = g
      BY <1>3, <2>3, <3>3, AppendProperties
    <3>5. Len(v) = k /\ \A i \in 1 .. k : v[i] = list[i]
      <4>1. Len(v) = k
        BY <1>1, <3>2, <3>4
      <4>2. ASSUME NEW i \in 1 .. k PROVE v[i] = list[i]
        <5>1. CASE i = k
          BY <1>1, <2>2, <3>2, <3>4, <5>1
        <5>2. CASE i # k
          <6>1. i \in 1 .. j
            BY <1>1, <1>2, <5>2
          <6> QED
            BY <3>2, <3>4, <6>1
        <5> QED
          BY <5>1, <5>2
      <4> QED
        BY <4>1, <4>2
    <3>6. y.s = d.s /\ y.v = v /\ y \in SegmentStates(c)
      BY <2>6, <3>1, <3>3, <3>4 DEF SegmentStates
    <3>7. Read(y, b, size, at, list, k)
      <4>1. Decoder(d.s, b, size, at + 8 * k)
        BY <1>2, <2>4, <2>8
      <4> QED
        BY <3>5, <3>6, <4>1 DEF Read
    <3>8. k \in 0 .. n /\ ~(size < at + 8 * k)
      BY <1>2, <2>1, <2>8
    <3> QED
      BY <1>1, <1>5, <3>6, <3>7, <3>8 DEF y
  <2> QED
    BY <1>2, <2>7, <2>8
<1> QED
  BY <1>4, <1>5

LEMMA SegmentStepsRun ==
  ASSUME NEW X, NEW s, [s |-> s, v |-> <<>>] \in X, \A x \in X : SegmentStep(x) \in X
  PROVE  \E h : /\ h[0] = [s |-> s, v |-> <<>>] /\ DecodeAllSegments(s, MaxSegments) = h[MaxSegments]
                /\ \A k \in 1 .. MaxSegments : h[k] = SegmentStep(h[k - 1])
<1> DEFINE n == MaxSegments
           first == [s |-> s, v |-> <<>>]
           step == [p \in X \X (1 .. n) |-> SegmentStep(p[1])]
           it[t \in SUBSET (1 .. n)] == IF t = {} THEN first ELSE SegmentStep(it[t \ {Max(t)}])
           h == [k \in 0 .. n |-> it[1 .. k]]
<1>1. n \in Nat /\ first \in X
  BY CodecAssumption
<1>2. DecodeAllSegments(s, MaxSegments) = it[1 .. n]
  BY DEF DecodeAllSegments, FoldLeft, MapThenFoldSet, SegmentStep
<1> HIDE DEF n, first
<1>3. /\ step \in [X \X (1 .. n) -> X]
      /\ \A x \in X, k \in 1 .. n : step[<<x, k>>] = SegmentStep(x)
  OBVIOUS
<1> HIDE DEF step
<1>4. it = [t \in SUBSET (1 .. n) |-> IF t = {} THEN first ELSE SegmentStep(it[t \ {Max(t)}])]
  <2>1. PICK jt \in [SUBSET (1 .. n) -> X] : Folded(jt, n, first, step)
    BY <1>1, <1>3, FoldExists
  <2>2. ASSUME NEW t \in SUBSET (1 .. n), t # {}
        PROVE  step[<<jt[t \ {Max(t)}], Max(t)>>] = SegmentStep(jt[t \ {Max(t)}])
    <3>1. Max(t) \in 1 .. n /\ jt[t \ {Max(t)}] \in X
      BY <1>1, <2>2, MaxOfSet
    <3> QED
      BY <1>3, <3>1
  <2>3. jt = [t \in SUBSET (1 .. n) |-> IF t = {} THEN first ELSE SegmentStep(jt[t \ {Max(t)}])]
    BY <2>1, <2>2, Zenon DEF Folded
  <2> QED
    BY <2>3
<1> HIDE DEF it
<1>5. it[1 .. 0] = first
  BY <1>1, <1>4, Initials
<1>6. ASSUME NEW k \in 1 .. n PROVE it[1 .. k] = SegmentStep(it[1 .. (k - 1)])
  <2>1. /\ 1 .. k \in SUBSET (1 .. n) /\ 1 .. k # {}
        /\ Max(1 .. k) = k /\ (1 .. k) \ {k} = 1 .. (k - 1)
    BY <1>1, Initials
  <2>2. it[1 .. k] = SegmentStep(it[(1 .. k) \ {Max(1 .. k)}])
    BY <1>4, <2>1, Zenon
  <2> QED
    BY <2>1, <2>2
<1>7. h[0] = first /\ h[n] = it[1 .. n]
  BY <1>1, <1>5
<1>8. \A k \in 1 .. n : h[k] = SegmentStep(h[k - 1])
  <2> SUFFICES ASSUME NEW k \in 1 .. n PROVE h[k] = SegmentStep(h[k - 1])
    OBVIOUS
  <2>1. k \in 0 .. n /\ k - 1 \in 0 .. n
    BY <1>1
  <2> QED
    BY <1>6, <2>1
<1> HIDE DEF h
<1> QED
  BY <1>2, <1>7, <1>8 DEF n, first

LEMMA SegmentsDecode ==
  ASSUME NEW s, NEW b, NEW size, NEW at, Decoder(s, b, size, at),
         NEW list \in Seq(Segments), SegmentsIn(b, at, list),
         NEW n, n = Len(list), n <= MaxSegments, size <= at + 8 * n
  PROVE  LET d == DecodeAllSegments(s, MaxSegments)
         IN  /\ d.s.is_valid => IsPrefix(d.v, list)
             /\ size = at + 8 * n => d.s.is_valid /\ d.v = list
<1> DEFINE c == s.base
           first == [s |-> s, v |-> <<>>]
           ReadTo(x, j) == Read(x, b, size, at, list, j)
           X == {x \in SegmentStates(c) : x.s.is_valid => \E j \in 0 .. n : ReadTo(x, j)}
           d == DecodeAllSegments(s, MaxSegments)
<1>1. n \in Nat /\ MaxSegments \in Nat /\ at \in Nat /\ size \in Nat /\ at <= size
  BY LenProperties, CodecAssumption DEF Decoder
<1>2. first \in SegmentStates(c) /\ ReadTo(first, 0)
  <2>1. s \in Codecs(c) /\ <<>> \in Seq(Segments) /\ Len(<<>>) = 0 /\ at + 8 * 0 = at
    BY <1>1 DEF Decoder
  <2>2. first \in SegmentStates(c)
    BY <2>1 DEF SegmentStates
  <2>3. first.s = s /\ first.v = <<>>
    OBVIOUS
  <2> HIDE DEF first, c
  <2>4. Len(first.v) = 0 /\ \A i \in 1 .. 0 : first.v[i] = list[i]
    BY <2>1, <2>3
  <2>5. Decoder(first.s, b, size, at + 8 * 0)
    BY <2>1, <2>3
  <2> QED
    BY <2>2, <2>4, <2>5 DEF Read
<1> HIDE DEF first
<1>3. ASSUME NEW x \in SegmentStates(c), NEW j \in 0 .. n, ReadTo(x, j)
      PROVE  LET y == SegmentStep(x)
             IN  /\ y \in SegmentStates(c)
                 /\ at + 8 * j = size => y = x
                 /\ at + 8 * j # size /\ size < at + 8 * (j + 1) => ~y.s.is_valid
                 /\ at + 8 * (j + 1) <= size => j + 1 \in 0 .. n /\ ReadTo(y, j + 1)
  <2>1. Read(x, b, size, at, list, j) /\ Ahead(b, size, at, list, n)
    BY <1>1, <1>3 DEF Ahead
  <2>2. Advanced(c, x, SegmentStep(x), b, size, at, list, n, j)
    <3> HIDE DEF c
    <3> QED
      BY <2>1, SegmentReads
  <2> QED
    BY <2>2 DEF Advanced
<1> HIDE DEF ReadTo, c
<1>4. ASSUME NEW x \in X PROVE SegmentStep(x) \in X
  <2>1. CASE ~x.s.is_valid
    <3>1. SegmentStep(x) = x
      BY <2>1 DEF SegmentStep
    <3> QED
      BY <3>1
  <2>2. CASE x.s.is_valid
    <3>1. PICK j \in 0 .. n : ReadTo(x, j)
      BY <2>2
    <3>2. PICK o, p : o = at + 8 * j /\ p = at + 8 * (j + 1)
      OBVIOUS
    <3>3. PICK y : y = SegmentStep(x)
      OBVIOUS
    <3>4. /\ y \in SegmentStates(c)
          /\ o = size => y = x
          /\ o # size /\ size < p => ~y.s.is_valid
          /\ p <= size => j + 1 \in 0 .. n /\ ReadTo(y, j + 1)
      BY <1>3, <3>1, <3>2, <3>3
    <3>5. o = size \/ (o # size /\ size < p) \/ p <= size
      BY <1>1, <3>2
    <3> QED
      BY <3>3, <3>4, <3>5
  <2> QED
    BY <2>1, <2>2
<1>5. first \in X
  BY <1>1, <1>2
<1>6. PICK Y : Y = X
  OBVIOUS
<1>7. PICK h : /\ h[0] = first /\ d = h[MaxSegments]
               /\ \A k \in 1 .. MaxSegments : h[k] = SegmentStep(h[k - 1])
  <2>1. \A x \in Y : SegmentStep(x) \in Y
    BY <1>4, <1>6
  <2>2. [s |-> s, v |-> <<>>] \in Y
    BY <1>5, <1>6 DEF first
  <2> QED
    BY <2>1, <2>2, SegmentStepsRun DEF first
<1> HIDE DEF d
<1>8. ASSUME d.s.is_valid PROVE IsPrefix(d.v, list)
  <2>1. \A k \in 0 .. MaxSegments : h[k] \in Y
    <3>1. h[0] \in Y /\ MaxSegments \in Nat
      BY <1>1, <1>5, <1>6, <1>7
    <3>2. \A k \in 1 .. MaxSegments : h[k - 1] \in Y => h[k] \in Y
      BY <1>4, <1>6, <1>7
    <3> QED
      BY <3>1, <3>2, RunStaysIn
  <2>2. d \in X
    BY <1>1, <1>6, <1>7, <2>1
  <2>3. PICK j \in 0 .. n : ReadTo(d, j)
    BY <1>8, <2>2
  <2>4. d.v \in Seq(Segments) /\ Len(d.v) = j /\ \A i \in 1 .. j : d.v[i] = list[i]
    BY <2>2, <2>3 DEF ReadTo, Read, SegmentStates
  <2>5. Len(d.v) <= Len(list)
    BY <1>1, <2>4
  <2> QED
    BY <2>4, <2>5, PrefixIs
<1>9. ASSUME size = at + 8 * n PROVE d.s.is_valid /\ d.v = list
  <2> DEFINE G == {k \in Nat : k <= MaxSegments =>
                     /\ h[k] \in SegmentStates(c)
                     /\ \E j \in 0 .. n : ReadTo(h[k], j) /\ (j = k \/ j = n)}
  <2>1. 0 \in G
    BY <1>1, <1>2, <1>7
  <2>2. ASSUME NEW m \in Nat, m \in G PROVE m + 1 \in G
    <3> SUFFICES ASSUME m + 1 <= MaxSegments
                 PROVE  /\ h[m + 1] \in SegmentStates(c)
                        /\ \E j \in 0 .. n : ReadTo(h[m + 1], j) /\ (j = m + 1 \/ j = n)
      OBVIOUS
    <3>1. m <= MaxSegments /\ m + 1 \in 1 .. MaxSegments /\ (m + 1) - 1 = m
      BY <1>1
    <3>2. h[m + 1] = SegmentStep(h[m])
      BY <1>7, <3>1
    <3>3. h[m] \in SegmentStates(c)
      BY <2>2, <3>1
    <3>4. PICK j \in 0 .. n : ReadTo(h[m], j) /\ (j = m \/ j = n)
      BY <2>2, <3>1
    <3>5. PICK o, p, y, k : o = at + 8 * j /\ p = at + 8 * (j + 1) /\ y = h[m + 1] /\ k = m + 1
      OBVIOUS
    <3>6. /\ y \in SegmentStates(c)
          /\ o = size => y = h[m]
          /\ p <= size => j + 1 \in 0 .. n /\ ReadTo(y, j + 1)
      BY <1>3, <3>2, <3>3, <3>4, <3>5
    <3>7. (j = n /\ o = size) \/ (j < n /\ j = m /\ p <= size)
      BY <1>1, <1>9, <3>4, <3>5
    <3>8. CASE j = n /\ o = size
      BY <3>4, <3>5, <3>6, <3>8
    <3>9. CASE j < n /\ j = m /\ p <= size
      <4>1. j + 1 = k /\ k \in 0 .. n /\ ReadTo(y, k)
        BY <3>5, <3>6, <3>9
      <4> QED
        BY <3>5, <3>6, <4>1
    <3> QED
      BY <3>7, <3>8, <3>9
  <2> HIDE DEF G
  <2>3. Nat \subseteq G
    BY <2>1, <2>2, Induction
  <2>4. MaxSegments \in G
    BY <1>1, <2>3
  <2>5. d \in SegmentStates(c) /\ \E j \in 0 .. n : ReadTo(d, j) /\ (j = MaxSegments \/ j = n)
    BY <1>1, <1>7, <2>4 DEF G
  <2>6. ReadTo(d, n)
    BY <1>1, <2>5
  <2>7. d.s.is_valid /\ d.v \in Seq(Segments) /\ Len(d.v) = n /\ \A i \in 1 .. n : d.v[i] = list[i]
    BY <2>5, <2>6 DEF ReadTo, Read, SegmentStates, Decoder
  <2> QED
    BY <2>7, SeqEqual
<1> QED
  BY <1>8, <1>9 DEF d

LEMMA NakDecodes ==
  ASSUME NEW s, NEW b, NEW size, NEW at, Decoder(s, b, size, at), NEW nak \in Nak,
         NakIn(b, at, nak), Len(nak.segment_list) <= MaxSegments, size <= at + NakSize(nak)
  PROVE  Understood(RecvNak(s), nak, size >= at + NakSize(nak))
<1> DEFINE e == DecodeNak(s)
           d == Decode(s, 8)
           segments == DecodeAllSegments(d.s, MaxSegments)
<1>1. PICK fixed, list, n : fixed = NakFixed(nak) /\ list = nak.segment_list /\ n = 8
  OBVIOUS
<1>2. /\ fixed \in Seq(Octet) /\ Len(fixed) = n /\ Value(SubSeq(fixed, 1, 4)) = nak.scope_start
      /\ Value(SubSeq(fixed, 5, 8)) = nak.scope_end /\ list \in Seq(Segments)
  BY <1>1, NakIs
<1>3. Holds(b, at, fixed) /\ SegmentsIn(b, at + n, list)
  BY <1>1 DEF NakIn
<1>4. PICK k, m : k = Len(list) /\ m = NakSize(nak)
  OBVIOUS
<1>5. /\ at \in Nat /\ size \in Nat /\ k \in Nat /\ n \in Nat /\ m = n + 8 * k /\ size <= at + m
      /\ k <= MaxSegments
  <2>1. k \in Nat
    BY <1>2, <1>4, LenProperties
  <2>2. m = n + 8 * k /\ k <= MaxSegments
    BY <1>1, <1>4 DEF NakSize
  <2> QED
    BY <1>1, <1>4, <2>1, <2>2 DEF Decoder
<1>6. /\ at + n > size => Broken(d.s)
      /\ at + n <= size => Decoder(d.s, b, size, at + n) /\ d.v = fixed
  <2> DEFINE f == Decode(s, n)
  <2>1. n = Len(fixed)
    BY <1>2
  <2>2. /\ at + n > size => Broken(f.s)
        /\ at + n <= size => Decoder(f.s, b, size, at + n) /\ f.v = fixed
    BY <1>2, <1>3, <2>1, DecodeHeld
  <2> QED
    BY <1>1, <2>2
<1>7. e = IF ~d.s.is_valid THEN [s |-> d.s, v |-> NoNak]
          ELSE [s |-> segments.s,
                v |-> [scope_start |-> Value(SubSeq(d.v, 1, 4)),
                       scope_end |-> Value(SubSeq(d.v, 5, 8)), segment_list |-> segments.v]]
  BY DEF DecodeNak
<1> HIDE DEF d, segments, e
<1> SUFFICES /\ e.s.is_valid => FarAsItGoes(e.v, nak)
             /\ size >= at + m => e.s.is_valid /\ e.v = nak
  BY <1>4, WholeIs DEF RecvNak, e
<1>8. CASE at + n > size
  <2>1. ~d.s.is_valid /\ ~(size >= at + m)
    BY <1>5, <1>6, <1>8 DEF Broken
  <2> QED
    BY <1>7, <2>1
<1>9. CASE at + n <= size
  <2>1. d.s.is_valid /\ Decoder(d.s, b, size, at + n) /\ d.v = fixed
    BY <1>6, <1>9 DEF Decoder
  <2>2. size <= (at + n) + 8 * k /\ (size >= at + m => size = (at + n) + 8 * k)
    BY <1>5
  <2>3. /\ segments.s.is_valid => IsPrefix(segments.v, list)
        /\ size = (at + n) + 8 * k => segments.s.is_valid /\ segments.v = list
    <3>1. PICK z, a : z = d.s /\ a = at + n
      OBVIOUS
    <3>2. Decoder(z, b, size, a) /\ SegmentsIn(b, a, list) /\ size <= a + 8 * k
      BY <1>3, <2>1, <2>2, <3>1
    <3> DEFINE f == DecodeAllSegments(z, MaxSegments)
    <3>3. /\ f.s.is_valid => IsPrefix(f.v, list)
          /\ size = a + 8 * k => f.s.is_valid /\ f.v = list
      <4>1. list \in Seq(Segments) /\ k = Len(list) /\ k <= MaxSegments
        BY <1>2, <1>4, <1>5
      <4> QED
        BY <3>2, <4>1, SegmentsDecode
    <3>4. f = segments
      BY <3>1 DEF segments
    <3> HIDE DEF f
    <3> QED
      BY <3>1, <3>3, <3>4
  <2>4. PICK l : l = segments.v
    OBVIOUS
  <2>5. e.s = segments.s
        /\ e.v = [scope_start |-> nak.scope_start, scope_end |-> nak.scope_end, segment_list |-> l]
    BY <1>2, <1>7, <2>1, <2>4
  <2>6. nak = [scope_start |-> nak.scope_start, scope_end |-> nak.scope_end, segment_list |-> list]
    BY <1>1 DEF Nak
  <2>7. ASSUME IsPrefix(l, list) PROVE FarAsItGoes(e.v, nak)
    <3>1. DOMAIN nak = {"scope_start", "scope_end", "segment_list"}
      BY <2>6
    <3>2. "scope_start" \notin Lists /\ "scope_end" \notin Lists /\ "segment_list" \in Lists
      BY DEF Lists
    <3>3. /\ e.v["scope_start"] = nak["scope_start"] /\ e.v["scope_end"] = nak["scope_end"]
          /\ e.v["segment_list"] = l /\ nak["segment_list"] = list
      BY <1>1, <2>5
    <3> QED
      BY <2>7, <3>1, <3>2, <3>3 DEF FarAsItGoes
  <2>8. e.s.is_valid => FarAsItGoes(e.v, nak)
    BY <2>3, <2>4, <2>5, <2>7
  <2>9. size >= at + m => e.s.is_valid /\ e.v = nak
    BY <2>2, <2>3, <2>4, <2>5, <2>6
  <2> QED
    BY <2>8, <2>9
<1> QED
  BY <1>5, <1>8, <1>9

TooLong(code, body) ==
  /\ code = DirectiveCode.METADATA
  /\ MaxFilename \in {Len(body.source_filename), Len(body.dest_filename)}

(* What a handler makes of the body of a PDU.                              *)
Handles(r, code, body, whole) ==
  /\ r.ret = "CFE_SUCCESS" => FarAsItGoes(r.body, body)
  /\ r.ret = "CFE_SUCCESS" /\ code = FileData => r.body.data \in Seq(Octet)
  /\ whole => IF TooLong(code, body) THEN r.ret = "CF_PDU_METADATA_ERROR"
              ELSE r.ret = "CFE_SUCCESS" /\ r.body = body

LEMMA HandledIs ==
  ASSUME NEW p, NEW code, p.code = code, p.h.pdu_type = (IF code = FileData THEN 1 ELSE 0)
  PROVE  /\ code = FileData => Handled(p) = RecvFd(p.s, p.h)
         /\ code = DirectiveCode.METADATA => Handled(p) = RecvMd(p.s)
         /\ code = DirectiveCode.EOF => Handled(p) = RecvEof(p.s)
         /\ code = DirectiveCode.FIN => Handled(p) = RecvFin(p.s)
         /\ code = DirectiveCode.ACK => Handled(p) = RecvAck(p.s)
         /\ code = DirectiveCode.NAK => Handled(p) = RecvNak(p.s)
<1>1. PICK t : t = p.h.pdu_type
  OBVIOUS
<1>2. t = (IF code = FileData THEN 1 ELSE 0)
  BY <1>1
<1>3. Handled(p) = CASE t = 1 -> RecvFd(p.s, p.h)
                     [] code = DirectiveCode.METADATA -> RecvMd(p.s)
                     [] code = DirectiveCode.EOF -> RecvEof(p.s)
                     [] code = DirectiveCode.FIN -> RecvFin(p.s)
                     [] code = DirectiveCode.ACK -> RecvAck(p.s)
                     [] code = DirectiveCode.NAK -> RecvNak(p.s)
                     [] OTHER -> Rejected("CF_ERROR")
  BY <1>1 DEF Handled
<1> QED
  BY <1>2, <1>3, CodesAre, SMT

LEMMA MdFarAsItGoes ==
  ASSUME NEW md \in Md
  PROVE  FarAsItGoes(md, md)
<1>1. md = [close_req |-> md.close_req, checksum_type |-> md.checksum_type, size |-> md.size,
            source_filename |-> md.source_filename, dest_filename |-> md.dest_filename]
  BY DEF Md
<1>2. DOMAIN md = {"close_req", "checksum_type", "size", "source_filename", "dest_filename"}
  BY <1>1
<1>3. /\ "close_req" \notin Lists /\ "checksum_type" \notin Lists /\ "size" \notin Lists
      /\ "source_filename" \notin Lists /\ "dest_filename" \notin Lists
  BY DEF Lists
<1> QED
  BY <1>2, <1>3 DEF FarAsItGoes

LEMMA UnderstoodHandles ==
  ASSUME NEW r, NEW code, NEW body, NEW whole, Understood(r, body, whole), ~TooLong(code, body),
         code = FileData /\ r.ret = "CFE_SUCCESS" => r.body.data \in Seq(Octet)
  PROVE  Handles(r, code, body, whole)
BY DEF Understood, Handles

LEMMA BodyDecodes ==
  ASSUME NEW p, NEW b, NEW size, NEW at, Decoder(p.s, b, size, at), NEW code, NEW body,
         IsBody(code, body), BodyIn(b, at, code, body), p.code = code,
         p.h.pdu_type = (IF code = FileData THEN 1 ELSE 0), p.h.segment_meta_flag = 0,
         p.h.crc_flag \in 0 .. 1, NEW n, n = BodySize(code, body),
         p.h.crc_flag = 0 => size <= at + n,
         p.h.crc_flag = 1 => code = FileData /\ size = (at + n) + 4
  PROVE  Handles(Handled(p), code, body, size >= at + n)
<1>1. PICK s, g : s = p.s /\ g = p.h
  OBVIOUS
<1>2. Decoder(s, b, size, at) /\ (code # FileData => size <= at + n)
  BY <1>1
<1>3. at \in Nat /\ size \in Nat
  BY <1>2 DEF Decoder
<1>4. CASE code = DirectiveCode.METADATA
  <2>1. body \in Md /\ MdIn(b, at, body) /\ n = MdSize(body) /\ code # FileData
    BY <1>4, BodyCodes, BodySizeIs, CodesAre DEF BodyIn
  <2>2. Handled(p) = RecvMd(s)
    BY <1>1, <1>4, HandledIs
  <2> DEFINE r == RecvMd(s)
  <2>3. /\ r.ret = "CFE_SUCCESS" => r.body = body
        /\ at + n <= size =>
             IF MaxFilename \in {Len(body.source_filename), Len(body.dest_filename)}
               THEN r.ret = "CF_PDU_METADATA_ERROR"
               ELSE r.ret = "CFE_SUCCESS" /\ r.body = body
    BY <1>2, <2>1, RecvMdIs
  <2> HIDE DEF r
  <2>4. FarAsItGoes(body, body)
    BY <2>1, MdFarAsItGoes
  <2>5. n \in Nat
    <3>1. PICK x, y : x = body.source_filename /\ y = body.dest_filename
      OBVIOUS
    <3>2. Len(x) \in Nat /\ Len(y) \in Nat
      BY <2>1, <3>1, MdIs, NameIs
    <3>3. n = 7 + (Len(x) + Len(y))
      BY <2>1, <3>1 DEF MdSize
    <3> QED
      BY <3>2, <3>3
  <2>6. size >= at + n => at + n <= size
    BY <1>3, <2>5
  <2>7. Handles(r, code, body, size >= at + n)
    BY <1>4, <2>1, <2>3, <2>4, <2>6 DEF Handles, TooLong
  <2> QED
    BY <2>2, <2>7 DEF r
<1>5. CASE code = DirectiveCode.EOF
  <2>1. body \in Eof /\ EofIn(b, at, body) /\ n = EofSize(body) /\ code # FileData
        /\ ~TooLong(code, body)
    BY <1>5, BodyCodes, BodySizeIs, CodesAre DEF BodyIn, TooLong
  <2>2. Handled(p) = RecvEof(s)
    BY <1>1, <1>5, HandledIs
  <2>3. size <= at + EofSize(body)
    BY <1>2, <2>1
  <2>4. Understood(RecvEof(s), body, size >= at + EofSize(body))
    BY <1>2, <2>1, <2>3, EofDecodes
  <2> QED
    BY <2>1, <2>2, <2>4, UnderstoodHandles
<1>6. CASE code = DirectiveCode.FIN
  <2>1. body \in Fin /\ FinIn(b, at, body) /\ n = FinSize(body) /\ code # FileData
        /\ ~TooLong(code, body)
    BY <1>6, BodyCodes, BodySizeIs, CodesAre DEF BodyIn, TooLong
  <2>2. Handled(p) = RecvFin(s)
    BY <1>1, <1>6, HandledIs
  <2>3. size <= at + FinSize(body)
    BY <1>2, <2>1
  <2>4. Understood(RecvFin(s), body, size >= at + FinSize(body))
    BY <1>2, <2>1, <2>3, FinDecodes
  <2> QED
    BY <2>1, <2>2, <2>4, UnderstoodHandles
<1>7. CASE code = DirectiveCode.ACK
  <2>1. body \in Ack /\ AckIn(b, at, body) /\ n = 2 /\ code # FileData /\ ~TooLong(code, body)
    BY <1>7, BodyCodes, BodySizeIs, CodesAre DEF BodyIn, TooLong
  <2>2. Handled(p) = RecvAck(s)
    BY <1>1, <1>7, HandledIs
  <2>3. size <= at + 2
    BY <1>2, <2>1
  <2>4. Understood(RecvAck(s), body, size >= at + 2)
    BY <1>2, <2>1, <2>3, AckDecodes
  <2> QED
    BY <2>1, <2>2, <2>4, UnderstoodHandles
<1>8. CASE code = DirectiveCode.NAK
  <2>1. body \in Nak /\ NakIn(b, at, body) /\ n = NakSize(body) /\ code # FileData
        /\ Len(body.segment_list) <= MaxSegments /\ ~TooLong(code, body)
    BY <1>8, BodyCodes, BodySizeIs, CodesAre DEF BodyIn, TooLong
  <2>2. Handled(p) = RecvNak(s)
    BY <1>1, <1>8, HandledIs
  <2>3. size <= at + NakSize(body)
    BY <1>2, <2>1
  <2>4. Understood(RecvNak(s), body, size >= at + NakSize(body))
    BY <1>2, <2>1, <2>3, NakDecodes
  <2> QED
    BY <2>1, <2>2, <2>4, UnderstoodHandles
<1>9. CASE code = FileData
  <2>1. body \in FilePieces /\ FdIn(b, at, body) /\ n = FdSize(body) /\ ~TooLong(code, body)
    BY <1>9, BodyCodes, BodySizeIs, CodesAre DEF BodyIn, TooLong
  <2>2. Handled(p) = RecvFd(s, g)
    BY <1>1, <1>9, HandledIs
  <2>3. PICK o, data : o \in Numbers32 /\ data \in Seq(Octet) /\ body = FdOf(o, data) /\ data = body.data
    <3>1. PICK o \in 0 .. FileLength, k \in Nat :
            /\ body = [NoFd EXCEPT !.offset = o, !.data = SubSeq(File, o + 1, o + k)]
            /\ body.offset = o /\ body.data = SubSeq(File, o + 1, o + k)
            /\ body.offset \in Numbers32 /\ body.data \in Seq(Octet)
      BY <2>1, FilePiecesAre, ZenonT(60)
    <3>2. body = FdOf(body.offset, body.data)
      BY <3>1 DEF FdOf
    <3> QED
      BY <3>1, <3>2
  <2>4. n = 4 + Len(data) /\ FdIn(b, at, FdOf(o, data))
    BY <2>1, <2>3 DEF FdSize
  <2>5. /\ g.segment_meta_flag = 0 /\ g.crc_flag \in 0 .. 1
        /\ g.crc_flag = 0 => size <= at + (4 + Len(data))
        /\ g.crc_flag = 1 => size = (at + (4 + Len(data))) + 4
    BY <1>1, <2>4
  <2>6. /\ Understood(RecvFd(s, g), FdOf(o, data), size >= at + (4 + Len(data)))
        /\ RecvFd(s, g).ret = "CFE_SUCCESS" => RecvFd(s, g).body.data \in Seq(Octet)
    BY <1>2, <2>3, <2>4, <2>5, FileDataDecodes
  <2> QED
    BY <2>1, <2>2, <2>3, <2>4, <2>6, UnderstoodHandles
<1> QED
  BY <1>4, <1>5, <1>6, <1>7, <1>8, <1>9 DEF IsBody

-------------------------------------------------------------------------------
(* Receiving a message *)

LEMMA RejectedIs ==
  ASSUME NEW ret
  PROVE  Rejected(ret).ret = ret /\ Rejected(ret).h \in PduHeader
<1>1. NoHeader \in PduHeader
  BY DEF NoHeader, PduHeader
<1> QED
  BY <1>1 DEF Rejected, Nothing

LEMMA AnswerIs ==
  ASSUME NEW p, p.ret = "CFE_SUCCESS", p.h \in PduHeader, NEW d, d = Handled(p)
  PROVE  LET r == Dispatched(p)
         IN  /\ r.h \in PduHeader /\ r.ret = d.ret
             /\ d.ret = "CFE_SUCCESS" => r.h = p.h /\ r.code = p.code /\ r.body = d.body
<1>1. Dispatched(p) = IF d.ret # "CFE_SUCCESS" THEN Rejected(d.ret)
                      ELSE [ret |-> d.ret, h |-> p.h, code |-> p.code, body |-> d.body]
  BY DEF Dispatched, Answer
<1>2. CASE d.ret # "CFE_SUCCESS"
  BY <1>1, <1>2, RejectedIs
<1>3. CASE d.ret = "CFE_SUCCESS"
  BY <1>1, <1>3
<1> QED
  BY <1>2, <1>3

(* A message with the octets of a PDU, or the first of them; and what is   *)
(* made of it.                                                             *)
Bears(m, b, h, code, body, x, total) ==
  /\ Pdu(h, code, body) /\ PduIn(b, h, code, body) /\ m.size \in Nat
  /\ Agrees(m.base, b, h, x, m.size) /\ total = PduSize(h, code, body)
  /\ \/ x = 0 /\ m.size <= total
     \/ x = 2 /\ code = FileData /\ m.size = total + 4

Gives(r, h, code, body, x, whole) ==
  /\ r.h \in PduHeader
  /\ r.ret = "CFE_SUCCESS" =>
       /\ r.h = Decoded(h, x) /\ r.code = code /\ FarAsItGoes(r.body, body)
       /\ code = FileData => r.body.data \in Seq(Octet)
  /\ whole => IF TooLong(code, body) THEN r.ret = "CF_PDU_METADATA_ERROR"
              ELSE r.ret = "CFE_SUCCESS" /\ r.body = body

(* A message with the octets of a PDU, or the first of them, is understood *)
(* as that PDU or not at all.                                              *)
LEMMA PduReceived ==
  ASSUME NEW m, NEW b, NEW h, NEW code, NEW body, NEW x, NEW total,
         Bears(m, b, h, code, body, x, total)
  PROVE  Gives(Received(m), h, code, body, x, m.size >= total)
<1> SUFFICES ASSUME Pdu(h, code, body), PduIn(b, h, code, body), m.size \in Nat,
                    Agrees(m.base, b, h, x, m.size), total = PduSize(h, code, body),
                    \/ x = 0 /\ m.size <= total
                    \/ x = 2 /\ code = FileData /\ m.size = total + 4
             PROVE  LET r == Received(m)
                    IN  /\ r.h \in PduHeader
                        /\ r.ret = "CFE_SUCCESS" =>
                             /\ r.h = Decoded(h, x) /\ r.code = code /\ FarAsItGoes(r.body, body)
                             /\ code = FileData => r.body.data \in Seq(Octet)
                        /\ m.size >= total =>
                             IF TooLong(code, body) THEN r.ret = "CF_PDU_METADATA_ERROR"
                             ELSE r.ret = "CFE_SUCCESS" /\ r.body = body
  BY DEF Bears, Gives
<1>1. PICK size : size = m.size
  OBVIOUS
<1>2. PICK at, n : at = BodyAt(h) /\ n = BodySize(code, body)
  OBVIOUS
<1>3. at \in Nat /\ n \in Nat /\ total = at + n /\ size \in Nat
  <2>1. Sent(h) /\ n \in Nat
    BY <1>2 DEF Pdu
  <2>2. at \in 5 .. 17
    BY <1>2, <2>1, SentIs
  <2> QED
    BY <1>1, <1>2, <2>1, <2>2 DEF PduSize
<1>4. x \in 0 .. 3 /\ x % 2 = 0 /\ x \div 2 \in 0 .. 1 /\ (x = 0 => x \div 2 = 0)
      /\ (x = 2 => x \div 2 = 1)
  BY SMT
<1>5. PICK p : p = RecvPh(DecodeStart(m))
  OBVIOUS
<1>6. Received(m) = Dispatched(p)
  BY <1>5 DEF Received
<1>7. /\ at > size => p.ret = "CF_SHORT_PDU_ERROR"
      /\ at <= size => /\ p.ret = "CFE_SUCCESS" /\ p.h = Decoded(h, x) /\ p.code = code
                       /\ Decoder(p.s, b, size, at)
  BY <1>1, <1>2, <1>4, <1>5, PhReceived
<1>8. CASE at > size
  <2>1. p.ret = "CF_SHORT_PDU_ERROR" /\ ~(m.size >= total)
    BY <1>1, <1>3, <1>7, <1>8
  <2>2. Received(m) = Rejected("CF_SHORT_PDU_ERROR")
    BY <1>6, <2>1 DEF Dispatched
  <2>3. PICK r : r = Received(m)
    OBVIOUS
  <2>4. r.ret = "CF_SHORT_PDU_ERROR" /\ r.h \in PduHeader
    BY <2>2, <2>3, RejectedIs
  <2> QED
    BY <2>1, <2>3, <2>4
<1>9. CASE at <= size
  <2>1. /\ p.ret = "CFE_SUCCESS" /\ p.h = Decoded(h, x) /\ p.code = code
        /\ Decoder(p.s, b, size, at)
    BY <1>7, <1>9
  <2>2. /\ p.h \in PduHeader /\ p.h.pdu_type = h.pdu_type /\ p.h.crc_flag = x \div 2
        /\ p.h.segment_meta_flag = 0
    <3>1. Sent(h)
      BY DEF Pdu
    <3>2. x \in 0 .. 3
      BY <1>4
    <3>3. PICK g : g = Decoded(h, x)
      OBVIOUS
    <3>4. /\ g \in PduHeader /\ g.pdu_type = h.pdu_type /\ g.crc_flag = x \div 2
          /\ g.segment_meta_flag = 0
      BY <3>1, <3>2, <3>3, DecodedIs
    <3> QED
      BY <2>1, <3>3, <3>4
  <2>3. /\ IsBody(code, body) /\ BodyIn(b, at, code, body)
        /\ p.h.pdu_type = (IF code = FileData THEN 1 ELSE 0)
    BY <1>2, <2>2 DEF Pdu, PduIn
  <2>4. /\ p.h.crc_flag \in 0 .. 1 /\ (p.h.crc_flag = 0 => size <= at + n)
        /\ (p.h.crc_flag = 1 => code = FileData /\ size = (at + n) + 4)
    BY <1>1, <1>3, <1>4, <2>2
  <2>5. PICK d : d = Handled(p)
    OBVIOUS
  <2>6. Handles(d, code, body, size >= at + n)
    BY <1>2, <2>1, <2>2, <2>3, <2>4, <2>5, BodyDecodes
  <2> DEFINE r == Received(m)
  <2>7. /\ r.h \in PduHeader /\ r.ret = d.ret
        /\ d.ret = "CFE_SUCCESS" => r.h = p.h /\ r.code = p.code /\ r.body = d.body
    BY <1>6, <2>1, <2>2, <2>5, AnswerIs
  <2> HIDE DEF r
  <2>8. /\ d.ret = "CFE_SUCCESS" => /\ FarAsItGoes(d.body, body)
                                    /\ code = FileData => d.body.data \in Seq(Octet)
        /\ m.size >= total => IF TooLong(code, body) THEN d.ret = "CF_PDU_METADATA_ERROR"
                              ELSE d.ret = "CFE_SUCCESS" /\ d.body = body
    BY <1>1, <1>3, <2>6 DEF Handles
  <2>9. r.ret = "CFE_SUCCESS" => /\ r.h = Decoded(h, x) /\ r.code = code
                                 /\ FarAsItGoes(r.body, body)
                                 /\ code = FileData => r.body.data \in Seq(Octet)
    <3> SUFFICES ASSUME r.ret = "CFE_SUCCESS"
                 PROVE  /\ r.h = Decoded(h, x) /\ r.code = code
                        /\ FarAsItGoes(r.body, body)
                        /\ code = FileData => r.body.data \in Seq(Octet)
      OBVIOUS
    <3>1. d.ret = "CFE_SUCCESS" /\ r.h = p.h /\ r.code = p.code /\ r.body = d.body
      BY <2>7
    <3>2. FarAsItGoes(d.body, body) /\ (code = FileData => d.body.data \in Seq(Octet))
      BY <2>8, <3>1
    <3>3. r.h = Decoded(h, x) /\ r.code = code
      BY <2>1, <3>1
    <3>4. FarAsItGoes(r.body, body)
      BY <3>1, <3>2
    <3>5. r.body.data = d.body.data
      BY <3>1
    <3> QED
      BY <3>2, <3>3, <3>4, <3>5
  <2>10. m.size >= total => IF TooLong(code, body) THEN r.ret = "CF_PDU_METADATA_ERROR"
                            ELSE r.ret = "CFE_SUCCESS" /\ r.body = body
    BY <2>7, <2>8
  <2> QED
    BY <2>7, <2>9, <2>10 DEF r
<1> QED
  BY <1>3, <1>8, <1>9

(* A peer asks for 64-bit sizes.                                           *)
LEMMA LargeReceived ==
  ASSUME NEW m, NEW b, NEW h, NEW code, NEW body, Pdu(h, code, body), PduIn(b, h, code, body),
         m.size \in Nat, HeaderLength(h) <= m.size, Agrees(m.base, b, h, 1, m.size)
  PROVE  Received(m).ret = "CF_ERROR" /\ Received(m).h \in PduHeader
<1>1. PICK p, x : p = RecvPh(DecodeStart(m)) /\ x = 1
  OBVIOUS
<1>2. x \in 0 .. 3 /\ x % 2 = 1
  BY <1>1, SMT
<1>3. p.ret = "CF_ERROR"
  BY <1>1, <1>2, PhReceived
<1>4. Received(m) = Rejected("CF_ERROR")
  BY <1>1, <1>3 DEF Received, Dispatched
<1> QED
  BY <1>4, RejectedIs

(* A peer uses identifiers that are longer than what keeps them.           *)
LEMMA LongReceived ==
  ASSUME NEW m, m.size \in Nat, m.size >= 4, \A i \in 1 .. m.size : m.base[i] \in Octet,
         GetField(m.base[4], 3, 4) = 4
  PROVE  Received(m).ret = "CF_ERROR" /\ Received(m).h \in PduHeader
<1> DEFINE c == Decode(DecodeStart(m), HeaderSize)
           d == DecodeHeader(DecodeStart(m))
           f == FixedHeader(c.v)
<1>1. c.s.is_valid /\ c.v[4] = m.base[4]
  <2>1. m.size >= 4 => c.s.is_valid /\ \A i \in 1 .. 4 : c.v[i] = m.base[i]
    BY HeaderStart
  <2> HIDE DEF c
  <2>2. 4 \in 1 .. 4
    OBVIOUS
  <2> QED
    BY <2>1, <2>2
<1>2. d = DecodeIds(c.s, f)
  BY <1>1 DEF DecodeHeader
<1>3. f.eid_length = GetField(c.v[4], 3, 4) + 1
  BY DEF FixedHeader, NoHeader
<1> HIDE DEF c, d, f
<1>4. f.eid_length > EntityIdSize
  BY <1>1, <1>3 DEF EntityIdSize
<1>5. ~d.ok
  BY <1>2, <1>4 DEF DecodeIds
<1>6. PICK p : p = RecvPh(DecodeStart(m))
  OBVIOUS
<1>7. p = CheckedPh(d)
  BY <1>6 DEF RecvPh, d
<1>8. p.ret = "CF_ERROR"
  BY <1>5, <1>7 DEF CheckedPh
<1>9. Received(m) = Rejected("CF_ERROR")
  BY <1>6, <1>8 DEF Received, Dispatched
<1> QED
  BY <1>9, RejectedIs

-------------------------------------------------------------------------------
(* Messages under way *)

(* A message, and the PDU that it was meant to be.                         *)
Carries(w) ==
  /\ w = [base |-> w.base, how |-> w.how, size |-> w.size,
          ph |-> [h |-> w.ph.h, code |-> w.ph.code, body |-> w.ph.body, ok |-> w.ph.ok]]
  /\ w.ph.ok = TRUE /\ Pdu(w.ph.h, w.ph.code, w.ph.body) /\ w.size \in Nat

Total(w) == PduSize(w.ph.h, w.ph.code, w.ph.body)

(* Its octets are those of the PDU in the buffer b, with the flags x.      *)
Copies(w, b, x) ==
  /\ PduIn(b, w.ph.h, w.ph.code, w.ph.body) /\ Agrees(w.base, b, w.ph.h, x, w.size)

WholeOn(w, b) ==
  /\ w.how = "whole" /\ Copies(w, b, 0) /\ w.size = Total(w) /\ w.size <= MaxPduSize
  /\ w.base \in [1 .. MaxPduSize -> Octet]
  /\ w.ph.h.data_encoded_length = w.size - HeaderLength(w.ph.h)

CutOn(w, b) == w.how = "cut" /\ Copies(w, b, 0) /\ w.size <= Total(w)

CrcOn(w, b) == w.how = "crc" /\ Copies(w, b, 2) /\ w.ph.code = FileData /\ w.size = Total(w) + 4

LargeOn(w, b) == w.how = "unsupported" /\ Copies(w, b, 1) /\ HeaderLength(w.ph.h) <= w.size

LongOn(w) ==
  /\ w.how = "unsupported" /\ w.size >= 4 /\ GetField(w.base[4], 3, 4) = 4
  /\ \A i \in 1 .. w.size : w.base[i] \in Octet

(* Every message under way is one of these.                                *)
OnWire(w) ==
  /\ Carries(w)
  /\ LongOn(w) \/ \E b : WholeOn(w, b) \/ CutOn(w, b) \/ CrcOn(w, b) \/ LargeOn(w, b)

LEMMA TotalIs ==
  ASSUME NEW w, Carries(w)
  PROVE  /\ Total(w) \in Nat /\ HeaderLength(w.ph.h) \in 7 .. 16
         /\ HeaderLength(w.ph.h) <= Total(w)
<1>1. PICK h, n : h = w.ph.h /\ n = BodySize(w.ph.code, w.ph.body)
  OBVIOUS
<1>2. Sent(h) /\ n \in Nat /\ Total(w) = BodyAt(h) + n
  BY <1>1 DEF Carries, Pdu, Total, PduSize
<1>3. HeaderLength(h) \in 7 .. 16 /\ BodyAt(h) \in HeaderLength(h) .. 17
  BY <1>2, SentIs
<1>4. PICK l, a, t : l = HeaderLength(h) /\ a = BodyAt(h) /\ t = Total(w)
  OBVIOUS
<1>5. t \in Nat /\ l \in 7 .. 16 /\ l <= t
  BY <1>2, <1>3, <1>4
<1> QED
  BY <1>1, <1>4, <1>5

LEMMA CarriesIs ==
  ASSUME NEW w, Carries(w)
  PROVE  /\ w = [base |-> w.base, how |-> w.how, size |-> w.size, ph |-> w.ph]
         /\ w.ph = [h |-> w.ph.h, code |-> w.ph.code, body |-> w.ph.body, ok |-> w.ph.ok]
<1>1. PICK p : p = [h |-> w.ph.h, code |-> w.ph.code, body |-> w.ph.body, ok |-> w.ph.ok]
  OBVIOUS
<1>2. w = [base |-> w.base, how |-> w.how, size |-> w.size, ph |-> p]
  BY <1>1 DEF Carries
<1>3. w.ph = p
  BY <1>2
<1> QED
  BY <1>1, <1>2, <1>3

LEMMA CarriesStill ==
  ASSUME NEW w, Carries(w), NEW c, NEW how, NEW k \in Nat, NEW v,
         v = [base |-> c, how |-> how, size |-> k, ph |-> w.ph]
  PROVE  Carries(v)
<1>1. PICK p : p = w.ph
  OBVIOUS
<1>2. v.base = c /\ v.how = how /\ v.size = k /\ v.ph = p
  BY <1>1
<1>3. /\ p = [h |-> p.h, code |-> p.code, body |-> p.body, ok |-> p.ok]
      /\ p.ok = TRUE /\ Pdu(p.h, p.code, p.body)
  BY <1>1, CarriesIs DEF Carries
<1>4. v = [base |-> v.base, how |-> v.how, size |-> v.size,
           ph |-> [h |-> v.ph.h, code |-> v.ph.code, body |-> v.ph.body, ok |-> v.ph.ok]]
  BY <1>1, <1>2, <1>3
<1> QED
  BY <1>2, <1>3, <1>4 DEF Carries

LEMMA OnWireHow ==
  ASSUME NEW w, OnWire(w)
  PROVE  w.how \in {"whole", "cut", "crc", "unsupported"}
BY DEF OnWire, WholeOn, CutOn, CrcOn, LargeOn, LongOn

LEMMA OnWireOctets ==
  ASSUME NEW w, OnWire(w)
  PROVE  \A i \in 1 .. w.size : w.base[i] \in Octet
BY DEF OnWire, WholeOn, CutOn, CrcOn, LargeOn, LongOn, Copies, Agrees

LEMMA OnWireWhole ==
  ASSUME NEW w, OnWire(w), w.how = "whole"
  PROVE  \E b : WholeOn(w, b)
BY DEF OnWire, CutOn, CrcOn, LargeOn, LongOn

LEMMA SentOn ==
  ASSUME NEW p, PduBuilt(p), NEW q, q = SetPduLength(p)
  PROVE  OnWire([base |-> q.s.base, how |-> "whole",
                 size |-> q.h.header_encoded_length + q.h.data_encoded_length,
                 ph   |-> [h |-> q.h, code |-> q.code, body |-> q.body, ok |-> p.s.is_valid]])
<1>1. PICK total, l, b : /\ total = PduSize(q.h, q.code, q.body) /\ l = HeaderLength(q.h)
                         /\ b = p.s.base
  OBVIOUS
<1>2. /\ Pdu(q.h, q.code, q.body) /\ PduIn(b, q.h, q.code, q.body)
      /\ total \in l .. MaxPduSize
      /\ q.h.header_encoded_length + q.h.data_encoded_length = total
      /\ q.h.data_encoded_length = total - l
      /\ q.s.base \in [1 .. MaxPduSize -> Octet]
      /\ Agrees(q.s.base, b, q.h, 0, total) /\ p.s.is_valid
  BY <1>1, LengthSet
<1>3. PICK w : w = [base |-> q.s.base, how |-> "whole",
                    size |-> q.h.header_encoded_length + q.h.data_encoded_length,
                    ph |-> [h |-> q.h, code |-> q.code, body |-> q.body, ok |-> p.s.is_valid]]
  OBVIOUS
<1>4. p.s.is_valid = TRUE
  <2>1. p.s \in Codecs(p.s.base)
    BY DEF PduBuilt, Encoder
  <2> QED
    BY <1>2, <2>1 DEF Codecs
<1>5. /\ w.base = q.s.base /\ w.how = "whole" /\ w.size = total /\ w.ph.h = q.h
      /\ w.ph.code = q.code /\ w.ph.body = q.body /\ w.ph.ok = TRUE
  BY <1>2, <1>3, <1>4
<1>6. w = [base |-> w.base, how |-> w.how, size |-> w.size,
           ph |-> [h |-> w.ph.h, code |-> w.ph.code, body |-> w.ph.body, ok |-> w.ph.ok]]
  BY <1>3
<1>7. total \in Nat /\ total <= MaxPduSize
  <2>1. Sent(q.h)
    BY <1>2 DEF Pdu
  <2>2. l \in 7 .. 16 /\ MaxPduSize \in Nat
    BY <1>1, <2>1, SentIs, RoomForHeaders
  <2> QED
    BY <1>2, <2>2
<1>8. Carries(w)
  BY <1>2, <1>5, <1>6, <1>7 DEF Carries
<1>9. WholeOn(w, b)
  BY <1>1, <1>2, <1>5, <1>7 DEF WholeOn, Copies, Total
<1> QED
  BY <1>3, <1>8, <1>9 DEF OnWire

(* Cutting it short.                                                       *)
LEMMA CutStays ==
  ASSUME NEW w, OnWire(w), w.how = "whole", NEW n \in Nat, n <= w.size
  PROVE  OnWire([w EXCEPT !.size = @ - n, !.how = "cut",
                   !.base = [i \in DOMAIN @ |-> IF i > w.size - n THEN Junk ELSE @[i]]])
<1>1. PICK b : WholeOn(w, b)
  BY OnWireWhole
<1>2. PICK size, k : size = w.size /\ k = w.size - n
  OBVIOUS
<1>3. /\ Carries(w) /\ size \in Nat /\ k \in Nat /\ k <= size /\ size = Total(w)
      /\ size <= MaxPduSize /\ MaxPduSize \in Nat /\ DOMAIN w.base = 1 .. MaxPduSize
  BY <1>1, <1>2, RoomForHeaders DEF WholeOn, OnWire, Carries
<1>4. PICK c : c = [i \in DOMAIN w.base |-> IF i > k THEN Junk ELSE w.base[i]]
  OBVIOUS
<1>5. PICK v : v = [base |-> c, how |-> "cut", size |-> k, ph |-> w.ph]
  OBVIOUS
<1>6. v.base = c /\ v.how = "cut" /\ v.size = k /\ v.ph = w.ph
  BY <1>5
<1>7. Carries(v)
  BY <1>3, <1>5, CarriesStill
<1>8. \A i \in 1 .. k : c[i] = w.base[i] /\ i \in 1 .. size
  BY <1>3, <1>4
<1>9. Agrees(c, b, w.ph.h, 0, k)
  <2>1. Agrees(w.base, b, w.ph.h, 0, size)
    BY <1>1, <1>2 DEF WholeOn, Copies
  <2>2. ASSUME NEW i \in 1 .. k, i = 3 PROVE c[2] = w.base[2] /\ c[3] = w.base[3]
    <3>1. 2 \in 1 .. k /\ 3 \in 1 .. k
      BY <1>3, <2>2
    <3> QED
      BY <1>8, <3>1
  <2> QED
    BY <1>8, <2>1, <2>2 DEF Agrees
<1>10. CutOn(v, b)
  <2>1. Total(v) = Total(w)
    BY <1>6 DEF Total
  <2>2. PduIn(b, w.ph.h, w.ph.code, w.ph.body)
    BY <1>1 DEF WholeOn, Copies
  <2> QED
    BY <1>3, <1>6, <1>9, <2>1, <2>2 DEF CutOn, Copies
<1>11. v = [w EXCEPT !.size = @ - n, !.how = "cut",
                !.base = [i \in DOMAIN @ |-> IF i > w.size - n THEN Junk ELSE @[i]]]
  <2>1. w = [base |-> w.base, how |-> w.how, size |-> w.size, ph |-> w.ph]
    BY <1>3, CarriesIs
  <2>2. v = [w EXCEPT !.size = k, !.how = "cut", !.base = c]
    <3>1. PICK g : g = [w EXCEPT !.size = k, !.how = "cut", !.base = c]
      OBVIOUS
    <3>2. g = [base |-> c, how |-> "cut", size |-> k, ph |-> w.ph]
      BY <2>1, <3>1
    <3> QED
      BY <1>5, <3>1, <3>2
  <2>3. w.size - n = k /\ [i \in DOMAIN w.base |-> IF i > w.size - n THEN Junk ELSE w.base[i]] = c
    BY <1>2, <1>4
  <2> QED
    BY <2>2, <2>3
<1> QED
  BY <1>7, <1>10, <1>11 DEF OnWire

LEMMA BaseChanged ==
  ASSUME NEW w, Carries(w), NEW c, NEW how
  PROVE  [w EXCEPT !.base = c, !.how = how]
            = [base |-> c, how |-> how, size |-> w.size, ph |-> w.ph]
<1>1. w = [base |-> w.base, how |-> w.how, size |-> w.size, ph |-> w.ph]
  BY CarriesIs
<1>2. PICK g : g = [w EXCEPT !.base = c, !.how = how]
  OBVIOUS
<1>3. g = [base |-> c, how |-> how, size |-> w.size, ph |-> w.ph]
  BY <1>1, <1>2
<1> QED
  BY <1>2, <1>3

Resized(w, c, k, how) == [w EXCEPT !.base = c, !.size = k, !.how = how]
Message(c, k, how, ph) == [base |-> c, how |-> how, size |-> k, ph |-> ph]

LEMMA SizeChanged ==
  ASSUME NEW w, Carries(w), NEW c, NEW k, NEW how
  PROVE  Resized(w, c, k, how) = Message(c, k, how, w.ph)
<1>1. w = [base |-> w.base, how |-> w.how, size |-> w.size, ph |-> w.ph]
  BY CarriesIs
<1>2. PICK f : f = [w EXCEPT !.base = c, !.size = k, !.how = how]
  OBVIOUS
<1>3. f = [base |-> c, how |-> how, size |-> k, ph |-> w.ph]
  BY <1>1, <1>2
<1> QED
  BY <1>2, <1>3 DEF Resized, Message

LEMMA FlagsWith ==
  ASSUME NEW h, Sent(h), NEW x \in 0 .. 3
  PROVE  HeaderFlags(h) + x \in Octet
<1>1. /\ h.version \in 0 .. 7 /\ h.pdu_type \in 0 .. 1 /\ h.direction \in 0 .. 1
      /\ h.txm_mode \in 0 .. 1
  BY DEF Sent, PduHeader
<1> QED
  BY <1>1, FlagsAre DEF HeaderFlags

LEMMA FlagSet ==
  ASSUME NEW c, NEW x, NEW n \in Nat, n >= 1, 1 .. n \subseteq DOMAIN c
  PROVE  /\ SetFlag(c, x)[1] = c[1] + x
         /\ \A i \in 2 .. n : SetFlag(c, x)[i] = c[i]
<1>1. 1 \in DOMAIN c /\ \A i \in 2 .. n : i \in DOMAIN c /\ i # 1
  OBVIOUS
<1> QED
  BY <1>1 DEF SetFlag

LEMMA AgreesWith ==
  ASSUME NEW c, NEW base, NEW b, NEW h, Sent(h), NEW x \in 0 .. 3, NEW n \in Nat,
         Agrees(base, b, h, 0, n), c[1] = base[1] + x, \A i \in 2 .. n : c[i] = base[i]
  PROVE  Agrees(c, b, h, x, n)
<1>1. PICK f : f = HeaderFlags(h)
  OBVIOUS
<1>2. f + x \in Octet /\ f + 0 \in Octet
  BY <1>1, FlagsWith
<1>3. f \in Nat
  <2>1. HeaderFlags(h) \in Octet
    BY SentIs, HeaderOctetsAre
  <2> QED
    BY <1>1, <2>1 DEF Octet
<1> SUFFICES ASSUME NEW i \in 1 .. n
             PROVE  /\ c[i] \in Octet /\ b[i] \in Octet
                    /\ i = 1 => c[i] = f + x
                    /\ i = 3 => c[2] * 256 + c[3] = h.data_encoded_length
                    /\ i >= 4 => c[i] = b[i]
  BY <1>1 DEF Agrees
<1>4. /\ base[i] \in Octet /\ b[i] \in Octet
      /\ i = 1 => base[i] = f + 0
      /\ i = 3 => base[2] * 256 + base[3] = h.data_encoded_length
      /\ i >= 4 => base[i] = b[i]
  BY <1>1 DEF Agrees
<1>5. CASE i = 1
  BY <1>2, <1>3, <1>4, <1>5
<1>6. CASE i # 1
  <2>1. i \in 2 .. n /\ (i = 3 => 2 \in 2 .. n /\ 3 \in 2 .. n)
    BY <1>6
  <2>2. c[i] = base[i] /\ (i = 3 => c[2] = base[2] /\ c[3] = base[3])
    BY <2>1
  <2> QED
    BY <1>4, <1>6, <2>2
<1> QED
  BY <1>5, <1>6

(* 64-bit sizes                                                            *)
LEMMA LargeStays ==
  ASSUME NEW w, OnWire(w), w.how = "whole"
  PROVE  OnWire([w EXCEPT !.base = SetFlag(@, 1), !.how = "unsupported"])
<1>1. PICK b : WholeOn(w, b)
  BY OnWireWhole
<1>2. Carries(w)
  BY DEF OnWire
<1>3. PICK c, n, h : c = SetFlag(w.base, 1) /\ n = w.size /\ h = w.ph.h
  OBVIOUS
<1>4. PICK v : v = [base |-> c, how |-> "unsupported", size |-> n, ph |-> w.ph]
  OBVIOUS
<1>5. [w EXCEPT !.base = SetFlag(@, 1), !.how = "unsupported"] = v
  <2>1. PICK how : how = "unsupported"
    OBVIOUS
  <2>2. [w EXCEPT !.base = c, !.how = how] = [base |-> c, how |-> how, size |-> w.size, ph |-> w.ph]
    BY <1>2, BaseChanged
  <2> QED
    BY <1>3, <1>4, <2>1, <2>2
<1>6. n \in Nat /\ Sent(h)
  BY <1>2, <1>3 DEF Carries, Pdu
<1>7. Carries(v)
  BY <1>2, <1>4, <1>6, CarriesStill
<1>8. /\ v.base = c /\ v.how = "unsupported" /\ v.size = n /\ v.ph = w.ph
  BY <1>4
<1>9. HeaderLength(h) \in 7 .. 16 /\ HeaderLength(h) <= n /\ n <= MaxPduSize
      /\ DOMAIN w.base = 1 .. MaxPduSize /\ MaxPduSize \in Nat
  BY <1>1, <1>2, <1>3, TotalIs, RoomForHeaders DEF WholeOn
<1>10. n >= 1 /\ 1 .. n \subseteq DOMAIN w.base
  <2>1. \A l \in 7 .. 16 : l <= n => n >= 1
    BY <1>6
  <2> QED
    BY <1>6, <1>9, <2>1
<1>11. c[1] = w.base[1] + 1 /\ \A i \in 2 .. n : c[i] = w.base[i]
  BY <1>3, <1>6, <1>10, FlagSet
<1>12. Agrees(c, b, h, 1, n)
  <2>1. PICK x : x = 1
    OBVIOUS
  <2>2. x \in 0 .. 3 /\ c[1] = w.base[1] + x /\ Agrees(w.base, b, h, 0, n)
    BY <1>1, <1>3, <1>11, <2>1 DEF WholeOn, Copies
  <2>3. Agrees(c, b, h, x, n)
    BY <1>6, <1>11, <2>2, AgreesWith
  <2> QED
    BY <2>1, <2>3
<1>13. LargeOn(v, b)
  <2>1. PduIn(b, w.ph.h, w.ph.code, w.ph.body)
    BY <1>1 DEF WholeOn, Copies
  <2> QED
    BY <1>3, <1>8, <1>9, <1>12, <2>1 DEF LargeOn, Copies
<1> QED
  BY <1>5, <1>7, <1>13 DEF OnWire

(* File data stays where it was.                                           *)
LEMMA FileDataKept ==
  ASSUME NEW h, NEW body, Pdu(h, FileData, body), NEW b, NEW d, PduIn(b, h, FileData, body),
         NEW n, n = PduSize(h, FileData, body), Keeps(d, b, n)
  PROVE  PduIn(d, h, FileData, body)
<1>1. PICK at, m, u : at = BodyAt(h) /\ m = Len(body.data) /\ u = Octets(body.offset, 4)
  OBVIOUS
<1>2. /\ Sent(h) /\ body \in FilePieces /\ h.pdu_type = 1
      /\ HeaderIn(b, h) /\ FdIn(b, at, body)
  <2>1. IsBody(FileData, body) /\ Sent(h) /\ h.pdu_type = 1
    BY DEF Pdu
  <2> QED
    BY <1>1, <2>1, BodyCodes DEF PduIn, BodyIn
<1>3. /\ body.data \in Seq(Octet) /\ u \in Seq(Octet) /\ Len(u) = 4 /\ m \in Nat
  <2>1. body.offset \in Numbers32 /\ body.data \in Seq(Octet)
    BY <1>2, FilePiecesAre
  <2> QED
    BY <1>1, <2>1, FourOctets, LenProperties
<1>4. Holds(b, at, u) /\ Holds(b, at + 4, body.data)
  BY <1>1, <1>2 DEF FdIn
<1>5. PICK l : l = HeaderLength(h)
  OBVIOUS
<1>6. at \in 5 .. 17 /\ l \in 7 .. 16 /\ at = l /\ Encodable(h)
  BY <1>1, <1>2, <1>5, SentIs DEF BodyAt
<1>7. n = at + (4 + m)
  BY <1>1, BodySizeIs DEF PduSize, FdSize
<1>8. /\ at \in Nat /\ l \in Nat /\ n \in Nat /\ l <= n /\ at + 4 \in Nat /\ at + Len(u) <= n
      /\ (at + 4) + Len(body.data) <= n
  <2>1. /\ at \in Nat /\ l \in Nat /\ at = l /\ m \in Nat /\ n = at + (4 + m) /\ Len(u) = 4
        /\ Len(body.data) = m
    BY <1>1, <1>3, <1>6, <1>7
  <2> QED
    BY <2>1
<1>9. Holds(d, at, u) /\ Holds(d, at + 4, body.data)
  BY <1>3, <1>4, <1>8, HoldsKept
<1>10. HeaderIn(d, h)
  <2>1. Keeps(d, b, l)
    BY <1>8 DEF Keeps
  <2>2. HeaderLength(h) <= l
    BY <1>5, <1>8
  <2> QED
    BY <1>2, <1>6, <1>8, <2>1, <2>2, KeptHeaderIn
<1>11. FdIn(d, at, body)
  BY <1>1, <1>9 DEF FdIn
<1>12. CodeIn(d, h, FileData)
  BY <1>2 DEF CodeIn
<1> QED
  BY <1>1, <1>10, <1>11, <1>12, CodesAre DEF PduIn, BodyIn

(* The first octets of a buffer                                            *)
LEMMA FirstOctets ==
  ASSUME NEW q, NEW m \in Nat, m >= 1, \A i \in 1 .. m : q[i] \in Octet
  PROVE  /\ SubSeq(q, 1, m) \in Seq(Octet) /\ Len(SubSeq(q, 1, m)) = m
         /\ \A i \in 1 .. m : SubSeq(q, 1, m)[i] = q[i]
<1>1. PICK s : s = SubSeq(q, 1, m)
  OBVIOUS
<1>2. /\ s \in Seq(Octet) /\ Len(s) = (IF 1 <= m THEN m - 1 + 1 ELSE 0)
      /\ \A i \in 1 .. m - 1 + 1 : s[i] = q[1 + i - 1]
  <2>1. 1 \in Int /\ m \in Int
    OBVIOUS
  <2> QED
    BY <1>1, <2>1, SubSeqProperties
<1>3. /\ (IF 1 <= m THEN m - 1 + 1 ELSE 0) = m /\ m - 1 + 1 = m
      /\ \A i \in 1 .. m : 1 + i - 1 = i
  OBVIOUS
<1> QED
  BY <1>1, <1>2, <1>3

(* A CRC of the PDU behind file data                                       *)
LEMMA CrcStays ==
  ASSUME NEW w, OnWire(w), w.how = "whole", w.ph.code = FileData
  PROVE  OnWire([w EXCEPT !.base = SetFlag(SubSeq(@, 1, w.size) \o <<1, 2, 3, 4>>, 2),
                          !.size = @ + 4, !.how = "crc"])
<1>1. PICK b : WholeOn(w, b)
  BY OnWireWhole
<1>2. Carries(w)
  BY DEF OnWire
<1>3. PICK base, n, h, body : base = w.base /\ n = w.size /\ h = w.ph.h /\ body = w.ph.body
  OBVIOUS
<1>4. PICK s, t : s = SubSeq(base, 1, n) /\ t = <<1, 2, 3, 4>>
  OBVIOUS
<1>5. PICK u : u = s \o t
  OBVIOUS
<1>6. PICK c, k : c = SetFlag(u, 2) /\ k = n + 4
  OBVIOUS
<1>7. PICK v : v = [base |-> c, how |-> "crc", size |-> k, ph |-> w.ph]
  OBVIOUS
<1>8. [w EXCEPT !.base = SetFlag(SubSeq(@, 1, w.size) \o <<1, 2, 3, 4>>, 2),
                !.size = @ + 4, !.how = "crc"] = v
  <2>1. PICK how : how = "crc"
    OBVIOUS
  <2>2. [w EXCEPT !.base = c, !.size = k, !.how = how]
          = [base |-> c, how |-> how, size |-> k, ph |-> w.ph]
    <3>1. Resized(w, c, k, how) = Message(c, k, how, w.ph)
      BY <1>2, SizeChanged
    <3> QED
      BY <3>1 DEF Resized, Message
  <2>3. SetFlag(SubSeq(w.base, 1, w.size) \o <<1, 2, 3, 4>>, 2) = c /\ w.size + 4 = k
    BY <1>3, <1>4, <1>5, <1>6
  <2> QED
    BY <1>7, <2>1, <2>2, <2>3
<1>9. /\ n \in Nat /\ k \in Nat /\ n <= MaxPduSize /\ MaxPduSize \in Nat /\ n >= 7
      /\ base \in [1 .. MaxPduSize -> Octet] /\ Agrees(base, b, h, 0, n) /\ Sent(h)
      /\ Pdu(h, FileData, body) /\ PduIn(b, h, FileData, body) /\ n = PduSize(h, FileData, body)
  <2>1. HeaderLength(h) \in 7 .. 16 /\ HeaderLength(h) <= Total(w) /\ Total(w) = n
    BY <1>1, <1>2, <1>3, TotalIs DEF WholeOn
  <2>2. n \in Nat /\ Pdu(h, FileData, body) /\ Sent(h)
    BY <1>2, <1>3 DEF Carries, Pdu
  <2>3. n >= 7
    BY <2>1, <2>2
  <2>4. k \in Nat
    BY <1>6, <2>2
  <2>5. /\ base \in [1 .. MaxPduSize -> Octet] /\ Agrees(base, b, h, 0, n)
        /\ PduIn(b, h, FileData, body) /\ n <= MaxPduSize /\ n = PduSize(h, FileData, body)
    BY <1>1, <1>3 DEF WholeOn, Copies, Total
  <2> QED
    BY <2>2, <2>3, <2>4, <2>5, RoomForHeaders
<1>10. s \in Seq(Octet) /\ Len(s) = n /\ \A i \in 1 .. n : s[i] = base[i]
  <2>1. \A i \in 1 .. n : base[i] \in Octet
    BY <1>9
  <2>2. /\ s \in Seq(Octet) /\ Len(s) = (IF 1 <= n THEN n - 1 + 1 ELSE 0)
        /\ \A i \in 1 .. n - 1 + 1 : s[i] = base[1 + i - 1]
    <3>1. 1 \in Int /\ n \in Int
      BY <1>9
    <3> QED
      BY <1>4, <2>1, <3>1, SubSeqProperties
  <2>3. /\ (IF 1 <= n THEN n - 1 + 1 ELSE 0) = n /\ n - 1 + 1 = n
        /\ \A i \in 1 .. n : 1 + i - 1 = i
    BY <1>9
  <2> QED
    BY <2>2, <2>3
<1>11. t \in Seq(Octet) /\ Len(t) = 4
  <2>1. 1 \in Octet /\ 2 \in Octet /\ 3 \in Octet /\ 4 \in Octet
    BY DEF Octet
  <2> QED
    BY <1>4, <2>1
<1>12. /\ u \in Seq(Octet) /\ Len(u) = k /\ DOMAIN u = 1 .. k
       /\ \A i \in 1 .. n : u[i] = base[i]
       /\ \A i \in 1 .. k : u[i] \in Octet
  <2>1. /\ u \in Seq(Octet) /\ Len(u) = Len(s) + Len(t)
        /\ \A i \in 1 .. Len(s) + Len(t) : u[i] = IF i <= Len(s) THEN s[i] ELSE t[i - Len(s)]
    BY <1>5, <1>10, <1>11, ConcatProperties
  <2>2. Len(u) = k
    BY <1>6, <1>10, <1>11, <2>1
  <2>3. DOMAIN u = 1 .. k
    BY <2>1, <2>2, LenProperties
  <2>4. ASSUME NEW i \in 1 .. n PROVE u[i] = base[i]
    <3>1. i \in 1 .. Len(s) + Len(t) /\ i <= Len(s)
      BY <1>9, <1>10, <1>11
    <3> QED
      BY <1>10, <2>1, <3>1
  <2>5. \A i \in 1 .. k : u[i] \in Octet
    BY <2>1, <2>2, ElementOfSeq
  <2> QED
    BY <2>1, <2>2, <2>3, <2>4, <2>5
<1>13. c[1] = base[1] + 2 /\ \A i \in 2 .. k : c[i] = u[i]
  <2>1. k >= 1 /\ 1 .. k \subseteq DOMAIN u /\ 1 \in 1 .. n
    BY <1>6, <1>9, <1>12
  <2>2. c[1] = u[1] + 2 /\ \A i \in 2 .. k : c[i] = u[i]
    BY <1>6, <1>9, <2>1, FlagSet, SMTT(60)
  <2> QED
    BY <1>12, <2>1, <2>2
<1>14. Agrees(c, b, h, 2, n)
  <2>1. PICK x : x = 2
    OBVIOUS
  <2>2. \A i \in 2 .. n : c[i] = base[i]
    <3> SUFFICES ASSUME NEW i \in 2 .. n PROVE c[i] = base[i]
      OBVIOUS
    <3>1. i \in 2 .. k /\ i \in 1 .. n
      BY <1>6, <1>9
    <3> QED
      BY <1>12, <1>13, <3>1
  <2>3. x \in 0 .. 3 /\ c[1] = base[1] + x
    BY <1>13, <2>1
  <2>4. Agrees(c, b, h, x, n)
    BY <1>9, <2>2, <2>3, AgreesWith
  <2> QED
    BY <2>1, <2>4
<1>15. PICK d : d = [i \in 1 .. k |-> IF i <= n THEN b[i] ELSE c[i]]
  OBVIOUS
<1>16. /\ \A i \in 1 .. n : d[i] = b[i]
       /\ \A i \in 1 .. k : ~(i <= n) => d[i] = c[i] /\ c[i] \in Octet /\ i # 1 /\ i # 3
  <2>1. ASSUME NEW i \in 1 .. n PROVE d[i] = b[i]
    <3>1. i \in 1 .. k /\ i <= n
      BY <1>6, <1>9
    <3> QED
      BY <1>15, <3>1
  <2>2. ASSUME NEW i \in 1 .. k, ~(i <= n) PROVE d[i] = c[i] /\ c[i] \in Octet /\ i # 1 /\ i # 3
    <3>1. i \in 2 .. k /\ i # 1 /\ i # 3
      BY <1>9, <2>2
    <3>2. c[i] = u[i] /\ u[i] \in Octet
      BY <1>12, <1>13, <3>1
    <3> QED
      BY <1>15, <2>2, <3>1, <3>2
  <2> QED
    BY <2>1, <2>2
<1>17. PduIn(d, h, FileData, body)
  <2>1. Keeps(d, b, n)
    BY <1>16 DEF Keeps
  <2> QED
    BY <1>9, <2>1, FileDataKept
<1>18. Agrees(c, d, h, 2, k)
  <2> SUFFICES ASSUME NEW i \in 1 .. k
               PROVE  /\ c[i] \in Octet /\ d[i] \in Octet
                      /\ i = 1 => c[i] = HeaderFlags(h) + 2
                      /\ i = 3 => c[2] * 256 + c[3] = h.data_encoded_length
                      /\ i >= 4 => c[i] = d[i]
    BY DEF Agrees
  <2>1. CASE i <= n
    <3>1. i \in 1 .. n
      BY <1>9, <2>1
    <3>2. d[i] = b[i]
      BY <1>16, <3>1
    <3> QED
      BY <1>14, <3>1, <3>2 DEF Agrees
  <2>2. CASE ~(i <= n)
    BY <1>16, <2>2
  <2> QED
    BY <2>1, <2>2
<1>19. v.base = c /\ v.how = "crc" /\ v.size = k /\ v.ph = w.ph
  BY <1>7
<1>20. Carries(v)
  BY <1>2, <1>7, <1>9, CarriesStill
<1>21. CrcOn(v, d)
  <2>1. Copies(v, d, 2)
    BY <1>3, <1>17, <1>18, <1>19 DEF Copies
  <2>2. v.size = Total(v) + 4 /\ v.ph.code = FileData
    BY <1>3, <1>6, <1>9, <1>19 DEF Total
  <2> QED
    BY <1>19, <2>1, <2>2 DEF CrcOn
<1> QED
  BY <1>8, <1>20, <1>21 DEF OnWire

(* Identifiers of more octets                                              *)
LEMMA LongStays ==
  ASSUME NEW w, OnWire(w), w.how = "whole", NEW g, g = w.ph.h,
         NEW e, e = EncodeHeaderWithoutSize(EncodeStart, [g EXCEPT !.eid_length = EntityIdSize + 1])
  PROVE  OnWire([w EXCEPT !.base = SubSeq(e.s.base, 1, e.h.header_encoded_length)
                                     \o SubSeq(@, g.header_encoded_length + 1, w.size),
                          !.size = @ - g.header_encoded_length + e.h.header_encoded_length,
                          !.how = "unsupported"])
<1>1. PICK b : WholeOn(w, b)
  BY OnWireWhole
<1>2. Carries(w)
  BY DEF OnWire
<1>3. PICK base, n, h : base = w.base /\ n = w.size /\ h = [g EXCEPT !.eid_length = EntityIdSize + 1]
  OBVIOUS
<1>4. PICK l, m : l = HeaderLength(g) /\ m = HeaderLength(h)
  OBVIOUS
<1>5. /\ n \in Nat /\ n <= MaxPduSize /\ MaxPduSize \in Nat /\ MaxPduSize >= 32
      /\ base \in [1 .. MaxPduSize -> Octet] /\ Sent(g) /\ l \in 7 .. 16 /\ l <= n
  <2>1. l \in 7 .. 16 /\ l <= Total(w) /\ Total(w) = n
    BY <1>1, <1>2, <1>3, <1>4, TotalIs DEF WholeOn
  <2>2. n \in Nat /\ Sent(g)
    BY <1>2, <1>3 DEF Carries, Pdu
  <2>3. base \in [1 .. MaxPduSize -> Octet] /\ n <= MaxPduSize
    BY <1>1, <1>3 DEF WholeOn
  <2> QED
    BY <2>1, <2>2, <2>3, RoomForHeaders
<1>6. /\ Encodable(h) /\ h.eid_length = 5 /\ h.txn_seq_length \in 1 .. 4
      /\ h.segmentation_control \in 0 .. 1 /\ h.segment_meta_flag \in 0 .. 1
  <2>1. g \in PduHeader /\ g.txn_seq_length \in 1 .. 4
    BY <1>5, SentIs
  <2>2. EntityIdSize + 1 = 5 /\ 5 \in 0 .. 8
    BY DEF EntityIdSize
  <2>3. h = [g EXCEPT !.eid_length = 5]
    BY <1>3, <2>2
  <2>4. h \in PduHeader /\ h.eid_length = 5 /\ h.txn_seq_length = g.txn_seq_length
    BY <2>1, <2>2, <2>3 DEF PduHeader
  <2>5. h.segmentation_control \in 0 .. 1 /\ h.segment_meta_flag \in 0 .. 1
    BY <2>4 DEF PduHeader
  <2> QED
    BY <2>1, <2>4, <2>5 DEF Encodable
<1>7. m \in 15 .. 18
  <2>1. PICK x : x = h.txn_seq_length
    OBVIOUS
  <2>2. m = 4 + (2 * 5 + x) /\ x \in 1 .. 4
    BY <1>4, <1>6, <2>1 DEF HeaderLength
  <2> QED
    BY <2>2
<1>8. /\ Encoder(e.s, m) /\ e.s.base[4] = HeaderLengths(h)
      /\ e.h = [h EXCEPT !.header_encoded_length = m]
  BY <1>3, <1>4, <1>6, HeaderEncodes
<1>9. e.h.header_encoded_length = m
  <2>1. h \in PduHeader /\ m \in Nat
    BY <1>6, <1>7 DEF Encodable
  <2> QED
    <3>1. PICK f : f = [h EXCEPT !.header_encoded_length = m]
      OBVIOUS
    <3>2. f.header_encoded_length = m
      BY <2>1, <3>1, LengthKept
    <3> QED
      BY <1>8, <3>1, <3>2
<1>10. g.header_encoded_length = l
  BY <1>4, <1>5 DEF Sent
<1>11. GetField(HeaderLengths(h), 3, 4) = 4
  <2>1. PICK cc, ee, mm, ss, ll : /\ cc = h.segmentation_control /\ ee = h.eid_length
          /\ mm = h.segment_meta_flag /\ ss = h.txn_seq_length /\ ll = HeaderLengths(h)
    OBVIOUS
  <2>2. /\ cc \in 0 .. 1 /\ ee \in 1 .. 8 /\ mm \in 0 .. 1 /\ ss \in 1 .. 8 /\ ee = 5
    BY <1>6, <2>1
  <2>3. ll = Field(cc, 1, 7) + Field(ee - 1, 3, 4) + Field(mm, 1, 3) + Field(ss - 1, 3, 0)
    BY <2>1 DEF HeaderLengths
  <2>4. GetField(ll, 3, 4) = ee - 1
    BY <2>2, <2>3, LengthsAre
  <2> QED
    BY <2>1, <2>2, <2>4
<1>12. PICK s, t, q : s = SubSeq(q, 1, m) /\ t = SubSeq(base, l + 1, n) /\ q = e.s.base
  OBVIOUS
<1>13. s \in Seq(Octet) /\ Len(s) = m /\ s[4] = q[4]
  <2>1. q \in [1 .. MaxPduSize -> Octet]
    BY <1>8, <1>12 DEF Encoder
  <2>2. \A i \in 1 .. m : q[i] \in Octet
    BY <1>5, <1>7, <2>1
  <2>3. m \in Nat /\ m >= 1 /\ 4 \in 1 .. m
    BY <1>7
  <2> QED
    BY <1>12, <2>2, <2>3, FirstOctets
<1>14. t \in Seq(Octet) /\ Len(t) = n - l
  <2>1. \A i \in l + 1 .. n : base[i] \in Octet
    BY <1>5
  <2>2. t \in Seq(Octet) /\ Len(t) = (IF l + 1 <= n THEN n - (l + 1) + 1 ELSE 0)
    <3>1. l + 1 \in Int /\ n \in Int
      BY <1>5
    <3> QED
      BY <1>12, <2>1, <3>1, SubSeqProperties
  <2>3. (IF l + 1 <= n THEN n - (l + 1) + 1 ELSE 0) = n - l
    BY <1>5
  <2> QED
    BY <2>2, <2>3
<1>15. PICK c, k : c = s \o t /\ k = n - l + m
  OBVIOUS
<1>16. /\ k \in Nat /\ k >= 4 /\ c \in Seq(Octet) /\ Len(c) = k
       /\ c[4] = HeaderLengths(h)
  <2>1. /\ c \in Seq(Octet) /\ Len(c) = Len(s) + Len(t)
        /\ \A i \in 1 .. Len(s) + Len(t) : c[i] = IF i <= Len(s) THEN s[i] ELSE t[i - Len(s)]
    BY <1>13, <1>14, <1>15, ConcatProperties
  <2>2. /\ k \in Nat /\ k >= 4 /\ Len(c) = k /\ 4 \in 1 .. Len(s) + Len(t) /\ 4 <= Len(s)
    BY <1>5, <1>7, <1>13, <1>14, <1>15, <2>1
  <2>3. c[4] = s[4]
    BY <2>1, <2>2
  <2> QED
    BY <1>8, <1>12, <1>13, <2>1, <2>2, <2>3
<1>17. PICK v : v = [base |-> c, how |-> "unsupported", size |-> k, ph |-> w.ph]
  OBVIOUS
<1>18. [w EXCEPT !.base = SubSeq(e.s.base, 1, e.h.header_encoded_length)
                            \o SubSeq(@, g.header_encoded_length + 1, w.size),
                 !.size = @ - g.header_encoded_length + e.h.header_encoded_length,
                 !.how = "unsupported"] = v
  <2>1. PICK how : how = "unsupported"
    OBVIOUS
  <2>2. [w EXCEPT !.base = c, !.size = k, !.how = how]
          = [base |-> c, how |-> how, size |-> k, ph |-> w.ph]
    <3>1. Resized(w, c, k, how) = Message(c, k, how, w.ph)
      BY <1>2, SizeChanged
    <3> QED
      BY <3>1 DEF Resized, Message
  <2>3. SubSeq(e.s.base, 1, e.h.header_encoded_length)
          \o SubSeq(w.base, g.header_encoded_length + 1, w.size) = c
    BY <1>3, <1>9, <1>10, <1>12, <1>15
  <2>4. w.size - g.header_encoded_length + e.h.header_encoded_length = k
    BY <1>3, <1>9, <1>10, <1>15
  <2> QED
    BY <1>17, <2>1, <2>2, <2>3, <2>4
<1>19. v.base = c /\ v.how = "unsupported" /\ v.size = k /\ v.ph = w.ph
  BY <1>17
<1>20. Carries(v)
  BY <1>2, <1>16, <1>17, CarriesStill
<1>21. \A i \in 1 .. k : c[i] \in Octet
  BY <1>16, ElementOfSeq
<1>22. LongOn(v)
  BY <1>11, <1>16, <1>19, <1>21 DEF LongOn
<1> QED
  BY <1>18, <1>20, <1>22 DEF OnWire

-------------------------------------------------------------------------------
(* The invariant *)

(* The invariant: what is under way is a PDU with known octets.            *)
BuffersOK ==
  /\ out_msg \in BOOLEAN
  /\ buffers = (IF out_msg THEN 1 ELSE 0) + (IF wire # NoMessage THEN 1 ELSE 0)

FileOK ==
  /\ file \in [1 .. FileLength -> 0 .. Unwritten]
  /\ \A i \in 1 .. FileLength : file[i] \in {File[i], Unwritten}

Checked(r) ==
  r.ret = "CFE_SUCCESS" /\ r.code = DirectiveCode.EOF /\ r.body.cc = 0 => r.body.crc = ModularSum

RxOK == rx.h \in PduHeader /\ Checked(rx)

WireInv == TxnOK /\ BuffersOK /\ (wire = NoMessage \/ OnWire(wire)) /\ RxOK /\ FileOK

LEMMA OnWireIs ==
  ASSUME NEW w, OnWire(w)
  PROVE  w # NoMessage
<1>1. w.how # "none"
  BY OnWireHow
<1>2. NoMessage.how = "none"
  BY DEF NoMessage
<1> QED
  BY <1>1, <1>2

LEMMA NoMessageIs ==
  NoMessage.how = "none" /\ NoMessage.size = 0
BY DEF NoMessage

LEMMA NothingIs == Nothing.h \in PduHeader /\ Checked(Nothing)
<1>1. Nothing.ret = "NONE" /\ Nothing.h = NoHeader
  BY DEF Nothing
<1>2. Rejected("NONE").h \in PduHeader
  BY RejectedIs
<1>3. Rejected("NONE").h = Nothing.h
  BY <1>1 DEF Rejected, Nothing
<1> QED
  BY <1>1, <1>2, <1>3 DEF Checked

(* The checksum is a number of 32 bits.                                    *)
LEMMA WordsAreNumbers == Word \subseteq Numbers32
<1>1. PICK r, s : r = Radix /\ s = r * r
  OBVIOUS
<1>2. r \in Nat /\ r <= 256 /\ Modulus = s * s
  <2>1. /\ r \in Nat /\ r <= 256
    BY <1>1, FileIs
  <2>2. Modulus = r * r * r * r
    BY <1>1, ModulusIs
  <2>3. r * r * r * r = (r * r) * (r * r)
    BY <2>1, SMT
  <2> QED
    BY <1>1, <2>1, <2>2, <2>3
<1>3. s \in Nat /\ s <= 65536
  <2>1. s \in Nat /\ s <= 256 * r
    BY <1>1, <1>2, SMT
  <2> QED
    BY <1>2, <2>1, SMT
<1>4. s * s <= 65536 * s
  BY <1>3, SMT
<1> SUFFICES ASSUME NEW v \in Word PROVE v \in Numbers32
  OBVIOUS
<1>5. v \in Nat /\ v < s * s
  <2>1. v \in 0 .. Modulus - 1 /\ Modulus \in Nat
    BY ModulusIs
  <2> QED
    BY <1>2, <2>1
<1>6. PICK q : q = v \div 65536
  OBVIOUS
<1>7. q \in Nat /\ q * 65536 <= v
  <2>1. PICK m : m = 65536
    OBVIOUS
  <2>2. m \in Nat \ {0}
    BY <2>1, SMT
  <2>3. (v \div m) \in Nat /\ (v \div m) * m <= v
    BY <1>5, <2>2, QuotientBounds
  <2> QED
    BY <1>6, <2>1, <2>3
<1>8. PICK t : t = s * s
  OBVIOUS
<1>9. t <= 65536 * s /\ t \in Nat /\ v < t
  BY <1>3, <1>4, <1>5, <1>8
<1>10. q < 65536
  BY <1>3, <1>5, <1>7, <1>9, SMT
<1> QED
  BY <1>5, <1>6, <1>10 DEF Numbers32

LEMMA FinalizedIs ==
  ASSUME NEW i \in 0 .. FileLength
  PROVE  CRC_Finalize(CrcAt(i)).result \in Numbers32
<1>1. PICK c : c = CrcAt(i)
  OBVIOUS
<1>2. c \in CrcStates
  BY <1>1, CrcAtIs
<1>3. c.result \in Word /\ c.working \in Word /\ c.index \in 0 .. 3
  BY <1>2 DEF CrcStates
<1>4. CASE c.index = 0
  BY <1>1, <1>3, <1>4, WordsAreNumbers DEF CRC_Finalize
<1>5. CASE c.index # 0
  <2>1. PICK p : p = Power[4 - c.index]
    OBVIOUS
  <2>2. p \in Nat
    <3>1. 4 - c.index \in 1 .. 4
      BY <1>3, <1>5
    <3> QED
      BY <2>1, <3>1, PowersAre
  <2>3. PICK x : x = c.result + c.working * p
    OBVIOUS
  <2>4. x \in Int
    BY <1>3, <2>2, <2>3, ModulusIs
  <2>5. (x % Modulus) \in Word
    BY <2>4, ModulusIs, Remainders
  <2>6. CRC_Finalize(c).result = x % Modulus
    BY <1>5, <2>1, <2>3 DEF CRC_Finalize, Modulus
  <2> QED
    BY <1>1, <2>5, <2>6, WordsAreNumbers
<1> QED
  BY <1>4, <1>5

-------------------------------------------------------------------------------
(* The bodies of directives *)

(* What CF puts into directives are bodies that it builds.                 *)
LEMMA FaultLocationIs ==
  ASSUME NEW cc, NEW v \in Numbers32
  PROVE  FaultLocation(cc, v) \in Faults
<1>1. CASE cc = 0
  BY <1>1 DEF FaultLocation, Faults
<1>2. CASE cc # 0
  BY <1>2 DEF FaultLocation, Faults, Fault
<1> QED
  BY <1>1, <1>2

LEMMA NamesAre == Names \subseteq FileNames
<1> SUFFICES ASSUME NEW n \in NameLengths
             PROVE  [i \in 1 .. n |-> 65 + (i % 26)] \in FileNames
  BY DEF Names
<1>1. n \in Nat /\ n <= MaxFilename
  BY WireAssumption, RoomForHeaders
<1>2. PICK s : s = [i \in 1 .. n |-> 65 + (i % 26)]
  OBVIOUS
<1>3. \A i \in 1 .. n : 65 + (i % 26) \in Octet
  BY <1>1 DEF Octet
<1>4. s \in [1 .. n -> Octet]
  BY <1>2, <1>3
<1>5. s \in Seq(Octet) /\ Len(s) = n
  BY <1>1, <1>4
<1> QED
  BY <1>1, <1>2, <1>5 DEF FileNames

LEMMA CodesFit ==
  ASSUME NEW cc \in Codes
  PROVE  cc \in 0 .. 15
BY WireAssumption

LEMMA SizeFits == FileLength \in Numbers32 /\ 0 \in Numbers32 /\ 70000 \in Numbers32
<1>1. FileLength \in Numbers32
  BY WireAssumption
<1>2. 0 \div 65536 < 65536 /\ 70000 \div 65536 < 65536
  BY SMT
<1> QED
  BY <1>1, <1>2, SMT DEF Numbers32

LEMMA SmallNumbers ==
  ASSUME NEW v \in Nat, v < 3000000
  PROVE  v \in Numbers32
<1>1. PICK m : m = 65536
  OBVIOUS
<1>2. m \in Nat \ {0}
  BY <1>1, SMT
<1>3. PICK q : q = v \div m
  OBVIOUS
<1>4. q \in Nat /\ q * m <= v
  BY <1>2, <1>3, QuotientBounds
<1>5. q < 65536
  BY <1>1, <1>4, SMT
<1> QED
  BY <1>1, <1>3, <1>5, SMT DEF Numbers32

LEMMA SegmentOffsets ==
  ASSUME NEW first \in {0, 70000}, NEW n \in 0 .. MaxSegments, NEW i \in 1 .. n
  PROVE  Segment(first + i, first + 300 * i) \in Segments
<1>1. i \in Nat /\ i < 8192
  <2>1. MaxSegments \in Nat /\ MaxPduSize \in Nat /\ MaxPduSize >= 25 + 8 * MaxSegments
    BY RoomForHeaders
  <2>2. MaxPduSize < 65536
    BY SizeAssumption
  <2> QED
    BY <2>1, <2>2, SMT
<1>2. first \in Nat /\ first <= 70000
  BY SMT
<1>3. PICK a, b : a = first + i /\ b = first + 300 * i
  OBVIOUS
<1>4. a \in Nat /\ a < 3000000 /\ b \in Nat /\ b < 3000000
  BY <1>1, <1>2, <1>3, SMT
<1>5. a \in Numbers32 /\ b \in Numbers32
  BY <1>4, SmallNumbers
<1> QED
  BY <1>3, <1>5 DEF Segment, Segments

LEMMA MdBody ==
  ASSUME NEW close_req \in 0 .. 1, NEW src_filename \in Names, NEW dst_filename \in Names
  PROVE  IsBody(DirectiveCode.METADATA,
           [close_req |-> close_req, checksum_type |-> 0, size |-> FileLength,
            source_filename |-> src_filename, dest_filename |-> dst_filename])
BY NamesAre, SizeFits DEF IsBody, Md

LEMMA AckBody ==
  ASSUME NEW answered \in {"EOF", "FIN"}, NEW peer_cc \in Codes, NEW txn_status \in 0 .. 3
  PROVE  IsBody(DirectiveCode.ACK,
           [ack_directive_code |-> DirectiveCode[answered],
            ack_subtype_code |-> IF answered = "FIN" THEN 1 ELSE 0,
            cc |-> peer_cc, txn_status |-> txn_status])
<1>1. DirectiveCode["EOF"] \in 0 .. 15 /\ DirectiveCode["FIN"] \in 0 .. 15
  BY DEF DirectiveCode
<1>2. DirectiveCode[answered] \in 0 .. 15
  BY <1>1
<1>3. (IF answered = "FIN" THEN 1 ELSE 0) \in 0 .. 15
  OBVIOUS
<1> QED
  BY <1>2, <1>3, CodesFit DEF IsBody, Ack

LEMMA FinBody ==
  ASSUME TxnOK, NEW cc \in Codes, NEW fin_dc \in 0 .. 1, NEW fin_fs \in 0 .. 3
  PROVE  IsBody(DirectiveCode.FIN,
           [cc |-> cc, delivery_code |-> fin_dc, file_status |-> fin_fs,
            tlv_list |-> FaultLocation(cc, txn.dst)])
<1>1. FaultLocation(cc, txn.dst) \in Faults
  BY IdsAreNumbers, FaultLocationIs
<1> QED
  BY <1>1, CodesFit DEF IsBody, Fin

NakOf(first, n) ==
  [scope_start |-> 0, scope_end |-> FileLength,
   segment_list |-> NakSegments(first, n)]

LEMMA NakBody ==
  ASSUME NEW first \in {0, 70000}, NEW n \in 0 .. MaxSegments
  PROVE  IsBody(DirectiveCode.NAK, NakOf(first, n))
<1> DEFINE g(i) == Segment(first + i, first + 300 * i)
           list == [i \in 1 .. n |-> g(i)]
           body == [scope_start |-> 0, scope_end |-> FileLength, segment_list |-> list]
<1>1. n \in Nat /\ n <= MaxSegments
  BY RoomForHeaders
<1>2. \A i \in 1 .. n : g(i) \in Segments
  BY SegmentOffsets
<1> HIDE DEF g
<1>3. list \in [1 .. n -> Segments]
  BY <1>2
<1>4. list \in Seq(Segments) /\ Len(list) = n
  BY <1>1, <1>3
<1> HIDE DEF list
<1>5. body \in Nak /\ Len(body.segment_list) <= MaxSegments
  BY <1>1, <1>4, SizeFits DEF Nak
<1> HIDE DEF body
<1>6. IsBody(DirectiveCode.NAK, body)
  BY <1>5 DEF IsBody
<1> QED
  BY <1>6 DEF NakOf, NakSegments, body, list, g

LEMMA EofBody ==
  ASSUME TxnOK, NEW cc \in Codes, cc = 0 => txn.foffs = FileLength
  PROVE  IsBody(DirectiveCode.EOF,
           [cc |-> cc, crc |-> CRC_Finalize(txn.crc).result, size |-> FileLength,
            tlv_list |-> FaultLocation(cc, txn.src)])
<1>1. FaultLocation(cc, txn.src) \in Faults
  BY IdsAreNumbers, FaultLocationIs
<1>2. CRC_Finalize(txn.crc).result \in Numbers32
  BY FinalizedIs DEF TxnOK
<1>3. cc = 0 => CRC_Finalize(txn.crc).result = ModularSum
  BY FinalChecksum DEF TxnOK
<1>4. PICK body : body = [cc |-> cc, crc |-> CRC_Finalize(txn.crc).result, size |-> FileLength,
                          tlv_list |-> FaultLocation(cc, txn.src)]
  OBVIOUS
<1>5. body \in Eof /\ (body.cc = 0 => body.crc = ModularSum)
  BY <1>1, <1>2, <1>3, <1>4, CodesFit, SizeFits DEF Eof
<1> QED
  BY <1>4, <1>5 DEF IsBody

-------------------------------------------------------------------------------
(* Every step keeps the invariant *)

(* Sending what was built.                                                 *)
LEMMA SendKeeps ==
  ASSUME WireInv, wire = NoMessage, NEW p, PduBuilt(p), Send(p), TxnOK', file' = file
  PROVE  WireInv'
<1>1. PICK q : q = SetPduLength(p)
  OBVIOUS
<1>2. /\ out_msg' = FALSE /\ buffers' = MsgOutGet /\ rx' = Nothing
      /\ wire' = [base |-> q.s.base, how |-> "whole",
                  size |-> q.h.header_encoded_length + q.h.data_encoded_length,
                  ph   |-> [h |-> q.h, code |-> q.code, body |-> q.body, ok |-> p.s.is_valid]]
  BY <1>1 DEF Send
<1>3. OnWire(wire')
  BY <1>1, <1>2, SentOn
<1>4. wire' # NoMessage
  BY <1>3, OnWireIs
<1>5. BuffersOK'
  <2>1. buffers = (IF out_msg THEN 1 ELSE 0) /\ out_msg \in BOOLEAN
    BY DEF WireInv, BuffersOK
  <2>2. buffers' = 1
    BY <1>2, <2>1 DEF MsgOutGet
  <2>3. (IF out_msg' THEN 1 ELSE 0) = 0 /\ (IF wire' # NoMessage THEN 1 ELSE 0) = 1
    BY <1>2, <1>4
  <2>4. buffers' = (IF out_msg' THEN 1 ELSE 0) + (IF wire' # NoMessage THEN 1 ELSE 0)
    BY <2>2, <2>3
  <2>5. out_msg' \in BOOLEAN
    BY <1>2
  <2> QED
    BY <2>4, <2>5 DEF BuffersOK
<1>6. RxOK'
  BY <1>2, NothingIs DEF RxOK
<1>7. FileOK'
  BY DEF WireInv, FileOK
<1> QED
  BY <1>3, <1>5, <1>6, <1>7 DEF WireInv

LEMMA DirectiveKeeps ==
  ASSUME WireInv, wire = NoMessage, NEW code, code # FileData, NEW t \in 0 .. 1, NEW body,
         IsBody(code, body), SendDirective(code, t, body)
  PROVE  WireInv'
<1>1. PICK p : p = Built(code, t, body)
  OBVIOUS
<1>2. Send(p) /\ txn' = txn /\ file' = file
  BY <1>1 DEF SendDirective
<1>3. PduBuilt(p)
  BY <1>1, DirectiveBuilt DEF WireInv
<1>4. TxnOK'
  BY <1>2 DEF WireInv, TxnOK
<1> QED
  BY <1>2, <1>3, <1>4, SendKeeps

LEMMA Directions == ToReceiver \in 0 .. 1 /\ ToSender \in 0 .. 1
BY DEF ToReceiver, ToSender

LEMMA MdKeeps ==
  ASSUME WireInv, SendMd
  PROVE  WireInv'
<1>1. wire = NoMessage
  BY DEF SendMd, MayBuild
<1>2. PICK c \in 0 .. 1, s \in Names, d \in Names :
        SendDirective(DirectiveCode.METADATA, ToReceiver,
          [close_req |-> c, checksum_type |-> 0, size |-> FileLength,
           source_filename |-> s, dest_filename |-> d])
  BY DEF SendMd
<1> QED
  BY <1>1, <1>2, MdBody, CodesAre, Directions, DirectiveKeeps

LEMMA AckKeeps ==
  ASSUME WireInv, SendAck
  PROVE  WireInv'
<1>1. wire = NoMessage
  BY DEF SendAck, MayBuild
<1>2. PICK a \in {"EOF", "FIN"}, cc \in Codes, s \in 0 .. 3 :
        SendDirective(DirectiveCode.ACK, IF a = "EOF" THEN ToSender ELSE ToReceiver,
          [ack_directive_code |-> DirectiveCode[a],
           ack_subtype_code |-> IF a = "FIN" THEN 1 ELSE 0,
           cc |-> cc, txn_status |-> s])
  BY DEF SendAck
<1>3. PICK t : t = (IF a = "EOF" THEN ToSender ELSE ToReceiver)
  OBVIOUS
<1>4. t \in 0 .. 1
  BY <1>3, Directions
<1>5. PICK body : body = [ack_directive_code |-> DirectiveCode[a],
                          ack_subtype_code |-> IF a = "FIN" THEN 1 ELSE 0,
                          cc |-> cc, txn_status |-> s]
  OBVIOUS
<1>6. IsBody(DirectiveCode.ACK, body)
  BY <1>5, AckBody
<1>7. SendDirective(DirectiveCode.ACK, t, body)
  BY <1>2, <1>3, <1>5
<1>8. DirectiveCode.ACK # FileData
  BY CodesAre
<1> QED
  BY <1>1, <1>4, <1>6, <1>7, <1>8, DirectiveKeeps

LEMMA FinKeeps ==
  ASSUME WireInv, SendFin
  PROVE  WireInv'
<1>1. wire = NoMessage /\ TxnOK
  BY DEF SendFin, MayBuild, WireInv
<1>2. PICK cc \in Codes, dc \in 0 .. 1, fs \in 0 .. 3 :
        SendDirective(DirectiveCode.FIN, ToSender,
          [cc |-> cc, delivery_code |-> dc, file_status |-> fs,
           tlv_list |-> FaultLocation(cc, txn.dst)])
  BY DEF SendFin
<1>3. PICK body : body = [cc |-> cc, delivery_code |-> dc, file_status |-> fs,
                          tlv_list |-> FaultLocation(cc, txn.dst)]
  OBVIOUS
<1>4. IsBody(DirectiveCode.FIN, body)
  BY <1>1, <1>3, FinBody
<1>5. SendDirective(DirectiveCode.FIN, ToSender, body)
  BY <1>2, <1>3
<1>6. DirectiveCode.FIN # FileData
  BY CodesAre
<1> QED
  BY <1>1, <1>4, <1>5, <1>6, Directions, DirectiveKeeps

LEMMA NakKeeps ==
  ASSUME WireInv, SendNak
  PROVE  WireInv'
<1>1. wire = NoMessage
  BY DEF SendNak, MayBuild
<1>2. PICK first \in {0, 70000}, n \in 0 .. MaxSegments :
        SendDirective(DirectiveCode.NAK, ToSender, NakOf(first, n))
  BY DEF SendNak, NakOf
<1>3. DirectiveCode.NAK # FileData
  BY CodesAre
<1> QED
  BY <1>1, <1>2, <1>3, NakBody, Directions, DirectiveKeeps

LEMMA EofKeeps ==
  ASSUME WireInv, SendEof
  PROVE  WireInv'
<1>1. wire = NoMessage /\ TxnOK /\ txn' = txn /\ file' = file
  BY DEF SendEof, WireInv
<1>2. PICK cc \in Codes :
        /\ cc = 0 => txn.foffs = FileLength
        /\ Send(Built(DirectiveCode.EOF, ToReceiver,
                  [cc |-> cc, crc |-> CRC_Finalize(txn.crc).result, size |-> FileLength,
                   tlv_list |-> FaultLocation(cc, txn.src)]))
  BY DEF SendEof
<1>3. PICK body : body = [cc |-> cc, crc |-> CRC_Finalize(txn.crc).result, size |-> FileLength,
                          tlv_list |-> FaultLocation(cc, txn.src)]
  OBVIOUS
<1>4. IsBody(DirectiveCode.EOF, body)
  BY <1>1, <1>2, <1>3, EofBody
<1>5. SendDirective(DirectiveCode.EOF, ToReceiver, body)
  BY <1>1, <1>2, <1>3 DEF SendDirective
<1> QED
  BY <1>1, <1>4, <1>5, CodesAre, Directions, DirectiveKeeps

LEMMA FileDataKeeps ==
  ASSUME WireInv, SendFileData
  PROVE  WireInv'
<1>1. wire = NoMessage /\ TxnOK /\ txn.foffs < FileLength /\ file' = file
  BY DEF SendFileData, WireInv
<1>2. PICK chunk \in ChunkSizes :
        /\ Send(FileDataPdu(chunk))
        /\ txn' = [txn EXCEPT !.foffs = @ + Len(FileDataPdu(chunk).body.data),
                              !.crc = CRC_Digest(@, FileDataPdu(chunk).body.data)]
  BY DEF SendFileData
<1>3. PICK p : p = FileDataPdu(chunk)
  OBVIOUS
<1>4. PduBuilt(p)
  BY <1>1, <1>3, FileDataBuilt
<1>5. PICK n \in Nat : /\ txn.foffs + n <= FileLength /\ Len(p.body.data) = n
                       /\ p.body.data = SubSeq(File, txn.foffs + 1, txn.foffs + n)
  BY <1>1, <1>3, FileDataBuilt
<1>6. PICK i, j : i = txn.foffs /\ j = i + n
  OBVIOUS
<1>7. i \in 0 .. FileLength /\ j \in i .. FileLength /\ j \in 0 .. FileLength /\ FileLength \in Nat
  <2>1. i \in 0 .. FileLength /\ FileLength \in Nat
    BY <1>1, <1>6, FileIs DEF TxnOK
  <2>2. j = i + n /\ j <= FileLength /\ n \in Nat
    BY <1>5, <1>6
  <2> QED
    BY <2>1, <2>2
<1>8. CRC_Digest(CrcAt(i), p.body.data) = CrcAt(j)
  BY <1>5, <1>6, <1>7, DigestOfFile
<1>9. TxnOK'
  <2>1. txn.crc = CrcAt(i)
    BY <1>1, <1>6 DEF TxnOK
  <2>2. txn' = [txn EXCEPT !.foffs = i + n, !.crc = CrcAt(j)]
    BY <1>2, <1>3, <1>5, <1>6, <1>8, <2>1
  <2> QED
    BY <1>1, <1>6, <1>7, <2>2 DEF TxnOK
<1> QED
  BY <1>1, <1>2, <1>3, <1>4, <1>9, SendKeeps

LEMMA ReadFailsKeeps ==
  ASSUME WireInv, ReadFails
  PROVE  WireInv'
<1>1. /\ wire = NoMessage /\ out_msg' = TRUE /\ buffers' = MsgOutGet
      /\ txn' = txn /\ wire' = wire /\ rx' = rx /\ file' = file
  BY DEF ReadFails
<1>2. BuffersOK'
  <2>1. buffers = (IF out_msg THEN 1 ELSE 0) /\ out_msg \in BOOLEAN
    BY <1>1 DEF WireInv, BuffersOK
  <2>2. buffers' = 1
    BY <1>1, <2>1 DEF MsgOutGet
  <2> QED
    BY <1>1, <2>2 DEF BuffersOK
<1> QED
  BY <1>1, <1>2 DEF WireInv, TxnOK, RxOK, FileOK

(* What happens to a message under way.                                    *)
LEMMA WholeIsOn ==
  ASSUME WireInv, wire.how = "whole"
  PROVE  OnWire(wire) /\ wire # NoMessage /\ wire.size \in Nat
<1>1. wire # NoMessage
  BY NoMessageIs
<1>2. OnWire(wire)
  BY <1>1 DEF WireInv
<1> QED
  BY <1>1, <1>2 DEF OnWire, Carries

LEMMA AlteredKeeps ==
  ASSUME WireInv, NEW m, Altered(m), OnWire(m)
  PROVE  WireInv' /\ wire' # NoMessage
<1>1. /\ wire.how = "whole" /\ wire' = m
      /\ txn' = txn /\ out_msg' = out_msg /\ buffers' = buffers /\ rx' = rx /\ file' = file
  BY DEF Altered
<1>2. wire # NoMessage /\ wire' # NoMessage
  BY <1>1, WholeIsOn, OnWireIs
<1>3. BuffersOK'
  BY <1>1, <1>2 DEF WireInv, BuffersOK
<1> QED
  BY <1>1, <1>2, <1>3 DEF WireInv, TxnOK, RxOK, FileOK

LEMMA CutKeeps ==
  ASSUME WireInv, CutShort
  PROVE  WireInv' /\ wire' # NoMessage
<1>1. PICK n \in (IF wire.ph.code = FileData THEN CutSizes ELSE 1 .. wire.size) :
        /\ n <= wire.size
        /\ Altered([wire EXCEPT !.size = @ - n, !.how = "cut",
                       !.base = [i \in DOMAIN @ |-> IF i > wire.size - n THEN Junk ELSE @[i]]])
  BY DEF CutShort
<1>2. wire.how = "whole"
  BY <1>1 DEF Altered
<1>3. OnWire(wire) /\ wire.size \in Nat
  BY <1>2, WholeIsOn
<1>4. n \in Nat /\ n <= wire.size
  <2>1. n \in CutSizes \/ n \in 1 .. wire.size
    BY <1>1
  <2>2. CutSizes \subseteq Nat
    BY WireAssumption
  <2> QED
    BY <1>1, <1>3, <2>1, <2>2
<1>5. OnWire([wire EXCEPT !.size = @ - n, !.how = "cut",
                !.base = [i \in DOMAIN @ |-> IF i > wire.size - n THEN Junk ELSE @[i]]])
  BY <1>2, <1>3, <1>4, CutStays
<1> QED
  BY <1>1, <1>5, AlteredKeeps

LEMMA CrcKeeps ==
  ASSUME WireInv, WithCrc
  PROVE  WireInv' /\ wire' # NoMessage
<1>1. wire.ph.code = FileData /\ wire.how = "whole"
  BY DEF WithCrc, Altered
<1>2. OnWire(wire)
  BY <1>1, WholeIsOn
<1> QED
  BY <1>1, <1>2, CrcStays, AlteredKeeps DEF WithCrc

LEMMA LargeKeeps ==
  ASSUME WireInv, LargeFile
  PROVE  WireInv' /\ wire' # NoMessage
<1>1. wire.how = "whole"
  BY DEF LargeFile, Altered
<1>2. OnWire(wire)
  BY <1>1, WholeIsOn
<1> QED
  BY <1>1, <1>2, LargeStays, AlteredKeeps DEF LargeFile

LEMMA LongKeeps ==
  ASSUME WireInv, LongIds
  PROVE  WireInv' /\ wire' # NoMessage
<1>1. wire.how = "whole"
  BY DEF LongIds, Altered
<1>2. OnWire(wire)
  BY <1>1, WholeIsOn
<1>3. PICK h, e : /\ h = wire.ph.h
                  /\ e = EncodeHeaderWithoutSize(EncodeStart, [h EXCEPT !.eid_length = EntityIdSize + 1])
  OBVIOUS
<1>4. Altered([wire EXCEPT !.base = SubSeq(e.s.base, 1, e.h.header_encoded_length)
                                      \o SubSeq(@, h.header_encoded_length + 1, wire.size),
                           !.size = @ - h.header_encoded_length + e.h.header_encoded_length,
                           !.how = "unsupported"])
  BY <1>3 DEF LongIds
<1> QED
  BY <1>1, <1>2, <1>3, <1>4, LongStays, AlteredKeeps

-------------------------------------------------------------------------------
(* What is made of a message *)

(* What is made of a message, as RoundTrip and CutNeverForges say.         *)
AsFarAs(r, ph) ==
  r.ret = "CFE_SUCCESS" =>
    /\ r.code = ph.code /\ FarAsItGoes(r.body, ph.body)
    /\ ph.code = FileData => r.body.data \in Seq(Octet)

MeantOr(r, ph) ==
  IF TooLong(ph.code, ph.body) THEN r.ret = "CF_PDU_METADATA_ERROR" ELSE Meant(r, ph)

Outcome(r, w) ==
  /\ r.h \in PduHeader /\ AsFarAs(r, w.ph)
  /\ w.how = "unsupported" => r.ret = "CF_ERROR"
  /\ w.how = "crc" => r.ret = "CFE_SUCCESS" /\ r.body = w.ph.body
  /\ w.how = "cut" => r.ret # "CFE_SUCCESS" \/ r.h = w.ph.h
  /\ w.how = "whole" => MeantOr(r, w.ph)

(* PDUs as they were sent, or the first octets of them.                    *)
LEMMA PlainReceived ==
  ASSUME NEW w, Carries(w), NEW b, Copies(w, b, 0), w.size <= Total(w), w.how \in {"whole", "cut"},
         w.how = "whole" => w.size = Total(w)
  PROVE  Outcome(Received(w), w)
<1>1. PICK h, code, body : h = w.ph.h /\ code = w.ph.code /\ body = w.ph.body
  OBVIOUS
<1>2. PICK total, r, x : total = PduSize(h, code, body) /\ r = Received(w) /\ x = 0
  OBVIOUS
<1>3. /\ Pdu(h, code, body) /\ Sent(h) /\ w.size \in Nat /\ PduIn(b, h, code, body)
      /\ Agrees(w.base, b, h, x, w.size) /\ w.size <= total /\ total = Total(w)
  BY <1>1, <1>2 DEF Carries, Copies, Total, Pdu
<1>4. Gives(r, h, code, body, x, w.size >= total)
  <2>1. \/ x = 0 /\ w.size <= total
        \/ x = 2 /\ code = FileData /\ w.size = total + 4
    BY <1>2, <1>3
  <2>2. Bears(w, b, h, code, body, x, total)
    BY <1>2, <1>3, <2>1 DEF Bears
  <2> QED
    BY <1>2, <2>2, PduReceived
<1>5. Decoded(h, x) = h
  <2>1. x \in 0 .. 3
    BY <1>2
  <2>2. Decoded(h, 0) = h
    BY <1>3, <2>1, DecodedIs, Zenon
  <2> QED
    BY <1>2, <2>2
<1>6. w.how = "whole" => w.size >= total
  <2>1. total \in Nat
    BY <1>3, TotalIs
  <2> QED
    BY <1>3, <2>1
<1>7. AsFarAs(r, w.ph)
  BY <1>1, <1>4 DEF AsFarAs, Gives
<1>8. w.how = "whole" => MeantOr(r, w.ph)
  BY <1>1, <1>4, <1>5, <1>6 DEF MeantOr, Meant, Gives
<1>9. w.how = "cut" => r.ret # "CFE_SUCCESS" \/ r.h = w.ph.h
  BY <1>1, <1>4, <1>5 DEF Gives
<1> QED
  BY <1>2, <1>4, <1>7, <1>8, <1>9 DEF Outcome, Gives

LEMMA CrcReceived ==
  ASSUME NEW w, Carries(w), NEW b, CrcOn(w, b)
  PROVE  Outcome(Received(w), w)
<1>1. PICK h, code, body : h = w.ph.h /\ code = w.ph.code /\ body = w.ph.body
  OBVIOUS
<1>2. PICK total, r, x : total = PduSize(h, code, body) /\ r = Received(w) /\ x = 2
  OBVIOUS
<1>3. /\ Pdu(h, code, body) /\ w.size \in Nat /\ PduIn(b, h, code, body)
      /\ Agrees(w.base, b, h, x, w.size) /\ w.size = total + 4 /\ total = Total(w)
      /\ code = FileData /\ w.how = "crc"
  BY <1>1, <1>2 DEF Carries, CrcOn, Copies, Total
<1>4. total \in Nat /\ w.size >= total
  <2>1. total \in Nat
    BY <1>3, TotalIs
  <2> QED
    BY <1>3, <2>1
<1>5. Gives(r, h, code, body, x, w.size >= total)
  <2>1. \/ x = 0 /\ w.size <= total
        \/ x = 2 /\ code = FileData /\ w.size = total + 4
    BY <1>2, <1>3
  <2>2. Bears(w, b, h, code, body, x, total)
    BY <1>2, <1>3, <2>1 DEF Bears
  <2> QED
    BY <1>2, <2>2, PduReceived
<1>6. ~TooLong(code, body)
  <2>1. code # DirectiveCode.METADATA
    BY <1>3, CodesAre
  <2> QED
    BY <2>1 DEF TooLong
<1>7. AsFarAs(r, w.ph)
  BY <1>1, <1>5 DEF AsFarAs, Gives
<1>8. r.ret = "CFE_SUCCESS" /\ r.body = w.ph.body
  BY <1>1, <1>4, <1>5, <1>6 DEF Gives
<1> QED
  BY <1>2, <1>3, <1>5, <1>7, <1>8 DEF Outcome, Gives

LEMMA UnsupportedReceived ==
  ASSUME NEW w, w.how = "unsupported", Received(w).ret = "CF_ERROR", Received(w).h \in PduHeader
  PROVE  Outcome(Received(w), w)
<1>1. PICK r : r = Received(w)
  OBVIOUS
<1>2. r.ret # "CFE_SUCCESS"
  BY <1>1
<1>3. AsFarAs(r, w.ph)
  BY <1>2 DEF AsFarAs
<1> QED
  BY <1>1, <1>3 DEF Outcome

LEMMA ReceivedIs ==
  ASSUME NEW w, OnWire(w)
  PROVE  Outcome(Received(w), w)
<1>1. Carries(w) /\ w.size \in Nat
  BY DEF OnWire, Carries
<1>2. CASE LongOn(w)
  <2>1. Received(w).ret = "CF_ERROR" /\ Received(w).h \in PduHeader
    BY <1>1, <1>2, LongReceived DEF LongOn
  <2> QED
    BY <1>2, <2>1, UnsupportedReceived DEF LongOn
<1>3. ASSUME NEW b, WholeOn(w, b) PROVE Outcome(Received(w), w)
  <2>1. w.size <= Total(w)
    BY <1>1, <1>3 DEF WholeOn
  <2> QED
    BY <1>1, <1>3, <2>1, PlainReceived DEF WholeOn
<1>4. ASSUME NEW b, CutOn(w, b) PROVE Outcome(Received(w), w)
  BY <1>1, <1>4, PlainReceived DEF CutOn
<1>5. ASSUME NEW b, CrcOn(w, b) PROVE Outcome(Received(w), w)
  BY <1>1, <1>5, CrcReceived
<1>6. ASSUME NEW b, LargeOn(w, b) PROVE Outcome(Received(w), w)
  <2>1. PICK h, code, body : h = w.ph.h /\ code = w.ph.code /\ body = w.ph.body
    OBVIOUS
  <2>2. /\ Pdu(h, code, body) /\ PduIn(b, h, code, body) /\ HeaderLength(h) <= w.size
        /\ Agrees(w.base, b, h, 1, w.size)
    BY <1>1, <1>6, <2>1 DEF LargeOn, Copies, Carries
  <2>3. Received(w).ret = "CF_ERROR" /\ Received(w).h \in PduHeader
    BY <1>1, <2>2, LargeReceived
  <2> QED
    BY <1>6, <2>3, UnsupportedReceived DEF LargeOn
<1> QED
  BY <1>2, <1>3, <1>4, <1>5, <1>6 DEF OnWire

LEMMA PrefixElements ==
  ASSUME NEW r \in Seq(Octet), NEW s \in Seq(Octet), IsPrefix(r, s)
  PROVE  Len(r) \in Nat /\ Len(r) <= Len(s) /\ \A i \in 1 .. Len(r) : r[i] = s[i]
<1>1. PICK n : n = Len(r)
  OBVIOUS
<1>2. PICK u, v : u = SubSeq(r, 1, n) /\ v = SubSeq(s, 1, n)
  OBVIOUS
<1>3. n \in Nat /\ Len(s) \in Nat /\ n <= Len(s) /\ u = v
  BY <1>1, <1>2, LenProperties DEF IsPrefix
<1>4. (\A i \in 1 .. n : r[i] \in Octet) /\ \A i \in 1 .. n : s[i] \in Octet
  <2>1. \A i \in 1 .. n : i \in 1 .. Len(r) /\ i \in 1 .. Len(s)
    BY <1>1, <1>3
  <2> QED
    BY <2>1, ElementOfSeq
<1>5. CASE n = 0
  BY <1>1, <1>3, <1>5
<1>6. CASE n >= 1
  <2>1. \A i \in 1 .. n : u[i] = r[i]
    BY <1>2, <1>3, <1>4, <1>6, FirstOctets
  <2>2. \A i \in 1 .. n : v[i] = s[i]
    BY <1>2, <1>3, <1>4, <1>6, FirstOctets
  <2> QED
    BY <1>1, <1>3, <2>1, <2>2
<1>7. n = 0 \/ n >= 1
  BY <1>3
<1> QED
  BY <1>5, <1>6, <1>7

(* What lies at its offset is what a piece of the file has there.          *)
LEMMA PieceGoesOn ==
  ASSUME NEW fd, NEW body \in FilePieces, FarAsItGoes(fd, body), fd.data \in Seq(Octet)
  PROVE  \E o \in 0 .. FileLength, n \in Nat :
           /\ fd.offset = o /\ Len(fd.data) = n
           /\ \A i \in 1 .. n : fd.data[i] = File[o + i]
<1>1. PICK o \in 0 .. FileLength, k \in Nat :
        /\ o + k <= FileLength
        /\ body = [NoFd EXCEPT !.offset = o, !.data = SubSeq(File, o + 1, o + k)]
        /\ body.offset = o /\ body.data = SubSeq(File, o + 1, o + k)
        /\ body.offset \in Numbers32 /\ body.data \in Seq(Octet) /\ Len(body.data) = k
        /\ \A i \in 1 .. k : body.data[i] = File[o + i]
  BY FilePiecesAre
<1>2. "offset" \in DOMAIN body /\ "data" \in DOMAIN body
  BY <1>1 DEF NoFd
<1>3. "offset" \notin Lists /\ "data" \in Lists
  BY DEF Lists
<1>4. fd["offset"] = body["offset"] /\ IsPrefix(fd["data"], body["data"])
  BY <1>2, <1>3 DEF FarAsItGoes
<1>5. PICK r, s : r = fd.data /\ s = body.data
  OBVIOUS
<1>6. r \in Seq(Octet) /\ s \in Seq(Octet) /\ IsPrefix(r, s)
  BY <1>1, <1>4, <1>5
<1>7. Len(r) \in Nat /\ Len(r) <= Len(s) /\ \A i \in 1 .. Len(r) : r[i] = s[i]
  BY <1>6, PrefixElements
<1>8. \A i \in 1 .. Len(r) : r[i] = File[o + i]
  <2>1. \A i \in 1 .. Len(r) : i \in 1 .. k
    <3>1. PICK m : m = Len(r)
      OBVIOUS
    <3>2. m \in Nat /\ m <= k /\ k \in Nat
      BY <1>1, <1>5, <1>7, <3>1
    <3> QED
      BY <3>1, <3>2
  <2> QED
    BY <1>1, <1>5, <1>7, <2>1
<1>9. fd.offset = o
  BY <1>1, <1>4
<1> QED
  BY <1>5, <1>7, <1>8, <1>9

LEMMA WriteIs ==
  ASSUME FileOK, NEW fd, NEW o \in 0 .. FileLength, NEW n \in Nat, fd.offset = o,
         Len(fd.data) = n, \A i \in 1 .. n : fd.data[i] = File[o + i]
  PROVE  /\ Write(fd) \in [1 .. FileLength -> 0 .. Unwritten]
         /\ \A i \in 1 .. FileLength : Write(fd)[i] \in {File[i], Unwritten}
<1>1. FileLength \in Nat /\ \A i \in 1 .. FileLength : File[i] \in 0 .. Unwritten
  <2>1. FileLength \in Nat /\ Unwritten \in Nat
    BY FileIs DEF Unwritten
  <2>2. ASSUME NEW i \in 1 .. FileLength PROVE File[i] \in 0 .. Unwritten
    <3>1. i \in Int
      BY <2>1
    <3>2. DigitOf(i) = File[i] /\ DigitOf(i) \in 0 .. Radix - 1
      BY <3>1, FileIs
    <3>3. Radix \in Nat
      BY FileIs
    <3> QED
      BY <3>2, <3>3 DEF Unwritten
  <2> QED
    BY <2>1, <2>2
<1> DEFINE new(i) == IF i > o /\ i <= o + n THEN fd.data[i - o] ELSE file[i]
<1>2. ASSUME NEW i \in 1 .. FileLength
      PROVE  new(i) \in {File[i], Unwritten} /\ new(i) \in 0 .. Unwritten
  <2>1. CASE i > o /\ i <= o + n
    <3>1. i - o \in 1 .. n /\ o + (i - o) = i
      BY <1>1, <2>1
    <3>2. new(i) = File[i]
      BY <2>1, <3>1
    <3> QED
      BY <1>1, <3>2
  <2>2. CASE ~(i > o /\ i <= o + n)
    <3>1. new(i) = file[i]
      BY <2>2
    <3> QED
      BY <3>1 DEF FileOK
  <2> QED
    BY <2>1, <2>2
<1>3. Write(fd) = [i \in 1 .. FileLength |-> new(i)]
  BY DEF Write
<1> HIDE DEF new
<1> QED
  BY <1>2, <1>3

(* An EOF says what its sender put into it.                                *)
LEMMA EofChecked ==
  ASSUME NEW fd, NEW body \in Eof, FarAsItGoes(fd, body)
  PROVE  fd.cc = body.cc /\ fd.crc = body.crc
<1>1. "cc" \in DOMAIN body /\ "crc" \in DOMAIN body
  BY DEF Eof
<1>2. "cc" \notin Lists /\ "crc" \notin Lists
  BY DEF Lists
<1>3. fd["cc"] = body["cc"] /\ fd["crc"] = body["crc"]
  BY <1>1, <1>2 DEF FarAsItGoes
<1> QED
  BY <1>3

LEMMA ReceiveKeeps ==
  ASSUME WireInv, Receive
  PROVE  WireInv'
<1>1. /\ wire # NoMessage /\ rx' = Received(wire) /\ wire' = NoMessage /\ buffers' = buffers - 1
      /\ txn' = txn /\ out_msg' = out_msg
      /\ file' = IF rx'.ret = "CFE_SUCCESS" /\ rx'.code = FileData THEN Write(rx'.body) ELSE file
  BY DEF Receive
<1>2. OnWire(wire) /\ TxnOK /\ BuffersOK /\ FileOK
  BY <1>1 DEF WireInv
<1>3. PICK r, ph, code, body : r = rx' /\ ph = wire.ph /\ code = wire.ph.code /\ body = wire.ph.body
  OBVIOUS
<1>4. r.h \in PduHeader /\ AsFarAs(r, ph)
  BY <1>1, <1>2, <1>3, ReceivedIs DEF Outcome
<1>5. IsBody(code, body)
  BY <1>2, <1>3 DEF OnWire, Carries, Pdu
<1>6. r.ret = "CFE_SUCCESS" => /\ r.code = code /\ FarAsItGoes(r.body, body)
                               /\ code = FileData => r.body.data \in Seq(Octet)
  BY <1>3, <1>4 DEF AsFarAs
<1>7. Checked(r)
  <2> SUFFICES ASSUME r.ret = "CFE_SUCCESS", r.code = DirectiveCode.EOF, r.body.cc = 0
               PROVE  r.body.crc = ModularSum
    BY DEF Checked
  <2>1. code = DirectiveCode.EOF /\ FarAsItGoes(r.body, body)
    BY <1>6
  <2>2. body \in Eof /\ (body.cc = 0 => body.crc = ModularSum)
    BY <1>5, <2>1, BodyCodes
  <2>3. r.body.cc = body.cc /\ r.body.crc = body.crc
    BY <2>1, <2>2, EofChecked
  <2> QED
    BY <2>2, <2>3
<1>8. RxOK'
  BY <1>3, <1>4, <1>7 DEF RxOK
<1>9. FileOK'
  <2>1. CASE r.ret = "CFE_SUCCESS" /\ r.code = FileData
    <3>1. code = FileData /\ FarAsItGoes(r.body, body) /\ r.body.data \in Seq(Octet)
      BY <1>6, <2>1
    <3>2. body \in FilePieces
      BY <1>5, <3>1, BodyCodes
    <3>3. PICK fd : fd = r.body
      OBVIOUS
    <3>4. PICK o \in 0 .. FileLength, n \in Nat :
            /\ fd.offset = o /\ Len(fd.data) = n
            /\ \A i \in 1 .. n : fd.data[i] = File[o + i]
      BY <3>1, <3>2, <3>3, PieceGoesOn
    <3>5. /\ Write(fd) \in [1 .. FileLength -> 0 .. Unwritten]
          /\ \A i \in 1 .. FileLength : Write(fd)[i] \in {File[i], Unwritten}
      BY <1>2, <3>4, WriteIs
    <3>6. file' = Write(fd)
      BY <1>1, <1>3, <2>1, <3>3
    <3> QED
      BY <3>5, <3>6 DEF FileOK
  <2>2. CASE ~(r.ret = "CFE_SUCCESS" /\ r.code = FileData)
    <3>1. file' = file
      BY <1>1, <1>3, <2>2
    <3> QED
      BY <1>2, <3>1 DEF FileOK
  <2> QED
    BY <2>1, <2>2
<1>10. BuffersOK'
  <2>1. (IF wire # NoMessage THEN 1 ELSE 0) = 1 /\ (IF wire' # NoMessage THEN 1 ELSE 0) = 0
    BY <1>1
  <2>2. PICK k : k = (IF out_msg THEN 1 ELSE 0)
    OBVIOUS
  <2>3. k \in Nat /\ buffers = k + 1 /\ out_msg \in BOOLEAN
    BY <1>2, <2>1, <2>2 DEF BuffersOK
  <2>4. buffers' = k + 0
    BY <1>1, <2>3
  <2>5. k = (IF out_msg' THEN 1 ELSE 0) /\ out_msg' \in BOOLEAN
    BY <1>1, <2>2, <2>3
  <2> QED
    BY <2>1, <2>4, <2>5 DEF BuffersOK
<1> QED
  BY <1>1, <1>2, <1>8, <1>9, <1>10 DEF WireInv, TxnOK

-------------------------------------------------------------------------------
(* The theorems *)

(* Only the receiver takes a message off the bus.                          *)
LEMMA StepKeeps ==
  ASSUME WireInv, Next
  PROVE  WireInv' /\ (wire # NoMessage /\ wire' = NoMessage => Receive)
<1>1. CASE SendMd
  BY <1>1, MdKeeps DEF SendMd, MayBuild
<1>2. CASE SendAck
  BY <1>2, AckKeeps DEF SendAck, MayBuild
<1>3. CASE SendFin
  BY <1>3, FinKeeps DEF SendFin, MayBuild
<1>4. CASE SendNak
  <2>1. wire = NoMessage
    BY <1>4 DEF SendNak, MayBuild
  <2> QED
    BY <1>4, <2>1, NakKeeps
<1>5. CASE SendEof
  <2>1. wire = NoMessage
    BY <1>5 DEF SendEof
  <2> QED
    BY <1>5, <2>1, EofKeeps
<1>6. CASE SendFileData
  <2>1. wire = NoMessage
    BY <1>6 DEF SendFileData
  <2> QED
    BY <1>6, <2>1, FileDataKeeps
<1>7. CASE ReadFails
  BY <1>7, ReadFailsKeeps DEF ReadFails
<1>8. CASE CutShort
  BY <1>8, CutKeeps
<1>9. CASE WithCrc
  BY <1>9, CrcKeeps
<1>10. CASE LargeFile
  BY <1>10, LargeKeeps
<1>11. CASE LongIds
  BY <1>11, LongKeeps
<1>12. CASE Receive
  BY <1>12, ReceiveKeeps
<1> QED
  BY <1>1, <1>2, <1>3, <1>4, <1>5, <1>6, <1>7, <1>8, <1>9, <1>10, <1>11, <1>12 DEF Next

LEMMA InitOK ==
  ASSUME Init
  PROVE  WireInv
<1>1. TxnOK
  <2>1. FileLength \in Nat
    BY FileIs
  <2>2. 0 \in 0 .. FileLength
    BY <2>1
  <2> QED
    BY <2>2, CrcAtStart DEF Init, TxnOK
<1>2. BuffersOK /\ wire = NoMessage
  <2>1. out_msg = FALSE /\ buffers = 0 /\ wire = NoMessage
    BY DEF Init
  <2>2. (IF out_msg THEN 1 ELSE 0) = 0 /\ (IF wire # NoMessage THEN 1 ELSE 0) = 0
    BY <2>1
  <2>3. buffers = (IF out_msg THEN 1 ELSE 0) + (IF wire # NoMessage THEN 1 ELSE 0)
    BY <2>1, <2>2
  <2> QED
    BY <2>1, <2>3 DEF BuffersOK
<1>3. RxOK
  BY NothingIs DEF Init, RxOK
<1>4. FileOK
  <2>1. Unwritten \in 0 .. Unwritten
    BY FileIs DEF Unwritten
  <2> QED
    BY <2>1 DEF Init, FileOK
<1> QED
  BY <1>1, <1>2, <1>3, <1>4 DEF WireInv

LEMMA StutterKeeps ==
  ASSUME WireInv, UNCHANGED vars
  PROVE  WireInv'
BY DEF WireInv, TxnOK, BuffersOK, RxOK, FileOK, vars

(* What is under way, what was received and what was written stay as the   *)
(* invariant says, whatever is sent and whatever happens to it.            *)
THEOREM WireInvariant == Spec => []WireInv
<1>1. Init => WireInv
  BY InitOK
<1>2. WireInv /\ [Next]_vars => WireInv'
  BY StepKeeps, StutterKeeps
<1> QED
  BY <1>1, <1>2, PTL DEF Spec

(* The size of a message is what the octets b of its header say.           *)
SizeAsSaid(size, b) ==
  LET header == HeaderSize + 2 * (GetField(b[4], 3, 4) + 1) + GetField(b[4], 3, 0) + 1
  IN  size = header + b[2] * 256 + b[3]

LEMMA SizeIs ==
  ASSUME NEW w, OnWire(w), w.how = "whole"
  PROVE  w.ph.ok = TRUE /\ SizeAsSaid(w.size, w.base) /\ w.size <= MaxPduSize
<1>1. PICK d : WholeOn(w, d)
  BY OnWireWhole
<1>2. Carries(w)
  BY DEF OnWire
<1>3. PICK h, b, n : h = w.ph.h /\ b = w.base /\ n = w.size
  OBVIOUS
<1>4. /\ Sent(h) /\ Agrees(b, d, h, 0, n) /\ HeaderIn(d, h) /\ n \in Nat
      /\ HeaderLength(h) <= n /\ n <= MaxPduSize /\ w.ph.ok = TRUE
      /\ h.data_encoded_length = n - HeaderLength(h)
  <2>1. HeaderLength(h) <= n
    BY <1>1, <1>2, <1>3, TotalIs DEF WholeOn
  <2> QED
    BY <1>1, <1>2, <1>3, <2>1 DEF WholeOn, Copies, Carries, Pdu, PduIn
<1>5. PICK e, s, l : e = h.eid_length /\ s = h.txn_seq_length /\ l = HeaderLengths(h)
  OBVIOUS
<1>6. /\ h \in PduHeader /\ e \in 1 .. 4 /\ s \in 1 .. 4
      /\ HeaderLength(h) = 4 + (2 * e + s) /\ HeaderLength(h) \in 7 .. 16
  BY <1>4, <1>5, SentIs
<1>7. 3 \in 1 .. n /\ 4 \in 1 .. n
  BY <1>4, <1>6
<1>8. b[2] * 256 + b[3] = h.data_encoded_length /\ b[4] = l /\ b[2] \in Octet /\ b[3] \in Octet
  <2>1. 2 \in 1 .. n
    BY <1>4, <1>7
  <2>2. b[2] \in Octet /\ b[3] \in Octet
    BY <1>4, <1>7, <2>1 DEF Agrees
  <2>3. b[4] = d[4]
    BY <1>4, <1>7 DEF Agrees
  <2>4. b[2] * 256 + b[3] = h.data_encoded_length
    BY <1>4, <1>7 DEF Agrees
  <2> QED
    BY <1>4, <1>5, <2>2, <2>3, <2>4 DEF HeaderIn
<1>9. GetField(l, 3, 4) = e - 1 /\ GetField(l, 3, 0) = s - 1
  <2>1. PICK c, m : c = h.segmentation_control /\ m = h.segment_meta_flag
    OBVIOUS
  <2>2. /\ c \in 0 .. 1 /\ e \in 1 .. 8 /\ m \in 0 .. 1 /\ s \in 1 .. 8
        /\ l = Field(c, 1, 7) + Field(e - 1, 3, 4) + Field(m, 1, 3) + Field(s - 1, 3, 0)
    BY <1>5, <1>6, <2>1 DEF HeaderLengths, PduHeader
  <2> QED
    BY <2>2, LengthsAre
<1>10. PICK f, g : f = GetField(b[4], 3, 4) /\ g = GetField(b[4], 3, 0)
  OBVIOUS
<1>11. f = e - 1 /\ g = s - 1
  BY <1>8, <1>9, <1>10
<1>12. PICK x, y : x = b[2] /\ y = b[3]
  OBVIOUS
<1>13. n = HeaderSize + 2 * (f + 1) + g + 1 + x * 256 + y
  <2>1. x * 256 + y = n - (4 + (2 * e + s)) /\ x \in 0 .. 255 /\ y \in 0 .. 255
    BY <1>4, <1>6, <1>8, <1>12 DEF Octet
  <2> QED
    BY <1>4, <1>6, <1>11, <2>1 DEF HeaderSize
<1>14. n = HeaderSize + 2 * (GetField(b[4], 3, 4) + 1) + GetField(b[4], 3, 0) + 1 + b[2] * 256 + b[3]
  BY <1>10, <1>12, <1>13
<1>15. SizeAsSaid(n, b)
  BY <1>14 DEF SizeAsSaid
<1>16. w.ph.ok = TRUE
  BY <1>4
<1>17. w.size <= MaxPduSize
  BY <1>3, <1>4
<1>18. SizeAsSaid(w.size, w.base)
  BY <1>3, <1>15
<1> QED
  BY <1>16, <1>17, <1>18

(* Messages are as long as their headers say, they fit, and no buffer of   *)
(* the bus is lost.                                                        *)
THEOREM WholeMessages == Spec => []MessagesAreWhole
<1>1. WireInv => MessagesAreWhole
  <2> SUFFICES ASSUME WireInv PROVE MessagesAreWhole
    OBVIOUS
  <2>1. wire # NoMessage => OnWire(wire)
    BY DEF WireInv
  <2>2. TypeOK
    <3>1. txn.foffs \in 0 .. FileLength /\ txn.crc \in [working : Word, result : Word, index : 0 .. 3]
      BY CrcAtIs DEF WireInv, TxnOK, CrcStates
    <3>2. wire # NoMessage => \A i \in 1 .. wire.size : wire.base[i] \in Octet
      BY <2>1, OnWireOctets
    <3> QED
      BY <3>1, <3>2 DEF WireInv, BuffersOK, RxOK, FileOK, TypeOK
  <2>3. ASSUME wire.how = "whole"
        PROVE  LET b == wire.base
                   header == HeaderSize + 2 * (GetField(b[4], 3, 4) + 1) + GetField(b[4], 3, 0) + 1
               IN  /\ wire.ph.ok
                   /\ wire.size = header + b[2] * 256 + b[3]
                   /\ wire.size <= MaxPduSize
    <3>1. OnWire(wire)
      BY <2>3, WholeIsOn
    <3>2. wire.ph.ok = TRUE /\ SizeAsSaid(wire.size, wire.base) /\ wire.size <= MaxPduSize
      BY <2>3, <3>1, SizeIs
    <3> QED
      BY <3>2 DEF SizeAsSaid
  <2> QED
    BY <2>2, <2>3 DEF WireInv, BuffersOK, MessagesAreWhole
<1> QED
  BY <1>1, WireInvariant, PTL

(* What is written is the file that was sent, and both ends compute the    *)
(* same checksum of it.                                                    *)
THEOREM ChecksumsEqual == Spec => []ChecksumsAgree
<1>1. WireInv => ChecksumsAgree
  <2> SUFFICES ASSUME WireInv PROVE ChecksumsAgree
    OBVIOUS
  <2>1. \A i \in 1 .. FileLength : file[i] \in {File[i], Unwritten}
    BY DEF WireInv, FileOK
  <2>2. Checked(rx)
    BY DEF WireInv, RxOK
  <2>3. ASSUME file = File, NEW n \in CrcSizes PROVE ChecksumBy(n) = ModularSum
    <3>1. n \in Nat \ {0}
      BY WireAssumption
    <3> QED
      BY <2>3, <3>1, ChecksumInPieces
  <2> QED
    BY <2>1, <2>2, <2>3 DEF Checked, ChecksumsAgree
<1> QED
  BY <1>1, WireInvariant, PTL

(* The step that takes a message off the bus.                              *)
LEMMA TakenIs ==
  ASSUME WireInv, Next, wire # NoMessage, wire' = NoMessage
  PROVE  OnWire(wire) /\ Outcome(rx', wire)
<1>1. rx' = Received(wire)
  BY StepKeeps DEF Receive
<1>2. OnWire(wire)
  BY DEF WireInv
<1> QED
  BY <1>1, <1>2, ReceivedIs

(* What CF encodes CF decodes, and what it does not support it rejects.    *)
THEOREM RoundTrips == Spec => RoundTrip
<1> DEFINE Step == wire # NoMessage /\ wire' = NoMessage =>
             CASE wire.how = "unsupported" -> rx'.ret = "CF_ERROR"
               [] wire.how = "crc" -> rx'.ret = "CFE_SUCCESS" /\ rx'.body = wire.ph.body
               [] wire.how = "cut" -> TRUE
               [] OTHER -> IF NameTooLong(wire.ph) THEN rx'.ret = "CF_PDU_METADATA_ERROR"
                                                   ELSE Meant(rx', wire.ph)
<1>1. WireInv /\ [Next]_vars => [Step]_vars
  <2> SUFFICES ASSUME WireInv, Next, wire # NoMessage, wire' = NoMessage
               PROVE  Step
    OBVIOUS
  <2>1. OnWire(wire) /\ Outcome(rx', wire)
    BY TakenIs
  <2>2. wire.how \in {"whole", "cut", "crc", "unsupported"}
    BY <2>1, OnWireHow
  <2>3. NameTooLong(wire.ph) <=> TooLong(wire.ph.code, wire.ph.body)
    BY DEF NameTooLong, TooLong
  <2>4. CASE wire.how = "whole"
    BY <2>1, <2>3, <2>4 DEF Outcome, MeantOr
  <2>5. CASE wire.how = "cut"
    BY <2>5
  <2>6. CASE wire.how = "crc"
    BY <2>1, <2>6 DEF Outcome
  <2>7. CASE wire.how = "unsupported"
    BY <2>1, <2>7 DEF Outcome
  <2> QED
    BY <2>2, <2>4, <2>5, <2>6, <2>7
<1> HIDE DEF Step
<1>2. Spec => [][Step]_vars
  BY <1>1, WireInvariant, PTL DEF Spec
<1> QED
  BY <1>2 DEF Step, RoundTrip

(* What was cut short is understood as far as it goes, or not at all.      *)
THEOREM CutsForgeNothing == Spec => CutNeverForges
<1> DEFINE Step == wire.how = "cut" /\ wire' = NoMessage =>
             \/ rx'.ret # "CFE_SUCCESS"
             \/ rx'.h = wire.ph.h /\ rx'.code = wire.ph.code /\ FarAsItGoes(rx'.body, wire.ph.body)
<1>1. WireInv /\ [Next]_vars => [Step]_vars
  <2> SUFFICES ASSUME WireInv, Next, wire.how = "cut", wire' = NoMessage,
                      rx'.ret = "CFE_SUCCESS"
               PROVE  rx'.h = wire.ph.h /\ rx'.code = wire.ph.code
                        /\ FarAsItGoes(rx'.body, wire.ph.body)
    OBVIOUS
  <2>1. wire # NoMessage
    BY NoMessageIs
  <2>2. Outcome(rx', wire)
    BY <2>1, TakenIs
  <2> QED
    BY <2>2 DEF Outcome, AsFarAs
<1> HIDE DEF Step
<1>2. Spec => [][Step]_vars
  BY <1>1, WireInvariant, PTL DEF Spec
<1> QED
  BY <1>2 DEF Step, CutNeverForges
===============================================================================
