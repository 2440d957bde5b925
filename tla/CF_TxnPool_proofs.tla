--------------------------- MODULE CF_TxnPool_proofs ---------------------------
(***************************************************************************)
(* Theorems about CF_TxnPool: the queues agree with the transactions, no   *)
(* resource is lost or shared, the counters cover what they count, and the *)
(* order of arrival is kept, for every number of slots, history entries,   *)
(* playbacks and priorities and every limit.                               *)
(*                                                                         *)
(* ChannelOK is what every function of the code keeps; Marks says what the *)
(* many functions have in common that only mark transactions and count.    *)
(***************************************************************************)
EXTENDS CF_TxnPool, CF_Facts_proofs

OnQueue(c, q) == {t \in Used(c) : c.txns[t].q_index = q}
WithChunks(c, d) == {t \in Used(c) : c.txns[t].chunks /\ c.txns[t].dir = d}

(* A slot that is free is as memset left it; the queues and resources.     *)
ChannelOK(c) ==
  /\ c \in Channel
  /\ \A t \in Free(c) : c.txns[t] = Wiped
  /\ \A t \in Txns : c.txns[t].cmd_tx => c.txns[t].dir = "TX"
  /\ ToSet(c.pend) = OnQueue(c, "PEND") /\ IsInjective(c.pend)
  /\ ToSet(c.tx) = OnQueue(c, "TX") /\ IsInjective(c.tx)
  /\ Len(c.hist) + Len(c.hist_free) + Cardinality(Used(c)) = NumHistories
  /\ \A d \in Dirs : c.cs[d] + Cardinality(WithChunks(c, d)) = NumTxns

(* CountersCoverUnfinished, of a channel.                                  *)
Covered(c) ==
  /\ c.num_cmd_tx \in Cardinality(Commanded(c)) .. MaxCmdTx
  /\ \A p \in Playbacks :
       c.pb[p].num_ts \in Cardinality(PlayedBack(c, p)) .. TxnsPerPlayback

(* The two action properties, of a channel before and after.               *)
KeepsHold(c, d) ==
  \A t \in Txns : c.txns[t].state = "HOLD" => d.txns[t].state # "ACTIVE"

KeepsOrder(c, d) ==
  \A t, u \in ToSet(d.pend) :
    /\ u \in ToSet(c.pend)
    /\ t \in ToSet(c.pend) => Precedes(c.pend, u, t)
    /\ t \notin ToSet(c.pend) => d.txns[u].priority <= d.txns[t].priority
    => Precedes(d.pend, u, t)

(* From c to d nothing moves: transactions change their state, the status  *)
(* or the history flag, history entries their list, and counters count.    *)
Marks(c, d) ==
  /\ d \in Channel
  /\ d.pend = c.pend /\ d.tx = c.tx /\ d.cs = c.cs
  /\ Len(d.hist) + Len(d.hist_free) = Len(c.hist) + Len(c.hist_free)
  /\ \A t \in Txns :
       /\ d.txns[t].q_index = c.txns[t].q_index
       /\ d.txns[t].dir = c.txns[t].dir
       /\ d.txns[t].chunks = c.txns[t].chunks
       /\ d.txns[t].cmd_tx = c.txns[t].cmd_tx
       /\ d.txns[t].pb = c.txns[t].pb
       /\ c.txns[t].state = "UNDEF" => d.txns[t] = c.txns[t]
       /\ c.txns[t].state # "UNDEF" => d.txns[t].state # "UNDEF"

-------------------------------------------------------------------------------
(* Numbers and sets of slots. *)

LEMMA ModSmall ==
  ASSUME NEW n \in Counter
  PROVE  n % CounterModulus = n
BY ModulusAssumption DEF Counter

LEMMA ModCounter ==
  ASSUME NEW n \in Int
  PROVE  n % CounterModulus \in Counter
BY ModulusAssumption DEF Counter

LEMMA SlotSets ==
  ASSUME NEW T \in SUBSET Txns
  PROVE  IsFiniteSet(T) /\ Cardinality(T) \in Nat /\ Cardinality(T) <= NumTxns
<1>1. NumTxns \in Nat
  BY LimitsAssumption
<1>2. IsFiniteSet(Txns) /\ Cardinality(Txns) = NumTxns
  BY <1>1, FS_Interval DEF Txns
<1> QED
  BY <1>2, FS_Subset, FS_CardinalityType

LEMMA OneMore ==
  ASSUME NEW T \in SUBSET Txns, NEW t \in Txns \ T
  PROVE  Cardinality(T \cup {t}) = Cardinality(T) + 1
BY SlotSets, FS_AddElement

LEMMA OneLess ==
  ASSUME NEW T \in SUBSET Txns, NEW t \in T
  PROVE  Cardinality(T \ {t}) = Cardinality(T) - 1
BY SlotSets, FS_RemoveElement

LEMMA NoMore ==
  ASSUME NEW T \in SUBSET Txns, NEW U \in SUBSET T
  PROVE  Cardinality(U) <= Cardinality(T)
BY SlotSets, FS_Subset

LEMMA UsedAndFree ==
  ASSUME NEW c
  PROVE  /\ Free(c) \in SUBSET Txns /\ Used(c) \in SUBSET Txns
         /\ Cardinality(Used(c)) + Cardinality(Free(c)) = NumTxns
<1>1. Free(c) \in SUBSET Txns /\ Used(c) = Txns \ Free(c)
  BY DEF Free, Used
<1>2. IsFiniteSet(Txns) /\ Cardinality(Txns) = NumTxns
  BY LimitsAssumption, FS_Interval DEF Txns
<1>3. Txns \cap Free(c) = Free(c)
  BY <1>1
<1>4. Cardinality(Txns \ Free(c)) = Cardinality(Txns) - Cardinality(Free(c))
  BY <1>1, <1>2, <1>3, FS_Difference, SlotSets
<1> QED
  BY <1>1, <1>2, <1>4, SlotSets, LimitsAssumption

-------------------------------------------------------------------------------
(* What only marks transactions. *)

LEMMA MarksOK ==
  ASSUME NEW c, NEW d, ChannelOK(c), Marks(c, d)
  PROVE  /\ ChannelOK(d) /\ KeepsOrder(c, d)
         /\ Used(d) = Used(c) /\ Free(d) = Free(c) /\ OnRx(d) = OnRx(c)
<1>1. Free(d) = Free(c)
  <2>1. \A t \in Txns : d.txns[t].state = "UNDEF" <=> c.txns[t].state = "UNDEF"
    BY Zenon DEF Marks
  <2> QED
    BY <2>1, Zenon DEF Free
<1>2. Used(d) = Used(c)
  BY <1>1, Zenon DEF Used
<1>3. \A t \in Used(c) : t \in Txns
  BY DEF Used
<1>4. \A q : OnQueue(d, q) = OnQueue(c, q)
  BY <1>2, <1>3, Zenon DEF OnQueue, Marks
<1>5. OnRx(d) = OnRx(c)
  BY <1>2, <1>3, Zenon DEF OnRx, Marks
<1>6. \A q : WithChunks(d, q) = WithChunks(c, q)
  BY <1>2, <1>3, Zenon DEF WithChunks, Marks
<1>7. ChannelOK(d)
  <2>1. d \in Channel
    BY DEF Marks
  <2>2. \A t \in Free(d) : d.txns[t] = Wiped
    BY <1>1, Zenon DEF ChannelOK, Free, Marks
  <2>3. \A t \in Txns : d.txns[t].cmd_tx => d.txns[t].dir = "TX"
    BY Zenon DEF ChannelOK, Marks
  <2>4. /\ ToSet(d.pend) = OnQueue(d, "PEND") /\ IsInjective(d.pend)
        /\ ToSet(d.tx) = OnQueue(d, "TX") /\ IsInjective(d.tx)
    BY <1>4, Zenon DEF ChannelOK, Marks
  <2>5. Len(d.hist) + Len(d.hist_free) + Cardinality(Used(d)) = NumHistories
    BY <1>2, Zenon DEF ChannelOK, Marks
  <2>6. \A q \in Dirs : d.cs[q] + Cardinality(WithChunks(d, q)) = NumTxns
    BY <1>6, Zenon DEF ChannelOK, Marks
  <2> QED
    BY <2>1, <2>2, <2>3, <2>4, <2>5, <2>6 DEF ChannelOK
<1>8. KeepsOrder(c, d)
  BY Zenon DEF KeepsOrder, Marks
<1> QED
  BY <1>1, <1>2, <1>5, <1>7, <1>8

(* Ending without counting out covers all the better.                      *)
LEMMA CoveredLess ==
  ASSUME NEW c, NEW d, Covered(c),
         Commanded(d) \subseteq Commanded(c),
         \A p \in Playbacks : PlayedBack(d, p) \subseteq PlayedBack(c, p),
         d.num_cmd_tx = c.num_cmd_tx,
         \A p \in Playbacks : d.pb[p].num_ts = c.pb[p].num_ts
  PROVE  Covered(d)
<1>1. Unfinished(c) \in SUBSET Txns
  BY DEF Unfinished, Used
<1>2. Commanded(d) \in SUBSET Commanded(c) /\ Commanded(c) \in SUBSET Txns
  BY <1>1 DEF Commanded
<1>3. \A p \in Playbacks :
        PlayedBack(d, p) \in SUBSET PlayedBack(c, p) /\ PlayedBack(c, p) \in SUBSET Txns
  BY <1>1 DEF PlayedBack
<1>4. Commanded(d) \in SUBSET Txns /\ \A p \in Playbacks : PlayedBack(d, p) \in SUBSET Txns
  BY <1>2, <1>3
<1>5. Cardinality(Commanded(d)) <= Cardinality(Commanded(c))
  BY <1>2, NoMore
<1>6. \A p \in Playbacks : Cardinality(PlayedBack(d, p)) <= Cardinality(PlayedBack(c, p))
  BY <1>3, NoMore
<1>7. \A T \in SUBSET Txns : Cardinality(T) \in Nat
  BY SlotSets
<1>8. d.num_cmd_tx \in Cardinality(Commanded(d)) .. MaxCmdTx
  BY <1>2, <1>4, <1>5, <1>7 DEF Covered
<1>9. ASSUME NEW p \in Playbacks
      PROVE  d.pb[p].num_ts \in Cardinality(PlayedBack(d, p)) .. TxnsPerPlayback
  <2>1. c.pb[p].num_ts \in Cardinality(PlayedBack(c, p)) .. TxnsPerPlayback
    BY Zenon DEF Covered
  <2> QED
    BY <1>3, <1>4, <1>6, <1>7, <2>1
<1> QED
  BY <1>8, <1>9 DEF Covered

LEMMA CoveredStays ==
  ASSUME NEW c, NEW d, Covered(c),
         \A t \in Unfinished(d) : /\ t \in Unfinished(c)
                                 /\ d.txns[t].cmd_tx = c.txns[t].cmd_tx
                                 /\ d.txns[t].pb = c.txns[t].pb,
         d.num_cmd_tx = c.num_cmd_tx,
         \A p \in Playbacks : d.pb[p].num_ts = c.pb[p].num_ts
  PROVE  Covered(d)
<1>1. Commanded(d) \subseteq Commanded(c)
  BY Zenon DEF Commanded
<1>2. \A p \in Playbacks : PlayedBack(d, p) \subseteq PlayedBack(c, p)
  BY Zenon DEF PlayedBack
<1> QED
  BY <1>1, <1>2, CoveredLess

LEMMA MarksCovered ==
  ASSUME NEW c, NEW d, Marks(c, d), Covered(c), Unfinished(d) \subseteq Unfinished(c),
         d.num_cmd_tx = c.num_cmd_tx,
         \A p \in Playbacks : d.pb[p].num_ts = c.pb[p].num_ts
  PROVE  Covered(d)
<1>1. \A t \in Unfinished(c) : t \in Txns
  BY DEF Unfinished, Used
<1>2. \A t \in Unfinished(d) : /\ t \in Unfinished(c)
                              /\ d.txns[t].cmd_tx = c.txns[t].cmd_tx
                              /\ d.txns[t].pb = c.txns[t].pb
  BY <1>1, Zenon DEF Marks
<1> QED
  BY <1>2, CoveredStays

-------------------------------------------------------------------------------
(* The queues. *)

LEMMA InsertSortPrioOK ==
  ASSUME NEW c, NEW queue \in Seq(Txns), NEW t \in Txns,
         IsInjective(queue), t \notin ToSet(queue),
         \A u \in Txns : c.txns[u].priority \in Nat
  PROVE  /\ InsertSortPrio(c, queue, t) \in Seq(Txns)
         /\ \A u : u \in ToSet(InsertSortPrio(c, queue, t)) <=> u \in ToSet(queue) \/ u = t
         /\ IsInjective(InsertSortPrio(c, queue, t))
         /\ \A u, v \in ToSet(queue) : Precedes(queue, u, v) =>
              Precedes(InsertSortPrio(c, queue, t), u, v)
         /\ \A u \in ToSet(queue) : c.txns[u].priority <= c.txns[t].priority =>
              Precedes(InsertSortPrio(c, queue, t), u, t)
<1> DEFINE Urgent == {i \in DOMAIN queue : c.txns[queue[i]].priority <= c.txns[t].priority}
<1>1. Len(queue) \in Nat /\ DOMAIN queue = 1 .. Len(queue)
  BY LenProperties
<1>2. CASE Urgent = {}
  <2>1. InsertSortPrio(c, queue, t) = Append(queue, t)
    BY <1>2, Zenon DEF InsertSortPrio
  <2>2. \A u \in ToSet(queue) : ~(c.txns[u].priority <= c.txns[t].priority)
    BY <1>2, Zenon DEF ToSet
  <2> QED
    BY <2>1, <2>2, AppendSet
<1>3. CASE Urgent # {}
  <2> DEFINE i == Max(Urgent) + 1
  <2>1. Urgent \subseteq 0 .. Len(queue)
    BY <1>1
  <2>2. Max(Urgent) \in Urgent /\ \A j \in Urgent : j <= Max(Urgent)
    BY <1>1, <1>3, <2>1, MaxProperties
  <2>3. i \in 1 .. Len(queue) + 1
    <3> DEFINE last == Max(Urgent)
    <3>1. last \in 1 .. Len(queue) /\ i = last + 1
      BY <1>1, <2>2, Zenon
    <3> HIDE DEF last, i
    <3> QED
      BY <1>1, <3>1
  <2>4. InsertSortPrio(c, queue, t) = InsertAt(queue, i, t)
    BY <1>3, Zenon DEF InsertSortPrio
  <2>5. ASSUME NEW u \in ToSet(queue), c.txns[u].priority <= c.txns[t].priority
        PROVE  \E j \in 1 .. i - 1 : u = queue[j]
    <3>1. PICK j \in DOMAIN queue : u = queue[j]
      BY DEF ToSet
    <3>2. j \in Urgent
      BY <2>5, <3>1
    <3> DEFINE last == Max(Urgent)
    <3>3. j \in 1 .. Len(queue) /\ last \in 1 .. Len(queue) /\ j <= last /\ i = last + 1
      BY <1>1, <2>2, <3>2, Zenon
    <3> HIDE DEF last, i
    <3>4. j \in 1 .. i - 1
      BY <1>1, <3>3
    <3> QED
      BY <3>1, <3>4
  <2> HIDE DEF i, Urgent
  <2>6. LET r == InsertAt(queue, i, t)
        IN  /\ r \in Seq(Txns) /\ Len(r) = Len(queue) + 1
            /\ ToSet(r) = ToSet(queue) \cup {t}
            /\ IsInjective(r)
            /\ \A u, v \in ToSet(queue) : Precedes(queue, u, v) => Precedes(r, u, v)
            /\ \A j \in 1 .. i - 1 : Precedes(r, queue[j], t)
    BY <2>3, InsertAtSet
  <2>7. \A u \in ToSet(queue) : c.txns[u].priority <= c.txns[t].priority =>
          Precedes(InsertAt(queue, i, t), u, t)
    BY <2>5, <2>6
  <2> QED
    BY <2>4, <2>6, <2>7
<1> QED
  BY <1>2, <1>3

-------------------------------------------------------------------------------
(* The functions that mark. *)

LEMMA SetTxnErrorMarks ==
  ASSUME NEW c, ChannelOK(c), NEW t \in Used(c)
  PROVE  /\ Marks(c, SetTxnError(c, t)) /\ KeepsHold(c, SetTxnError(c, t))
         /\ Covered(c) => Covered(SetTxnError(c, t))
         /\ \A u \in Txns : SetTxnError(c, t).txns[u].state = c.txns[u].state
<1> DEFINE d == SetTxnError(c, t)
<1>1. c \in Channel /\ t \in Txns /\ c.txns[t].state # "UNDEF"
  BY DEF ChannelOK, Used, Free
<1>2. c.txns \in [Txns -> Transaction]
  BY <1>1 DEF Channel
<1>3. /\ d.txns = [c.txns EXCEPT ![t] = [@ EXCEPT !.txn_stat = "ERROR"]]
      /\ d.pend = c.pend /\ d.tx = c.tx /\ d.cs = c.cs /\ d.hist = c.hist
      /\ d.hist_free = c.hist_free /\ d.num_cmd_tx = c.num_cmd_tx /\ d.pb = c.pb
  BY <1>1 DEF SetTxnError, Channel
<1>4. c.txns[t] \in Transaction
  BY <1>1, <1>2
<1>5. [c.txns[t] EXCEPT !.txn_stat = "ERROR"] \in Transaction
  BY <1>4 DEF Transaction, TxnStatus
<1>6. d \in Channel
  <2>1. d.txns \in [Txns -> Transaction]
    BY <1>1, <1>2, <1>3, <1>5
  <2>2. d = [c EXCEPT !.txns = d.txns]
    BY <1>1, <1>3 DEF SetTxnError, Channel
  <2> HIDE DEF d
  <2> QED
    BY <1>1, <2>1, <2>2 DEF Channel
<1> HIDE DEF d
<1>7. /\ \A u \in Txns : u # t => d.txns[u] = c.txns[u]
      /\ d.txns[t] = [c.txns[t] EXCEPT !.txn_stat = "ERROR"]
  BY <1>1, <1>2, <1>3
<1>8. /\ d.txns[t].state = c.txns[t].state /\ d.txns[t].q_index = c.txns[t].q_index
      /\ d.txns[t].dir = c.txns[t].dir /\ d.txns[t].chunks = c.txns[t].chunks
      /\ d.txns[t].cmd_tx = c.txns[t].cmd_tx /\ d.txns[t].pb = c.txns[t].pb
  BY <1>4, <1>7 DEF Transaction
<1>9. Marks(c, d)
  BY <1>1, <1>3, <1>6, <1>7, <1>8, Zenon DEF Marks
<1>10. KeepsHold(c, d)
  BY <1>7, <1>8 DEF KeepsHold
<1>11. Unfinished(d) \subseteq Unfinished(c)
  <2>1. Used(d) = Used(c) /\ \A u \in Used(c) : u \in Txns
    BY <1>9, MarksOK DEF Used
  <2> QED
    BY <1>7, <1>8, <2>1 DEF Unfinished
<1>12. Covered(c) => Covered(d)
  BY <1>3, <1>9, <1>10, <1>11, MarksCovered
<1>13. \A u \in Txns : d.txns[u].state = c.txns[u].state
  BY <1>7, <1>8
<1> QED
  BY <1>9, <1>10, <1>12, <1>13, Zenon DEF d

LEMMA PurgeHistoryMarks ==
  ASSUME NEW c, ChannelOK(c)
  PROVE  Marks(c, PurgeHistory(c)) /\ KeepsHold(c, PurgeHistory(c))
<1> DEFINE d == PurgeHistory(c)
<1>1. c \in Channel
  BY DEF ChannelOK
<1>2. /\ d.txns = c.txns /\ d.pend = c.pend /\ d.tx = c.tx /\ d.cs = c.cs
      /\ d.hist = <<>> /\ d.hist_free = c.hist_free \o c.hist
      /\ d = [c EXCEPT !.hist_free = d.hist_free, !.hist = d.hist]
  BY <1>1 DEF PurgeHistory, Channel
<1>3. c.hist \in Seq(TxnStatus) /\ c.hist_free \in Seq(TxnStatus)
  BY <1>1 DEF Channel
<1> HIDE DEF d
<1>4. /\ d.hist \in Seq(TxnStatus) /\ d.hist_free \in Seq(TxnStatus)
      /\ Len(d.hist) = 0 /\ Len(d.hist_free) = Len(c.hist_free) + Len(c.hist)
  BY <1>2, <1>3
<1>5. d \in Channel
  BY <1>1, <1>2, <1>4 DEF Channel
<1>6. Len(d.hist) + Len(d.hist_free) = Len(c.hist) + Len(c.hist_free)
  <2>1. Len(c.hist) \in Nat /\ Len(c.hist_free) \in Nat
    BY <1>3, LenProperties
  <2>2. \A m, n \in Nat : 0 + (n + m) = m + n
    OBVIOUS
  <2> QED
    BY <1>4, <2>1, <2>2, Zenon
<1>7. Marks(c, d)
  BY <1>2, <1>5, <1>6, Zenon DEF Marks
<1>8. KeepsHold(c, d)
  BY <1>2 DEF KeepsHold
<1> QED
  BY <1>7, <1>8 DEF d

LEMMA PlaybackDir_InitiateMarks ==
  ASSUME NEW c, ChannelOK(c), NEW p \in Playbacks, NEW priority \in Priorities
  PROVE  LET d == PlaybackDir_Initiate(c, p, priority)
         IN  Marks(c, d) /\ KeepsHold(c, d) /\ (Covered(c) => Covered(d))
<1> DEFINE d == PlaybackDir_Initiate(c, p, priority)
           b == [c.pb[p] EXCEPT !.busy = TRUE, !.diropen = TRUE, !.priority = priority]
<1>1. c \in Channel /\ c.pb \in [Playbacks -> Playback]
  BY DEF ChannelOK, Channel
<1>2. c.pb[p] \in Playback
  BY <1>1
<1>3. b \in Playback /\ b.num_ts = c.pb[p].num_ts
  BY <1>2 DEF Playback
<1>4. d = [c EXCEPT !.pb = [c.pb EXCEPT ![p] = b]]
  <2>1. d = [c EXCEPT !.pb[p].busy = TRUE, !.pb[p].diropen = TRUE,
                      !.pb[p].priority = priority]
    BY DEF PlaybackDir_Initiate
  <2>2. d.pb = [c.pb EXCEPT ![p] = b]
    <3>1. d.pb = [[[c.pb EXCEPT ![p].busy = TRUE] EXCEPT ![p].diropen = TRUE]
                     EXCEPT ![p].priority = priority]
      BY <1>1, <2>1 DEF Channel
    <3> QED
      BY <1>1, <1>2, <3>1 DEF Playback
  <2> QED
    BY <1>1, <2>1, <2>2 DEF Channel
<1> HIDE DEF b, d
<1>5. /\ d.txns = c.txns /\ d.pend = c.pend /\ d.tx = c.tx /\ d.cs = c.cs
      /\ d.hist = c.hist /\ d.hist_free = c.hist_free /\ d.num_cmd_tx = c.num_cmd_tx
      /\ d.pb = [c.pb EXCEPT ![p] = b]
  BY <1>1, <1>4 DEF Channel
<1>6. d.pb \in [Playbacks -> Playback]
  BY <1>1, <1>3, <1>5
<1>7. d \in Channel
  BY <1>1, <1>4, <1>5, <1>6 DEF Channel
<1>8. Marks(c, d)
  BY <1>5, <1>7, Zenon DEF Marks
<1>9. KeepsHold(c, d)
  BY <1>5 DEF KeepsHold
<1>10. Unfinished(d) \subseteq Unfinished(c)
  <2>1. Used(d) = Used(c)
    BY <1>8, MarksOK
  <2> QED
    BY <1>5, <2>1 DEF Unfinished
<1>11. \A q \in Playbacks : d.pb[q].num_ts = c.pb[q].num_ts
  BY <1>1, <1>3, <1>5
<1>12. Covered(c) => Covered(d)
  BY <1>5, <1>8, <1>9, <1>10, <1>11, MarksCovered
<1> QED
  BY <1>8, <1>9, <1>12 DEF d

LEMMA DecLess ==
  ASSUME NEW n \in Counter, n # 0
  PROVE  Dec(n) = n - 1
<1>1. n - 1 \in Counter
  BY ModulusAssumption DEF Counter
<1> QED
  BY <1>1, ModSmall DEF Dec

LEMMA IncMore ==
  ASSUME NEW n \in Nat, n + 1 < CounterModulus
  PROVE  Inc(n) = n + 1
<1>1. n + 1 \in Counter
  BY ModulusAssumption DEF Counter
<1> QED
  BY <1>1, ModSmall DEF Inc

LEMMA FinishTransactionMarks ==
  ASSUME NEW c, ChannelOK(c), NEW t \in Used(c), NEW keep \in BOOLEAN
  PROVE  LET d == FinishTransaction(c, t, keep)
         IN  /\ Marks(c, d) /\ KeepsHold(c, d)
             /\ c.txns[t].state = "ACTIVE" /\ Covered(c) => Covered(d)
<1> DEFINE d == FinishTransaction(c, t, keep)
           txn == c.txns[t]
           done == [txn EXCEPT !.state = "HOLD", !.keep_history = keep]
           num == IF txn.dir = "TX" /\ txn.cmd_tx THEN Dec(c.num_cmd_tx) ELSE c.num_cmd_tx
           pb == [p \in Playbacks |->
                    IF p = txn.pb THEN [c.pb[p] EXCEPT !.num_ts = Dec(@)] ELSE c.pb[p]]
<1>1. c \in Channel /\ t \in Txns /\ txn.state # "UNDEF"
  BY DEF ChannelOK, Used, Free
<1>2. /\ c.txns \in [Txns -> Transaction] /\ c.num_cmd_tx \in Counter
      /\ c.pb \in [Playbacks -> Playback]
  BY <1>1 DEF Channel
<1>3. txn \in Transaction
  BY <1>1, <1>2
<1>4. done \in Transaction
  BY <1>3 DEF Transaction
<1>5. /\ done.state = "HOLD" /\ done.q_index = txn.q_index /\ done.dir = txn.dir
      /\ done.chunks = txn.chunks /\ done.cmd_tx = txn.cmd_tx /\ done.pb = txn.pb
  BY <1>3 DEF Transaction
<1>6. \A n \in Counter : Dec(n) \in Counter
  <2>1. \A n \in Counter : n - 1 \in Int
    BY DEF Counter
  <2> QED
    BY <2>1, ModCounter DEF Dec
<1>7. num \in Counter
  BY <1>2, <1>6
<1>8. \A p \in Playbacks : c.pb[p] \in Playback /\ c.pb[p].num_ts \in Counter
  BY <1>2 DEF Playback
<1>9. pb \in [Playbacks -> Playback]
  <2>1. ASSUME NEW p \in Playbacks PROVE [c.pb[p] EXCEPT !.num_ts = Dec(@)] \in Playback
    BY <1>6, <1>8 DEF Playback
  <2> QED
    BY <1>8, <2>1
<1>10. d = [c EXCEPT !.txns = [c.txns EXCEPT ![t] = done],
                     !.num_cmd_tx = num, !.pb = pb]
  <2>1. d = [c EXCEPT !.txns[t].state = "HOLD", !.txns[t].keep_history = keep,
                      !.num_cmd_tx = num, !.pb = pb]
    <3> DEFINE e == [c EXCEPT !.txns[t].state = "HOLD", !.txns[t].keep_history = keep]
    <3>1. e.num_cmd_tx = c.num_cmd_tx /\ e.pb = c.pb
      BY <1>1 DEF Channel
    <3>2. e = [c EXCEPT !.txns = e.txns]
      BY <1>1 DEF Channel
    <3>3. d = [e EXCEPT !.num_cmd_tx = IF txn.dir = "TX" /\ txn.cmd_tx THEN Dec(@) ELSE @,
                        !.pb = pb]
      BY DEF FinishTransaction
    <3> HIDE DEF e, pb
    <3>4. d.num_cmd_tx = num
      BY <1>1, <3>1, <3>2, <3>3 DEF Channel
    <3>5. d.pb = pb
      BY <1>1, <3>1, <3>2, <3>3 DEF Channel
    <3>6. d = [e EXCEPT !.num_cmd_tx = num, !.pb = pb]
      BY <1>1, <3>1, <3>2, <3>3, <3>4, <3>5 DEF Channel
    <3> QED
      BY <3>6 DEF e
  <2>2. d.txns = [c.txns EXCEPT ![t] = done]
    <3>1. d.txns = [[c.txns EXCEPT ![t].state = "HOLD"] EXCEPT ![t].keep_history = keep]
      BY <1>1, <2>1 DEF Channel
    <3> QED
      BY <1>1, <1>2, <1>3, <3>1 DEF Transaction
  <2> QED
    BY <1>1, <2>1, <2>2 DEF Channel
<1> HIDE DEF done, num, pb, d
<1>11. /\ d.txns = [c.txns EXCEPT ![t] = done] /\ d.num_cmd_tx = num /\ d.pb = pb
       /\ d.pend = c.pend /\ d.tx = c.tx /\ d.cs = c.cs
       /\ d.hist = c.hist /\ d.hist_free = c.hist_free
  BY <1>1, <1>10 DEF Channel
<1>12. /\ d.txns[t] = done
       /\ \A u \in Txns : u # t => d.txns[u] = c.txns[u]
  BY <1>1, <1>2, <1>11
<1>13. d \in Channel
  <2>1. [c.txns EXCEPT ![t] = done] \in [Txns -> Transaction]
    BY <1>1, <1>2, <1>4
  <2> QED
    BY <1>1, <1>7, <1>9, <1>10, <2>1 DEF Channel
<1>14. Marks(c, d)
  BY <1>1, <1>5, <1>11, <1>12, <1>13, Zenon DEF Marks
<1>15. KeepsHold(c, d)
  BY <1>5, <1>12 DEF KeepsHold
<1>16. ASSUME txn.state = "ACTIVE", Covered(c)
       PROVE  Covered(d)
  <2>1. Used(d) = Used(c) /\ \A u \in Used(c) : u \in Txns
    BY <1>14, MarksOK DEF Used
  <2>2. Unfinished(d) = Unfinished(c) \ {t} /\ t \in Unfinished(c)
    BY <1>5, <1>12, <1>16, <2>1 DEF Unfinished
  <2>3. Commanded(d) = Commanded(c) \ {t}
    BY <1>14, <2>1, <2>2, Zenon DEF Commanded, Marks, Unfinished
  <2>4. \A p : PlayedBack(d, p) = PlayedBack(c, p) \ {t}
    BY <1>14, <2>1, <2>2, Zenon DEF PlayedBack, Marks, Unfinished
  <2>5. /\ Commanded(c) \in SUBSET Txns
        /\ \A p : PlayedBack(c, p) \in SUBSET Txns
    BY DEF Commanded, PlayedBack, Unfinished, Used
  <2>6. d.num_cmd_tx \in Cardinality(Commanded(d)) .. MaxCmdTx
    <3>1. c.num_cmd_tx \in Cardinality(Commanded(c)) .. MaxCmdTx
      BY <1>16, Zenon DEF Covered
    <3>2. Cardinality(Commanded(c)) \in Nat
      BY <2>5, SlotSets
    <3>3. CASE txn.cmd_tx
      <4>1. t \in Commanded(c)
        BY <2>2, <3>3, Zenon DEF Commanded
      <4>2. Cardinality(Commanded(d)) = Cardinality(Commanded(c)) - 1
        BY <2>3, <2>5, <4>1, OneLess
      <4>3. Commanded(d) \in SUBSET Txns
        BY <2>3, <2>5
      <4>4. Cardinality(Commanded(d)) \in Nat
        BY <4>3, SlotSets
      <4>5. c.num_cmd_tx # 0
        BY <3>1, <3>2, <4>2, <4>4
      <4>6. txn.dir = "TX"
        BY <1>1, <3>3, Zenon DEF ChannelOK
      <4>7. num = c.num_cmd_tx - 1
        BY <1>2, <3>3, <4>5, <4>6, DecLess DEF num
      <4> QED
        BY <1>2, <1>11, <3>1, <3>2, <4>2, <4>4, <4>7, LimitsAssumption DEF Counter
    <3>4. CASE ~txn.cmd_tx
      <4>1. t \notin Commanded(c)
        BY <3>4, Zenon DEF Commanded
      <4>2. Commanded(d) = Commanded(c)
        BY <2>3, <4>1
      <4>3. num = c.num_cmd_tx
        BY <3>4, Zenon DEF num
      <4> QED
        BY <1>11, <3>1, <4>2, <4>3
    <3> QED
      BY <3>3, <3>4
  <2>7. ASSUME NEW p \in Playbacks
        PROVE  d.pb[p].num_ts \in Cardinality(PlayedBack(d, p)) .. TxnsPerPlayback
    <3>1. c.pb[p].num_ts \in Cardinality(PlayedBack(c, p)) .. TxnsPerPlayback
      BY <1>16, Zenon DEF Covered
    <3>2. Cardinality(PlayedBack(c, p)) \in Nat
      BY <2>5, SlotSets
    <3>3. CASE txn.pb = p
      <4>1. t \in PlayedBack(c, p)
        BY <2>2, <3>3, Zenon DEF PlayedBack
      <4>2. Cardinality(PlayedBack(d, p)) = Cardinality(PlayedBack(c, p)) - 1
        BY <2>4, <2>5, <4>1, OneLess
      <4>3. PlayedBack(d, p) \in SUBSET Txns
        BY <2>4, <2>5
      <4>4. Cardinality(PlayedBack(d, p)) \in Nat
        BY <4>3, SlotSets
      <4>5. c.pb[p].num_ts # 0
        BY <3>1, <3>2, <4>2, <4>4
      <4>6. d.pb[p].num_ts = Dec(c.pb[p].num_ts)
        BY <1>8, <1>11, <3>3 DEF pb, Playback
      <4>7. d.pb[p].num_ts = c.pb[p].num_ts - 1
        BY <1>8, <4>5, <4>6, DecLess
      <4> QED
        BY <1>8, <3>1, <3>2, <4>2, <4>4, <4>7, LimitsAssumption DEF Counter
    <3>4. CASE txn.pb # p
      <4>1. t \notin PlayedBack(c, p)
        BY <3>4, Zenon DEF PlayedBack
      <4>2. PlayedBack(d, p) = PlayedBack(c, p)
        BY <2>4, <4>1
      <4>3. d.pb[p] = c.pb[p]
        BY <1>11, <3>4 DEF pb
      <4> QED
        BY <3>1, <4>2, <4>3
    <3> QED
      BY <3>3, <3>4
  <2> QED
    BY <2>6, <2>7 DEF Covered
<1> QED
  BY <1>14, <1>15, <1>16 DEF d

LEMMA FinishAllMarks ==
  ASSUME NEW c, ChannelOK(c), NEW targets \in SUBSET Used(c)
  PROVE  Marks(c, FinishAll(c, targets)) /\ KeepsHold(c, FinishAll(c, targets))
<1> DEFINE d == FinishAll(c, targets)
           done(t) == [c.txns[t] EXCEPT !.state = "HOLD", !.keep_history = FALSE]
           txns == [t \in Txns |-> IF t \in targets THEN done(t) ELSE c.txns[t]]
           commandedTx == {t \in targets : c.txns[t].dir = "TX" /\ c.txns[t].cmd_tx}
           num == (c.num_cmd_tx - Cardinality(commandedTx)) % CounterModulus
           left(p) == (c.pb[p].num_ts - Cardinality({t \in targets : c.txns[t].pb = p}))
                        % CounterModulus
           pb == [p \in Playbacks |-> [c.pb[p] EXCEPT !.num_ts = left(p)]]
<1>1. c \in Channel /\ \A t \in Used(c) : t \in Txns /\ c.txns[t].state # "UNDEF"
  BY DEF ChannelOK, Used, Free
<1>2. /\ c.txns \in [Txns -> Transaction] /\ c.num_cmd_tx \in Counter
      /\ c.pb \in [Playbacks -> Playback]
  BY <1>1 DEF Channel
<1>3. targets \in SUBSET Txns
  BY <1>1
<1>4. ASSUME NEW t \in Txns
      PROVE  /\ done(t) \in Transaction
             /\ done(t).state = "HOLD" /\ done(t).q_index = c.txns[t].q_index
             /\ done(t).dir = c.txns[t].dir /\ done(t).chunks = c.txns[t].chunks
             /\ done(t).cmd_tx = c.txns[t].cmd_tx /\ done(t).pb = c.txns[t].pb
  <2>1. c.txns[t] \in Transaction
    BY <1>2
  <2> QED
    BY <2>1 DEF Transaction
<1>5. num \in Counter
  <2>1. commandedTx \in SUBSET Txns
    BY <1>3
  <2>2. Cardinality(commandedTx) \in Nat
    BY <2>1, SlotSets
  <2> HIDE DEF commandedTx
  <2>3. c.num_cmd_tx - Cardinality(commandedTx) \in Int
    BY <1>2, <2>2 DEF Counter
  <2> QED
    BY <2>3, ModCounter
<1>6. \A p \in Playbacks : c.pb[p] \in Playback /\ c.pb[p].num_ts \in Counter
  BY <1>2 DEF Playback
<1>7. ASSUME NEW p \in Playbacks PROVE left(p) \in Counter
  <2> DEFINE mine == {t \in targets : c.txns[t].pb = p}
  <2>1. mine \in SUBSET Txns
    BY <1>3
  <2>2. Cardinality(mine) \in Nat
    BY <2>1, SlotSets
  <2> HIDE DEF mine
  <2>3. c.pb[p].num_ts - Cardinality(mine) \in Int
    BY <1>6, <2>2 DEF Counter
  <2>4. (c.pb[p].num_ts - Cardinality(mine)) % CounterModulus \in Counter
    BY <2>3, ModCounter
  <2> QED
    BY <2>4 DEF mine
<1>8. d = [c EXCEPT !.txns = txns, !.num_cmd_tx = num, !.pb = pb]
  <2>1. d = [c EXCEPT !.txns = txns,
                      !.num_cmd_tx = (@ - Cardinality(commandedTx)) % CounterModulus,
                      !.pb = pb]
    BY DEF FinishAll
  <2> HIDE DEF txns, pb, d, commandedTx
  <2> QED
    BY <1>1, <2>1 DEF Channel
<1> HIDE DEF num, commandedTx
<1>9. txns \in [Txns -> Transaction]
  BY <1>2, <1>4
<1> HIDE DEF left
<1>10. pb \in [Playbacks -> Playback]
  <2>1. ASSUME NEW p \in Playbacks PROVE [c.pb[p] EXCEPT !.num_ts = left(p)] \in Playback
    BY <1>6, <1>7 DEF Playback
  <2> QED
    BY <2>1
<1> HIDE DEF d, pb
<1>11. /\ d.txns = txns /\ d.pend = c.pend /\ d.tx = c.tx /\ d.cs = c.cs
       /\ d.hist = c.hist /\ d.hist_free = c.hist_free
  <2> HIDE DEF txns
  <2> QED
    BY <1>1, <1>8 DEF Channel
<1>12. d \in Channel
  <2> HIDE DEF txns
  <2> QED
    BY <1>1, <1>5, <1>8, <1>9, <1>10 DEF Channel
<1> HIDE DEF done
<1>13. \A t \in Txns : IF t \in targets THEN d.txns[t] = done(t) ELSE d.txns[t] = c.txns[t]
  BY <1>11
<1>14. Marks(c, d)
  <2>1. \A t \in targets : t \in Txns /\ c.txns[t].state # "UNDEF"
    BY <1>1
  <2>2. ASSUME NEW t \in Txns
        PROVE  /\ d.txns[t].q_index = c.txns[t].q_index
               /\ d.txns[t].dir = c.txns[t].dir
               /\ d.txns[t].chunks = c.txns[t].chunks
               /\ d.txns[t].cmd_tx = c.txns[t].cmd_tx
               /\ d.txns[t].pb = c.txns[t].pb
               /\ c.txns[t].state = "UNDEF" => d.txns[t] = c.txns[t]
               /\ c.txns[t].state # "UNDEF" => d.txns[t].state # "UNDEF"
    <3>1. CASE t \in targets
      <4>1. d.txns[t] = done(t) /\ c.txns[t].state # "UNDEF"
        BY <1>13, <2>1, <3>1
      <4> QED
        BY <1>4, <4>1
    <3>2. CASE t \notin targets
      <4>1. d.txns[t] = c.txns[t]
        BY <1>13, <3>2
      <4> QED
        BY <4>1
    <3> QED
      BY <3>1, <3>2
  <2> QED
    BY <1>11, <1>12, <2>2 DEF Marks
<1>15. KeepsHold(c, d)
  BY <1>4, <1>13 DEF KeepsHold
<1> QED
  BY <1>14, <1>15 DEF d

-------------------------------------------------------------------------------
(* Chunk lists, queues and the end of a transaction. *)

(* d differs from c in one transaction, which keeps most of its fields.    *)
Only(t, c, d) ==
  /\ \A u \in Txns : u # t => d.txns[u] = c.txns[u]
  /\ d.num_cmd_tx = c.num_cmd_tx /\ d.pb = c.pb

SameOwner(t, c, d) ==
  /\ d.txns[t].state = c.txns[t].state /\ d.txns[t].dir = c.txns[t].dir
  /\ d.txns[t].priority = c.txns[t].priority
  /\ d.txns[t].cmd_tx = c.txns[t].cmd_tx /\ d.txns[t].pb = c.txns[t].pb

(* CF_CFDP_AllocChunkList always finds a chunk list.                       *)
LEMMA ChunkListLeft ==
  ASSUME NEW c, ChannelOK(c), NEW t \in Used(c), ~c.txns[t].chunks
  PROVE  c.cs[c.txns[t].dir] # 0
<1> DEFINE dir == c.txns[t].dir
<1>1. c \in Channel /\ t \in Txns
  BY DEF ChannelOK, Used
<1>2. dir \in Dirs
  <2>1. c.txns[t] \in Transaction
    BY <1>1 DEF Channel
  <2> QED
    BY <2>1 DEF Transaction
<1>3. WithChunks(c, dir) \in SUBSET Txns /\ t \in Txns \ WithChunks(c, dir)
  BY <1>1, Zenon DEF WithChunks, Used
<1>4. Cardinality(WithChunks(c, dir) \cup {t}) = Cardinality(WithChunks(c, dir)) + 1
  BY <1>3, OneMore
<1>5. WithChunks(c, dir) \cup {t} \in SUBSET Txns
  BY <1>3
<1>6. Cardinality(WithChunks(c, dir)) \in Nat /\ Cardinality(WithChunks(c, dir) \cup {t}) <= NumTxns
  BY <1>3, <1>5, SlotSets
<1>7. c.cs[dir] + Cardinality(WithChunks(c, dir)) = NumTxns
  BY <1>2, Zenon DEF ChannelOK
<1>8. NumTxns \in Nat
  BY LimitsAssumption
<1> HIDE DEF dir
<1>9. c.cs[dir] # 0
  BY <1>4, <1>6, <1>7, <1>8
<1> QED
  BY <1>9 DEF dir

LEMMA AllocChunkListOK ==
  ASSUME NEW c, ChannelOK(c), NEW t \in Used(c)
  PROVE  LET d == AllocChunkList(c, t)
         IN  /\ ChannelOK(d) /\ Used(d) = Used(c) /\ OnRx(d) = OnRx(c)
             /\ Only(t, c, d) /\ SameOwner(t, c, d)
             /\ d.txns[t].q_index = c.txns[t].q_index
             /\ TxnIsOK(c, t) => TxnIsOK(d, t)
             /\ d.pend = c.pend /\ d.tx = c.tx
<1>1. CASE c.txns[t].chunks
  <2>1. AllocChunkList(c, t) = c
    BY <1>1, Zenon DEF AllocChunkList
  <2>2. Only(t, c, c) /\ SameOwner(t, c, c)
    BY Zenon DEF Only, SameOwner
  <2> QED
    BY <2>1, <2>2, Zenon
<1>2. CASE ~c.txns[t].chunks
  <2> DEFINE dir == c.txns[t].dir
             d == AllocChunkList(c, t)
             given == [c.txns[t] EXCEPT !.chunks = TRUE]
             cs == [c.cs EXCEPT ![dir] = @ - 1]
  <2>1. c \in Channel /\ t \in Txns /\ c.txns[t].state # "UNDEF"
    BY DEF ChannelOK, Used, Free
  <2>2. c.txns \in [Txns -> Transaction] /\ c.cs \in [Dirs -> 0 .. NumTxns]
    BY <2>1 DEF Channel
  <2>3. c.txns[t] \in Transaction
    BY <2>1, <2>2
  <2>4. dir \in Dirs
    BY <2>3 DEF Transaction
  <2>5. given \in Transaction
    BY <2>3 DEF Transaction
  <2>6. /\ given.chunks /\ given.state = c.txns[t].state
        /\ given.q_index = c.txns[t].q_index /\ given.dir = dir
        /\ given.priority = c.txns[t].priority /\ given.cmd_tx = c.txns[t].cmd_tx
        /\ given.pb = c.txns[t].pb /\ given.txn_stat = c.txns[t].txn_stat
    BY <2>3 DEF Transaction
  <2>7. c.cs[dir] # 0
    BY <1>2, ChunkListLeft
  <2>8. cs \in [Dirs -> 0 .. NumTxns] /\ cs[dir] = c.cs[dir] - 1
        /\ \A q \in Dirs : q # dir => cs[q] = c.cs[q]
    BY <2>2, <2>4, <2>7, LimitsAssumption
  <2>9. d = [c EXCEPT !.cs = cs, !.txns = [c.txns EXCEPT ![t] = given]]
    <3>1. d = [c EXCEPT !.cs[dir] = @ - 1, !.txns[t].chunks = TRUE]
      BY <1>2, <2>7, Zenon DEF AllocChunkList
    <3> HIDE DEF d
    <3>2. d = [c EXCEPT !.cs = cs, !.txns[t].chunks = TRUE]
      BY <2>1, <3>1 DEF Channel
    <3> HIDE DEF cs
    <3> QED
      BY <2>1, <3>2 DEF Channel
  <2> HIDE DEF d, cs, given
  <2>10. /\ d.txns = [c.txns EXCEPT ![t] = given] /\ d.cs = cs
         /\ d.pend = c.pend /\ d.tx = c.tx /\ d.hist = c.hist /\ d.hist_free = c.hist_free
         /\ d.num_cmd_tx = c.num_cmd_tx /\ d.pb = c.pb
    BY <2>1, <2>9 DEF Channel
  <2>11. d.txns[t] = given /\ \A u \in Txns : u # t => d.txns[u] = c.txns[u]
    BY <2>1, <2>2, <2>10
  <2>12. Only(t, c, d)
    BY <2>10, <2>11, Zenon DEF Only
  <2>13. SameOwner(t, c, d)
    BY <2>6, <2>11, Zenon DEF SameOwner
  <2>14. d \in Channel
    <3>1. [c.txns EXCEPT ![t] = given] \in [Txns -> Transaction]
      BY <2>1, <2>2, <2>5
    <3> QED
      BY <2>1, <2>8, <2>9, <3>1 DEF Channel
  <2>15. Free(d) = Free(c)
    <3>1. \A u \in Txns : d.txns[u].state = c.txns[u].state
      BY <2>6, <2>11
    <3> QED
      BY <3>1, Zenon DEF Free
  <2>16. Used(d) = Used(c) /\ \A u \in Used(c) : u \in Txns
    BY <2>15 DEF Used
  <2>17. \A u \in Txns : d.txns[u].q_index = c.txns[u].q_index /\ d.txns[u].dir = c.txns[u].dir
    BY <2>6, <2>11
  <2>18. OnRx(d) = OnRx(c) /\ \A q : OnQueue(d, q) = OnQueue(c, q)
    BY <2>16, <2>17, Zenon DEF OnRx, OnQueue
  <2>19. WithChunks(d, dir) = WithChunks(c, dir) \cup {t} /\ t \notin WithChunks(c, dir)
    <3>1. ASSUME NEW u PROVE u \in WithChunks(d, dir) <=> u \in WithChunks(c, dir) \cup {t}
      <4>1. CASE u = t
        BY <2>6, <2>11, <2>16, <4>1, Zenon DEF WithChunks
      <4>2. CASE u # t
        BY <2>11, <2>16, <4>2, Zenon DEF WithChunks
      <4> QED
        BY <4>1, <4>2
    <3>2. t \notin WithChunks(c, dir)
      BY <1>2, Zenon DEF WithChunks
    <3> QED
      BY <3>1, <3>2
  <2>20. ASSUME NEW q \in Dirs, q # dir
         PROVE  WithChunks(d, q) = WithChunks(c, q)
    <3>1. ASSUME NEW u PROVE u \in WithChunks(d, q) <=> u \in WithChunks(c, q)
      <4>1. CASE u = t
        BY <2>17, <2>20, <4>1, <2>1, Zenon DEF WithChunks
      <4>2. CASE u # t
        BY <2>11, <2>16, <4>2, Zenon DEF WithChunks
      <4> QED
        BY <4>1, <4>2
    <3> QED
      BY <3>1
  <2>21. \A q \in Dirs : d.cs[q] + Cardinality(WithChunks(d, q)) = NumTxns
    <3> SUFFICES ASSUME NEW q \in Dirs
                 PROVE  cs[q] + Cardinality(WithChunks(d, q)) = NumTxns
      BY <2>10
    <3>1. c.cs[q] + Cardinality(WithChunks(c, q)) = NumTxns
      BY Zenon DEF ChannelOK
    <3>2. WithChunks(c, q) \in SUBSET Txns
      BY DEF WithChunks, Used
    <3>3. Cardinality(WithChunks(c, q)) \in Nat
      BY <3>2, SlotSets
    <3>4. CASE q = dir
      <4>1. Cardinality(WithChunks(d, q)) = Cardinality(WithChunks(c, q)) + 1
        BY <2>1, <2>19, <3>2, <3>4, OneMore
      <4>2. cs[q] = c.cs[q] - 1 /\ c.cs[q] \in Int
        BY <2>2, <2>8, <3>4
      <4> QED
        BY <3>1, <3>3, <4>1, <4>2
    <3>5. CASE q # dir
      BY <2>8, <2>20, <3>1, <3>5
    <3> QED
      BY <3>4, <3>5
  <2>22. ChannelOK(d)
    <3>1. \A u \in Free(d) : d.txns[u] = Wiped
      BY <2>1, <2>11, <2>15, Zenon DEF ChannelOK, Free
    <3>2. \A u \in Txns : d.txns[u].cmd_tx => d.txns[u].dir = "TX"
      BY <2>6, <2>11, Zenon DEF ChannelOK
    <3>3. /\ ToSet(d.pend) = OnQueue(d, "PEND") /\ IsInjective(d.pend)
          /\ ToSet(d.tx) = OnQueue(d, "TX") /\ IsInjective(d.tx)
      BY <2>10, <2>18, Zenon DEF ChannelOK
    <3>4. Len(d.hist) + Len(d.hist_free) + Cardinality(Used(d)) = NumHistories
      BY <2>10, <2>16, Zenon DEF ChannelOK
    <3> QED
      BY <2>14, <2>21, <3>1, <3>2, <3>3, <3>4 DEF ChannelOK
  <2>23. TxnIsOK(c, t) => TxnIsOK(d, t)
    BY <2>6, <2>11, Zenon DEF TxnIsOK
  <2> QED
    BY <2>6, <2>10, <2>11, <2>12, <2>13, <2>16, <2>18, <2>22, <2>23, Zenon DEF d
<1> QED
  BY <1>1, <1>2

LEMMA DequeueOK ==
  ASSUME NEW c \in Channel, IsInjective(c.pend), IsInjective(c.tx), NEW t
  PROVE  LET e == Dequeue(c, t)
         IN  /\ e \in Channel /\ e = [c EXCEPT !.pend = e.pend, !.tx = e.tx]
             /\ ToSet(e.pend) = ToSet(c.pend) \ {t} /\ IsInjective(e.pend)
             /\ ToSet(e.tx) = ToSet(c.tx) \ {t} /\ IsInjective(e.tx)
             /\ \A u, v \in ToSet(e.pend) : Precedes(c.pend, u, v) => Precedes(e.pend, u, v)
<1> DEFINE e == Dequeue(c, t)
<1>1. c.pend \in Seq(Txns) /\ c.tx \in Seq(Txns)
  BY DEF Channel
<1>2. /\ e.pend = RemoveFirst(c.pend, t) /\ e.tx = RemoveFirst(c.tx, t)
      /\ e = [c EXCEPT !.pend = e.pend, !.tx = e.tx]
  BY DEF Dequeue, Channel
<1> HIDE DEF e
<1>3. /\ RemoveFirst(c.pend, t) \in Seq(Txns)
      /\ ToSet(RemoveFirst(c.pend, t)) = ToSet(c.pend) \ {t}
      /\ IsInjective(RemoveFirst(c.pend, t))
      /\ \A u, v \in ToSet(RemoveFirst(c.pend, t)) :
           Precedes(c.pend, u, v) => Precedes(RemoveFirst(c.pend, t), u, v)
  BY <1>1, RemoveFirstSet
<1>4. /\ RemoveFirst(c.tx, t) \in Seq(Txns)
      /\ ToSet(RemoveFirst(c.tx, t)) = ToSet(c.tx) \ {t}
      /\ IsInjective(RemoveFirst(c.tx, t))
  BY <1>1, RemoveFirstSet
<1>5. e.pend \in Seq(Txns) /\ e.tx \in Seq(Txns)
  BY <1>2, <1>3, <1>4, Zenon
<1>6. e \in Channel
  BY <1>2, <1>5 DEF Channel
<1>7. /\ ToSet(e.pend) = ToSet(c.pend) \ {t} /\ IsInjective(e.pend)
      /\ ToSet(e.tx) = ToSet(c.tx) \ {t} /\ IsInjective(e.tx)
      /\ \A u, v \in ToSet(e.pend) : Precedes(c.pend, u, v) => Precedes(e.pend, u, v)
  BY <1>2, <1>3, <1>4
<1> QED
  BY <1>2, <1>6, <1>7, Zenon DEF e

LEMMA RecycleTransactionOK ==
  ASSUME NEW c, ChannelOK(c), NEW t \in Used(c)
  PROVE  LET d == RecycleTransaction(c, t)
         IN  /\ ChannelOK(d) /\ Only(t, c, d) /\ d.txns[t] = Wiped
             /\ Used(d) = Used(c) \ {t} /\ OnRx(d) = OnRx(c) \ {t}
             /\ KeepsHold(c, d) /\ KeepsOrder(c, d) /\ (Covered(c) => Covered(d))
<1> DEFINE d == RecycleTransaction(c, t)
           e == Dequeue(c, t)
           txn == c.txns[t]
           cs == [c.cs EXCEPT ![txn.dir] = IF txn.chunks THEN @ + 1 ELSE @]
           hist == IF txn.keep_history THEN Append(c.hist, txn.txn_stat) ELSE c.hist
           free == IF txn.keep_history THEN c.hist_free ELSE Append(c.hist_free, txn.txn_stat)
<1>1. c \in Channel /\ t \in Txns /\ txn.state # "UNDEF"
  BY DEF ChannelOK, Used, Free
<1>2. /\ c.txns \in [Txns -> Transaction] /\ c.cs \in [Dirs -> 0 .. NumTxns]
      /\ c.hist \in Seq(TxnStatus) /\ c.hist_free \in Seq(TxnStatus)
  BY <1>1 DEF Channel
<1>3. txn \in Transaction
  BY <1>1, <1>2
<1>4. txn.dir \in Dirs /\ txn.txn_stat \in TxnStatus
  BY <1>3 DEF Transaction
<1>5. /\ e \in Channel /\ e = [c EXCEPT !.pend = e.pend, !.tx = e.tx]
      /\ ToSet(e.pend) = ToSet(c.pend) \ {t} /\ IsInjective(e.pend)
      /\ ToSet(e.tx) = ToSet(c.tx) \ {t} /\ IsInjective(e.tx)
      /\ \A u, v \in ToSet(e.pend) : Precedes(c.pend, u, v) => Precedes(e.pend, u, v)
  BY <1>1, DequeueOK, Zenon DEF ChannelOK
<1>6. d = [e EXCEPT !.txns[t] = Wiped,
                !.cs[txn.dir] = IF txn.chunks THEN @ + 1 ELSE @,
                !.hist       = IF txn.keep_history THEN Append(@, txn.txn_stat) ELSE @,
                !.hist_free  = IF txn.keep_history THEN @ ELSE Append(@, txn.txn_stat)]
  BY DEF RecycleTransaction
<1> HIDE DEF d, e
<1>7. /\ e.txns = c.txns /\ e.cs = c.cs /\ e.hist = c.hist /\ e.hist_free = c.hist_free
      /\ e.num_cmd_tx = c.num_cmd_tx /\ e.pb = c.pb
  BY <1>1, <1>5 DEF Channel
<1>8. /\ d.txns = [c.txns EXCEPT ![t] = Wiped] /\ d.pend = e.pend /\ d.tx = e.tx
      /\ d.num_cmd_tx = c.num_cmd_tx /\ d.pb = c.pb
  BY <1>1, <1>5, <1>6, <1>7 DEF Channel
<1>9. d.cs = cs
  BY <1>1, <1>5, <1>6, <1>7 DEF Channel
<1>10. d.hist = hist /\ d.hist_free = free
  BY <1>1, <1>5, <1>6, <1>7 DEF Channel
<1>11. d = [e EXCEPT !.txns = d.txns, !.cs = d.cs, !.hist = d.hist, !.hist_free = d.hist_free]
  BY <1>1, <1>5, <1>6, <1>7 DEF Channel
<1>12. d.txns[t] = Wiped /\ \A u \in Txns : u # t => d.txns[u] = c.txns[u]
  BY <1>1, <1>2, <1>8
<1>13. Wiped \in Transaction /\ Wiped.state = "UNDEF" /\ ~Wiped.cmd_tx
  BY DEF Wiped, Transaction, TxnStatus, Dirs
<1>14. Only(t, c, d)
  BY <1>8, <1>12, Zenon DEF Only
<1>15. Used(d) = Used(c) \ {t} /\ Free(d) = Free(c) \cup {t} /\ \A u \in Used(c) : u \in Txns
  <2>1. \A u \in Txns : d.txns[u].state = "UNDEF" <=> c.txns[u].state = "UNDEF" \/ u = t
    BY <1>12, <1>13
  <2> QED
    BY <1>1, <2>1 DEF Used, Free
<1>16. OnRx(d) = OnRx(c) \ {t} /\ \A q : OnQueue(d, q) = OnQueue(c, q) \ {t}
  BY <1>12, <1>15 DEF OnRx, OnQueue
<1>17. \A q : WithChunks(d, q) = WithChunks(c, q) \ {t}
  BY <1>12, <1>15 DEF WithChunks
<1>18. /\ hist \in Seq(TxnStatus) /\ free \in Seq(TxnStatus)
       /\ Len(hist) + Len(free) = Len(c.hist) + Len(c.hist_free) + 1
  <2>1. Len(c.hist) \in Nat /\ Len(c.hist_free) \in Nat
    BY <1>2, LenProperties
  <2>2. \A s \in Seq(TxnStatus) :
          Append(s, txn.txn_stat) \in Seq(TxnStatus) /\ Len(Append(s, txn.txn_stat)) = Len(s) + 1
    BY <1>4
  <2>3. \A m, n \in Nat : (m + 1) + n = m + n + 1 /\ m + (n + 1) = m + n + 1
    OBVIOUS
  <2>4. CASE txn.keep_history
    <3>1. hist = Append(c.hist, txn.txn_stat) /\ free = c.hist_free
      BY <2>4, Zenon
    <3> HIDE DEF hist, free
    <3>2. hist \in Seq(TxnStatus) /\ free \in Seq(TxnStatus)
      BY <1>2, <2>2, <3>1, Zenon
    <3>3. Len(hist) = Len(c.hist) + 1 /\ Len(free) = Len(c.hist_free)
      BY <1>2, <2>2, <3>1, Zenon
    <3> QED
      BY <2>1, <2>3, <3>2, <3>3, Zenon
  <2>5. CASE ~txn.keep_history
    <3>1. hist = c.hist /\ free = Append(c.hist_free, txn.txn_stat)
      BY <2>5, Zenon
    <3> HIDE DEF hist, free
    <3>2. hist \in Seq(TxnStatus) /\ free \in Seq(TxnStatus)
      BY <1>2, <2>2, <3>1, Zenon
    <3>3. Len(hist) = Len(c.hist) /\ Len(free) = Len(c.hist_free) + 1
      BY <1>2, <2>2, <3>1, Zenon
    <3> QED
      BY <2>1, <2>3, <3>2, <3>3, Zenon
  <2> QED
    BY <2>4, <2>5
<1>19. ASSUME NEW q \in Dirs
       PROVE  cs[q] \in 0 .. NumTxns /\ cs[q] + Cardinality(WithChunks(d, q)) = NumTxns
  <2>1. c.cs[q] + Cardinality(WithChunks(c, q)) = NumTxns /\ c.cs[q] \in 0 .. NumTxns
    BY <1>2, Zenon DEF ChannelOK
  <2>2. WithChunks(c, q) \in SUBSET Txns /\ WithChunks(d, q) \in SUBSET Txns
    BY <1>15 DEF WithChunks
  <2>3. Cardinality(WithChunks(c, q)) \in Nat /\ Cardinality(WithChunks(d, q)) \in Nat
    BY <2>2, SlotSets
  <2>4. CASE txn.chunks /\ txn.dir = q
    <3>1. t \in WithChunks(c, q)
      BY <2>4, Zenon DEF WithChunks
    <3>2. Cardinality(WithChunks(d, q)) = Cardinality(WithChunks(c, q)) - 1
      BY <1>17, <2>2, <3>1, OneLess
    <3>3. cs[q] = c.cs[q] + 1
      BY <1>2, <2>4
    <3> QED
      BY <2>1, <2>3, <3>2, <3>3, LimitsAssumption
  <2>5. CASE ~(txn.chunks /\ txn.dir = q)
    <3>1. t \notin WithChunks(c, q)
      BY <2>5, Zenon DEF WithChunks
    <3>2. WithChunks(d, q) = WithChunks(c, q)
      BY <1>17, <3>1
    <3>3. cs[q] = c.cs[q]
      BY <1>2, <2>5
    <3> QED
      BY <2>1, <3>2, <3>3
  <2> QED
    BY <2>4, <2>5
<1>20. cs \in [Dirs -> 0 .. NumTxns]
  <2>1. DOMAIN cs = Dirs /\ cs = [q \in Dirs |-> cs[q]]
    BY <1>2
  <2> HIDE DEF cs
  <2> QED
    BY <1>19, <2>1
<1> HIDE DEF cs, hist, free
<1>21. d \in Channel
  <2>1. d.txns \in [Txns -> Transaction]
    BY <1>1, <1>2, <1>8, <1>13
  <2> QED
    BY <1>5, <1>9, <1>10, <1>11, <1>18, <1>20, <2>1 DEF Channel
<1>22. ChannelOK(d)
  <2>1. \A u \in Free(d) : d.txns[u] = Wiped
    BY <1>1, <1>12, <1>15, Zenon DEF ChannelOK, Free
  <2>2. \A u \in Txns : d.txns[u].cmd_tx => d.txns[u].dir = "TX"
    BY <1>12, <1>13, Zenon DEF ChannelOK
  <2>3. /\ ToSet(d.pend) = OnQueue(d, "PEND") /\ IsInjective(d.pend)
        /\ ToSet(d.tx) = OnQueue(d, "TX") /\ IsInjective(d.tx)
    BY <1>5, <1>8, <1>16, Zenon DEF ChannelOK
  <2>4. Len(d.hist) + Len(d.hist_free) + Cardinality(Used(d)) = NumHistories
    <3>1. Len(c.hist) + Len(c.hist_free) + Cardinality(Used(c)) = NumHistories
      BY DEF ChannelOK
    <3>2. Used(c) \in SUBSET Txns
      BY <1>15
    <3>3. Cardinality(Used(d)) = Cardinality(Used(c)) - 1
      BY <1>15, <3>2, OneLess
    <3>4. Cardinality(Used(c)) \in Nat
      BY <3>2, SlotSets
    <3>5. Len(c.hist) \in Nat /\ Len(c.hist_free) \in Nat
      BY <1>2, LenProperties
    <3>6. Len(hist) \in Nat /\ Len(free) \in Nat
      BY <1>18, LenProperties
    <3>7. \A h, f, u, m, n \in Nat :
            h + f + u = NumHistories /\ m + n = h + f + 1 => m + n + (u - 1) = NumHistories
      BY HistoriesAssumption
    <3> DEFINE h == Len(c.hist)
               f == Len(c.hist_free)
               u == Cardinality(Used(c))
               m == Len(hist)
               n == Len(free)
    <3>8. /\ h + f + u = NumHistories /\ m + n = h + f + 1
          /\ h \in Nat /\ f \in Nat /\ u \in Nat /\ m \in Nat /\ n \in Nat
      BY <1>18, <3>1, <3>4, <3>5, <3>6, Zenon
    <3> HIDE DEF h, f, u, m, n
    <3>9. m + n + (u - 1) = NumHistories
      BY <3>7, <3>8
    <3> QED
      BY <1>10, <3>3, <3>9, Zenon DEF m, n, u
  <2>5. \A q \in Dirs : d.cs[q] + Cardinality(WithChunks(d, q)) = NumTxns
    BY <1>9, <1>19
  <2> QED
    BY <1>21, <2>1, <2>2, <2>3, <2>4, <2>5 DEF ChannelOK
<1>23. KeepsHold(c, d)
  BY <1>12, <1>13 DEF KeepsHold
<1>24. KeepsOrder(c, d)
  BY <1>5, <1>8 DEF KeepsOrder
<1>25. Covered(c) => Covered(d)
  <2> SUFFICES ASSUME Covered(c) PROVE Covered(d)
    OBVIOUS
  <2>1. \A u \in Unfinished(d) : /\ u \in Unfinished(c)
                                 /\ d.txns[u].cmd_tx = c.txns[u].cmd_tx
                                 /\ d.txns[u].pb = c.txns[u].pb
    BY <1>12, <1>15 DEF Unfinished
  <2> QED
    BY <1>8, <2>1, CoveredStays
<1> QED
  BY <1>12, <1>14, <1>15, <1>16, <1>22, <1>23, <1>24, <1>25 DEF d

-------------------------------------------------------------------------------
(* A slot that is taken. *)

(* CF_FindUnusedTransaction asserts that a history entry is left.          *)
LEMMA HistoryLeft ==
  ASSUME NEW c, ChannelOK(c), Free(c) # {}
  PROVE  /\ NextFree(c) \in Free(c) /\ NextFree(c) \in Txns
         /\ c.hist_free # <<>> \/ c.hist # <<>>
<1>1. Free(c) \subseteq Nat
  BY LimitsAssumption DEF Free, Txns
<1>2. NextFree(c) \in Free(c)
  BY <1>1, MinProperties DEF NextFree
<1>3. c.hist_free # <<>> \/ c.hist # <<>>
  <2> SUFFICES ASSUME c.hist_free = <<>>, c.hist = <<>> PROVE FALSE
    OBVIOUS
  <2>1. Len(c.hist) = 0 /\ Len(c.hist_free) = 0
    OBVIOUS
  <2>2. Cardinality(Used(c)) \in Nat /\ Cardinality(Free(c)) \in Nat
    BY UsedAndFree, SlotSets
  <2>3. Len(c.hist) + Len(c.hist_free) + Cardinality(Used(c)) = NumHistories
    BY DEF ChannelOK
  <2>4. Cardinality(Used(c)) = NumHistories
    BY <2>1, <2>2, <2>3
  <2>5. Cardinality(Free(c)) = Cardinality(Free(c) \ {NextFree(c)}) + 1
    <3>1. Free(c) \in SUBSET Txns /\ Free(c) \ {NextFree(c)} \in SUBSET Txns
      BY UsedAndFree
    <3>2. Cardinality(Free(c) \ {NextFree(c)}) = Cardinality(Free(c)) - 1
      BY <1>2, <3>1, OneLess
    <3> QED
      BY <2>2, <3>2
  <2>6. Cardinality(Free(c) \ {NextFree(c)}) \in Nat
    <3>1. Free(c) \ {NextFree(c)} \in SUBSET Txns
      BY UsedAndFree
    <3> QED
      BY <3>1, SlotSets
  <2>7. Cardinality(Used(c)) + Cardinality(Free(c)) = NumTxns
    BY UsedAndFree
  <2> QED
    BY <2>2, <2>4, <2>5, <2>6, <2>7, HistoriesAssumption, LimitsAssumption
<1> QED
  BY <1>2, <1>3 DEF Free

LEMMA FindUnusedTransactionOK ==
  ASSUME NEW c, ChannelOK(c), Free(c) # {}, NEW dir \in Dirs
  PROVE  LET d == FindUnusedTransaction(c, dir)
             t == NextFree(c)
         IN  /\ d \in Channel
             /\ d.txns[t] \in Transaction /\ d.txns[t].state = "INIT"
             /\ d.txns[t].q_index = "PEND" /\ d.txns[t].dir = dir
             /\ ~d.txns[t].chunks /\ ~d.txns[t].cmd_tx /\ d.txns[t].pb = NoPlayback
             /\ Only(t, c, d)
             /\ d.pend = c.pend /\ d.tx = c.tx /\ d.cs = c.cs
             /\ Len(d.hist) + Len(d.hist_free) = Len(c.hist) + Len(c.hist_free) - 1
<1> DEFINE d == FindUnusedTransaction(c, dir)
           t == NextFree(c)
           fresh == c.hist_free # <<>>
           history == Head(IF fresh THEN c.hist_free ELSE c.hist)
           hist == IF fresh THEN c.hist ELSE Tail(c.hist)
           free == IF fresh THEN Tail(c.hist_free) ELSE c.hist_free
           txn == [c.txns[t] EXCEPT !.state = "INIT", !.dir = dir, !.txn_stat = history]
<1>1. c \in Channel /\ t \in Free(c) /\ t \in Txns /\ c.txns[t] = Wiped
  BY HistoryLeft, Zenon DEF ChannelOK
<1>2. /\ c.txns \in [Txns -> Transaction]
      /\ c.hist \in Seq(TxnStatus) /\ c.hist_free \in Seq(TxnStatus)
  BY <1>1 DEF Channel
<1>3. Len(c.hist) \in Nat /\ Len(c.hist_free) \in Nat
  BY <1>2, LenProperties
<1>4. \A m, n \in Nat : m + (n - 1) = m + n - 1 /\ (m - 1) + n = m + n - 1
  OBVIOUS
<1>5. \A s \in Seq(TxnStatus) : s # <<>> =>
        Head(s) \in TxnStatus /\ Tail(s) \in Seq(TxnStatus) /\ Len(Tail(s)) = Len(s) - 1
  OBVIOUS
<1>6. /\ history \in TxnStatus /\ hist \in Seq(TxnStatus) /\ free \in Seq(TxnStatus)
      /\ Len(hist) + Len(free) = Len(c.hist) + Len(c.hist_free) - 1
  <2>1. CASE fresh
    <3>1. history = Head(c.hist_free) /\ hist = c.hist /\ free = Tail(c.hist_free)
      BY <2>1, Zenon
    <3>2. Len(free) = Len(c.hist_free) - 1 /\ history \in TxnStatus /\ free \in Seq(TxnStatus)
      BY <1>2, <1>5, <2>1, <3>1, Zenon
    <3> HIDE DEF history, hist, free, fresh
    <3> QED
      BY <1>2, <1>3, <1>4, <3>1, <3>2, Zenon
  <2>2. CASE ~fresh
    <3>1. history = Head(c.hist) /\ hist = Tail(c.hist) /\ free = c.hist_free
      BY <2>2, Zenon
    <3>2. c.hist # <<>>
      BY <2>2, HistoryLeft
    <3>3. Len(hist) = Len(c.hist) - 1 /\ history \in TxnStatus /\ hist \in Seq(TxnStatus)
      BY <1>2, <1>5, <3>1, <3>2, Zenon
    <3> HIDE DEF history, hist, free, fresh
    <3> QED
      BY <1>2, <1>3, <1>4, <3>1, <3>3, Zenon
  <2> QED
    BY <2>1, <2>2
<1>7. d = [c EXCEPT !.txns[t] = [@ EXCEPT !.state = "INIT", !.dir = dir, !.txn_stat = history],
                    !.hist_free = IF fresh THEN Tail(@) ELSE @,
                    !.hist      = IF fresh THEN @ ELSE Tail(@)]
  BY DEF FindUnusedTransaction
<1> HIDE DEF d, history, t
<1>8. d.txns = [c.txns EXCEPT ![t] = txn] /\ d.hist = hist /\ d.hist_free = free
  <2> HIDE DEF fresh
  <2>1. d.txns = [c.txns EXCEPT ![t] = txn]
    BY <1>1, <1>7 DEF Channel
  <2>2. d.hist = hist /\ d.hist_free = free
    BY <1>1, <1>7 DEF Channel
  <2> QED
    BY <2>1, <2>2
<1>9. d = [c EXCEPT !.txns = d.txns, !.hist_free = d.hist_free, !.hist = d.hist]
  <2> HIDE DEF fresh
  <2> QED
    BY <1>1, <1>7 DEF Channel
<1> HIDE DEF hist, free, fresh
<1>10. /\ d.pend = c.pend /\ d.tx = c.tx /\ d.cs = c.cs
      /\ d.num_cmd_tx = c.num_cmd_tx /\ d.pb = c.pb
  BY <1>1, <1>9 DEF Channel
<1>11. /\ txn \in Transaction /\ txn.state = "INIT" /\ txn.q_index = "PEND"
      /\ txn.dir = dir /\ ~txn.chunks /\ ~txn.cmd_tx /\ txn.pb = NoPlayback
  <2>1. c.txns[t] \in Transaction
    BY <1>1, <1>2
  <2>2. txn \in Transaction
    BY <1>6, <2>1 DEF Transaction
  <2>3. /\ txn.state = "INIT" /\ txn.dir = dir /\ txn.q_index = c.txns[t].q_index
        /\ txn.chunks = c.txns[t].chunks /\ txn.cmd_tx = c.txns[t].cmd_tx
        /\ txn.pb = c.txns[t].pb
    BY <2>1 DEF Transaction
  <2>4. Wiped.q_index = "PEND" /\ ~Wiped.chunks /\ ~Wiped.cmd_tx /\ Wiped.pb = NoPlayback
    BY DEF Wiped
  <2> QED
    BY <1>1, <2>2, <2>3, <2>4, Zenon
<1> HIDE DEF txn
<1>12. d.txns[t] = txn /\ \A u \in Txns : u # t => d.txns[u] = c.txns[u]
  BY <1>1, <1>2, <1>8
<1>13. d \in Channel
  <2>1. d.txns \in [Txns -> Transaction]
    BY <1>1, <1>2, <1>8, <1>11
  <2> QED
    BY <1>1, <1>6, <1>8, <1>9, <2>1 DEF Channel
<1>14. Only(t, c, d)
  BY <1>10, <1>12, Zenon DEF Only
<1> QED
  BY <1>6, <1>8, <1>10, <1>11, <1>12, <1>13, <1>14, Zenon DEF d, t

(* A transaction begins in a free slot, pending or receiving.              *)
Begins(t, c, d) ==
  /\ t \in Free(c) /\ d \in Channel
  /\ \A u \in Txns : u # t => d.txns[u] = c.txns[u]
  /\ d.txns[t].state # "UNDEF" /\ ~d.txns[t].chunks
  /\ d.txns[t].cmd_tx => d.txns[t].dir = "TX"
  /\ d.txns[t].q_index # "TX" /\ d.tx = c.tx /\ d.cs = c.cs
  /\ IsInjective(d.pend)
  /\ \A u : u \in ToSet(d.pend) <=>
              u \in ToSet(c.pend) \/ (u = t /\ d.txns[t].q_index = "PEND")
  /\ Len(d.hist) + Len(d.hist_free) = Len(c.hist) + Len(c.hist_free) - 1

LEMMA BeginOK ==
  ASSUME NEW c, ChannelOK(c), NEW t, NEW d, Begins(t, c, d)
  PROVE  ChannelOK(d) /\ Used(d) = Used(c) \cup {t} /\ t \notin Used(c) /\ Free(d) = Free(c) \ {t}
<1> USE DEF Begins
<1>1. t \in Txns /\ c.txns[t].state = "UNDEF" /\ t \notin Used(c)
  BY DEF Free, Used
<1>2. Free(d) = Free(c) \ {t}
  <2>1. \A u \in Txns : d.txns[u].state = "UNDEF" <=> c.txns[u].state = "UNDEF" /\ u # t
    BY <1>1
  <2> QED
    BY <2>1 DEF Free
<1>3. Used(d) = Used(c) \cup {t} /\ \A u \in Used(c) : u \in Txns
  BY <1>1, <1>2 DEF Used
<1>4. \A q : q # d.txns[t].q_index => OnQueue(d, q) = OnQueue(c, q)
  BY <1>1, <1>3 DEF OnQueue
<1>5. \A q : q = d.txns[t].q_index => OnQueue(d, q) = OnQueue(c, q) \cup {t}
  BY <1>1, <1>3 DEF OnQueue
<1>6. ASSUME NEW q PROVE WithChunks(d, q) = WithChunks(c, q)
  <2>1. ASSUME NEW u PROVE u \in WithChunks(d, q) <=> u \in WithChunks(c, q)
    <3>1. CASE u = t
      BY <1>1, <3>1, Zenon DEF WithChunks
    <3>2. CASE u # t
      <4>1. u \in Used(d) <=> u \in Used(c)
        BY <1>3, <3>2
      <4>2. u \in Used(c) => d.txns[u] = c.txns[u]
        BY <1>3, <3>2
      <4> QED
        BY <4>1, <4>2, Zenon DEF WithChunks
    <3> QED
      BY <3>1, <3>2
  <2> QED
    BY <2>1
<1>7. ChannelOK(d)
  <2>1. \A u \in Free(d) : d.txns[u] = Wiped
    BY <1>2, Zenon DEF ChannelOK, Free
  <2>2. \A u \in Txns : d.txns[u].cmd_tx => d.txns[u].dir = "TX"
    <3>1. ASSUME NEW u \in Txns, d.txns[u].cmd_tx PROVE d.txns[u].dir = "TX"
      <4>1. CASE u = t
        BY <3>1, <4>1
      <4>2. CASE u # t
        BY <3>1, <4>2, Zenon DEF ChannelOK
      <4> QED
        BY <4>1, <4>2
    <3> QED
      BY <3>1
  <2>3. ToSet(d.pend) = OnQueue(d, "PEND")
    <3>1. ToSet(c.pend) = OnQueue(c, "PEND")
      BY DEF ChannelOK
    <3>2. CASE d.txns[t].q_index = "PEND"
      <4>1. OnQueue(d, "PEND") = OnQueue(c, "PEND") \cup {t}
        BY <1>5, <3>2
      <4>2. \A u : u \in ToSet(d.pend) <=> u \in ToSet(c.pend) \/ u = t
        BY <3>2
      <4> QED
        BY <3>1, <4>1, <4>2
    <3>3. CASE d.txns[t].q_index # "PEND"
      BY <1>4, <3>1, <3>3
    <3> QED
      BY <3>2, <3>3
  <2>4. ToSet(d.tx) = OnQueue(d, "TX") /\ IsInjective(d.tx)
    BY <1>4 DEF ChannelOK
  <2>5. Len(d.hist) + Len(d.hist_free) + Cardinality(Used(d)) = NumHistories
    <3>1. Len(c.hist) + Len(c.hist_free) + Cardinality(Used(c)) = NumHistories
      BY DEF ChannelOK
    <3>2. Used(c) \in SUBSET Txns
      BY <1>3
    <3>3. Cardinality(Used(d)) = Cardinality(Used(c)) + 1
      BY <1>1, <1>3, <3>2, OneMore
    <3>4. Cardinality(Used(c)) \in Nat
      BY <3>2, SlotSets
    <3>5. /\ c.hist \in Seq(TxnStatus) /\ c.hist_free \in Seq(TxnStatus)
          /\ d.hist \in Seq(TxnStatus) /\ d.hist_free \in Seq(TxnStatus)
      BY DEF ChannelOK, Channel
    <3> DEFINE h == Len(c.hist)
               f == Len(c.hist_free)
               u == Cardinality(Used(c))
               m == Len(d.hist)
               n == Len(d.hist_free)
    <3>6. h \in Nat /\ f \in Nat /\ m \in Nat /\ n \in Nat /\ u \in Nat
      BY <3>4, <3>5, LenProperties
    <3>7. h + f + u = NumHistories /\ m + n = h + f - 1
      BY <3>1
    <3> HIDE DEF h, f, u, m, n
    <3>8. m + n + (u + 1) = NumHistories
      BY <3>6, <3>7, HistoriesAssumption
    <3> QED
      BY <3>3, <3>8, Zenon DEF m, n, u
  <2>6. \A q \in Dirs : d.cs[q] + Cardinality(WithChunks(d, q)) = NumTxns
    BY <1>6, Zenon DEF ChannelOK
  <2> QED
    BY <2>1, <2>2, <2>3, <2>4, <2>5, <2>6 DEF ChannelOK
<1> QED
  BY <1>1, <1>2, <1>3, <1>7

-------------------------------------------------------------------------------
(* The beginnings of a transaction, and of its sending. *)

LEMMA PrioritiesAreNumbers ==
  ASSUME NEW c \in Channel
  PROVE  \A t \in Txns : c.txns[t].priority \in Nat
<1> SUFFICES ASSUME NEW t \in Txns PROVE c.txns[t].priority \in Nat
  OBVIOUS
<1>1. c.txns[t] \in Transaction
  BY DEF Channel
<1> DEFINE n == c.txns[t].priority
<1>2. n \in Priorities \cup {0}
  BY <1>1 DEF Transaction
<1> HIDE DEF n
<1>3. \A m \in Priorities : m \in Nat
  BY PrioritiesAssumption
<1>4. n \in Nat
  BY <1>2, <1>3
<1> QED
  BY <1>4 DEF n

LEMMA TxFile_InitiateOK ==
  ASSUME NEW c, ChannelOK(c), Free(c) # {}, NEW priority \in Priorities \cup {0},
         NEW playback \in Playbacks \cup {NoPlayback}
  PROVE  LET d == TxFile_Initiate(c, priority, playback)
             t == NextFree(c)
         IN  /\ ChannelOK(d) /\ Only(t, c, d)
             /\ t \in Free(c) /\ Used(d) = Used(c) \cup {t} /\ Free(d) = Free(c) \ {t}
             /\ OnRx(d) = OnRx(c) /\ KeepsHold(c, d)
             /\ d.txns[t].cmd_tx <=> playback = NoPlayback
             /\ d.txns[t].pb = playback
             /\ ToSet(d.pend) = ToSet(c.pend) \cup {t} /\ t \notin ToSet(c.pend)
             /\ \A u, v \in ToSet(c.pend) : Precedes(c.pend, u, v) => Precedes(d.pend, u, v)
             /\ \A u \in ToSet(c.pend) : d.txns[u].priority <= d.txns[t].priority =>
                  Precedes(d.pend, u, t)
<1> DEFINE t == NextFree(c)
           f == FindUnusedTransaction(c, "TX")
           txn == [f.txns[t] EXCEPT !.state = "ACTIVE", !.priority = priority,
                                    !.pb = playback, !.cmd_tx = (playback = NoPlayback)]
           e == [f EXCEPT !.txns = [f.txns EXCEPT ![t] = txn]]
           d == TxFile_Initiate(c, priority, playback)
<1>1. c \in Channel /\ t \in Free(c) /\ t \in Txns /\ c.txns[t].state = "UNDEF"
  BY HistoryLeft DEF ChannelOK, Free
<1>2. /\ f \in Channel
      /\ f.txns[t] \in Transaction /\ f.txns[t].state = "INIT"
      /\ f.txns[t].q_index = "PEND" /\ f.txns[t].dir = "TX"
      /\ ~f.txns[t].chunks /\ Only(t, c, f)
      /\ f.pend = c.pend /\ f.tx = c.tx /\ f.cs = c.cs
      /\ Len(f.hist) + Len(f.hist_free) = Len(c.hist) + Len(c.hist_free) - 1
  <2>1. "TX" \in Dirs
    BY DEF Dirs
  <2> QED
    BY <2>1, FindUnusedTransactionOK
<1>3. d = [e EXCEPT !.pend = InsertSortPrio(e, @, t)]
  <2> DEFINE g == [f EXCEPT !.txns[t].state = "ACTIVE", !.txns[t].priority = priority,
                            !.txns[t].pb = playback, !.txns[t].cmd_tx = (playback = NoPlayback)]
  <2>1. d = [g EXCEPT !.pend = InsertSortPrio(g, @, t)]
    BY DEF TxFile_Initiate
  <2>2. g = e
    <3> HIDE DEF f, t
    <3>1. f.txns \in [Txns -> Transaction]
      BY <1>2 DEF Channel
    <3>2. g.txns = [[[[f.txns EXCEPT ![t].state = "ACTIVE"] EXCEPT ![t].priority = priority]
                     EXCEPT ![t].pb = playback] EXCEPT ![t].cmd_tx = (playback = NoPlayback)]
      BY <1>2 DEF Channel
    <3>3. g.txns = [f.txns EXCEPT ![t] = txn]
      BY <1>1, <1>2, <3>1, <3>2 DEF Transaction
    <3>4. g = [f EXCEPT !.txns = g.txns]
      BY <1>2, ZenonT(60) DEF Channel
    <3> HIDE DEF g, txn
    <3> QED
      BY <3>3, <3>4
  <2> QED
    BY <2>1, <2>2, Zenon
<1> HIDE DEF f, t
<1>4. /\ txn \in Transaction
      /\ txn.state = "ACTIVE" /\ txn.q_index = "PEND" /\ txn.dir = "TX"
      /\ txn.pb = playback /\ txn.chunks = f.txns[t].chunks
      /\ txn.cmd_tx <=> playback = NoPlayback
  BY <1>2 DEF Transaction
<1> HIDE DEF txn, d
<1>5. /\ f.txns \in [Txns -> Transaction] /\ f.num_cmd_tx = c.num_cmd_tx /\ f.pb = c.pb
      /\ \A u \in Txns : u # t => f.txns[u] = c.txns[u]
  BY <1>2 DEF Channel, Only
<1>6. e.txns = [f.txns EXCEPT ![t] = txn] /\ e.pend = c.pend
  BY <1>2 DEF Channel
<1>7. e.txns \in [Txns -> Transaction]
  BY <1>1, <1>4, <1>5, <1>6
<1>8. e \in Channel
  <2> HIDE DEF e
  <2>1. e = [f EXCEPT !.txns = e.txns]
    BY <1>2, <1>6 DEF e, Channel
  <2> QED
    BY <1>2, <1>7, <2>1 DEF Channel
<1>9. e.txns[t] = txn /\ \A u \in Txns : u # t => e.txns[u] = c.txns[u]
  BY <1>1, <1>5, <1>6
<1>10. /\ e.tx = c.tx /\ e.cs = c.cs /\ e.num_cmd_tx = c.num_cmd_tx /\ e.pb = c.pb
       /\ e.hist = f.hist /\ e.hist_free = f.hist_free
  BY <1>2, <1>5 DEF Channel
<1> HIDE DEF e
<1>11. c.pend \in Seq(Txns) /\ IsInjective(c.pend) /\ t \notin ToSet(c.pend)
  BY <1>1 DEF ChannelOK, Channel, OnQueue, Used, Free
<1> DEFINE q == InsertSortPrio(e, c.pend, t)
<1>12. /\ q \in Seq(Txns) /\ ToSet(q) = ToSet(c.pend) \cup {t} /\ IsInjective(q)
       /\ \A u, v \in ToSet(c.pend) : Precedes(c.pend, u, v) => Precedes(q, u, v)
       /\ \A u \in ToSet(c.pend) : e.txns[u].priority <= e.txns[t].priority =>
            Precedes(q, u, t)
  <2>1. \A u \in Txns : e.txns[u].priority \in Nat
    BY <1>8, PrioritiesAreNumbers
  <2>2. t \in Txns
    BY <1>1
  <2> QED
    <3>1. q \in Seq(Txns)
      BY <1>11, <2>1, <2>2, InsertSortPrioOK
    <3>2. ToSet(q) = ToSet(c.pend) \cup {t}
      <4>1. \A u : u \in ToSet(q) <=> u \in ToSet(c.pend) \/ u = t
        BY <1>11, <2>1, <2>2, InsertSortPrioOK
      <4> QED
        BY <4>1
    <3>3. IsInjective(q)
      BY <1>11, <2>1, <2>2, InsertSortPrioOK
    <3>4. \A u, v \in ToSet(c.pend) : Precedes(c.pend, u, v) => Precedes(q, u, v)
      BY <1>11, <2>1, <2>2, InsertSortPrioOK
    <3>5. \A u \in ToSet(c.pend) : e.txns[u].priority <= e.txns[t].priority =>
            Precedes(q, u, t)
      BY <1>11, <2>1, <2>2, InsertSortPrioOK
    <3> QED
      BY <3>1, <3>2, <3>4, <3>5, <3>3
<1>13. d = [e EXCEPT !.pend = q]
  BY <1>3, <1>6, <1>8 DEF Channel
<1> HIDE DEF q
<1>14. /\ d.pend = q /\ d.txns = e.txns /\ d.tx = c.tx /\ d.cs = c.cs
       /\ d.num_cmd_tx = c.num_cmd_tx /\ d.pb = c.pb
       /\ d.hist = f.hist /\ d.hist_free = f.hist_free
  BY <1>8, <1>10, <1>13 DEF Channel
<1>15. d \in Channel
  BY <1>8, <1>12, <1>13 DEF Channel
<1>16. /\ ChannelOK(d) /\ Used(d) = Used(c) \cup {t} /\ t \notin Used(c)
       /\ Free(d) = Free(c) \ {t}
  <2>1. /\ d.txns[t].state # "UNDEF" /\ ~d.txns[t].chunks /\ d.txns[t].dir = "TX"
        /\ d.txns[t].q_index = "PEND" /\ d.txns[t].q_index # "TX"
    BY <1>2, <1>4, <1>9, <1>14
  <2>2. \A u \in Txns : u # t => d.txns[u] = c.txns[u]
    BY <1>9, <1>14
  <2>3. Len(d.hist) + Len(d.hist_free) = Len(c.hist) + Len(c.hist_free) - 1
    BY <1>2, <1>14, Zenon
  <2>4. IsInjective(d.pend) /\ ToSet(d.pend) = ToSet(c.pend) \cup {t}
    BY <1>12, <1>14
  <2>5. t \in Free(c) /\ d.tx = c.tx /\ d.cs = c.cs
    BY <1>1, <1>14
  <2>6. /\ d.txns[t].cmd_tx => d.txns[t].dir = "TX"
        /\ \A u : u \in ToSet(d.pend) <=>
                    u \in ToSet(c.pend) \/ (u = t /\ d.txns[t].q_index = "PEND")
    BY <2>1, <2>4
  <2>7. Begins(t, c, d)
    BY <1>15, <2>1, <2>2, <2>3, <2>4, <2>5, <2>6 DEF Begins
  <2> QED
    BY <2>7, BeginOK
<1>17. Only(t, c, d)
  BY <1>9, <1>14, Zenon DEF Only
<1>18. OnRx(d) = OnRx(c)
  <2>1. \A u \in Used(c) : u \in Txns
    BY DEF Used
  <2> QED
    BY <1>4, <1>9, <1>14, <1>16, <2>1 DEF OnRx
<1>19. KeepsHold(c, d)
  BY <1>1, <1>9, <1>14 DEF KeepsHold
<1>20. /\ d.txns[t].cmd_tx <=> playback = NoPlayback
       /\ d.txns[t].pb = playback
  BY <1>4, <1>9, <1>14, Zenon
<1>21. /\ ToSet(d.pend) = ToSet(c.pend) \cup {t} /\ t \notin ToSet(c.pend)
       /\ \A u, v \in ToSet(c.pend) : Precedes(c.pend, u, v) => Precedes(d.pend, u, v)
       /\ \A u \in ToSet(c.pend) : d.txns[u].priority <= d.txns[t].priority =>
            Precedes(d.pend, u, t)
  BY <1>11, <1>12, <1>14
<1> QED
  BY <1>1, <1>16, <1>17, <1>18, <1>19, <1>20, <1>21, Zenon DEF d, t

LEMMA SetupTxTransactionOK ==
  ASSUME NEW c, ChannelOK(c), NEW t \in ToSet(c.pend), NEW opens \in BOOLEAN
  PROVE  LET d == SetupTxTransaction(c, t, opens)
         IN  /\ ChannelOK(d) /\ OnRx(d) = OnRx(c)
             /\ KeepsHold(c, d) /\ KeepsOrder(c, d) /\ (Covered(c) => Covered(d))
<1> DEFINE d == AllocChunkList(c, t)
           e == Dequeue(d, t)
           r == SetupTxTransaction(c, t, opens)
<1>1. /\ t \in Used(c) /\ t \in Txns /\ c.txns[t].q_index = "PEND" /\ t \notin OnRx(c)
      /\ \A u \in Used(c) : u \in Txns
  <2>1. t \in OnQueue(c, "PEND")
    BY DEF ChannelOK
  <2> QED
    BY <2>1 DEF OnQueue, Used, OnRx
<1>2. /\ ChannelOK(d) /\ Used(d) = Used(c) /\ OnRx(d) = OnRx(c)
      /\ Only(t, c, d) /\ SameOwner(t, c, d) /\ d.txns[t].q_index = c.txns[t].q_index
      /\ d.pend = c.pend /\ d.tx = c.tx
  BY <1>1, AllocChunkListOK
<1>3. r = IF TxnIsOK(d, t) /\ opens
            THEN [e EXCEPT !.txns[t].q_index = "TX", !.tx = InsertSortPrio(e, @, t)]
            ELSE RecycleTransaction(IF opens THEN d ELSE SetTxnError(d, t), t)
  BY DEF SetupTxTransaction
<1> HIDE DEF d, r
<1>4. d \in Channel /\ t \in Used(d) /\ IsInjective(d.pend) /\ IsInjective(d.tx)
  BY <1>1, <1>2 DEF ChannelOK
<1>5. \A u \in Txns : d.txns[u].state = c.txns[u].state
  BY <1>2 DEF Only, SameOwner
<1>6. Covered(c) => Covered(d)
  <2> SUFFICES ASSUME Covered(c) PROVE Covered(d)
    OBVIOUS
  <2>1. \A u \in Unfinished(d) : /\ u \in Unfinished(c)
                                 /\ d.txns[u].cmd_tx = c.txns[u].cmd_tx
                                 /\ d.txns[u].pb = c.txns[u].pb
    <3>1. \A u \in Txns : /\ d.txns[u].cmd_tx = c.txns[u].cmd_tx
                          /\ d.txns[u].pb = c.txns[u].pb
      BY <1>2, Zenon DEF Only, SameOwner
    <3> QED
      BY <1>1, <1>2, <1>5, <3>1, Zenon DEF Unfinished
  <2> QED
    BY <1>2, <2>1, CoveredStays DEF Only
<1>7. CASE TxnIsOK(d, t) /\ opens
  <2> DEFINE q == InsertSortPrio(e, e.tx, t)
             txn == [d.txns[t] EXCEPT !.q_index = "TX"]
  <2>1. /\ e \in Channel /\ e = [d EXCEPT !.pend = e.pend, !.tx = e.tx]
        /\ ToSet(e.pend) = ToSet(d.pend) \ {t} /\ IsInjective(e.pend)
        /\ ToSet(e.tx) = ToSet(d.tx) \ {t} /\ IsInjective(e.tx)
        /\ \A u, v \in ToSet(e.pend) : Precedes(d.pend, u, v) => Precedes(e.pend, u, v)
    BY <1>4, DequeueOK, Zenon
  <2> HIDE DEF e
  <2>2. /\ e.txns = d.txns /\ e.cs = d.cs /\ e.hist = d.hist /\ e.hist_free = d.hist_free
        /\ e.num_cmd_tx = d.num_cmd_tx /\ e.pb = d.pb
    BY <1>4, <2>1 DEF Channel
  <2>3. r = [e EXCEPT !.txns = [e.txns EXCEPT ![t] = txn], !.tx = q]
    <3>1. r = [e EXCEPT !.txns[t].q_index = "TX", !.tx = InsertSortPrio(e, @, t)]
      BY <1>3, <1>7, Zenon
    <3> QED
      BY <2>1, <2>2, <3>1 DEF Channel
  <2> HIDE DEF q
  <2>4. /\ r.txns = [d.txns EXCEPT ![t] = txn] /\ r.tx = q /\ r.pend = e.pend
        /\ r.cs = d.cs /\ r.hist = d.hist /\ r.hist_free = d.hist_free
        /\ r.num_cmd_tx = d.num_cmd_tx /\ r.pb = d.pb
    BY <2>1, <2>2, <2>3 DEF Channel
  <2>5. d.txns \in [Txns -> Transaction] /\ d.txns[t] \in Transaction
    BY <1>1, <1>4 DEF Channel
  <2>6. /\ txn \in Transaction /\ txn.q_index = "TX" /\ txn.state = d.txns[t].state
        /\ txn.dir = d.txns[t].dir /\ txn.chunks = d.txns[t].chunks
        /\ txn.cmd_tx = d.txns[t].cmd_tx /\ txn.pb = d.txns[t].pb
    BY <2>5 DEF Transaction
  <2> HIDE DEF txn
  <2>7. r.txns[t] = txn /\ \A u \in Txns : u # t => r.txns[u] = d.txns[u]
    BY <1>1, <2>4, <2>5
  <2>8. /\ q \in Seq(Txns) /\ IsInjective(q)
        /\ \A u : u \in ToSet(q) <=> u \in ToSet(e.tx) \/ u = t
    <3>1. e.tx \in Seq(Txns) /\ IsInjective(e.tx) /\ t \notin ToSet(e.tx) /\ t \in Txns
      BY <1>1, <2>1 DEF Channel
    <3>2. \A u \in Txns : e.txns[u].priority \in Nat
      BY <2>1, PrioritiesAreNumbers
    <3> QED
      BY <3>1, <3>2, InsertSortPrioOK DEF q
  <2>9. r \in Channel
    <3>1. r.txns \in [Txns -> Transaction]
      BY <1>1, <2>4, <2>5, <2>6
    <3>2. r = [e EXCEPT !.txns = r.txns, !.tx = r.tx]
      BY <2>1, <2>3 DEF Channel
    <3> QED
      BY <2>1, <2>4, <2>8, <3>1, <3>2 DEF Channel
  <2>10. /\ \A u \in Txns : r.txns[u].state = d.txns[u].state
         /\ \A u \in Txns : r.txns[u].dir = d.txns[u].dir
         /\ \A u \in Txns : r.txns[u].chunks = d.txns[u].chunks
         /\ \A u \in Txns : r.txns[u].cmd_tx = d.txns[u].cmd_tx
         /\ \A u \in Txns : r.txns[u].pb = d.txns[u].pb
    BY <2>6, <2>7, Zenon
  <2>11. Used(r) = Used(d) /\ Free(r) = Free(d) /\ \A u \in Used(d) : u \in Txns
    BY <2>10 DEF Used, Free
  <2>12. /\ OnQueue(r, "PEND") = OnQueue(d, "PEND") \ {t}
         /\ OnQueue(r, "TX") = OnQueue(d, "TX") \cup {t}
         /\ OnRx(r) = OnRx(d)
    <3>1. \A u \in Used(d) : u # t => r.txns[u].q_index = d.txns[u].q_index
      BY <2>7, <2>11
    <3>2. r.txns[t].q_index = "TX" /\ d.txns[t].q_index = "PEND"
      BY <1>1, <1>2, <2>6, <2>7
    <3> QED
      BY <1>4, <2>11, <3>1, <3>2 DEF OnQueue, OnRx
  <2>13. \A k : WithChunks(r, k) = WithChunks(d, k)
    BY <2>10, <2>11, Zenon DEF WithChunks
  <2>14. ChannelOK(r)
    <3>1. \A u \in Free(r) : r.txns[u] = Wiped
      <4>1. \A u \in Free(d) : u \in Txns /\ u # t
        BY <1>4 DEF Used, Free
      <4> QED
        BY <1>2, <2>7, <2>11, <4>1, Zenon DEF ChannelOK
    <3>2. \A u \in Txns : r.txns[u].cmd_tx => r.txns[u].dir = "TX"
      BY <1>2, <2>10, Zenon DEF ChannelOK
    <3>3. ToSet(d.pend) = OnQueue(d, "PEND") /\ ToSet(d.tx) = OnQueue(d, "TX")
      BY <1>2 DEF ChannelOK
    <3>4. ToSet(r.pend) = OnQueue(r, "PEND") /\ IsInjective(r.pend)
      BY <2>1, <2>4, <2>12, <3>3
    <3>5. ToSet(r.tx) = OnQueue(r, "TX") /\ IsInjective(r.tx)
      BY <2>1, <2>4, <2>8, <2>12, <3>3
    <3>6. Len(r.hist) + Len(r.hist_free) + Cardinality(Used(r)) = NumHistories
      BY <1>2, <2>4, <2>11, Zenon DEF ChannelOK
    <3>7. \A k \in Dirs : r.cs[k] + Cardinality(WithChunks(r, k)) = NumTxns
      BY <1>2, <2>4, <2>13, Zenon DEF ChannelOK
    <3> QED
      BY <2>9, <3>1, <3>2, <3>4, <3>5, <3>6, <3>7 DEF ChannelOK
  <2>15. KeepsHold(c, r)
    BY <1>5, <2>10 DEF KeepsHold
  <2>16. KeepsOrder(c, r)
    BY <1>2, <2>1, <2>4 DEF KeepsOrder
  <2>17. Covered(c) => Covered(r)
    <3> SUFFICES ASSUME Covered(d) PROVE Covered(r)
      BY <1>6
    <3>1. \A u \in Unfinished(r) : /\ u \in Unfinished(d)
                                   /\ r.txns[u].cmd_tx = d.txns[u].cmd_tx
                                   /\ r.txns[u].pb = d.txns[u].pb
      BY <2>10, <2>11, Zenon DEF Unfinished
    <3> QED
      BY <2>4, <3>1, CoveredStays
  <2> QED
    BY <1>2, <2>12, <2>14, <2>15, <2>16, <2>17, Zenon DEF r
<1>8. CASE ~(TxnIsOK(d, t) /\ opens)
  <2> DEFINE x == IF opens THEN d ELSE SetTxnError(d, t)
  <2>1. /\ ChannelOK(x) /\ Used(x) = Used(d) /\ OnRx(x) = OnRx(d) /\ x.pend = d.pend
        /\ \A u \in Txns : x.txns[u].state = d.txns[u].state
        /\ Covered(d) => Covered(x)
    <3>1. CASE opens
      <4>1. x = d
        BY <3>1, Zenon
      <4> HIDE DEF x
      <4> QED
        BY <1>2, <4>1
    <3>2. CASE ~opens
      <4> DEFINE y == SetTxnError(d, t)
      <4>1. x = y
        BY <3>2, Zenon
      <4>2. /\ Marks(d, y) /\ (Covered(d) => Covered(y))
            /\ \A u \in Txns : y.txns[u].state = d.txns[u].state
        BY <1>2, <1>4, SetTxnErrorMarks
      <4> HIDE DEF x, y
      <4>3. ChannelOK(y) /\ Used(y) = Used(d) /\ OnRx(y) = OnRx(d)
        BY <1>2, <4>2, MarksOK
      <4>4. y.pend = d.pend
        BY <4>2 DEF Marks
      <4> QED
        BY <4>1, <4>2, <4>3, <4>4
    <3> QED
      BY <3>1, <3>2
  <2>2. r = RecycleTransaction(x, t)
    BY <1>3, <1>8, Zenon
  <2> HIDE DEF x
  <2>3. t \in Used(x)
    BY <1>4, <2>1
  <2>4. /\ ChannelOK(r) /\ Only(t, x, r) /\ r.txns[t] = Wiped /\ OnRx(r) = OnRx(x) \ {t}
        /\ KeepsOrder(x, r) /\ (Covered(x) => Covered(r))
    BY <2>1, <2>2, <2>3, RecycleTransactionOK
  <2>5. KeepsOrder(c, r)
    BY <1>2, <2>1, <2>4, Zenon DEF KeepsOrder
  <2>6. KeepsHold(c, r)
    <3>1. Wiped.state = "UNDEF"
      BY DEF Wiped
    <3> QED
      BY <1>5, <2>1, <2>4, <3>1 DEF KeepsHold, Only
  <2>7. OnRx(r) = OnRx(c)
    BY <1>1, <1>2, <2>1, <2>4
  <2> QED
    BY <1>6, <2>1, <2>4, <2>5, <2>6, <2>7, Zenon DEF r
<1> QED
  BY <1>7, <1>8

LEMMA SetupRxTransactionOK ==
  ASSUME NEW c, ChannelOK(c), Free(c) # {}
  PROVE  LET d == SetupRxTransaction(FindUnusedTransaction(c, "RX"), NextFree(c))
         IN  /\ ChannelOK(d) /\ OnRx(d) = OnRx(c) \cup {NextFree(c)}
             /\ KeepsHold(c, d) /\ KeepsOrder(c, d) /\ (Covered(c) => Covered(d))
<1> DEFINE t == NextFree(c)
           f == FindUnusedTransaction(c, "RX")
           txn == [f.txns[t] EXCEPT !.q_index = "RX"]
           g == [f EXCEPT !.txns = [f.txns EXCEPT ![t] = txn]]
           d == AllocChunkList(g, t)
           begun == [d.txns[t] EXCEPT !.state = IF TxnIsOK(d, t) THEN "ACTIVE" ELSE "HOLD"]
           r == SetupRxTransaction(f, t)
<1>1. c \in Channel /\ t \in Free(c) /\ t \in Txns /\ c.txns[t].state = "UNDEF" /\ t \notin OnRx(c)
  BY HistoryLeft DEF ChannelOK, Free, OnRx, Used
<1>2. /\ f \in Channel
      /\ f.txns[t] \in Transaction /\ f.txns[t].state = "INIT"
      /\ f.txns[t].dir = "RX" /\ ~f.txns[t].chunks /\ ~f.txns[t].cmd_tx
      /\ f.txns[t].pb = NoPlayback /\ Only(t, c, f)
      /\ f.pend = c.pend /\ f.tx = c.tx /\ f.cs = c.cs
      /\ Len(f.hist) + Len(f.hist_free) = Len(c.hist) + Len(c.hist_free) - 1
  <2>1. "RX" \in Dirs
    BY DEF Dirs
  <2> QED
    BY <2>1, FindUnusedTransactionOK
<1> HIDE DEF f, t
<1>3. g = [f EXCEPT !.txns[t].q_index = "RX"]
  BY <1>2 DEF Channel
<1>4. r = [d EXCEPT !.txns[t].state = IF TxnIsOK(d, t) THEN "ACTIVE" ELSE "HOLD"]
  <2> HIDE DEF g
  <2> QED
    BY <1>3 DEF SetupRxTransaction
<1>5. f.txns \in [Txns -> Transaction]
  BY <1>2 DEF Channel
<1>6. /\ txn \in Transaction /\ txn.q_index = "RX" /\ txn.state = "INIT"
      /\ ~txn.chunks /\ ~txn.cmd_tx /\ txn.pb = NoPlayback
  BY <1>2 DEF Transaction
<1> HIDE DEF txn, d, r
<1>7. /\ g.txns = [f.txns EXCEPT ![t] = txn] /\ g.pend = c.pend /\ g.tx = c.tx /\ g.cs = c.cs
      /\ g.hist = f.hist /\ g.hist_free = f.hist_free
      /\ g.num_cmd_tx = f.num_cmd_tx /\ g.pb = f.pb
  BY <1>2 DEF Channel
<1>8. g \in Channel
  <2>1. g.txns \in [Txns -> Transaction]
    BY <1>1, <1>5, <1>6, <1>7
  <2>2. g = [f EXCEPT !.txns = g.txns]
    BY <1>7
  <2> HIDE DEF g
  <2> QED
    BY <1>2, <2>1, <2>2 DEF Channel
<1> HIDE DEF g
<1>9. /\ g.txns[t] = txn /\ \A u \in Txns : u # t => g.txns[u] = c.txns[u]
      /\ g.num_cmd_tx = c.num_cmd_tx /\ g.pb = c.pb
  BY <1>1, <1>2, <1>5, <1>7 DEF Only
<1>10. ChannelOK(g) /\ Used(g) = Used(c) \cup {t} /\ t \notin Used(c) /\ Free(g) = Free(c) \ {t}
  <2>1. /\ g.txns[t].state # "UNDEF" /\ ~g.txns[t].chunks
        /\ g.txns[t].q_index # "TX"
        /\ g.txns[t].cmd_tx => g.txns[t].dir = "TX"
    BY <1>6, <1>9
  <2>2. \A u \in Txns : u # t => g.txns[u] = c.txns[u]
    BY <1>9
  <2>3. Len(g.hist) + Len(g.hist_free) = Len(c.hist) + Len(c.hist_free) - 1
    BY <1>2, <1>7, Zenon
  <2>4. IsInjective(g.pend)
    BY <1>7 DEF ChannelOK
  <2>5. t \in Free(c) /\ g.tx = c.tx /\ g.cs = c.cs
    BY <1>1, <1>7
  <2>6. \A u : u \in ToSet(g.pend) <=>
               u \in ToSet(c.pend) \/ (u = t /\ g.txns[t].q_index = "PEND")
    BY <1>6, <1>7, <1>9
  <2>7. Begins(t, c, g)
    BY <1>8, <2>1, <2>2, <2>3, <2>4, <2>5, <2>6 DEF Begins
  <2> QED
    BY <2>7, BeginOK
<1>11. OnRx(g) = OnRx(c) \cup {t}
  <2>1. \A u \in Used(c) : u \in Txns
    BY DEF Used
  <2> QED
    BY <1>6, <1>9, <1>10, <2>1 DEF OnRx
<1>12. /\ ChannelOK(d) /\ Used(d) = Used(g) /\ OnRx(d) = OnRx(g)
       /\ Only(t, g, d) /\ SameOwner(t, g, d) /\ d.pend = g.pend /\ d.tx = g.tx
  <2>1. t \in Used(g)
    BY <1>10
  <2> QED
    BY <1>10, <2>1, AllocChunkListOK DEF d
<1>13. d \in Channel /\ d.txns \in [Txns -> Transaction] /\ d.txns[t] \in Transaction
  BY <1>1, <1>12 DEF ChannelOK, Channel
<1>14. /\ begun \in Transaction /\ begun.state \in {"ACTIVE", "HOLD"}
       /\ begun.q_index = d.txns[t].q_index /\ begun.dir = d.txns[t].dir
       /\ begun.chunks = d.txns[t].chunks /\ begun.cmd_tx = d.txns[t].cmd_tx
       /\ begun.pb = d.txns[t].pb
  BY <1>13 DEF Transaction
<1>15. r = [d EXCEPT !.txns = [d.txns EXCEPT ![t] = begun]]
  BY <1>4, <1>13 DEF Channel
<1> HIDE DEF begun
<1>16. /\ r.txns = [d.txns EXCEPT ![t] = begun] /\ r.pend = d.pend /\ r.tx = d.tx
       /\ r.cs = d.cs /\ r.hist = d.hist /\ r.hist_free = d.hist_free
       /\ r.num_cmd_tx = d.num_cmd_tx /\ r.pb = d.pb
  BY <1>13, <1>15 DEF Channel
<1>17. r.txns[t] = begun /\ \A u \in Txns : u # t => r.txns[u] = d.txns[u]
  BY <1>1, <1>13, <1>16
<1>18. r \in Channel
  <2>1. r.txns \in [Txns -> Transaction]
    BY <1>1, <1>13, <1>14, <1>16
  <2>2. r = [d EXCEPT !.txns = r.txns]
    BY <1>15, <1>16
  <2> QED
    BY <1>13, <2>1, <2>2 DEF Channel
<1>19. Marks(d, r)
  <2>1. d.txns[t].state # "UNDEF"
    BY <1>6, <1>9, <1>12 DEF SameOwner
  <2>2. begun.state # "UNDEF"
    BY <1>14
  <2> QED
    BY <1>14, <1>16, <1>17, <1>18, <2>1, <2>2, Zenon DEF Marks
<1>20. ChannelOK(r) /\ OnRx(r) = OnRx(d) /\ Used(r) = Used(d)
  BY <1>12, <1>19, MarksOK
<1>21. KeepsOrder(c, r)
  BY <1>7, <1>12, <1>16, Zenon DEF KeepsOrder
<1>22. \A u \in Txns : u # t => r.txns[u] = c.txns[u]
  BY <1>9, <1>12, <1>17, Zenon DEF Only
<1>23. KeepsHold(c, r)
  BY <1>1, <1>22 DEF KeepsHold
<1>24. ASSUME Covered(c) PROVE Covered(r)
  <2>1. ~r.txns[t].cmd_tx /\ r.txns[t].pb \notin Playbacks
    <3>1. NoPlayback \notin Playbacks
      BY PlaybacksAssumption DEF Playbacks, NoPlayback
    <3> QED
      BY <1>6, <1>9, <1>12, <1>14, <1>17, <3>1, Zenon DEF SameOwner
  <2>2. \A u \in Used(r) : u = t \/ (u \in Used(c) /\ r.txns[u] = c.txns[u])
    <3>1. \A u \in Used(c) : u \in Txns
      BY DEF Used
    <3> QED
      BY <1>10, <1>12, <1>20, <1>22, <3>1
  <2>3. Commanded(r) \subseteq Commanded(c)
    BY <2>1, <2>2, Zenon DEF Commanded, Unfinished
  <2>4. \A p \in Playbacks : PlayedBack(r, p) \subseteq PlayedBack(c, p)
    BY <2>1, <2>2, Zenon DEF PlayedBack, Unfinished
  <2>5. r.num_cmd_tx = c.num_cmd_tx /\ r.pb = c.pb
    BY <1>9, <1>12, <1>16, Zenon DEF Only
  <2> QED
    BY <1>24, <2>3, <2>4, <2>5, CoveredLess
<1> QED
  BY <1>11, <1>12, <1>20, <1>21, <1>23, <1>24, Zenon DEF r, f, t

-------------------------------------------------------------------------------
(* The loop of CF_CFDP_ProcessPlaybackDirectory. *)

(* Between c and d, i files of playback p were begun and nothing else.     *)
Begun(c, d, i, p) ==
  /\ ChannelOK(d) /\ Cardinality(Free(d)) = Cardinality(Free(c)) - i
  /\ OnRx(d) = OnRx(c) /\ d.num_cmd_tx = c.num_cmd_tx /\ d.pb = c.pb
  /\ \A t \in Used(c) : t \in Used(d) /\ d.txns[t] = c.txns[t]
  /\ ToSet(c.pend) \subseteq ToSet(d.pend)
  /\ KeepsOrder(c, d)
  /\ Commanded(d) \subseteq Commanded(c)
  /\ \A q \in Playbacks : q # p => PlayedBack(d, q) \subseteq PlayedBack(c, q)
  /\ Cardinality(PlayedBack(d, p)) <= Cardinality(PlayedBack(c, p)) + i

LEMMA BegunMore ==
  ASSUME NEW c, ChannelOK(c), NEW d, NEW i \in Nat, NEW p \in Playbacks, Begun(c, d, i, p),
         i < Cardinality(Free(c)), NEW priority \in Priorities \cup {0}
  PROVE  Begun(c, TxFile_Initiate(d, priority, p), i + 1, p)
<1> DEFINE e == TxFile_Initiate(d, priority, p)
           t == NextFree(d)
<1>1. ChannelOK(d) /\ Cardinality(Free(d)) = Cardinality(Free(c)) - i
  BY DEF Begun
<1>2. Free(c) \in SUBSET Txns /\ Free(d) \in SUBSET Txns /\ Cardinality(Free(c)) \in Nat
  BY UsedAndFree, SlotSets
<1>3. Free(d) # {}
  <2>1. Cardinality(Free(d)) # 0
    BY <1>1, <1>2
  <2> QED
    BY <2>1, FS_EmptySet
<1>4. NoPlayback \notin Playbacks /\ p \in Playbacks \cup {NoPlayback} /\ p # NoPlayback
  BY PlaybacksAssumption DEF Playbacks, NoPlayback
<1>5. /\ ChannelOK(e) /\ Only(t, d, e)
      /\ t \in Free(d) /\ Used(e) = Used(d) \cup {t} /\ Free(e) = Free(d) \ {t}
      /\ OnRx(e) = OnRx(d)
      /\ e.txns[t].cmd_tx <=> p = NoPlayback
      /\ e.txns[t].pb = p
      /\ ToSet(e.pend) = ToSet(d.pend) \cup {t} /\ t \notin ToSet(d.pend)
      /\ \A u, v \in ToSet(d.pend) : Precedes(d.pend, u, v) => Precedes(e.pend, u, v)
      /\ \A u \in ToSet(d.pend) : e.txns[u].priority <= e.txns[t].priority =>
           Precedes(e.pend, u, t)
  <2>1. ChannelOK(d) /\ Free(d) # {} /\ p \in Playbacks \cup {NoPlayback}
    BY <1>1, <1>3, <1>4
  <2>2. ChannelOK(e)
    BY <2>1, TxFile_InitiateOK, ZenonT(30)
  <2>3. Only(t, d, e)
    BY <2>1, TxFile_InitiateOK, ZenonT(30)
  <2>4. t \in Free(d)
    BY <2>1, TxFile_InitiateOK, ZenonT(30)
  <2>5. Used(e) = Used(d) \cup {t}
    BY <2>1, TxFile_InitiateOK, ZenonT(30)
  <2>6. Free(e) = Free(d) \ {t}
    BY <2>1, TxFile_InitiateOK, SMTT(30)
  <2>7. OnRx(e) = OnRx(d)
    BY <2>1, TxFile_InitiateOK, SMTT(60)
  <2>8. e.txns[t].cmd_tx <=> p = NoPlayback
    BY <2>1, TxFile_InitiateOK, SMTT(60)
  <2>9. e.txns[t].pb = p
    BY <2>1, TxFile_InitiateOK, ZenonT(30)
  <2>10. ToSet(e.pend) = ToSet(d.pend) \cup {t} /\ t \notin ToSet(d.pend)
    BY <2>1, TxFile_InitiateOK, ZenonT(30)
  <2>11. \A u, v \in ToSet(d.pend) : Precedes(d.pend, u, v) => Precedes(e.pend, u, v)
    BY <2>1, TxFile_InitiateOK, ZenonT(30)
  <2>12. \A u \in ToSet(d.pend) : e.txns[u].priority <= e.txns[t].priority =>
           Precedes(e.pend, u, t)
    BY <2>1, TxFile_InitiateOK, ZenonT(30)
  <2> QED
    BY <2>2, <2>3, <2>4, <2>5, <2>6, <2>7, <2>8, <2>9, <2>10, <2>11, <2>12
<1> HIDE DEF e, t
<1>6. Cardinality(Free(e)) = Cardinality(Free(c)) - (i + 1)
  <2>1. Cardinality(Free(e)) = Cardinality(Free(d)) - 1
    BY <1>2, <1>5, OneLess
  <2> QED
    BY <1>1, <1>2, <2>1
<1>7. t \notin Used(d) /\ t \in Txns /\ \A u \in Used(d) : u \in Txns
  BY <1>5 DEF Used, Free
<1>8. \A u \in Used(d) : e.txns[u] = d.txns[u]
  BY <1>5, <1>7, Zenon DEF Only
<1>9. \A u \in Used(c) : u \in Used(e) /\ e.txns[u] = c.txns[u]
  BY <1>5, <1>8 DEF Begun
<1>10. ToSet(c.pend) \subseteq ToSet(e.pend)
  BY <1>5 DEF Begun
<1>11. KeepsOrder(c, e)
  <2> SUFFICES ASSUME NEW v \in ToSet(e.pend), NEW u \in ToSet(e.pend),
                      u \in ToSet(c.pend),
                      v \in ToSet(c.pend) => Precedes(c.pend, u, v),
                      v \notin ToSet(c.pend) => e.txns[u].priority <= e.txns[v].priority
               PROVE  Precedes(e.pend, u, v)
    BY DEF KeepsOrder
  <2>1. u \in ToSet(d.pend) /\ KeepsOrder(c, d)
    BY DEF Begun
  <2>2. CASE v = t
    <3>1. v \notin ToSet(c.pend)
      BY <1>5, <2>2 DEF Begun
    <3> QED
      BY <1>5, <2>1, <2>2, <3>1
  <2>3. CASE v # t
    <3>1. v \in ToSet(d.pend)
      BY <1>5, <2>3
    <3>2. u \in Used(d) /\ v \in Used(d)
      BY <1>1, <2>1, <3>1 DEF ChannelOK, OnQueue
    <3>3. e.txns[u] = d.txns[u] /\ e.txns[v] = d.txns[v]
      BY <1>8, <3>2
    <3>4. Precedes(d.pend, u, v)
      BY <2>1, <3>1, <3>3, Zenon DEF KeepsOrder
    <3> QED
      BY <1>5, <2>1, <3>1, <3>4
  <2> QED
    BY <2>2, <2>3
<1>12. Commanded(e) \subseteq Commanded(c)
  <2>1. Commanded(e) \subseteq Commanded(d)
    BY <1>4, <1>5, <1>8 DEF Commanded, Unfinished
  <2> QED
    BY <2>1 DEF Begun
<1>13. ASSUME NEW q \in Playbacks, q # p
       PROVE  PlayedBack(e, q) \subseteq PlayedBack(c, q)
  <2>1. PlayedBack(e, q) \subseteq PlayedBack(d, q)
    BY <1>5, <1>8, <1>13 DEF PlayedBack, Unfinished
  <2> QED
    BY <1>13, <2>1 DEF Begun
<1>14. Cardinality(PlayedBack(e, p)) <= Cardinality(PlayedBack(c, p)) + (i + 1)
  <2>1. PlayedBack(e, p) \in SUBSET (PlayedBack(d, p) \cup {t})
    BY <1>5, <1>8 DEF PlayedBack, Unfinished
  <2>2. PlayedBack(d, p) \in SUBSET Txns /\ t \in Txns \ PlayedBack(d, p)
    BY <1>7 DEF PlayedBack, Unfinished
  <2>3. PlayedBack(d, p) \cup {t} \in SUBSET Txns /\ PlayedBack(e, p) \in SUBSET Txns
    BY <2>1, <2>2
  <2>4. PlayedBack(c, p) \in SUBSET Txns
    BY DEF PlayedBack, Unfinished, Used
  <2>5. Cardinality(PlayedBack(d, p) \cup {t}) = Cardinality(PlayedBack(d, p)) + 1
    BY <2>2, OneMore
  <2>6. Cardinality(PlayedBack(e, p)) <= Cardinality(PlayedBack(d, p) \cup {t})
    BY <2>1, <2>3, NoMore
  <2>7. Cardinality(PlayedBack(d, p)) <= Cardinality(PlayedBack(c, p)) + i
    BY DEF Begun
  <2>8. /\ Cardinality(PlayedBack(c, p)) \in Nat /\ Cardinality(PlayedBack(d, p)) \in Nat
        /\ Cardinality(PlayedBack(e, p)) \in Nat
    BY <2>2, <2>3, <2>4, SlotSets
  <2> QED
    BY <2>5, <2>6, <2>7, <2>8
<1>15. OnRx(e) = OnRx(c) /\ e.num_cmd_tx = c.num_cmd_tx /\ e.pb = c.pb
  BY <1>5 DEF Begun, Only
<1>16. Begun(c, e, i + 1, p)
  BY <1>5, <1>6, <1>9, <1>10, <1>11, <1>12, <1>13, <1>14, <1>15 DEF Begun
<1> QED
  BY <1>16 DEF e

(* The loop as a function of how many files it has begun.                  *)
PlayLoop(c, priority, p, n, f) ==
  f = [i \in 0 .. n |-> IF i = 0 THEN c ELSE TxFile_Initiate(f[i - 1], priority, p)]

LEMMA PlayLoopExists ==
  ASSUME NEW c, NEW priority, NEW p, NEW n \in Nat
  PROVE  \E f : PlayLoop(c, priority, p, n, f)
<1> DEFINE G == {k \in Nat : \E f : PlayLoop(c, priority, p, k, f)}
<1>1. 0 \in G
  <2> DEFINE f == [i \in 0 .. 0 |-> c]
  <2>1. \A i \in 0 .. 0 : i = 0
    OBVIOUS
  <2>2. f = [i \in 0 .. 0 |-> IF i = 0 THEN c ELSE TxFile_Initiate(f[i - 1], priority, p)]
    BY <2>1
  <2> QED
    BY <2>2, Zenon DEF PlayLoop
<1>2. ASSUME NEW k \in Nat, k \in G PROVE k + 1 \in G
  <2>1. PICK f : PlayLoop(c, priority, p, k, f)
    BY <1>2
  <2> DEFINE g == [i \in 0 .. k + 1 |->
                     IF i = k + 1 THEN TxFile_Initiate(f[k], priority, p) ELSE f[i]]
             step(h, i) == IF i = 0 THEN c ELSE TxFile_Initiate(h[i - 1], priority, p)
  <2>2. \A i \in 0 .. k : f[i] = step(f, i)
    BY <2>1 DEF PlayLoop
  <2>3. ASSUME NEW i \in 0 .. k + 1 PROVE g[i] = step(g, i)
    <3>1. CASE i = k + 1
      <4>1. i # 0 /\ i - 1 = k /\ k \in 0 .. k + 1 /\ k # k + 1
        BY <3>1
      <4>2. g[k] = f[k]
        BY <4>1
      <4>3. g[i] = TxFile_Initiate(f[k], priority, p)
        BY <3>1
      <4> HIDE DEF g
      <4> QED
        BY <4>1, <4>2, <4>3
    <3>2. CASE i # k + 1 /\ i # 0
      <4>1. i \in 0 .. k /\ i - 1 \in 0 .. k + 1 /\ i - 1 # k + 1
        BY <3>2
      <4>2. g[i] = f[i] /\ g[i - 1] = f[i - 1]
        BY <3>2, <4>1
      <4>3. f[i] = TxFile_Initiate(f[i - 1], priority, p)
        BY <2>2, <3>2, <4>1
      <4> HIDE DEF g
      <4> QED
        BY <3>2, <4>2, <4>3
    <3>3. CASE i = 0
      <4>1. i \in 0 .. k /\ i # k + 1
        BY <3>3
      <4>2. g[i] = f[i] /\ f[i] = c
        BY <2>2, <3>3, <4>1
      <4> HIDE DEF g
      <4> QED
        BY <3>3, <4>2
    <3> QED
      BY <3>1, <3>2, <3>3
  <2>4. g = [i \in 0 .. k + 1 |-> g[i]]
    OBVIOUS
  <2> HIDE DEF g
  <2>5. PlayLoop(c, priority, p, k + 1, g)
    BY <2>3, <2>4 DEF PlayLoop
  <2> QED
    BY <2>5
<1> HIDE DEF G
<1>3. Nat \subseteq G
  BY <1>1, <1>2, Induction
<1> QED
  BY <1>3 DEF G

LEMMA PlayLoopOK ==
  ASSUME NEW c, ChannelOK(c), NEW p \in Playbacks, NEW priority \in Priorities \cup {0},
         NEW n \in Nat, n <= Cardinality(Free(c)),
         NEW f, PlayLoop(c, priority, p, n, f)
  PROVE  Begun(c, f[n], n, p)
<1> DEFINE G == {i \in Nat : i <= n => Begun(c, f[i], i, p)}
<1>1. f[0] = c /\ \A i \in 0 .. n : i # 0 => f[i] = TxFile_Initiate(f[i - 1], priority, p)
  BY DEF PlayLoop
<1>2. 0 \in G
  <2>1. PlayedBack(c, p) \in SUBSET Txns /\ Free(c) \in SUBSET Txns
    BY DEF PlayedBack, Unfinished, Used, Free
  <2>2. Cardinality(PlayedBack(c, p)) \in Nat /\ Cardinality(Free(c)) \in Nat
    BY <2>1, SlotSets
  <2>3. /\ Cardinality(PlayedBack(c, p)) <= Cardinality(PlayedBack(c, p)) + 0
        /\ Cardinality(Free(c)) = Cardinality(Free(c)) - 0
    BY <2>2
  <2>4. KeepsOrder(c, c)
    BY DEF KeepsOrder
  <2>5. Begun(c, c, 0, p)
    BY <2>3, <2>4 DEF Begun
  <2> QED
    BY <1>1, <2>5
<1>3. ASSUME NEW i \in Nat, i \in G PROVE i + 1 \in G
  <2> SUFFICES ASSUME i + 1 <= n PROVE Begun(c, f[i + 1], i + 1, p)
    OBVIOUS
  <2>1. Begun(c, f[i], i, p)
    BY <1>3
  <2>2. f[i + 1] = TxFile_Initiate(f[i], priority, p)
    <3>1. i + 1 \in 0 .. n /\ i + 1 # 0 /\ (i + 1) - 1 = i
      OBVIOUS
    <3> QED
      BY <1>1, <3>1
  <2>3. i < Cardinality(Free(c))
    <3>1. Free(c) \in SUBSET Txns
      BY DEF Free
    <3>2. Cardinality(Free(c)) \in Nat
      BY <3>1, SlotSets
    <3> QED
      BY <3>2
  <2> QED
    BY <2>1, <2>2, <2>3, BegunMore
<1> HIDE DEF G
<1>4. Nat \subseteq G
  BY <1>2, <1>3, Induction
<1> QED
  BY <1>4 DEF G

LEMMA PlaybackRoomOK ==
  ASSUME NEW b \in Playback
  PROVE  /\ PlaybackRoom(b) \in Nat
         /\ b.num_ts <= TxnsPerPlayback => b.num_ts + PlaybackRoom(b) <= TxnsPerPlayback
<1>1. b.num_ts \in Nat
  BY DEF Playback, Counter
<1>2. TxnsPerPlayback \in Nat
  BY LimitsAssumption
<1>3. CASE b.num_ts < TxnsPerPlayback
  <2>1. PlaybackRoom(b) = TxnsPerPlayback - b.num_ts
    BY <1>3, Zenon DEF PlaybackRoom
  <2> QED
    BY <1>1, <1>2, <1>3, <2>1
<1>4. CASE ~(b.num_ts < TxnsPerPlayback)
  <2>1. PlaybackRoom(b) = 0
    BY <1>4, Zenon DEF PlaybackRoom
  <2> QED
    BY <1>1, <1>2, <1>4, <2>1
<1> QED
  BY <1>3, <1>4

LEMMA ProcessPlaybackDirectoryOK ==
  ASSUME NEW c, ChannelOK(c), NEW p \in Playbacks, NEW files \in Nat
  PROVE  LET d == ProcessPlaybackDirectory(c, p, files)
         IN  /\ ChannelOK(d) /\ OnRx(d) = OnRx(c)
             /\ KeepsHold(c, d) /\ KeepsOrder(c, d) /\ (Covered(c) => Covered(d))
<1> DEFINE b       == c.pb[p]
           names   == IF b.pending_file THEN files + 1 ELSE files
           room    == PlaybackRoom(b)
           started == IF b.diropen THEN Min({names, room, Cardinality(Free(c))}) ELSE 0
           after   == CHOOSE f : PlayLoop(c, b.priority, p, started, f)
           d       == after[started]
           open    == b.diropen /\ (started = room \/ started < names)
           num_ts  == (b.num_ts + started) % CounterModulus
           left    == [b EXCEPT !.diropen = open, !.num_ts = num_ts,
                        !.pending_file = IF room = 0 THEN @ ELSE open /\ started < room,
                        !.busy = @ /\ (open \/ num_ts # 0)]
           r       == ProcessPlaybackDirectory(c, p, files)
<1>1. c \in Channel /\ c.pb \in [Playbacks -> Playback] /\ b \in Playback
  BY DEF ChannelOK, Channel
<1>2. b.priority \in Priorities \cup {0} /\ b.num_ts \in Counter
  BY <1>1 DEF Playback
<1>3. /\ room \in Nat
      /\ b.num_ts <= TxnsPerPlayback => b.num_ts + room <= TxnsPerPlayback
  BY <1>1, PlaybackRoomOK
<1>4. Cardinality(Free(c)) \in Nat /\ names \in Nat
  <2>1. Free(c) \in SUBSET Txns
    BY DEF Free
  <2> QED
    BY <2>1, SlotSets
<1>5. r = [d EXCEPT !.pb[p] = left]
  BY DEF ProcessPlaybackDirectory, PlayLoop
<1> HIDE DEF b, room, names, r
<1>6. started \in Nat /\ started <= room /\ started <= Cardinality(Free(c))
  <2>1. CASE b.diropen
    <3> DEFINE T == {names, room, Cardinality(Free(c))}
    <3>1. T \subseteq Nat /\ T # {}
      BY <1>3, <1>4
    <3>2. started = Min(T)
      BY <2>1, Zenon
    <3> HIDE DEF started
    <3>3. Min(T) \in T /\ \A y \in T : Min(T) <= y
      BY <3>1, MinProperties
    <3> QED
      BY <3>1, <3>2, <3>3
  <2>2. CASE ~b.diropen
    <3>1. started = 0
      BY <2>2, Zenon
    <3> QED
      BY <1>3, <1>4, <3>1
  <2> QED
    BY <2>1, <2>2
<1> HIDE DEF started
<1>7. PlayLoop(c, b.priority, p, started, after)
  BY <1>6, PlayLoopExists
<1> HIDE DEF after
<1>8. Begun(c, d, started, p)
  BY <1>2, <1>6, <1>7, PlayLoopOK
<1> HIDE DEF d
<1>9. ChannelOK(d) /\ d \in Channel /\ d.pb = c.pb /\ d.num_cmd_tx = c.num_cmd_tx
  BY <1>8 DEF Begun, ChannelOK
<1>10. num_ts \in Counter
  <2>1. b.num_ts + started \in Int
    BY <1>2, <1>6 DEF Counter
  <2> QED
    BY <2>1, ModCounter
<1>11. left \in Playback /\ left.num_ts = num_ts
  <2> HIDE DEF num_ts
  <2>1. open \in BOOLEAN
    OBVIOUS
  <2> HIDE DEF open
  <2>2. (IF room = 0 THEN b.pending_file ELSE open /\ started < room) \in BOOLEAN
    BY <1>1 DEF Playback
  <2>3. (b.busy /\ (open \/ num_ts # 0)) \in BOOLEAN
    OBVIOUS
  <2> QED
    BY <1>1, <1>10, <2>1, <2>2, <2>3 DEF Playback
<1> HIDE DEF num_ts, left, open
<1>12. r = [d EXCEPT !.pb = [d.pb EXCEPT ![p] = left]]
  BY <1>5, <1>9 DEF Channel
<1>13. /\ r.txns = d.txns /\ r.pend = d.pend /\ r.tx = d.tx /\ r.cs = d.cs
       /\ r.hist = d.hist /\ r.hist_free = d.hist_free /\ r.num_cmd_tx = d.num_cmd_tx
       /\ r.pb = [c.pb EXCEPT ![p] = left]
  BY <1>9, <1>12 DEF Channel
<1>14. r \in Channel
  <2>1. r.pb \in [Playbacks -> Playback]
    BY <1>1, <1>11, <1>13
  <2>2. r = [d EXCEPT !.pb = r.pb]
    BY <1>9, <1>12, <1>13
  <2> QED
    BY <1>9, <2>1, <2>2 DEF Channel
<1>15. Marks(d, r)
  BY <1>13, <1>14, Zenon DEF Marks
<1>16. ChannelOK(r) /\ OnRx(r) = OnRx(c)
  <2>1. ChannelOK(r) /\ OnRx(r) = OnRx(d)
    BY <1>9, <1>15, MarksOK
  <2> QED
    BY <1>8, <2>1 DEF Begun
<1>17. KeepsHold(c, r)
  <2>1. \A t \in Txns : c.txns[t].state = "HOLD" => t \in Used(c)
    BY DEF Used, Free
  <2>2. \A t \in Used(c) : d.txns[t] = c.txns[t]
    BY <1>8 DEF Begun
  <2> QED
    BY <1>13, <2>1, <2>2 DEF KeepsHold
<1>18. KeepsOrder(c, r)
  <2>1. KeepsOrder(c, d)
    BY <1>8 DEF Begun
  <2> QED
    BY <1>13, <2>1, Zenon DEF KeepsOrder
<1>19. ASSUME Covered(c) PROVE Covered(r)
  <2>1. /\ Commanded(r) = Commanded(d)
        /\ \A q : PlayedBack(r, q) = PlayedBack(d, q)
    BY <1>13, Zenon DEF Commanded, PlayedBack, Unfinished, Used, Free
  <2>2. /\ Commanded(r) \in SUBSET Commanded(c) /\ Commanded(c) \in SUBSET Txns
        /\ Commanded(r) \in SUBSET Txns
    <3>1. Commanded(r) \subseteq Commanded(c)
      BY <1>8, <2>1 DEF Begun
    <3>2. Commanded(c) \in SUBSET Txns
      BY DEF Commanded, Unfinished, Used
    <3> QED
      BY <3>1, <3>2
  <2>3. r.num_cmd_tx \in Cardinality(Commanded(r)) .. MaxCmdTx
    <3>1. Cardinality(Commanded(r)) <= Cardinality(Commanded(c))
      BY <2>2, NoMore
    <3>2. Cardinality(Commanded(r)) \in Nat /\ Cardinality(Commanded(c)) \in Nat
      BY <2>2, SlotSets
    <3>3. c.num_cmd_tx \in Cardinality(Commanded(c)) .. MaxCmdTx /\ r.num_cmd_tx = c.num_cmd_tx
      BY <1>9, <1>13, <1>19 DEF Covered
    <3> QED
      BY <3>1, <3>2, <3>3
  <2>4. ASSUME NEW q \in Playbacks
        PROVE  r.pb[q].num_ts \in Cardinality(PlayedBack(r, q)) .. TxnsPerPlayback
    <3>1. c.pb[q].num_ts \in Cardinality(PlayedBack(c, q)) .. TxnsPerPlayback
      BY <1>19 DEF Covered
    <3>2. PlayedBack(c, q) \in SUBSET Txns /\ PlayedBack(r, q) \in SUBSET Txns
      BY DEF PlayedBack, Unfinished, Used
    <3>3. Cardinality(PlayedBack(c, q)) \in Nat /\ Cardinality(PlayedBack(r, q)) \in Nat
      BY <3>2, SlotSets
    <3>4. CASE q = p
      <4>1. b.num_ts \in Cardinality(PlayedBack(c, p)) .. TxnsPerPlayback
        BY <3>1, <3>4 DEF b
      <4>2. Cardinality(PlayedBack(r, p)) <= Cardinality(PlayedBack(c, p)) + started
        BY <1>8, <2>1 DEF Begun
      <4>3. b.num_ts \in Nat /\ b.num_ts + started <= TxnsPerPlayback
        BY <1>2, <1>3, <1>6, <3>3, <3>4, <4>1, LimitsAssumption DEF Counter
      <4>4. b.num_ts + started \in Counter
        BY <1>6, <4>3, LimitsAssumption, ModulusAssumption DEF Counter
      <4>5. num_ts = b.num_ts + started
        BY <4>4, ModSmall DEF num_ts
      <4>6. r.pb[q].num_ts = num_ts
        BY <1>1, <1>11, <1>13, <3>4
      <4> QED
        BY <1>6, <3>3, <3>4, <4>1, <4>2, <4>3, <4>5, <4>6, LimitsAssumption
    <3>5. CASE q # p
      <4>1. PlayedBack(r, q) \in SUBSET PlayedBack(c, q)
        BY <1>8, <2>1, <3>5 DEF Begun
      <4>2. Cardinality(PlayedBack(r, q)) <= Cardinality(PlayedBack(c, q))
        BY <3>2, <4>1, NoMore
      <4>3. r.pb[q] = c.pb[q]
        BY <1>1, <1>13, <3>5
      <4> QED
        BY <3>1, <3>3, <4>2, <4>3
    <3> QED
      BY <3>4, <3>5
  <2> QED
    BY <2>3, <2>4 DEF Covered
<1> QED
  BY <1>16, <1>17, <1>18, <1>19, Zenon DEF r

-------------------------------------------------------------------------------
(* A file that a command sends, and the engine when it is initialised.     *)

LEMMA TxFileOK ==
  ASSUME NEW c, ChannelOK(c), Free(c) # {}, NEW priority \in Priorities \cup {0},
         c.num_cmd_tx < MaxCmdTx
  PROVE  LET d == TxFile(c, priority)
         IN  /\ ChannelOK(d) /\ OnRx(d) = OnRx(c)
             /\ KeepsHold(c, d) /\ KeepsOrder(c, d) /\ (Covered(c) => Covered(d))
<1> DEFINE e == TxFile_Initiate(c, priority, NoPlayback)
           t == NextFree(c)
           r == TxFile(c, priority)
<1>1. r = [e EXCEPT !.num_cmd_tx = Inc(@)]
  BY DEF TxFile
<1>2. ChannelOK(e) /\ Only(t, c, e)
  BY TxFile_InitiateOK, ZenonT(30)
<1>3. t \in Free(c) /\ Used(e) = Used(c) \cup {t}
  BY TxFile_InitiateOK, ZenonT(30)
<1>4. OnRx(e) = OnRx(c) /\ KeepsHold(c, e) /\ e.txns[t].pb = NoPlayback
  BY TxFile_InitiateOK, SMTT(60)
<1>5. ToSet(e.pend) = ToSet(c.pend) \cup {t} /\ t \notin ToSet(c.pend)
  BY TxFile_InitiateOK, ZenonT(30)
<1>6. \A u, v \in ToSet(c.pend) : Precedes(c.pend, u, v) => Precedes(e.pend, u, v)
  BY TxFile_InitiateOK, ZenonT(30)
<1>7. \A u \in ToSet(c.pend) : e.txns[u].priority <= e.txns[t].priority =>
        Precedes(e.pend, u, t)
  BY TxFile_InitiateOK, ZenonT(30)
<1> HIDE DEF e, t, r
<1>8. e \in Channel /\ e.num_cmd_tx = c.num_cmd_tx /\ e.pb = c.pb
  BY <1>2 DEF ChannelOK, Only
<1>9. c.num_cmd_tx \in Nat /\ Inc(e.num_cmd_tx) = c.num_cmd_tx + 1 /\ Inc(e.num_cmd_tx) \in Counter
  <2>1. c.num_cmd_tx \in Nat
    BY DEF ChannelOK, Channel, Counter
  <2>2. c.num_cmd_tx + 1 < CounterModulus
    BY <2>1, LimitsAssumption, ModulusAssumption
  <2>3. Inc(c.num_cmd_tx) = c.num_cmd_tx + 1
    BY <2>1, <2>2, IncMore
  <2> QED
    BY <1>8, <2>1, <2>2, <2>3, ModulusAssumption DEF Counter
<1>10. /\ r.txns = e.txns /\ r.pend = e.pend /\ r.tx = e.tx /\ r.cs = e.cs
       /\ r.hist = e.hist /\ r.hist_free = e.hist_free /\ r.pb = e.pb
       /\ r.num_cmd_tx = Inc(e.num_cmd_tx)
  BY <1>1, <1>8 DEF Channel
<1>11. r \in Channel
  BY <1>1, <1>8, <1>9 DEF Channel
<1>12. Marks(e, r)
  BY <1>10, <1>11, Zenon DEF Marks
<1>13. ChannelOK(r) /\ OnRx(r) = OnRx(c)
  BY <1>2, <1>4, <1>12, MarksOK
<1>14. KeepsHold(c, r)
  BY <1>4, <1>10 DEF KeepsHold
<1>15. KeepsOrder(c, r)
  <2> SUFFICES ASSUME NEW v \in ToSet(r.pend), NEW u \in ToSet(r.pend),
                      u \in ToSet(c.pend),
                      v \in ToSet(c.pend) => Precedes(c.pend, u, v),
                      v \notin ToSet(c.pend) => r.txns[u].priority <= r.txns[v].priority
               PROVE  Precedes(r.pend, u, v)
    BY DEF KeepsOrder
  <2>1. CASE v = t
    BY <1>5, <1>7, <1>10, <2>1
  <2>2. CASE v # t
    BY <1>5, <1>6, <1>10, <2>2
  <2> QED
    BY <2>1, <2>2
<1>16. ASSUME Covered(c) PROVE Covered(r)
  <2>1. \A u \in Used(c) : u \in Txns /\ u # t /\ r.txns[u] = c.txns[u]
    BY <1>2, <1>3, <1>10, Zenon DEF Used, Only
  <2>2. Used(r) = Used(c) \cup {t}
    BY <1>3, <1>10 DEF Used, Free
  <2>3. Commanded(r) \in SUBSET (Commanded(c) \cup {t})
    BY <2>1, <2>2 DEF Commanded, Unfinished
  <2>4. Commanded(c) \in SUBSET Txns /\ t \in Txns \ Commanded(c)
    BY <1>3 DEF Commanded, Unfinished, Used, Free
  <2>5. Commanded(c) \cup {t} \in SUBSET Txns /\ Commanded(r) \in SUBSET Txns
    BY <2>3, <2>4
  <2>6. /\ Cardinality(Commanded(r)) <= Cardinality(Commanded(c) \cup {t})
        /\ Cardinality(Commanded(c) \cup {t}) = Cardinality(Commanded(c)) + 1
    <3>1. Cardinality(Commanded(c) \cup {t}) = Cardinality(Commanded(c)) + 1
      BY <2>4, OneMore
    <3>2. Cardinality(Commanded(r)) <= Cardinality(Commanded(c) \cup {t})
      BY <2>3, <2>5, NoMore
    <3> QED
      BY <3>1, <3>2
  <2>7. Cardinality(Commanded(r)) \in Nat /\ Cardinality(Commanded(c)) \in Nat
    BY <2>4, <2>5, SlotSets
  <2>8. c.num_cmd_tx \in Cardinality(Commanded(c)) .. MaxCmdTx
    BY <1>16 DEF Covered
  <2>9. r.num_cmd_tx \in Cardinality(Commanded(r)) .. MaxCmdTx
    BY <1>9, <1>10, <2>6, <2>7, <2>8, LimitsAssumption
  <2>10. ASSUME NEW p \in Playbacks
         PROVE  r.pb[p].num_ts \in Cardinality(PlayedBack(r, p)) .. TxnsPerPlayback
    <3>1. p # NoPlayback
      BY PlaybacksAssumption DEF Playbacks, NoPlayback
    <3>2. r.txns[t].pb = NoPlayback
      BY <1>4, <1>10
    <3>3. PlayedBack(r, p) \in SUBSET PlayedBack(c, p)
      BY <2>1, <2>2, <3>1, <3>2 DEF PlayedBack, Unfinished
    <3>4. PlayedBack(c, p) \in SUBSET Txns
      BY DEF PlayedBack, Unfinished, Used
    <3>5. PlayedBack(r, p) \in SUBSET Txns
      BY <3>3, <3>4
    <3>6. Cardinality(PlayedBack(r, p)) <= Cardinality(PlayedBack(c, p))
      BY <3>3, <3>4, NoMore
    <3>7. Cardinality(PlayedBack(r, p)) \in Nat /\ Cardinality(PlayedBack(c, p)) \in Nat
      BY <3>4, <3>5, SlotSets
    <3>8. c.pb[p].num_ts \in Cardinality(PlayedBack(c, p)) .. TxnsPerPlayback
      BY <1>16, Zenon DEF Covered
    <3>9. r.pb[p].num_ts = c.pb[p].num_ts
      BY <1>8, <1>10
    <3> QED
      BY <3>6, <3>7, <3>8, <3>9
  <2> QED
    BY <2>9, <2>10 DEF Covered
<1> QED
  BY <1>13, <1>14, <1>15, <1>16, Zenon DEF r

LEMMA InitEngineOK ==
  /\ ChannelOK(InitEngine) /\ Covered(InitEngine) /\ OnRx(InitEngine) = {}
  /\ Used(InitEngine) = {} /\ InitEngine.pend = <<>>
<1> DEFINE e == InitEngine
           left == [i \in 1 .. NumHistories |-> "NO_ERROR"]
           idle == [busy |-> FALSE, diropen |-> FALSE, pending_file |-> FALSE,
                    num_ts |-> 0, priority |-> 0]
<1>1. /\ e.txns = [t \in Txns |-> Wiped] /\ e.pend = <<>> /\ e.tx = <<>>
      /\ e.hist = <<>> /\ e.hist_free = left
      /\ e.cs = [d \in Dirs |-> NumTxns] /\ e.num_cmd_tx = 0
      /\ e.pb = [p \in Playbacks |-> idle]
      /\ e = [txns |-> e.txns, pend |-> e.pend, tx |-> e.tx, hist |-> e.hist,
              hist_free |-> e.hist_free, cs |-> e.cs, num_cmd_tx |-> e.num_cmd_tx,
              pb |-> e.pb]
  BY DEF InitEngine
<1>2. Wiped \in Transaction /\ Wiped.state = "UNDEF" /\ ~Wiped.cmd_tx
  BY DEF Wiped, Transaction, Dirs, TxnStatus
<1>3. idle \in Playback /\ idle.num_ts = 0
  <2>1. 0 \in Counter
    BY ModulusAssumption DEF Counter
  <2> QED
    BY <2>1 DEF Playback
<1>4. left \in Seq(TxnStatus) /\ Len(left) = NumHistories
  <2>1. NumHistories \in Nat /\ "NO_ERROR" \in TxnStatus
    BY HistoriesAssumption DEF TxnStatus
  <2> QED
    BY <2>1
<1>5. NumTxns \in 0 .. NumTxns /\ NumTxns \in Nat /\ 0 \in Counter
  BY LimitsAssumption, ModulusAssumption DEF Counter
<1> HIDE DEF e, left, idle
<1>6. e \in Channel
  <2>1. /\ e.txns \in [Txns -> Transaction] /\ e.pb \in [Playbacks -> Playback]
        /\ e.cs \in [Dirs -> 0 .. NumTxns]
    BY <1>1, <1>2, <1>3, <1>5
  <2>2. \A S : <<>> \in Seq(S)
    OBVIOUS
  <2>3. e.pend \in Seq(Txns) /\ e.tx \in Seq(Txns) /\ e.hist \in Seq(TxnStatus)
    BY <1>1, <2>2, Zenon
  <2>4. e.hist_free \in Seq(TxnStatus) /\ e.num_cmd_tx \in Counter
    BY <1>1, <1>4, <1>5, Zenon
  <2>5. e = [txns |-> e.txns, pend |-> e.pend, tx |-> e.tx, hist |-> e.hist,
             hist_free |-> e.hist_free, cs |-> e.cs, num_cmd_tx |-> e.num_cmd_tx,
             pb |-> e.pb]
    BY <1>1, Zenon
  <2> QED
    BY <2>1, <2>3, <2>4, <2>5 DEF Channel
<1>7. \A t \in Txns : e.txns[t] = Wiped
  BY <1>1
<1>8. Free(e) = Txns /\ Used(e) = {} /\ OnRx(e) = {} /\ \A q : OnQueue(e, q) = {}
  BY <1>2, <1>7 DEF Free, Used, OnRx, OnQueue
<1>9. ToSet(e.pend) = {} /\ ToSet(e.tx) = {} /\ IsInjective(e.pend) /\ IsInjective(e.tx)
  BY <1>1 DEF ToSet, IsInjective
<1>10. Len(e.hist) + Len(e.hist_free) + Cardinality(Used(e)) = NumHistories
  <2>1. Cardinality(Used(e)) = 0 /\ Len(e.hist) = 0
    BY <1>1, <1>8, FS_EmptySet
  <2> QED
    BY <1>1, <1>4, <2>1, HistoriesAssumption
<1>11. ASSUME NEW d \in Dirs PROVE e.cs[d] + Cardinality(WithChunks(e, d)) = NumTxns
  <2>1. WithChunks(e, d) = {}
    BY <1>8 DEF WithChunks
  <2>2. Cardinality(WithChunks(e, d)) = 0 /\ e.cs[d] = NumTxns
    BY <1>1, <2>1, FS_EmptySet
  <2> QED
    BY <1>5, <2>2
<1>12. ChannelOK(e)
  BY <1>2, <1>6, <1>7, <1>8, <1>9, <1>10, <1>11 DEF ChannelOK, Free
<1>13. Covered(e)
  <2>1. Unfinished(e) = {} /\ Commanded(e) = {} /\ \A p : PlayedBack(e, p) = {}
    BY <1>8 DEF Unfinished, Commanded, PlayedBack
  <2>2. Cardinality(Commanded(e)) = 0 /\ \A p : Cardinality(PlayedBack(e, p)) = 0
    BY <2>1, FS_EmptySet
  <2>3. e.num_cmd_tx = 0 /\ \A p \in Playbacks : e.pb[p].num_ts = 0
    BY <1>1, <1>3
  <2> QED
    BY <2>2, <2>3, LimitsAssumption DEF Covered
<1> QED
  BY <1>1, <1>8, <1>12, <1>13, Zenon DEF e

-------------------------------------------------------------------------------
(* The inductive invariant, and what every step of the channel keeps.      *)

(***************************************************************************)
(* The telemetry counter of the RX queue is its length while the engine is *)
(* enabled; it stays zero while the engine is disabled, although commands  *)
(* act on the channel then, because none of them moves a transaction to or *)
(* from the RX queue.                                                      *)
(***************************************************************************)
PoolInv ==
  /\ ChannelOK(chan)
  /\ q_size \in [QueueIdx -> Counter]
  /\ enabled \in BOOLEAN
  /\ commanded \in 0 .. MaxCommands
  /\ enabled => q_size["RX"] = Cardinality(OnRx(chan))
  /\ ~enabled => q_size["RX"] = 0
  /\ Cardinality(OnRx(chan)) <= MaxRx
  /\ commanded = 0 => Covered(chan)

LEMMA LengthsAreNumbers ==
  ASSUME NEW c, ChannelOK(c)
  PROVE  /\ QueueLengths(c) \in [QueueIdx -> Nat]
         /\ QueueLengths(c)["RX"] = Cardinality(OnRx(c))
         /\ Cardinality(OnRx(c)) \in Counter
<1>1. /\ c.pend \in Seq(Txns) /\ c.tx \in Seq(Txns)
      /\ c.hist \in Seq(TxnStatus) /\ c.hist_free \in Seq(TxnStatus)
  BY DEF ChannelOK, Channel
<1>2. Len(c.pend) \in Nat /\ Len(c.tx) \in Nat /\ Len(c.hist) \in Nat /\ Len(c.hist_free) \in Nat
  BY <1>1, LenProperties
<1>3. OnRx(c) \in SUBSET Txns /\ Free(c) \in SUBSET Txns
  BY DEF OnRx, Used, Free
<1>4. /\ Cardinality(OnRx(c)) \in Nat /\ Cardinality(OnRx(c)) <= NumTxns
      /\ Cardinality(Free(c)) \in Nat
  BY <1>3, SlotSets
<1>5. Cardinality(OnRx(c)) \in Counter
  BY <1>4, LimitsAssumption, HistoriesAssumption, ModulusAssumption DEF Counter
<1> DEFINE pend == Len(c.pend)
           tx == Len(c.tx)
           rx == Cardinality(OnRx(c))
           hist == Len(c.hist)
           histFree == Len(c.hist_free)
           free == Cardinality(Free(c))
           len(q) == CASE q = "PEND"      -> pend
                       [] q = "TX"        -> tx
                       [] q = "RX"        -> rx
                       [] q = "HIST"      -> hist
                       [] q = "HIST_FREE" -> histFree
                       [] q = "FREE"      -> free
<1>6. QueueLengths(c) = [q \in QueueIdx |-> len(q)]
  BY Zenon DEF QueueLengths
<1> HIDE DEF pend, tx, rx, hist, histFree, free
<1>7. ASSUME NEW q \in QueueIdx PROVE len(q) \in Nat
  BY <1>2, <1>4 DEF QueueIdx, pend, tx, rx, hist, histFree, free
<1>8. "RX" \in QueueIdx /\ len("RX") = rx
  BY DEF QueueIdx
<1> HIDE DEF len
<1> QED
  BY <1>5, <1>6, <1>7, <1>8 DEF rx

LEMMA StepOK ==
  ASSUME PoolInv, NEW d, ChannelOK(d), Becomes(d), commanded' \in 0 .. MaxCommands,
         commanded' = 0 => Covered(d),
         \/ OnRx(d) = OnRx(chan)
         \/ enabled /\ Cardinality(OnRx(d)) <= MaxRx,
         KeepsHold(chan, d), KeepsOrder(chan, d)
  PROVE  PoolInv' /\ KeepsHold(chan, chan') /\ KeepsOrder(chan, chan')
<1>1. chan' = d /\ enabled' = enabled /\ enabled \in BOOLEAN
  BY DEF Becomes, PoolInv
<1> DEFINE m == QueueLengths(chan)
           n == QueueLengths(d)
<1>2. /\ m \in [QueueIdx -> Nat] /\ m["RX"] = Cardinality(OnRx(chan))
      /\ n \in [QueueIdx -> Nat] /\ n["RX"] = Cardinality(OnRx(d))
      /\ Cardinality(OnRx(chan)) \in Counter /\ Cardinality(OnRx(d)) \in Counter
  BY LengthsAreNumbers DEF PoolInv
<1>3. q_size' = [q \in QueueIdx |-> (q_size[q] + n[q] - m[q]) % CounterModulus]
  BY DEF Becomes
<1> HIDE DEF m, n
<1>4. q_size \in [QueueIdx -> Counter] /\ "RX" \in QueueIdx
  BY DEF PoolInv, QueueIdx
<1>5. q_size' \in [QueueIdx -> Counter]
  <2>1. ASSUME NEW q \in QueueIdx PROVE (q_size[q] + n[q] - m[q]) % CounterModulus \in Counter
    <3>1. q_size[q] + n[q] - m[q] \in Int
      BY <1>2, <1>4 DEF Counter
    <3> QED
      BY <3>1, ModCounter
  <2> QED
    BY <1>3, <2>1
<1>6. q_size'["RX"] = (q_size["RX"] + n["RX"] - m["RX"]) % CounterModulus
  BY <1>3, <1>4
<1>7. q_size["RX"] \in Counter /\ Counter \subseteq Nat
  BY <1>4 DEF Counter
<1>8. ASSUME enabled PROVE q_size'["RX"] = Cardinality(OnRx(d))
  <2>1. q_size["RX"] = m["RX"]
    BY <1>2, <1>8 DEF PoolInv
  <2>2. q_size["RX"] + n["RX"] - m["RX"] = n["RX"]
    BY <1>2, <1>4, <1>7, <2>1
  <2> QED
    BY <1>2, <1>6, <2>2, ModSmall
<1>9. ASSUME ~enabled PROVE q_size'["RX"] = 0
  <2>1. q_size["RX"] = 0 /\ OnRx(d) = OnRx(chan)
    BY <1>9 DEF PoolInv
  <2>2. q_size["RX"] + n["RX"] - m["RX"] = 0
    BY <1>2, <1>4, <2>1
  <2>3. 0 \in Counter
    BY ModulusAssumption DEF Counter
  <2> QED
    BY <1>6, <2>2, <2>3, ModSmall
<1>10. Cardinality(OnRx(d)) <= MaxRx
  BY DEF PoolInv
<1>11. PoolInv'
  BY <1>1, <1>5, <1>8, <1>9, <1>10 DEF PoolInv
<1> QED
  BY <1>1, <1>11

(* What the sets of receive transactions of the channel allow.             *)
LEMMA RxRoom ==
  ASSUME PoolInv
  PROVE  /\ \A T \in SUBSET OnRx(chan) : Cardinality(T) <= MaxRx
         /\ q_size["RX"] < MaxRx /\ enabled =>
              \A t \in Txns : Cardinality(OnRx(chan) \cup {t}) <= MaxRx
<1>1. OnRx(chan) \in SUBSET Txns
  BY DEF OnRx, Used
<1>2. Cardinality(OnRx(chan)) \in Nat /\ Cardinality(OnRx(chan)) <= MaxRx /\ MaxRx \in Nat
  BY <1>1, SlotSets, LimitsAssumption DEF PoolInv
<1>3. ASSUME NEW T \in SUBSET OnRx(chan) PROVE Cardinality(T) <= MaxRx
  <2>1. Cardinality(T) <= Cardinality(OnRx(chan))
    BY <1>1, NoMore
  <2>2. T \in SUBSET Txns
    BY <1>1
  <2>3. Cardinality(T) \in Nat
    BY <2>2, SlotSets
  <2> QED
    BY <1>2, <2>1, <2>3
<1>4. ASSUME q_size["RX"] < MaxRx, enabled, NEW t \in Txns
      PROVE  Cardinality(OnRx(chan) \cup {t}) <= MaxRx
  <2>1. Cardinality(OnRx(chan)) < MaxRx
    BY <1>4 DEF PoolInv
  <2>2. CASE t \in OnRx(chan)
    <3>1. OnRx(chan) \cup {t} = OnRx(chan)
      BY <2>2
    <3> QED
      BY <1>2, <3>1
  <2>3. CASE t \notin OnRx(chan)
    <3>1. t \in Txns \ OnRx(chan)
      BY <1>4, <2>3
    <3>2. Cardinality(OnRx(chan) \cup {t}) = Cardinality(OnRx(chan)) + 1
      BY <1>1, <3>1, OneMore
    <3> QED
      BY <1>2, <2>1, <3>2
  <2> QED
    BY <2>2, <2>3
<1> QED
  BY <1>3, <1>4

(* A command that is counted leaves nothing to say of the counters.        *)
LEMMA CountedCommand ==
  ASSUME PoolInv, Counted
  PROVE  commanded' \in 0 .. MaxCommands /\ commanded' # 0
BY LimitsAssumption DEF PoolInv, Counted

Kept == PoolInv' /\ KeepsHold(chan, chan') /\ KeepsOrder(chan, chan')

(* What marks the channel without counting more out than it finishes.      *)
LEMMA MarkStep ==
  ASSUME PoolInv, NEW d, Marks(chan, d), KeepsHold(chan, d), Becomes(d),
         \/ UNCHANGED commanded /\ (Covered(chan) => Covered(d))
         \/ commanded' \in 0 .. MaxCommands /\ commanded' # 0
  PROVE  Kept
<1>1. ChannelOK(d) /\ KeepsOrder(chan, d) /\ OnRx(d) = OnRx(chan)
  BY MarksOK DEF PoolInv
<1>2. commanded' \in 0 .. MaxCommands /\ (commanded' = 0 => Covered(d))
  BY DEF PoolInv
<1> QED
  BY <1>1, <1>2, StepOK DEF Kept

LEMMA TxFileStep ==
  ASSUME PoolInv, TxFileCmd
  PROVE  Kept
<1>1. PICK priority \in Priorities : Becomes(TxFile(chan, priority))
  BY DEF TxFileCmd
<1> DEFINE d == TxFile(chan, priority)
<1>2. chan.num_cmd_tx < MaxCmdTx /\ Free(chan) # {} /\ UNCHANGED commanded
  BY DEF TxFileCmd
<1>3. /\ ChannelOK(d) /\ OnRx(d) = OnRx(chan)
      /\ KeepsHold(chan, d) /\ KeepsOrder(chan, d) /\ (Covered(chan) => Covered(d))
  BY <1>2, TxFileOK DEF PoolInv
<1> HIDE DEF d
<1>4. Becomes(d)
  BY <1>1 DEF d
<1>5. commanded' \in 0 .. MaxCommands /\ (commanded' = 0 => Covered(d))
  BY <1>2, <1>3 DEF PoolInv
<1> QED
  BY <1>3, <1>4, <1>5, StepOK DEF Kept

LEMMA PlaybackDirStep ==
  ASSUME PoolInv, PlaybackDirCmd
  PROVE  Kept
<1>1. PICK p \in Directories, priority \in Priorities :
        Becomes(PlaybackDir_Initiate(chan, p, priority))
  BY DEF PlaybackDirCmd
<1>2. UNCHANGED commanded /\ p \in Playbacks
  BY DEF PlaybackDirCmd, Playbacks
<1> DEFINE d == PlaybackDir_Initiate(chan, p, priority)
<1>3. Marks(chan, d) /\ KeepsHold(chan, d) /\ (Covered(chan) => Covered(d))
  BY <1>2, PlaybackDir_InitiateMarks DEF PoolInv
<1> QED
  BY <1>1, <1>2, <1>3, MarkStep

LEMMA CancelStep ==
  ASSUME PoolInv, CancelCmd
  PROVE  Kept
<1>1. PICK t \in Used(chan) : Becomes(SetTxnError(chan, t))
  BY DEF CancelCmd
<1>2. UNCHANGED commanded
  BY DEF CancelCmd
<1>3. /\ Marks(chan, SetTxnError(chan, t)) /\ KeepsHold(chan, SetTxnError(chan, t))
      /\ Covered(chan) => Covered(SetTxnError(chan, t))
  BY SetTxnErrorMarks DEF PoolInv
<1> QED
  BY <1>1, <1>2, <1>3, MarkStep

LEMMA AbandonStep ==
  ASSUME PoolInv, AbandonCmd
  PROVE  Kept
<1>1. PICK targets \in {{t} : t \in Used(chan)} \cup {Used(chan)} :
        Becomes(FinishAll(chan, targets))
  BY DEF AbandonCmd
<1>2. targets \in SUBSET Used(chan)
  OBVIOUS
<1>3. Marks(chan, FinishAll(chan, targets)) /\ KeepsHold(chan, FinishAll(chan, targets))
  BY <1>2, FinishAllMarks DEF PoolInv
<1>4. commanded' \in 0 .. MaxCommands /\ commanded' # 0
  BY CountedCommand DEF AbandonCmd
<1> QED
  BY <1>1, <1>3, <1>4, MarkStep

LEMMA PurgePendingStep ==
  ASSUME PoolInv, PurgePendingCmd
  PROVE  Kept
<1> DEFINE targets == ToSet(chan.pend)
<1>1. targets \in SUBSET Used(chan)
  BY DEF PoolInv, ChannelOK, OnQueue
<1>2. Marks(chan, FinishAll(chan, targets)) /\ KeepsHold(chan, FinishAll(chan, targets))
  BY <1>1, FinishAllMarks DEF PoolInv
<1>3. commanded' \in 0 .. MaxCommands /\ commanded' # 0
  BY CountedCommand DEF PurgePendingCmd
<1>4. Becomes(FinishAll(chan, targets))
  BY DEF PurgePendingCmd
<1> QED
  BY <1>2, <1>3, <1>4, MarkStep

LEMMA PurgeHistoryStep ==
  ASSUME PoolInv, PurgeHistoryCmd
  PROVE  Kept
<1>1. Marks(chan, PurgeHistory(chan)) /\ KeepsHold(chan, PurgeHistory(chan))
  BY PurgeHistoryMarks DEF PoolInv
<1>2. commanded' \in 0 .. MaxCommands /\ commanded' # 0
  BY CountedCommand DEF PurgeHistoryCmd
<1>3. Becomes(PurgeHistory(chan))
  BY DEF PurgeHistoryCmd
<1> QED
  BY <1>1, <1>2, <1>3, MarkStep

(* Disabling leaves the queues and zeroes their counters; enabling empties *)
(* the queues and counts from those zeros.                                 *)
LEMMA DisableStep ==
  ASSUME PoolInv, DisableEngine
  PROVE  Kept
<1>1. commanded' \in 0 .. MaxCommands /\ commanded' # 0
  BY CountedCommand DEF DisableEngine
<1>2. chan' = chan /\ enabled' = FALSE /\ q_size' = [q \in QueueIdx |-> 0]
  BY DEF DisableEngine
<1>3. q_size' \in [QueueIdx -> Counter] /\ q_size'["RX"] = 0
  <2>1. 0 \in Counter /\ "RX" \in QueueIdx
    BY ModulusAssumption DEF Counter, QueueIdx
  <2> QED
    BY <1>2, <2>1
<1>4. PoolInv'
  BY <1>1, <1>2, <1>3 DEF PoolInv
<1>5. KeepsHold(chan, chan') /\ KeepsOrder(chan, chan')
  BY <1>2 DEF KeepsHold, KeepsOrder
<1> QED
  BY <1>4, <1>5 DEF Kept

LEMMA EnableStep ==
  ASSUME PoolInv, EnableEngine
  PROVE  Kept
<1>1. ~enabled /\ enabled' = TRUE /\ commanded' = commanded /\ chan' = InitEngine
  BY DEF EnableEngine
<1> DEFINE n == QueueLengths(InitEngine)
<1>2. /\ n \in [QueueIdx -> Nat] /\ n["RX"] = Cardinality(OnRx(InitEngine))
      /\ ChannelOK(InitEngine) /\ Covered(InitEngine) /\ OnRx(InitEngine) = {}
  BY InitEngineOK, LengthsAreNumbers
<1>3. Cardinality(OnRx(InitEngine)) = 0
  BY <1>2, FS_EmptySet
<1>4. q_size' = [q \in QueueIdx |-> (q_size[q] + n[q]) % CounterModulus]
  BY DEF EnableEngine
<1> HIDE DEF n
<1>5. q_size \in [QueueIdx -> Counter] /\ q_size["RX"] = 0 /\ "RX" \in QueueIdx
  BY <1>1 DEF PoolInv, QueueIdx
<1>6. q_size' \in [QueueIdx -> Counter]
  <2>1. ASSUME NEW q \in QueueIdx PROVE (q_size[q] + n[q]) % CounterModulus \in Counter
    <3>1. q_size[q] + n[q] \in Int
      BY <1>2, <1>5 DEF Counter
    <3> QED
      BY <3>1, ModCounter
  <2> QED
    BY <1>4, <2>1
<1>7. q_size'["RX"] = 0
  <2>1. q_size'["RX"] = (q_size["RX"] + n["RX"]) % CounterModulus
    BY <1>4, <1>5
  <2>2. q_size["RX"] + n["RX"] = 0 /\ 0 \in Counter
    BY <1>2, <1>3, <1>5, ModulusAssumption DEF Counter
  <2> QED
    BY <2>1, <2>2, ModSmall
<1>8. PoolInv'
  <2>1. Cardinality(OnRx(InitEngine)) <= MaxRx
    BY <1>3, LimitsAssumption
  <2>2. commanded' \in 0 .. MaxCommands
    BY <1>1 DEF PoolInv
  <2> QED
    BY <1>1, <1>2, <1>3, <1>6, <1>7, <2>1, <2>2 DEF PoolInv
<1>9. KeepsHold(chan, chan') /\ KeepsOrder(chan, chan')
  <2>1. ToSet(InitEngine.pend) = {} /\ \A t \in Txns : InitEngine.txns[t].state # "ACTIVE"
    BY DEF InitEngine, ToSet, Wiped
  <2> QED
    BY <1>1, <2>1 DEF KeepsHold, KeepsOrder
<1> QED
  BY <1>8, <1>9 DEF Kept

(* What a step of an enabled engine must show.                             *)
LEMMA CycleOK ==
  ASSUME PoolInv, NEW d, Cycle(d), ChannelOK(d), Covered(chan) => Covered(d),
         OnRx(d) = OnRx(chan) \/ Cardinality(OnRx(d)) <= MaxRx,
         KeepsHold(chan, d), KeepsOrder(chan, d)
  PROVE  Kept
<1>1. Becomes(d) /\ enabled /\ commanded' = commanded
  BY DEF Cycle
<1>2. commanded' \in 0 .. MaxCommands /\ (commanded' = 0 => Covered(d))
  BY <1>1 DEF PoolInv
<1>3. \/ OnRx(d) = OnRx(chan)
      \/ enabled /\ Cardinality(OnRx(d)) <= MaxRx
  BY <1>1
<1> QED
  BY <1>1, <1>2, <1>3, StepOK, Zenon DEF Kept

LEMMA CycleMarks ==
  ASSUME PoolInv, NEW d, Cycle(d), Marks(chan, d), KeepsHold(chan, d),
         Covered(chan) => Covered(d)
  PROVE  Kept
BY MarkStep DEF Cycle

LEMMA StartRxStep ==
  ASSUME PoolInv, StartRxTransaction
  PROVE  Kept
<1> DEFINE t == NextFree(chan)
           d == SetupRxTransaction(FindUnusedTransaction(chan, "RX"), t)
<1>1. q_size["RX"] < MaxRx /\ Free(chan) # {} /\ Cycle(d) /\ enabled
  BY DEF StartRxTransaction, Cycle
<1>2. t \in Txns
  BY <1>1, HistoryLeft DEF PoolInv
<1>3. /\ ChannelOK(d) /\ OnRx(d) = OnRx(chan) \cup {t}
      /\ KeepsHold(chan, d) /\ KeepsOrder(chan, d) /\ (Covered(chan) => Covered(d))
  BY <1>1, SetupRxTransactionOK, ZenonT(60) DEF PoolInv
<1> HIDE DEF d, t
<1>4. Cardinality(OnRx(d)) <= MaxRx
  BY <1>1, <1>2, <1>3, RxRoom
<1> QED
  BY <1>1, <1>3, <1>4, CycleOK

LEMMA StartPendingStep ==
  ASSUME PoolInv, StartFirstPending
  PROVE  Kept
<1>1. PICK opens \in BOOLEAN : Cycle(SetupTxTransaction(chan, Head(chan.pend), opens))
  BY DEF StartFirstPending
<1> DEFINE t == Head(chan.pend)
           d == SetupTxTransaction(chan, t, opens)
<1>2. t \in ToSet(chan.pend)
  <2>1. chan.pend \in Seq(Txns) /\ chan.pend # <<>>
    BY DEF PoolInv, ChannelOK, Channel, StartFirstPending
  <2>2. 1 \in DOMAIN chan.pend /\ t = chan.pend[1]
    BY <2>1
  <2> HIDE DEF t
  <2> QED
    BY <2>2 DEF ToSet
<1> HIDE DEF t
<1>3. /\ ChannelOK(d) /\ OnRx(d) = OnRx(chan)
      /\ KeepsHold(chan, d) /\ KeepsOrder(chan, d) /\ (Covered(chan) => Covered(d))
  BY <1>2, SetupTxTransactionOK DEF PoolInv
<1>4. Cycle(d)
  BY <1>1 DEF t
<1> HIDE DEF d
<1> QED
  BY <1>3, <1>4, CycleOK

LEMMA FailStep ==
  ASSUME PoolInv, NEW t \in Txns, Fails(t)
  PROVE  Kept
<1> DEFINE d == SetTxnError(chan, t)
<1>1. t \in Used(chan) /\ Cycle(d)
  BY DEF Fails, Ticked
<1>2. Marks(chan, d) /\ KeepsHold(chan, d) /\ (Covered(chan) => Covered(d))
  BY <1>1, SetTxnErrorMarks DEF PoolInv
<1> QED
  BY <1>1, <1>2, CycleMarks

LEMMA CompleteStep ==
  ASSUME PoolInv, NEW t \in Txns, Completes(t)
  PROVE  Kept
<1> DEFINE d == FinishTransaction(chan, t, TRUE)
<1>1. t \in Used(chan) /\ chan.txns[t].state = "ACTIVE" /\ Cycle(d)
  BY DEF Completes, Ticked
<1>2. Marks(chan, d) /\ KeepsHold(chan, d) /\ (Covered(chan) => Covered(d))
  BY <1>1, FinishTransactionMarks DEF PoolInv
<1> QED
  BY <1>1, <1>2, CycleMarks

LEMMA RecycleStep ==
  ASSUME PoolInv, NEW t \in Txns, Recycles(t)
  PROVE  Kept
<1> DEFINE d == RecycleTransaction(chan, t)
<1>1. t \in Used(chan) /\ Cycle(d)
  BY DEF Recycles, Ticked
<1>2. /\ ChannelOK(d) /\ OnRx(d) = OnRx(chan) \ {t}
      /\ KeepsHold(chan, d) /\ KeepsOrder(chan, d) /\ (Covered(chan) => Covered(d))
  BY <1>1, RecycleTransactionOK, ZenonT(60) DEF PoolInv
<1> HIDE DEF d
<1>3. OnRx(d) \in SUBSET OnRx(chan)
  BY <1>2
<1>4. Cardinality(OnRx(d)) <= MaxRx
  BY <1>3, RxRoom
<1> QED
  BY <1>1, <1>2, <1>4, CycleOK

LEMMA PlayStep ==
  ASSUME PoolInv, NEW p \in Playbacks, NEW files \in 0 .. TxnsPerPlayback, Plays(p, files)
  PROVE  Kept
<1> DEFINE d == ProcessPlaybackDirectory(chan, p, files)
<1>1. files \in Nat /\ Cycle(d)
  BY DEF Plays
<1>2. /\ ChannelOK(d) /\ OnRx(d) = OnRx(chan)
      /\ KeepsHold(chan, d) /\ KeepsOrder(chan, d) /\ (Covered(chan) => Covered(d))
  BY <1>1, ProcessPlaybackDirectoryOK DEF PoolInv
<1> HIDE DEF d
<1> QED
  BY <1>1, <1>2, CycleOK

LEMMA PollStep ==
  ASSUME PoolInv, NEW p \in Polls, NEW priority \in Priorities, Polled(p, priority)
  PROVE  Kept
<1> DEFINE d == PlaybackDir_Initiate(chan, p, priority)
<1>1. p \in Playbacks /\ Cycle(d)
  BY DEF Polled, Playbacks
<1>2. Marks(chan, d) /\ KeepsHold(chan, d) /\ (Covered(chan) => Covered(d))
  BY <1>1, PlaybackDir_InitiateMarks DEF PoolInv
<1> QED
  BY <1>1, <1>2, CycleMarks

LEMMA InitPool == Init => PoolInv
<1> SUFFICES ASSUME Init PROVE PoolInv
  OBVIOUS
<1>1. /\ chan = InitEngine /\ q_size = QueueLengths(InitEngine) /\ enabled = TRUE
      /\ commanded = 0
  BY DEF Init
<1>2. /\ ChannelOK(InitEngine) /\ Covered(InitEngine) /\ OnRx(InitEngine) = {}
      /\ Used(InitEngine) = {} /\ InitEngine.pend = <<>>
  BY InitEngineOK
<1>3. Cardinality(OnRx(InitEngine)) = 0
  BY <1>2, FS_EmptySet
<1> DEFINE n == QueueLengths(InitEngine)
<1>4. n["RX"] = 0 /\ n = [q \in QueueIdx |-> n[q]]
  BY <1>2, <1>3, LengthsAreNumbers
<1>5. ASSUME NEW q \in QueueIdx PROVE n[q] \in Counter
  <2>1. Cardinality(Free(InitEngine)) \in 0 .. NumTxns
    BY UsedAndFree, SlotSets
  <2>2. InitEngine.tx = <<>> /\ InitEngine.hist = <<>>
    BY DEF InitEngine
  <2>3. Len(InitEngine.hist) + Len(InitEngine.hist_free) + Cardinality(Used(InitEngine))
          = NumHistories
    BY <1>2 DEF ChannelOK
  <2>4. Len(InitEngine.hist) = 0 /\ Len(InitEngine.tx) = 0 /\ Len(InitEngine.pend) = 0
    BY <1>2, <2>2
  <2>5. Cardinality(Used(InitEngine)) = 0
    BY <1>2, FS_EmptySet
  <2>6. InitEngine.hist_free \in Seq(TxnStatus)
    BY <1>2 DEF ChannelOK, Channel
  <2>7. Len(InitEngine.hist_free) \in Nat
    BY <2>6, LenProperties
  <2> DEFINE histFree == Len(InitEngine.hist_free)
             free == Cardinality(Free(InitEngine))
  <2>8. histFree = NumHistories
    BY <2>3, <2>4, <2>5, <2>7, HistoriesAssumption
  <2>9. n[q] \in {0, histFree, free}
    BY <1>3, <2>4, Zenon DEF QueueLengths, QueueIdx
  <2> HIDE DEF n, histFree, free
  <2>10. free \in 0 .. NumTxns
    BY <2>1 DEF free
  <2>11. 0 \in Counter /\ histFree \in Counter /\ free \in Counter
    BY <2>8, <2>10, LimitsAssumption, HistoriesAssumption, ModulusAssumption DEF Counter
  <2> QED
    BY <2>9, <2>11
<1>6. n \in [QueueIdx -> Counter]
  BY <1>4, <1>5
<1> HIDE DEF n
<1>7. q_size \in [QueueIdx -> Counter] /\ q_size["RX"] = 0
  BY <1>1, <1>4, <1>6 DEF n
<1> QED
  BY <1>1, <1>2, <1>3, <1>7, LimitsAssumption DEF PoolInv

LEMMA NextKept ==
  ASSUME PoolInv, Next
  PROVE  Kept
<1>1. CASE TxFileCmd
  BY <1>1, TxFileStep
<1>2. CASE PlaybackDirCmd
  BY <1>2, PlaybackDirStep
<1>3. CASE CancelCmd
  BY <1>3, CancelStep
<1>4. CASE AbandonCmd
  BY <1>4, AbandonStep
<1>5. CASE PurgePendingCmd
  BY <1>5, PurgePendingStep
<1>6. CASE PurgeHistoryCmd
  BY <1>6, PurgeHistoryStep
<1>7. CASE DisableEngine
  BY <1>7, DisableStep
<1>8. CASE EnableEngine
  BY <1>8, EnableStep
<1>9. CASE StartRxTransaction
  BY <1>9, StartRxStep
<1>10. CASE StartFirstPending
  BY <1>10, StartPendingStep
<1>11. CASE \E t \in Txns : Fails(t) \/ Completes(t) \/ Recycles(t)
  BY <1>11, FailStep, CompleteStep, RecycleStep
<1>12. CASE \E p \in Playbacks : \E files \in 0 .. TxnsPerPlayback : Plays(p, files)
  BY <1>12, PlayStep
<1>13. CASE \E p \in Polls, priority \in Priorities : Polled(p, priority)
  BY <1>13, PollStep
<1> QED
  BY <1>1, <1>2, <1>3, <1>4, <1>5, <1>6, <1>7, <1>8, <1>9, <1>10, <1>11, <1>12, <1>13
     DEF Next

LEMMA NextPool == PoolInv /\ [Next]_vars => PoolInv'
<1>1. ASSUME PoolInv, Next PROVE PoolInv'
  BY <1>1, NextKept DEF Kept
<1>2. ASSUME PoolInv, UNCHANGED vars PROVE PoolInv'
  BY <1>2 DEF PoolInv, vars
<1> QED
  BY <1>1, <1>2

-------------------------------------------------------------------------------

(***************************************************************************)
(* The queues, the resources, the counters and the limit on receive        *)
(* transactions, together: the invariant that every command and every part *)
(* of a wakeup keeps.                                                      *)
(***************************************************************************)
THEOREM PoolInvariant == Spec => []PoolInv
BY InitPool, NextPool, PTL DEF Spec

(***************************************************************************)
(* A transaction is on the queue that its q_index names, and once, whatever*)
(* failed, was cancelled, abandoned or purged before.                      *)
(***************************************************************************)
THEOREM QueuesAlwaysAgree == Spec => []QueuesAgree
<1>1. PoolInv => QueuesAgree
  BY DEF PoolInv, ChannelOK, OnQueue, QueuesAgree, TypeOK
<1> QED
  BY <1>1, PoolInvariant, PTL

(***************************************************************************)
(* No slot, history entry or chunk list is lost or shared: the assertion   *)
(* in CF_FindUnusedTransaction that a history entry is left holds, and     *)
(* CF_CFDP_AllocChunkList finds a list whenever a slot was free.           *)
(***************************************************************************)
THEOREM NothingIsLost == Spec => []ResourcesConserved
<1>1. PoolInv => ResourcesConserved
  BY DEF PoolInv, ChannelOK, WithChunks, ResourcesConserved
<1> QED
  BY <1>1, PoolInvariant, PTL

(***************************************************************************)
(* The receive queue never holds more than CF_MAX_SIMULTANEOUS_RX, although*)
(* the limit is checked against a telemetry counter that is zeroed when    *)
(* the engine is disabled.                                                 *)
(***************************************************************************)
THEOREM RxIsLimited == Spec => []RxLimit
<1>1. PoolInv => RxLimit
  BY DEF PoolInv, RxLimit
<1> QED
  BY <1>1, PoolInvariant, PTL

(***************************************************************************)
(* num_cmd_tx and num_ts cover the transactions they count, within their   *)
(* limits, until something is abandoned, purged or disabled.               *)
(***************************************************************************)
THEOREM CountersCover == Spec => []CountersCoverUnfinished
<1>1. PoolInv => CountersCoverUnfinished
  BY DEF PoolInv, Covered, CountersCoverUnfinished
<1> QED
  BY <1>1, PoolInvariant, PTL

(***************************************************************************)
(* CF_CFDP_FinishTransaction is final: no command, and no later start from *)
(* the PEND queue, makes a transaction in HOLD active again.               *)
(***************************************************************************)
THEOREM HoldStaysFinal == Spec => HoldIsFinal
<1>1. PoolInv /\ [Next]_vars =>
        [\A t \in Txns : chan.txns[t].state = "HOLD" => chan'.txns[t].state # "ACTIVE"]_vars
  <2>1. ASSUME PoolInv, Next
        PROVE  \A t \in Txns : chan.txns[t].state = "HOLD" => chan'.txns[t].state # "ACTIVE"
    BY <2>1, NextKept DEF Kept, KeepsHold
  <2> QED
    BY <2>1
<1> QED
  BY <1>1, PoolInvariant, PTL DEF Spec, HoldIsFinal

(***************************************************************************)
(* CF_InsertSortPrio keeps the PEND queue in order of priority and, among  *)
(* equals, of arrival, while a whole directory is played into it, a        *)
(* transaction leaves it from the middle or is cancelled on it.            *)
(***************************************************************************)
THEOREM ArrivalOrderStays == Spec => ArrivalOrderKept
<1> DEFINE Kin == \A t, u \in ToSet(chan.pend') :
                    /\ u \in ToSet(chan.pend)
                    /\ IF t \in ToSet(chan.pend)
                         THEN \A i \in Waiting(u, chan.pend), j \in Waiting(t, chan.pend) : i < j
                         ELSE chan'.txns[u].priority <= chan'.txns[t].priority
                    => \A i \in Waiting(u, chan'.pend), j \in Waiting(t, chan'.pend) : i < j
<1>1. ASSUME KeepsOrder(chan, chan') PROVE Kin
  <2>1. \A q, u, t : Precedes(q, u, t) <=>
          \A i \in Waiting(u, q), j \in Waiting(t, q) : i < j
    BY DEF Precedes, Waiting
  <2> SUFFICES ASSUME NEW t \in ToSet(chan.pend'), NEW u \in ToSet(chan.pend'),
                      u \in ToSet(chan.pend),
                      IF t \in ToSet(chan.pend)
                        THEN \A i \in Waiting(u, chan.pend), j \in Waiting(t, chan.pend) : i < j
                        ELSE chan'.txns[u].priority <= chan'.txns[t].priority
               PROVE  Precedes(chan'.pend, u, t)
    BY <2>1
  <2>2. t \in ToSet(chan.pend) => Precedes(chan.pend, u, t)
    BY <2>1
  <2>3. t \notin ToSet(chan.pend) => chan'.txns[u].priority <= chan'.txns[t].priority
    OBVIOUS
  <2> QED
    BY <1>1, <2>2, <2>3, Zenon DEF KeepsOrder
<1>2. PoolInv /\ [Next]_vars => [Kin]_vars
  <2>1. ASSUME PoolInv, Next PROVE Kin
    BY <1>1, <2>1, NextKept, Zenon DEF Kept
  <2> QED
    BY <2>1
<1> QED
  BY <1>2, PoolInvariant, PTL DEF Spec, ArrivalOrderKept
===============================================================================
