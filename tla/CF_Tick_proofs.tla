----------------------------- MODULE CF_Tick_proofs -----------------------------
(***************************************************************************)
(* Theorems about CF_Tick: the resume point is always on a queue that is   *)
(* still to be traversed, and new data goes out in the order of the queue, *)
(* for every number of transactions, segments and messages, whatever is    *)
(* commanded, fails to be read or arrives between two wakeups.             *)
(***************************************************************************)
EXTENDS CF_Tick, CF_Facts_proofs

Queued == ToSet(queue["RX"]) \cup ToSet(queue["TX"])

(* A transaction in use is on one queue at most, once, and on none that    *)
(* serves the other direction.                                             *)
QueuesOK ==
  /\ \A q \in Queues : IsInjective(queue[q])
  /\ ToSet(queue["RX"]) \subseteq RxTxns /\ ToSet(queue["TX"]) \subseteq TxTxns
  /\ ToSet(queue["PEND"]) \subseteq TxTxns
  /\ \A t \in ToSet(queue["PEND"]) : t \notin ToSet(queue["TX"])
  /\ \A q \in Queues : \A t \in ToSet(queue[q]) : txn[t].state # "UNDEF"

(***************************************************************************)
(* A wakeup that has a resume point has not come to it: it is ahead in     *)
(* this traversal or, in the first, on the queue of the next one.  So the  *)
(* phases after the two state phases skip nothing.  While a traversal goes *)
(* on nothing was blocked, so no other resume point is recorded.           *)
(***************************************************************************)
PhaseOK ==
  /\ tick.state = Idle => tick = NotTicking
  /\ tick.state # Idle =>
       /\ IsInjective(tick.todo) /\ ToSet(tick.todo) \subseteq Queued
       /\ chan.tx_blocked => tick.todo = <<>>
       /\ ~chan.tx_blocked => chan.tick_resume = Null
  /\ tick.resume_point # Null =>
       \/ tick.state = 1 /\ tick.resume_point \in ToSet(tick.todo) \cup ToSet(queue["TX"])
       \/ tick.state = 2 /\ tick.resume_point \in ToSet(tick.todo)
  /\ chan.tick_resume \in Queued \cup {Null}

(* In the phase of new data, k transactions of the TX queue were visited,  *)
(* and none of them has data left that it would try to send.               *)
DataOK ==
  tick.state = 4 /\ ~chan.tx_blocked =>
    \E k \in 0 .. Len(queue["TX"]) :
       /\ Len(tick.todo) = Len(queue["TX"]) - k
       /\ \A i \in 1 .. Len(tick.todo) : tick.todo[i] = queue["TX"][k + i]
       /\ \A i \in 1 .. k : ~SendsData(queue["TX"][i])

TickInv == TypeOK /\ QueuesOK /\ PhaseOK /\ DataOK

Counter == 0 .. CounterModulus - 1
Channel == [outgoing_counter : Counter, tx_blocked : BOOLEAN,
            tick_resume : Txns \cup {Null}, frozen : BOOLEAN]

(* DATA_NORMAL with data left, of a transaction.                           *)
MaySend(u) == u.sub_state = "DATA_NORMAL" /\ ~u.suspended /\ u.left # 0

-------------------------------------------------------------------------------

LEMMA Phases ==
  /\ Len(TickStates) = 5
  /\ tick.state \in 0 .. 5 =>
       /\ InState("RX_STATE") <=> tick.state = 1
       /\ InState("TX_STATE") <=> tick.state = 2
       /\ InState("TX_NAK") <=> tick.state = 3
       /\ InState("TX_FILEDATA") <=> tick.state = 4
       /\ InState("TX_PEND") <=> tick.state = 5
<1>1. /\ Len(TickStates) = 5
      /\ TickStates[1] = "RX_STATE" /\ TickStates[2] = "TX_STATE" /\ TickStates[3] = "TX_NAK"
      /\ TickStates[4] = "TX_FILEDATA" /\ TickStates[5] = "TX_PEND"
  BY DEF TickStates
<1> SUFFICES ASSUME tick.state \in 0 .. 5
             PROVE  /\ InState("RX_STATE") <=> tick.state = 1
                    /\ InState("TX_STATE") <=> tick.state = 2
                    /\ InState("TX_NAK") <=> tick.state = 3
                    /\ InState("TX_FILEDATA") <=> tick.state = 4
                    /\ InState("TX_PEND") <=> tick.state = 5
  BY <1>1
<1>2. CASE tick.state = 0
  BY <1>2 DEF InState, Idle
<1>3. CASE tick.state \in 1 .. 5
  <2>1. \/ tick.state = 1 \/ tick.state = 2 \/ tick.state = 3
        \/ tick.state = 4 \/ tick.state = 5
    BY <1>3
  <2>2. tick.state # 0
    BY <1>3
  <2> DEFINE name == TickStates[tick.state]
  <2>3. \A x : InState(x) <=> name = x
    BY <2>2, Zenon DEF InState, Idle
  <2>4. /\ tick.state = 1 => name = "RX_STATE"
        /\ tick.state = 2 => name = "TX_STATE"
        /\ tick.state = 3 => name = "TX_NAK"
        /\ tick.state = 4 => name = "TX_FILEDATA"
        /\ tick.state = 5 => name = "TX_PEND"
    BY <1>1
  <2> HIDE DEF name
  <2> QED
    BY <2>1, <2>3, <2>4
<1> QED
  BY <1>2, <1>3

LEMMA CountOneMore ==
  ASSUME NEW n \in Counter
  PROVE  (n + 1) % CounterModulus \in Counter /\ (n + 1) % CounterModulus # n
<1>1. CounterModulus \in Nat /\ CounterModulus > 1
  <2>1. PICK b \in Budgets : b \in Nat /\ CounterModulus > b + 1
    BY NumbersAssumption
  <2> QED
    BY <2>1, NumbersAssumption
<1>2. CASE n + 1 < CounterModulus
  <2>1. (n + 1) % CounterModulus = n + 1
    BY <1>1, <1>2 DEF Counter
  <2> QED
    BY <1>1, <1>2, <2>1 DEF Counter
<1>3. CASE ~(n + 1 < CounterModulus)
  <2>1. n + 1 = CounterModulus
    BY <1>1, <1>3 DEF Counter
  <2>2. (n + 1) % CounterModulus = 0
    BY <1>1, <2>1
  <2> QED
    BY <1>1, <2>1, <2>2 DEF Counter
<1> QED
  BY <1>2, <1>3

LEMMA MsgOutGetOK ==
  ASSUME NEW c \in Channel, NEW t
  PROVE  LET d == MsgOutGet(c, t)
         IN  /\ d \in Channel /\ d.tick_resume = c.tick_resume
             /\ d.tx_blocked \/ d.outgoing_counter # c.outgoing_counter
<1> DEFINE d == MsgOutGet(c, t)
           refused == (tick.budget # 0 /\ c.outgoing_counter >= tick.budget)
                        \/ c.frozen \/ txn[t].suspended
           n == (c.outgoing_counter + 1) % CounterModulus
<1>1. CASE refused
  <2>1. d = [c EXCEPT !.tx_blocked = TRUE]
    BY <1>1, Zenon DEF MsgOutGet
  <2> HIDE DEF d
  <2> QED
    BY <2>1 DEF Channel, d
<1>2. CASE ~refused
  <2>1. d = [c EXCEPT !.outgoing_counter = n]
    BY <1>2, Zenon DEF MsgOutGet
  <2>2. c.outgoing_counter \in Counter
    BY DEF Channel
  <2>3. n \in Counter /\ n # c.outgoing_counter
    BY <2>2, CountOneMore
  <2> HIDE DEF d, n
  <2> QED
    BY <2>1, <2>3 DEF Channel, d
<1> QED
  BY <1>1, <1>2

(* A transaction that is visited.                                          *)
LEMMA Visited ==
  ASSUME TickInv, NEW t \in Txns, tick.todo # <<>>, Head(tick.todo) = t
  PROVE  /\ tick.state \in 1 .. 5 /\ tick.state # Idle
         /\ ~chan.tx_blocked /\ chan.tick_resume = Null
         /\ t \in ToSet(tick.todo) /\ t \in Queued
         /\ txn[t] \in Transaction /\ txn[t].state # "UNDEF" /\ chan \in Channel
<1>1. tick.state # Idle /\ tick.state \in 0 .. 5
  <2>1. tick.state = Idle => tick.todo = <<>>
    BY DEF TickInv, PhaseOK, NotTicking
  <2> QED
    BY <2>1, Phases DEF TickInv, TypeOK
<1>2. tick.todo \in Seq(Txns) /\ IsInjective(tick.todo) /\ ToSet(tick.todo) \subseteq Queued
  BY <1>1 DEF TickInv, TypeOK, PhaseOK
<1>3. t \in ToSet(tick.todo)
  BY <1>2, TailSet
<1>4. txn[t].state # "UNDEF"
  <2>1. "RX" \in Queues /\ "TX" \in Queues
    BY DEF Queues
  <2> QED
    BY <1>2, <1>3, <2>1 DEF TickInv, QueuesOK, Queued
<1> QED
  BY <1>1, <1>2, <1>3, <1>4 DEF TickInv, TypeOK, PhaseOK, Channel, Counter, Idle

(***************************************************************************)
(* CF_CFDP_DoTick: what a tick function must keep.  It leaves the queues,  *)
(* or takes the transaction that it was called for off its queue; it       *)
(* records that transaction, and no other, when it is blocked; in the      *)
(* phase of new data it is called again or has nothing left to send.       *)
(***************************************************************************)
LEMMA TickedOK ==
  ASSUME TickInv, NEW t \in Txns, tick.todo # <<>>, Head(tick.todo) = t, ~Passed(t),
         NEW r, Ticked(t, r), r.txn \in Transaction, r.chan \in Channel,
         ~r.chan.tx_blocked => r.chan.tick_resume = Null,
         \/ r.queue = queue /\ r.txn.state # "UNDEF" /\ r.chan.tick_resume \in {Null, t}
         \/ /\ r.queue = [q \in Queues |-> RemoveFirst(queue[q], t)]
            /\ r.chan.tick_resume = Null /\ tick.state # 4,
         tick.state = 4 /\ ~r.chan.tx_blocked => Stays(r) \/ ~MaySend(r.txn)
  PROVE  TickInv'
<1>1. /\ tick.state \in 1 .. 5 /\ ~chan.tx_blocked /\ t \in ToSet(tick.todo) /\ t \in Queued
      /\ tick.state # Idle
  BY Visited
<1>2. /\ tick.todo \in Seq(Txns) /\ IsInjective(tick.todo) /\ ToSet(tick.todo) \subseteq Queued
      /\ queue \in [Queues -> Seq(Txns)] /\ txn \in [Txns -> Transaction]
  BY <1>1 DEF TickInv, TypeOK, PhaseOK
<1> DEFINE rest == Tail(tick.todo)
           todo == IF r.chan.tx_blocked THEN <<>> ELSE IF Stays(r) THEN tick.todo ELSE rest
<1>3. /\ rest \in Seq(Txns) /\ IsInjective(rest)
      /\ \A u : u \in ToSet(rest) <=> u \in ToSet(tick.todo) /\ u # t
  BY <1>2, TailSet
<1>4. /\ txn' = [txn EXCEPT ![t] = r.txn] /\ chan' = r.chan /\ queue' = r.queue
      /\ tick' = [tick EXCEPT !.resume_point = Null, !.todo = todo]
      /\ settled' = settled
  BY DEF Ticked
<1>5. /\ \A u \in Txns : u # t => txn'[u] = txn[u]
      /\ txn'[t] = r.txn
  BY <1>2, <1>4
<1> HIDE DEF rest
<1>6. /\ todo \in Seq(Txns) /\ IsInjective(todo) /\ ToSet(todo) \subseteq ToSet(tick.todo)
      /\ r.chan.tx_blocked => todo = <<>>
      /\ tick.state # 4 => t \notin ToSet(todo)
  <2>1. <<>> \in Seq(Txns) /\ IsInjective(<<>>) /\ ToSet(<<>>) = {}
    BY DEF IsInjective, ToSet
  <2>2. tick.state # 4 => ~Stays(r)
    <3>1. tick.state \in 0 .. 5
      BY <1>1
    <3> QED
      BY <3>1, Phases DEF Stays
  <2>3. CASE r.chan.tx_blocked
    <3>1. todo = <<>>
      BY <2>3
    <3> HIDE DEF todo
    <3> QED
      BY <2>1, <3>1
  <2>4. CASE ~r.chan.tx_blocked /\ Stays(r)
    <3>1. todo = tick.todo
      BY <2>4
    <3> HIDE DEF todo
    <3> QED
      BY <1>2, <2>2, <2>4, <3>1
  <2>5. CASE ~r.chan.tx_blocked /\ ~Stays(r)
    <3>1. todo = rest
      BY <2>5
    <3> HIDE DEF todo
    <3> QED
      BY <1>3, <2>5, <3>1
  <2> QED
    BY <2>3, <2>4, <2>5
<1>7. /\ tick'.state = tick.state /\ tick'.todo = todo /\ tick'.resume_point = Null
      /\ tick'.last_counter = tick.last_counter /\ tick'.budget = tick.budget
      /\ tick' = [tick EXCEPT !.resume_point = Null, !.todo = tick'.todo]
  BY <1>4 DEF TickInv, TypeOK
<1> HIDE DEF todo
<1>8. r.queue \in [Queues -> Seq(Txns)] /\ \A q \in Queues : IsInjective(r.queue[q])
  <2>1. \A q \in Queues : /\ RemoveFirst(queue[q], t) \in Seq(Txns)
                          /\ IsInjective(RemoveFirst(queue[q], t))
    BY <1>2, RemoveFirstSet DEF TickInv, QueuesOK
  <2> QED
    BY <1>2, <2>1 DEF TickInv, QueuesOK
<1>9. /\ \A q \in Queues : \A u \in ToSet(r.queue[q]) : u \in ToSet(queue[q])
      /\ \/ r.queue = queue /\ r.txn.state # "UNDEF"
         \/ /\ \A q \in Queues : \A u : u \in ToSet(r.queue[q]) <=> u \in ToSet(queue[q]) /\ u # t
            /\ tick.state # 4
  <2>1. CASE r.queue = queue /\ r.txn.state # "UNDEF"
    BY <2>1
  <2>2. CASE r.queue = [q \in Queues |-> RemoveFirst(queue[q], t)] /\ tick.state # 4
    <3>1. ASSUME NEW q \in Queues PROVE ToSet(r.queue[q]) = ToSet(queue[q]) \ {t}
      <4>1. queue[q] \in Seq(Txns) /\ IsInjective(queue[q])
        BY <1>2 DEF TickInv, QueuesOK
      <4>2. ToSet(RemoveFirst(queue[q], t)) = ToSet(queue[q]) \ {t}
        BY <4>1, RemoveFirstSet
      <4>3. r.queue[q] = RemoveFirst(queue[q], t)
        BY <2>2
      <4> QED
        BY <4>2, <4>3
    <3> QED
      BY <2>2, <3>1
  <2> QED
    BY <2>1, <2>2
<1>10. TypeOK'
  <2>1. txn' \in [Txns -> Transaction] /\ queue' \in [Queues -> Seq(Txns)]
    BY <1>2, <1>4, <1>8
  <2>2. tick' \in [state : 0 .. Len(TickStates), todo : Seq(Txns),
                   resume_point : Txns \cup {Null}, last_counter : Counter,
                   budget : Budgets \cup {0}]
    BY <1>6, <1>7 DEF TickInv, TypeOK, Counter
  <2>3. chan' \in Channel /\ settled' \in BOOLEAN
    BY <1>4 DEF TickInv, TypeOK
  <2> QED
    BY <2>1, <2>2, <2>3 DEF TypeOK, Channel, Counter
<1>11. QueuesOK'
  <2>1. "RX" \in Queues /\ "TX" \in Queues /\ "PEND" \in Queues
    BY DEF Queues
  <2>2. ASSUME NEW q \in Queues, NEW u \in ToSet(r.queue[q]) PROVE txn'[u].state # "UNDEF"
    <3>1. u \in ToSet(queue[q]) /\ txn[u].state # "UNDEF"
      BY <1>9, <2>2 DEF TickInv, QueuesOK
    <3>2. u \in Txns
      BY <1>2, <3>1 DEF ToSet
    <3>3. CASE r.queue = queue /\ r.txn.state # "UNDEF"
      BY <1>5, <3>1, <3>2, <3>3
    <3>4. CASE \A p \in Queues : \A v : v \in ToSet(r.queue[p]) <=> v \in ToSet(queue[p]) /\ v # t
      BY <1>5, <2>2, <3>1, <3>2, <3>4
    <3> QED
      BY <1>9, <3>3, <3>4
  <2>3. /\ ToSet(r.queue["RX"]) \subseteq RxTxns /\ ToSet(r.queue["TX"]) \subseteq TxTxns
        /\ ToSet(r.queue["PEND"]) \subseteq TxTxns
        /\ \A u \in ToSet(r.queue["PEND"]) : u \notin ToSet(r.queue["TX"])
    BY <1>9, <2>1 DEF TickInv, QueuesOK
  <2> QED
    BY <1>4, <1>8, <2>2, <2>3 DEF QueuesOK
<1>12. PhaseOK'
  <2>1. "RX" \in Queues /\ "TX" \in Queues
    BY DEF Queues
  <2>2. r.chan.tick_resume # Null => r.queue = queue /\ r.chan.tick_resume = t
    OBVIOUS
  <2>3. Queued' = ToSet(r.queue["RX"]) \cup ToSet(r.queue["TX"])
    BY <1>4 DEF Queued
  <2>4. ToSet(todo) \subseteq Queued'
    <3> SUFFICES ASSUME NEW u \in ToSet(todo) PROVE u \in Queued'
      OBVIOUS
    <3>1. u \in Queued
      BY <1>2, <1>6
    <3>2. CASE r.queue = queue
      BY <2>3, <3>1, <3>2 DEF Queued
    <3>3. CASE r.queue # queue
      <4>1. u # t
        BY <1>6, <1>9, <3>3
      <4> QED
        BY <1>9, <2>1, <2>3, <3>1, <3>3, <4>1 DEF Queued
    <3> QED
      BY <3>2, <3>3
  <2>5. chan'.tick_resume \in Queued' \cup {Null}
    BY <1>1, <1>4, <2>2, <2>3 DEF Queued
  <2> QED
    BY <1>1, <1>4, <1>6, <1>7, <2>4, <2>5 DEF PhaseOK
<1>13. DataOK'
  <2> SUFFICES ASSUME tick.state = 4, ~r.chan.tx_blocked PROVE DataOK'
    BY <1>4, <1>7 DEF DataOK
  <2> DEFINE q == queue["TX"]
             n == Len(q)
             m == Len(tick.todo)
  <2>1. r.queue = queue /\ q \in Seq(Txns) /\ IsInjective(q)
    <3>1. "TX" \in Queues
      BY DEF Queues
    <3> QED
      BY <1>2, <3>1 DEF TickInv, QueuesOK
  <2>2. PICK k \in 0 .. n : /\ m = n - k
                            /\ \A i \in 1 .. m : tick.todo[i] = q[k + i]
                            /\ \A i \in 1 .. k : ~SendsData(q[i])
    BY <1>1 DEF TickInv, DataOK
  <2>3. /\ n \in Nat /\ m \in Nat \ {0} /\ DOMAIN q = 1 .. n /\ t = tick.todo[1]
        /\ Len(rest) = m - 1 /\ \A i \in 1 .. m - 1 : rest[i] = tick.todo[i + 1]
        /\ \A i \in 1 .. n : q[i] \in Txns
    <3>1. /\ Len(rest) = m - 1 /\ m \in Nat \ {0} /\ t = tick.todo[1]
          /\ \A i \in 1 .. m - 1 : rest[i] = tick.todo[i + 1]
      BY <1>2, TailSet DEF rest
    <3>2. n \in Nat /\ DOMAIN q = 1 .. n /\ \A i \in 1 .. n : q[i] \in Txns
      BY <2>1
    <3> QED
      BY <3>1, <3>2
  <2> HIDE DEF q, n, m
  <2>4. \A i \in 1 .. k : q[i] # t
    <3>1. t = q[k + 1] /\ k + 1 \in 1 .. n
      BY <2>2, <2>3
    <3> QED
      BY <2>1, <2>3, <3>1 DEF IsInjective
  <2>5. \A u \in Txns : SendsData(u) <=> MaySend(txn[u])
    BY DEF SendsData, MaySend
  <2>6. \A i \in 1 .. k : ~MaySend(txn'[q[i]])
    <3> SUFFICES ASSUME NEW i \in 1 .. k PROVE ~MaySend(txn'[q[i]])
      OBVIOUS
    <3>1. q[i] \in Txns /\ q[i] # t
      BY <2>2, <2>3, <2>4
    <3>2. txn'[q[i]] = txn[q[i]]
      BY <1>5, <3>1
    <3> QED
      BY <2>2, <2>5, <3>1, <3>2
  <2>7. CASE Stays(r)
    <3>1. todo = tick.todo
      BY <2>7 DEF todo
    <3> QED
      BY <1>4, <1>7, <2>1, <2>2, <2>6, <3>1
         DEF DataOK, SendsData, MaySend, q, n, m
  <2>8. CASE ~Stays(r)
    <3>1. todo = rest
      BY <2>8 DEF todo
    <3>2. t = q[k + 1] /\ k + 1 \in 0 .. n /\ Len(rest) = n - (k + 1)
      BY <2>2, <2>3
    <3>3. \A i \in 1 .. Len(rest) : rest[i] = q[(k + 1) + i]
      <4> SUFFICES ASSUME NEW i \in 1 .. Len(rest) PROVE rest[i] = q[(k + 1) + i]
        OBVIOUS
      <4>1. i \in 1 .. m - 1 /\ rest[i] = tick.todo[i + 1]
        BY <2>3
      <4>2. i + 1 \in 1 .. m /\ k + (i + 1) = (k + 1) + i
        BY <2>2, <2>3, <4>1
      <4>3. tick.todo[i + 1] = q[k + (i + 1)]
        BY <2>2, <4>2
      <4> QED
        BY <4>1, <4>2, <4>3
    <3>4. ~MaySend(txn'[t])
      BY <1>5, <2>8
    <3>5. \A i \in 1 .. k + 1 : ~MaySend(txn'[q[i]])
      <4> SUFFICES ASSUME NEW i \in 1 .. k + 1 PROVE ~MaySend(txn'[q[i]])
        OBVIOUS
      <4>1. i = k + 1 \/ i \in 1 .. k
        BY <2>2, <2>3
      <4> QED
        BY <2>6, <3>2, <3>4, <4>1
    <3> QED
      <4>1. tick'.todo = rest /\ queue'["TX"] = q
        BY <1>4, <1>7, <2>1, <3>1 DEF q
      <4>2. \E j \in 0 .. Len(queue'["TX"]) :
              /\ Len(tick'.todo) = Len(queue'["TX"]) - j
              /\ \A i \in 1 .. Len(tick'.todo) : tick'.todo[i] = queue'["TX"][j + i]
              /\ \A i \in 1 .. j : ~MaySend(txn'[queue'["TX"][i]])
        BY <3>2, <3>3, <3>5, <4>1 DEF n
      <4> QED
        BY <4>2 DEF DataOK, SendsData, MaySend
  <2> QED
    BY <2>7, <2>8
<1> QED
  BY <1>10, <1>11, <1>12, <1>13 DEF TickInv

-------------------------------------------------------------------------------
(* The tick functions. *)

LEMMA FinishTransactionOK ==
  ASSUME NEW u \in Transaction, NEW e \in BOOLEAN
  PROVE  LET v == [FinishTransaction(u) EXCEPT !.ending = e]
         IN  v \in Transaction /\ v.state # "UNDEF"
BY DEF FinishTransaction, Transaction

LEMMA S_CheckStateOK ==
  ASSUME NEW u \in Transaction
  PROVE  /\ S_CheckState(u) \in Transaction
         /\ u.state # "UNDEF" => S_CheckState(u).state # "UNDEF"
<1> DEFINE sent == u.sub_state = "DATA_NORMAL" /\ u.left = 0
           ends == /\ u.ending
                   /\ u.sub_state = "DATA_EOF" \/ (u.sub_state = "DATA_NORMAL" /\ u.left # 0)
           v == S_CheckState(u)
<1>1. 0 \in 0 .. Segments
  BY NumbersAssumption
<1>2. CASE sent
  <2>1. v = [u EXCEPT !.sub_state = "DATA_EOF", !.due = TRUE]
    BY <1>2, Zenon DEF S_CheckState
  <2> HIDE DEF v
  <2>2. v \in Transaction /\ v.state = u.state
    BY <2>1 DEF Transaction
  <2> QED
    BY <2>2 DEF v
<1>3. CASE ~sent /\ ends
  <2>1. v = [u EXCEPT !.sub_state = "FILESTORE", !.left = 0, !.ending = FALSE]
    <3>1. ~sent /\ u.ending
          /\ (u.sub_state = "DATA_EOF" \/ (u.sub_state = "DATA_NORMAL" /\ u.left # 0))
      BY <1>3
    <3> QED
      BY <3>1 DEF S_CheckState
  <2> HIDE DEF v
  <2>2. v \in Transaction /\ v.state = u.state
    BY <1>1, <2>1 DEF Transaction
  <2> QED
    BY <2>2 DEF v
<1>4. CASE ~sent /\ ~ends /\ u.sub_state = "FILESTORE"
  <2>1. v = [FinishTransaction(u) EXCEPT !.ending = FALSE]
    BY <1>4 DEF S_CheckState
  <2> HIDE DEF v
  <2>2. v \in Transaction /\ v.state # "UNDEF"
    BY <2>1, FinishTransactionOK
  <2> QED
    BY <2>2 DEF v
<1>5. CASE ~sent /\ ~ends /\ u.sub_state # "FILESTORE"
  <2>1. v = u
    BY <1>5 DEF S_CheckState
  <2> QED
    BY <2>1
<1> QED
  BY <1>2, <1>3, <1>4, <1>5

LEMMA CheckedOK ==
  ASSUME NEW t, txn[t] \in Transaction, NEW inactive \in BOOLEAN
  PROVE  /\ Checked(t, inactive) \in Transaction
         /\ txn[t].state # "UNDEF" => Checked(t, inactive).state # "UNDEF"
<1> DEFINE e == txn[t].ending \/ (inactive /\ TimerRuns(t))
           u == [txn[t] EXCEPT !.ending = e]
<1>1. e \in BOOLEAN
  OBVIOUS
<1>2. Checked(t, inactive) =
        IF ~Active(t) THEN txn[t]
        ELSE IF t \in TxTxns THEN S_CheckState(u)
        ELSE IF u.ending THEN [FinishTransaction(u) EXCEPT !.ending = FALSE] ELSE u
  BY DEF Checked
<1> HIDE DEF e
<1>3. u \in Transaction /\ u.state = txn[t].state
  BY <1>1 DEF Transaction
<1> HIDE DEF u
<1>4. /\ S_CheckState(u) \in Transaction
      /\ u.state # "UNDEF" => S_CheckState(u).state # "UNDEF"
  BY <1>3, S_CheckStateOK
<1>5. /\ [FinishTransaction(u) EXCEPT !.ending = FALSE] \in Transaction
      /\ [FinishTransaction(u) EXCEPT !.ending = FALSE].state # "UNDEF"
  BY <1>3, FinishTransactionOK
<1> QED
  BY <1>2, <1>3, <1>4, <1>5

LEMMA CompleteTickOK ==
  ASSUME NEW c \in Channel, NEW t \in Txns, c.tick_resume = Null
  PROVE  LET d == CompleteTick(c, t)
         IN  /\ d \in Channel /\ d.tick_resume \in {Null, t}
             /\ d.tx_blocked = c.tx_blocked /\ (~d.tx_blocked => d.tick_resume = Null)
<1> DEFINE d == CompleteTick(c, t)
<1>1. CASE c.tx_blocked
  <2>1. d = [c EXCEPT !.tick_resume = t]
    BY <1>1, Zenon DEF CompleteTick
  <2> HIDE DEF d
  <2> QED
    BY <1>1, <2>1 DEF Channel, d
<1>2. CASE ~c.tx_blocked
  <2>1. d = c
    BY <1>2, Zenon DEF CompleteTick
  <2> QED
    BY <1>2, <2>1
<1> QED
  BY <1>1, <1>2

LEMMA StateTickOK ==
  ASSUME TickInv, NEW t \in Txns, tick.todo # <<>>, Head(tick.todo) = t, ~Passed(t),
         tick.state \in {1, 2}, NEW inactive \in BOOLEAN, Ticked(t, StateTick(t, inactive))
  PROVE  TickInv'
<1> DEFINE u == Checked(t, inactive)
           c == IF u.due THEN MsgOutGet(chan, t) ELSE chan
           gone == inactive /\ TimerRuns(t) /\ u.state = "HOLD"
           kept == [u EXCEPT !.due = @ /\ c.tx_blocked]
           left == [q \in Queues |-> RemoveFirst(queue[q], t)]
           r == StateTick(t, inactive)
<1>1. /\ ~chan.tx_blocked /\ chan.tick_resume = Null /\ txn[t] \in Transaction
      /\ txn[t].state # "UNDEF" /\ chan \in Channel
  BY Visited
<1>2. u \in Transaction /\ u.state # "UNDEF"
  BY <1>1, CheckedOK
<1>3. c \in Channel /\ c.tick_resume = Null
  <2>1. MsgOutGet(chan, t) \in Channel /\ MsgOutGet(chan, t).tick_resume = Null
    BY <1>1, MsgOutGetOK
  <2> QED
    BY <1>1, <2>1
<1>4. r = [txn   |-> IF gone THEN Unused ELSE kept,
           chan  |-> IF gone THEN c ELSE CompleteTick(c, t),
           queue |-> IF gone THEN left ELSE queue]
  BY DEF StateTick
<1> HIDE DEF u, c, left, r
<1>5. kept \in Transaction /\ kept.state # "UNDEF"
  <2>1. (u.due /\ c.tx_blocked) \in BOOLEAN
    OBVIOUS
  <2> QED
    BY <1>2, <2>1 DEF Transaction
<1>6. Unused \in Transaction
  BY NumbersAssumption DEF Unused, Transaction
<1> HIDE DEF kept
<1>7. CASE gone
  <2>1. r.txn = Unused /\ r.chan = c /\ r.queue = left
    BY <1>4, <1>7
  <2>2. r.txn \in Transaction /\ r.chan \in Channel /\ r.chan.tick_resume = Null
    BY <1>3, <1>6, <2>1
  <2>3. r.queue = [q \in Queues |-> RemoveFirst(queue[q], t)] /\ tick.state # 4
    BY <2>1 DEF left
  <2>4. Ticked(t, r)
    BY DEF r
  <2> QED
    BY <2>2, <2>3, <2>4, TickedOK
<1>8. CASE ~gone
  <2>1. r.txn = kept /\ r.chan = CompleteTick(c, t) /\ r.queue = queue
    BY <1>4, <1>8
  <2>2. r.txn \in Transaction /\ r.txn.state # "UNDEF"
    BY <1>5, <2>1
  <2>3. /\ r.chan \in Channel /\ r.chan.tick_resume \in {Null, t}
        /\ ~r.chan.tx_blocked => r.chan.tick_resume = Null
    BY <1>3, <2>1, CompleteTickOK
  <2>4. Ticked(t, r) /\ tick.state # 4
    BY DEF r
  <2> QED
    BY <2>1, <2>2, <2>3, <2>4, TickedOK
<1> QED
  BY <1>7, <1>8

LEMMA NakTickOK ==
  ASSUME TickInv, NEW t \in Txns, tick.todo # <<>>, Head(tick.todo) = t, ~Passed(t),
         tick.state = 3, NEW reads \in BOOLEAN, Ticked(t, NakTick(t, reads))
  PROVE  TickInv'
<1> DEFINE u == txn[t]
           c == IF u.naks # 0 THEN MsgOutGet(chan, t) ELSE chan
           sent == u.naks # 0 /\ ~c.tx_blocked /\ u.fd /\ reads
           n == IF sent THEN u.naks - 1 ELSE u.naks
           r == NakTick(t, reads)
<1>1. /\ ~chan.tx_blocked /\ chan.tick_resume = Null /\ u \in Transaction
      /\ u.state # "UNDEF" /\ chan \in Channel
  BY Visited
<1>2. c \in Channel /\ c.tick_resume = Null
  <2>1. MsgOutGet(chan, t) \in Channel /\ MsgOutGet(chan, t).tick_resume = Null
    BY <1>1, MsgOutGetOK
  <2> QED
    BY <1>1, <2>1
<1>3. r = [txn |-> [u EXCEPT !.naks = n], chan |-> c, queue |-> queue]
  BY DEF NakTick
<1>4. Ticked(t, r)
  OBVIOUS
<1> HIDE DEF u, c, r
<1>5. n \in 0 .. MaxNaks
  <2>1. u.naks \in 0 .. MaxNaks
    BY <1>1 DEF Transaction
  <2>2. CASE sent
    <3>1. n = u.naks - 1
      BY <2>2
    <3> HIDE DEF n
    <3> QED
      BY <2>1, <2>2, <3>1, NumbersAssumption
  <2>3. CASE ~sent
    <3>1. n = u.naks
      BY <2>3
    <3> QED
      BY <2>1, <3>1
  <2> QED
    BY <2>2, <2>3
<1> HIDE DEF n
<1>6. [u EXCEPT !.naks = n] \in Transaction /\ [u EXCEPT !.naks = n].state # "UNDEF"
  BY <1>1, <1>5 DEF Transaction
<1>7. /\ r.txn \in Transaction /\ r.txn.state # "UNDEF" /\ r.queue = queue
      /\ r.chan \in Channel /\ r.chan.tick_resume = Null
  BY <1>2, <1>3, <1>6
<1>8. ~(tick.state = 4) /\ (~r.chan.tx_blocked => r.chan.tick_resume = Null)
  BY <1>7
<1> QED
  BY <1>4, <1>7, <1>8, TickedOK

LEMMA NewDataTickOK ==
  ASSUME TickInv, NEW t \in Txns, tick.todo # <<>>, Head(tick.todo) = t, ~Passed(t),
         tick.state = 4, NEW reads \in BOOLEAN, Ticked(t, NewDataTick(t, reads))
  PROVE  TickInv'
<1> DEFINE u == txn[t]
           sends == SendsData(t)
           c == IF sends THEN MsgOutGet(chan, t) ELSE chan
           had == sends /\ ~c.tx_blocked
           read == u.fd /\ reads
           n == IF had /\ read THEN u.left - 1 ELSE u.left
           ending == u.ending \/ (had /\ ~read)
           r == NewDataTick(t, reads)
<1>1. /\ ~chan.tx_blocked /\ chan.tick_resume = Null /\ u \in Transaction
      /\ u.state # "UNDEF" /\ chan \in Channel /\ tick.state \in 1 .. 5
  BY Visited
<1>2. /\ c \in Channel /\ c.tick_resume = Null
      /\ sends => c.tx_blocked \/ c.outgoing_counter # chan.outgoing_counter
  <2>1. /\ MsgOutGet(chan, t) \in Channel /\ MsgOutGet(chan, t).tick_resume = Null
        /\ \/ MsgOutGet(chan, t).tx_blocked
           \/ MsgOutGet(chan, t).outgoing_counter # chan.outgoing_counter
    BY <1>1, MsgOutGetOK
  <2>2. CASE sends
    <3>1. c = MsgOutGet(chan, t)
      BY <2>2
    <3> HIDE DEF c, sends
    <3> QED
      BY <2>1, <3>1
  <2>3. CASE ~sends
    <3>1. c = chan
      BY <2>3
    <3> QED
      BY <1>1, <2>3, <3>1
  <2> QED
    BY <2>2, <2>3
<1>3. r = [txn |-> [u EXCEPT !.left = n, !.ending = ending], chan |-> c, queue |-> queue]
  BY DEF NewDataTick
<1>4. Ticked(t, r)
  OBVIOUS
<1>5. sends <=> MaySend(u)
  BY DEF SendsData, MaySend
<1> HIDE DEF u, c, r, sends
<1>6. n \in 0 .. Segments /\ (~sends => n = u.left)
  <2>1. u.left \in 0 .. Segments
    BY <1>1 DEF Transaction
  <2>2. CASE had /\ read
    <3>1. n = u.left - 1 /\ u.left # 0
      BY <1>5, <2>2 DEF MaySend
    <3> HIDE DEF n
    <3> QED
      BY <2>1, <2>2, <3>1, NumbersAssumption
  <2>3. CASE ~(had /\ read)
    <3>1. n = u.left
      BY <2>3
    <3> QED
      BY <2>1, <3>1
  <2> QED
    BY <2>2, <2>3
<1> HIDE DEF n
<1>7. ending \in BOOLEAN
  OBVIOUS
<1> HIDE DEF ending
<1> DEFINE v == [u EXCEPT !.left = n, !.ending = ending]
<1>8. /\ v \in Transaction /\ v.state = u.state /\ v.sub_state = u.sub_state
      /\ v.suspended = u.suspended /\ v.left = n
  BY <1>1, <1>6, <1>7 DEF Transaction
<1>9. r.txn = v /\ r.chan = c /\ r.queue = queue
  BY <1>3
<1> HIDE DEF v
<1>10. ~c.tx_blocked => Stays(r) \/ ~MaySend(v)
  <2>1. InState("TX_FILEDATA")
    <3>1. tick.state \in 0 .. 5
      BY <1>1
    <3> QED
      BY <3>1, Phases
  <2>2. CASE sends
    BY <1>2, <1>9, <2>1, <2>2 DEF Stays
  <2>3. CASE ~sends
    BY <1>5, <1>6, <1>8, <2>3 DEF MaySend
  <2> QED
    BY <2>2, <2>3
<1>11. /\ r.txn \in Transaction /\ r.txn.state # "UNDEF" /\ r.queue = queue
       /\ r.chan \in Channel /\ r.chan.tick_resume = Null
       /\ ~r.chan.tx_blocked => Stays(r) \/ ~MaySend(r.txn)
  BY <1>1, <1>2, <1>8, <1>9, <1>10
<1> QED
  BY <1>4, <1>11, TickedOK

LEMMA VisitOK ==
  ASSUME TickInv, NEW t \in Txns, Visit(t)
  PROVE  TickInv'
<1>1. tick.todo # <<>> /\ Head(tick.todo) = t /\ ~Passed(t)
  BY DEF Visit, IsNext
<1>2. /\ tick.state \in 1 .. 5 /\ ~chan.tx_blocked /\ chan.tick_resume = Null
      /\ txn[t] \in Transaction /\ txn[t].state # "UNDEF" /\ chan \in Channel
  BY <1>1, Visited
<1>3. tick.state \in 0 .. 5
  BY <1>2
<1>4. CASE txn[t].suspended
  <2> DEFINE r == NotCalled(t)
  <2>1. r.txn = txn[t] /\ r.chan = chan /\ r.queue = queue /\ Ticked(t, r)
    BY <1>1, <1>4 DEF NotCalled, Visit
  <2> HIDE DEF r
  <2>2. ~MaySend(r.txn)
    BY <1>4, <2>1 DEF MaySend
  <2> QED
    BY <1>1, <1>2, <2>1, <2>2, TickedOK
<1>5. CASE ~txn[t].suspended
  <2>1. CASE /\ tick.state \in {1, 2}
             /\ \E inactive \in BOOLEAN : Ticked(t, StateTick(t, inactive))
    BY <1>1, <2>1, StateTickOK
  <2>2. CASE tick.state = 3 /\ \E reads \in BOOLEAN : Ticked(t, NakTick(t, reads))
    BY <1>1, <2>2, NakTickOK
  <2>3. CASE tick.state = 4 /\ \E reads \in BOOLEAN : Ticked(t, NewDataTick(t, reads))
    BY <1>1, <2>3, NewDataTickOK
  <2>4. \A reads \in Reads(t) : reads \in BOOLEAN
    BY DEF Reads
  <2>5. \A inactive \in Inactive : inactive \in BOOLEAN
    BY DEF Inactive
  <2>6. \/ /\ InState("RX_STATE") \/ InState("TX_STATE")
           /\ \E inactive \in BOOLEAN : Ticked(t, StateTick(t, inactive))
        \/ InState("TX_NAK") /\ \E reads \in BOOLEAN : Ticked(t, NakTick(t, reads))
        \/ InState("TX_FILEDATA") /\ \E reads \in BOOLEAN : Ticked(t, NewDataTick(t, reads))
    BY <1>5, <2>4, <2>5, Zenon DEF Visit
  <2>7. /\ InState("RX_STATE") \/ InState("TX_STATE") => tick.state \in {1, 2}
        /\ InState("TX_NAK") => tick.state = 3
        /\ InState("TX_FILEDATA") => tick.state = 4
    BY <1>3, Phases
  <2> QED
    BY <2>1, <2>2, <2>3, <2>6, <2>7
<1> QED
  BY <1>4, <1>5

-------------------------------------------------------------------------------
(* The other steps of CF_CFDP_TickTransactions. *)

LEMMA SkipOK ==
  ASSUME TickInv, Skip
  PROVE  TickInv'
<1> DEFINE t == Head(tick.todo)
           rest == Tail(tick.todo)
<1>1. /\ tick.todo # <<>> /\ tick.resume_point # Null /\ tick.resume_point # t
      /\ tick' = [tick EXCEPT !.todo = rest]
      /\ UNCHANGED <<txn, queue, chan, settled>>
  BY DEF Skip, Passed
<1>2. tick.state # Idle /\ ~chan.tx_blocked
  BY <1>1 DEF TickInv, PhaseOK, NotTicking
<1>3. tick.todo \in Seq(Txns) /\ IsInjective(tick.todo) /\ ToSet(tick.todo) \subseteq Queued
  BY <1>2 DEF TickInv, TypeOK, PhaseOK
<1>4. /\ rest \in Seq(Txns) /\ IsInjective(rest)
      /\ \A u : u \in ToSet(rest) <=> u \in ToSet(tick.todo) /\ u # t
  BY <1>1, <1>3, TailSet
<1> HIDE DEF t, rest
<1>5. /\ tick'.state = tick.state /\ tick'.todo = rest
      /\ tick'.resume_point = tick.resume_point
  BY <1>1 DEF TickInv, TypeOK
<1>6. TypeOK'
  <2>1. tick' \in [state : 0 .. Len(TickStates), todo : Seq(Txns),
                   resume_point : Txns \cup {Null}, last_counter : 0 .. CounterModulus - 1,
                   budget : Budgets \cup {0}]
    BY <1>1, <1>4 DEF TickInv, TypeOK
  <2> QED
    BY <1>1, <2>1 DEF TickInv, TypeOK
<1>7. QueuesOK'
  BY <1>1 DEF TickInv, QueuesOK
<1>8. /\ \/ tick.state = 1 /\ tick.resume_point \in ToSet(rest) \cup ToSet(queue["TX"])
         \/ tick.state = 2 /\ tick.resume_point \in ToSet(rest)
      /\ ToSet(rest) \subseteq Queued
  BY <1>1, <1>3, <1>4 DEF TickInv, PhaseOK
<1>9. PhaseOK'
  BY <1>1, <1>2, <1>4, <1>5, <1>8 DEF TickInv, PhaseOK, Queued
<1>10. DataOK'
  BY <1>5, <1>8 DEF DataOK
<1> QED
  BY <1>6, <1>7, <1>9, <1>10 DEF TickInv

LEMMA NextPhaseOK ==
  ASSUME TickInv, NextPhase
  PROVE  TickInv'
<1> DEFINE s == IF Again THEN tick.state ELSE tick.state + 1
           todo == Traversed(s)
<1>1. /\ tick.state # Idle /\ tick.todo = <<>> /\ ~chan.tx_blocked /\ ~InState("TX_PEND")
      /\ tick' = [tick EXCEPT !.state = s, !.todo = todo,
                              !.last_counter = chan.outgoing_counter]
      /\ UNCHANGED <<txn, queue, chan, settled>>
  BY DEF NextPhase
<1>2. tick.state \in 1 .. 4
  <2>1. tick.state \in 0 .. 5
    BY Phases DEF TickInv, TypeOK
  <2> QED
    BY <1>1, <2>1, Phases DEF Idle
<1>3. s \in 2 .. 5 /\ (s = 2 => tick.state = 1)
  <2>1. Again => tick.state = 3
    <3>1. tick.state \in 0 .. 5
      BY <1>2
    <3> QED
      BY <3>1, Phases DEF Again
  <2>2. CASE Again
    BY <2>1, <2>2
  <2>3. CASE ~Again
    BY <1>2, <2>3
  <2> QED
    BY <2>2, <2>3
<1> HIDE DEF s
<1>4. todo = IF s = 5 THEN <<>> ELSE queue["TX"]
  <2>1. /\ s = 2 => TickStates[s] = "TX_STATE"
        /\ s = 3 => TickStates[s] = "TX_NAK"
        /\ s = 4 => TickStates[s] = "TX_FILEDATA"
        /\ s = 5 => TickStates[s] = "TX_PEND"
    BY DEF TickStates
  <2>2. s = 2 \/ s = 3 \/ s = 4 \/ s = 5
    BY <1>3
  <2>3. CASE s = 5
    BY <2>1, <2>3 DEF Traversed
  <2>4. CASE s # 5
    <3>1. TickStates[s] # "RX_STATE" /\ TickStates[s] # "TX_PEND"
      BY <2>1, <2>2, <2>4
    <3> QED
      BY <2>4, <3>1, Zenon DEF Traversed
  <2> QED
    BY <2>3, <2>4
<1>5. /\ queue["TX"] \in Seq(Txns) /\ IsInjective(queue["TX"])
      /\ ToSet(queue["TX"]) \subseteq Queued
  <2>1. "TX" \in Queues
    BY DEF Queues
  <2> QED
    BY <2>1 DEF TickInv, TypeOK, QueuesOK, Queued
<1>6. <<>> \in Seq(Txns) /\ IsInjective(<<>>) /\ ToSet(<<>>) = {}
  BY DEF IsInjective, ToSet
<1> HIDE DEF todo
<1>7. todo \in Seq(Txns) /\ IsInjective(todo) /\ ToSet(todo) \subseteq Queued
  <2>1. CASE s = 5
    BY <1>4, <1>6, <2>1
  <2>2. CASE s # 5
    BY <1>4, <1>5, <2>2
  <2> QED
    BY <2>1, <2>2
<1>8. /\ tick'.state = s /\ tick'.todo = todo /\ tick'.resume_point = tick.resume_point
  BY <1>1 DEF TickInv, TypeOK
<1>9. TypeOK'
  <2>1. s \in 0 .. Len(TickStates)
    BY <1>3, Phases
  <2>2. tick' \in [state : 0 .. Len(TickStates), todo : Seq(Txns),
                   resume_point : Txns \cup {Null}, last_counter : 0 .. CounterModulus - 1,
                   budget : Budgets \cup {0}]
    BY <1>1, <1>7, <2>1 DEF TickInv, TypeOK
  <2> QED
    BY <1>1, <2>2 DEF TickInv, TypeOK
<1>10. QueuesOK'
  BY <1>1 DEF TickInv, QueuesOK
<1>11. tick.resume_point # Null => s = 2 /\ tick.resume_point \in ToSet(todo)
  <2> SUFFICES ASSUME tick.resume_point # Null
               PROVE  s = 2 /\ tick.resume_point \in ToSet(todo)
    OBVIOUS
  <2>1. tick.state = 1 /\ tick.resume_point \in ToSet(queue["TX"])
    BY <1>1, <1>6 DEF TickInv, PhaseOK
  <2>2. s = 2
    <3>1. ~Again
      <4>1. tick.state \in 0 .. 5 /\ tick.state # 3
        BY <2>1
      <4> QED
        BY <4>1, Phases DEF Again
    <3> QED
      BY <2>1, <3>1 DEF s
  <2> QED
    BY <1>4, <2>1, <2>2
<1>12. PhaseOK'
  <2>1. s # Idle
    BY <1>3 DEF Idle
  <2> QED
    BY <1>1, <1>7, <1>8, <1>11, <2>1 DEF TickInv, PhaseOK, Queued
<1>13. DataOK'
  <2> SUFFICES ASSUME s = 4 PROVE DataOK'
    BY <1>8 DEF DataOK
  <2>1. todo = queue["TX"] /\ Len(queue["TX"]) \in Nat
    BY <1>4, <1>5
  <2> DEFINE q == queue["TX"]
  <2>2. /\ 0 \in 0 .. Len(q) /\ Len(q) = Len(q) - 0
        /\ \A i \in 1 .. Len(q) : q[i] = q[0 + i]
        /\ \A i \in 1 .. 0 : FALSE
    BY <2>1
  <2>3. tick'.todo = q /\ queue'["TX"] = q
    BY <1>1, <1>8, <2>1
  <2> HIDE DEF q
  <2>4. \E j \in 0 .. Len(queue'["TX"]) :
           /\ Len(tick'.todo) = Len(queue'["TX"]) - j
           /\ \A i \in 1 .. Len(tick'.todo) : tick'.todo[i] = queue'["TX"][j + i]
           /\ \A i \in 1 .. j : ~MaySend(txn'[queue'["TX"][i]])
    <3>1. /\ 0 \in 0 .. Len(queue'["TX"]) /\ Len(tick'.todo) = Len(queue'["TX"]) - 0
          /\ \A i \in 1 .. Len(tick'.todo) : tick'.todo[i] = queue'["TX"][0 + i]
      BY <2>2, <2>3
    <3>2. \A i \in 1 .. 0 : ~MaySend(txn'[queue'["TX"][i]])
      OBVIOUS
    <3> QED
      BY <3>1, <3>2
  <2> QED
    BY <2>4 DEF DataOK, SendsData, MaySend
<1> QED
  BY <1>9, <1>10, <1>12, <1>13 DEF TickInv

-------------------------------------------------------------------------------
(* Steps that begin or end outside CF_CFDP_TickTransactions. *)

LEMMA NotTickingOK ==
  /\ NotTicking \in [state : 0 .. Len(TickStates), todo : Seq(Txns),
                     resume_point : Txns \cup {Null}, last_counter : 0 .. CounterModulus - 1,
                     budget : Budgets \cup {0}]
  /\ NotTicking.state = Idle /\ NotTicking.state = 0 /\ NotTicking.resume_point = Null
<1>1. 0 \in 0 .. CounterModulus - 1
  <2>1. PICK b \in Budgets : b \in Nat /\ CounterModulus > b + 1
    BY NumbersAssumption
  <2> QED
    BY <2>1, NumbersAssumption
<1>2. 0 \in 0 .. Len(TickStates) /\ <<>> \in Seq(Txns)
  BY Phases
<1> QED
  BY <1>1, <1>2 DEF NotTicking, Idle

(* What such a step must keep.                                             *)
LEMMA IdleOK ==
  ASSUME tick' = NotTicking, settled' \in BOOLEAN,
         txn' \in [Txns -> Transaction], queue' \in [Queues -> Seq(Txns)], chan' \in Channel,
         QueuesOK', chan'.tick_resume \in Queued' \cup {Null}
  PROVE  TickInv'
<1>1. TypeOK'
  BY NotTickingOK DEF TypeOK, Channel, Counter
<1>2. PhaseOK'
  BY NotTickingOK DEF PhaseOK
<1>3. DataOK'
  BY NotTickingOK DEF DataOK
<1> QED
  BY <1>1, <1>2, <1>3 DEF TickInv

LEMMA BlockedOK ==
  ASSUME TickInv, Blocked
  PROVE  TickInv'
<1>1. tick' = NotTicking /\ UNCHANGED <<txn, queue, chan, settled>>
  BY DEF Blocked
<1>2. QueuesOK'
  BY <1>1 DEF TickInv, QueuesOK
<1>3. chan'.tick_resume \in Queued' \cup {Null}
  BY <1>1 DEF TickInv, PhaseOK, Queued
<1>4. /\ settled' \in BOOLEAN /\ txn' \in [Txns -> Transaction]
      /\ queue' \in [Queues -> Seq(Txns)] /\ chan' \in Channel
  BY <1>1 DEF TickInv, TypeOK, Channel, Counter
<1> QED
  BY <1>1, <1>2, <1>3, <1>4, IdleOK

LEMMA SetupTxTransactionOK ==
  ASSUME TickInv, queue["PEND"] # <<>>, SetupTxTransaction(Head(queue["PEND"])),
         tick' = NotTicking, UNCHANGED <<chan, settled>>
  PROVE  TickInv'
<1> DEFINE pend == queue["PEND"]
           tx == queue["TX"]
           t == Head(pend)
<1>1. /\ "RX" \in Queues /\ "TX" \in Queues /\ "PEND" \in Queues
      /\ \A q \in Queues : q \in {"RX", "TX", "PEND"}
  BY DEF Queues
<1>2. /\ settled' \in BOOLEAN /\ chan' \in Channel /\ queue \in [Queues -> Seq(Txns)]
      /\ txn \in [Txns -> Transaction]
  BY DEF TickInv, TypeOK, Channel, Counter
<1>3. /\ pend \in Seq(Txns) /\ IsInjective(pend) /\ tx \in Seq(Txns) /\ IsInjective(tx)
      /\ \A u \in ToSet(pend) : u \notin ToSet(tx)
  BY <1>1, <1>2 DEF TickInv, QueuesOK
<1>4. /\ t \in ToSet(pend) /\ t \in Txns
      /\ Tail(pend) \in Seq(Txns) /\ IsInjective(Tail(pend))
      /\ \A u : u \in ToSet(Tail(pend)) <=> u \in ToSet(pend) /\ u # t
  BY <1>3, TailSet
<1> DEFINE u == [txn[t] EXCEPT !.fd = TRUE, !.left = Segments, !.due = TRUE]
<1>5. PICK fails \in BOOLEAN :
        /\ txn' = [txn EXCEPT ![t] = IF fails THEN Unused ELSE u]
        /\ queue' = [queue EXCEPT !["PEND"] = Tail(pend),
                                  !["TX"] = IF fails THEN tx ELSE Append(tx, t)]
  <2>1. PICK opens \in Reads(t) :
          LET fails == txn[t].ending \/ ~opens
          IN  /\ txn' = [txn EXCEPT ![t] = IF fails THEN Unused ELSE u]
              /\ queue' = [queue EXCEPT !["PEND"] = Tail(pend),
                                        !["TX"] = IF fails THEN tx ELSE Append(tx, t)]
    BY DEF SetupTxTransaction
  <2> DEFINE fails == txn[t].ending \/ ~opens
  <2>2. fails \in BOOLEAN
    OBVIOUS
  <2> QED
    BY <2>1, <2>2
<1>6. Unused \in Transaction
  BY NumbersAssumption DEF Unused, Transaction
<1>7. u \in Transaction /\ u.state = txn[t].state
  <2>1. txn[t] \in Transaction /\ Segments \in 0 .. Segments
    BY <1>2, <1>4, NumbersAssumption
  <2> QED
    BY <2>1 DEF Transaction
<1>8. txn[t].state # "UNDEF" /\ t \in TxTxns /\ t \notin RxTxns
  BY <1>1, <1>4, SlotsAssumption DEF TickInv, QueuesOK
<1> HIDE DEF t, u
<1>9. /\ txn' \in [Txns -> Transaction]
      /\ \A v \in Txns : v # t => txn'[v] = txn[v]
      /\ ~fails => txn'[t].state # "UNDEF"
  BY <1>2, <1>4, <1>5, <1>6, <1>7, <1>8
<1> DEFINE sends == IF fails THEN tx ELSE Append(tx, t)
<1>10. /\ sends \in Seq(Txns) /\ IsInjective(sends) /\ ToSet(tx) \subseteq ToSet(sends)
       /\ ToSet(sends) \subseteq ToSet(tx) \cup {t} /\ (fails => ToSet(sends) = ToSet(tx))
  <2>1. /\ Append(tx, t) \in Seq(Txns) /\ IsInjective(Append(tx, t))
        /\ ToSet(Append(tx, t)) = ToSet(tx) \cup {t}
    BY <1>3, <1>4, AppendSet
  <2> QED
    BY <1>3, <2>1
<1> HIDE DEF sends
<1>11. /\ queue' \in [Queues -> Seq(Txns)] /\ queue'["RX"] = queue["RX"]
       /\ queue'["TX"] = sends /\ queue'["PEND"] = Tail(pend)
  BY <1>1, <1>2, <1>4, <1>5, <1>10 DEF sends
<1>12. /\ ToSet(queue["RX"]) \subseteq RxTxns /\ ToSet(tx) \subseteq TxTxns
       /\ ToSet(pend) \subseteq TxTxns
  BY DEF TickInv, QueuesOK
<1>13. ASSUME NEW q \in Queues, NEW v \in ToSet(queue[q]) PROVE v \in Txns /\ txn[v].state # "UNDEF"
  BY <1>2, <1>13 DEF TickInv, QueuesOK, ToSet
<1>14. \A q \in Queues : IsInjective(queue[q])
  BY DEF TickInv, QueuesOK
<1> HIDE DEF pend, tx
<1>15. QueuesOK'
  <2>1. ASSUME NEW q \in Queues PROVE IsInjective(queue'[q])
    BY <1>1, <1>4, <1>10, <1>11, <1>14
  <2>2. ASSUME NEW q \in Queues, NEW v \in ToSet(queue'[q]) PROVE txn'[v].state # "UNDEF"
    <3>1. CASE v = t
      <4>1. q = "TX"
        BY <1>1, <1>4, <1>8, <1>11, <1>12, <2>2, <3>1
      <4>2. ~fails
        BY <1>3, <1>4, <1>10, <1>11, <2>2, <3>1, <4>1
      <4> QED
        BY <1>9, <3>1, <4>2
    <3>2. CASE v # t
      <4>1. v \in ToSet(queue[q])
        BY <1>1, <1>4, <1>10, <1>11, <2>2, <3>2 DEF pend, tx
      <4> QED
        BY <1>9, <1>13, <3>2, <4>1
    <3> QED
      BY <3>1, <3>2
  <2>3. /\ ToSet(queue'["RX"]) \subseteq RxTxns /\ ToSet(queue'["TX"]) \subseteq TxTxns
        /\ ToSet(queue'["PEND"]) \subseteq TxTxns
    BY <1>4, <1>8, <1>10, <1>11, <1>12
  <2>4. \A v \in ToSet(queue'["PEND"]) : v \notin ToSet(queue'["TX"])
    BY <1>3, <1>4, <1>10, <1>11
  <2> QED
    BY <2>1, <2>2, <2>3, <2>4 DEF QueuesOK
<1>16. chan'.tick_resume \in Queued' \cup {Null}
  <2>1. chan.tick_resume \in Queued \cup {Null}
    BY DEF TickInv, PhaseOK
  <2> QED
    BY <1>10, <1>11, <2>1 DEF Queued, tx
<1> QED
  BY <1>2, <1>9, <1>11, <1>15, <1>16, IdleOK

LEMMA StartFirstPendingOK ==
  ASSUME TickInv, StartFirstPending
  PROVE  TickInv'
<1>1. tick' = NotTicking /\ UNCHANGED <<chan, settled>>
  BY DEF StartFirstPending
<1>2. CASE queue["PEND"] # <<>>
  BY <1>1, <1>2, SetupTxTransactionOK DEF StartFirstPending
<1>3. CASE queue["PEND"] = <<>>
  <2>1. UNCHANGED <<txn, queue>>
    BY <1>3 DEF StartFirstPending
  <2>2. QueuesOK'
    BY <2>1 DEF TickInv, QueuesOK
  <2>3. chan'.tick_resume \in Queued' \cup {Null}
    BY <1>1, <2>1 DEF TickInv, PhaseOK, Queued
  <2>4. /\ settled' \in BOOLEAN /\ txn' \in [Txns -> Transaction]
        /\ queue' \in [Queues -> Seq(Txns)] /\ chan' \in Channel
    BY <1>1, <2>1 DEF TickInv, TypeOK, Channel, Counter
  <2> QED
    BY <1>1, <2>2, <2>3, <2>4, IdleOK
<1> QED
  BY <1>2, <1>3

LEMMA WakeupOK ==
  ASSUME TickInv, Wakeup
  PROVE  TickInv'
<1>1. /\ tick.state = Idle /\ tick = NotTicking /\ UNCHANGED <<txn, queue, settled>>
      /\ settled' \in BOOLEAN /\ txn' \in [Txns -> Transaction]
      /\ queue' \in [Queues -> Seq(Txns)] /\ chan \in Channel
  BY DEF Wakeup, TickInv, TypeOK, PhaseOK, Channel, Counter
<1> DEFINE point == IF chan.frozen THEN chan.tick_resume ELSE Null
<1>2. chan' = [chan EXCEPT !.outgoing_counter = 0, !.tx_blocked = FALSE, !.tick_resume = point]
  BY DEF Wakeup
<1>3. 0 \in Counter
  BY NotTickingOK DEF NotTicking, Counter
<1>4. point \in Queued \cup {Null} /\ (~chan.frozen => point = Null)
  BY DEF TickInv, PhaseOK
<1>5. point \in Txns \cup {Null}
  BY <1>1 DEF Channel
<1> HIDE DEF point
<1>6. /\ chan' \in Channel /\ chan'.tx_blocked = FALSE /\ chan'.tick_resume = point
  BY <1>1, <1>2, <1>3, <1>5 DEF Channel
<1>7. QueuesOK'
  BY <1>1 DEF TickInv, QueuesOK
<1>8. Queued' = Queued
  BY <1>1 DEF Queued
<1>9. CASE chan.frozen
  <2>1. tick' = NotTicking
    BY <1>1, <1>9 DEF Wakeup
  <2> QED
    BY <1>1, <1>4, <1>6, <1>7, <1>8, <2>1, IdleOK
<1>10. CASE ~chan.frozen
  <2> DEFINE rx == queue["RX"]
             resume == chan.tick_resume
  <2>1. PICK budget \in Budgets :
          tick' = [state |-> 1, todo |-> rx, last_counter |-> 0,
                   resume_point |-> resume, budget |-> budget]
    BY <1>10 DEF Wakeup
  <2>2. rx \in Seq(Txns) /\ IsInjective(rx) /\ ToSet(rx) \subseteq Queued
    <3>1. "RX" \in Queues
      BY DEF Queues
    <3> QED
      BY <1>1, <3>1 DEF TickInv, QueuesOK, Queued
  <2>3. resume \in Txns \cup {Null} /\ resume \in ToSet(rx) \cup ToSet(queue["TX"]) \cup {Null}
    BY <1>1 DEF TickInv, PhaseOK, Queued, Channel
  <2> HIDE DEF rx, resume
  <2>4. /\ tick'.state = 1 /\ tick'.todo = rx /\ tick'.resume_point = resume
        /\ queue'["TX"] = queue["TX"]
    BY <1>1, <2>1
  <2>5. TypeOK'
    <3>1. 1 \in 0 .. Len(TickStates)
      BY Phases
    <3>2. tick' \in [state : 0 .. Len(TickStates), todo : Seq(Txns),
                     resume_point : Txns \cup {Null}, last_counter : Counter,
                     budget : Budgets \cup {0}]
      BY <1>3, <2>1, <2>2, <2>3, <3>1
    <3> QED
      BY <1>1, <1>6, <3>2 DEF TypeOK, Channel, Counter
  <2>6. PhaseOK'
    BY <1>4, <1>6, <1>8, <1>10, <2>2, <2>3, <2>4 DEF PhaseOK, Idle
  <2>7. DataOK'
    BY <2>4 DEF DataOK
  <2> QED
    BY <1>7, <2>5, <2>6, <2>7 DEF TickInv
<1> QED
  BY <1>9, <1>10

(* What arrives, or is commanded, between two wakeups.                     *)
LEMMA EventOK ==
  ASSUME TickInv, Event
  PROVE  /\ tick' = NotTicking /\ settled' \in BOOLEAN
         /\ txn \in [Txns -> Transaction] /\ queue \in [Queues -> Seq(Txns)]
         /\ chan \in Channel /\ chan.tick_resume \in Queued \cup {Null}
BY DEF Event, TickInv, TypeOK, PhaseOK, Channel, Counter

LEMMA StartTransactionOK ==
  ASSUME TickInv, NEW t \in Txns, NEW q \in {"RX", "PEND"},
         q = "RX" => t \in RxTxns, q = "PEND" => t \in TxTxns, StartTransaction(t, q)
  PROVE  TickInv'
<1> DEFINE u == [txn[t] EXCEPT !.state = "ACTIVE"]
           s == queue[q]
<1>1. /\ tick' = NotTicking /\ settled' \in BOOLEAN
      /\ txn \in [Txns -> Transaction] /\ queue \in [Queues -> Seq(Txns)]
      /\ chan \in Channel /\ chan.tick_resume \in Queued \cup {Null}
  BY EventOK DEF StartTransaction
<1>2. /\ txn[t].state = "UNDEF" /\ txn' = [txn EXCEPT ![t] = u]
      /\ queue' = [queue EXCEPT ![q] = Append(s, t)] /\ chan' = chan
  BY DEF StartTransaction
<1>3. u \in Transaction /\ u.state # "UNDEF"
  <2>1. txn[t] \in Transaction
    BY <1>1
  <2> QED
    BY <2>1 DEF Transaction
<1> HIDE DEF u
<1>4. txn' \in [Txns -> Transaction] /\ \A v \in Txns : txn[v].state # "UNDEF" => txn'[v].state # "UNDEF"
  BY <1>1, <1>2, <1>3
<1>5. txn'[t].state # "UNDEF"
  BY <1>1, <1>2, <1>3
<1>6. q \in Queues /\ "RX" \in Queues /\ "TX" \in Queues /\ "PEND" \in Queues
  BY DEF Queues
<1>7. \A p \in Queues : t \notin ToSet(queue[p])
  BY <1>2 DEF TickInv, QueuesOK
<1>8. s \in Seq(Txns) /\ IsInjective(s)
  BY <1>1, <1>6 DEF TickInv, QueuesOK
<1>9. /\ Append(s, t) \in Seq(Txns) /\ IsInjective(Append(s, t))
      /\ ToSet(Append(s, t)) = ToSet(s) \cup {t}
  BY <1>6, <1>7, <1>8, AppendSet
<1>10. /\ queue' \in [Queues -> Seq(Txns)] /\ queue'[q] = Append(s, t)
       /\ \A p \in Queues : p # q => queue'[p] = queue[p]
  BY <1>1, <1>2, <1>6, <1>9
<1> HIDE DEF s
<1>11. \A p \in Queues : ToSet(queue[p]) \subseteq ToSet(queue'[p]) /\ ToSet(queue'[p]) \subseteq ToSet(queue[p]) \cup {t}
  BY <1>9, <1>10 DEF s
<1>12. QueuesOK'
  <2>1. ASSUME NEW p \in Queues PROVE IsInjective(queue'[p])
    BY <1>9, <1>10 DEF TickInv, QueuesOK
  <2>2. ASSUME NEW p \in Queues, NEW v \in ToSet(queue'[p]) PROVE txn'[v].state # "UNDEF"
    <3>1. CASE v = t
      BY <1>5, <3>1
    <3>2. CASE v # t
      <4>1. v \in ToSet(queue[p])
        BY <1>11, <3>2
      <4>2. v \in Txns /\ txn[v].state # "UNDEF"
        BY <1>1, <4>1 DEF TickInv, QueuesOK, ToSet
      <4> QED
        BY <1>4, <4>2
    <3> QED
      BY <3>1, <3>2
  <2>3. queue'["TX"] = queue["TX"]
    BY <1>6, <1>10
  <2>4. /\ q # "RX" => queue'["RX"] = queue["RX"]
        /\ q # "PEND" => queue'["PEND"] = queue["PEND"]
    BY <1>6, <1>10
  <2>5. ToSet(queue'["RX"]) \subseteq RxTxns
    BY <1>6, <1>11, <2>4 DEF TickInv, QueuesOK
  <2>6. ToSet(queue'["PEND"]) \subseteq TxTxns
    BY <1>6, <1>11, <2>4 DEF TickInv, QueuesOK
  <2>7. \A v \in ToSet(queue'["PEND"]) : v \notin ToSet(queue'["TX"])
    BY <1>6, <1>7, <1>11, <2>3 DEF TickInv, QueuesOK
  <2>8. ToSet(queue'["TX"]) \subseteq TxTxns
    BY <2>3 DEF TickInv, QueuesOK
  <2> QED
    BY <2>1, <2>2, <2>5, <2>6, <2>7, <2>8 DEF QueuesOK
<1>13. chan'.tick_resume \in Queued' \cup {Null}
  BY <1>1, <1>2, <1>6, <1>11 DEF Queued
<1> QED
  BY <1>1, <1>2, <1>4, <1>10, <1>12, <1>13, IdleOK

LEMMA ChangesOK ==
  ASSUME TickInv, NEW t \in Txns, NEW u, Changes(t, u),
         txn[t] \in Transaction => u \in Transaction /\ u.state # "UNDEF"
  PROVE  TickInv'
<1>1. /\ tick' = NotTicking /\ settled' \in BOOLEAN
      /\ txn \in [Txns -> Transaction] /\ queue \in [Queues -> Seq(Txns)]
      /\ chan \in Channel /\ chan.tick_resume \in Queued \cup {Null}
  BY EventOK DEF Changes
<1>2. txn' = [txn EXCEPT ![t] = u] /\ queue' = queue /\ chan' = chan
  BY DEF Changes
<1>3. /\ txn' \in [Txns -> Transaction]
      /\ \A v \in Txns : txn[v].state # "UNDEF" => txn'[v].state # "UNDEF"
  BY <1>1, <1>2
<1>4. QueuesOK'
  <2>1. ASSUME NEW q \in Queues, NEW v \in ToSet(queue[q]) PROVE txn'[v].state # "UNDEF"
    <3>1. v \in Txns /\ txn[v].state # "UNDEF"
      BY <1>1 DEF TickInv, QueuesOK, ToSet
    <3> QED
      BY <1>3, <3>1
  <2> QED
    BY <1>2, <2>1 DEF TickInv, QueuesOK
<1>5. chan'.tick_resume \in Queued' \cup {Null}
  BY <1>1, <1>2 DEF Queued
<1> QED
  BY <1>1, <1>2, <1>3, <1>4, <1>5, IdleOK

LEMMA EmptyQueuesOK ==
  ASSUME queue' = [q \in Queues |-> <<>>]
  PROVE  QueuesOK'
<1>1. \A q \in Queues : queue'[q] = <<>>
  OBVIOUS
<1> QED
  BY <1>1 DEF QueuesOK, IsInjective, ToSet, Queues

LEMMA EventsOK ==
  ASSUME TickInv, Events
  PROVE  TickInv'
<1>1. CASE \E t \in RxTxns : StartTransaction(t, "RX")
  <2>1. PICK t \in RxTxns : StartTransaction(t, "RX")
    BY <1>1
  <2> QED
    BY <2>1, StartTransactionOK DEF Txns
<1>2. CASE \E t \in TxTxns : StartTransaction(t, "PEND")
  <2>1. PICK t \in TxTxns : StartTransaction(t, "PEND")
    BY <1>2
  <2> QED
    BY <2>1, StartTransactionOK DEF Txns
<1>3. CASE \E t \in Troubled \cap TxTxns : NakArrives(t)
  <2>1. PICK t \in TxTxns : NakArrives(t)
    BY <1>3
  <2>2. /\ Changes(t, [txn[t] EXCEPT !.naks = txn[t].naks + 1]) /\ txn[t].naks < MaxNaks
        /\ txn[t].state # "UNDEF" /\ t \in Txns
    BY <2>1 DEF NakArrives, Changes, Txns
  <2>3. ASSUME txn[t] \in Transaction
        PROVE  /\ [txn[t] EXCEPT !.naks = txn[t].naks + 1] \in Transaction
               /\ [txn[t] EXCEPT !.naks = txn[t].naks + 1].state # "UNDEF"
    <3>1. txn[t].naks + 1 \in 0 .. MaxNaks
      BY <2>2, <2>3, NumbersAssumption DEF Transaction
    <3> QED
      BY <2>2, <2>3, <3>1 DEF Transaction
  <2> QED
    BY <2>2, <2>3, ChangesOK
<1>4. CASE \E t \in Txns : Report(t)
  <2>1. PICK t \in Txns : Report(t)
    BY <1>4
  <2>2. Changes(t, [txn[t] EXCEPT !.due = TRUE]) /\ txn[t].state # "UNDEF"
    BY <2>1 DEF Report, Changes
  <2>3. ASSUME txn[t] \in Transaction
        PROVE  /\ [txn[t] EXCEPT !.due = TRUE] \in Transaction
               /\ [txn[t] EXCEPT !.due = TRUE].state # "UNDEF"
    BY <2>2, <2>3 DEF Transaction
  <2> QED
    BY <2>2, <2>3, ChangesOK
<1>5. CASE \E t \in Troubled : Ends(t)
  <2>1. PICK t \in Troubled : Ends(t)
    BY <1>5
  <2>2. /\ Changes(t, [txn[t] EXCEPT !.ending = TRUE])
        /\ txn[t].state # "UNDEF" /\ t \in Txns
    BY <2>1, SlotsAssumption DEF Ends, Changes, Txns
  <2>3. ASSUME txn[t] \in Transaction
        PROVE  /\ [txn[t] EXCEPT !.ending = TRUE] \in Transaction
               /\ [txn[t] EXCEPT !.ending = TRUE].state # "UNDEF"
    BY <2>2, <2>3 DEF Transaction
  <2> QED
    BY <2>2, <2>3, ChangesOK
<1>6. CASE \E t \in Troubled : Abandon(t)
  <2>1. PICK t \in Troubled : Abandon(t)
    BY <1>6
  <2> DEFINE e == FinishTransaction(txn[t]).ending /\ ~Started(t)
             u == [FinishTransaction(txn[t]) EXCEPT !.ending = e]
  <2>2. Changes(t, u) /\ t \in Txns
    BY <2>1, SlotsAssumption DEF Abandon, Txns
  <2>3. e \in BOOLEAN
    OBVIOUS
  <2> HIDE DEF e
  <2>4. ASSUME txn[t] \in Transaction
        PROVE  u \in Transaction /\ u.state # "UNDEF"
    BY <2>3, <2>4, FinishTransactionOK
  <2> HIDE DEF u
  <2> QED
    BY <2>2, <2>4, ChangesOK
<1>7. CASE \E t \in Troubled : Suspend(t)
  <2>1. PICK t \in Troubled : Suspend(t)
    BY <1>7
  <2>2. /\ Changes(t, [txn[t] EXCEPT !.suspended = ~txn[t].suspended])
        /\ txn[t].state # "UNDEF" /\ t \in Txns
    BY <2>1, SlotsAssumption DEF Suspend, Changes, Txns
  <2>3. ASSUME txn[t] \in Transaction
        PROVE  /\ [txn[t] EXCEPT !.suspended = ~txn[t].suspended] \in Transaction
               /\ [txn[t] EXCEPT !.suspended = ~txn[t].suspended].state # "UNDEF"
    BY <2>2, <2>3 DEF Transaction
  <2> QED
    BY <2>2, <2>3, ChangesOK
<1>8. CASE Freeze
  <2>1. /\ tick' = NotTicking /\ settled' \in BOOLEAN
        /\ txn \in [Txns -> Transaction] /\ queue \in [Queues -> Seq(Txns)]
        /\ chan \in Channel /\ chan.tick_resume \in Queued \cup {Null}
    BY <1>8, EventOK DEF Freeze
  <2>2. chan' = [chan EXCEPT !.frozen = ~chan.frozen] /\ txn' = txn /\ queue' = queue
    BY <1>8 DEF Freeze
  <2>3. chan' \in Channel /\ chan'.tick_resume \in Queued' \cup {Null}
    BY <2>1, <2>2 DEF Channel, Queued
  <2>4. QueuesOK'
    BY <2>2 DEF TickInv, QueuesOK
  <2> QED
    BY <2>1, <2>2, <2>3, <2>4, IdleOK
<1>9. CASE Restart
  <2>1. tick' = NotTicking /\ settled' \in BOOLEAN /\ chan \in Channel
    BY <1>9, EventOK DEF Restart
  <2>2. /\ txn' = [t \in Txns |-> Unused] /\ queue' = [q \in Queues |-> <<>>]
        /\ chan' = [InitChannel EXCEPT !.frozen = chan.frozen]
    BY <1>9 DEF Restart
  <2>3. Unused \in Transaction /\ 0 \in Counter
    BY NumbersAssumption, NotTickingOK DEF Unused, Transaction, NotTicking, Counter
  <2>4. chan' \in Channel /\ chan'.tick_resume = Null
    BY <2>1, <2>2, <2>3 DEF InitChannel, Channel
  <2>5. QueuesOK'
    BY <2>2, EmptyQueuesOK
  <2> QED
    BY <2>1, <2>2, <2>3, <2>4, <2>5, IdleOK
<1> QED
  BY <1>1, <1>2, <1>3, <1>4, <1>5, <1>6, <1>7, <1>8, <1>9 DEF Events

-------------------------------------------------------------------------------

LEMMA InitTick == Init => TickInv
<1> SUFFICES ASSUME Init PROVE TickInv
  OBVIOUS
<1>1. /\ txn = [t \in Txns |-> Unused] /\ queue = [q \in Queues |-> <<>>]
      /\ chan = InitChannel /\ tick = NotTicking /\ settled = FALSE
  BY DEF Init
<1>2. Unused \in Transaction /\ 0 \in Counter
  BY NumbersAssumption, NotTickingOK DEF Unused, Transaction, NotTicking, Counter
<1>3. chan \in Channel /\ chan.tick_resume = Null
  BY <1>1, <1>2 DEF InitChannel, Channel
<1>4. TypeOK
  <2>1. txn \in [Txns -> Transaction] /\ settled \in BOOLEAN
    BY <1>1, <1>2
  <2>2. queue \in [Queues -> Seq(Txns)]
    BY <1>1
  <2> QED
    BY <1>1, <1>3, <2>1, <2>2, NotTickingOK DEF TypeOK, Channel, Counter
<1>5. QueuesOK
  <2>1. \A q \in Queues : queue[q] = <<>>
    BY <1>1
  <2> QED
    BY <2>1 DEF QueuesOK, IsInjective, ToSet, Queues
<1>6. PhaseOK /\ DataOK
  BY <1>1, <1>3, NotTickingOK DEF PhaseOK, DataOK
<1> QED
  BY <1>4, <1>5, <1>6 DEF TickInv

LEMMA NextTick == TickInv /\ [Next]_vars => TickInv'
<1>1. ASSUME TickInv, UNCHANGED vars PROVE TickInv'
  BY <1>1 DEF vars, TickInv, TypeOK, QueuesOK, PhaseOK, Queued, DataOK, SendsData
<1>2. ASSUME TickInv, Settle PROVE TickInv'
  BY <1>2 DEF Settle, TickInv, TypeOK, QueuesOK, PhaseOK, Queued, DataOK, SendsData
<1>3. ASSUME TickInv, TickTransactions PROVE TickInv'
  BY <1>3, SkipOK, VisitOK, NextPhaseOK, BlockedOK, StartFirstPendingOK
     DEF TickTransactions, Visits
<1> QED
  BY <1>1, <1>2, <1>3, WakeupOK, EventsOK DEF Next

(***************************************************************************)
(* The queues of the channel, the resume point, and what each traversal    *)
(* has left, together: what every step of a wakeup and every event between *)
(* two wakeups keeps.                                                      *)
(***************************************************************************)
THEOREM TickInvariant == Spec => []TickInv
BY InitTick, NextTick, PTL DEF Spec

(***************************************************************************)
(* The resume point is on one of the queues that the state phases come to, *)
(* whatever is recycled, finished, suspended, frozen or restarted: no      *)
(* wakeup skips every transaction for want of it.                          *)
(***************************************************************************)
THEOREM ResumeStaysQueued == Spec => []ResumeIsQueued
<1>1. TickInv => ResumeIsQueued
  <2> SUFFICES ASSUME TickInv, NEW t \in {chan.tick_resume, tick.resume_point} \ {Null}
               PROVE  t \in Queued
    BY DEF TickInv, ResumeIsQueued, Queued
  <2>1. CASE t = chan.tick_resume
    BY <2>1 DEF TickInv, PhaseOK
  <2>2. CASE t = tick.resume_point
    <3>1. tick.resume_point # Null /\ tick.state # Idle
      BY <2>2 DEF TickInv, PhaseOK, Idle
    <3> QED
      BY <2>2, <3>1 DEF TickInv, PhaseOK, Queued
  <2> QED
    BY <2>1, <2>2
<1> QED
  BY <1>1, TickInvariant, PTL

(***************************************************************************)
(* New file data goes out in the order of the queue: a transaction sends   *)
(* data only when those in front of it have none left that they would try  *)
(* to send, the ones abandoned in DATA_NORMAL included, however many       *)
(* messages the wakeup was granted and whatever failed to be read.         *)
(***************************************************************************)
THEOREM DataGoesInOrder == Spec => DataInQueueOrder
<1> DEFINE Ordered == \A i, j \in DOMAIN queue["TX"] :
                        i < j /\ txn'[queue["TX"][j]].left < txn[queue["TX"][j]].left
                              /\ InState("TX_FILEDATA")
                          => ~SendsData(queue["TX"][i])
<1>1. ASSUME TickInv, Next PROVE Ordered
  <2> DEFINE q == queue["TX"]
  <2>1. /\ q \in Seq(Txns) /\ IsInjective(q) /\ txn \in [Txns -> Transaction]
        /\ DOMAIN q = 1 .. Len(q) /\ Len(q) \in Nat
    <3>1. "TX" \in Queues
      BY DEF Queues
    <3> QED
      BY <1>1, <3>1 DEF TickInv, TypeOK, QueuesOK
  <2> SUFFICES ASSUME NEW i \in 1 .. Len(q), NEW j \in 1 .. Len(q), i < j,
                      txn'[q[j]].left < txn[q[j]].left, InState("TX_FILEDATA")
               PROVE  ~SendsData(q[i])
    BY <2>1
  <2>2. tick.state = 4
    <3>1. tick.state \in 0 .. 5
      BY <1>1, Phases DEF TickInv, TypeOK
    <3> QED
      BY <3>1, Phases
  <2>3. q[j] \in Txns /\ txn[q[j]].left \in 0 .. Segments
    BY <2>1 DEF Transaction
  <2>4. txn' # txn
    BY <2>3
  <2>5. PICK t \in Txns : Visit(t)
    <3>1. ~Wakeup /\ ~Skip /\ ~NextPhase /\ ~Blocked /\ ~Settle
      BY <2>4 DEF Wakeup, Skip, NextPhase, Blocked, Settle
    <3>2. ~StartFirstPending
      <4>1. tick.state \in 0 .. 5
        BY <2>2
      <4> QED
        BY <2>2, <4>1, Phases DEF StartFirstPending
    <3>3. ~Events
      BY <2>2 DEF Events, StartTransaction, NakArrives, Report, Ends, Abandon, Suspend,
                  Changes, Freeze, Restart, Event, Idle
    <3> QED
      BY <1>1, <3>1, <3>2, <3>3 DEF Next, TickTransactions, Visits
  <2>6. tick.todo # <<>> /\ Head(tick.todo) = t
    BY <2>5 DEF Visit, IsNext
  <2>7. PICK r : txn' = [txn EXCEPT ![t] = r]
    <3>1. \A r : Ticked(t, r) => txn' = [txn EXCEPT ![t] = r.txn]
      BY DEF Ticked
    <3>2. \E r : Ticked(t, r)
      BY <2>5, Zenon DEF Visit
    <3> QED
      BY <3>1, <3>2
  <2>8. q[j] = t
    BY <2>1, <2>3, <2>7
  <2>9. ~chan.tx_blocked /\ tick.todo \in Seq(Txns)
    BY <1>1, <2>6, Visited DEF TickInv, TypeOK
  <2>10. PICK k \in 0 .. Len(q) : /\ Len(tick.todo) = Len(q) - k
                                  /\ \A n \in 1 .. Len(tick.todo) : tick.todo[n] = q[k + n]
                                  /\ \A n \in 1 .. k : ~SendsData(q[n])
    BY <1>1, <2>2, <2>9 DEF TickInv, DataOK
  <2>11. Len(tick.todo) \in Nat \ {0} /\ tick.todo[1] = t
    BY <2>6, <2>9
  <2> HIDE DEF q
  <2>12. k + 1 \in 1 .. Len(q) /\ q[k + 1] = t
    <3> DEFINE n == Len(q)
               m == Len(tick.todo)
    <3>1. n \in Nat /\ m \in Nat \ {0} /\ k \in 0 .. n /\ m = n - k
      BY <2>1, <2>10, <2>11, Zenon
    <3> HIDE DEF n, m
    <3>2. k + 1 \in 1 .. n /\ 1 \in 1 .. m
      BY <3>1
    <3>3. k + 1 \in 1 .. Len(q) /\ 1 \in 1 .. Len(tick.todo)
      BY <3>2 DEF n, m
    <3> QED
      BY <2>10, <2>11, <3>3
  <2>13. j = k + 1
    BY <2>1, <2>8, <2>12 DEF IsInjective
  <2> QED
    BY <2>10, <2>13
<1>2. TickInv /\ [Next]_vars => [Ordered]_vars
  BY <1>1
<1> QED
  BY <1>2, TickInvariant, PTL DEF Spec, DataInQueueOrder
===============================================================================
