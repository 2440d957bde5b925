------------------------------ MODULE CF_App_proofs ------------------------------
(***************************************************************************)
(* Theorems about CF_App, for every number of channels, polling            *)
(* directories, transactions, open files and messages, and for every set   *)
(* of commands, parameters and values: the types and the limits of the     *)
(* parameters, the pipes of an enabled and of a disabled engine, keys that *)
(* name one transaction of a channel, commands that are counted once and   *)
(* do all or nothing, and what a named or a frozen target protects.        *)
(***************************************************************************)
EXTENDS CF_App, CF_Facts_proofs

(* The entities of a CFDP network have numbers of their own: no number     *)
(* that the table or a command gives this entity is a peer's.              *)
EntitiesDiffer ==
  /\ LocalEid \notin Peers /\ 1 \notin Peers
  /\ \A v \in ParamValues : v % Modulus("local_eid") \notin Peers

(***************************************************************************)
(* The configuration table: its parameters have the width of their fields, *)
(* and the chunk size fits a PDU.                                          *)
(***************************************************************************)
ChannelTable == [param : [ChannelParams -> Nat], semaphore : BOOLEAN,
                 dequeue_enabled : BOOLEAN, polldir : [Polldirs -> BOOLEAN]]
Table == [global : [GlobalParams -> Nat], chan : [Channels -> ChannelTable]]

TableOK(t) ==
  /\ t \in Table
  /\ \A k \in GlobalParams : t.global[k] \in 0 .. Modulus(k) - 1
  /\ t.global["outgoing_file_chunk_size"] <= ChunkLimit
  /\ \A c \in Channels : \A k \in ChannelParams : t.chan[c].param[k] \in 0 .. Modulus(k) - 1
  /\ EntitiesDiffer => t.global["local_eid"] \notin Peers

(***************************************************************************)
(* A channel.  A transaction that no peer sent has a number that the       *)
(* engine gave since it was enabled: that is why the next number of this   *)
(* entity is new on every channel.                                         *)
(***************************************************************************)
Channel == [pipe : BOOLEAN, ready : BOOLEAN, txns : Seq(Txn), playback : BOOLEAN]

KeysDiffer(txns) ==
  \A i, j \in DOMAIN txns :
    txns[i].eid = txns[j].eid /\ txns[i].seq = txns[j].seq => i = j

Numbered(txns, seq_num) ==
  \A i \in DOMAIN txns : txns[i].eid \in Peers \/ txns[i].seq <= seq_num

TxnsOK(txns, seq_num) ==
  /\ txns \in Seq(Txn) /\ Len(txns) <= NumTxns
  /\ EntitiesDiffer => KeysDiffer(txns) /\ Numbered(txns, seq_num)

ChannelOK(ch, seq_num) == ch \in Channel /\ TxnsOK(ch.txns, seq_num)

(* CF_AppData, and what the operating system keeps.                        *)
AppData == [cmd : Nat, err : Nat, frozen : [Channels -> BOOLEAN], table : Table,
            enabled : BOOLEAN, seq_num : Nat, chan : [Channels -> Channel]]
System == [pipes : SUBSET Channels, files : 0 .. MaxFiles]

PipesOK(s) ==
  (\A c \in Channels : s.a.chan[c].ready) =>
    /\ \A c \in Channels : s.a.chan[c].pipe
    /\ s.o.pipes = IF s.a.enabled THEN Channels ELSE {}

Good(s) ==
  /\ s \in [a : AppData, o : System]
  /\ TableOK(s.a.table)
  /\ \A c \in Channels : ChannelOK(s.a.chan[c], s.a.seq_num)
  /\ PipesOK(s)

(* What waits in the command pipe.                                         *)
PipeOK ==
  \/ pipe = NoMessage
  \/ /\ pipe.mid = "WAKE_UP"
     /\ pipe.pdu.chan \in Channels /\ pipe.pdu.eid \in Nat /\ pipe.pdu.seq \in Nat
     /\ pipe.pdu.eid \in Peers \/ pipe.pdu.seq <= app.seq_num
  \/ /\ pipe.mid = "CMD" /\ pipe.cc \in CommandCodes
     /\ pipe.len = "expected" => pipe.payload \in Payloads(pipe.cc)
  \/ pipe.mid = "SEND_HK"
  \/ pipe.mid = "OTHER"

AppInv ==
  /\ run \in {"START", "RUN", "ERROR"} /\ given \in 0 .. MaxGiven
  /\ Good(State(app, os))
  /\ app.cmd + app.err <= given
  /\ pipe # NoMessage => app.cmd + app.err < given
  /\ pending = NoTable \/ TableOK(pending)
  /\ PipeOK
  /\ run = "START" => pipe = NoMessage /\ app = InitApp

-------------------------------------------------------------------------------
(* Channels. *)

LEMMA FunctionIsSeq ==
  ASSUME NEW S, NEW n \in Nat, NEW f \in [1 .. n -> S]
  PROVE  f \in Seq(S) /\ Len(f) = n
<1>1. f \in Seq(S)
  BY SeqDef
<1>2. DOMAIN f = 1 .. Len(f) /\ Len(f) \in Nat
  BY <1>1, LenProperties
<1> QED
  BY <1>1, <1>2

(* Transactions that change, but not their keys.                           *)
LEMMA TxnsChange ==
  ASSUME NEW old, NEW seq_num \in Nat, TxnsOK(old, seq_num), NEW txns \in [DOMAIN old -> Txn],
         \A i \in DOMAIN old : txns[i].eid = old[i].eid /\ txns[i].seq = old[i].seq
  PROVE  TxnsOK(txns, seq_num)
<1>1. old \in Seq(Txn) /\ Len(old) \in Nat /\ DOMAIN old = 1 .. Len(old)
  BY DEF TxnsOK
<1>2. txns \in Seq(Txn) /\ Len(txns) = Len(old) /\ DOMAIN txns = DOMAIN old
  BY <1>1, FunctionIsSeq
<1>3. KeysDiffer(old) => KeysDiffer(txns)
  BY <1>2 DEF KeysDiffer
<1>4. Numbered(old, seq_num) => Numbered(txns, seq_num)
  BY <1>2 DEF Numbered
<1> QED
  BY <1>2, <1>3, <1>4 DEF TxnsOK

(* A transaction with a key that is new to the channel.                    *)
LEMMA TxnAppended ==
  ASSUME NEW old, NEW seq_num \in Nat, TxnsOK(old, seq_num), NEW t \in Txn, NEW n \in Nat,
         Len(old) < NumTxns, seq_num <= n,
         EntitiesDiffer => /\ \A i \in DOMAIN old : ~(old[i].eid = t.eid /\ old[i].seq = t.seq)
                           /\ t.eid \in Peers \/ t.seq <= n
  PROVE  TxnsOK(Append(old, t), n)
<1> DEFINE txns == Append(old, t)
           len == Len(old)
<1>1. old \in Seq(Txn) /\ len \in Nat /\ DOMAIN old = 1 .. len
  BY DEF TxnsOK
<1>2. /\ txns \in Seq(Txn) /\ Len(txns) = len + 1 /\ DOMAIN txns = 1 .. len + 1
      /\ \A i \in 1 .. len : txns[i] = old[i]
      /\ txns[len + 1] = t
  BY <1>1
<1>3. len < NumTxns /\ NumTxns \in Nat
  BY NumbersAssumption
<1> HIDE DEF txns, len
<1>4. \A i \in 1 .. len + 1 : i = len + 1 \/ i \in 1 .. len
  BY <1>1
<1>5. ASSUME EntitiesDiffer PROVE KeysDiffer(txns) /\ Numbered(txns, n)
  <2>1. \A i \in 1 .. len : ~(txns[i].eid = t.eid /\ txns[i].seq = t.seq)
    BY <1>1, <1>2, <1>5
  <2>2. \A i, j \in 1 .. len : txns[i].eid = txns[j].eid /\ txns[i].seq = txns[j].seq => i = j
    BY <1>1, <1>2, <1>5 DEF TxnsOK, KeysDiffer
  <2>3. KeysDiffer(txns)
    <3> SUFFICES ASSUME NEW i \in 1 .. len + 1, NEW j \in 1 .. len + 1,
                        txns[i].eid = txns[j].eid, txns[i].seq = txns[j].seq
                 PROVE  i = j
      BY <1>2 DEF KeysDiffer
    <3>1. CASE i \in 1 .. len /\ j \in 1 .. len
      BY <2>2, <3>1
    <3>2. CASE i = len + 1
      BY <1>2, <1>4, <2>1, <3>2
    <3>3. CASE j = len + 1
      BY <1>2, <1>4, <2>1, <3>3
    <3> QED
      BY <1>4, <3>1, <3>2, <3>3
  <2>4. \A i \in 1 .. len : txns[i].eid \in Peers \/ txns[i].seq <= n
    <3> SUFFICES ASSUME NEW i \in 1 .. len PROVE txns[i].eid \in Peers \/ txns[i].seq <= n
      OBVIOUS
    <3> DEFINE u == old[i]
    <3>1. u.eid \in Peers \/ u.seq <= seq_num
      BY <1>1, <1>5 DEF TxnsOK, Numbered
    <3>2. u.seq \in Nat
      <4>1. u \in Txn
        BY <1>1
      <4> QED
        BY <4>1 DEF Txn
    <3>3. txns[i] = u
      BY <1>2
    <3> HIDE DEF u
    <3>4. u.seq <= seq_num => u.seq <= n
      BY <3>2
    <3> QED
      BY <3>1, <3>3, <3>4
  <2>5. Numbered(txns, n)
    BY <1>2, <1>4, <1>5, <2>4 DEF Numbered
  <2> QED
    BY <2>3, <2>5
<1>6. Len(txns) <= NumTxns
  BY <1>1, <1>2, <1>3
<1> QED
  BY <1>2, <1>5, <1>6 DEF TxnsOK, txns

LEMMA TxnRemoved ==
  ASSUME NEW old, NEW seq_num \in Nat, TxnsOK(old, seq_num), NEW k \in DOMAIN old
  PROVE  TxnsOK(RemoveAt(old, k), seq_num)
<1> DEFINE txns == RemoveAt(old, k)
           len == Len(old)
           at(i) == IF i < k THEN i ELSE i + 1
<1>1. old \in Seq(Txn) /\ len \in Nat /\ DOMAIN old = 1 .. len
  BY DEF TxnsOK
<1>2. /\ txns \in Seq(Txn) /\ Len(txns) = len - 1
      /\ \A i \in 1 .. len - 1 : txns[i] = IF i < k THEN old[i] ELSE old[i + 1]
  <2>1. k \in 1 .. Len(old)
    BY <1>1
  <2> HIDE DEF len
  <2>2. /\ txns \in Seq(Txn) /\ Len(txns) = Len(old) - 1
        /\ \A i \in 1 .. Len(old) - 1 : txns[i] = IF i < k THEN old[i] ELSE old[i + 1]
    BY <1>1, <2>1, RemoveAtProperties
  <2> QED
    BY <2>2 DEF len
<1>3. DOMAIN txns = 1 .. len - 1
  BY <1>2, LenProperties
<1>4. len <= NumTxns /\ NumTxns \in Nat
  BY NumbersAssumption DEF TxnsOK
<1> HIDE DEF txns, len
<1>5. \A i \in 1 .. len - 1 : at(i) \in 1 .. len /\ txns[i] = old[at(i)]
  BY <1>1, <1>2
<1>6. \A i, j \in 1 .. len - 1 : at(i) = at(j) => i = j
  BY <1>1
<1> HIDE DEF at
<1>7. KeysDiffer(old) => KeysDiffer(txns)
  <2> SUFFICES ASSUME KeysDiffer(old), NEW i \in 1 .. len - 1, NEW j \in 1 .. len - 1,
                      txns[i].eid = txns[j].eid, txns[i].seq = txns[j].seq
               PROVE  i = j
    BY <1>3 DEF KeysDiffer
  <2>1. /\ at(i) \in DOMAIN old /\ txns[i] = old[at(i)]
        /\ at(j) \in DOMAIN old /\ txns[j] = old[at(j)]
    BY <1>1, <1>5
  <2>2. at(i) = at(j)
    BY <2>1 DEF KeysDiffer
  <2> QED
    BY <1>6, <2>2
<1>8. Numbered(old, seq_num) => Numbered(txns, seq_num)
  BY <1>1, <1>3, <1>5 DEF Numbered
<1>9. Len(txns) <= NumTxns
  BY <1>1, <1>2, <1>4
<1> QED
  BY <1>2, <1>7, <1>8, <1>9 DEF TxnsOK, txns

LEMMA TxnsSet ==
  ASSUME NEW ch \in Channel, NEW txns \in Seq(Txn), NEW d, d = [ch EXCEPT !.txns = txns]
  PROVE  /\ d \in Channel /\ d.txns = txns /\ d.pipe = ch.pipe /\ d.ready = ch.ready
         /\ d.playback = ch.playback
BY DEF Channel

-------------------------------------------------------------------------------
(* States: what changes one part of them. *)

States == [a : AppData, o : System]

WithChan(s, f) == [s EXCEPT !.a.chan = f]
WithTable(s, t) == [s EXCEPT !.a.table = t]
WithFrozen(s, f) == [s EXCEPT !.a.frozen = f]
WithFiles(s, n) == [s EXCEPT !.o.files = n]
WithCounts(s, m, n) == [s EXCEPT !.a.cmd = m, !.a.err = n]
WithTxns(s, c, txns) == [s EXCEPT !.a.chan[c].txns = txns]
WithSent(s, c, txns, n) == [s EXCEPT !.a.seq_num = n, !.a.chan[c].txns = txns]
WithPlayback(s, c, b) == [s EXCEPT !.a.chan[c].playback = b]

LEMMA ChanSet ==
  ASSUME NEW s \in States, NEW f \in [Channels -> Channel], NEW r, r = WithChan(s, f)
  PROVE  /\ r \in States /\ r.a.chan = f /\ r.o = s.o /\ r.a.table = s.a.table
         /\ r.a.cmd = s.a.cmd /\ r.a.err = s.a.err /\ r.a.frozen = s.a.frozen
         /\ r.a.enabled = s.a.enabled /\ r.a.seq_num = s.a.seq_num
BY DEF WithChan, States, AppData

LEMMA TableSet ==
  ASSUME NEW s \in States, NEW t \in Table, NEW r, r = WithTable(s, t)
  PROVE  /\ r \in States /\ r.a.chan = s.a.chan /\ r.o = s.o /\ r.a.table = t
         /\ r.a.cmd = s.a.cmd /\ r.a.err = s.a.err /\ r.a.frozen = s.a.frozen
         /\ r.a.enabled = s.a.enabled /\ r.a.seq_num = s.a.seq_num
BY DEF WithTable, States, AppData

LEMMA FrozenSet ==
  ASSUME NEW s \in States, NEW f \in [Channels -> BOOLEAN], NEW r, r = WithFrozen(s, f)
  PROVE  /\ r \in States /\ r.a.chan = s.a.chan /\ r.o = s.o /\ r.a.table = s.a.table
         /\ r.a.cmd = s.a.cmd /\ r.a.err = s.a.err /\ r.a.frozen = f
         /\ r.a.enabled = s.a.enabled /\ r.a.seq_num = s.a.seq_num
BY DEF WithFrozen, States, AppData

LEMMA FilesSet ==
  ASSUME NEW s \in States, NEW n \in 0 .. MaxFiles, NEW r, r = WithFiles(s, n)
  PROVE  r \in States /\ r.a = s.a /\ r.o.pipes = s.o.pipes /\ r.o.files = n
BY DEF WithFiles, States, System

LEMMA CountsSet ==
  ASSUME NEW s \in States, NEW m \in Nat, NEW n \in Nat, NEW r,
         r = WithCounts(s, m, n)
  PROVE  /\ r \in States /\ r.a.chan = s.a.chan /\ r.o = s.o /\ r.a.table = s.a.table
         /\ r.a.cmd = m /\ r.a.err = n /\ r.a.frozen = s.a.frozen
         /\ r.a.enabled = s.a.enabled /\ r.a.seq_num = s.a.seq_num
BY DEF WithCounts, States, AppData

LEMMA CountedStates ==
  ASSUME NEW s \in States
  PROVE  /\ Accepted(s) \in States /\ Rejected(s) \in States
         /\ Accepted(s).o = s.o /\ Accepted(s).a = [s.a EXCEPT !.cmd = s.a.cmd + 1]
         /\ Rejected(s).o = s.o /\ Rejected(s).a = [s.a EXCEPT !.err = s.a.err + 1]
<1>1. s.a.cmd + 1 \in Nat /\ s.a.err + 1 \in Nat
  BY DEF States, AppData
<1> QED
  BY <1>1 DEF Accepted, Rejected, States, AppData

(* The engine's part of a state is the same: so are the invariants on it.  *)
LEMMA SameEngine ==
  ASSUME NEW s, Good(s), NEW r \in States, TableOK(r.a.table), r.o.pipes = s.o.pipes,
         r.a.enabled = s.a.enabled, r.a.seq_num = s.a.seq_num, r.a.chan = s.a.chan
  PROVE  Good(r)
BY DEF Good, States, PipesOK

(* So they are when the transactions of the channels change.               *)
LEMMA SamePipes ==
  ASSUME NEW s, Good(s), NEW r \in States, TableOK(r.a.table), r.o.pipes = s.o.pipes,
         r.a.enabled = s.a.enabled,
         \A c \in Channels : /\ r.a.chan[c].pipe = s.a.chan[c].pipe
                             /\ r.a.chan[c].ready = s.a.chan[c].ready
                             /\ ChannelOK(r.a.chan[c], r.a.seq_num)
  PROVE  Good(r)
BY DEF Good, States, PipesOK

-------------------------------------------------------------------------------
(* Answers to a command. *)

(* Done(s, x): what a handler has done before it counts the command.       *)
Done(s, x) == Good(x) /\ x.a.cmd = s.a.cmd /\ x.a.err = s.a.err

Answer(s, r) == r = Rejected(s) \/ \E x : Done(s, x) /\ r = Accepted(x)

(* One that leaves the table as it is.                                     *)
Answers(s, r) ==
  r = Rejected(s) \/ \E x : Done(s, x) /\ x.a.table = s.a.table /\ r = Accepted(x)

LEMMA CountedGood ==
  ASSUME NEW s, Good(s)
  PROVE  Good(Accepted(s)) /\ Good(Rejected(s))
<1>1. s \in States /\ TableOK(s.a.table)
  BY DEF Good, States
<1> DEFINE x == Accepted(s)
           y == Rejected(s)
<1>2. /\ x \in States /\ y \in States
      /\ x.o = s.o /\ x.a = [s.a EXCEPT !.cmd = s.a.cmd + 1]
      /\ y.o = s.o /\ y.a = [s.a EXCEPT !.err = s.a.err + 1]
  BY <1>1, CountedStates
<1> HIDE DEF x, y
<1>3. /\ x.a.table = s.a.table /\ x.o.pipes = s.o.pipes /\ x.a.enabled = s.a.enabled
      /\ x.a.seq_num = s.a.seq_num /\ x.a.chan = s.a.chan
  BY <1>1, <1>2 DEF States, AppData
<1>4. /\ y.a.table = s.a.table /\ y.o.pipes = s.o.pipes /\ y.a.enabled = s.a.enabled
      /\ y.a.seq_num = s.a.seq_num /\ y.a.chan = s.a.chan
  BY <1>1, <1>2 DEF States, AppData
<1>5. Good(x) /\ Good(y)
  BY <1>1, <1>2, <1>3, <1>4, SameEngine
<1> QED
  BY <1>5 DEF x, y

LEMMA AnswerOK ==
  ASSUME NEW s, Good(s), NEW r, Answer(s, r)
  PROVE  /\ Good(r) /\ r.a.cmd + r.a.err = s.a.cmd + s.a.err + 1
         /\ r.a.err = s.a.err + 1 => r.a = [s.a EXCEPT !.err = s.a.err + 1] /\ r.o = s.o
<1>1. s \in States /\ s.a.cmd \in Nat /\ s.a.err \in Nat /\ s.a \in AppData
  BY DEF Good, States, AppData
<1>2. CASE r = Rejected(s)
  <2>1. r.o = s.o /\ r.a = [s.a EXCEPT !.err = s.a.err + 1]
    BY <1>1, <1>2, CountedStates
  <2>2. r.a.cmd = s.a.cmd /\ r.a.err = s.a.err + 1
    BY <1>1, <2>1 DEF AppData
  <2> QED
    BY <1>1, <1>2, <2>1, <2>2, CountedGood
<1>3. CASE \E x : Done(s, x) /\ r = Accepted(x)
  <2>1. PICK x : Done(s, x) /\ r = Accepted(x)
    BY <1>3
  <2>2. x \in States /\ x.a \in AppData /\ Good(x) /\ x.a.cmd = s.a.cmd /\ x.a.err = s.a.err
    BY <2>1 DEF Done, Good, States
  <2>3. r.a = [x.a EXCEPT !.cmd = x.a.cmd + 1]
    BY <2>1, <2>2, CountedStates
  <2>4. r.a.cmd = s.a.cmd + 1 /\ r.a.err = s.a.err
    BY <2>2, <2>3 DEF AppData
  <2> QED
    BY <1>1, <2>1, <2>2, <2>4, CountedGood
<1> QED
  BY <1>2, <1>3 DEF Answer

LEMMA AnswersOK ==
  ASSUME NEW s, Good(s), NEW r, Answers(s, r)
  PROVE  Answer(s, r) /\ r.a.table = s.a.table
<1>1. Answer(s, r)
  BY DEF Answer, Answers
<1>2. s \in States /\ s.a \in AppData
  BY DEF Good, States
<1>3. CASE r = Rejected(s)
  <2>1. r.a = [s.a EXCEPT !.err = s.a.err + 1]
    BY <1>2, <1>3, CountedStates
  <2> QED
    BY <1>1, <1>2, <2>1 DEF AppData
<1>4. CASE \E x : Done(s, x) /\ x.a.table = s.a.table /\ r = Accepted(x)
  <2>1. PICK x : Done(s, x) /\ x.a.table = s.a.table /\ r = Accepted(x)
    BY <1>4
  <2>2. x \in States /\ x.a \in AppData
    BY <2>1 DEF Done, Good, States
  <2>3. r.a = [x.a EXCEPT !.cmd = x.a.cmd + 1]
    BY <2>1, <2>2, CountedStates
  <2> QED
    BY <1>1, <2>1, <2>2, <2>3 DEF AppData
<1> QED
  BY <1>3, <1>4 DEF Answers

-------------------------------------------------------------------------------
(* What changes one channel. *)

LEMMA OneChannel ==
  ASSUME NEW s, Good(s), NEW c \in Channels, NEW ch \in Channel, NEW r \in States,
         r.a.chan = [s.a.chan EXCEPT ![c] = ch], r.o.pipes = s.o.pipes,
         r.a.enabled = s.a.enabled, r.a.table = s.a.table, r.a.seq_num \in Nat,
         s.a.seq_num <= r.a.seq_num,
         ch.pipe = s.a.chan[c].pipe, ch.ready = s.a.chan[c].ready, TxnsOK(ch.txns, r.a.seq_num)
  PROVE  Good(r) /\ r.a.chan[c] = ch /\ \A d \in Channels \ {c} : r.a.chan[d] = s.a.chan[d]
<1>1. /\ s \in States /\ s.a.chan \in [Channels -> Channel] /\ TableOK(s.a.table)
      /\ s.a.seq_num \in Nat
  BY DEF Good, States, AppData
<1>2. r.a.chan[c] = ch /\ \A d \in Channels \ {c} : r.a.chan[d] = s.a.chan[d]
  BY <1>1
<1>3. ASSUME NEW d \in Channels \ {c} PROVE ChannelOK(s.a.chan[d], r.a.seq_num)
  <2> DEFINE txns == s.a.chan[d].txns
             n == s.a.seq_num
             m == r.a.seq_num
  <2>1. s.a.chan[d] \in Channel /\ TxnsOK(txns, n)
    BY DEF Good, ChannelOK
  <2>2. txns \in Seq(Txn) /\ n \in Nat /\ m \in Nat /\ n <= m
    BY <1>1, <2>1 DEF TxnsOK
  <2> HIDE DEF txns, n, m
  <2>3. \A i \in DOMAIN txns : txns[i].seq \in Nat
    <3> SUFFICES ASSUME NEW i \in DOMAIN txns PROVE txns[i].seq \in Nat
      OBVIOUS
    <3>1. txns[i] \in Txn
      BY <2>2
    <3> QED
      BY <3>1 DEF Txn
  <2>4. Numbered(txns, n) => Numbered(txns, m)
    BY <2>2, <2>3 DEF Numbered
  <2>5. TxnsOK(txns, m)
    BY <2>1, <2>4 DEF TxnsOK
  <2> QED
    BY <2>1, <2>5 DEF ChannelOK, txns, m
<1>4. ASSUME NEW d \in Channels
      PROVE  /\ r.a.chan[d].pipe = s.a.chan[d].pipe /\ r.a.chan[d].ready = s.a.chan[d].ready
             /\ ChannelOK(r.a.chan[d], r.a.seq_num)
  <2>1. CASE d = c
    BY <1>2, <2>1 DEF ChannelOK
  <2>2. CASE d # c
    BY <1>2, <1>3, <2>2
  <2> QED
    BY <2>1, <2>2
<1>5. Good(r)
  BY <1>1, <1>4, SamePipes
<1> QED
  BY <1>2, <1>5

LEMMA TxnsOfSet ==
  ASSUME NEW s \in States, NEW c \in Channels, NEW txns \in Seq(Txn), NEW r,
         r = WithTxns(s, c, txns)
  PROVE  /\ r \in States /\ r.o = s.o /\ r.a.table = s.a.table
         /\ r.a.chan = [s.a.chan EXCEPT ![c] = [s.a.chan[c] EXCEPT !.txns = txns]]
         /\ r.a.cmd = s.a.cmd /\ r.a.err = s.a.err /\ r.a.frozen = s.a.frozen
         /\ r.a.enabled = s.a.enabled /\ r.a.seq_num = s.a.seq_num
<1> DEFINE ch == [s.a.chan[c] EXCEPT !.txns = txns]
           f == [s.a.chan EXCEPT ![c] = ch]
           a == [s.a EXCEPT !.chan = f]
<1>1. s.a \in AppData /\ s.a.chan \in [Channels -> Channel] /\ DOMAIN s = {"a", "o"}
  BY DEF States, AppData
<1>2. ch \in Channel
  BY <1>1 DEF Channel
<1>3. f \in [Channels -> Channel]
  <2> HIDE DEF ch
  <2> QED
    BY <1>1, <1>2
<1>4. r = [s EXCEPT !.a = a]
  BY <1>1 DEF WithTxns, AppData
<1> HIDE DEF ch, f
<1>5. /\ a \in AppData /\ a.chan = f /\ a.table = s.a.table /\ a.cmd = s.a.cmd
      /\ a.err = s.a.err /\ a.frozen = s.a.frozen /\ a.enabled = s.a.enabled
      /\ a.seq_num = s.a.seq_num
  BY <1>1, <1>3 DEF AppData
<1> HIDE DEF a
<1>6. r.a = a /\ r.o = s.o /\ r \in States
  BY <1>1, <1>4, <1>5 DEF States
<1> QED
  BY <1>5, <1>6 DEF f, ch

LEMMA TxnSent ==
  ASSUME NEW s \in States, NEW c \in Channels, NEW txns \in Seq(Txn), NEW n \in Nat, NEW r,
         r = WithSent(s, c, txns, n)
  PROVE  /\ r \in States /\ r.o = s.o /\ r.a.table = s.a.table
         /\ r.a.chan = [s.a.chan EXCEPT ![c] = [s.a.chan[c] EXCEPT !.txns = txns]]
         /\ r.a.cmd = s.a.cmd /\ r.a.err = s.a.err /\ r.a.frozen = s.a.frozen
         /\ r.a.enabled = s.a.enabled /\ r.a.seq_num = n
<1> DEFINE ch == [s.a.chan[c] EXCEPT !.txns = txns]
           f == [s.a.chan EXCEPT ![c] = ch]
           a == [s.a EXCEPT !.seq_num = n, !.chan = f]
<1>1. s.a \in AppData /\ s.a.chan \in [Channels -> Channel] /\ DOMAIN s = {"a", "o"}
  BY DEF States, AppData
<1>2. ch \in Channel
  BY <1>1 DEF Channel
<1>3. f \in [Channels -> Channel]
  <2> HIDE DEF ch
  <2> QED
    BY <1>1, <1>2
<1>4. r = [s EXCEPT !.a = a]
  BY <1>1 DEF WithSent, AppData
<1> HIDE DEF ch, f
<1>5. /\ a \in AppData /\ a.chan = f /\ a.table = s.a.table /\ a.cmd = s.a.cmd
      /\ a.err = s.a.err /\ a.frozen = s.a.frozen /\ a.enabled = s.a.enabled
      /\ a.seq_num = n
  BY <1>1, <1>3 DEF AppData
<1> HIDE DEF a
<1>6. r.a = a /\ r.o = s.o /\ r \in States
  BY <1>1, <1>4, <1>5 DEF States
<1> QED
  BY <1>5, <1>6 DEF f, ch

LEMMA PlaybackSet ==
  ASSUME NEW s \in States, NEW c \in Channels, NEW b \in BOOLEAN, NEW r,
         r = WithPlayback(s, c, b)
  PROVE  /\ r \in States /\ r.o = s.o /\ r.a.table = s.a.table
         /\ r.a.chan = [s.a.chan EXCEPT ![c] = [s.a.chan[c] EXCEPT !.playback = b]]
         /\ r.a.cmd = s.a.cmd /\ r.a.err = s.a.err /\ r.a.frozen = s.a.frozen
         /\ r.a.enabled = s.a.enabled /\ r.a.seq_num = s.a.seq_num
<1> DEFINE ch == [s.a.chan[c] EXCEPT !.playback = b]
           f == [s.a.chan EXCEPT ![c] = ch]
           a == [s.a EXCEPT !.chan = f]
<1>1. s.a \in AppData /\ s.a.chan \in [Channels -> Channel] /\ DOMAIN s = {"a", "o"}
  BY DEF States, AppData
<1>2. ch \in Channel
  BY <1>1 DEF Channel
<1>3. f \in [Channels -> Channel]
  <2> HIDE DEF ch
  <2> QED
    BY <1>1, <1>2
<1>4. r = [s EXCEPT !.a = a]
  BY <1>1 DEF WithPlayback, AppData
<1> HIDE DEF ch, f
<1>5. /\ a \in AppData /\ a.chan = f /\ a.table = s.a.table /\ a.cmd = s.a.cmd
      /\ a.err = s.a.err /\ a.frozen = s.a.frozen /\ a.enabled = s.a.enabled
      /\ a.seq_num = s.a.seq_num
  BY <1>1, <1>3 DEF AppData
<1> HIDE DEF a
<1>6. r.a = a /\ r.o = s.o /\ r \in States
  BY <1>1, <1>4, <1>5 DEF States
<1> QED
  BY <1>5, <1>6 DEF f, ch

(* A new transaction of a channel, sent or received.                       *)
LEMMA NewTxnOK ==
  ASSUME NEW eid \in Nat, NEW seq \in Nat, NEW dir \in {"TX", "RX"}
  PROVE  /\ NewTxn(eid, seq, dir) \in Txn /\ NewTxn(eid, seq, dir).eid = eid
         /\ NewTxn(eid, seq, dir).seq = seq /\ NewTxn(eid, seq, dir).dir = dir
BY DEF NewTxn, Txn

LEMMA GlobalsAreNumbers ==
  ASSUME NEW t, TableOK(t)
  PROVE  \A k \in GlobalParams : t.global[k] \in Nat
BY DEF TableOK, Table

LEMMA ChannelsOf ==
  ASSUME NEW s, Good(s), NEW c \in Channels
  PROVE  /\ s \in States /\ s.a \in AppData /\ s.a.chan[c] \in Channel /\ s.a.seq_num \in Nat
         /\ TxnsOK(s.a.chan[c].txns, s.a.seq_num) /\ s.a.chan[c].txns \in Seq(Txn)
         /\ TableOK(s.a.table)
BY DEF Good, States, AppData, ChannelOK, TxnsOK

LEMMA TxFile_InitiateOK ==
  ASSUME NEW s, Good(s), NEW c \in Channels, HasUnused(s, c), NEW r, r = TxFile_Initiate(s, c)
  PROVE  /\ Done(s, r) /\ r.a.table = s.a.table /\ r.a.frozen = s.a.frozen /\ r.o = s.o
         /\ r.a.seq_num >= s.a.seq_num
         /\ \A d \in Channels \ {c} : r.a.chan[d] = s.a.chan[d]
<1> DEFINE old == s.a.chan[c].txns
           n == s.a.seq_num + 1
           eid == s.a.table.global["local_eid"]
           t == NewTxn(eid, n, "TX")
           txns == Append(old, t)
           ch == [s.a.chan[c] EXCEPT !.txns = txns]
<1>1. /\ s \in States /\ s.a.chan[c] \in Channel /\ s.a.seq_num \in Nat /\ n \in Nat
      /\ TxnsOK(old, s.a.seq_num) /\ old \in Seq(Txn) /\ TableOK(s.a.table)
  BY ChannelsOf
<1>2. eid \in Nat /\ (EntitiesDiffer => eid \notin Peers)
  BY <1>1, GlobalsAreNumbers DEF GlobalParams, TableOK
<1>3. r = WithSent(s, c, txns, n)
  BY Zenon DEF TxFile_Initiate, WithSent
<1>4. s.a.seq_num <= n /\ ~(n <= s.a.seq_num)
  BY <1>1
<1>5. Len(old) < NumTxns
  BY DEF HasUnused
<1> HIDE DEF eid, n, ch
<1>6. t \in Txn /\ t.eid = eid /\ t.seq = n
  <2>1. eid \in Nat /\ n \in Nat
    BY <1>1, <1>2
  <2> QED
    BY <2>1 DEF NewTxn, Txn
<1> HIDE DEF t, old
<1>7. txns \in Seq(Txn)
  BY <1>1, <1>6
<1>8. ASSUME EntitiesDiffer
      PROVE  /\ \A i \in DOMAIN old : ~(old[i].eid = t.eid /\ old[i].seq = t.seq)
             /\ t.eid \in Peers \/ t.seq <= n
  <2>1. Numbered(old, s.a.seq_num)
    BY <1>1, <1>8 DEF TxnsOK
  <2>2. t.seq <= n
    BY <1>1, <1>6
  <2> QED
    BY <1>2, <1>4, <1>6, <1>8, <2>1, <2>2 DEF Numbered
<1>9. TxnsOK(txns, n)
  BY <1>1, <1>4, <1>5, <1>6, <1>8, TxnAppended
<1> HIDE DEF txns
<1>10. /\ r \in States /\ r.o = s.o /\ r.a.table = s.a.table /\ r.a.cmd = s.a.cmd
       /\ r.a.chan = [s.a.chan EXCEPT ![c] = ch]
       /\ r.a.err = s.a.err /\ r.a.frozen = s.a.frozen
       /\ r.a.enabled = s.a.enabled /\ r.a.seq_num = n
  <2>1. s \in States /\ n \in Nat /\ txns \in Seq(Txn)
    BY <1>1, <1>7
  <2> QED
    BY <1>3, <2>1, TxnSent DEF ch
<1>11. /\ ch \in Channel /\ ch.txns = txns /\ ch.pipe = s.a.chan[c].pipe
       /\ ch.ready = s.a.chan[c].ready
  BY <1>1, <1>7, TxnsSet DEF ch
<1>12. Good(r) /\ \A d \in Channels \ {c} : r.a.chan[d] = s.a.chan[d]
  <2>1. /\ s.a.seq_num <= r.a.seq_num /\ TxnsOK(ch.txns, r.a.seq_num)
        /\ r.a.table = s.a.table /\ r.o.pipes = s.o.pipes /\ r.a.seq_num \in Nat
    BY <1>1, <1>4, <1>9, <1>10, <1>11
  <2> QED
    BY <1>10, <1>11, <2>1, OneChannel
<1> QED
  BY <1>1, <1>4, <1>10, <1>12 DEF Done

LEMMA PlaybackGood ==
  ASSUME NEW s, Good(s), NEW c \in Channels, NEW b \in BOOLEAN, NEW r, r = WithPlayback(s, c, b)
  PROVE  /\ Done(s, r) /\ r.a.table = s.a.table /\ r.a.frozen = s.a.frozen /\ r.o = s.o
         /\ r.a.seq_num = s.a.seq_num
         /\ \A d \in Channels \ {c} : r.a.chan[d] = s.a.chan[d]
<1> DEFINE ch == [s.a.chan[c] EXCEPT !.playback = b]
<1>1. /\ s \in States /\ s.a.chan[c] \in Channel /\ s.a.seq_num \in Nat
      /\ TxnsOK(s.a.chan[c].txns, s.a.seq_num)
  BY ChannelsOf
<1>2. /\ r \in States /\ r.o = s.o /\ r.a.table = s.a.table
      /\ r.a.chan = [s.a.chan EXCEPT ![c] = ch]
      /\ r.a.cmd = s.a.cmd /\ r.a.err = s.a.err /\ r.a.frozen = s.a.frozen
      /\ r.a.enabled = s.a.enabled /\ r.a.seq_num = s.a.seq_num
  BY <1>1, PlaybackSet
<1>3. /\ ch \in Channel /\ ch.txns = s.a.chan[c].txns /\ ch.pipe = s.a.chan[c].pipe
      /\ ch.ready = s.a.chan[c].ready
  BY <1>1 DEF Channel
<1> HIDE DEF ch
<1>4. r.a.seq_num \in Nat /\ s.a.seq_num <= r.a.seq_num
  BY <1>1, <1>2
<1>5. TxnsOK(ch.txns, r.a.seq_num)
  BY <1>1, <1>2, <1>3
<1>6. Good(r) /\ \A d \in Channels \ {c} : r.a.chan[d] = s.a.chan[d]
  BY <1>2, <1>3, <1>4, <1>5, OneChannel
<1> QED
  BY <1>2, <1>6 DEF Done

(* Transactions change on all channels, but not their keys.                *)
LEMMA ChannelsChange ==
  ASSUME NEW s, Good(s), NEW f \in [Channels -> Channel], NEW r, r = WithChan(s, f),
         \A c \in Channels :
           /\ f[c].pipe = s.a.chan[c].pipe /\ f[c].ready = s.a.chan[c].ready
           /\ TxnsOK(f[c].txns, s.a.seq_num)
  PROVE  Done(s, r) /\ r.a.table = s.a.table /\ r.a.chan = f /\ r.o = s.o
<1>1. s \in States /\ TableOK(s.a.table)
  BY DEF Good, States
<1>2. /\ r \in States /\ r.a.chan = f /\ r.o = s.o /\ r.a.table = s.a.table
      /\ r.a.cmd = s.a.cmd /\ r.a.err = s.a.err
      /\ r.a.enabled = s.a.enabled /\ r.a.seq_num = s.a.seq_num
  BY <1>1, ChanSet
<1>3. \A c \in Channels : /\ r.a.chan[c].pipe = s.a.chan[c].pipe
                          /\ r.a.chan[c].ready = s.a.chan[c].ready
                          /\ ChannelOK(r.a.chan[c], r.a.seq_num)
  BY <1>2 DEF ChannelOK
<1>4. Good(r)
  BY <1>1, <1>2, <1>3, SamePipes
<1> QED
  BY <1>2, <1>4 DEF Done

Changed(s, new) == [c \in Channels |-> [s.a.chan[c] EXCEPT !.txns = new[c]]]

LEMMA ChannelTxns ==
  ASSUME NEW s, Good(s), NEW new,
         \A c \in Channels : new[c] \in [DOMAIN s.a.chan[c].txns -> Txn],
         \A c \in Channels : \A i \in DOMAIN s.a.chan[c].txns :
           new[c][i].eid = s.a.chan[c].txns[i].eid /\ new[c][i].seq = s.a.chan[c].txns[i].seq,
         NEW f, f = Changed(s, new)
  PROVE  /\ f \in [Channels -> Channel]
         /\ \A c \in Channels :
              /\ f[c].pipe = s.a.chan[c].pipe /\ f[c].ready = s.a.chan[c].ready
              /\ f[c].txns = new[c] /\ TxnsOK(f[c].txns, s.a.seq_num)
              /\ f[c].playback = s.a.chan[c].playback
<1>1. ASSUME NEW c \in Channels
      PROVE  /\ f[c] \in Channel /\ f[c].txns = new[c] /\ TxnsOK(f[c].txns, s.a.seq_num)
             /\ f[c].pipe = s.a.chan[c].pipe /\ f[c].ready = s.a.chan[c].ready
             /\ f[c].playback = s.a.chan[c].playback
  <2> DEFINE ch == s.a.chan[c]
             txns == new[c]
             old == ch.txns
             d == [ch EXCEPT !.txns = txns]
  <2>1. ch \in Channel /\ s.a.seq_num \in Nat /\ TxnsOK(old, s.a.seq_num)
    BY ChannelsOf
  <2>2. /\ txns \in [DOMAIN old -> Txn]
        /\ \A i \in DOMAIN old : txns[i].eid = old[i].eid /\ txns[i].seq = old[i].seq
    OBVIOUS
  <2>3. f[c] = d
    BY DEF Changed
  <2> HIDE DEF old, txns
  <2>4. TxnsOK(txns, s.a.seq_num)
    BY <2>1, <2>2, TxnsChange
  <2>5. txns \in Seq(Txn)
    BY <2>4 DEF TxnsOK
  <2> HIDE DEF ch
  <2>6. /\ d \in Channel /\ d.txns = txns /\ d.pipe = ch.pipe /\ d.ready = ch.ready
        /\ d.playback = ch.playback
    BY <2>1, <2>5, TxnsSet
  <2> HIDE DEF d
  <2> QED
    BY <2>3, <2>4, <2>6 DEF txns, ch
<1>2. f \in [Channels -> Channel]
  BY <1>1 DEF Changed
<1> QED
  BY <1>1, <1>2

-------------------------------------------------------------------------------
(* Commands on transactions. *)

(* The transactions that a command is about, and all of them.              *)
Chosen(s, data) ==
  IF data.chan = CompoundKey THEN FindAllChannels(s.a, data.eid, data.ts)
  ELSE IF data.chan = All THEN On(s.a, Channels)
  ELSE On(s.a, {data.chan} \cap Channels)

KeepsKeys(fn) ==
  fn \in [Txn -> Txn] /\ \A t \in Txn : fn[t].eid = t.eid /\ fn[t].seq = t.seq

LEMMA TsnChanActionOK ==
  ASSUME NEW s, Good(s), NEW data, NEW fn, KeepsKeys(fn), NEW r, r = TsnChanAction(s, data, fn)
  PROVE  /\ Answers(s, r)
         /\ r = Rejected(s)
              \/ \A c \in Channels : \A i \in DOMAIN s.a.chan[c].txns :
                   <<c, i>> \notin Chosen(s, data) => r.a.chan[c].txns[i] = s.a.chan[c].txns[i]
<1> DEFINE chosen == Chosen(s, data)
           Old(c) == s.a.chan[c].txns
           New(c, i) == IF <<c, i>> \in chosen THEN fn[Old(c)[i]] ELSE Old(c)[i]
           new == [c \in Channels |-> [i \in DOMAIN Old(c) |-> New(c, i)]]
           f == [c \in Channels |-> [s.a.chan[c] EXCEPT !.txns = new[c]]]
           x == WithChan(s, f)
<1>1. r = Rejected(s) \/ r = Accepted(x)
  <2>1. f = [c \in Channels |->
               [s.a.chan[c] EXCEPT !.txns = [i \in DOMAIN Old(c) |-> New(c, i)]]]
    OBVIOUS
  <2> HIDE DEF f
  <2>2. CASE chosen = {}
    BY <2>2 DEF TsnChanAction, Chosen
  <2>3. CASE chosen # {}
    <3>1. r = Accepted([s EXCEPT !.a.chan = f])
      BY <2>1, <2>3, Zenon DEF TsnChanAction, Chosen
    <3> QED
      BY <3>1 DEF WithChan
  <2> QED
    BY <2>2, <2>3
<1> HIDE DEF chosen
<1>2. ASSUME NEW c \in Channels
      PROVE  /\ new[c] \in [DOMAIN Old(c) -> Txn]
             /\ \A i \in DOMAIN Old(c) :
                  /\ new[c][i].eid = Old(c)[i].eid /\ new[c][i].seq = Old(c)[i].seq
                  /\ <<c, i>> \notin chosen => new[c][i] = Old(c)[i]
  <2>1. Old(c) \in Seq(Txn)
    BY ChannelsOf
  <2> DEFINE old == Old(c)
  <2>2. new[c] = [i \in DOMAIN old |-> New(c, i)]
    OBVIOUS
  <2>3. ASSUME NEW i \in DOMAIN old
        PROVE  /\ New(c, i) \in Txn
               /\ New(c, i).eid = old[i].eid /\ New(c, i).seq = old[i].seq
               /\ <<c, i>> \notin chosen => New(c, i) = old[i]
    <3>1. old[i] \in Txn
      BY <2>1
    <3>2. fn[old[i]] \in Txn /\ fn[old[i]].eid = old[i].eid /\ fn[old[i]].seq = old[i].seq
      BY <3>1 DEF KeepsKeys
    <3> HIDE DEF old
    <3> QED
      BY <3>1, <3>2 DEF old
  <2> HIDE DEF new, New, old
  <2> QED
    BY <2>2, <2>3 DEF old
<1> HIDE DEF new
<1>3. /\ f \in [Channels -> Channel]
      /\ \A c \in Channels :
           /\ f[c].pipe = s.a.chan[c].pipe /\ f[c].ready = s.a.chan[c].ready
           /\ f[c].txns = new[c] /\ TxnsOK(f[c].txns, s.a.seq_num)
  <2>1. \A c \in Channels : new[c] \in [DOMAIN s.a.chan[c].txns -> Txn]
    BY <1>2
  <2>2. \A c \in Channels : \A i \in DOMAIN s.a.chan[c].txns :
          new[c][i].eid = s.a.chan[c].txns[i].eid /\ new[c][i].seq = s.a.chan[c].txns[i].seq
    BY <1>2
  <2>3. f = Changed(s, new)
    BY DEF Changed
  <2> HIDE DEF f
  <2> QED
    BY <2>1, <2>2, <2>3, ChannelTxns
<1> HIDE DEF f
<1>4. Done(s, x) /\ x.a.table = s.a.table /\ x.a.chan = f
  BY <1>3, ChannelsChange
<1> HIDE DEF x
<1>5. Answers(s, r)
  BY <1>1, <1>4 DEF Answers
<1>6. CASE r = Accepted(x)
  <2>1. x \in States /\ x.a \in AppData
    BY <1>4 DEF Done, Good, States
  <2>2. r.a.chan = f
    <3>1. r.a = [x.a EXCEPT !.cmd = x.a.cmd + 1]
      BY <1>6, <2>1, CountedStates
    <3> QED
      BY <1>4, <2>1, <3>1 DEF AppData
  <2> QED
    BY <1>2, <1>3, <1>5, <2>2 DEF chosen
<1> QED
  BY <1>1, <1>5, <1>6

LEMMA TxnHandlersKeepKeys ==
  ASSUME NEW action \in BOOLEAN
  PROVE  /\ KeepsKeys([t \in Txn |-> [t EXCEPT !.suspended = action]])
         /\ KeepsKeys([t \in Txn |-> [t EXCEPT !.canceled = TRUE]])
         /\ KeepsKeys([t \in Txn |-> FinishTransaction(t)])
<1>1. ASSUME NEW t \in Txn
      PROVE  /\ [t EXCEPT !.suspended = action] \in Txn
             /\ [t EXCEPT !.canceled = TRUE] \in Txn /\ FinishTransaction(t) \in Txn
             /\ [t EXCEPT !.suspended = action].eid = t.eid
             /\ [t EXCEPT !.suspended = action].seq = t.seq
             /\ [t EXCEPT !.canceled = TRUE].eid = t.eid
             /\ [t EXCEPT !.canceled = TRUE].seq = t.seq
             /\ FinishTransaction(t).eid = t.eid /\ FinishTransaction(t).seq = t.seq
  BY DEF Txn, FinishTransaction
<1> DEFINE f == [t \in Txn |-> [t EXCEPT !.suspended = action]]
           g == [t \in Txn |-> [t EXCEPT !.canceled = TRUE]]
           h == [t \in Txn |-> FinishTransaction(t)]
<1>2. KeepsKeys(f)
  BY <1>1 DEF KeepsKeys
<1>3. KeepsKeys(g)
  BY <1>1 DEF KeepsKeys
<1>4. KeepsKeys(h)
  BY <1>1 DEF KeepsKeys
<1> QED
  BY <1>2, <1>3, <1>4

LEMMA PurgeQueueCmdOK ==
  ASSUME NEW s, Good(s), NEW chan_num, NEW which, NEW r, r = PurgeQueueCmd(s, chan_num, which)
  PROVE  Answers(s, r)
<1> DEFINE chosen == DoChanAction(chan_num)
           Old(c) == s.a.chan[c].txns
           Purged(c, t) == IF c \in chosen /\ which \in {0, 2} /\ t.state = "PEND"
                             THEN FinishTransaction(t) ELSE t
           new == [c \in Channels |-> [i \in DOMAIN Old(c) |-> Purged(c, Old(c)[i])]]
           f == Changed(s, new)
           x == WithChan(s, f)
<1>1. r = Rejected(s) \/ r = Accepted(x)
  <2>1. f = [c \in Channels |->
               [s.a.chan[c] EXCEPT !.txns = [i \in DOMAIN Old(c) |-> Purged(c, Old(c)[i])]]]
    BY DEF Changed
  <2> HIDE DEF f
  <2>2. CASE chosen = {} \/ which \notin 0 .. 2
    BY <2>2, Zenon DEF PurgeQueueCmd
  <2>3. CASE ~(chosen = {} \/ which \notin 0 .. 2)
    <3>1. r = Accepted([s EXCEPT !.a.chan = f])
      BY <2>1, <2>3, Zenon DEF PurgeQueueCmd
    <3> QED
      BY <3>1 DEF WithChan
  <2> QED
    BY <2>2, <2>3
<1> HIDE DEF chosen
<1>2. ASSUME NEW c \in Channels
      PROVE  /\ new[c] \in [DOMAIN Old(c) -> Txn]
             /\ \A i \in DOMAIN Old(c) :
                  new[c][i].eid = Old(c)[i].eid /\ new[c][i].seq = Old(c)[i].seq
  <2>1. Old(c) \in Seq(Txn)
    BY ChannelsOf
  <2> DEFINE old == Old(c)
  <2>2. new[c] = [i \in DOMAIN old |-> Purged(c, old[i])]
    OBVIOUS
  <2>3. ASSUME NEW t \in Txn
        PROVE  Purged(c, t) \in Txn /\ Purged(c, t).eid = t.eid /\ Purged(c, t).seq = t.seq
    <3>1. /\ FinishTransaction(t) \in Txn /\ FinishTransaction(t).eid = t.eid
          /\ FinishTransaction(t).seq = t.seq
      BY DEF FinishTransaction, Txn
    <3> QED
      BY <3>1
  <2> HIDE DEF new, Purged, old
  <2>4. \A i \in DOMAIN old : old[i] \in Txn
    BY <2>1 DEF old
  <2> QED
    BY <2>2, <2>3, <2>4 DEF old
<1> HIDE DEF new
<1>3. /\ f \in [Channels -> Channel]
      /\ \A c \in Channels :
           /\ f[c].pipe = s.a.chan[c].pipe /\ f[c].ready = s.a.chan[c].ready
           /\ f[c].txns = new[c] /\ TxnsOK(f[c].txns, s.a.seq_num)
  <2>1. \A c \in Channels : new[c] \in [DOMAIN s.a.chan[c].txns -> Txn]
    BY <1>2
  <2>2. \A c \in Channels : \A i \in DOMAIN s.a.chan[c].txns :
          new[c][i].eid = s.a.chan[c].txns[i].eid /\ new[c][i].seq = s.a.chan[c].txns[i].seq
    BY <1>2
  <2> QED
    BY <2>1, <2>2, ChannelTxns
<1> HIDE DEF f
<1>4. Done(s, x) /\ x.a.table = s.a.table
  BY <1>3, ChannelsChange
<1> HIDE DEF x
<1> QED
  BY <1>1, <1>4 DEF Answers

-------------------------------------------------------------------------------
(* Commands on channels and on the table. *)

LEMMA FreezeThawOK ==
  ASSUME NEW s, Good(s), NEW chan_num, NEW barg \in BOOLEAN, NEW r,
         r = FreezeThaw(s, chan_num, barg)
  PROVE  Answers(s, r)
<1> DEFINE chosen == DoChanAction(chan_num)
           f == [c \in Channels |-> IF c \in chosen THEN barg ELSE s.a.frozen[c]]
           x == WithFrozen(s, f)
<1>1. r = Rejected(s) \/ r = Accepted(x)
  <2>1. CASE chosen = {}
    BY <2>1, Zenon DEF FreezeThaw
  <2>2. CASE chosen # {}
    <3>1. r = Accepted([s EXCEPT !.a.frozen = f])
      BY <2>2, Zenon DEF FreezeThaw
    <3> QED
      BY <3>1, Zenon DEF WithFrozen
  <2> QED
    BY <2>1, <2>2
<1> HIDE DEF chosen
<1>2. s \in States /\ s.a \in AppData /\ TableOK(s.a.table)
  BY DEF Good, States
<1>3. f \in [Channels -> BOOLEAN]
  BY <1>2, Zenon DEF AppData
<1> HIDE DEF f
<1>4. /\ x \in States /\ x.a.chan = s.a.chan /\ x.o = s.o /\ x.a.table = s.a.table
      /\ x.a.cmd = s.a.cmd /\ x.a.err = s.a.err
      /\ x.a.enabled = s.a.enabled /\ x.a.seq_num = s.a.seq_num
  BY <1>2, <1>3, FrozenSet
<1> HIDE DEF x
<1>5. Good(x)
  BY <1>2, <1>4, SameEngine
<1> QED
  BY <1>1, <1>4, <1>5 DEF Answers, Done

LEMMA TableChange ==
  ASSUME NEW s, Good(s), NEW t, TableOK(t), NEW r, r = WithTable(s, t)
  PROVE  Done(s, r) /\ r.a.table = t
<1>1. s \in States /\ s.a \in AppData /\ t \in Table
  BY DEF Good, States, TableOK
<1>2. /\ r \in States /\ r.a.chan = s.a.chan /\ r.o = s.o /\ r.a.table = t
      /\ r.a.cmd = s.a.cmd /\ r.a.err = s.a.err
      /\ r.a.enabled = s.a.enabled /\ r.a.seq_num = s.a.seq_num
  BY <1>1, TableSet
<1>3. Good(r)
  BY <1>1, <1>2, SameEngine
<1> QED
  BY <1>2, <1>3 DEF Done

(* The switches of the channels.                                           *)
LEMMA SwitchesChange ==
  ASSUME NEW s, Good(s), NEW f \in [Channels -> ChannelTable],
         \A c \in Channels : f[c].param = s.a.table.chan[c].param,
         NEW r, r = [s EXCEPT !.a.table.chan = f]
  PROVE  Done(s, r)
<1> DEFINE t == [s.a.table EXCEPT !.chan = f]
<1>1. s \in States /\ s.a \in AppData /\ s.a.table \in Table /\ TableOK(s.a.table)
  BY DEF Good, States, TableOK
<1>2. r = WithTable(s, t)
  BY <1>1, Zenon DEF WithTable
<1>3. t \in Table /\ t.global = s.a.table.global /\ t.chan = f
  BY <1>1 DEF Table
<1> HIDE DEF t
<1>4. TableOK(t)
  BY <1>1, <1>3 DEF TableOK
<1> QED
  BY <1>2, <1>4, TableChange

LEMMA EnableDisableDequeueOK ==
  ASSUME NEW s, Good(s), NEW chan_num, NEW barg \in BOOLEAN, NEW r,
         r = EnableDisableDequeue(s, chan_num, barg)
  PROVE  Answer(s, r)
<1> DEFINE chosen == DoChanAction(chan_num)
           Chan(c) == [s.a.table.chan[c] EXCEPT !.dequeue_enabled = IF c \in chosen THEN barg ELSE @]
           f == [c \in Channels |-> Chan(c)]
           x == [s EXCEPT !.a.table.chan = f]
<1>1. r = Rejected(s) \/ r = Accepted(x)
  <2>1. CASE chosen = {}
    BY <2>1, Zenon DEF EnableDisableDequeue
  <2>2. CASE chosen # {}
    BY <2>2, Zenon DEF EnableDisableDequeue
  <2> QED
    BY <2>1, <2>2
<1> HIDE DEF chosen
<1>2. s \in States /\ s.a \in AppData /\ s.a.table \in Table
  BY DEF Good, States, TableOK
<1>3. ASSUME NEW c \in Channels
      PROVE  Chan(c) \in ChannelTable /\ Chan(c).param = s.a.table.chan[c].param
  <2> DEFINE b == IF c \in chosen THEN barg ELSE s.a.table.chan[c].dequeue_enabled
  <2>1. s.a.table.chan[c] \in ChannelTable
    BY <1>2 DEF Table
  <2>2. b \in BOOLEAN
    BY <2>1, Zenon DEF ChannelTable
  <2> HIDE DEF b
  <2>3. Chan(c) = [s.a.table.chan[c] EXCEPT !.dequeue_enabled = b]
    BY Zenon DEF b
  <2> HIDE DEF Chan
  <2> QED
    BY <2>1, <2>2, <2>3 DEF ChannelTable
<1> HIDE DEF Chan
<1>4. f \in [Channels -> ChannelTable] /\ \A c \in Channels : f[c].param = s.a.table.chan[c].param
  BY <1>3
<1> HIDE DEF f
<1>5. Done(s, x)
  BY <1>4, SwitchesChange
<1> QED
  BY <1>1, <1>5 DEF Answer

LEMMA EnableDisablePolldirOK ==
  ASSUME NEW s, Good(s), NEW chan_num, NEW polldir, NEW barg \in BOOLEAN, NEW r,
         r = EnableDisablePolldir(s, chan_num, polldir, barg)
  PROVE  Answer(s, r)
<1> DEFINE chosen == DoChanAction(chan_num)
                       \X (IF polldir = All THEN Polldirs ELSE {polldir} \cap Polldirs)
           Polldir(c, d) == IF <<c, d>> \in chosen THEN barg ELSE s.a.table.chan[c].polldir[d]
           dirs(c) == [d \in Polldirs |-> Polldir(c, d)]
           f == [c \in Channels |-> [s.a.table.chan[c] EXCEPT !.polldir = dirs(c)]]
           x == [s EXCEPT !.a.table.chan = f]
<1>1. r = Rejected(s) \/ r = Accepted(x)
  <2>1. CASE chosen = {}
    BY <2>1, Zenon DEF EnableDisablePolldir
  <2>2. CASE chosen # {}
    BY <2>2, Zenon DEF EnableDisablePolldir
  <2> QED
    BY <2>1, <2>2
<1> HIDE DEF chosen
<1>2. s \in States /\ s.a \in AppData /\ s.a.table \in Table
  BY DEF Good, States, TableOK
<1>3. ASSUME NEW c \in Channels
      PROVE  /\ s.a.table.chan[c] \in ChannelTable /\ dirs(c) \in [Polldirs -> BOOLEAN]
  <2>1. s.a.table.chan[c] \in ChannelTable
    BY <1>2 DEF Table
  <2>2. s.a.table.chan[c].polldir \in [Polldirs -> BOOLEAN]
    BY <2>1 DEF ChannelTable
  <2>3. ASSUME NEW d \in Polldirs PROVE Polldir(c, d) \in BOOLEAN
    BY <2>2, Zenon
  <2> HIDE DEF Polldir
  <2> QED
    BY <2>1, <2>3, Zenon
<1> HIDE DEF dirs
<1>4. ASSUME NEW c \in Channels
      PROVE  f[c] \in ChannelTable /\ f[c].param = s.a.table.chan[c].param
  BY <1>3 DEF ChannelTable
<1>5. f \in [Channels -> ChannelTable] /\ \A c \in Channels : f[c].param = s.a.table.chan[c].param
  BY <1>4
<1> HIDE DEF f
<1>6. Done(s, x)
  BY <1>5, SwitchesChange
<1> QED
  BY <1>1, <1>6 DEF Answer

-------------------------------------------------------------------------------
(* Commands on parameters. *)

Params == GlobalParams \cup ChannelParams

LEMMA ModulusIsNumber ==
  ASSUME NEW key
  PROVE  Modulus(key) \in Nat /\ Modulus(key) > 0
<1>1. WordModulus \in Nat /\ WordModulus > 0
  BY NumbersAssumption
<1> QED
  BY <1>1 DEF Modulus

LEMMA Remainder ==
  ASSUME NEW v \in Nat, NEW m \in Nat, m > 0
  PROVE  v % m \in 0 .. m - 1 /\ (v < m => v % m = v)
OBVIOUS

LEMMA GlobalSet ==
  ASSUME NEW t \in Table, TableOK(t), NEW key \in GlobalParams, NEW v \in Nat,
         v \in 0 .. Modulus(key) - 1, key = "outgoing_file_chunk_size" => v <= ChunkLimit,
         EntitiesDiffer /\ key = "local_eid" => v \notin Peers
  PROVE  TableOK([t EXCEPT !.global[key] = v])
<1> DEFINE g == [t.global EXCEPT ![key] = v]
           u == [t EXCEPT !.global[key] = v]
<1>1. t.global \in [GlobalParams -> Nat] /\ t.chan \in [Channels -> ChannelTable]
  BY DEF Table
<1>2. g \in [GlobalParams -> Nat] /\ g[key] = v
      /\ \A k \in GlobalParams \ {key} : g[k] = t.global[k]
  BY <1>1
<1>3. u = [t EXCEPT !.global = g]
  BY DEF Table
<1> HIDE DEF g
<1>4. u \in Table /\ u.global = g /\ u.chan = t.chan
  BY <1>2, <1>3 DEF Table
<1> HIDE DEF u
<1>5. \A k \in GlobalParams : u.global[k] \in 0 .. Modulus(k) - 1
  BY <1>2, <1>4 DEF TableOK
<1>6. u.global["outgoing_file_chunk_size"] <= ChunkLimit
  BY <1>2, <1>4 DEF TableOK, GlobalParams
<1>7. EntitiesDiffer => u.global["local_eid"] \notin Peers
  BY <1>2, <1>4 DEF TableOK, GlobalParams
<1>8. TableOK(u)
  BY <1>4, <1>5, <1>6, <1>7 DEF TableOK
<1> QED
  BY <1>8 DEF u

LEMMA SetParamOK ==
  ASSUME NEW s, Good(s), NEW key \in Params, NEW chan_num \in Channels, NEW value \in ParamValues,
         ValidParam(s.a, key, value, chan_num), NEW v, v = value % Modulus(key)
  PROVE  /\ key \in GlobalParams => TableOK([s.a.table EXCEPT !.global[key] = v])
         /\ key \in ChannelParams => TableOK([s.a.table EXCEPT !.chan[chan_num].param[key] = v])
<1> DEFINE t == s.a.table
<1>1. t \in Table /\ TableOK(t)
  BY DEF Good, TableOK
<1>2. value \in Nat /\ v \in 0 .. Modulus(key) - 1 /\ v \in Nat
  <2>1. value \in Nat
    BY ValuesAssumption
  <2> QED
    BY <2>1, ModulusIsNumber, Remainder
<1>3. key = "outgoing_file_chunk_size" => v <= ChunkLimit
  <2> SUFFICES ASSUME key = "outgoing_file_chunk_size" PROVE v <= ChunkLimit
    OBVIOUS
  <2>1. value <= ChunkLimit
    BY Zenon DEF ValidParam
  <2>2. Modulus(key) = 65536
    <3>1. key \notin {"ack_limit", "nak_limit"}
      OBVIOUS
    <3> QED
      BY <3>1 DEF Modulus
  <2>3. ChunkLimit \in Nat /\ ChunkLimit <= 65535
    BY NumbersAssumption
  <2> QED
    BY <1>2, <2>1, <2>2, <2>3
<1>4. EntitiesDiffer /\ key = "local_eid" => v \notin Peers
  BY DEF EntitiesDiffer
<1> HIDE DEF t
<1>5. ASSUME key \in GlobalParams PROVE TableOK([t EXCEPT !.global[key] = v])
  BY <1>1, <1>2, <1>3, <1>4, <1>5, GlobalSet
<1>6. ASSUME key \in ChannelParams
      PROVE  TableOK([t EXCEPT !.chan[chan_num].param[key] = v])
  <2> DEFINE old == t.chan[chan_num]
             p == [old.param EXCEPT ![key] = v]
             new == [old EXCEPT !.param = p]
             f == [t.chan EXCEPT ![chan_num] = new]
             u == [t EXCEPT !.chan[chan_num].param[key] = v]
  <2>1. t.global \in [GlobalParams -> Nat] /\ t.chan \in [Channels -> ChannelTable]
    BY <1>1 DEF Table
  <2>2. old \in ChannelTable /\ old.param \in [ChannelParams -> Nat]
    BY <2>1 DEF ChannelTable
  <2>3. p \in [ChannelParams -> Nat] /\ p[key] = v
        /\ \A k \in ChannelParams \ {key} : p[k] = old.param[k]
    BY <1>2, <1>6, <2>2
  <2>4. u = [t EXCEPT !.chan = f]
    BY <1>1 DEF Table
  <2> HIDE DEF p
  <2>5. new \in ChannelTable /\ new.param = p
    BY <2>2, <2>3 DEF ChannelTable
  <2> HIDE DEF new
  <2>6. f \in [Channels -> ChannelTable] /\ f[chan_num] = new
        /\ \A c \in Channels \ {chan_num} : f[c] = t.chan[c]
    BY <2>1, <2>5
  <2> HIDE DEF f
  <2>7. u \in Table /\ u.global = t.global /\ u.chan = f
    BY <1>1, <2>4, <2>6 DEF Table
  <2> HIDE DEF u
  <2>8. ASSUME NEW c \in Channels, NEW k \in ChannelParams
        PROVE  u.chan[c].param[k] \in 0 .. Modulus(k) - 1
    <3>1. t.chan[c].param[k] \in 0 .. Modulus(k) - 1
      BY <1>1 DEF TableOK
    <3>2. CASE c # chan_num
      BY <2>6, <2>7, <3>1, <3>2
    <3>3. CASE c = chan_num /\ k # key
      BY <2>3, <2>5, <2>6, <2>7, <3>1, <3>3 DEF old
    <3>4. CASE c = chan_num /\ k = key
      BY <1>2, <2>3, <2>5, <2>6, <2>7, <3>4
    <3> QED
      BY <3>2, <3>3, <3>4
  <2>9. TableOK(u)
    BY <1>1, <2>7, <2>8 DEF TableOK
  <2> QED
    BY <2>9 DEF u
<1> QED
  BY <1>5, <1>6 DEF t

LEMMA SetParamCmdOK ==
  ASSUME NEW s, Good(s), NEW key \in Params \cup {"invalid"}, NEW value \in ParamValues,
         NEW chan_num \in Channels \cup {NumChannels}, NEW r,
         r = SetParamCmd(s, key, value, chan_num)
  PROVE  Answer(s, r)
<1> DEFINE v == value % Modulus(key)
           t == [s.a.table EXCEPT !.global[key] = v]
           u == [s.a.table EXCEPT !.chan[chan_num].param[key] = v]
<1>1. s \in States /\ s.a \in AppData /\ s.a.table \in Table
  BY DEF Good, States, TableOK
<1>2. chan_num >= NumChannels \/ chan_num \in Channels
  BY NumbersAssumption DEF Channels
<1>3. CASE key = "invalid" \/ chan_num >= NumChannels \/ ~ValidParam(s.a, key, value, chan_num)
  <2>1. r = Rejected(s)
    BY <1>3, Zenon DEF SetParamCmd
  <2> QED
    BY <2>1 DEF Answer
<1>4. CASE ~(key = "invalid" \/ chan_num >= NumChannels \/ ~ValidParam(s.a, key, value, chan_num))
  <2>1. key \in Params /\ chan_num \in Channels /\ ValidParam(s.a, key, value, chan_num)
    BY <1>2, <1>4, Zenon
  <2>2. /\ key \in GlobalParams => TableOK(t)
        /\ key \in ChannelParams => TableOK(u)
    BY <2>1, SetParamOK, Zenon
  <2>3. CASE key \in GlobalParams
    <3>1. r = Accepted([s EXCEPT !.a.table.global[key] = v])
      BY <1>4, <2>3, Zenon DEF SetParamCmd
    <3>2. [s EXCEPT !.a.table.global[key] = v] = WithTable(s, t)
      BY Zenon DEF WithTable
    <3> HIDE DEF t
    <3>3. Done(s, WithTable(s, t))
      BY <2>2, <2>3, TableChange, Zenon
    <3> QED
      BY <3>1, <3>2, <3>3, Zenon DEF Answer
  <2>4. CASE key \notin GlobalParams
    <3>1. r = Accepted([s EXCEPT !.a.table.chan[chan_num].param[key] = v])
      BY <1>4, <2>4, Zenon DEF SetParamCmd
    <3>2. [s EXCEPT !.a.table.chan[chan_num].param[key] = v] = WithTable(s, u)
      BY Zenon DEF WithTable
    <3>3. key \in ChannelParams
      BY <2>1, <2>4, Zenon DEF Params
    <3> HIDE DEF u
    <3>4. Done(s, WithTable(s, u))
      BY <2>2, <3>3, TableChange, Zenon
    <3> QED
      BY <3>1, <3>2, <3>4, Zenon DEF Answer
  <2> QED
    BY <2>3, <2>4
<1> QED
  BY <1>3, <1>4

-------------------------------------------------------------------------------
(* Commands that change little. *)

LEMMA Unchanged ==
  ASSUME NEW s, Good(s)
  PROVE  Answers(s, Accepted(s)) /\ Answers(s, Rejected(s))
BY DEF Answers, Done

LEMMA GetParamCmdOK ==
  ASSUME NEW s, Good(s), NEW key, NEW chan_num
  PROVE  Answers(s, GetParamCmd(s, key, chan_num))
BY Unchanged DEF GetParamCmd

LEMMA TxFileArguments ==
  ASSUME NEW tx \in TxFiles, ~BadParam(tx)
  PROVE  tx.chan_num \in Channels
<1>1. tx.chan_num \in Channels \cup {NumChannels} /\ ~(tx.chan_num >= NumChannels)
  BY DEF TxFiles, BadParam
<1> QED
  BY <1>1, NumbersAssumption

LEMMA TxFileCmdOK ==
  ASSUME NEW s, Good(s), NEW tx \in TxFiles
  PROVE  Answers(s, TxFileCmd(s, tx))
<1>1. CASE BadParam(tx) \/ ~HasUnused(s, tx.chan_num)
  BY <1>1, Unchanged DEF TxFileCmd
<1>2. CASE ~(BadParam(tx) \/ ~HasUnused(s, tx.chan_num))
  <2> DEFINE x == TxFile_Initiate(s, tx.chan_num)
  <2>1. tx.chan_num \in Channels /\ HasUnused(s, tx.chan_num)
    BY <1>2, TxFileArguments
  <2>2. Done(s, x) /\ x.a.table = s.a.table
    BY <2>1, TxFile_InitiateOK
  <2> HIDE DEF x
  <2>3. TxFileCmd(s, tx) = Accepted(x)
    BY <1>2 DEF TxFileCmd, x
  <2> QED
    BY <2>2, <2>3 DEF Answers
<1> QED
  BY <1>1, <1>2

LEMMA PlaybackDirCmdOK ==
  ASSUME NEW s, Good(s), NEW tx \in TxFiles, NEW r \in PlaybackDirCmd(s, tx)
  PROVE  Answers(s, r)
<1>1. CASE BadParam(tx)
  BY <1>1, Unchanged DEF PlaybackDirCmd
<1>2. CASE ~BadParam(tx)
  <2> DEFINE c == tx.chan_num
             x == WithPlayback(s, c, TRUE)
  <2>1. c \in Channels
    BY <1>2, TxFileArguments
  <2>2. PICK q \in PlaybackDir(s, c) : r = Counted(q)
    BY <1>2 DEF PlaybackDirCmd
  <2>3. (q.ok = FALSE /\ q.s = s) \/ (q.ok = TRUE /\ q.s = x)
    BY <2>2 DEF PlaybackDir, WithPlayback
  <2>4. r = Rejected(s) \/ r = Accepted(x)
    BY <2>2, <2>3 DEF Counted
  <2>5. Done(s, x) /\ x.a.table = s.a.table
    <3> DEFINE b == TRUE
    <3>1. b \in BOOLEAN /\ x = WithPlayback(s, c, b)
      OBVIOUS
    <3> HIDE DEF b, c, x
    <3> QED
      BY <2>1, <3>1, PlaybackGood
  <2> HIDE DEF x
  <2> QED
    BY <2>4, <2>5 DEF Answers
<1> QED
  BY <1>1, <1>2

LEMMA WriteQueueCmdOK ==
  ASSUME NEW s, Good(s), NEW wq, NEW r \in WriteQueueCmd(s, wq)
  PROVE  Answers(s, r)
<1> DEFINE n == s.o.files
           opened == WithFiles(s, n + 1)
           closed == WithFiles(opened, opened.o.files - 1)
<1>1. s \in States /\ s.a \in AppData /\ s.o \in System /\ n \in 0 .. MaxFiles /\ MaxFiles \in Nat
  BY NumbersAssumption DEF Good, States, System
<1>2. \/ r = Rejected(s)
      \/ n # MaxFiles /\ r = Accepted(opened)
      \/ n < MaxFiles /\ r = Rejected(closed)
  BY DEF WriteQueueCmd, WithFiles
<1>3. n = MaxFiles \/ n + 1 \in 0 .. MaxFiles
  BY <1>1
<1>4. CASE n + 1 \in 0 .. MaxFiles
  <2>1. /\ opened \in States /\ opened.a = s.a /\ opened.o.pipes = s.o.pipes
        /\ opened.o.files = n + 1
    BY <1>1, <1>4, FilesSet
  <2>2. Good(opened)
    <3> HIDE DEF opened
    <3>1. TableOK(opened.a.table)
      BY <2>1 DEF Good
    <3> QED
      BY <2>1, <3>1, SameEngine
  <2>3. Done(s, opened) /\ opened.a.table = s.a.table
    <3> HIDE DEF opened
    <3> QED
      BY <2>1, <2>2 DEF Done
  <2>4. closed = s
    <3> HIDE DEF opened
    <3>1. opened.o.files - 1 = n
      BY <1>1, <2>1
    <3>2. closed = WithFiles(opened, n)
      BY <3>1
    <3>3. /\ closed \in States /\ closed.a = s.a /\ closed.o.pipes = s.o.pipes
          /\ closed.o.files = n
      <4>1. opened \in States /\ n \in 0 .. MaxFiles
        BY <1>1, <2>1
      <4> HIDE DEF closed, n
      <4>2. /\ closed \in States /\ closed.a = opened.a /\ closed.o.files = n
            /\ closed.o.pipes = opened.o.pipes
        BY <3>2, <4>1, FilesSet
      <4> QED
        BY <2>1, <4>2
    <3> HIDE DEF closed
    <3>4. closed.o = s.o
      BY <1>1, <3>3 DEF States, System
    <3> QED
      BY <1>1, <3>3, <3>4 DEF States
  <2> HIDE DEF opened, closed
  <2> QED
    BY <1>2, <2>3, <2>4 DEF Answers
<1>5. CASE n = MaxFiles
  <2>1. ~(n < MaxFiles)
    BY <1>1, <1>5
  <2> QED
    BY <1>2, <1>5, <2>1 DEF Answers
<1> QED
  BY <1>3, <1>4, <1>5

LEMMA ResetCountersCmdOK ==
  ASSUME NEW s, Good(s), NEW param, NEW r, r = ResetCountersCmd(s, param)
  PROVE  \/ Answers(s, r)
         \/ Good(r) /\ r.a.cmd = 0 /\ r.a.err = 0 /\ r.a.table = s.a.table
<1>1. CASE param > 4
  BY <1>1, Unchanged DEF ResetCountersCmd
<1>2. CASE ~(param > 4) /\ param \notin {0, 1}
  BY <1>2, Unchanged DEF ResetCountersCmd
<1>3. CASE ~(param > 4) /\ param \in {0, 1}
  <2>1. r = WithCounts(s, 0, 0)
    BY <1>3, Zenon DEF ResetCountersCmd, WithCounts
  <2>2. s \in States /\ TableOK(s.a.table)
    BY DEF Good, States
  <2>3. /\ r \in States /\ r.a.chan = s.a.chan /\ r.o = s.o /\ r.a.table = s.a.table
        /\ r.a.cmd = 0 /\ r.a.err = 0
        /\ r.a.enabled = s.a.enabled /\ r.a.seq_num = s.a.seq_num
    BY <2>1, <2>2, CountsSet
  <2>4. Good(r)
    BY <2>2, <2>3, SameEngine
  <2> QED
    BY <2>3, <2>4
<1> QED
  BY <1>1, <1>2, <1>3

-------------------------------------------------------------------------------
(* The engine. *)

EngineChan(n, extra) == [c \in Channels |-> [Zeroed EXCEPT !.ready = c < n, !.pipe = c < n + extra]]

LEMMA EngineChannels ==
  ASSUME NEW n \in 0 .. NumChannels, NEW extra \in {0, 1}
  PROVE  /\ EngineChan(n, extra) \in [Channels -> Channel]
         /\ \A c \in Channels :
              /\ EngineChan(n, extra)[c].ready <=> c < n
              /\ EngineChan(n, extra)[c].pipe <=> c < n + extra
              /\ ChannelOK(EngineChan(n, extra)[c], 0)
<1>1. <<>> \in Seq(Txn) /\ Len(<<>>) = 0 /\ DOMAIN <<>> = {}
  OBVIOUS
<1>2. TxnsOK(<<>>, 0)
  <2>1. 0 <= NumTxns
    BY NumbersAssumption
  <2> QED
    BY <1>1, <2>1 DEF TxnsOK, KeysDiffer, Numbered
<1>3. ASSUME NEW c \in Channels
      PROVE  /\ EngineChan(n, extra)[c] \in Channel
             /\ EngineChan(n, extra)[c].ready = (c < n)
             /\ EngineChan(n, extra)[c].pipe = (c < n + extra)
             /\ EngineChan(n, extra)[c].txns = <<>>
  <2> DEFINE ready == c < n
             known == c < n + extra
             ch == [Zeroed EXCEPT !.ready = ready, !.pipe = known]
  <2>1. EngineChan(n, extra)[c] = ch
    BY Zenon DEF EngineChan
  <2>2. ready \in BOOLEAN /\ known \in BOOLEAN
    BY NumbersAssumption DEF Channels
  <2>3. /\ ch \in Channel /\ ch.ready = ready /\ ch.pipe = known /\ ch.txns = <<>>
    BY <1>1, <2>2 DEF Zeroed, Channel
  <2> QED
    BY <2>1, <2>3 DEF ready, known
<1>4. EngineChan(n, extra) \in [Channels -> Channel]
  <2>1. EngineChan(n, extra) = [c \in Channels |-> EngineChan(n, extra)[c]]
    BY Zenon DEF EngineChan
  <2> QED
    BY <1>3, <2>1
<1> QED
  BY <1>2, <1>3, <1>4 DEF ChannelOK

LEMMA EngineParts ==
  ASSUME NEW s \in States, NEW n \in 0 .. NumChannels, NEW extra \in {0, 1},
         0 .. n + extra - 1 \subseteq Channels, NEW r, r = Engine(s, n, extra)
  PROVE  /\ r \in States /\ r.a.enabled = (n = NumChannels) /\ r.a.seq_num = 0
         /\ r.a.chan = EngineChan(n, extra) /\ r.a.table = s.a.table
         /\ r.a.cmd = s.a.cmd /\ r.a.err = s.a.err
         /\ r.o.pipes = s.o.pipes \cup 0 .. n + extra - 1
<1> DEFINE f == EngineChan(n, extra)
           works == n = NumChannels
           made == s.o.pipes \cup 0 .. n + extra - 1
           a == [s.a EXCEPT !.enabled = works, !.seq_num = 0, !.chan = f]
           o == [s.o EXCEPT !.pipes = made]
<1>1. s.a \in AppData /\ s.o \in System /\ DOMAIN s = {"a", "o"}
  BY DEF States
<1>2. works \in BOOLEAN /\ made \in SUBSET Channels
  <2>1. works \in BOOLEAN
    BY Zenon
  <2>2. s.o.pipes \in SUBSET Channels
    BY <1>1 DEF System
  <2> QED
    BY <2>1, <2>2
<1>3. f \in [Channels -> Channel]
  BY EngineChannels
<1>4. r = [s EXCEPT !.a = a, !.o = o]
  <2> HIDE DEF works
  <2>1. r = [s EXCEPT !.a.enabled = works, !.a.seq_num = 0, !.a.chan = f, !.o.pipes = made]
    BY Zenon DEF Engine, EngineChan, works
  <2> HIDE DEF f, made
  <2> QED
    BY <1>1, <2>1 DEF AppData, System
<1> HIDE DEF f, works, made
<1>5. /\ a \in AppData /\ a.enabled = works /\ a.seq_num = 0 /\ a.chan = f
      /\ a.table = s.a.table /\ a.cmd = s.a.cmd /\ a.err = s.a.err
  BY <1>1, <1>2, <1>3 DEF AppData
<1>6. o \in System /\ o.pipes = made
  BY <1>1, <1>2 DEF System
<1> HIDE DEF a, o
<1>7. r \in States /\ r.a = a /\ r.o = o
  BY <1>1, <1>4, <1>5, <1>6 DEF States
<1> QED
  BY <1>5, <1>6, <1>7 DEF f, works, made

LEMMA EngineOK ==
  ASSUME NEW s \in States, TableOK(s.a.table), NEW n \in 0 .. NumChannels, NEW extra \in {0, 1},
         0 .. n + extra - 1 \subseteq Channels, NEW r, r = Engine(s, n, extra)
  PROVE  /\ Good(r) /\ r.a.table = s.a.table /\ r.a.cmd = s.a.cmd /\ r.a.err = s.a.err
         /\ r.a.enabled = (n = NumChannels)
<1>1. /\ r \in States /\ r.a.enabled = (n = NumChannels) /\ r.a.seq_num = 0
      /\ r.a.chan = EngineChan(n, extra) /\ r.a.table = s.a.table
      /\ r.a.cmd = s.a.cmd /\ r.a.err = s.a.err
      /\ r.o.pipes = s.o.pipes \cup 0 .. n + extra - 1
  BY EngineParts
<1>2. \A c \in Channels : /\ r.a.chan[c].ready <=> c < n
                          /\ r.a.chan[c].pipe <=> c < n + extra
                          /\ ChannelOK(r.a.chan[c], r.a.seq_num)
  <2> DEFINE chan == EngineChan(n, extra)
  <2>1. \A c \in Channels : /\ chan[c].ready <=> c < n
                            /\ chan[c].pipe <=> c < n + extra
                            /\ ChannelOK(chan[c], 0)
    BY EngineChannels
  <2>2. r.a.chan = chan /\ r.a.seq_num = 0
    BY <1>1
  <2> HIDE DEF chan
  <2> QED
    BY <2>1, <2>2
<1>3. NumChannels \in Nat /\ n \in Nat /\ n <= NumChannels /\ Channels = 0 .. NumChannels - 1
  BY NumbersAssumption DEF Channels
<1>4. PipesOK(r)
  <2> SUFFICES ASSUME \A c \in Channels : r.a.chan[c].ready
               PROVE  /\ \A c \in Channels : r.a.chan[c].pipe
                      /\ r.o.pipes = IF r.a.enabled THEN Channels ELSE {}
    BY DEF PipesOK
  <2>1. n = NumChannels
    <3> SUFFICES ASSUME n # NumChannels PROVE FALSE
      OBVIOUS
    <3>1. n \in Channels /\ ~(n < n)
      BY <1>3
    <3> QED
      BY <1>2, <3>1
  <2>2. \A c \in Channels : c < n + extra
    BY <1>3, <2>1
  <2>3. Channels \subseteq 0 .. n + extra - 1
    BY <1>3, <2>1
  <2>4. s.o.pipes \subseteq Channels
    BY DEF States, System
  <2>5. r.o.pipes = Channels
    BY <1>1, <2>3, <2>4
  <2> QED
    BY <1>1, <1>2, <2>1, <2>2, <2>5
<1>5. Good(r)
  BY <1>1, <1>2, <1>4 DEF Good, States
<1> QED
  BY <1>1, <1>5

LEMMA InitEngineOK ==
  ASSUME NEW s \in States, TableOK(s.a.table), NEW r \in InitEngine(s)
  PROVE  /\ Good(r) /\ r.a.table = s.a.table /\ r.a.cmd = s.a.cmd /\ r.a.err = s.a.err
         /\ r.a.enabled \in BOOLEAN
<1>1. NumChannels \in Nat /\ Channels = 0 .. NumChannels - 1
  BY NumbersAssumption DEF Channels
<1>2. PICK n \in 0 .. NumChannels, extra \in {0, 1} :
        r = Engine(s, n, extra) /\ (n = NumChannels => extra = 0)
  <2>1. CASE \E p \in Channels \X {0, 1} : r = Engine(s, p[1], p[2])
    <3>1. PICK p \in Channels \X {0, 1} : r = Engine(s, p[1], p[2])
      BY <2>1
    <3>2. p[1] \in Channels /\ p[2] \in {0, 1}
      BY <3>1
    <3>3. p[1] \in 0 .. NumChannels /\ p[1] # NumChannels
      BY <1>1, <3>2
    <3> QED
      BY <3>1, <3>2, <3>3
  <2>2. CASE r = Engine(s, NumChannels, 0)
    <3>1. NumChannels \in 0 .. NumChannels /\ 0 \in {0, 1}
      BY <1>1
    <3> QED
      BY <2>2, <3>1
  <2> QED
    BY <2>1, <2>2 DEF InitEngine
<1>3. 0 .. n + extra - 1 \subseteq Channels
  BY <1>1, <1>2
<1>4. Good(r) /\ r.a.table = s.a.table /\ r.a.cmd = s.a.cmd /\ r.a.err = s.a.err
  BY <1>2, <1>3, EngineOK
<1> QED
  BY <1>4 DEF Good, AppData

LEMMA EnableEngineCmdOK ==
  ASSUME NEW s, Good(s), NEW r \in EnableEngineCmd(s)
  PROVE  /\ Good(r) /\ r.a.table = s.a.table
         /\ r.a.cmd + r.a.err = s.a.cmd + s.a.err + 1
<1>1. s \in States /\ TableOK(s.a.table)
  BY DEF Good, States
<1>2. \E x : /\ Good(x) /\ x.a.table = s.a.table /\ x.a.cmd = s.a.cmd /\ x.a.err = s.a.err
             /\ r = Accepted(x) \/ r = Rejected(x)
  <2>1. CASE s.a.enabled
    BY <2>1, Zenon DEF EnableEngineCmd
  <2>2. CASE ~s.a.enabled
    <3>1. PICK x \in InitEngine(s) : r = Counted([ok |-> x.a.enabled, s |-> x])
      BY <2>2, Zenon DEF EnableEngineCmd
    <3>2. r = Accepted(x) \/ r = Rejected(x)
      BY <3>1 DEF Counted
    <3> QED
      BY <1>1, <3>1, <3>2, InitEngineOK
  <2> QED
    BY <2>1, <2>2
<1>3. PICK x : /\ Good(x) /\ x.a.table = s.a.table /\ x.a.cmd = s.a.cmd /\ x.a.err = s.a.err
               /\ r = Accepted(x) \/ r = Rejected(x)
  BY <1>2
<1>4. x \in States /\ x.a \in AppData /\ x.a.cmd \in Nat /\ x.a.err \in Nat
  BY <1>3 DEF Good, States, AppData
<1>5. CASE r = Accepted(x)
  <2>1. Good(r) /\ r.a = [x.a EXCEPT !.cmd = x.a.cmd + 1]
    BY <1>3, <1>4, <1>5, CountedGood, CountedStates
  <2>2. r.a.cmd = x.a.cmd + 1 /\ r.a.err = x.a.err /\ r.a.table = x.a.table
    BY <1>4, <2>1 DEF AppData
  <2> QED
    BY <1>3, <1>4, <2>1, <2>2
<1>6. CASE r = Rejected(x)
  <2>1. Good(r) /\ r.a = [x.a EXCEPT !.err = x.a.err + 1]
    BY <1>3, <1>4, <1>6, CountedGood, CountedStates
  <2>2. r.a.cmd = x.a.cmd /\ r.a.err = x.a.err + 1 /\ r.a.table = x.a.table
    BY <1>4, <2>1 DEF AppData
  <2> QED
    BY <1>3, <1>4, <2>1, <2>2
<1> QED
  BY <1>3, <1>5, <1>6

(* An engine that is disabled.                                             *)
LEMMA DisableEngineCmdOK ==
  ASSUME NEW s, Good(s)
  PROVE  Answers(s, DisableEngineCmd(s))
<1>1. CASE ~s.a.enabled
  BY <1>1, Unchanged DEF DisableEngineCmd
<1>2. CASE s.a.enabled
  <2> DEFINE known == {c \in Channels : s.a.chan[c].pipe}
             left == s.o.pipes \ known
             a == [s.a EXCEPT !.enabled = FALSE]
             o == [s.o EXCEPT !.pipes = left]
             x == [s EXCEPT !.a.enabled = FALSE, !.o.pipes = left]
  <2>1. s \in States /\ s.a \in AppData /\ s.o \in System /\ DOMAIN s = {"a", "o"}
    BY DEF Good, States
  <2>2. DisableEngineCmd(s) = Accepted(x)
    BY <1>2, Zenon DEF DisableEngineCmd
  <2>3. left \in SUBSET Channels
    BY <2>1 DEF System
  <2> HIDE DEF left
  <2>4. x = [s EXCEPT !.a = a, !.o = o]
    BY <2>1
  <2>5. /\ a \in AppData /\ a.chan = s.a.chan /\ a.seq_num = s.a.seq_num /\ a.enabled = FALSE
        /\ a.table = s.a.table /\ a.cmd = s.a.cmd /\ a.err = s.a.err
        /\ o \in System /\ o.pipes = left
    BY <2>1, <2>3 DEF AppData, System
  <2> HIDE DEF a, o, x
  <2>6. x \in States /\ x.a = a /\ x.o = o
    BY <2>1, <2>4, <2>5 DEF States
  <2>7. PipesOK(x)
    <3>1. (\A c \in Channels : x.a.chan[c].ready) =>
            /\ \A c \in Channels : x.a.chan[c].pipe
            /\ x.o.pipes = {}
      <4> SUFFICES ASSUME \A c \in Channels : s.a.chan[c].ready
                   PROVE  /\ \A c \in Channels : s.a.chan[c].pipe
                          /\ left = {}
        BY <2>5, <2>6
      <4>1. /\ \A c \in Channels : s.a.chan[c].pipe
            /\ s.o.pipes = Channels
        BY <1>2 DEF Good, PipesOK
      <4> QED
        BY <4>1 DEF left
    <3>2. ~x.a.enabled
      BY <2>5, <2>6
    <3> QED
      BY <3>1, <3>2 DEF PipesOK
  <2>8. Good(x)
    BY <2>5, <2>6, <2>7 DEF Good, States
  <2>9. Done(s, x) /\ x.a.table = s.a.table
    BY <2>5, <2>6, <2>8 DEF Done
  <2> QED
    BY <2>2, <2>9 DEF Answers
<1> QED
  BY <1>1, <1>2

-------------------------------------------------------------------------------
(* All commands. *)

TableCodes ==
  {"SET_PARAM", "ENABLE_DEQUEUE", "DISABLE_DEQUEUE", "ENABLE_DIR_POLLING", "DISABLE_DIR_POLLING"}

(* What a command can do to a state.                                       *)
Outcome(s, cc, r) ==
  \/ Answers(s, r)
  \/ cc \in TableCodes /\ Answer(s, r)
  \/ cc = "RESET" /\ Good(r) /\ r.a.cmd = 0 /\ r.a.err = 0 /\ r.a.table = s.a.table
  \/ /\ cc = "ENABLE_ENGINE" /\ Good(r) /\ r.a.table = s.a.table
     /\ r.a.cmd + r.a.err = s.a.cmd + s.a.err + 1

(* A command on transactions applies a function to those that it chooses.  *)
LEMMA TxnCommand ==
  ASSUME NEW s, NEW cc \in TxnCodes, NEW p, NEW r \in Handled(s, cc, p)
  PROVE  \E fn : KeepsKeys(fn) /\ r = TsnChanAction(s, p, fn)
<1>1. CASE cc \in {"SUSPEND", "RESUME"}
  <2> DEFINE action == cc = "SUSPEND"
             fn == [t \in Txn |-> [t EXCEPT !.suspended = action]]
  <2>1. action \in BOOLEAN
    BY Zenon
  <2>2. r = DoSuspRes(s, p, action)
    BY <1>1 DEF Handled
  <2> HIDE DEF action
  <2>3. KeepsKeys(fn)
    BY <2>1, TxnHandlersKeepKeys
  <2>4. r = TsnChanAction(s, p, fn)
    BY <2>2, Zenon DEF DoSuspRes
  <2> QED
    BY <2>3, <2>4, Zenon
<1>2. CASE cc = "CANCEL"
  <2> DEFINE fn == [t \in Txn |-> [t EXCEPT !.canceled = TRUE]]
  <2>1. r = CancelCmd(s, p)
    BY <1>2 DEF Handled
  <2>2. KeepsKeys(fn)
    BY TxnHandlersKeepKeys
  <2>3. r = TsnChanAction(s, p, fn)
    BY <2>1, Zenon DEF CancelCmd
  <2> QED
    BY <2>2, <2>3, Zenon
<1>3. CASE cc = "ABANDON"
  <2> DEFINE fn == [t \in Txn |-> FinishTransaction(t)]
  <2>1. r = AbandonCmd(s, p)
    BY <1>3 DEF Handled
  <2>2. KeepsKeys(fn)
    BY TxnHandlersKeepKeys
  <2>3. r = TsnChanAction(s, p, fn)
    BY <2>1, Zenon DEF AbandonCmd
  <2> QED
    BY <2>2, <2>3, Zenon
<1> QED
  BY <1>1, <1>2, <1>3 DEF TxnCodes

LEMMA HandledOK ==
  ASSUME NEW s, Good(s), NEW cc \in CommandCodes, NEW p \in Payloads(cc), NEW r \in Handled(s, cc, p)
  PROVE  Outcome(s, cc, r)
<1>1. CASE cc = "NOOP"
  <2>1. r = Accepted(s)
    BY <1>1 DEF Handled
  <2> QED
    BY <2>1, Unchanged DEF Outcome
<1>2. CASE cc = "RESET"
  <2>1. r = ResetCountersCmd(s, p)
    BY <1>2 DEF Handled
  <2> QED
    BY <1>2, <2>1, ResetCountersCmdOK DEF Outcome
<1>3. CASE cc = "TX_FILE"
  <2>1. r = TxFileCmd(s, p)
    BY <1>3 DEF Handled
  <2>2. p \in TxFiles
    BY <1>3 DEF Payloads, TxnCodes
  <2> QED
    BY <2>1, <2>2, TxFileCmdOK DEF Outcome
<1>4. CASE cc = "PLAYBACK_DIR"
  <2>1. r \in PlaybackDirCmd(s, p)
    BY <1>4 DEF Handled
  <2>2. p \in TxFiles
    BY <1>4 DEF Payloads, TxnCodes
  <2> QED
    BY <2>1, <2>2, PlaybackDirCmdOK DEF Outcome
<1>5. CASE cc \in {"FREEZE", "THAW"}
  <2>1. r = FreezeThaw(s, p, cc = "FREEZE")
    BY <1>5 DEF Handled
  <2>2. (cc = "FREEZE") \in BOOLEAN
    BY Zenon
  <2> QED
    BY <2>1, <2>2, FreezeThawOK DEF Outcome
<1>6. CASE cc \in {"SUSPEND", "RESUME", "CANCEL", "ABANDON"}
  <2>1. PICK fn : KeepsKeys(fn) /\ r = TsnChanAction(s, p, fn)
    BY <1>6, TxnCommand DEF TxnCodes
  <2> QED
    BY <2>1, TsnChanActionOK DEF Outcome
<1>7. CASE cc = "SET_PARAM"
  <2>1. /\ r = SetParamCmd(s, p[1], p[2], p[3])
        /\ p \in Keys \X ParamValues \X (Channels \cup {NumChannels})
    BY <1>7 DEF Handled, Payloads
  <2>2. p[1] \in Params \cup {"invalid"} /\ p[2] \in ParamValues
        /\ p[3] \in Channels \cup {NumChannels}
    BY <2>1, KeysAssumption DEF Params
  <2>3. Answer(s, r)
    BY <2>1, <2>2, SetParamCmdOK
  <2> QED
    BY <1>7, <2>3 DEF Outcome, TableCodes
<1>8. CASE cc = "GET_PARAM"
  <2>1. r = GetParamCmd(s, p[1], p[2])
    BY <1>8 DEF Handled
  <2> QED
    BY <2>1, GetParamCmdOK DEF Outcome
<1>9. CASE cc = "WRITE_QUEUE"
  <2>1. r \in WriteQueueCmd(s, p)
    BY <1>9 DEF Handled
  <2> QED
    BY <2>1, WriteQueueCmdOK DEF Outcome
<1>10. CASE cc \in {"ENABLE_DEQUEUE", "DISABLE_DEQUEUE"}
  <2>1. r = EnableDisableDequeue(s, p, cc = "ENABLE_DEQUEUE")
    BY <1>10 DEF Handled
  <2>2. (cc = "ENABLE_DEQUEUE") \in BOOLEAN
    BY Zenon
  <2>3. Answer(s, r)
    BY <2>1, <2>2, EnableDisableDequeueOK
  <2> QED
    BY <1>10, <2>3 DEF Outcome, TableCodes
<1>11. CASE cc \in {"ENABLE_DIR_POLLING", "DISABLE_DIR_POLLING"}
  <2>1. r = EnableDisablePolldir(s, p[1], p[2], cc = "ENABLE_DIR_POLLING")
    BY <1>11 DEF Handled
  <2>2. (cc = "ENABLE_DIR_POLLING") \in BOOLEAN
    BY Zenon
  <2>3. Answer(s, r)
    BY <2>1, <2>2, EnableDisablePolldirOK
  <2> QED
    BY <1>11, <2>3 DEF Outcome, TableCodes
<1>12. CASE cc = "PURGE_QUEUE"
  <2>1. r = PurgeQueueCmd(s, p[1], p[2])
    BY <1>12 DEF Handled
  <2> QED
    BY <2>1, PurgeQueueCmdOK DEF Outcome
<1>13. CASE cc = "ENABLE_ENGINE"
  <2>1. r \in EnableEngineCmd(s)
    BY <1>13 DEF Handled
  <2> QED
    BY <1>13, <2>1, EnableEngineCmdOK DEF Outcome
<1>14. CASE cc = "DISABLE_ENGINE"
  <2>1. r = DisableEngineCmd(s)
    BY <1>14 DEF Handled
  <2> QED
    BY <2>1, DisableEngineCmdOK DEF Outcome
<1> QED
  BY <1>1, <1>2, <1>3, <1>4, <1>5, <1>6, <1>7, <1>8, <1>9, <1>10, <1>11, <1>12, <1>13, <1>14
     DEF CommandCodes

-------------------------------------------------------------------------------
(* A wakeup. *)

(* Cycled(s, r): nothing that a command answers, and no number taken back. *)
Cycled(s, r) ==
  /\ Done(s, r) /\ r.a.table = s.a.table /\ r.a.frozen = s.a.frozen
  /\ r.a.seq_num >= s.a.seq_num

LEMMA TxnsReplaced ==
  ASSUME NEW s, Good(s), NEW c \in Channels, NEW txns, TxnsOK(txns, s.a.seq_num), NEW r,
         r = WithTxns(s, c, txns)
  PROVE  /\ Cycled(s, r) /\ r.a.chan[c].txns = txns
         /\ r.a.chan[c].playback = s.a.chan[c].playback
         /\ \A d \in Channels \ {c} : r.a.chan[d] = s.a.chan[d]
<1> DEFINE old == s.a.chan[c]
           ch == [old EXCEPT !.txns = txns]
<1>1. /\ s \in States /\ old \in Channel /\ s.a.seq_num \in Nat
      /\ s.a.chan \in [Channels -> Channel]
  BY ChannelsOf DEF States, AppData
<1>2. txns \in Seq(Txn)
  BY DEF TxnsOK
<1>3. /\ r \in States /\ r.o = s.o /\ r.a.table = s.a.table
      /\ r.a.chan = [s.a.chan EXCEPT ![c] = ch]
      /\ r.a.cmd = s.a.cmd /\ r.a.err = s.a.err /\ r.a.frozen = s.a.frozen
      /\ r.a.enabled = s.a.enabled /\ r.a.seq_num = s.a.seq_num
  BY <1>1, <1>2, TxnsOfSet
<1> HIDE DEF old
<1>4. /\ ch \in Channel /\ ch.txns = txns /\ ch.pipe = old.pipe
      /\ ch.ready = old.ready /\ ch.playback = old.playback
  BY <1>1, <1>2, TxnsSet
<1> HIDE DEF ch
<1>5. r.a.seq_num \in Nat /\ s.a.seq_num <= r.a.seq_num /\ r.a.seq_num >= s.a.seq_num
  BY <1>1, <1>3
<1>6. TxnsOK(ch.txns, r.a.seq_num) /\ ch.pipe = s.a.chan[c].pipe /\ ch.ready = s.a.chan[c].ready
  BY <1>3, <1>4 DEF old
<1>7. /\ Good(r) /\ r.a.chan[c] = ch
      /\ \A d \in Channels \ {c} : r.a.chan[d] = s.a.chan[d]
  <2>1. r.a.chan[c] = ch /\ \A d \in Channels \ {c} : r.a.chan[d] = s.a.chan[d]
    BY <1>1, <1>3
  <2>2. r.o.pipes = s.o.pipes
    BY <1>3
  <2>3. Good(r)
    BY <1>3, <1>4, <1>5, <1>6, <2>2, OneChannel
  <2> QED
    BY <2>1, <2>3
<1> QED
  BY <1>3, <1>4, <1>5, <1>7 DEF Cycled, Done, old

LEMMA CycleChannelOK ==
  ASSUME NEW s, Good(s), NEW c \in Channels, NEW r \in CycleChannel(s, c)
  PROVE  Cycled(s, r) /\ \A d \in Channels \ {c} : r.a.chan[d] = s.a.chan[d]
<1> DEFINE txns == s.a.chan[c].txns
           In(i, state) == [s EXCEPT !.a.chan[c].txns[i].state = state]
<1>1. /\ s \in States /\ s.a \in AppData /\ s.a.chan[c] \in Channel /\ s.a.seq_num \in Nat
      /\ TxnsOK(txns, s.a.seq_num) /\ txns \in Seq(Txn)
  BY ChannelsOf
<1>2. ASSUME NEW i \in DOMAIN txns, NEW state \in {"ACTIVE", "HOLD"}, r = In(i, state)
      PROVE  Cycled(s, r) /\ \A d \in Channels \ {c} : r.a.chan[d] = s.a.chan[d]
  <2> DEFINE t == [txns[i] EXCEPT !.state = state]
             new == [txns EXCEPT ![i] = t]
  <2>1. In(i, state) = WithTxns(s, c, new)
    BY Zenon DEF WithTxns
  <2> HIDE DEF In, txns
  <2>2. t \in Txn /\ t.eid = txns[i].eid /\ t.seq = txns[i].seq
    <3>1. txns[i] \in Txn
      BY <1>1
    <3> QED
      BY <3>1 DEF Txn
  <2> HIDE DEF t
  <2>3. /\ new \in [DOMAIN txns -> Txn] /\ new[i] = t
        /\ \A j \in DOMAIN txns \ {i} : new[j] = txns[j]
    BY <1>1, <2>2
  <2> HIDE DEF new
  <2>4. \A j \in DOMAIN txns : new[j].eid = txns[j].eid /\ new[j].seq = txns[j].seq
    BY <2>2, <2>3
  <2>5. TxnsOK(new, s.a.seq_num)
    BY <1>1, <2>3, <2>4, TxnsChange
  <2> QED
    BY <1>2, <2>1, <2>5, TxnsReplaced
<1>3. ASSUME NEW i \in DOMAIN txns, r = [s EXCEPT !.a.chan[c].txns = RemoveAt(txns, i)]
      PROVE  Cycled(s, r) /\ \A d \in Channels \ {c} : r.a.chan[d] = s.a.chan[d]
  <2>1. r = WithTxns(s, c, RemoveAt(txns, i))
    BY <1>3, Zenon DEF WithTxns
  <2> HIDE DEF txns
  <2>2. TxnsOK(RemoveAt(txns, i), s.a.seq_num)
    BY <1>1, TxnRemoved
  <2> QED
    BY <2>1, <2>2, TxnsReplaced
<1>4. ASSUME r = [s EXCEPT !.a.chan[c].playback = FALSE]
      PROVE  Cycled(s, r) /\ \A d \in Channels \ {c} : r.a.chan[d] = s.a.chan[d]
  <2>1. r = WithPlayback(s, c, FALSE)
    BY <1>4, Zenon DEF WithPlayback
  <2>2. /\ Done(s, r) /\ r.a.table = s.a.table /\ r.a.frozen = s.a.frozen
        /\ r.a.seq_num = s.a.seq_num
        /\ \A d \in Channels \ {c} : r.a.chan[d] = s.a.chan[d]
    <3> DEFINE b == FALSE
    <3>1. b \in BOOLEAN /\ r = WithPlayback(s, c, b)
      BY <2>1
    <3> HIDE DEF b
    <3> QED
      BY <3>1, PlaybackGood
  <2>3. r.a.seq_num >= s.a.seq_num
    BY <1>1, <2>2
  <2> QED
    BY <2>2, <2>3 DEF Cycled
<1>5. ASSUME HasUnused(s, c), r = TxFile_Initiate(s, c)
      PROVE  Cycled(s, r) /\ \A d \in Channels \ {c} : r.a.chan[d] = s.a.chan[d]
  BY <1>5, TxFile_InitiateOK DEF Cycled
<1>6. \/ \E i \in DOMAIN txns, state \in {"ACTIVE", "HOLD"} : r = In(i, state)
      \/ \E i \in DOMAIN txns : r = [s EXCEPT !.a.chan[c].txns = RemoveAt(txns, i)]
      \/ r = [s EXCEPT !.a.chan[c].playback = FALSE]
      \/ HasUnused(s, c) /\ r = TxFile_Initiate(s, c)
  <2> DEFINE due == {j \in DOMAIN txns : txns[j].state = "PEND" /\ s.a.table.chan[c].dequeue_enabled}
             active == {j \in DOMAIN txns : txns[j].state = "ACTIVE"}
             held == {j \in DOMAIN txns : txns[j].state = "HOLD"}
  <2>1. \/ r \in {In(i, "ACTIVE") : i \in due}
        \/ r \in {In(i, "HOLD") : i \in active}
        \/ r \in {[s EXCEPT !.a.chan[c].txns = RemoveAt(txns, i)] : i \in held}
        \/ r \in IF s.a.chan[c].playback
                  THEN {[s EXCEPT !.a.chan[c].playback = FALSE]}
                         \cup (IF HasUnused(s, c) THEN {TxFile_Initiate(s, c)} ELSE {})
                  ELSE {}
    BY Zenon DEF CycleChannel
  <2> HIDE DEF In
  <2>2. CASE r \in {In(i, "ACTIVE") : i \in due}
    BY <2>2
  <2>3. CASE r \in {In(i, "HOLD") : i \in active}
    BY <2>3
  <2>4. CASE r \in {[s EXCEPT !.a.chan[c].txns = RemoveAt(txns, i)] : i \in held}
    BY <2>4, Zenon
  <2>5. CASE r \in IF s.a.chan[c].playback
                  THEN {[s EXCEPT !.a.chan[c].playback = FALSE]}
                         \cup (IF HasUnused(s, c) THEN {TxFile_Initiate(s, c)} ELSE {})
                  ELSE {}
    BY <2>5, Zenon
  <2> QED
    BY <2>1, <2>2, <2>3, <2>4, <2>5, Zenon
<1> HIDE DEF txns, In
<1> QED
  BY <1>2, <1>3, <1>4, <1>5, <1>6

(* What a frozen channel may do.                                           *)
Received(old, new) ==
  /\ new.playback = old.playback
  /\ new.txns = old.txns \/ \E t \in Txn : t.dir = "RX" /\ new.txns = Append(old.txns, t)

LEMMA ReceivePduOK ==
  ASSUME NEW s, Good(s), NEW c \in Channels, NEW eid \in Nat, NEW seq \in Nat,
         eid \in Peers \/ seq <= s.a.seq_num, NEW r, r = ReceivePdu(s, c, eid, seq)
  PROVE  Cycled(s, r) /\ \A d \in Channels : Received(s.a.chan[d], r.a.chan[d])
<1> DEFINE old == s.a.chan[c].txns
           t == NewTxn(eid, seq, "RX")
           txns == Append(old, t)
<1>1. /\ s.a.seq_num \in Nat /\ TxnsOK(old, s.a.seq_num) /\ old \in Seq(Txn)
  BY ChannelsOf
<1>2. CASE FindOn(s.a, c, eid, seq) # {} \/ ~HasUnused(s, c)
  <2>1. r = s
    BY <1>2 DEF ReceivePdu
  <2>2. s.a.seq_num >= s.a.seq_num
    BY <1>1
  <2> QED
    BY <2>1, <2>2 DEF Cycled, Done, Received
<1>3. CASE ~(FindOn(s.a, c, eid, seq) # {} \/ ~HasUnused(s, c))
  <2>1. r = WithTxns(s, c, txns)
    <3>1. r = [s EXCEPT !.a.chan[c].txns = Append(s.a.chan[c].txns, NewTxn(eid, seq, "RX"))]
      BY <1>3, Zenon DEF ReceivePdu
    <3> QED
      BY <3>1, Zenon DEF WithTxns
  <2>2. Len(old) < NumTxns /\ \A i \in DOMAIN old : ~(old[i].eid = eid /\ old[i].seq = seq)
    BY <1>3 DEF FindOn, HasUnused, Matches
  <2>3. t \in Txn /\ t.eid = eid /\ t.seq = seq /\ t.dir = "RX"
    BY DEF NewTxn, Txn
  <2> HIDE DEF old, t
  <2>4. s.a.seq_num <= s.a.seq_num
    BY <1>1
  <2>5. TxnsOK(txns, s.a.seq_num)
    BY <1>1, <2>2, <2>3, <2>4, TxnAppended
  <2> HIDE DEF txns
  <2>6. /\ Cycled(s, r) /\ r.a.chan[c].txns = txns
        /\ r.a.chan[c].playback = s.a.chan[c].playback
        /\ \A d \in Channels \ {c} : r.a.chan[d] = s.a.chan[d]
    BY <2>1, <2>5, TxnsReplaced
  <2>7. Received(s.a.chan[c], r.a.chan[c])
    BY <2>3, <2>6 DEF Received, old, txns
  <2>8. ASSUME NEW d \in Channels, d # c PROVE Received(s.a.chan[d], r.a.chan[d])
    BY <2>6, <2>8 DEF Received
  <2> QED
    BY <2>6, <2>7, <2>8
<1> QED
  BY <1>2, <1>3

LEMMA CycleEngineOK ==
  ASSUME NEW s, Good(s), NEW pdu, pdu.chan \in Channels, pdu.eid \in Nat, pdu.seq \in Nat,
         pdu.eid \in Peers \/ pdu.seq <= s.a.seq_num, NEW r \in CycleEngine(s, pdu)
  PROVE  /\ Cycled(s, r)
         /\ \A d \in Channels : s.a.frozen[d] => Received(s.a.chan[d], r.a.chan[d])
<1>1. s.a.seq_num \in Nat
  BY DEF Good, AppData
<1>2. CASE r = s
  <2>1. s.a.seq_num >= s.a.seq_num
    BY <1>1
  <2> QED
    BY <1>2, <2>1 DEF Cycled, Done, Received
<1>3. CASE r = ReceivePdu(s, pdu.chan, pdu.eid, pdu.seq)
  BY <1>3, ReceivePduOK
<1>4. ASSUME NEW c \in Channels, ~s.a.frozen[c], r \in CycleChannel(s, c)
      PROVE  /\ Cycled(s, r)
             /\ \A d \in Channels : s.a.frozen[d] => Received(s.a.chan[d], r.a.chan[d])
  <2>1. Cycled(s, r) /\ \A d \in Channels \ {c} : r.a.chan[d] = s.a.chan[d]
    BY <1>4, CycleChannelOK
  <2> QED
    BY <1>4, <2>1 DEF Received
<1>5. \/ r = s
      \/ r = ReceivePdu(s, pdu.chan, pdu.eid, pdu.seq)
      \/ \E c \in Channels : ~s.a.frozen[c] /\ r \in CycleChannel(s, c)
  BY DEF CycleEngine
<1> QED
  BY <1>2, <1>3, <1>4, <1>5

-------------------------------------------------------------------------------
(* Tables, and the state that the application starts with. *)

LEMMA DefaultTableOK == DefaultTable \in Table /\ TableOK(DefaultTable)
<1> DEFINE value(k) == CASE k = "rx_crc_calc_bytes_per_wakeup" -> 1024
                         [] k = "local_eid" -> LocalEid
                         [] OTHER -> 1
           g == [k \in GlobalParams |-> value(k)]
           p == [k \in ChannelParams |-> 1]
           dirs == [d \in Polldirs |-> FALSE]
           ch == [param |-> p, semaphore |-> FALSE, dequeue_enabled |-> TRUE, polldir |-> dirs]
           f == [c \in Channels |-> ch]
<1>1. DefaultTable = [global |-> g, chan |-> f]
  BY Zenon DEF DefaultTable
<1>2. ASSUME NEW k \in GlobalParams
      PROVE  /\ value(k) \in {0, 1, 1024}
             /\ k \in {"outgoing_file_chunk_size", "ticks_per_second"} => value(k) = 1
             /\ k = "local_eid" => value(k) = LocalEid
  BY DEF LocalEid
<1> HIDE DEF value
<1>3. ASSUME NEW k PROVE Modulus(k) \in Nat /\ 1 \in 0 .. Modulus(k) - 1
  <2>1. WordModulus \in Nat /\ WordModulus > 65535
    BY NumbersAssumption
  <2> QED
    BY <2>1 DEF Modulus
<1>4. ASSUME NEW k \in GlobalParams PROVE value(k) \in 0 .. Modulus(k) - 1
  <2>1. CASE k = "rx_crc_calc_bytes_per_wakeup"
    <3>1. Modulus(k) = WordModulus
      BY <2>1 DEF Modulus
    <3>2. WordModulus \in Nat /\ WordModulus > 65535
      BY NumbersAssumption
    <3> QED
      BY <1>2, <3>1, <3>2
  <2>2. CASE k # "rx_crc_calc_bytes_per_wakeup"
    <3>1. value(k) \in {0, 1}
      BY <2>2 DEF value, LocalEid
    <3> QED
      BY <1>3, <3>1
  <2> QED
    BY <2>1, <2>2
<1>5. g \in [GlobalParams -> Nat]
  BY <1>2
<1>6. p \in [ChannelParams -> Nat] /\ dirs \in [Polldirs -> BOOLEAN]
  OBVIOUS
<1>7. /\ \A k \in GlobalParams : g[k] \in 0 .. Modulus(k) - 1
      /\ g["outgoing_file_chunk_size"] = 1 /\ g["local_eid"] = LocalEid
  BY <1>2, <1>4 DEF GlobalParams
<1>8. \A k \in ChannelParams : p[k] \in 0 .. Modulus(k) - 1
  BY <1>3
<1> HIDE DEF g, p, dirs
<1>9. ch \in ChannelTable /\ ch.param = p
  BY <1>6 DEF ChannelTable
<1> HIDE DEF ch
<1>10. f \in [Channels -> ChannelTable] /\ \A c \in Channels : f[c].param = p
  BY <1>9
<1> HIDE DEF f
<1>11. /\ DefaultTable \in Table /\ DefaultTable.global = g /\ DefaultTable.chan = f
  BY <1>1, <1>5, <1>10 DEF Table
<1>12. 1 <= ChunkLimit
  BY NumbersAssumption
<1>13. EntitiesDiffer => LocalEid \notin Peers
  BY DEF EntitiesDiffer
<1> QED
  BY <1>7, <1>8, <1>10, <1>11, <1>12, <1>13 DEF TableOK

(* A table that CFE has had validated can be applied.                      *)
LEMMA ValidTable ==
  ASSUME NEW t \in Tables, ValidateConfigTable(t)
  PROVE  TableOK(t)
<1> DEFINE d == DefaultTable
<1>1. d \in Table /\ TableOK(d)
  BY DefaultTableOK
<1>2. WordModulus \in Nat /\ WordModulus > 65535 /\ ChunkLimit \in Nat
  BY NumbersAssumption
<1>3. /\ Modulus("local_eid") = WordModulus /\ Modulus("ticks_per_second") = WordModulus
      /\ Modulus("rx_crc_calc_bytes_per_wakeup") = WordModulus
  BY DEF Modulus
<1>4. d.global \in [GlobalParams -> Nat] /\ d.chan \in [Channels -> ChannelTable]
  BY <1>1 DEF Table
<1> HIDE DEF d
<1>5. CASE t = [d EXCEPT !.global["local_eid"] = 1]
  <2>1. "local_eid" \in GlobalParams /\ 1 \in 0 .. Modulus("local_eid") - 1
    BY <1>2, <1>3 DEF GlobalParams
  <2>2. EntitiesDiffer => 1 \notin Peers
    BY DEF EntitiesDiffer
  <2> DEFINE key == "local_eid"
             v == 1
  <2>3. /\ key \in GlobalParams /\ v \in Nat /\ v \in 0 .. Modulus(key) - 1
        /\ key # "outgoing_file_chunk_size" /\ (EntitiesDiffer => v \notin Peers)
        /\ t = [d EXCEPT !.global[key] = v]
    BY <1>5, <2>1, <2>2
  <2> HIDE DEF key, v
  <2> QED
    BY <1>1, <2>3, GlobalSet
<1>6. CASE t = [d EXCEPT !.global["ticks_per_second"] = 0]
  <2>1. t.global["ticks_per_second"] = 0
    BY <1>1, <1>4, <1>6 DEF GlobalParams, Table
  <2> QED
    BY <2>1 DEF ValidateConfigTable
<1>7. CASE t = [d EXCEPT !.global["rx_crc_calc_bytes_per_wakeup"] = 1000]
  <2>1. t.global["rx_crc_calc_bytes_per_wakeup"] = 1000
    BY <1>1, <1>4, <1>7 DEF GlobalParams, Table
  <2> QED
    BY <2>1 DEF ValidateConfigTable
<1>8. CASE t = [d EXCEPT !.global["outgoing_file_chunk_size"] = ChunkLimit + 1]
  <2>1. t.global["outgoing_file_chunk_size"] = ChunkLimit + 1
    BY <1>1, <1>4, <1>8 DEF GlobalParams, Table
  <2> QED
    BY <1>2, <2>1 DEF ValidateConfigTable
<1>9. CASE t = [d EXCEPT !.chan[0].semaphore = TRUE]
  <2> DEFINE ch == [d.chan[0] EXCEPT !.semaphore = TRUE]
             f == [d.chan EXCEPT ![0] = ch]
  <2>1. 0 \in Channels
    BY NumbersAssumption DEF Channels
  <2>2. t = [d EXCEPT !.chan = f]
    BY <1>1, <1>9 DEF Table
  <2>3. ch \in ChannelTable /\ ch.param = d.chan[0].param
    BY <1>4, <2>1 DEF ChannelTable
  <2> HIDE DEF ch
  <2>4. f \in [Channels -> ChannelTable] /\ \A c \in Channels : f[c].param = d.chan[c].param
    BY <1>4, <2>1, <2>3
  <2> HIDE DEF f
  <2>5. t \in Table /\ t.global = d.global /\ t.chan = f
    BY <1>1, <2>2, <2>4 DEF Table
  <2> QED
    BY <1>1, <2>4, <2>5 DEF TableOK
<1> QED
  BY <1>5, <1>6, <1>7, <1>8, <1>9 DEF Tables, d

LEMMA StartOK == Good(State(InitApp, InitOs))
<1> DEFINE s == State(InitApp, InitOs)
           f == [c \in Channels |-> Zeroed]
           frozen == [c \in Channels |-> FALSE]
<1>1. <<>> \in Seq(Txn) /\ Len(<<>>) = 0 /\ DOMAIN <<>> = {}
  OBVIOUS
<1>2. Zeroed \in Channel /\ Zeroed.txns = <<>> /\ Zeroed.ready = FALSE
  BY <1>1 DEF Zeroed, Channel
<1>3. TxnsOK(<<>>, 0)
  <2>1. 0 <= NumTxns
    BY NumbersAssumption
  <2> QED
    BY <1>1, <2>1 DEF TxnsOK, KeysDiffer, Numbered
<1>4. f \in [Channels -> Channel] /\ frozen \in [Channels -> BOOLEAN] /\ DefaultTable \in Table
  BY <1>2, DefaultTableOK
<1>5. s.a = [cmd |-> 0, err |-> 0, frozen |-> frozen, table |-> DefaultTable,
             enabled |-> FALSE, seq_num |-> 0, chan |-> f]
      /\ s.o = [pipes |-> {}, files |-> 0] /\ s = [a |-> s.a, o |-> s.o]
  BY Zenon DEF State, InitApp, InitOs
<1> HIDE DEF f, frozen, s
<1>6. s.a \in AppData /\ s.a.table = DefaultTable /\ s.a.chan = f /\ s.a.seq_num = 0
  BY <1>4, <1>5 DEF AppData
<1>7. s.o \in System
  BY <1>5, NumbersAssumption DEF System
<1>8. s \in [a : AppData, o : System]
  BY <1>5, <1>6, <1>7
<1>9. \A c \in Channels : ChannelOK(s.a.chan[c], s.a.seq_num) /\ ~s.a.chan[c].ready
  BY <1>2, <1>3, <1>6 DEF ChannelOK, f
<1>10. 0 \in Channels
  BY NumbersAssumption DEF Channels
<1>11. PipesOK(s)
  BY <1>9, <1>10 DEF PipesOK
<1> QED
  BY <1>6, <1>8, <1>9, <1>11, DefaultTableOK DEF Good, s

-------------------------------------------------------------------------------
(* A turn of the loop. *)

IsCommand(codes) == pipe.mid = "CMD" /\ pipe.cc \in codes

(* What a turn does, by the message that it takes.                         *)
TurnOK(s, r) ==
  \/ /\ pipe.mid = "WAKE_UP" /\ Cycled(s, r)
     /\ \A d \in Channels : s.a.frozen[d] => Received(s.a.chan[d], r.a.chan[d])
  \/ /\ pipe.mid = "SEND_HK" /\ Done(s, r)
     /\ r.a.table = s.a.table \/ (~s.a.enabled /\ r.a.table = pending)
  \/ /\ pipe.mid = "CMD" /\ pipe.cc \in CommandCodes /\ Outcome(s, pipe.cc, r)
  \/ /\ pipe.mid = "OTHER" /\ r = Rejected(s)

LEMMA AppPipeOK ==
  ASSUME AppInv, pipe # NoMessage, NEW s, s = State(app, os), NEW r \in AppPipe(s)
  PROVE  TurnOK(s, r)
<1>1. Good(s) /\ s.a = app /\ s.o = os
  BY DEF AppInv, State
<1>2. pipe.mid \in {"WAKE_UP", "CMD", "SEND_HK", "OTHER"}
  BY DEF AppInv, PipeOK
<1>3. CASE pipe.mid = "WAKE_UP"
  <2>1. r \in CycleEngine(s, pipe.pdu)
    BY <1>3 DEF AppPipe
  <2>2. /\ pipe.pdu.chan \in Channels /\ pipe.pdu.eid \in Nat /\ pipe.pdu.seq \in Nat
        /\ pipe.pdu.eid \in Peers \/ pipe.pdu.seq <= s.a.seq_num
    BY <1>1, <1>3 DEF AppInv, PipeOK
  <2> QED
    BY <1>1, <1>3, <2>1, <2>2, CycleEngineOK DEF TurnOK
<1>4. CASE pipe.mid = "SEND_HK"
  <2>1. r = CheckTables(s)
    BY <1>4 DEF AppPipe
  <2>2. CASE s.a.enabled \/ pending = NoTable
    <3>1. r = s
      BY <2>1, <2>2 DEF CheckTables
    <3> QED
      BY <1>1, <1>4, <3>1 DEF TurnOK, Done
  <2>3. CASE ~(s.a.enabled \/ pending = NoTable)
    <3>1. r = WithTable(s, pending)
      BY <2>1, <2>3, Zenon DEF CheckTables, WithTable
    <3>2. TableOK(pending)
      BY <2>3 DEF AppInv
    <3>3. Done(s, r) /\ r.a.table = pending
      BY <1>1, <3>1, <3>2, TableChange
    <3> QED
      BY <1>4, <2>3, <3>3 DEF TurnOK
  <2> QED
    BY <2>2, <2>3
<1>5. CASE pipe.mid = "CMD"
  <2>1. r \in ProcessGroundCommand(s, pipe)
    BY <1>5 DEF AppPipe
  <2>2. pipe.cc \in CommandCodes /\ (pipe.len = "expected" => pipe.payload \in Payloads(pipe.cc))
    BY <1>5 DEF AppInv, PipeOK
  <2>3. CASE pipe.len = "expected"
    <3>1. r \in Handled(s, pipe.cc, pipe.payload)
      BY <2>1, <2>3 DEF ProcessGroundCommand
    <3>2. Outcome(s, pipe.cc, r)
      BY <1>1, <2>2, <2>3, <3>1, HandledOK
    <3> QED
      BY <1>5, <2>2, <3>2 DEF TurnOK
  <2>4. CASE pipe.len # "expected"
    <3>1. r = Rejected(s)
      BY <2>1, <2>4 DEF ProcessGroundCommand
    <3> QED
      BY <1>1, <1>5, <2>2, <3>1, Unchanged DEF TurnOK, Outcome
  <2> QED
    BY <2>3, <2>4
<1>6. CASE pipe.mid = "OTHER"
  <2>1. r = Rejected(s)
    BY <1>6 DEF AppPipe
  <2> QED
    BY <1>6, <2>1 DEF TurnOK
<1> QED
  BY <1>2, <1>3, <1>4, <1>5, <1>6

(* A turn keeps the state good and counts a command once.                  *)
LEMMA TurnGood ==
  ASSUME NEW s, Good(s), NEW r, TurnOK(s, r)
  PROVE  /\ Good(r)
         /\ \/ r.a.cmd + r.a.err =
                 s.a.cmd + s.a.err + IF pipe.mid \in {"CMD", "OTHER"} THEN 1 ELSE 0
            \/ pipe.mid = "CMD" /\ pipe.cc = "RESET" /\ r.a.cmd = 0 /\ r.a.err = 0
<1>1. s.a.cmd \in Nat /\ s.a.err \in Nat
  BY DEF Good, AppData
<1>2. CASE pipe.mid \notin {"CMD", "OTHER"}
  <2>1. Done(s, r)
    BY <1>2 DEF TurnOK, Cycled
  <2>2. Good(r) /\ r.a.cmd + r.a.err = s.a.cmd + s.a.err + 0
    BY <1>1, <2>1 DEF Done
  <2> QED
    BY <1>2, <2>2
<1>3. CASE pipe.mid \in {"CMD", "OTHER"}
  <2>1. \/ Answer(s, r)
        \/ pipe.mid = "CMD" /\ pipe.cc = "RESET" /\ Good(r) /\ r.a.cmd = 0 /\ r.a.err = 0
        \/ Good(r) /\ r.a.cmd + r.a.err = s.a.cmd + s.a.err + 1
    <3>1. CASE pipe.mid = "OTHER"
      <4>1. Answer(s, r)
        BY <3>1 DEF TurnOK, Answer
      <4> QED
        BY <4>1
    <3>2. CASE pipe.mid = "CMD"
      <4>1. Outcome(s, pipe.cc, r)
        BY <3>2 DEF TurnOK
      <4>2. Answers(s, r) => Answer(s, r)
        BY DEF Answers, Answer
      <4> QED
        BY <3>2, <4>1, <4>2 DEF Outcome
    <3> QED
      BY <1>3, <3>1, <3>2
  <2>2. \/ Good(r) /\ r.a.cmd + r.a.err = s.a.cmd + s.a.err + 1
        \/ pipe.mid = "CMD" /\ pipe.cc = "RESET" /\ Good(r) /\ r.a.cmd = 0 /\ r.a.err = 0
    BY <2>1, AnswerOK
  <2> QED
    BY <1>3, <2>2
<1> QED
  BY <1>2, <1>3

-------------------------------------------------------------------------------
(* The inductive invariant. *)

LEMMA InitInv ==
  ASSUME Init
  PROVE  AppInv
<1>1. Good(State(app, os))
  BY StartOK DEF Init
<1>2. app.cmd = 0 /\ app.err = 0 /\ given = 0
  BY DEF Init, InitApp
<1>3. MaxGiven \in Nat
  BY NumbersAssumption
<1> QED
  BY <1>1, <1>2, <1>3 DEF Init, AppInv, PipeOK

LEMMA CountsOf ==
  ASSUME AppInv
  PROVE  /\ app.cmd \in Nat /\ app.err \in Nat /\ given \in Nat /\ MaxGiven \in Nat
         /\ app.seq_num \in Nat /\ app \in AppData /\ os \in System
BY NumbersAssumption DEF AppInv, Good, State, AppData

(* A message arrives.                                                      *)
LEMMA ArrivesInv ==
  ASSUME AppInv, Ready, NEW m, Arrives(m), PipeOK', m # NoMessage
  PROVE  AppInv'
<1>1. /\ app.cmd + app.err <= given /\ given \in 0 .. MaxGiven /\ given < MaxGiven
      /\ given' = given + 1 /\ run = "RUN"
  BY DEF AppInv, Ready, Arrives
<1>2. /\ app.cmd + app.err < given + 1 /\ given + 1 \in 0 .. MaxGiven
      /\ app.cmd + app.err <= given + 1
  BY <1>1, CountsOf
<1> QED
  BY <1>1, <1>2 DEF AppInv, Arrives, Good, State, PipesOK

LEMMA AppInitInv ==
  ASSUME AppInv, AppInit
  PROVE  AppInv'
<1>1. pipe = NoMessage /\ pipe' = NoMessage /\ UNCHANGED <<pending, given>>
  BY DEF AppInv, AppInit
<1>2. PipeOK'
  BY <1>1 DEF PipeOK
<1>3. CASE UNCHANGED <<app, os>> /\ run' = "ERROR"
  BY <1>1, <1>2, <1>3 DEF AppInv
<1>4. ASSUME NEW s \in InitEngine(State(InitApp, InitOs)), app' = s.a, os' = s.o,
             run' = IF s.a.enabled THEN "RUN" ELSE "ERROR"
      PROVE  AppInv'
  <2> DEFINE old == State(InitApp, InitOs)
  <2>1. old \in States /\ TableOK(old.a.table)
    BY StartOK DEF Good, States
  <2>2. old.a.cmd = 0 /\ old.a.err = 0
    BY DEF State, InitApp
  <2> HIDE DEF old
  <2>3. Good(s) /\ s.a.cmd = 0 /\ s.a.err = 0
    BY <1>4, <2>1, <2>2, InitEngineOK DEF old
  <2>4. State(s.a, s.o) = s
    BY <2>3 DEF Good, State
  <2>5. s.a.cmd + s.a.err <= given /\ run' \in {"RUN", "ERROR"}
    BY <1>4, <2>3, CountsOf
  <2>6. Good(State(app', os')) /\ app'.cmd + app'.err <= given'
    BY <1>1, <1>4, <2>3, <2>4, <2>5
  <2> QED
    BY <1>1, <1>2, <2>5, <2>6 DEF AppInv
<1> QED
  BY <1>3, <1>4 DEF AppInit

LEMMA GroundCommandInv ==
  ASSUME AppInv, GroundCommand
  PROVE  AppInv'
<1>1. PICK cc \in Codes : \E p \in Payloads(cc) :
        Arrives([mid |-> "CMD", cc |-> cc, len |-> "expected", payload |-> p])
  BY DEF GroundCommand
<1>2. PICK p \in Payloads(cc) :
        Arrives([mid |-> "CMD", cc |-> cc, len |-> "expected", payload |-> p])
  BY <1>1
<1> DEFINE m == [mid |-> "CMD", cc |-> cc, len |-> "expected", payload |-> p]
<1>3. m.mid = "CMD" /\ m.cc = cc /\ m.len = "expected" /\ m.payload = p /\ m # NoMessage
  BY DEF NoMessage
<1>4. Arrives(m)
  BY <1>2
<1> HIDE DEF m
<1>5. PipeOK'
  BY <1>3, <1>4, CodesAssumption DEF PipeOK, Arrives
<1> QED
  BY <1>3, <1>4, <1>5, ArrivesInv DEF GroundCommand

LEMMA BadMessageInv ==
  ASSUME AppInv, BadMessage
  PROVE  AppInv'
<1>1. ASSUME Arrives([mid |-> "CMD", cc |-> "NOOP", len |-> "wrong", payload |-> 0])
      PROVE  AppInv'
  <2> DEFINE m == [mid |-> "CMD", cc |-> "NOOP", len |-> "wrong", payload |-> 0]
  <2>1. m.mid = "CMD" /\ m.cc = "NOOP" /\ m.len = "wrong" /\ m # NoMessage
    BY DEF NoMessage
  <2>2. Arrives(m)
    BY <1>1
  <2> HIDE DEF m
  <2>3. PipeOK'
    BY <2>1, <2>2 DEF PipeOK, Arrives, CommandCodes
  <2> QED
    BY <2>1, <2>2, <2>3, ArrivesInv DEF BadMessage
<1>2. ASSUME Arrives([mid |-> "OTHER"])
      PROVE  AppInv'
  <2> DEFINE m == [mid |-> "OTHER"]
  <2>1. m.mid = "OTHER" /\ m # NoMessage
    BY DEF NoMessage
  <2>2. Arrives(m)
    BY <1>2
  <2> HIDE DEF m
  <2>3. PipeOK'
    BY <2>1, <2>2 DEF PipeOK, Arrives
  <2> QED
    BY <2>1, <2>2, <2>3, ArrivesInv DEF BadMessage
<1> QED
  BY <1>1, <1>2 DEF BadMessage

LEMMA SendHkInv ==
  ASSUME AppInv, SendHk
  PROVE  AppInv'
<1> DEFINE m == [mid |-> "SEND_HK"]
<1>1. m.mid = "SEND_HK" /\ m # NoMessage
  BY DEF NoMessage
<1>2. Arrives(m)
  BY DEF SendHk
<1> HIDE DEF m
<1>3. PipeOK'
  BY <1>1, <1>2 DEF PipeOK, Arrives
<1> QED
  BY <1>1, <1>2, <1>3, ArrivesInv DEF SendHk

LEMMA WakeupInv ==
  ASSUME AppInv, Wakeup
  PROVE  AppInv'
<1>1. PICK c \in Channels, seq \in 1 .. 2, eid \in Peers \cup {app.table.global["local_eid"]} :
        /\ eid \notin Peers => seq <= app.seq_num
        /\ Arrives([mid |-> "WAKE_UP", pdu |-> [chan |-> c, eid |-> eid, seq |-> seq]])
  BY DEF Wakeup
<1> DEFINE m == [mid |-> "WAKE_UP", pdu |-> [chan |-> c, eid |-> eid, seq |-> seq]]
<1>2. /\ m.mid = "WAKE_UP" /\ m.pdu.chan = c /\ m.pdu.eid = eid /\ m.pdu.seq = seq
      /\ m # NoMessage
  BY DEF NoMessage
<1>3. Arrives(m)
  BY <1>1
<1> HIDE DEF m
<1>4. eid \in Nat /\ seq \in Nat /\ (eid \in Peers \/ seq <= app.seq_num)
  <2>1. TableOK(app.table)
    BY DEF AppInv, Good, State
  <2>2. app.table.global["local_eid"] \in Nat
    BY <2>1, GlobalsAreNumbers DEF GlobalParams
  <2>3. eid \in Nat
    BY <2>2, ValuesAssumption
  <2>4. seq \in Nat /\ (eid \in Peers \/ seq <= app.seq_num)
    BY <1>1
  <2> QED
    BY <2>3, <2>4
<1>5. PipeOK'
  BY <1>2, <1>3, <1>4 DEF PipeOK, Arrives
<1> QED
  BY <1>2, <1>3, <1>5, ArrivesInv DEF Wakeup

LEMMA ProcessInv ==
  ASSUME AppInv, Process
  PROVE  AppInv'
<1> DEFINE s == State(app, os)
<1>1. s = State(app, os) /\ s.a = app /\ s.o = os /\ Good(s)
  BY DEF AppInv, State
<1>2. PICK r \in AppPipe(s) : app' = r.a /\ os' = r.o
  BY DEF Process
<1> HIDE DEF s
<1>3. pipe # NoMessage /\ UNCHANGED <<run, given>> /\ run = "RUN" /\ pipe' = NoMessage
      /\ (pending' = NoTable \/ pending' = pending)
  BY DEF Process
<1>4. TurnOK(s, r)
  BY <1>1, <1>2, <1>3, AppPipeOK
<1>5. /\ Good(r)
      /\ \/ r.a.cmd + r.a.err =
              s.a.cmd + s.a.err + IF pipe.mid \in {"CMD", "OTHER"} THEN 1 ELSE 0
         \/ pipe.mid = "CMD" /\ pipe.cc = "RESET" /\ r.a.cmd = 0 /\ r.a.err = 0
  BY <1>1, <1>4, TurnGood
<1>6. app.cmd + app.err < given
  BY <1>3 DEF AppInv
<1>7. r.a.cmd + r.a.err <= given
  BY <1>1, <1>5, <1>6, CountsOf
<1>8. State(r.a, r.o) = r
  BY <1>5 DEF Good, State
<1>9. Good(State(app', os')) /\ app'.cmd + app'.err <= given'
  BY <1>2, <1>3, <1>5, <1>7, <1>8
<1>10. PipeOK' /\ (pending' = NoTable \/ TableOK(pending'))
  BY <1>3 DEF PipeOK, AppInv
<1> QED
  BY <1>3, <1>9, <1>10 DEF AppInv

LEMMA OtherInv ==
  ASSUME AppInv, Fails \/ LoadTable \/ UNCHANGED vars
  PROVE  AppInv'
<1>1. CASE Fails
  BY <1>1 DEF Fails, AppInv, PipeOK
<1>2. CASE LoadTable
  <2>1. PICK t \in Tables : ValidateConfigTable(t) /\ pending' = t
    BY <1>2 DEF LoadTable
  <2>2. TableOK(pending')
    BY <2>1, ValidTable
  <2>3. /\ UNCHANGED <<run, app, os, pipe>> /\ given' = given + 1 /\ given < MaxGiven
        /\ pipe = NoMessage /\ run = "RUN"
    BY <1>2 DEF LoadTable, Ready
  <2>4. app.cmd + app.err <= given /\ given \in 0 .. MaxGiven
    BY DEF AppInv
  <2>5. app.cmd + app.err <= given + 1 /\ given + 1 \in 0 .. MaxGiven
    BY <2>3, <2>4, CountsOf
  <2>6. PipeOK'
    BY <2>3 DEF PipeOK
  <2> QED
    BY <2>2, <2>3, <2>5, <2>6 DEF AppInv
<1>3. CASE UNCHANGED vars
  BY <1>3 DEF vars, AppInv, PipeOK
<1> QED
  BY <1>1, <1>2, <1>3

LEMMA NextInv ==
  ASSUME AppInv, [Next]_vars
  PROVE  AppInv'
<1>1. CASE AppInit
  BY <1>1, AppInitInv
<1>2. CASE GroundCommand
  BY <1>2, GroundCommandInv
<1>3. CASE BadMessage
  BY <1>3, BadMessageInv
<1>4. CASE SendHk
  BY <1>4, SendHkInv
<1>5. CASE Wakeup
  BY <1>5, WakeupInv
<1>6. CASE Process
  BY <1>6, ProcessInv
<1>7. CASE Fails \/ LoadTable \/ UNCHANGED vars
  BY <1>7, OtherInv
<1> QED
  BY <1>1, <1>2, <1>3, <1>4, <1>5, <1>6, <1>7 DEF Next

(***************************************************************************)
(* The inductive invariant holds of the application of CF_AppMain: on top  *)
(* of the types, the counters say no more than what was given, the table   *)
(* that waits to be applied is valid, and what this entity sends has a     *)
(* number that the engine gave since it was enabled.                       *)
(***************************************************************************)
THEOREM AppInvariant == Spec => []AppInv
<1>1. Init => AppInv
  BY InitInv
<1>2. AppInv /\ [Next]_vars => AppInv'
  BY NextInv
<1> QED
  BY <1>1, <1>2, PTL DEF Spec

(***************************************************************************)
(* Types, the width of the parameters and the limit of the chunk size,     *)
(* whichever of AppInit, CF_CheckTables and CF_SetParamCmd set them.       *)
(***************************************************************************)
THEOREM AppTypes == Spec => []TypeOK
<1>1. ASSUME AppInv PROVE TypeOK
  <2>1. /\ app.cmd \in Nat /\ app.err \in Nat /\ given \in Nat /\ MaxGiven \in Nat
        /\ app.seq_num \in Nat /\ app \in AppData /\ os \in System
    BY <1>1, CountsOf
  <2>2. app.cmd + app.err <= given /\ given \in 0 .. MaxGiven
    BY <1>1 DEF AppInv
  <2>3. app.cmd \in 0 .. MaxGiven /\ app.err \in 0 .. MaxGiven
    BY <2>1, <2>2
  <2>4. /\ TableOK(app.table) /\ \A c \in Channels : ChannelOK(app.chan[c], app.seq_num)
    BY <1>1 DEF AppInv, Good, State
  <2>5. app.enabled \in BOOLEAN /\ app.frozen \in [Channels -> BOOLEAN]
    BY <2>1 DEF AppData
  <2>6. os.pipes \subseteq Channels /\ os.files \in 0 .. MaxFiles
    BY <2>1 DEF System
  <2>7. ASSUME NEW c \in Channels
        PROVE  /\ \A k \in ChannelParams : app.table.chan[c].param[k] \in 0 .. Modulus(k) - 1
               /\ app.table.chan[c].dequeue_enabled \in BOOLEAN
               /\ app.table.chan[c].polldir \in [Polldirs -> BOOLEAN]
               /\ app.chan[c].txns \in Seq(Txn) /\ Len(app.chan[c].txns) <= NumTxns
               /\ app.chan[c].playback \in BOOLEAN
    <3>1. app.table.chan[c] \in ChannelTable
      BY <2>4 DEF TableOK, Table
    <3>2. app.chan[c] \in Channel /\ TxnsOK(app.chan[c].txns, app.seq_num)
      BY <2>4 DEF ChannelOK
    <3>3. \A k \in ChannelParams : app.table.chan[c].param[k] \in 0 .. Modulus(k) - 1
      BY <2>4 DEF TableOK
    <3>4. /\ app.table.chan[c].dequeue_enabled \in BOOLEAN
          /\ app.table.chan[c].polldir \in [Polldirs -> BOOLEAN]
      BY <3>1 DEF ChannelTable
    <3>5. /\ app.chan[c].txns \in Seq(Txn) /\ Len(app.chan[c].txns) <= NumTxns
          /\ app.chan[c].playback \in BOOLEAN
      BY <3>2 DEF TxnsOK, Channel
    <3> QED
      BY <3>3, <3>4, <3>5
  <2>8. /\ \A k \in GlobalParams : app.table.global[k] \in 0 .. Modulus(k) - 1
        /\ app.table.global["outgoing_file_chunk_size"] <= ChunkLimit
    BY <2>4 DEF TableOK
  <2>9. run \in {"START", "RUN", "ERROR"}
    BY <1>1 DEF AppInv
  <2> QED
    BY <2>1, <2>2, <2>3, <2>5, <2>6, <2>7, <2>8, <2>9 DEF TypeOK
<1>2. AppInv => TypeOK
  BY <1>1
<1> QED
  BY <1>2, AppInvariant, PTL

(***************************************************************************)
(* CF_CFDP_InitEngine and CF_CFDP_DisableEngine leave the pipes matched:   *)
(* all of them exist while the engine is enabled and none otherwise,       *)
(* unless an enabling failed half-way.                                     *)
(***************************************************************************)
THEOREM PipesAreMatched == Spec => []PipesMatch
<1>1. ASSUME AppInv PROVE PipesMatch
  <2>1. PipesOK(State(app, os))
    BY <1>1 DEF AppInv, Good
  <2>2. (\A c \in Channels : app.chan[c].ready) =>
          /\ \A c \in Channels : app.chan[c].pipe
          /\ os.pipes = IF app.enabled THEN Channels ELSE {}
    BY <2>1 DEF PipesOK, State
  <2> QED
    BY <2>2 DEF PipesMatch
<1>2. AppInv => PipesMatch
  BY <1>1
<1> QED
  BY <1>2, AppInvariant, PTL

(***************************************************************************)
(* When entities have numbers of their own, the key by which               *)
(* CF_FindTransactionBySequenceNumber finds a transaction is that of one   *)
(* transaction of the channel only.                                        *)
(***************************************************************************)
THEOREM KeysNameOne == EntitiesDiffer => (Spec => []KeysAreUnique)
<1> SUFFICES ASSUME EntitiesDiffer PROVE Spec => []KeysAreUnique
  OBVIOUS
<1>1. ASSUME AppInv PROVE KeysAreUnique
  <2>1. \A c \in Channels : KeysDiffer(app.chan[c].txns)
    BY <1>1 DEF AppInv, Good, State, ChannelOK, TxnsOK
  <2> QED
    BY <2>1 DEF KeysAreUnique, KeysDiffer, Matches
<1>2. AppInv => KeysAreUnique
  BY <1>1
<1> QED
  BY <1>2, AppInvariant, PTL

-------------------------------------------------------------------------------
(* What a turn may do. *)

(* Only a turn of the loop empties the pipe while the application runs.    *)
LEMMA ProcessedTurn ==
  ASSUME AppInv, [Next]_vars, Processed
  PROVE  Process /\ \E r : /\ TurnOK(State(app, os), r) /\ app' = r.a /\ os' = r.o
                           /\ r \in AppPipe(State(app, os))
<1>1. Process
  <2>1. pipe # NoMessage /\ pipe' = NoMessage /\ run' = "RUN"
    BY DEF Processed
  <2>2. ~Ready
    BY <2>1 DEF Ready
  <2>3. ~AppInit
    BY <2>1 DEF AppInit
  <2>4. ~Fails
    BY <2>1 DEF Fails
  <2>5. ~UNCHANGED vars
    BY <2>1 DEF vars
  <2> QED
    BY <2>2, <2>3, <2>4, <2>5 DEF Next, GroundCommand, BadMessage, SendHk, Wakeup, LoadTable
<1>2. PICK r \in AppPipe(State(app, os)) : app' = r.a /\ os' = r.o
  BY <1>1 DEF Process
<1>3. TurnOK(State(app, os), r)
  BY <1>1, AppPipeOK DEF Process
<1> QED
  BY <1>1, <1>2, <1>3

(***************************************************************************)
(* CF_AppPipe counts every command once, one that is rejected has changed  *)
(* nothing, and the table changes by the commands on it and by one that    *)
(* was loaded while the engine is disabled.                                *)
(***************************************************************************)
THEOREM CommandsDoAllOrNothing == Spec => AllOrNothing
<1> DEFINE Counts == \/ Commanded({"RESET"}) /\ app'.cmd = 0 /\ app'.err = 0
                     \/ app'.cmd + app'.err =
                          app.cmd + app.err + IF pipe.mid \in {"CMD", "OTHER"} THEN 1 ELSE 0
           Refuses == app' = [app EXCEPT !.err = @ + 1] /\ os' = os
           Applies == \/ Commanded({"SET_PARAM", "ENABLE_DEQUEUE", "DISABLE_DEQUEUE",
                                    "ENABLE_DIR_POLLING", "DISABLE_DIR_POLLING"})
                      \/ ~app.enabled /\ app'.table = pending
<1>1. ASSUME AppInv, [Next]_vars, Processed
      PROVE  /\ Counts
             /\ RejectedNow /\ ~Commanded({"ENABLE_ENGINE"}) => Refuses
             /\ app'.table # app.table => Applies
  <2> DEFINE s == State(app, os)
  <2>1. PICK r : TurnOK(s, r) /\ app' = r.a /\ os' = r.o
    BY <1>1, ProcessedTurn
  <2>2. Good(s) /\ s.a = app /\ s.o = os /\ s \in States
    BY <1>1 DEF AppInv, State, Good, States
  <2>3. app.cmd \in Nat /\ app.err \in Nat
    BY <1>1, CountsOf
  <2> HIDE DEF s
  <2>4. Counts
    BY <1>1, <2>1, <2>2, TurnGood DEF Commanded
  <2>5. ASSUME RejectedNow, ~Commanded({"ENABLE_ENGINE"}) PROVE Refuses
    <3>1. r.a.err = s.a.err + 1
      BY <2>1, <2>2, <2>5 DEF RejectedNow
    <3>2. ~Done(s, r)
      BY <2>2, <2>3, <3>1 DEF Done
    <3>3. Answer(s, r)
      <4>1. CASE pipe.mid = "CMD"
        <5>1. Outcome(s, pipe.cc, r)
          BY <2>1, <4>1 DEF TurnOK
        <5>2. r.a.err # 0
          BY <2>2, <2>3, <3>1
        <5>3. pipe.cc # "ENABLE_ENGINE"
          BY <1>1, <2>5, <4>1 DEF Commanded
        <5>4. Answers(s, r) => Answer(s, r)
          BY DEF Answers, Answer
        <5> QED
          BY <5>1, <5>2, <5>3, <5>4 DEF Outcome
      <4>2. CASE pipe.mid = "OTHER"
        BY <2>1, <4>2 DEF TurnOK, Answer
      <4> QED
        BY <2>1, <3>2, <4>1, <4>2 DEF TurnOK, Cycled
    <3>4. r.a = [s.a EXCEPT !.err = s.a.err + 1] /\ r.o = s.o
      BY <2>2, <3>1, <3>3, AnswerOK
    <3> QED
      BY <2>1, <2>2, <3>4
  <2>6. ASSUME app'.table # app.table PROVE Applies
    <3>1. r.a.table # s.a.table
      BY <2>1, <2>2, <2>6
    <3>2. CASE pipe.mid = "CMD"
      <4>1. Outcome(s, pipe.cc, r)
        BY <2>1, <3>2 DEF TurnOK
      <4>2. ~Answers(s, r)
        BY <2>2, <3>1, AnswersOK
      <4>3. pipe.cc \in TableCodes
        BY <3>1, <4>1, <4>2 DEF Outcome
      <4> QED
        BY <1>1, <3>2, <4>3 DEF Commanded, TableCodes
    <3>3. CASE pipe.mid = "SEND_HK"
      BY <2>1, <2>2, <3>1, <3>3 DEF TurnOK
    <3>4. CASE pipe.mid = "OTHER"
      <4>1. r = Rejected(s)
        BY <2>1, <3>4 DEF TurnOK
      <4> QED
        BY <2>2, <3>1, <4>1, Unchanged, AnswersOK
    <3> QED
      BY <2>1, <3>1, <3>2, <3>3, <3>4 DEF TurnOK, Cycled
  <2> HIDE DEF Counts, Refuses, Applies
  <2> QED
    BY <2>4, <2>5, <2>6
<1>2. ASSUME AppInv, [Next]_vars, ~Processed
      PROVE  app'.table = app.table
  <2>1. CASE AppInit
    <3>1. app = InitApp
      BY <1>2, <2>1 DEF AppInv, AppInit
    <3>2. CASE UNCHANGED <<app, os>>
      BY <3>2
    <3>3. ASSUME NEW s \in InitEngine(State(InitApp, InitOs)), app' = s.a
          PROVE  app'.table = app.table
      <4> DEFINE old == State(InitApp, InitOs)
      <4>1. old \in States /\ TableOK(old.a.table)
        BY StartOK DEF Good, States
      <4>2. old.a = app
        BY <3>1 DEF State
      <4> HIDE DEF old
      <4>3. s.a.table = old.a.table
        BY <3>3, <4>1, InitEngineOK DEF old
      <4> QED
        BY <3>3, <4>2, <4>3
    <3> QED
      BY <2>1, <3>2, <3>3 DEF AppInit
  <2>2. CASE Process
    BY <1>2, <2>2 DEF Process, Processed
  <2>3. CASE ~AppInit /\ ~Process
    <3>1. app' = app
      BY <1>2, <2>3 DEF Next, vars, GroundCommand, BadMessage, SendHk, Wakeup, Arrives,
                        Fails, LoadTable
    <3> QED
      BY <3>1
  <2> QED
    BY <2>1, <2>2, <2>3
<1>3. AppInv /\ [Next]_vars =>
        /\ Processed => Counts
        /\ RejectedNow /\ ~Commanded({"ENABLE_ENGINE"}) => Refuses
        /\ app'.table # app.table => Applies
  <2> HIDE DEF Counts, Refuses, Applies
  <2>1. RejectedNow => Processed
    BY DEF RejectedNow
  <2> QED
    BY <1>1, <1>2, <2>1
<1> QED
  BY <1>3, AppInvariant, PTL DEF AllOrNothing, Spec

(* One transaction is found.                                               *)
LEMMA FoundOne ==
  ASSUME NEW a, NEW eid, NEW ts,
         NEW p \in FindAllChannels(a, eid, ts), NEW q \in FindAllChannels(a, eid, ts)
  PROVE  p = q /\ p \in Channels \X (1 .. NumTxns) /\ Matches(a.chan[p[1]].txns[p[2]], eid, ts)
<1>1. /\ p \in Channels \X (1 .. NumTxns) /\ q \in Channels \X (1 .. NumTxns)
      /\ NotAfter(p, q) /\ NotAfter(q, p) /\ Matches(a.chan[p[1]].txns[p[2]], eid, ts)
  BY DEF FindAllChannels, On
<1>2. /\ p[1] \in Int /\ p[2] \in Int /\ q[1] \in Int /\ q[2] \in Int
      /\ p = <<p[1], p[2]>> /\ q = <<q[1], q[2]>>
  BY <1>1, NumbersAssumption DEF Channels
<1>3. p[1] = q[1] /\ p[2] = q[2]
  BY <1>1, <1>2 DEF NotAfter
<1> QED
  BY <1>1, <1>2, <1>3

(***************************************************************************)
(* CF_TsnChanAction with CF_COMPOUND_KEY: what                             *)
(* CF_FindTransactionBySequenceNumberAllChannels returns is one            *)
(* transaction, and no other one changes.                                  *)
(***************************************************************************)
THEOREM OthersStay == Spec => OnlyNamedTransactions
<1> DEFINE Altered == {p \in Channels \X (1 .. NumTxns) :
                         /\ p[2] \in DOMAIN app.chan[p[1]].txns
                         /\ app'.chan[p[1]].txns[p[2]] # app.chan[p[1]].txns[p[2]]}
           Named == /\ Cardinality(Altered) <= 1
                    /\ \A p \in Altered :
                         Matches(app.chan[p[1]].txns[p[2]], pipe.payload.eid, pipe.payload.ts)
<1>1. ASSUME AppInv, [Next]_vars, Commanded(TxnCodes), pipe.payload.chan = CompoundKey
      PROVE  Named
  <2> DEFINE s == State(app, os)
             found == FindAllChannels(app, pipe.payload.eid, pipe.payload.ts)
  <2>1. Processed /\ pipe.mid = "CMD" /\ pipe.cc \in TxnCodes
    BY <1>1 DEF Commanded
  <2>2. PICK r \in AppPipe(s) : app' = r.a /\ os' = r.o
    BY <1>1, <2>1, ProcessedTurn
  <2>3. Good(s) /\ s.a = app /\ s \in States /\ s.a \in AppData
    BY <1>1 DEF AppInv, State, Good, States
  <2> HIDE DEF s
  <2>4. r \in ProcessGroundCommand(s, pipe)
    BY <2>1, <2>2 DEF AppPipe
  <2>5. ASSUME NEW c \in Channels, NEW i \in DOMAIN app.chan[c].txns, <<c, i>> \notin found
        PROVE  app'.chan[c].txns[i] = app.chan[c].txns[i]
    <3>1. CASE r = Rejected(s)
      <4>1. r.a = [s.a EXCEPT !.err = s.a.err + 1]
        BY <2>3, <3>1, CountedStates
      <4>2. r.a.chan = s.a.chan
        BY <2>3, <4>1 DEF AppData
      <4> QED
        BY <2>2, <2>3, <4>2
    <3>2. CASE pipe.len = "expected" /\ r # Rejected(s)
      <4>1. r \in Handled(s, pipe.cc, pipe.payload)
        BY <2>4, <3>2 DEF ProcessGroundCommand
      <4>2. PICK fn : KeepsKeys(fn) /\ r = TsnChanAction(s, pipe.payload, fn)
        BY <2>1, <4>1, TxnCommand
      <4>3. Chosen(s, pipe.payload) = found
        BY <1>1, <2>3 DEF Chosen
      <4>4. r.a.chan[c].txns[i] = s.a.chan[c].txns[i]
        BY <2>3, <2>5, <3>2, <4>2, <4>3, TsnChanActionOK
      <4> QED
        BY <2>2, <2>3, <4>4
    <3> QED
      BY <2>4, <3>1, <3>2 DEF ProcessGroundCommand
  <2>6. Altered \subseteq found
    <3> SUFFICES ASSUME NEW p \in Altered PROVE p \in found
      OBVIOUS
    <3>1. /\ p[1] \in Channels /\ p[2] \in DOMAIN app.chan[p[1]].txns /\ p = <<p[1], p[2]>>
          /\ app'.chan[p[1]].txns[p[2]] # app.chan[p[1]].txns[p[2]]
      OBVIOUS
    <3> QED
      BY <2>5, <3>1
  <2>7. \A p, q \in Altered : p = q
    BY <2>6, FoundOne
  <2>8. \A p \in Altered :
          Matches(app.chan[p[1]].txns[p[2]], pipe.payload.eid, pipe.payload.ts)
    BY <2>6, FoundOne
  <2> HIDE DEF Altered
  <2>9. Cardinality(Altered) <= 1
    <3>1. CASE Altered = {}
      BY <3>1, FS_EmptySet
    <3>2. CASE Altered # {}
      <4>1. PICK p : p \in Altered
        BY <3>2
      <4>2. Altered = {p}
        BY <2>7, <4>1
      <4>3. Cardinality({p}) = 1
        BY FS_Singleton
      <4>4. Cardinality(Altered) = 1
        BY <4>2, <4>3
      <4> QED
        BY <4>4
    <3> QED
      BY <3>1, <3>2
  <2> QED
    BY <2>8, <2>9
<1>2. AppInv /\ [Next]_vars =>
        (Commanded(TxnCodes) /\ pipe.payload.chan = CompoundKey => Named)
  BY <1>1
<1> QED
  BY <1>2, AppInvariant, PTL DEF OnlyNamedTransactions, Spec

(***************************************************************************)
(* CF_CFDP_CycleEngine on a frozen channel: a PDU may be received, and     *)
(* nothing else is done.                                                   *)
(***************************************************************************)
THEOREM FrozenChannelsOnlyReceive == Spec => FrozenOnlyReceives
<1> DEFINE Keeps(old, new) == /\ Len(new) >= Len(old) /\ SubSeq(new, 1, Len(old)) = old
                              /\ \A i \in Len(old) + 1 .. Len(new) : new[i].dir = "RX"
<1>1. ASSUME NEW old \in Seq(Txn), NEW new,
             new = old \/ \E t \in Txn : t.dir = "RX" /\ new = Append(old, t)
      PROVE  Keeps(old, new)
  <2> DEFINE len == Len(old)
  <2>1. len \in Nat /\ DOMAIN old = 1 .. len
    OBVIOUS
  <2>2. CASE new = old
    <3>1. SubSeq(old, 1, Len(old)) = old
      OBVIOUS
    <3> QED
      BY <2>1, <2>2, <3>1
  <2>3. ASSUME NEW t \in Txn, t.dir = "RX", new = Append(old, t) PROVE Keeps(old, new)
    <3>1. /\ new \in Seq(Txn) /\ Len(new) = len + 1 /\ new[len + 1] = t
          /\ \A i \in 1 .. len : new[i] = old[i]
      BY <2>3
    <3> HIDE DEF len
    <3>2. SubSeq(new, 1, len) = old
      <4>1. SubSeq(new, 1, len) \in Seq(Txn) /\ Len(SubSeq(new, 1, len)) = len
            /\ \A i \in 1 .. len : SubSeq(new, 1, len)[i] = new[i]
        BY <2>1, <3>1, SubSeqProperties
      <4> QED
        BY <2>1, <3>1, <4>1, SeqEqual DEF len
    <3>3. Len(new) >= len /\ \A i \in len + 1 .. Len(new) : i = len + 1
      BY <2>1, <3>1
    <3> QED
      BY <2>3, <3>1, <3>2, <3>3 DEF len
  <2> QED
    BY <1>1, <2>2, <2>3
<1> HIDE DEF Keeps
<1>2. ASSUME AppInv, [Next]_vars, Processed, pipe.mid = "WAKE_UP",
             NEW c \in Channels, app.frozen[c]
      PROVE  /\ Keeps(app.chan[c].txns, app'.chan[c].txns)
             /\ app'.chan[c].playback = app.chan[c].playback
  <2> DEFINE s == State(app, os)
  <2>1. PICK r : TurnOK(s, r) /\ app' = r.a
    BY <1>2, ProcessedTurn
  <2>2. Good(s) /\ s.a = app
    BY <1>2 DEF AppInv, State
  <2> HIDE DEF s
  <2>3. Received(app.chan[c], app'.chan[c])
    BY <1>2, <2>1, <2>2 DEF TurnOK
  <2>4. app.chan[c].txns \in Seq(Txn)
    BY <2>2, ChannelsOf
  <2> QED
    BY <1>1, <2>3, <2>4 DEF Received
<1>3. AppInv /\ [Next]_vars =>
        (Processed /\ pipe.mid = "WAKE_UP" =>
           \A c \in {d \in Channels : app.frozen[d]} :
             /\ Keeps(app.chan[c].txns, app'.chan[c].txns)
             /\ app'.chan[c].playback = app.chan[c].playback)
  BY <1>2
<1>4. AppInv /\ [Next]_vars =>
        (Processed /\ pipe.mid = "WAKE_UP" =>
           \A c \in {d \in Channels : app.frozen[d]} :
             LET old == app.chan[c].txns
                 new == app'.chan[c].txns
             IN  /\ Len(new) >= Len(old) /\ SubSeq(new, 1, Len(old)) = old
                 /\ \A i \in Len(old) + 1 .. Len(new) : new[i].dir = "RX"
                 /\ app'.chan[c].playback = app.chan[c].playback)
  BY <1>3 DEF Keeps
<1> QED
  BY <1>4, AppInvariant, PTL DEF FrozenOnlyReceives, Spec
===============================================================================
