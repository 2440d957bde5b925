--------------------------------- MODULE CF_App ---------------------------------
(***************************************************************************)
(* The application around the engine: CF_AppMain and its command pipe, the *)
(* ground commands of cf_cmd.c on all channels, the configuration table    *)
(* and its parameters, and what enabling and disabling the engine does to  *)
(* transactions, their numbers and the pipes of the channels.              *)
(*                                                                         *)
(* A transaction is reduced to its identity and to what commands do to it; *)
(* queues, histories and counters of a channel are CF_TxnPool's.  Events   *)
(* are left out, and so are the counters of PDUs and faults.               *)
(***************************************************************************)
EXTENDS Integers, Sequences, FiniteSets, SequencesExt

CONSTANTS NumChannels,      \* CF_NUM_CHANNELS
          NumPolldirs,      \* CF_MAX_POLLING_DIR_PER_CHAN
          NumTxns,          \* CF_NUM_TRANSACTIONS_PER_CHANNEL
          ChunkLimit,       \* sizeof(CF_CFDP_PduFileDataContent_t)
          MaxFiles,         \* what OSAL lets be open at a time
          Peers,            \* entities that send files to this one
          Keys,             \* parameters that commands name
          ParamValues,      \* values that commands give them
          WordModulus,      \* 2^32; in a run less, because TLC has no such numbers
          Codes,            \* commands given, among CommandCodes
          MaxGiven          \* bound of the model: messages and PDUs received

ASSUME NumbersAssumption ==
  /\ NumChannels \in 1 .. 200 /\ NumPolldirs \in 1 .. 200 /\ NumTxns \in Nat \ {0}
  /\ ChunkLimit \in Nat \ {0} /\ ChunkLimit <= 65535
  /\ MaxFiles \in Nat /\ MaxGiven \in Nat
  /\ WordModulus \in Nat /\ WordModulus > 65535
ASSUME ValuesAssumption == Peers \subseteq Nat \ {0} /\ ParamValues \subseteq Nat

Channels == 0 .. NumChannels - 1
Polldirs == 0 .. NumPolldirs - 1
All == 255                  \* CF_ALL_CHANNELS, CF_ALL_POLLDIRS
CompoundKey == 254          \* CF_COMPOUND_KEY
LocalEid == 0               \* of the table that AppInit loads

(* CF_GetSet_ValueID_t; the width of each is that of its field. *)
GlobalParams == {"ticks_per_second", "rx_crc_calc_bytes_per_wakeup",
                 "outgoing_file_chunk_size", "local_eid"}
ChannelParams == {"ack_timer_s", "nak_timer_s", "inactivity_timer_s", "ack_limit", "nak_limit",
                  "chan_max_outgoing_messages_per_wakeup"}
Modulus(key) ==
  CASE key \in {"ack_limit", "nak_limit"} -> 256
    [] key = "outgoing_file_chunk_size" -> 65536
    [] OTHER -> WordModulus

ASSUME KeysAssumption == Keys \subseteq GlobalParams \cup ChannelParams \cup {"invalid"}

(* CF_ConfigTable_t and CF_ChannelConfig_t, with small values instead of   *)
(* those of cf_def_config.c; CF_ValidateConfigTable accepts both.          *)
DefaultTable ==
  [global |-> [k \in GlobalParams |-> CASE k = "rx_crc_calc_bytes_per_wakeup" -> 1024
                                        [] k = "local_eid" -> LocalEid
                                        [] OTHER -> 1],
   chan   |-> [c \in Channels |->
     [param |-> [k \in ChannelParams |-> 1], semaphore |-> FALSE,
      dequeue_enabled |-> TRUE, polldir |-> [d \in Polldirs |-> FALSE]]]]

NoTable == [global |-> <<>>]

(* Tables that the ground loads, some of them wrong. *)
Tables ==
  {[DefaultTable EXCEPT !.global["local_eid"] = 1],
   [DefaultTable EXCEPT !.global["ticks_per_second"] = 0],
   [DefaultTable EXCEPT !.global["rx_crc_calc_bytes_per_wakeup"] = 1000],
   [DefaultTable EXCEPT !.global["outgoing_file_chunk_size"] = ChunkLimit + 1],
   [DefaultTable EXCEPT !.chan[0].semaphore = TRUE]}

Txn == [eid : Nat, seq : Nat, dir : {"TX", "RX"}, state : {"PEND", "ACTIVE", "HOLD"},
        suspended : BOOLEAN, canceled : BOOLEAN]

NewTxn(eid, seq, dir) ==
  [eid |-> eid, seq |-> seq, dir |-> dir, state |-> IF dir = "TX" THEN "PEND" ELSE "ACTIVE",
   suspended |-> FALSE, canceled |-> FALSE]

(* A channel as memset leaves it, without pipe and without lists. *)
Zeroed == [pipe |-> FALSE, ready |-> FALSE, txns |-> <<>>, playback |-> FALSE]

VARIABLES
  run,     \* RunStatus of the application
  app,     \* CF_AppData: the command counters, frozen, the table, the engine
  os,      \* the pipes of channels that exist, and the files left open
  pending, \* a table that was loaded and that CFE_TBL_Manage has yet to apply
  pipe,    \* the message in the command pipe
  given

vars == <<run, app, os, pending, pipe, given>>

NoMessage == [mid |-> "NONE"]

InitApp ==
  [cmd |-> 0, err |-> 0, frozen |-> [c \in Channels |-> FALSE], table |-> DefaultTable,
   enabled |-> FALSE, seq_num |-> 0, chan |-> [c \in Channels |-> Zeroed]]

InitOs == [pipes |-> {}, files |-> 0]

-------------------------------------------------------------------------------
(* Every handler gives [a |-> CF_AppData, o |-> the operating system]      *)
(* afterwards, or the set of them where what it calls may fail.            *)

State(a, o) == [a |-> a, o |-> o]
Accepted(s) == [s EXCEPT !.a.cmd = @ + 1]
Rejected(s) == [s EXCEPT !.a.err = @ + 1]
Counted(r) == IF r.ok THEN Accepted(r.s) ELSE Rejected(r.s)

(* CF_ResetCountersCmd; the other counters are left out. *)
ResetCountersCmd(s, param) ==
  IF param > 4 THEN Rejected(s)
  ELSE IF param \in {0, 1} THEN [s EXCEPT !.a.cmd = 0, !.a.err = 0]
  ELSE Accepted(s)

(* The number and the entity of a new transaction. *)
TxFile_Initiate(s, c) ==
  [s EXCEPT !.a.seq_num = @ + 1,
            !.a.chan[c].txns =
              Append(@, NewTxn(s.a.table.global["local_eid"], s.a.seq_num + 1, "TX"))]

HasUnused(s, c) == s.a.chan[c].ready /\ Len(s.a.chan[c].txns) < NumTxns

BadParam(tx) == tx.cfdp_class \notin {0, 1} \/ tx.chan_num >= NumChannels \/ tx.keep > 1

TxFileCmd(s, tx) ==
  IF BadParam(tx) \/ ~HasUnused(s, tx.chan_num) THEN Rejected(s)
  ELSE Accepted(TxFile_Initiate(s, tx.chan_num))

(* CF_CFDP_PlaybackDir: one playback directory per channel, which may fail *)
(* to open.                                                                *)
PlaybackDir(s, c) ==
  [ok : {FALSE}, s : {s}]
    \cup IF s.a.chan[c].playback THEN {}
         ELSE [ok : {TRUE}, s : {[s EXCEPT !.a.chan[c].playback = TRUE]}]

PlaybackDirCmd(s, tx) ==
  IF BadParam(tx) THEN {Rejected(s)} ELSE {Counted(r) : r \in PlaybackDir(s, tx.chan_num)}

(* CF_DoChanAction: one channel or all of them.  Its handlers take every    *)
(* channel that they are given, or fail on each for another argument.       *)
DoChanAction(chan_num) == IF chan_num = All THEN Channels ELSE {chan_num} \cap Channels

FreezeThaw(s, chan_num, barg) ==
  LET chosen == DoChanAction(chan_num)
  IN  IF chosen = {} THEN Rejected(s)
      ELSE Accepted([s EXCEPT !.a.frozen =
                       [c \in Channels |-> IF c \in chosen THEN barg ELSE s.a.frozen[c]]])

EnableDisableDequeue(s, chan_num, barg) ==
  LET chosen == DoChanAction(chan_num)
      Chan(c) == [s.a.table.chan[c] EXCEPT !.dequeue_enabled = IF c \in chosen THEN barg ELSE @]
  IN  IF chosen = {} THEN Rejected(s)
      ELSE Accepted([s EXCEPT !.a.table.chan = [c \in Channels |-> Chan(c)]])

EnableDisablePolldir(s, chan_num, polldir, barg) ==
  LET chosen == DoChanAction(chan_num)
               \X (IF polldir = All THEN Polldirs ELSE {polldir} \cap Polldirs)
      Polldir(c, d) == IF <<c, d>> \in chosen THEN barg ELSE s.a.table.chan[c].polldir[d]
      Chan(c) == [s.a.table.chan[c] EXCEPT !.polldir = [d \in Polldirs |-> Polldir(c, d)]]
  IN  IF chosen = {} THEN Rejected(s)
      ELSE Accepted([s EXCEPT !.a.table.chan = [c \in Channels |-> Chan(c)]])

FinishTransaction(t) == [t EXCEPT !.state = "HOLD"]

(* 0 is the pending queue, 1 the history, which CF_TxnPool has, 2 both. *)
PurgeQueueCmd(s, chan_num, which) ==
  LET chosen == DoChanAction(chan_num)
      Old(c) == s.a.chan[c].txns
      Purged(c, t) == IF c \in chosen /\ which \in {0, 2} /\ t.state = "PEND"
                        THEN FinishTransaction(t) ELSE t
      Chan(c) == [s.a.chan[c] EXCEPT !.txns = [i \in DOMAIN Old(c) |-> Purged(c, Old(c)[i])]]
  IN  IF chosen = {} \/ which \notin 0 .. 2 THEN Rejected(s)
      ELSE Accepted([s EXCEPT !.a.chan = [c \in Channels |-> Chan(c)]])

Matches(t, eid, ts) == t.eid = eid /\ t.seq = ts
FindOn(a, c, eid, ts) ==
  {i \in DOMAIN a.chan[c].txns : Matches(a.chan[c].txns[i], eid, ts)}

(* The transactions of a set of channels. *)
On(a, cs) == {p \in cs \X (1 .. NumTxns) : p[2] \in DOMAIN a.chan[p[1]].txns}

NotAfter(p, q) == p[1] < q[1] \/ (p[1] = q[1] /\ p[2] <= q[2])

(* Mutant: the number alone is the key. *)
FindAllChannels_SeqOnly(a, eid, ts) ==
  LET found == {p \in On(a, Channels) : a.chan[p[1]].txns[p[2]].seq = ts}
  IN  {p \in found : \A q \in found : NotAfter(p, q)}

(* The first one with this key on the first channel that has any. *)
FindAllChannels(a, eid, ts) ==
  LET found == {p \in On(a, Channels) : Matches(a.chan[p[1]].txns[p[2]], eid, ts)}
  IN  {p \in found : \A q \in found : NotAfter(p, q)}

(* CF_TsnChanAction: fn, a function on transactions, is applied to one of   *)
(* them, or to all of a channel or of all channels; accepted if any is      *)
(* found.                                                                   *)
TsnChanAction(s, data, fn) ==
  LET chosen == IF data.chan = CompoundKey THEN FindAllChannels(s.a, data.eid, data.ts)
                ELSE IF data.chan = All THEN On(s.a, Channels)
                ELSE On(s.a, {data.chan} \cap Channels)
      Old(c) == s.a.chan[c].txns
      New(c, i) == IF <<c, i>> \in chosen THEN fn[Old(c)[i]] ELSE Old(c)[i]
      Chan(c) == [s.a.chan[c] EXCEPT !.txns = [i \in DOMAIN Old(c) |-> New(c, i)]]
  IN  IF chosen = {} THEN Rejected(s)
      ELSE Accepted([s EXCEPT !.a.chan = [c \in Channels |-> Chan(c)]])

(* A transaction that has the flag already is accepted as well. *)
DoSuspRes(s, data, action) ==
  TsnChanAction(s, data, [t \in Txn |-> [t EXCEPT !.suspended = action]])

CancelCmd(s, data) == TsnChanAction(s, data, [t \in Txn |-> [t EXCEPT !.canceled = TRUE]])

AbandonCmd(s, data) == TsnChanAction(s, data, [t \in Txn |-> FinishTransaction(t)])

(* The queues that a command writes. *)
Parts(wq) ==
  LET Of(q) == wq.queue \in {"all", q}
      up == wq.type \in {"all", "up"}
      down == wq.type \in {"all", "down"}
  IN  {p \in {"RX", "TX", "PEND", "HIST_RX", "HIST_TX"} :
         CASE p = "RX" -> up /\ Of("active")
           [] p = "TX" -> down /\ Of("active")
           [] p = "PEND" -> down /\ Of("pend")
           [] p = "HIST_RX" -> up /\ Of("history")
           [] p = "HIST_TX" -> down /\ Of("history")}

(* A queue that has an entry may fail to be written; histories, which are  *)
(* CF_TxnPool's, may have any.                                             *)
WriteMayFail(a, c, part) ==
  \/ part \in {"HIST_RX", "HIST_TX"}
  \/ \E t \in Range(a.chan[c].txns) :
       part = (IF t.dir = "RX" THEN "RX" ELSE IF t.state = "PEND" THEN "PEND" ELSE "TX")

(* Mutant: the file stays open when a queue cannot be written. *)
WriteQueueCmd_LeftOpen(s, wq) ==
  IF wq.chan >= NumChannels \/ (wq.type = "up" /\ wq.queue = "pend") THEN {Rejected(s)}
  ELSE LET Opened == [s EXCEPT !.o.files = @ + 1]
       IN  {Rejected(s)}
             \cup (IF s.o.files = MaxFiles THEN {} ELSE {Accepted(Opened), Rejected(Opened)})

(* The file may fail to open; when a queue cannot be written it is closed, *)
(* and when all are written it is left open.                               *)
WriteQueueCmd(s, wq) ==
  IF wq.chan >= NumChannels \/ (wq.type = "up" /\ wq.queue = "pend") THEN {Rejected(s)}
  ELSE LET Opened == [s EXCEPT !.o.files = @ + 1]
           Closed(r) == [r EXCEPT !.o.files = @ - 1]
       IN  {Rejected(s)}
             \cup (IF s.o.files = MaxFiles THEN {} ELSE {Accepted(Opened)})
             \cup {Rejected(Closed(Opened)) : p \in
                     {q \in Parts(wq) : s.o.files < MaxFiles /\ WriteMayFail(s.a, wq.chan, q)}}

(* CF_ValidateChunkSizeCmd and CF_ValidateMaxOutgoingCmd. *)
ValidParam(a, key, value, chan_num) ==
  CASE key = "outgoing_file_chunk_size" -> value <= ChunkLimit
    [] key = "chan_max_outgoing_messages_per_wakeup" ->
         value # 0 \/ a.table.chan[chan_num].semaphore
    [] OTHER -> TRUE

(* Mutant: a parameter is set whatever its value. *)
SetParamCmd_Unchecked(s, key, value, chan_num) ==
  IF key = "invalid" \/ chan_num >= NumChannels THEN Rejected(s)
  ELSE IF key \in GlobalParams
    THEN Accepted([s EXCEPT !.a.table.global[key] = value % Modulus(key)])
  ELSE Accepted([s EXCEPT !.a.table.chan[chan_num].param[key] = value % Modulus(key)])

SetParamCmd(s, key, value, chan_num) ==
  IF key = "invalid" \/ chan_num >= NumChannels \/ ~ValidParam(s.a, key, value, chan_num)
    THEN Rejected(s)
  ELSE IF key \in GlobalParams
    THEN Accepted([s EXCEPT !.a.table.global[key] = value % Modulus(key)])
  ELSE Accepted([s EXCEPT !.a.table.chan[chan_num].param[key] = value % Modulus(key)])

GetParamCmd(s, key, chan_num) ==
  IF key = "invalid" \/ chan_num >= NumChannels THEN Rejected(s) ELSE Accepted(s)

-------------------------------------------------------------------------------
(* The engine *)

(* CF_CFDP_InitEngine up to the channels below n, where it fails if n is   *)
(* not the number of channels: without a pipe, which is so when there is   *)
(* one of its name, or, with one, without subscription or semaphore.       *)
Engine(s, n, extra) ==
  [s EXCEPT
     !.a.enabled = (n = NumChannels), !.a.seq_num = 0,
     !.a.chan = [c \in Channels |-> [Zeroed EXCEPT !.ready = c < n, !.pipe = c < n + extra]],
     !.o.pipes = @ \cup 0 .. n + extra - 1]

InitEngine(s) ==
  LET NoneBelow(n) == s.o.pipes \cap 0 .. n - 1 = {}
  IN  {Engine(s, p[1], p[2]) : p \in {q \in Channels \X {0, 1} : NoneBelow(q[1] + q[2])}}
        \cup (IF NoneBelow(NumChannels) THEN {Engine(s, NumChannels, 0)} ELSE {})

EnableEngineCmd(s) ==
  IF s.a.enabled THEN {Accepted(s)}
  ELSE {Counted([ok |-> r.a.enabled, s |-> r]) : r \in InitEngine(s)}

(* Mutant: the pipes are kept. *)
DisableEngineCmd_KeepsPipes(s) == Accepted([s EXCEPT !.a.enabled = FALSE])

(* Files and directories are closed, the transactions stay.  What a        *)
(* channel knows as its pipe is not cleared.                               *)
DisableEngineCmd(s) ==
  IF ~s.a.enabled THEN Accepted(s)
  ELSE Accepted([s EXCEPT !.a.enabled = FALSE,
                          !.o.pipes = @ \ {c \in Channels : s.a.chan[c].pipe}])

(* What one channel does in a wakeup, a step of CF_Tick or of CF_TxnPool:  *)
(* a pending transaction starts, one ends or is recycled, a directory is   *)
(* played back.                                                            *)
CycleChannel(s, c) ==
  LET txns == s.a.chan[c].txns
      In(i, state) == [s EXCEPT !.a.chan[c].txns[i].state = state]
  IN  {In(i, "ACTIVE") : i \in {j \in DOMAIN txns :
         txns[j].state = "PEND" /\ s.a.table.chan[c].dequeue_enabled}}
        \cup {In(i, "HOLD") : i \in {j \in DOMAIN txns : txns[j].state = "ACTIVE"}}
        \cup {[s EXCEPT !.a.chan[c].txns = RemoveAt(@, i)] :
                i \in {j \in DOMAIN txns : txns[j].state = "HOLD"}}
        \cup (IF s.a.chan[c].playback
                THEN {[s EXCEPT !.a.chan[c].playback = FALSE]}
                       \cup (IF HasUnused(s, c) THEN {TxFile_Initiate(s, c)} ELSE {})
                ELSE {})

(* Mutant: the transactions there are are not looked at. *)
ReceivePdu_Anew(s, c, eid, seq) ==
  IF ~HasUnused(s, c) THEN s
  ELSE [s EXCEPT !.a.chan[c].txns = Append(@, NewTxn(eid, seq, "RX"))]

(* CF_CFDP_ReceivePdu for a PDU of a file that is sent to this entity: a   *)
(* new transaction unless the channel has one of that number.              *)
ReceivePdu(s, c, eid, seq) ==
  IF FindOn(s.a, c, eid, seq) # {} \/ ~HasUnused(s, c) THEN s
  ELSE [s EXCEPT !.a.chan[c].txns = Append(@, NewTxn(eid, seq, "RX"))]

(* Mutant: frozen channels are cycled too. *)
CycleEngine_Frozen(s, pdu) ==
  IF ~s.a.enabled THEN {s}
  ELSE {ReceivePdu(s, pdu.chan, pdu.eid, pdu.seq), s}
         \cup UNION {CycleChannel(s, c) : c \in Channels}

(* CF_CFDP_CycleEngine: PDUs are received by frozen channels too. *)
CycleEngine(s, pdu) ==
  IF ~s.a.enabled THEN {s}
  ELSE {ReceivePdu(s, pdu.chan, pdu.eid, pdu.seq), s}
         \cup UNION {CycleChannel(s, c) : c \in {d \in Channels : ~s.a.frozen[d]}}

-------------------------------------------------------------------------------
(* The table *)

(* CF_ValidateConfigTable, which CFE calls before a table can be applied. *)
ValidateConfigTable(t) ==
  /\ t.global["ticks_per_second"] # 0
  /\ t.global["rx_crc_calc_bytes_per_wakeup"] # 0
  /\ t.global["rx_crc_calc_bytes_per_wakeup"] % 1024 = 0
  /\ t.global["outgoing_file_chunk_size"] <= ChunkLimit

(* CF_CheckTables when the table services do not fail. *)
CheckTables(s) ==
  IF s.a.enabled \/ pending = NoTable THEN s ELSE [s EXCEPT !.a.table = pending]

-------------------------------------------------------------------------------
(* Commands *)

CommandCodes ==
  {"NOOP", "RESET", "TX_FILE", "PLAYBACK_DIR", "FREEZE", "THAW", "SUSPEND", "RESUME", "CANCEL",
   "ABANDON", "SET_PARAM", "GET_PARAM", "WRITE_QUEUE", "ENABLE_DEQUEUE", "DISABLE_DEQUEUE",
   "ENABLE_DIR_POLLING", "DISABLE_DIR_POLLING", "PURGE_QUEUE", "ENABLE_ENGINE",
   "DISABLE_ENGINE"}

ASSUME CodesAssumption == Codes \subseteq CommandCodes

ChanArgs == Channels \cup {NumChannels, All}
TxnCodes == {"SUSPEND", "RESUME", "CANCEL", "ABANDON"}
TxFiles == [cfdp_class : {1, 2}, chan_num : Channels \cup {NumChannels}, keep : {0, 2}]
WriteQueues == [chan : Channels \cup {NumChannels}, type : {"all", "up", "other"},
                queue : {"pend", "active", "history", "all"}]
Payloads(cc) ==
  CASE cc = "RESET" -> {0, 1, 4, 5}
    [] cc \in {"TX_FILE", "PLAYBACK_DIR"} -> TxFiles
    [] cc \in {"FREEZE", "THAW", "ENABLE_DEQUEUE", "DISABLE_DEQUEUE"} -> ChanArgs
    [] cc \in {"ENABLE_DIR_POLLING", "DISABLE_DIR_POLLING"} ->
         ChanArgs \X (Polldirs \cup {NumPolldirs, All})
    [] cc = "PURGE_QUEUE" -> ChanArgs \X (0 .. 3)
    [] cc \in TxnCodes -> [chan : ChanArgs, eid : {LocalEid}, ts : {1}]
         \cup [chan : {CompoundKey}, eid : Peers \cup {LocalEid}, ts : {1, 2}]
    [] cc = "SET_PARAM" -> Keys \X ParamValues \X (Channels \cup {NumChannels})
    [] cc = "GET_PARAM" -> Keys \X (Channels \cup {NumChannels})
    [] cc = "WRITE_QUEUE" -> WriteQueues
    [] OTHER -> {0}

(* The handlers of CF_ProcessGroundCommand. *)
Handled(s, cc, p) ==
  CASE cc = "NOOP" -> {Accepted(s)}
    [] cc = "RESET" -> {ResetCountersCmd(s, p)}
    [] cc = "TX_FILE" -> {TxFileCmd(s, p)}
    [] cc = "PLAYBACK_DIR" -> PlaybackDirCmd(s, p)
    [] cc \in {"FREEZE", "THAW"} -> {FreezeThaw(s, p, cc = "FREEZE")}
    [] cc \in {"SUSPEND", "RESUME"} -> {DoSuspRes(s, p, cc = "SUSPEND")}
    [] cc = "CANCEL" -> {CancelCmd(s, p)}
    [] cc = "ABANDON" -> {AbandonCmd(s, p)}
    [] cc = "SET_PARAM" -> {SetParamCmd(s, p[1], p[2], p[3])}
    [] cc = "GET_PARAM" -> {GetParamCmd(s, p[1], p[2])}
    [] cc = "WRITE_QUEUE" -> WriteQueueCmd(s, p)
    [] cc \in {"ENABLE_DEQUEUE", "DISABLE_DEQUEUE"} ->
         {EnableDisableDequeue(s, p, cc = "ENABLE_DEQUEUE")}
    [] cc \in {"ENABLE_DIR_POLLING", "DISABLE_DIR_POLLING"} ->
         {EnableDisablePolldir(s, p[1], p[2], cc = "ENABLE_DIR_POLLING")}
    [] cc = "PURGE_QUEUE" -> {PurgeQueueCmd(s, p[1], p[2])}
    [] cc = "ENABLE_ENGINE" -> EnableEngineCmd(s)
    [] cc = "DISABLE_ENGINE" -> {DisableEngineCmd(s)}

(* A code without a handler is a command of the wrong length. *)
ProcessGroundCommand(s, m) ==
  IF m.len = "expected" THEN Handled(s, m.cc, m.payload) ELSE {Rejected(s)}

(* CF_AppPipe on the message in the pipe. *)
AppPipe(s) ==
  CASE pipe.mid = "WAKE_UP" -> CycleEngine(s, pipe.pdu)
    [] pipe.mid = "SEND_HK" -> {CheckTables(s)}
    [] pipe.mid = "CMD" -> ProcessGroundCommand(s, pipe)
    [] OTHER -> {Rejected(s)}

-------------------------------------------------------------------------------
(* The application *)

(* CF_AppInit: anything that it calls may fail, and the application ends. *)
AppInit ==
  /\ run = "START"
  /\ \/ /\ run' = "ERROR" /\ UNCHANGED <<app, os>>
     \/ \E s \in InitEngine(State(InitApp, InitOs)) :
          /\ app' = s.a /\ os' = s.o
          /\ run' = IF s.a.enabled THEN "RUN" ELSE "ERROR"
  /\ UNCHANGED <<pending, pipe, given>>

Arrives(m) ==
  /\ pipe' = m /\ given' = given + 1
  /\ UNCHANGED <<run, app, os, pending>>

Ready == run = "RUN" /\ pipe = NoMessage /\ given < MaxGiven

GroundCommand ==
  /\ Ready
  /\ \E cc \in Codes : \E p \in Payloads(cc) :
       Arrives([mid |-> "CMD", cc |-> cc, len |-> "expected", payload |-> p])

BadMessage ==
  /\ Ready
  /\ \/ Arrives([mid |-> "CMD", cc |-> "NOOP", len |-> "wrong", payload |-> 0])
     \/ Arrives([mid |-> "OTHER"])

SendHk == Ready /\ Arrives([mid |-> "SEND_HK"])

(* The PDU that is received is one of a peer's file, or one of a file that *)
(* this entity sends to itself over another channel.                       *)
Wakeup ==
  /\ Ready
  /\ \E c \in Channels, seq \in 1 .. 2, eid \in Peers \cup {app.table.global["local_eid"]} :
       /\ eid \notin Peers => seq <= app.seq_num
       /\ Arrives([mid |-> "WAKE_UP", pdu |-> [chan |-> c, eid |-> eid, seq |-> seq]])

(* One turn of the loop of CF_AppMain. *)
Process ==
  /\ run = "RUN" /\ pipe # NoMessage
  /\ \E s \in AppPipe(State(app, os)) : app' = s.a /\ os' = s.o
  /\ pending' = IF pipe.mid = "SEND_HK" /\ app'.table = pending THEN NoTable ELSE pending
  /\ pipe' = NoMessage
  /\ UNCHANGED <<run, given>>

(* The command pipe or the table services fail. *)
Fails ==
  /\ run = "RUN"
  /\ run' = "ERROR"
  /\ pipe' = NoMessage
  /\ UNCHANGED <<app, os, pending, given>>

(* The ground loads a table, and CFE has it validated. *)
LoadTable ==
  /\ Ready
  /\ \E t \in Tables : ValidateConfigTable(t) /\ pending' = t
  /\ given' = given + 1
  /\ UNCHANGED <<run, app, os, pipe>>

Init ==
  /\ run = "START" /\ app = InitApp /\ os = InitOs
  /\ pending = NoTable /\ pipe = NoMessage /\ given = 0

Next ==
  \/ AppInit \/ GroundCommand \/ BadMessage \/ SendHk \/ Wakeup \/ Process \/ Fails
  \/ LoadTable

Spec == Init /\ [][Next]_vars

-------------------------------------------------------------------------------
(* Properties *)

(***************************************************************************)
(* The types: counters; a table whose parameters have the width of their   *)
(* fields and whose chunk size is one that fits a PDU, whichever way it    *)
(* was set, by the table at start-up, by one that was loaded or by a       *)
(* command; channels that hold no more transactions than there are.        *)
(***************************************************************************)
TypeOK ==
  /\ run \in {"START", "RUN", "ERROR"}
  /\ app.cmd \in 0 .. MaxGiven /\ app.err \in 0 .. MaxGiven /\ given \in 0 .. MaxGiven
  /\ app.enabled \in BOOLEAN /\ app.seq_num \in Nat
  /\ app.frozen \in [Channels -> BOOLEAN]
  /\ \A k \in GlobalParams : app.table.global[k] \in 0 .. Modulus(k) - 1
  /\ app.table.global["outgoing_file_chunk_size"] <= ChunkLimit
  /\ \A c \in Channels :
       /\ \A k \in ChannelParams : app.table.chan[c].param[k] \in 0 .. Modulus(k) - 1
       /\ app.table.chan[c].dequeue_enabled \in BOOLEAN
       /\ app.table.chan[c].polldir \in [Polldirs -> BOOLEAN]
       /\ app.chan[c].txns \in Seq(Txn) /\ Len(app.chan[c].txns) <= NumTxns
       /\ app.chan[c].playback \in BOOLEAN
  /\ os.pipes \subseteq Channels /\ os.files \in 0 .. MaxFiles

(***************************************************************************)
(* The pipes of the channels exist as long as the engine is enabled: each  *)
(* channel has its own then, and an engine that was disabled has left none *)
(* behind, so that it can be enabled again.  What an enabling that failed  *)
(* half-way has made is the exception: those pipes stay.                   *)
(***************************************************************************)
PipesMatch ==
  LET Known == {c \in Channels : app.chan[c].pipe}
      HalfWay == \E c \in Channels : ~app.chan[c].ready
  IN  ~HalfWay =>
        /\ Known = Channels
        /\ os.pipes = (IF app.enabled THEN Channels ELSE {})

(***************************************************************************)
(* A channel never has two transactions of the same entity and number,     *)
(* although the engine restarts its numbers when it is enabled and sends   *)
(* and receives in one list.  The comment of                               *)
(* CF_FindTransactionBySequenceNumberAllChannels rests on it.  It does not *)
(* hold against PDUs that outlive the engine that sent them: Wakeup has    *)
(* no PDU of a number of this entity that is still to come.                *)
(***************************************************************************)
KeysAreUnique ==
  \A c \in Channels : \A i, j \in DOMAIN app.chan[c].txns :
    Matches(app.chan[c].txns[i], app.chan[c].txns[j].eid, app.chan[c].txns[j].seq) => i = j

Processed == pipe # NoMessage /\ pipe' = NoMessage /\ run' = "RUN"
Commanded(codes) == Processed /\ pipe.mid = "CMD" /\ pipe.cc \in codes
RejectedNow == Processed /\ app'.err = app.err + 1

(***************************************************************************)
(* Every command is counted exactly once, as accepted or as rejected, with *)
(* whatever length and arguments it comes and however its handler fails.   *)
(* One that is counted as rejected has changed nothing, on no channel: no  *)
(* transaction, parameter or switch, and no file stays open.  Enabling the *)
(* engine is the exception, which wipes it before it fails.                *)
(* A table that was loaded is applied as it is, and "table updates are not *)
(* processed while the engine is enabled" (cf_fcncodes.h).                 *)
(***************************************************************************)
AllOrNothing ==
  [][/\ Processed =>
          \/ Commanded({"RESET"}) /\ app'.cmd = 0 /\ app'.err = 0
          \/ app'.cmd + app'.err =
               app.cmd + app.err + IF pipe.mid \in {"CMD", "OTHER"} THEN 1 ELSE 0
     /\ RejectedNow /\ ~Commanded({"ENABLE_ENGINE"})
          => app' = [app EXCEPT !.err = @ + 1] /\ os' = os
     /\ app'.table # app.table =>
          \/ Commanded({"SET_PARAM", "ENABLE_DEQUEUE", "DISABLE_DEQUEUE",
                        "ENABLE_DIR_POLLING", "DISABLE_DIR_POLLING"})
          \/ ~app.enabled /\ app'.table = pending]_vars

(***************************************************************************)
(* A command that names a transaction by entity and number changes no      *)
(* other one, though other channels and entities use the same number.      *)
(***************************************************************************)
OnlyNamedTransactions ==
  [][Commanded(TxnCodes) /\ pipe.payload.chan = CompoundKey =>
       LET Changed == {p \in Channels \X (1 .. NumTxns) :
             /\ p[2] \in DOMAIN app.chan[p[1]].txns
             /\ app'.chan[p[1]].txns[p[2]] # app.chan[p[1]].txns[p[2]]}
       IN  /\ Cardinality(Changed) <= 1
           /\ \A p \in Changed :
                Matches(app.chan[p[1]].txns[p[2]], pipe.payload.eid, pipe.payload.ts)]_vars

(***************************************************************************)
(* A wakeup leaves the transactions of a frozen channel as they are: it    *)
(* may add one that is received, and it starts, ends and plays back none.  *)
(***************************************************************************)
FrozenOnlyReceives ==
  [][Processed /\ pipe.mid = "WAKE_UP" =>
       \A c \in {d \in Channels : app.frozen[d]} :
         LET old == app.chan[c].txns
             new == app'.chan[c].txns
         IN  /\ Len(new) >= Len(old) /\ SubSeq(new, 1, Len(old)) = old
             /\ \A i \in Len(old) + 1 .. Len(new) : new[i].dir = "RX"
             /\ app'.chan[c].playback = app.chan[c].playback]_vars

===============================================================================
