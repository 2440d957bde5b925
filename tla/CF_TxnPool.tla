------------------------------ MODULE CF_TxnPool ------------------------------
(***************************************************************************)
(* The resources of one channel (CF_Channel_t) and how transactions, files *)
(* to send, directories to play back and ground commands take and return   *)
(* them: transaction slots, history entries, chunk lists, the queues, and  *)
(* the counters kept beside them.  What a transaction does while it is     *)
(* active is CF_Transfer's; here it fails, completes and is recycled at    *)
(* any time.                                                               *)
(*                                                                         *)
(* The slots on the FREE queue are all alike (CF_FreeTransaction wipes     *)
(* them), so it is a set.  A history entry is reduced to its status.       *)
(***************************************************************************)
EXTENDS Integers, Sequences, FiniteSets, SequencesExt, FiniteSetsExt

CONSTANTS NumTxns,          \* CF_NUM_TRANSACTIONS_PER_CHANNEL
          NumHistories,     \* CF_NUM_HISTORIES_PER_CHANNEL
          MaxRx,            \* CF_MAX_SIMULTANEOUS_RX
          MaxCmdTx,         \* CF_MAX_COMMANDED_PLAYBACK_FILES_PER_CHAN
          TxnsPerPlayback,  \* CF_NUM_TRANSACTIONS_PER_PLAYBACK
          Directories,      \* playback slots that commands use
          Polls,            \* polling directories
          Priorities,
          CounterModulus,   \* the counters are unsigned and wrap around
          Faulty,           \* a file may fail to open
          Commands,         \* ground commands given, among AllCommands
          MaxCommands       \* bound of the model: abandon, purge and disable
                            \* commands given per run

AllCommands == {"tx_file", "playback_dir", "cancel", "abandon", "purge", "engine"}

ASSUME LimitsAssumption ==
  /\ NumTxns \in Nat \ {0} /\ MaxRx \in Nat /\ MaxCmdTx \in Nat
  /\ TxnsPerPlayback \in Nat \ {0} /\ MaxCommands \in Nat
ASSUME HistoriesAssumption == NumHistories \in Nat /\ NumHistories >= NumTxns
ASSUME PlaybacksAssumption ==
  Directories \subseteq Nat \ {0} /\ Polls \subseteq Nat \ {0}
ASSUME PrioritiesAssumption == Priorities \subseteq Nat
ASSUME ModulusAssumption ==
  /\ CounterModulus \in Nat \ {0}
  /\ CounterModulus > NumTxns + NumHistories
  /\ CounterModulus > MaxCmdTx /\ CounterModulus > TxnsPerPlayback
ASSUME FlagsAssumption == Faulty \in BOOLEAN /\ Commands \subseteq AllCommands

Txns == 1 .. NumTxns
Playbacks == Directories \cup Polls
NoPlayback == 0

Dirs == {"RX", "TX"}
QueueIdx == {"PEND", "TX", "RX", "HIST", "HIST_FREE", "FREE"}
TxnStatus == {"NO_ERROR", "ERROR"}

(* uint16 and uint32 arithmetic. *)
Inc(n) == (n + 1) % CounterModulus
Dec(n) == (n - 1) % CounterModulus
Counter == 0 .. CounterModulus - 1

Transaction ==
  [state : {"UNDEF", "INIT", "ACTIVE", "HOLD"}, q_index : {"PEND", "TX", "RX"},
   dir : Dirs, priority : Priorities \cup {0}, txn_stat : TxnStatus,
   chunks : BOOLEAN, cmd_tx : BOOLEAN, keep_history : BOOLEAN,
   pb : Playbacks \cup {NoPlayback}]

Playback ==
  [busy : BOOLEAN, diropen : BOOLEAN, pending_file : BOOLEAN,
   num_ts : Counter, priority : Priorities \cup {0}]

Channel ==
  [txns : [Txns -> Transaction], pend : Seq(Txns), tx : Seq(Txns),
   hist : Seq(TxnStatus), hist_free : Seq(TxnStatus),
   cs : [Dirs -> 0 .. NumTxns], num_cmd_tx : Counter,
   pb : [Playbacks -> Playback]]

(* A transaction as memset leaves it: zero is PEND and, here, RX. *)
Wiped ==
  [state |-> "UNDEF", q_index |-> "PEND", dir |-> "RX", priority |-> 0,
   txn_stat |-> "NO_ERROR", chunks |-> FALSE, cmd_tx |-> FALSE,
   keep_history |-> FALSE, pb |-> NoPlayback]

InitEngine ==
  [txns |-> [t \in Txns |-> Wiped], pend |-> <<>>, tx |-> <<>>,
   hist |-> <<>>, hist_free |-> [i \in 1 .. NumHistories |-> "NO_ERROR"],
   cs |-> [d \in Dirs |-> NumTxns], num_cmd_tx |-> 0,
   pb |-> [p \in Playbacks |-> [busy |-> FALSE, diropen |-> FALSE,
            pending_file |-> FALSE, num_ts |-> 0, priority |-> 0]]]

VARIABLES chan,      \* the channel
          q_size,    \* channel_hk.q_size, kept beside the queues
          enabled,   \* engine.enabled
          commanded  \* commands counted against MaxCommands

vars == <<chan, q_size, enabled, commanded>>

Free(c) == {t \in Txns : c.txns[t].state = "UNDEF"}
Used(c) == Txns \ Free(c)
OnRx(c) == {t \in Used(c) : c.txns[t].q_index = "RX"}
TxnIsOK(c, t) == c.txns[t].txn_stat = "NO_ERROR"

-------------------------------------------------------------------------------
(* The functions of cf_utils.c and cf_cfdp.c on the channel. *)

NextFree(c) == Min(Free(c))

(* Takes a slot and the history entry that goes with it.  The entry keeps  *)
(* the status of the transaction that had it before.                       *)
FindUnusedTransaction(c, dir) ==
  LET fresh   == c.hist_free # <<>>
      history == Head(IF fresh THEN c.hist_free ELSE c.hist)
  IN  [c EXCEPT
         !.txns[NextFree(c)] = [@ EXCEPT !.state = "INIT", !.dir = dir,
                                         !.txn_stat = history],
         !.hist_free = IF fresh THEN Tail(@) ELSE @,
         !.hist      = IF fresh THEN @ ELSE Tail(@)]

(* Mutant: an equally urgent transaction is overtaken. *)
InsertSortPrio_Overtakes(c, queue, t) ==
  LET Urgent == {i \in DOMAIN queue :
                   c.txns[queue[i]].priority < c.txns[t].priority}
  IN  InsertAt(queue, IF Urgent = {} THEN 1 ELSE Max(Urgent) + 1, t)

(* The place behind the last transaction that is not less urgent, or the   *)
(* back when every transaction is less urgent.                             *)
InsertSortPrio(c, queue, t) ==
  LET Urgent == {i \in DOMAIN queue :
                   c.txns[queue[i]].priority <= c.txns[t].priority}
  IN  IF Urgent = {} THEN Append(queue, t) ELSE InsertAt(queue, Max(Urgent) + 1, t)

(* CF_CFDP_TxFile_Initiate, and what its callers note in the transaction. *)
TxFile_Initiate(c, priority, playback) ==
  LET t == NextFree(c)
      d == [FindUnusedTransaction(c, "TX") EXCEPT
              !.txns[t].state = "ACTIVE", !.txns[t].priority = priority,
              !.txns[t].pb = playback, !.txns[t].cmd_tx = (playback = NoPlayback)]
  IN  [d EXCEPT !.pend = InsertSortPrio(d, @, t)]

TxFile(c, priority) ==
  [TxFile_Initiate(c, priority, NoPlayback) EXCEPT !.num_cmd_tx = Inc(@)]

SetTxnError(c, t) == [c EXCEPT !.txns[t].txn_stat = "ERROR"]

(* Mutant: a pending transaction stays on its queue. *)
Dequeue_NotPending(c, t) == [c EXCEPT !.tx = RemoveFirst(@, t)]

Dequeue(c, t) ==
  [c EXCEPT !.pend = RemoveFirst(@, t), !.tx = RemoveFirst(@, t)]

(* Mutant: the chunk list goes back to the wrong direction. *)
RecycleTransaction_WrongList(c, t) ==
  LET txn == c.txns[t]
      d   == Dequeue(c, t)
  IN  [d EXCEPT !.txns[t]    = Wiped,
                !.cs["RX"]   = IF txn.chunks THEN @ + 1 ELSE @,
                !.hist       = IF txn.keep_history THEN Append(@, txn.txn_stat) ELSE @,
                !.hist_free  = IF txn.keep_history THEN @ ELSE Append(@, txn.txn_stat)]

RecycleTransaction(c, t) ==
  LET txn == c.txns[t]
      d   == Dequeue(c, t)
  IN  [d EXCEPT !.txns[t]    = Wiped,
                !.cs[txn.dir] = IF txn.chunks THEN @ + 1 ELSE @,
                !.hist       = IF txn.keep_history THEN Append(@, txn.txn_stat) ELSE @,
                !.hist_free  = IF txn.keep_history THEN @ ELSE Append(@, txn.txn_stat)]

(* Mutant: the playback is not told. *)
FinishTransaction_KeepsCount(c, t, keep) ==
  LET txn == c.txns[t]
  IN  [c EXCEPT !.txns[t].state = "HOLD", !.txns[t].keep_history = keep,
                !.num_cmd_tx = IF txn.dir = "TX" /\ txn.cmd_tx THEN Dec(@) ELSE @]

(* No transaction that is reached has q_index FREE: CF_FreeTransaction     *)
(* leaves PEND in it, so the early return is never taken.                  *)
FinishTransaction(c, t, keep) ==
  LET txn == c.txns[t]
  IN  [c EXCEPT !.txns[t].state = "HOLD", !.txns[t].keep_history = keep,
                !.num_cmd_tx = IF txn.dir = "TX" /\ txn.cmd_tx THEN Dec(@) ELSE @,
                !.pb = [p \in Playbacks |->
                          IF p = txn.pb THEN [c.pb[p] EXCEPT !.num_ts = Dec(@)] ELSE c.pb[p]]]

(* FinishTransaction without history for each of them: the order does not  *)
(* matter, and the counters may wrap around.                               *)
FinishAll(c, targets) ==
  LET commandedTx == {t \in targets : c.txns[t].dir = "TX" /\ c.txns[t].cmd_tx}
  IN  [c EXCEPT
         !.txns = [t \in Txns |->
                     IF t \in targets
                       THEN [c.txns[t] EXCEPT !.state = "HOLD", !.keep_history = FALSE]
                       ELSE c.txns[t]],
         !.num_cmd_tx = (@ - Cardinality(commandedTx)) % CounterModulus,
         !.pb = [p \in Playbacks |->
                   [c.pb[p] EXCEPT !.num_ts =
                      (@ - Cardinality({t \in targets : c.txns[t].pb = p}))
                        % CounterModulus]]]

AllocChunkList(c, t) ==
  LET dir == c.txns[t].dir
  IN  IF c.txns[t].chunks THEN c
      ELSE IF c.cs[dir] = 0 THEN SetTxnError(c, t)
      ELSE [c EXCEPT !.cs[dir] = @ - 1, !.txns[t].chunks = TRUE]

(* Mutant: the transaction is made active when it starts. *)
SetupTxTransaction_Activates(c, t, opens) ==
  LET d == AllocChunkList(c, t)
      e == Dequeue(d, t)
  IN  IF TxnIsOK(d, t) /\ opens
        THEN [e EXCEPT !.txns[t].q_index = "TX", !.txns[t].state = "ACTIVE",
                       !.tx = InsertSortPrio(e, @, t)]
        ELSE RecycleTransaction(d, t)

(* CF_CFDP_SetupTxTransaction; opens says that CF_CFDP_S_Init succeeds. *)
SetupTxTransaction(c, t, opens) ==
  LET d == AllocChunkList(c, t)
      e == Dequeue(d, t)
  IN  IF TxnIsOK(d, t) /\ opens
        THEN [e EXCEPT !.txns[t].q_index = "TX", !.tx = InsertSortPrio(e, @, t)]
        ELSE RecycleTransaction(IF opens THEN d ELSE SetTxnError(d, t), t)

SetupRxTransaction(c, t) ==
  LET d == AllocChunkList([c EXCEPT !.txns[t].q_index = "RX"], t)
  IN  [d EXCEPT !.txns[t].state = IF TxnIsOK(d, t) THEN "ACTIVE" ELSE "HOLD"]

(* Mutant: one transaction too many. *)
PlaybackRoom_OffByOne(b) ==
  IF b.num_ts <= TxnsPerPlayback THEN TxnsPerPlayback + 1 - b.num_ts ELSE 0

PlaybackRoom(b) == IF b.num_ts < TxnsPerPlayback THEN TxnsPerPlayback - b.num_ts ELSE 0

(***************************************************************************)
(* The whole loop of CF_CFDP_ProcessPlaybackDirectory: files is how many   *)
(* names the directory can give before its end.  It stops at the limit of  *)
(* the playback, at the end of the directory, or, with a name left in      *)
(* pending_file, when no slot is free.                                     *)
(***************************************************************************)
ProcessPlaybackDirectory(c, p, files) ==
  LET b       == c.pb[p]
      names   == IF b.pending_file THEN files + 1 ELSE files
      room    == PlaybackRoom(b)
      started == IF b.diropen THEN Min({names, room, Cardinality(Free(c))}) ELSE 0
      after[i \in 0 .. started] ==
        IF i = 0 THEN c ELSE TxFile_Initiate(after[i - 1], b.priority, p)
      open    == b.diropen /\ (started = room \/ started < names)
      num_ts  == (b.num_ts + started) % CounterModulus
  IN  [after[started] EXCEPT !.pb[p] =
         [b EXCEPT !.diropen = open, !.num_ts = num_ts,
                   !.pending_file = IF room = 0 THEN @ ELSE open /\ started < room,
                   !.busy = @ /\ (open \/ num_ts # 0)]]

PlaybackDir_Initiate(c, p, priority) ==
  [c EXCEPT !.pb[p].busy = TRUE, !.pb[p].diropen = TRUE, !.pb[p].priority = priority]

PurgeHistory(c) == [c EXCEPT !.hist_free = @ \o c.hist, !.hist = <<>>]

-------------------------------------------------------------------------------

QueueLengths(c) ==
  [q \in QueueIdx |->
     CASE q = "PEND"      -> Len(c.pend)
       [] q = "TX"        -> Len(c.tx)
       [] q = "RX"        -> Cardinality(OnRx(c))
       [] q = "HIST"      -> Len(c.hist)
       [] q = "HIST_FREE" -> Len(c.hist_free)
       [] q = "FREE"      -> Cardinality(Free(c))]

Init ==
  /\ chan = InitEngine
  /\ q_size = QueueLengths(InitEngine)
  /\ enabled = TRUE
  /\ commanded = 0

(* The channel becomes c.  Every list operation of cf_utils.h counts one   *)
(* up or down, so a counter changes by as much as its queue.               *)
Becomes(c) ==
  /\ chan' = c
  /\ q_size' = [q \in QueueIdx |->
        (q_size[q] + QueueLengths(c)[q] - QueueLengths(chan)[q]) % CounterModulus]
  /\ UNCHANGED enabled

(* Ground commands; they act on a disabled engine as well. *)

Counted == commanded < MaxCommands /\ commanded' = commanded + 1

TxFileCmd ==
  /\ "tx_file" \in Commands
  /\ chan.num_cmd_tx < MaxCmdTx /\ Free(chan) # {}
  /\ \E priority \in Priorities : Becomes(TxFile(chan, priority))
  /\ UNCHANGED commanded

PlaybackDirCmd ==
  /\ "playback_dir" \in Commands
  /\ \E p \in Directories, priority \in Priorities :
       /\ ~chan.pb[p].busy /\ \A r \in Directories : r < p => chan.pb[r].busy
       /\ Becomes(PlaybackDir_Initiate(chan, p, priority))
  /\ UNCHANGED commanded

CancelCmd ==
  /\ "cancel" \in Commands
  /\ \E t \in Used(chan) : TxnIsOK(chan, t) /\ Becomes(SetTxnError(chan, t))
  /\ UNCHANGED commanded

(* One transaction, or all of the channel, those in HOLD included. *)
AbandonCmd ==
  /\ "abandon" \in Commands /\ Counted
  /\ \E targets \in {{t} : t \in Used(chan)} \cup {Used(chan)} :
       Becomes(FinishAll(chan, targets))

PurgePendingCmd ==
  /\ "purge" \in Commands /\ Counted
  /\ Becomes(FinishAll(chan, ToSet(chan.pend)))

PurgeHistoryCmd ==
  /\ "purge" \in Commands /\ Counted
  /\ Becomes(PurgeHistory(chan))

(* Mutant: the queue counters are not reset. *)
DisableEngine_KeepsCounters ==
  /\ "engine" \in Commands /\ Counted
  /\ enabled
  /\ enabled' = FALSE
  /\ UNCHANGED <<chan, q_size>>

DisableEngine ==
  /\ "engine" \in Commands /\ Counted
  /\ enabled
  /\ enabled' = FALSE
  /\ q_size' = [q \in QueueIdx |-> 0]
  /\ UNCHANGED chan

EnableEngine ==
  /\ ~enabled
  /\ enabled' = TRUE
  /\ chan' = InitEngine
  /\ q_size' = [q \in QueueIdx |->
        (q_size[q] + QueueLengths(InitEngine)[q]) % CounterModulus]
  /\ UNCHANGED commanded

-------------------------------------------------------------------------------
(* One wakeup of an enabled engine, in parts. *)

Cycle(c) == enabled /\ Becomes(c) /\ UNCHANGED commanded

(* CF_CFDP_ReceivePdu with a PDU of an unknown transaction. *)
StartRxTransaction ==
  /\ q_size["RX"] < MaxRx /\ Free(chan) # {}
  /\ Cycle(SetupRxTransaction(FindUnusedTransaction(chan, "RX"), NextFree(chan)))

StartFirstPending ==
  /\ chan.pend # <<>>
  /\ \E opens \in IF Faulty THEN BOOLEAN ELSE {TRUE} :
       Cycle(SetupTxTransaction(chan, Head(chan.pend), opens))

Ticked(t) == t \in Used(chan) /\ chan.txns[t].q_index # "PEND"

Fails(t) ==
  Faulty /\ Ticked(t) /\ TxnIsOK(chan, t) /\ Cycle(SetTxnError(chan, t))

Completes(t) ==
  /\ Ticked(t) /\ chan.txns[t].state = "ACTIVE"
  /\ Cycle(FinishTransaction(chan, t, TRUE))

Recycles(t) ==
  Ticked(t) /\ chan.txns[t].state = "HOLD" /\ Cycle(RecycleTransaction(chan, t))

(* A polling directory is stepped while its playback is not done. *)
Plays(p, files) ==
  /\ p \in Polls => chan.pb[p].busy \/ chan.pb[p].num_ts # 0
  /\ Cycle(ProcessPlaybackDirectory(chan, p, files))

(* The interval of a polling directory that is enabled has passed. *)
Polled(p, priority) ==
  /\ ~chan.pb[p].busy /\ chan.pb[p].num_ts = 0
  /\ Cycle(PlaybackDir_Initiate(chan, p, priority))

Next ==
  \/ TxFileCmd \/ PlaybackDirCmd \/ CancelCmd \/ AbandonCmd
  \/ PurgePendingCmd \/ PurgeHistoryCmd \/ DisableEngine \/ EnableEngine
  \/ StartRxTransaction \/ StartFirstPending
  \/ \E t \in Txns : Fails(t) \/ Completes(t) \/ Recycles(t)
  \/ \E p \in Playbacks : \E files \in 0 .. TxnsPerPlayback : Plays(p, files)
  \/ \E p \in Polls, priority \in Priorities : Polled(p, priority)

Spec == Init /\ [][Next]_vars

(***************************************************************************)
(* Fairness: every wakeup ticks the transactions of the TX and RX queues,  *)
(* starts a pending one when messages are left and steps every playback.   *)
(* A transaction comes to its end (CF_Transfer), and a directory that is   *)
(* read again and again comes to its own.                                  *)
(***************************************************************************)
PlaysToEnd(p) == Plays(p, 0) /\ ~chan'.pb[p].diropen

FairSpec ==
  /\ Spec
  /\ WF_vars(StartFirstPending)
  /\ \A t \in Txns : WF_vars(Completes(t)) /\ WF_vars(Recycles(t))
  /\ \A p \in Directories : SF_vars(PlaysToEnd(p))

-------------------------------------------------------------------------------

(* Type correctness of the channel and its counters, part of QueuesAgree. *)
TypeOK ==
  /\ chan \in Channel
  /\ q_size \in [QueueIdx -> Counter]
  /\ enabled \in BOOLEAN
  /\ commanded \in 0 .. MaxCommands

(***************************************************************************)
(* A transaction is on the queue that its q_index names, once: what        *)
(* CF_DequeueTransaction relies on when it unlinks a node.                 *)
(***************************************************************************)
QueuesAgree ==
  /\ TypeOK
  /\ ToSet(chan.pend) = {t \in Used(chan) : chan.txns[t].q_index = "PEND"}
  /\ ToSet(chan.tx)   = {t \in Used(chan) : chan.txns[t].q_index = "TX"}
  /\ IsInjective(chan.pend) /\ IsInjective(chan.tx)

(***************************************************************************)
(* Nothing is lost or shared, however transactions end.  While a slot is   *)
(* free so is a history entry for it, which CF_FindUnusedTransaction       *)
(* asserts.  Each direction has one chunk list per slot, and every list is *)
(* either on the free list of its direction or with a transaction of that  *)
(* direction: CF_CFDP_AllocChunkList never finds the list empty.           *)
(***************************************************************************)
ResourcesConserved ==
  /\ Len(chan.hist) + Len(chan.hist_free) + Cardinality(Used(chan)) = NumHistories
  /\ \A d \in Dirs :
       chan.cs[d] + Cardinality({t \in Used(chan) : chan.txns[t].chunks /\ chan.txns[t].dir = d})
         = NumTxns

(***************************************************************************)
(* The limit on receive transactions is checked against a telemetry        *)
(* counter.  While the engine runs, that counter is the length of the      *)
(* queue, also after the engine was disabled, given commands and enabled.  *)
(***************************************************************************)
RxLimit ==
  /\ enabled => q_size["RX"] = Cardinality(OnRx(chan))
  /\ Cardinality(OnRx(chan)) <= MaxRx

(***************************************************************************)
(* A transaction that has ended never becomes active again, not even when  *)
(* it was abandoned on the PEND queue and is taken from it later.          *)
(***************************************************************************)
HoldIsFinal ==
  [][\A t \in Txns : chan.txns[t].state = "HOLD" => chan'.txns[t].state # "ACTIVE"]_vars

(***************************************************************************)
(* CF_InsertSortPrio keeps the order of arrival: a transaction is put      *)
(* behind all that wait and are at least as urgent, and those that wait    *)
(* never change places.                                                    *)
(***************************************************************************)
Waiting(t, queue) == {i \in DOMAIN queue : queue[i] = t}

ArrivalOrderKept ==
  [][\A t, u \in ToSet(chan.pend') :
       /\ u \in ToSet(chan.pend)
       /\ IF t \in ToSet(chan.pend)
            THEN \A i \in Waiting(u, chan.pend), j \in Waiting(t, chan.pend) : i < j
            ELSE chan'.txns[u].priority <= chan'.txns[t].priority
       => \A i \in Waiting(u, chan'.pend), j \in Waiting(t, chan'.pend) : i < j]_vars

(* The unfinished transactions that num_cmd_tx and num_ts are there for. *)
Unfinished(c) == {t \in Used(c) : c.txns[t].state # "HOLD"}
Commanded(c) == {t \in Unfinished(c) : c.txns[t].cmd_tx}
PlayedBack(c, p) == {t \in Unfinished(c) : c.txns[t].pb = p}

(***************************************************************************)
(* Until something is abandoned, purged or disabled, the two counters that *)
(* limit file transmits never fall below the number of unfinished          *)
(* transactions they stand for, nor exceed their limits.  (Abandoning a    *)
(* transaction in HOLD counts it out twice; see the README.)               *)
(***************************************************************************)
CountersCoverUnfinished ==
  commanded = 0 =>
    /\ chan.num_cmd_tx \in Cardinality(Commanded(chan)) .. MaxCmdTx
    /\ \A p \in Playbacks :
         chan.pb[p].num_ts \in Cardinality(PlayedBack(chan, p)) .. TxnsPerPlayback

(***************************************************************************)
(* Every playback of a directory comes to its end and gives its slot back, *)
(* if no transaction fails or is cancelled.                                *)
(***************************************************************************)
PlaybackEnds == \A p \in Directories : chan.pb[p].busy ~> ~chan.pb[p].busy
===============================================================================
