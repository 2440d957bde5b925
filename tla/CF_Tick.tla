-------------------------------- MODULE CF_Tick --------------------------------
(***************************************************************************)
(* The scheduler of one channel: what CF_CFDP_CycleEngine does in one      *)
(* wakeup, one call of a tick function at a time, under a budget of        *)
(* outgoing messages that is refused by CF_CFDP_MsgOutGet.                 *)
(*                                                                         *)
(* A transaction is reduced to what the phases of CF_CFDP_TickTransactions *)
(* look for: a state message that is due, segments that were asked for by  *)
(* a NAK, segments that were never sent and the file that they are read    *)
(* from.  CF_Sender and CF_Receiver say how these come about.              *)
(***************************************************************************)
EXTENDS Integers, Sequences, FiniteSets, SequencesExt

CONSTANTS RxTxns, TxTxns,   \* transaction slots, by the direction they serve
          Null,
          Budgets,          \* messages that a wakeup may be granted; 0 is no limit
          Segments,         \* of every file that is sent
          MaxNaks,          \* bound of the model: segments asked for again
          Troubled,         \* bound of the model: transactions that commands,
                            \* errors and NAKs reach
          Unreadable,       \* transactions whose file may fail to be opened or read
          CounterModulus    \* outgoing_counter is unsigned

ASSUME SlotsAssumption ==
  /\ RxTxns \cap TxTxns = {} /\ Null \notin RxTxns \cup TxTxns
  /\ Unreadable \subseteq TxTxns /\ Troubled \subseteq RxTxns \cup TxTxns
ASSUME NumbersAssumption ==
  /\ Budgets \subseteq Nat /\ Budgets # {} /\ Segments \in Nat /\ MaxNaks \in Nat
  /\ CounterModulus \in Nat /\ \A b \in Budgets : CounterModulus > b + 1

Txns == RxTxns \cup TxTxns
Queues == {"RX", "TX", "PEND"}
TickStates == <<"RX_STATE", "TX_STATE", "TX_NAK", "TX_FILEDATA", "TX_PEND">>
Idle == 0                   \* outside CF_CFDP_TickTransactions

VARIABLES
  txn,      \* what each transaction has to send, and whether it may
  queue,    \* the queues of the channel
  chan,     \* CF_Channel_t: outgoing_counter, tx_blocked, tick_resume; frozen
  tick,     \* the locals of CF_CFDP_TickTransactions, CF_CFDP_Tick_args_t,
            \* the nodes that CF_CList_Traverse has yet to visit, and how many
            \* messages this wakeup is granted
  settled   \* from here on nothing arrives and nothing is commanded, and it
            \* has been so for as long as an inactivity timer runs

vars == <<txn, queue, chan, tick, settled>>

(* left counts what DATA_NORMAL has still to send.  ending stands for a    *)
(* status that is not OK, a FIN or whatever else ends the transaction when *)
(* its state is checked.  COMPLETE is FILESTORE in HOLD, and a receiver    *)
(* stays in the first of the sub-states.                                   *)
Transaction ==
  [state : {"UNDEF", "ACTIVE", "HOLD"}, suspended : BOOLEAN, due : BOOLEAN,
   sub_state : {"DATA_NORMAL", "DATA_EOF", "FILESTORE"},
   fd : BOOLEAN, left : 0 .. Segments, naks : 0 .. MaxNaks, ending : BOOLEAN]

Unused == [state |-> "UNDEF", suspended |-> FALSE, due |-> FALSE,
           sub_state |-> "DATA_NORMAL", fd |-> FALSE, left |-> 0, naks |-> 0,
           ending |-> FALSE]

NotTicking == [state |-> Idle, todo |-> <<>>, resume_point |-> Null, last_counter |-> 0,
               budget |-> 0]

InitChannel == [outgoing_counter |-> 0, tx_blocked |-> FALSE, tick_resume |-> Null,
                frozen |-> FALSE]

Init ==
  /\ txn = [t \in Txns |-> Unused]
  /\ queue = [q \in Queues |-> <<>>]
  /\ chan = InitChannel
  /\ tick = NotTicking
  /\ settled = FALSE

InState(name) == tick.state # Idle /\ TickStates[tick.state] = name
Active(t) == txn[t].state = "ACTIVE"

-------------------------------------------------------------------------------
(* CF_CFDP_MsgOutGet for transaction t: the channel afterwards.  The table's *)
(* limit, the semaphore and the buffer pool refuse alike, so one budget      *)
(* stands for the first of them to be spent.                                 *)

MsgOutGet(c, t) ==
  IF (tick.budget # 0 /\ c.outgoing_counter >= tick.budget) \/ c.frozen \/ txn[t].suspended
    THEN [c EXCEPT !.tx_blocked = TRUE]
    ELSE [c EXCEPT !.outgoing_counter = (@ + 1) % CounterModulus]

-------------------------------------------------------------------------------
(* The tick functions: each gives the transaction and the channel after it. *)

(* CF_CFDP_FinishTransaction: the file is closed, sub_state is kept. *)
FinishTransaction(u) == [u EXCEPT !.state = "HOLD", !.fd = FALSE]

(* The inactivity timer of a sender stands still in DATA_NORMAL. *)
TimerRuns(t) == t \in RxTxns \/ txn[t].sub_state # "DATA_NORMAL"

(* CF_CFDP_S_CheckState: an EOF becomes due when all data is sent, not     *)
(* when an error ends DATA_NORMAL.                                         *)
S_CheckState(u) ==
  CASE u.sub_state = "DATA_NORMAL" /\ u.left = 0 ->
         [u EXCEPT !.sub_state = "DATA_EOF", !.due = TRUE]
    [] u.ending /\ (u.sub_state = "DATA_EOF" \/ (u.sub_state = "DATA_NORMAL" /\ u.left # 0)) ->
         [u EXCEPT !.sub_state = "FILESTORE", !.left = 0, !.ending = FALSE]
    [] u.sub_state = "FILESTORE" -> [FinishTransaction(u) EXCEPT !.ending = FALSE]
    [] OTHER -> u

(* What the tick leaves before it sends: the inactivity timer, when it has *)
(* run out, ends an active transaction.                                    *)
Checked(t, inactive) ==
  LET u == [txn[t] EXCEPT !.ending = @ \/ (inactive /\ TimerRuns(t))]
  IN  IF ~Active(t) THEN txn[t]
      ELSE IF t \in TxTxns THEN S_CheckState(u)
      ELSE IF u.ending THEN [FinishTransaction(u) EXCEPT !.ending = FALSE] ELSE u

(* Mutant: nothing is remembered. *)
CompleteTick_Forgets(c, t) == c

CompleteTick(c, t) ==
  IF c.tx_blocked /\ c.tick_resume = Null THEN [c EXCEPT !.tick_resume = t] ELSE c

(* Mutant: the resume point is recorded before the transaction goes. *)
StateTick_RecordsFirst(t, inactive) ==
  LET u == Checked(t, inactive)
      c == IF u.due THEN MsgOutGet(chan, t) ELSE chan
      gone == inactive /\ TimerRuns(t) /\ u.state = "HOLD"
  IN  [txn   |-> IF gone THEN Unused ELSE [u EXCEPT !.due = @ /\ c.tx_blocked],
       chan  |-> CompleteTick(c, t),
       queue |-> IF gone THEN [q \in Queues |-> RemoveFirst(queue[q], t)]
                         ELSE queue]

(***************************************************************************)
(* CF_CFDP_R_Tick and CF_CFDP_S_Tick: at most one state message, then the  *)
(* transaction is recycled, when it is in HOLD and its inactivity timer    *)
(* has run out, or CF_CFDP_CompleteTick is called.                         *)
(***************************************************************************)
StateTick(t, inactive) ==
  LET u == Checked(t, inactive)
      c == IF u.due THEN MsgOutGet(chan, t) ELSE chan
      gone == inactive /\ TimerRuns(t) /\ u.state = "HOLD"
  IN  [txn   |-> IF gone THEN Unused ELSE [u EXCEPT !.due = @ /\ c.tx_blocked],
       chan  |-> IF gone THEN c ELSE CompleteTick(c, t),
       queue |-> IF gone THEN [q \in Queues |-> RemoveFirst(queue[q], t)]
                         ELSE queue]

(* CF_CFDP_S_Tick_Nak: the message is taken before the file is read, and a *)
(* segment that cannot be read, or whose file is closed, stays in the      *)
(* chunk list.                                                             *)
NakTick(t, reads) ==
  LET c == IF txn[t].naks # 0 THEN MsgOutGet(chan, t) ELSE chan
      sent == txn[t].naks # 0 /\ ~c.tx_blocked /\ txn[t].fd /\ reads
  IN  [txn |-> [txn[t] EXCEPT !.naks = IF sent THEN @ - 1 ELSE @],
       chan |-> c, queue |-> queue]

(* S_Tick_NewData looks at sub_state and not at the state: a transaction   *)
(* that was abandoned in DATA_NORMAL goes on.  A file of which everything  *)
(* was sent takes no message (cf_cfdp_s.c:180).                            *)
SendsData(t) ==
  ~txn[t].suspended /\ txn[t].sub_state = "DATA_NORMAL" /\ txn[t].left # 0

(* One CF_CFDP_S_SubstateSendFileData of the loop in S_Tick_NewData: a     *)
(* failure is noted, and the message is taken all the same.                *)
NewDataTick(t, reads) ==
  LET c == IF SendsData(t) THEN MsgOutGet(chan, t) ELSE chan
      had == SendsData(t) /\ ~c.tx_blocked
      read == txn[t].fd /\ reads
  IN  [txn |-> [txn[t] EXCEPT !.left   = IF had /\ read THEN @ - 1 ELSE @,
                              !.ending = @ \/ (had /\ ~read)],
       chan |-> c, queue |-> queue]

-------------------------------------------------------------------------------
(* CF_CFDP_TickTransactions *)

(* CF_CFDP_CycleEngine up to the call; PDUs that it receives before are    *)
(* the events below.                                                       *)
Wakeup ==
  /\ tick.state = Idle
  /\ chan' = [chan EXCEPT !.outgoing_counter = 0, !.tx_blocked = FALSE,
                          !.tick_resume = IF chan.frozen THEN @ ELSE Null]
  /\ \E budget \in Budgets :
       tick' = IF chan.frozen THEN tick
               ELSE [state |-> 1, todo |-> queue["RX"], last_counter |-> 0,
                     resume_point |-> chan.tick_resume, budget |-> budget]
  /\ UNCHANGED <<txn, queue, settled>>

(* A node in front of the resume point. *)
Passed(t) == tick.resume_point \notin {Null, t}

Skip ==
  /\ tick.todo # <<>> /\ Passed(Head(tick.todo))
  /\ tick' = [tick EXCEPT !.todo = Tail(@)]
  /\ UNCHANGED <<txn, queue, chan, settled>>

(* Mutant: the loop of S_Tick_NewData is a single call. *)
Stays_Once(r) == FALSE

(* The loop of S_Tick_NewData goes on while a message was taken. *)
Stays(r) ==
  InState("TX_FILEDATA") /\ r.chan.outgoing_counter # chan.outgoing_counter

(* CF_CFDP_DoTick with r the result of its tick function. *)
Ticked(t, r) ==
  /\ txn' = [txn EXCEPT ![t] = r.txn]
  /\ chan' = r.chan
  /\ queue' = r.queue
  /\ tick' = [tick EXCEPT !.resume_point = Null,
                          !.todo = IF r.chan.tx_blocked THEN <<>>
                                   ELSE IF Stays(r) THEN @ ELSE Tail(@)]
  /\ UNCHANGED settled

NotCalled(t) == [txn |-> txn[t], chan |-> chan, queue |-> queue]

(* Whether the file can be read this time. *)
Reads(t) == IF t \in Unreadable THEN BOOLEAN ELSE {TRUE}

(* Whether an inactivity timer that runs has run out. *)
Inactive == IF settled THEN {TRUE} ELSE BOOLEAN

IsNext(t) == tick.todo # <<>> /\ Head(tick.todo) = t /\ ~Passed(t)

Visit(t) ==
  /\ IsNext(t)
  /\ IF txn[t].suspended THEN Ticked(t, NotCalled(t))
     ELSE \/ /\ InState("RX_STATE") \/ InState("TX_STATE")
             /\ \E inactive \in Inactive : Ticked(t, StateTick(t, inactive))
          \/ \E reads \in Reads(t) :
               \/ InState("TX_NAK") /\ Ticked(t, NakTick(t, reads))
               \/ InState("TX_FILEDATA") /\ Ticked(t, NewDataTick(t, reads))

Visits == \E t \in Txns : Visit(t)

(* Mutant: the NAK phase is repeated until something blocks it. *)
Again_Always == InState("TX_NAK")

(* The NAK phase is repeated while messages are taken. *)
Again == InState("TX_NAK") /\ tick.last_counter # chan.outgoing_counter

Traversed(state) ==
  CASE TickStates[state] = "RX_STATE" -> queue["RX"]
    [] TickStates[state] = "TX_PEND"  -> <<>>
    [] OTHER                          -> queue["TX"]

(* The end of a traversal, when nothing blocked it. *)
NextPhase ==
  /\ tick.state # Idle /\ tick.todo = <<>> /\ ~chan.tx_blocked /\ ~InState("TX_PEND")
  /\ LET s == IF Again THEN tick.state ELSE tick.state + 1
     IN  tick' = [tick EXCEPT !.state = s, !.todo = Traversed(s),
                              !.last_counter = chan.outgoing_counter]
  /\ UNCHANGED <<txn, queue, chan, settled>>

Blocked ==
  /\ tick.state # Idle /\ tick.todo = <<>> /\ chan.tx_blocked
  /\ tick' = NotTicking
  /\ UNCHANGED <<txn, queue, chan, settled>>

(* CF_CFDP_SetupTxTransaction: a transaction that was cancelled on PEND,   *)
(* or whose file does not open, is recycled; any other moves to TX, in     *)
(* HOLD too.  The transactions here are equally urgent.                    *)
SetupTxTransaction(t) ==
  \E opens \in Reads(t) :
    LET fails == txn[t].ending \/ ~opens
    IN  /\ txn' = [txn EXCEPT ![t] = IF fails THEN Unused
                     ELSE [@ EXCEPT !.fd = TRUE, !.left = Segments, !.due = TRUE]]
        /\ queue' = [queue EXCEPT !["PEND"] = Tail(@),
                                  !["TX"] = IF fails THEN @ ELSE Append(@, t)]

(* Mutant: a pending transaction waits for an empty TX queue. *)
StartFirstPending_Alone ==
  /\ InState("TX_PEND")
  /\ IF queue["PEND"] = <<>> \/ queue["TX"] # <<>> THEN UNCHANGED <<txn, queue>>
     ELSE SetupTxTransaction(Head(queue["PEND"]))
  /\ tick' = NotTicking
  /\ UNCHANGED <<chan, settled>>

StartFirstPending ==
  /\ InState("TX_PEND")
  /\ IF queue["PEND"] = <<>> THEN UNCHANGED <<txn, queue>>
     ELSE SetupTxTransaction(Head(queue["PEND"]))
  /\ tick' = NotTicking
  /\ UNCHANGED <<chan, settled>>

TickTransactions == Skip \/ Visits \/ NextPhase \/ Blocked \/ StartFirstPending

-------------------------------------------------------------------------------
(* Between two wakeups: PDUs, timers and ground commands. *)

Event == tick.state = Idle /\ ~settled /\ UNCHANGED <<tick, settled>>

StartTransaction(t, q) ==
  /\ Event
  /\ txn[t].state = "UNDEF"
  /\ txn' = [txn EXCEPT ![t].state = "ACTIVE"]
  /\ queue' = [queue EXCEPT ![q] = Append(@, t)]
  /\ UNCHANGED chan

Changes(t, u) ==
  /\ Event
  /\ txn[t].state # "UNDEF"
  /\ txn' = [txn EXCEPT ![t] = u]
  /\ UNCHANGED <<queue, chan>>

Started(t) == t \notin ToSet(queue["PEND"])

(* An EOF, a FIN, a NAK for the metadata, or a timer. *)
Report(t) == Started(t) /\ Changes(t, [txn[t] EXCEPT !.due = TRUE])

(* In every sub-state; a transaction in HOLD takes no NAK any more. *)
NakArrives(t) ==
  /\ Active(t) /\ Started(t) /\ txn[t].naks < MaxNaks
  /\ Changes(t, [txn[t] EXCEPT !.naks = @ + 1])

(* An error, a limit, a FIN, or a cancel command. *)
Ends(t) == Active(t) /\ Changes(t, [txn[t] EXCEPT !.ending = TRUE])

(* The abandon and purge commands, at any moment. *)
Abandon(t) ==
  Changes(t, [FinishTransaction(txn[t]) EXCEPT !.ending = @ /\ ~Started(t)])

Suspend(t) == Changes(t, [txn[t] EXCEPT !.suspended = ~@])

(* Freeze and thaw. *)
Freeze == Event /\ chan' = [chan EXCEPT !.frozen = ~@] /\ UNCHANGED <<txn, queue>>

(* CF_CFDP_DisableEngine and CF_CFDP_InitEngine; frozen is telemetry and   *)
(* outlives the engine.                                                    *)
Restart ==
  /\ Event
  /\ txn' = [t \in Txns |-> Unused]
  /\ queue' = [q \in Queues |-> <<>>]
  /\ chan' = [InitChannel EXCEPT !.frozen = chan.frozen]

(* Peers and ground have fallen silent. *)
Settle ==
  /\ tick.state = Idle /\ ~settled
  /\ settled' = TRUE
  /\ UNCHANGED <<txn, queue, chan, tick>>

Events ==
  \/ \E t \in RxTxns : StartTransaction(t, "RX")
  \/ \E t \in TxTxns : StartTransaction(t, "PEND")
  \/ \E t \in Txns : Report(t)
  \/ \E t \in Troubled : Ends(t) \/ Abandon(t) \/ Suspend(t)
  \/ \E t \in Troubled \cap TxTxns : NakArrives(t)
  \/ Freeze \/ Restart

Next == Wakeup \/ TickTransactions \/ Events \/ Settle

Spec == Init /\ [][Next]_vars

(***************************************************************************)
(* Fairness: the executive wakes the application again and again, and each *)
(* wakeup runs on.  Every wakeup is granted at least one message.          *)
(***************************************************************************)
FairSpec == Spec /\ WF_vars(Wakeup \/ TickTransactions)

-------------------------------------------------------------------------------

(* Type correctness, part of ResumeIsQueued. *)
TypeOK ==
  /\ txn \in [Txns -> Transaction]
  /\ queue \in [Queues -> Seq(Txns)]
  /\ chan \in [outgoing_counter : 0 .. CounterModulus - 1, tx_blocked : BOOLEAN,
               tick_resume : Txns \cup {Null}, frozen : BOOLEAN]
  /\ tick \in [state : 0 .. Len(TickStates), todo : Seq(Txns),
               resume_point : Txns \cup {Null}, last_counter : 0 .. CounterModulus - 1,
               budget : Budgets \cup {0}]
  /\ settled \in BOOLEAN

(***************************************************************************)
(* The resume point is a transaction that the state phases will come to.   *)
(* tick_resume is a pointer to a slot: were it recycled or gone with the   *)
(* engine, CF_CFDP_DoTick would skip every node of both queues.            *)
(***************************************************************************)
ResumeIsQueued ==
  /\ TypeOK
  /\ \A t \in {chan.tick_resume, tick.resume_point} \ {Null} :
       t \in ToSet(queue["RX"]) \cup ToSet(queue["TX"])

(***************************************************************************)
(* New file data goes out in the order of the queue, which is the order of *)
(* priority: a transaction sends data only when those in front of it have  *)
(* none left that they would try to send.  One that was abandoned, or      *)
(* whose file cannot be read, counts: it takes the messages of the wakeup. *)
(***************************************************************************)
DataInQueueOrder ==
  [][\A i, j \in DOMAIN queue["TX"] :
       i < j /\ txn'[queue["TX"][j]].left < txn[queue["TX"][j]].left
             /\ InState("TX_FILEDATA")
         => ~SendsData(queue["TX"][i])]_vars

-------------------------------------------------------------------------------

(***************************************************************************)
(* A sender that takes messages and may send nothing with them: its file   *)
(* is closed, because it was abandoned, or cannot be read.                 *)
(***************************************************************************)
Fruitless(t) ==
  /\ t \in ToSet(queue["TX"]) /\ ~txn[t].suspended
  /\ txn[t].naks # 0 \/ SendsData(t)
  /\ ~txn[t].fd \/ t \in Unreadable

(* Without a limit the loops over such a sender need not end. *)
Endless ==
  /\ InState("TX_NAK") \/ InState("TX_FILEDATA")
  /\ tick.budget = 0 /\ \E t \in TxTxns : Fruitless(t)

(* With a limit it takes what is left of every wakeup, and in DATA_NORMAL  *)
(* no timer takes it off the queue.                                        *)
Hogged == \E t \in TxTxns : Fruitless(t) /\ ~TimerRuns(t)

(***************************************************************************)
(* No state message is starved, whatever else keeps asking for messages:   *)
(* the resume point makes the state phases a round robin.  A transaction   *)
(* that stays on its queue, unsuspended, on a channel that is not frozen,  *)
(* sends the message that is due, unless a wakeup never ends.              *)
(***************************************************************************)
StateMessagesServed ==
  \/ <>[]Endless
  \/ \A t \in Txns : []<>(~txn[t].due \/ txn[t].suspended \/ chan.frozen)

(***************************************************************************)
(* When nothing more arrives, everything is sent: state messages, what     *)
(* NAKs asked for, new data of every transaction, and nothing stays        *)
(* pending, unless the channel is frozen or the transaction suspended.     *)
(* The exceptions: a wakeup without a limit that never ends, and what      *)
(* cf_cfdp.c:1348 and cf_cfdp_s.c:895 do together.  A sender that was      *)
(* abandoned in DATA_NORMAL with data left, or that has to answer a NAK    *)
(* there and cannot read its file, stays on TX and takes the messages of   *)
(* all those behind it for ever.                                           *)
(***************************************************************************)
Sent(t) ==
  /\ ~txn[t].due
  /\ t \in ToSet(queue["TX"]) => txn[t].naks = 0
  /\ Active(t) /\ t \in TxTxns =>
       txn[t].left = 0 /\ txn[t].sub_state # "DATA_NORMAL"

EverythingIsSent ==
  settled ~> \/ []Hogged \/ []Endless \/ chan.frozen
             \/ \A t \in Txns : txn[t].suspended \/ Sent(t)

(***************************************************************************)
(* Every wakeup comes to an end.  The one that does not has no limit of    *)
(* messages and a sender that takes them without sending any: the comment  *)
(* of CF_CFDP_S_Tick_NewData (cf_cfdp.c:1362), that a transaction which    *)
(* makes no progress is left, and that of the NAK phase (cf_cfdp.c:1547),  *)
(* that it is repeated while something is produced, hold only for a        *)
(* message that is taken and sent.                                         *)
(***************************************************************************)
WakeupEnds == tick.state # Idle ~> tick.state = Idle \/ []Endless
===============================================================================
