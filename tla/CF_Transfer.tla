---------------------------- MODULE CF_Transfer ----------------------------
(***************************************************************************)
(* One file transfer between two CF entities: the sender's transaction, the*)
(* receiver's transaction (created, and created again, by the PDUs that    *)
(* find none), the files on both sides, and a network that may lose, delay,*)
(* reorder and duplicate PDUs without limit: net holds every PDU ever sent *)
(* and any of them may be delivered at any time, again or never.           *)
(*                                                                         *)
(* One action is one phase of a wakeup for this transaction.  The phases   *)
(* are not tied together, because the other transactions of the channel    *)
(* share its message budget: once it is spent, CF_CFDP_TickTransactions    *)
(* skips the phases that remain and resumes at another transaction.        *)
(***************************************************************************)
EXTENDS CF_Sender, CF_Receiver

CONSTANTS Faulty,      \* file operations may fail and resources run out
          Congested,   \* a wakeup may find the message budget spent
          Commands,    \* ground commands given, among AllCommands
          MaxCommands, \* bound of the model: commands given per run
          MaxRx        \* bound of the model: receive transactions created per run

AllCommands == {"cancel", "abandon", "suspend", "resume"}

ASSUME FaultyAssumption == Faulty \in BOOLEAN /\ Congested \in BOOLEAN
ASSUME CommandsAssumption == Commands \subseteq AllCommands
ASSUME BoundsAssumption == MaxCommands \in Nat /\ MaxRx \in Nat

VARIABLES snd,       \* CF_Transaction_t of the sender
          src,       \* what became of the source file
          rcv,       \* CF_Transaction_t of the receiver, or R_None
          temp,      \* temporary file: the segments written to it
          tempfile,  \* whether the temporary file exists
          dst,       \* destination file: none, or a good or a bad copy
          net,       \* PDUs sent so far
          created,   \* receive transactions created so far
          commanded  \* commands given so far

vars == <<snd, src, rcv, temp, tempfile, dst, net, created, commanded>>

Pdus == ToReceiver \cup ToSender

(* Type correctness of both transactions, of the files and of the network. *)
TypeOK ==
  /\ snd \in SenderType
  /\ src \in {"present", "removed", "in_move_dir", "in_fail_dir"}
  /\ rcv \in ReceiverType
  /\ temp \in SUBSET Segs
  /\ tempfile \in BOOLEAN
  /\ dst \in {"none", "good", "bad"}
  /\ net \in SUBSET Pdus
  /\ created \in 0 .. MaxRx
  /\ commanded \in 0 .. MaxCommands

Init ==
  /\ snd \in {S_Pending(status) : status \in HistStatuses}
  /\ src = "present"
  /\ rcv = R_None
  /\ temp = {}
  /\ tempfile = FALSE
  /\ dst = "none"
  /\ net = {}
  /\ created = 0
  /\ commanded = 0

(* The outcomes of an operation on files or resources. *)
Outcomes == IF Faulty THEN BOOLEAN ELSE {TRUE}

Wakeups ==
  [inactive : BOOLEAN, expired : BOOLEAN, works : Outcomes,
   blocked : IF Congested THEN BOOLEAN ELSE {FALSE}]

R_Exists == rcv.state # "UNDEF"

-------------------------------------------------------------------------------
(* Sender *)

S_Start ==
  /\ snd.q = "PEND"
  /\ \E has_chunks, opens \in Outcomes :
       snd' = SetupTxTransaction(snd, has_chunks, opens)
  /\ UNCHANGED <<src, rcv, temp, tempfile, dst, net, created, commanded>>

S_WakeupWith(w) ==
  /\ snd.q = "TX" /\ ~snd.suspended
  /\ snd' = S_Tick(snd, w)
  /\ net' = net \cup S_TickSends(snd, w)
  /\ src' = IF S_Files(snd) /\ w.works
              THEN S_HandleFileRetention(S_InactivityTick(snd, w))
              ELSE src
  /\ UNCHANGED <<rcv, temp, tempfile, dst, created, commanded>>

S_Wakeup == \E w \in Wakeups : S_WakeupWith(w)

S_AnswerNak ==
  /\ snd.q = "TX" /\ ~snd.suspended /\ snd.fd_nak_pending
  /\ \E reads \in Outcomes :
       /\ snd' = S_Tick_Nak(snd, reads)
       /\ net' = IF snd.fd /\ reads
                   THEN net \cup {FileDataPdu(snd, s) : s \in FirstSegment(snd)}
                   ELSE net
  /\ UNCHANGED <<src, rcv, temp, tempfile, dst, created, commanded>>

S_NewData ==
  /\ snd.q = "TX" /\ ~snd.suspended
  /\ snd.sub_state = "DATA_NORMAL" /\ snd.foffs < snd.fsize
  /\ \E reads \in Outcomes :
       /\ snd' = S_SubstateSendFileData(snd, reads)
       /\ net' = IF snd.fd /\ reads
                   THEN net \cup {FileDataPdu(snd, snd.foffs)} ELSE net
  /\ UNCHANGED <<src, rcv, temp, tempfile, dst, created, commanded>>

S_Receive ==
  /\ snd.q # "FREE"
  /\ \E p \in net \cap ToSender : snd' \in S_Recv(snd, p)
  /\ UNCHANGED <<src, rcv, temp, tempfile, dst, net, created, commanded>>

-------------------------------------------------------------------------------
(* Receiver *)

(* CF_CFDP_ReceivePdu with a transaction that exists. *)
R_Receive ==
  /\ R_Exists
  /\ \E p \in net \cap ToReceiver, seeks, writes \in Outcomes :
       /\ rcv' \in R_Recv(rcv, p, seeks, writes)
       /\ temp' = IF R_AcceptsFd(rcv, p) /\ R_Stores(rcv, p, seeks, writes)
                    THEN temp \cup {p.offset} ELSE temp
  /\ UNCHANGED <<snd, src, tempfile, dst, net, created, commanded>>

(* CF_CFDP_ReceivePdu with a PDU that creates its transaction. *)
R_Create ==
  /\ ~R_Exists /\ created < MaxRx
  /\ created' = created + 1
  /\ \E p \in net \cap ToReceiver, has_chunks, creates, seeks, writes \in Outcomes,
        status \in HistStatuses, held \in RxLists :
       LET t    == SetupRxTransaction(p, status, has_chunks, held, creates)
           kept == IF t.tempfile_created THEN {} ELSE temp
       IN  /\ rcv' \in R_Recv(t, p, seeks, writes)
           /\ tempfile' = (tempfile \/ t.tempfile_created)
           /\ temp' = IF R_AcceptsFd(t, p) /\ R_Stores(t, p, seeks, writes)
                        THEN kept \cup {p.offset} ELSE kept
  /\ UNCHANGED <<snd, src, dst, net, commanded>>

(* A file is what its sender sent if each of its segments was written. *)
R_WakeupWith(w) ==
  /\ R_Exists /\ ~rcv.suspended
  /\ rcv' = R_Tick(rcv, temp, w)
  /\ net' = net \cup R_TickSends(rcv, temp, w)
  /\ dst' = IF R_Retains(rcv, w)
              THEN IF Missing(temp, FileSize) = {} /\ rcv.fsize = FileSize
                     THEN "good" ELSE "bad"
              ELSE dst
  /\ IF R_Files(rcv) /\ rcv.tempfile_created
       THEN tempfile' = FALSE /\ temp' = {}
       ELSE UNCHANGED <<tempfile, temp>>
  /\ UNCHANGED <<snd, src, created, commanded>>

R_Wakeup == \E w \in Wakeups : R_WakeupWith(w)

-------------------------------------------------------------------------------
(* Ground commands on one transaction, by its sequence number *)

Command(name) ==
  /\ name \in Commands /\ commanded < MaxCommands
  /\ commanded' = commanded + 1
  /\ UNCHANGED <<src, temp, tempfile, dst, net, created>>

S_Command(name, result) ==
  Command(name) /\ snd.q # "FREE" /\ snd' = result /\ rcv' = rcv

R_Command(name, result) ==
  Command(name) /\ R_Exists /\ rcv' = result /\ snd' = snd

S_Cancel  == S_Command("cancel", CancelTransaction(snd))
S_Abandon == S_Command("abandon", FinishTransaction(snd))
S_Suspend == S_Command("suspend", [snd EXCEPT !.suspended = TRUE])
S_Resume  == S_Command("resume", [snd EXCEPT !.suspended = FALSE])

R_Cancel  == R_Command("cancel", CancelTransaction(rcv))
R_Abandon == R_Command("abandon", FinishTransaction(rcv))
R_Suspend == R_Command("suspend", [rcv EXCEPT !.suspended = TRUE])
R_Resume  == R_Command("resume", [rcv EXCEPT !.suspended = FALSE])

-------------------------------------------------------------------------------

Next ==
  \/ S_Start \/ S_Wakeup \/ S_AnswerNak \/ S_NewData \/ S_Receive
  \/ R_Receive \/ R_Create \/ R_Wakeup
  \/ S_Cancel \/ S_Abandon \/ S_Suspend \/ S_Resume
  \/ R_Cancel \/ R_Abandon \/ R_Suspend \/ R_Resume

Spec == Init /\ [][Next]_vars

(***************************************************************************)
(* Fairness: CF_CFDP_CycleEngine runs at every wakeup and TickTransactions *)
(* takes the transactions of a queue in turn, so a transaction that is not *)
(* suspended is served again and again; new data and the start only while  *)
(* no sender of the channel takes every message and sends none (CF_Tick,   *)
(* Hogged).  That its timers run out again and again is an assumption      *)
(* about the peer and the network: they do not send to it for ever.        *)
(***************************************************************************)
RunOut == [inactive |-> TRUE, expired |-> TRUE, works |-> TRUE, blocked |-> FALSE]

FairSpec ==
  /\ Spec
  /\ WF_vars(S_Start) /\ WF_vars(S_NewData)
  /\ WF_vars(S_WakeupWith(RunOut)) /\ WF_vars(R_WakeupWith(RunOut))

-------------------------------------------------------------------------------

(***************************************************************************)
(* CF_CFDP_S_HandleFileRetention removes a source file, or moves it away,  *)
(* only after the peer put a complete and correct copy in its place:       *)
(* whatever is lost, repeated or reordered, whoever gives up, cancels or   *)
(* abandons, and whatever the reused chunk list of the receiver held.      *)
(***************************************************************************)
SourceGoneOnlyIfDelivered ==
  Reliable /\ src \in {"removed", "in_move_dir"} => dst = "good"

(***************************************************************************)
(* A FIN that reports a retained file tells the truth, even when it is     *)
(* delivered long after the transaction that sent it ended.                *)
(***************************************************************************)
RetainedFinIsTrue ==
  \A p \in net : p.type = "FIN" /\ p.file_status = "RETAINED" => dst = "good"

(***************************************************************************)
(* What CF_CFDP_R_HandleFileRetention moves into place is identical to the *)
(* file sent: the CRC comparison stops every incomplete file that          *)
(* CF_CFDP_R_CheckComplete takes for complete.                             *)
(***************************************************************************)
OnlyIdenticalCopies == dst # "bad"

(***************************************************************************)
(* A class 2 sender, or a class 1 sender that asked for closure, that ends *)
(* its transaction as complete and free of errors has delivered its file.  *)
(***************************************************************************)
SuccessMeansDelivered ==
  /\ Reliable \/ CloseReq
  /\ snd.state = "HOLD" /\ snd.is_complete /\ TxnIsOK(snd)
  => dst = "good"

(***************************************************************************)
(* An EOF without error is sent only after every segment was sent at least *)
(* once (CF_CFDP_S_CheckState_DATA_NORMAL), whatever the sender was told   *)
(* to do in between.                                                       *)
(***************************************************************************)
EofFollowsAllData ==
  (\E p \in net : p.type = "EOF" /\ p.cc = "NO_ERROR") =>
    \A s \in Segs : \E p \in net : p.type = "FILEDATA" /\ p.offset = s

(***************************************************************************)
(* A receiver that takes its file for complete has written every segment   *)
(* of it (CF_CFDP_R_CheckComplete: "having received all filedata PDUs"),   *)
(* also when its chunk list overflowed.  That needs a list that comes      *)
(* empty (RxLists = {{}}): with a used one it does not hold, see the       *)
(* README.                                                                 *)
(***************************************************************************)
CompleteMeansWritten ==
  rcv.is_complete /\ rcv.fd => Missing(temp, FileSize) = {}

(***************************************************************************)
(* However a transaction ends, it leaves nothing behind: no file is open   *)
(* any more, what CF_CFDP_RecycleTransaction calls a dangling file handle, *)
(* and no temporary file outlives it ("if the file transfer is             *)
(* unsuccessful then the temp file is deleted").                           *)
(***************************************************************************)
NothingLeftBehind ==
  /\ tempfile => R_Exists
  /\ snd.fd => snd.q = "TX" /\ Active(snd)
  /\ rcv.fd => Active(rcv)

(***************************************************************************)
(* All the FINs of a receive transaction report the same outcome for the   *)
(* file: the sender acts on the first that reaches it.                     *)
(***************************************************************************)
FinsAgree ==
  created = 1 =>
    \A p, q \in net : p.type = "FIN" /\ q.type = "FIN" =>
      p.delivery_code = q.delivery_code /\ p.file_status = q.file_status

(***************************************************************************)
(* CF_CFDP_CancelTransaction only marks the transaction, wherever it       *)
(* stands; from then on it neither removes nor moves away its source, and  *)
(* puts no file in place.                                                  *)
(***************************************************************************)
CancelledLeavesFilesAlone ==
  [][/\ snd.canceled => src' \in {src, "in_fail_dir"}
     /\ rcv.canceled => dst' = dst]_vars

(***************************************************************************)
(* Every transaction comes to its end, whatever is lost: no sub-state      *)
(* waits for a PDU without a timer.  (A transaction that is suspended may  *)
(* stay so; an abandoned sender does, as DATA_NORMAL has no timer.)        *)
(***************************************************************************)
TransferEnds == <>(snd.q = "FREE") /\ (R_Exists ~> ~R_Exists)

-------------------------------------------------------------------------------
(* What the transfer is seen as from outside *)

S_Phase(t) ==
  CASE t.q = "FREE" -> "over"
    [] t.q # "FREE" /\ t.state = "HOLD" ->
         IF t.is_complete /\ TxnIsOK(t) THEN "success" ELSE "failure"
    [] OTHER -> IF t.canceled THEN "cancelled" ELSE "open"

R_Phase(t) ==
  IF t.state = "UNDEF" THEN "none" ELSE IF t.canceled THEN "cancelled" ELSE "open"

R_Reports ==
  {[success |-> p.cc = "NO_ERROR", delivery_code |-> p.delivery_code,
    file_status |-> p.file_status] : p \in {q \in net : q.type = "FIN"}}

Delivery == INSTANCE CF_Delivery
  WITH Confirmed <- Reliable \/ CloseReq, source <- src, copy <- dst,
       tx <- S_Phase(snd), rx <- R_Phase(rcv), attempts <- created, reports <- R_Reports

(***************************************************************************)
(* Together, the two state machines, the network between them and the      *)
(* commands keep the promises of a transfer: the source goes only when a   *)
(* success is concluded, a failure is never taken for a success later, a   *)
(* copy is put in place only before the outcome is reported, and what is   *)
(* reported is true.                                                       *)
(***************************************************************************)
ImplementsDelivery == Delivery!Spec
===============================================================================
