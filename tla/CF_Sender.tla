------------------------------ MODULE CF_Sender ------------------------------
(***************************************************************************)
(* The send side of one transaction: cf_cfdp_s.c and what cf_cfdp.c does   *)
(* for it.  A transaction is a record t; each operator is one C function   *)
(* as a map from the transaction before to the transaction after.  The     *)
(* two timers are abstracted to the choice, at each tick, of whether they  *)
(* have expired.                                                           *)
(***************************************************************************)
EXTENDS CF_Cfdp

CONSTANTS Reliable,    \* class 2 if TRUE, class 1 if FALSE
          Keep,        \* the keep parameter of the request
          CmdTx,       \* requested by command, not by a directory playback
          MoveDir,     \* a move_dir is configured for the channel
          FailDir,     \* a fail_dir is configured
          CloseReq,    \* a class 1 peer asks for closure; CF itself never does
          TxChunks     \* max_chunks of a sender's chunk list

ASSUME SenderFlagsAssumption ==
  /\ Reliable \in BOOLEAN /\ Keep \in BOOLEAN /\ CmdTx \in BOOLEAN
  /\ MoveDir \in BOOLEAN /\ FailDir \in BOOLEAN /\ CloseReq \in BOOLEAN
ASSUME TxChunksAssumption == TxChunks \in Nat \ {0}

TxSubStates == {"DATA_NORMAL", "DATA_EOF", "FILESTORE", "COMPLETE"}

SenderType ==
  [q : {"PEND", "TX", "FREE"}, state : {"S1", "S2", "HOLD", "UNDEF"},
   sub_state : TxSubStates, txn_stat : TxnStatuses,
   fd : BOOLEAN, fsize : 0 .. FileSize, foffs : 0 .. FileSize,
   suspended : BOOLEAN, canceled : BOOLEAN, is_complete : BOOLEAN,
   inactivity_fired : BOOLEAN, ack_timer_armed : BOOLEAN,
   acknak_count : 0 .. AckLimit, chunks : SUBSET Segs,
   fd_nak_pending : BOOLEAN, send_md : BOOLEAN, send_eof : BOOLEAN,
   eof_ack_recv : BOOLEAN, fin_count : 0 .. AckLimit,
   fin_ack_count : 0 .. AckLimit,
   fin_dc : DeliveryCodes, fin_fs : FileStatuses]

(* A transaction that CF_CFDP_TxFile has put on the PEND queue, with what  *)
(* its history entry says.                                                 *)
S_Pending(status) ==
  [q |-> "PEND", state |-> IF Reliable THEN "S2" ELSE "S1",
   sub_state |-> "DATA_NORMAL", txn_stat |-> status,
   fd |-> FALSE, fsize |-> 0, foffs |-> 0,
   suspended |-> FALSE, canceled |-> FALSE, is_complete |-> FALSE,
   inactivity_fired |-> FALSE, ack_timer_armed |-> FALSE,
   acknak_count |-> 0, chunks |-> {},
   fd_nak_pending |-> FALSE, send_md |-> FALSE, send_eof |-> FALSE,
   eof_ack_recv |-> FALSE, fin_count |-> 0, fin_ack_count |-> 0,
   fin_dc |-> "COMPLETE", fin_fs |-> "DISCARDED"]

(* Back on the FREE queue, wiped. *)
S_Recycled == [S_Pending("NO_ERROR") EXCEPT !.q = "FREE", !.state = "UNDEF"]

-------------------------------------------------------------------------------
(* From PEND to TX, without a look at the state or at suspended. *)

S_Init(t, opens) ==
  IF opens
    THEN [t EXCEPT !.fd = TRUE, !.fsize = FileSize, !.send_md = TRUE]
    ELSE SetTxnStatus(t, "FILESTORE_REJECTION")

SetupTxTransaction(t, has_chunks, opens) ==
  LET u == AllocChunkList(t, has_chunks)
      v == IF TxnIsOK(u) THEN S_Init(u, opens) ELSE u
  IN  IF TxnIsOK(v) THEN [v EXCEPT !.q = "TX"] ELSE S_Recycled

-------------------------------------------------------------------------------
(* CF_CFDP_S_CheckState *)

S_HandleFileRetention(t) ==
  IF ~TxnIsOK(t) \/ ~t.is_complete
    THEN IF ~CmdTx /\ FailDir THEN "in_fail_dir" ELSE "present"
    ELSE IF Keep \/ (Reliable /\ ~(t.fin_fs = "RETAINED" /\ t.fin_dc = "COMPLETE"))
      THEN "present"
      ELSE IF MoveDir THEN "in_move_dir" ELSE "removed"

(* One-time entry of a new sub-state. *)
S_Enter(t, next) ==
  LET u == [t EXCEPT !.sub_state = next, !.ack_timer_armed = FALSE]
  IN  CASE next = "DATA_EOF" -> [u EXCEPT !.acknak_count = 0, !.send_eof = TRUE]
        [] next = "COMPLETE" -> FinishTransaction(u)
        [] OTHER             -> u

(* Mutant: the last segment is forgotten. *)
S_CheckState_DATA_NORMAL_OffByOne(t) ==
  IF t.foffs + 1 >= t.fsize THEN S_Enter(t, "DATA_EOF") ELSE t

S_CheckState_DATA_NORMAL(t) ==
  IF t.foffs >= t.fsize THEN S_Enter(t, "DATA_EOF")
  ELSE IF ~TxnIsOK(t) \/ t.fin_count # 0 THEN S_Enter(t, "FILESTORE")
  ELSE t

S_Completed(t) == S_Enter([t EXCEPT !.is_complete = TRUE], "FILESTORE")

S1_CheckState_DATA_EOF(t) ==
  IF ~CloseReq THEN S_Completed([t EXCEPT !.fin_dc = "UNREPORTED"])
  ELSE IF t.fin_count # 0 THEN S_Completed(t)
  ELSE t

(* Mutant: the ACK of the EOF is taken for the end of the transfer. *)
S2_CheckState_DATA_EOF_NoFin(t) ==
  IF t.eof_ack_recv THEN S_Completed(t) ELSE t

S2_CheckState_DATA_EOF(t) ==
  IF t.fin_count # t.fin_ack_count THEN t
  ELSE IF t.eof_ack_recv
    THEN IF t.fin_count # 0 THEN S_Completed(t) ELSE t
  ELSE IF t.ack_timer_armed THEN t
  ELSE IF t.fin_count # 0 THEN S_Enter(t, "FILESTORE")
  ELSE IF CheckAckNakCount(t.acknak_count)
    THEN [t EXCEPT !.acknak_count = @ + 1, !.send_eof = TRUE]
  ELSE S_Enter(SetTxnStatus(t, "NAK_LIMIT_REACHED"), "FILESTORE")

S_CheckState_DATA_EOF(t) ==
  IF ~TxnIsOK(t) THEN S_Enter(t, "FILESTORE")
  ELSE IF t.send_eof THEN t
  ELSE IF Reliable THEN S2_CheckState_DATA_EOF(t)
  ELSE S1_CheckState_DATA_EOF(t)

S_CheckState(t) ==
  CASE t.sub_state = "DATA_NORMAL" -> S_CheckState_DATA_NORMAL(t)
    [] t.sub_state = "DATA_EOF"    -> S_CheckState_DATA_EOF(t)
    [] t.sub_state = "FILESTORE"   -> S_Enter(t, "COMPLETE")
    [] OTHER                       -> t

(* Whether this tick's CF_CFDP_S_CheckState disposes of the source file. *)
S_Files(t) == Active(t) /\ t.sub_state = "FILESTORE"

-------------------------------------------------------------------------------
(* CF_CFDP_S_Tick: w.inactive and w.expired say that the inactivity and    *)
(* the ACK timer have run out, w.blocked that no message can be sent.      *)

(* Mutant: the timer stands still once the transaction has ended. *)
S_InactivityTick_ActiveOnly(t, w) ==
  IF w.inactive /\ ~t.inactivity_fired /\ Active(t)
    THEN SetTxnStatus([t EXCEPT !.inactivity_fired = TRUE], "INACTIVITY_DETECTED")
    ELSE t

S_InactivityTick(t, w) ==
  IF w.inactive /\ ~t.inactivity_fired /\ t.sub_state # "DATA_NORMAL"
    THEN LET u == [t EXCEPT !.inactivity_fired = TRUE]
         IN  IF Active(t) THEN SetTxnStatus(u, "INACTIVITY_DETECTED") ELSE u
    ELSE t

S_AckTimerTick(t, w) ==
  IF Reliable /\ w.expired THEN [t EXCEPT !.ack_timer_armed = FALSE] ELSE t

(* The one control PDU that CF_CFDP_S_Tick_Maintenance sends. *)
S_Due(t) ==
  IF t.send_md
    THEN {[type |-> "METADATA", class |-> GetClass(t), size |-> t.fsize,
           close_req |-> CloseReq]}
  ELSE IF t.send_eof
    THEN {[type |-> "EOF", class |-> GetClass(t),
           cc |-> To_ConditionCode(t.txn_stat), size |-> t.fsize]}
  ELSE IF Reliable /\ t.fin_ack_count # t.fin_count
    THEN {[type |-> "ACK", class |-> GetClass(t), directive |-> "FIN"]}
  ELSE {}

S_Sent(t) ==
  IF t.send_md THEN [t EXCEPT !.send_md = FALSE]
  ELSE IF t.send_eof
    THEN [t EXCEPT !.send_eof = FALSE,
                   !.ack_timer_armed = IF Reliable THEN TRUE ELSE @]
  ELSE IF Reliable THEN [t EXCEPT !.fin_ack_count = t.fin_count]
  ELSE t

(* The transaction when S_Tick comes to its maintenance part. *)
S_Checked(t, w) ==
  LET u == S_InactivityTick(t, w)
  IN  IF Active(t) THEN S_CheckState(S_AckTimerTick(u, w)) ELSE u

S_Tick(t, w) ==
  LET u == S_Checked(t, w)
      v == IF w.blocked THEN u ELSE S_Sent(u)
  IN  IF v.inactivity_fired /\ v.state = "HOLD" THEN S_Recycled ELSE v

S_TickSends(t, w) == IF w.blocked THEN {} ELSE S_Due(S_Checked(t, w))

-------------------------------------------------------------------------------
(* The two data phases of a wakeup, one file data PDU at a time; reads     *)
(* says that CF_CFDP_S_SendFileData can read the segment.                  *)

FileDataPdu(t, offset) ==
  [type |-> "FILEDATA", class |-> GetClass(t), offset |-> offset]

S_SubstateSendFileData(t, reads) ==
  IF t.fd /\ reads THEN [t EXCEPT !.foffs = @ + 1]
                   ELSE SetTxnStatus(t, "READ_FAILURE")

(* The segment that comes first in the chunk list, as a set. *)
FirstSegment(t) == {s \in t.chunks : \A r \in t.chunks : s <= r}

S_Tick_Nak(t, reads) ==
  IF t.chunks = {} THEN [t EXCEPT !.fd_nak_pending = FALSE]
  ELSE IF t.fd /\ reads THEN [t EXCEPT !.chunks = @ \ FirstSegment(t)]
  ELSE t

-------------------------------------------------------------------------------
(* Received PDUs: the possible transactions after CF_CFDP_DispatchRecv. *)

S_RecvFin(t, p) ==
  LET u == IF t.fin_count # 0 THEN t
           ELSE SetTxnStatus([t EXCEPT !.fin_dc = p.delivery_code,
                                       !.fin_fs = p.file_status], p.cc)
  IN  IF CheckAckNakCount(u.fin_count)
        THEN [u EXCEPT !.fin_count = @ + 1]
        ELSE SetTxnStatus(u, "POS_ACK_LIMIT_REACHED")

S_RecvEarlyFin(t, p) == S_RecvFin(SetTxnStatus(t, "EARLY_FIN"), p)

(* The chunk lists that may result when a NAK's gaps are added one by one: *)
(* all of them unless the list overflows, which forgets some.  A peer that *)
(* has the metadata names no gap beyond the file, so none is rejected.     *)
ChunksAfterNak(chunks, segments) ==
  LET all == chunks \cup segments
  IN  {c \in SUBSET all : /\ NumRuns(c) <= TxChunks
                          /\ NumRuns(all) <= TxChunks => c = all}

S2_RecvNak(t, p) ==
  {[t EXCEPT !.send_md = @ \/ p.metadata,
             !.fd_nak_pending = @ \/ p.segments # {},
             !.chunks = c] : c \in ChunksAfterNak(t.chunks, p.segments)}

S2_RecvEofAck(t, p) ==
  IF p.directive = "EOF" THEN [t EXCEPT !.eof_ack_recv = TRUE] ELSE t

S_Recv(t, p) ==
  IF (p.class = 2) # Reliable THEN {t}
  ELSE IF t.state = "HOLD" THEN {IF p.type = "FIN" THEN S_RecvFin(t, p) ELSE t}
  ELSE CASE p.type = "FIN" /\ t.sub_state = "DATA_NORMAL" -> {S_RecvEarlyFin(t, p)}
         [] p.type = "FIN" /\ (Reliable \/ t.sub_state = "DATA_EOF") ->
              {S_RecvFin(t, p)}
         [] p.type = "NAK" /\ Reliable -> S2_RecvNak(t, p)
         [] p.type = "ACK" /\ Reliable /\ t.sub_state # "DATA_NORMAL" ->
              {S2_RecvEofAck(t, p)}
         [] OTHER -> {t}
===============================================================================
