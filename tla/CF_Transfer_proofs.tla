-------------------------- MODULE CF_Transfer_proofs --------------------------
(***************************************************************************)
(* Theorems about CF_Transfer, for every file size, ACK limit, chunk list  *)
(* size, CRC pace and option, with faults, commands and stale chunk lists: *)
(* types, what the files and the FINs say about each other, how both sides *)
(* conduct themselves, and that the transfer implements CF_Delivery.  They *)
(* rest on lemmas about the operators of CF_Sender and of CF_Receiver that *)
(* map a transaction to a transaction; a lemma is named after its operator *)
(* and what it says: ...OK that SenderOK or ReceiverOK is preserved,       *)
(* ...Conduct that S_Conduct or R_Conduct is, ...Same, ...Keeps, ...Marked *)
(* and ...Moves what does not change at all.                               *)
(***************************************************************************)
EXTENDS CF_Transfer, TLAPS

-------------------------------------------------------------------------------
(* The sender. *)

(***************************************************************************)
(* A well-typed sender that knows the size of its file once it is on the   *)
(* TX queue, and that was told of a retained file only if there is one.    *)
(***************************************************************************)
SenderOK(t, queue, retained) ==
  /\ t \in SenderType
  /\ t.q = queue
  /\ queue = "TX" => t.fsize = FileSize
  /\ t.fin_fs = "RETAINED" => retained

(* Every status that the code assigns is a status. *)
LEMMA Statuses ==
  /\ {"NO_ERROR", "NO_RESOURCE", "FILESTORE_REJECTION",
      "FILE_CHECKSUM_FAILURE", "FILE_SIZE_ERROR", "NAK_LIMIT_REACHED",
      "INACTIVITY_DETECTED", "INVALID_FILE_STRUCTURE", "POS_ACK_LIMIT_REACHED",
      "CANCEL_REQUEST_RECEIVED", "EARLY_FIN", "READ_FAILURE"} \subseteq TxnStatuses
  /\ ConditionCodes \subseteq TxnStatuses
  /\ \A st \in TxnStatuses : To_ConditionCode(st) \in ConditionCodes
BY DEF TxnStatuses, LocalStatuses, ConditionCodes, To_ConditionCode

LEMMA S_SetTxnStatus ==
  ASSUME NEW queue, NEW retained, NEW t, SenderOK(t, queue, retained), NEW st \in TxnStatuses
  PROVE  SenderOK(SetTxnStatus(t, st), queue, retained)
BY DEF SenderOK, SenderType, SetTxnStatus

LEMMA S_CancelTransaction ==
  ASSUME NEW queue, NEW retained, NEW t, SenderOK(t, queue, retained)
  PROVE  SenderOK(CancelTransaction(t), queue, retained)
<1>1. SenderOK([t EXCEPT !.canceled = TRUE], queue, retained)
  BY DEF SenderOK, SenderType
<1> QED
  BY <1>1, S_SetTxnStatus, Statuses DEF CancelTransaction

LEMMA S_FinishTransaction ==
  ASSUME NEW queue, NEW retained, NEW t, SenderOK(t, queue, retained)
  PROVE  SenderOK(FinishTransaction(t), queue, retained)
BY DEF SenderOK, SenderType, FinishTransaction

(* Suspending and resuming. *)
LEMMA S_Suspended ==
  ASSUME NEW queue, NEW retained, NEW t, SenderOK(t, queue, retained), NEW b \in BOOLEAN
  PROVE  SenderOK([t EXCEPT !.suspended = b], queue, retained)
BY DEF SenderOK, SenderType

LEMMA S_PendingOK ==
  ASSUME NEW retained, NEW status \in TxnStatuses
  PROVE  SenderOK(S_Pending(status), "PEND", retained)
BY FileSizeAssumption, AckLimitAssumption, Statuses
   DEF SenderOK, S_Pending, SenderType, TxSubStates, DeliveryCodes, FileStatuses

LEMMA S_RecycledOK == ASSUME NEW retained PROVE SenderOK(S_Recycled, S_Recycled.q, retained)
<1> DEFINE t == S_Pending("NO_ERROR")
<1>1. t \in SenderType /\ t.fin_fs = "DISCARDED"
  BY S_PendingOK, Statuses DEF SenderOK, S_Pending
<1> HIDE DEF t
<1>2. LET u == [t EXCEPT !.q = "FREE", !.state = "UNDEF"]
      IN  u \in SenderType /\ u.q = "FREE" /\ u.fin_fs = "DISCARDED"
  BY <1>1 DEF SenderType
<1> QED
  BY <1>2 DEF SenderOK, S_Recycled, t

-------------------------------------------------------------------------------

LEMMA SetupTxTransactionOK ==
  ASSUME NEW queue, NEW retained, NEW t, SenderOK(t, queue, retained),
         NEW has_chunks \in BOOLEAN, NEW opens \in BOOLEAN
  PROVE  LET v == SetupTxTransaction(t, has_chunks, opens)
         IN  SenderOK(v, v.q, retained)
<1> DEFINE u == AllocChunkList(t, has_chunks)
           v == IF TxnIsOK(u) THEN S_Init(u, opens) ELSE u
<1>1. SenderOK(u, queue, retained)
  BY S_SetTxnStatus, Statuses DEF AllocChunkList
<1>2. CASE ~TxnIsOK(u)
  BY <1>1, <1>2, S_RecycledOK DEF SetupTxTransaction
<1>3. CASE TxnIsOK(u) /\ ~opens
  <2>1. SenderOK(SetTxnStatus(u, "FILESTORE_REJECTION"), queue, retained)
    BY <1>1, S_SetTxnStatus, Statuses
  <2>2. ~TxnIsOK(SetTxnStatus(u, "FILESTORE_REJECTION"))
    BY <1>1, <1>3 DEF SetTxnStatus, TxnIsOK, IsError, SenderOK, SenderType
  <2> QED
    BY <1>3, S_RecycledOK, <2>1, <2>2 DEF SetupTxTransaction, S_Init
<1>4. CASE TxnIsOK(u) /\ opens
  <2> DEFINE x == [u EXCEPT !.fd = TRUE, !.fsize = FileSize, !.send_md = TRUE]
  <2> HIDE DEF u
  <2>1. x \in SenderType /\ TxnIsOK(x) /\ x.fsize = FileSize /\ x.fin_fs = u.fin_fs
    <3>1. FileSize \in 0 .. FileSize
      BY FileSizeAssumption
    <3> QED
      BY <1>1, <1>4, <3>1 DEF SenderOK, SenderType, TxnIsOK
  <2> HIDE DEF x
  <2>2. LET y == [x EXCEPT !.q = "TX"] IN SenderOK(y, y.q, retained)
    BY <1>1, <2>1 DEF SenderOK, SenderType
  <2> QED
    BY <1>4, <2>1, <2>2 DEF SetupTxTransaction, S_Init, u, x
<1> QED
  BY <1>2, <1>3, <1>4

-------------------------------------------------------------------------------

LEMMA S_EnterOK ==
  ASSUME NEW queue, NEW retained, NEW t, SenderOK(t, queue, retained), NEW next \in TxSubStates
  PROVE  SenderOK(S_Enter(t, next), queue, retained)
<1> DEFINE u == [t EXCEPT !.sub_state = next, !.ack_timer_armed = FALSE]
<1>1. SenderOK(u, queue, retained)
  BY DEF SenderOK, SenderType
<1> HIDE DEF u
<1>2. SenderOK([u EXCEPT !.acknak_count = 0, !.send_eof = TRUE], queue, retained)
  <2>1. 0 \in 0 .. AckLimit
    BY AckLimitAssumption
  <2> QED
    BY <1>1, <2>1 DEF SenderOK, SenderType
<1>3. SenderOK(FinishTransaction(u), queue, retained)
  BY <1>1, S_FinishTransaction
<1> QED
  BY <1>1, <1>2, <1>3 DEF S_Enter, TxSubStates, u

LEMMA SubStates == {"DATA_NORMAL", "DATA_EOF", "FILESTORE", "COMPLETE"} = TxSubStates
BY DEF TxSubStates

LEMMA S_CheckState_DATA_NORMAL_OK ==
  ASSUME NEW queue, NEW retained, NEW t, SenderOK(t, queue, retained)
  PROVE  SenderOK(S_CheckState_DATA_NORMAL(t), queue, retained)
BY S_EnterOK, SubStates DEF S_CheckState_DATA_NORMAL

LEMMA S_CompletedOK ==
  ASSUME NEW queue, NEW retained, NEW t, SenderOK(t, queue, retained)
  PROVE  SenderOK(S_Completed(t), queue, retained)
<1>1. SenderOK([t EXCEPT !.is_complete = TRUE], queue, retained)
  BY DEF SenderOK, SenderType
<1> QED
  BY <1>1, S_EnterOK, SubStates DEF S_Completed

LEMMA S_CheckState_DATA_EOF_OK ==
  ASSUME NEW queue, NEW retained, NEW t, SenderOK(t, queue, retained)
  PROVE  SenderOK(S_CheckState_DATA_EOF(t), queue, retained)
<1>1. SenderOK(S_Enter(t, "FILESTORE"), queue, retained)
  BY S_EnterOK, SubStates
<1>2. SenderOK(S2_CheckState_DATA_EOF(t), queue, retained)
  <2>1. SenderOK(S_Completed(t), queue, retained)
    BY S_CompletedOK
  <2>2. SenderOK(S_Enter(SetTxnStatus(t, "NAK_LIMIT_REACHED"), "FILESTORE"), queue, retained)
    BY S_SetTxnStatus, Statuses, S_EnterOK, SubStates
  <2>3. ASSUME CheckAckNakCount(t.acknak_count)
        PROVE  SenderOK([t EXCEPT !.acknak_count = @ + 1, !.send_eof = TRUE], queue, retained)
    <3>1. t.acknak_count + 1 \in 0 .. AckLimit
      BY <2>3, AckLimitAssumption DEF CheckAckNakCount, SenderOK, SenderType
    <3> QED
      BY <3>1 DEF SenderOK, SenderType
  <2> QED
    BY <1>1, <2>1, <2>2, <2>3 DEF S2_CheckState_DATA_EOF
<1>3. SenderOK(S1_CheckState_DATA_EOF(t), queue, retained)
  <2>1. SenderOK([t EXCEPT !.fin_dc = "UNREPORTED"], queue, retained)
    BY DEF SenderOK, SenderType, DeliveryCodes
  <2> QED
    BY <2>1, S_CompletedOK DEF S1_CheckState_DATA_EOF
<1> QED
  BY <1>1, <1>2, <1>3 DEF S_CheckState_DATA_EOF

LEMMA S_CheckStateOK ==
  ASSUME NEW queue, NEW retained, NEW t, SenderOK(t, queue, retained)
  PROVE  SenderOK(S_CheckState(t), queue, retained)
BY S_CheckState_DATA_NORMAL_OK, S_CheckState_DATA_EOF_OK, S_EnterOK, SubStates
   DEF S_CheckState

(* A class 2 source is removed or moved away only on a retained file. *)
LEMMA S_HandleFileRetentionOK ==
  ASSUME NEW queue, NEW retained, NEW t, SenderOK(t, queue, retained)
  PROVE  /\ S_HandleFileRetention(t)
              \in {"present", "removed", "in_move_dir", "in_fail_dir"}
         /\ Reliable /\ S_HandleFileRetention(t) \in {"removed", "in_move_dir"}
              => retained
BY DEF S_HandleFileRetention, SenderOK

-------------------------------------------------------------------------------

LEMMA S_InactivityTickOK ==
  ASSUME NEW queue, NEW retained, NEW t, SenderOK(t, queue, retained), NEW w
  PROVE  SenderOK(S_InactivityTick(t, w), queue, retained)
<1>1. SenderOK([t EXCEPT !.inactivity_fired = TRUE], queue, retained)
  BY DEF SenderOK, SenderType
<1> QED
  BY <1>1, S_SetTxnStatus, Statuses DEF S_InactivityTick

LEMMA S_CheckedOK ==
  ASSUME NEW queue, NEW retained, NEW t, SenderOK(t, queue, retained), NEW w
  PROVE  SenderOK(S_Checked(t, w), queue, retained)
<1> DEFINE u == S_InactivityTick(t, w)
<1>1. SenderOK(u, queue, retained)
  BY S_InactivityTickOK
<1>2. SenderOK([u EXCEPT !.ack_timer_armed = FALSE], queue, retained)
  BY <1>1, ZenonT(60) DEF SenderOK, SenderType
<1>3. SenderOK(S_AckTimerTick(u, w), queue, retained)
  BY <1>1, <1>2 DEF S_AckTimerTick
<1> QED
  BY <1>1, <1>3, S_CheckStateOK DEF S_Checked

LEMMA S_SentOK ==
  ASSUME NEW queue, NEW retained, NEW t, SenderOK(t, queue, retained)
  PROVE  SenderOK(S_Sent(t), queue, retained)
<1>1. SenderOK([t EXCEPT !.send_md = FALSE], queue, retained)
  BY DEF SenderOK, SenderType
<1>2. SenderOK([t EXCEPT !.fin_ack_count = t.fin_count], queue, retained)
  BY DEF SenderOK, SenderType
<1>3. SenderOK([t EXCEPT !.send_eof = FALSE,
                         !.ack_timer_armed = IF Reliable THEN TRUE ELSE @], queue, retained)
  BY DEF SenderOK, SenderType
<1> QED
  BY <1>1, <1>2, <1>3 DEF S_Sent

LEMMA S_TickOK ==
  ASSUME NEW queue, NEW retained, NEW t, SenderOK(t, queue, retained), NEW w
  PROVE  LET v == S_Tick(t, w) IN SenderOK(v, v.q, retained)
<1> DEFINE u == S_Checked(t, w)
           v == IF w.blocked THEN u ELSE S_Sent(u)
<1>1. SenderOK(v, queue, retained)
  BY S_CheckedOK, S_SentOK
<1> HIDE DEF v
<1>2. SenderOK(v, v.q, retained)
  BY <1>1 DEF SenderOK
<1> QED
  BY <1>2, S_RecycledOK DEF S_Tick, v

(* What S_Tick sends is a PDU, and metadata names the size of the file. *)
LEMMA S_DueOK ==
  ASSUME NEW retained, NEW t, SenderOK(t, "TX", retained), NEW p \in S_Due(t)
  PROVE  /\ p \in ToReceiver
         /\ p.type = "METADATA" => p.size = FileSize
<1> USE DEF ToReceiver, Classes
<1>1. GetClass(t) \in {1, 2}
  BY DEF GetClass
<1>2. t.fsize \in 0 .. FileSize /\ To_ConditionCode(t.txn_stat) \in ConditionCodes
  BY Statuses DEF SenderOK, SenderType
<1>3. CASE t.send_md
  BY <1>1, <1>2, <1>3, SenderFlagsAssumption DEF S_Due, Metadata, SenderOK
<1>4. CASE ~t.send_md /\ t.send_eof
  BY <1>1, <1>2, <1>4 DEF S_Due, Eof
<1>5. CASE ~t.send_md /\ ~t.send_eof
  BY <1>1, <1>5 DEF S_Due, Ack
<1> QED
  BY <1>3, <1>4, <1>5

-------------------------------------------------------------------------------

LEMMA S_SubstateSendFileDataOK ==
  ASSUME NEW queue, NEW retained, NEW t, SenderOK(t, queue, retained), t.foffs < t.fsize,
         NEW reads \in BOOLEAN
  PROVE  SenderOK(S_SubstateSendFileData(t, reads), queue, retained)
<1>1. t.foffs + 1 \in 0 .. FileSize
  BY FileSizeAssumption DEF SenderOK, SenderType
<1>2. SenderOK([t EXCEPT !.foffs = @ + 1], queue, retained)
  BY <1>1 DEF SenderOK, SenderType
<1> QED
  BY <1>2, S_SetTxnStatus, Statuses DEF S_SubstateSendFileData

LEMMA S_Tick_NakOK ==
  ASSUME NEW queue, NEW retained, NEW t, SenderOK(t, queue, retained), NEW reads \in BOOLEAN
  PROVE  SenderOK(S_Tick_Nak(t, reads), queue, retained)
<1>1. SenderOK([t EXCEPT !.fd_nak_pending = FALSE], queue, retained)
  BY DEF SenderOK, SenderType
<1>2. SenderOK([t EXCEPT !.chunks = @ \ FirstSegment(t)], queue, retained)
  BY DEF SenderOK, SenderType
<1> QED
  BY <1>1, <1>2 DEF S_Tick_Nak

LEMMA FileDataPduOK ==
  ASSUME NEW t, NEW offset \in Segs
  PROVE  FileDataPdu(t, offset) \in ToReceiver /\ FileDataPdu(t, offset).type = "FILEDATA"
BY DEF FileDataPdu, ToReceiver, FileData, Classes, GetClass

-------------------------------------------------------------------------------

LEMMA S_RecvFinOK ==
  ASSUME NEW queue, NEW retained, NEW t, SenderOK(t, queue, retained), NEW p \in Fin,
         p.file_status = "RETAINED" => retained
  PROVE  SenderOK(S_RecvFin(t, p), queue, retained)
<1> DEFINE u == IF t.fin_count # 0 THEN t
                ELSE SetTxnStatus([t EXCEPT !.fin_dc = p.delivery_code,
                                            !.fin_fs = p.file_status], p.cc)
<1>1. SenderOK(u, queue, retained)
  <2>1. SenderOK([t EXCEPT !.fin_dc = p.delivery_code, !.fin_fs = p.file_status], queue,
                 retained)
    BY DEF SenderOK, SenderType, Fin
  <2>2. p.cc \in TxnStatuses
    BY Statuses DEF Fin
  <2> QED
    BY <2>1, <2>2, S_SetTxnStatus
<1> HIDE DEF u
<1>2. ASSUME CheckAckNakCount(u.fin_count)
      PROVE  SenderOK([u EXCEPT !.fin_count = @ + 1], queue, retained)
  <2>1. u.fin_count + 1 \in 0 .. AckLimit
    BY <1>1, <1>2, AckLimitAssumption DEF CheckAckNakCount, SenderOK, SenderType
  <2> QED
    BY <1>1, <2>1 DEF SenderOK, SenderType
<1>3. SenderOK(SetTxnStatus(u, "POS_ACK_LIMIT_REACHED"), queue, retained)
  BY <1>1, S_SetTxnStatus, Statuses
<1> QED
  BY <1>2, <1>3 DEF S_RecvFin, u

LEMMA S2_RecvNakOK ==
  ASSUME NEW queue, NEW retained, NEW t, SenderOK(t, queue, retained), NEW p \in Nak,
         NEW u \in S2_RecvNak(t, p)
  PROVE  SenderOK(u, queue, retained)
<1>1. PICK c \in ChunksAfterNak(t.chunks, p.segments) :
        u = [t EXCEPT !.send_md = @ \/ p.metadata,
                      !.fd_nak_pending = @ \/ p.segments # {},
                      !.chunks = c]
  BY DEF S2_RecvNak
<1>2. c \in SUBSET Segs
  BY DEF ChunksAfterNak, SenderOK, SenderType, Nak
<1>3. (t.send_md \/ p.metadata) \in BOOLEAN
      /\ (t.fd_nak_pending \/ p.segments # {}) \in BOOLEAN
  OBVIOUS
<1> QED
  BY <1>1, <1>2, <1>3, ZenonT(60) DEF SenderOK, SenderType

LEMMA S_RecvOK ==
  ASSUME NEW queue, NEW retained, NEW t, SenderOK(t, queue, retained), NEW p \in ToSender,
         p.type = "FIN" /\ p.file_status = "RETAINED" => retained,
         NEW u \in S_Recv(t, p)
  PROVE  SenderOK(u, queue, retained)
<1>1. p.type = "FIN" => p \in Fin
  BY DEF ToSender, Fin, Nak, Ack
<1>2. p.type = "NAK" => p \in Nak
  BY DEF ToSender, Fin, Nak, Ack
<1>3. ASSUME p.type = "FIN"
      PROVE  SenderOK(S_RecvFin(t, p), queue, retained) /\ SenderOK(S_RecvEarlyFin(t, p), queue, retained)
  <2>1. SenderOK(SetTxnStatus(t, "EARLY_FIN"), queue, retained)
    BY S_SetTxnStatus, Statuses
  <2> QED
    BY <1>1, <1>3, <2>1, S_RecvFinOK DEF S_RecvEarlyFin
<1>4. SenderOK(S2_RecvEofAck(t, p), queue, retained)
  <2>1. SenderOK([t EXCEPT !.eof_ack_recv = TRUE], queue, retained)
    BY DEF SenderOK, SenderType
  <2> QED
    BY <2>1 DEF S2_RecvEofAck
<1>5. ASSUME p.type = "NAK", u \in S2_RecvNak(t, p)
      PROVE  SenderOK(u, queue, retained)
  BY <1>2, <1>5, S2_RecvNakOK
<1> QED
  BY <1>3, <1>4, <1>5 DEF S_Recv

-------------------------------------------------------------------------------
(* The receiver. *)

(***************************************************************************)
(* A well-typed receiver whose metadata tells the size of the file sent,   *)
(* which takes no file for complete without metadata, whose CRC, while it  *)
(* still decides about the file, was computed over segments that are in    *)
(* the temporary file, and which reports a retained file only if there is  *)
(* one.                                                                    *)
(***************************************************************************)
Undecided(t) == t.sub_state \notin {"FINACK", "COMPLETE"}

ReceiverOK(t, segs, retained) ==
  /\ t \in ReceiverType
  /\ t.md_recv => t.fsize = FileSize
  /\ t.is_complete => t.md_recv
  /\ Undecided(t) => \A s \in Nat : s < t.crc_pos => s \in segs
  /\ t.fin_fs = "RETAINED" => retained

LEMMA Bounds == 0 \in 0 .. AckLimit /\ 0 \in 0 .. FileSize /\ FileSize \in Nat
                /\ 0 \in NoCrc .. FileSize /\ NoCrc \in NoCrc .. FileSize
BY FileSizeAssumption, AckLimitAssumption DEF NoCrc

LEMMA R_SetTxnStatus ==
  ASSUME NEW segs, NEW retained, NEW t, ReceiverOK(t, segs, retained),
         NEW st \in TxnStatuses
  PROVE  ReceiverOK(SetTxnStatus(t, st), segs, retained)
BY DEF ReceiverOK, Undecided, ReceiverType, SetTxnStatus

LEMMA R_CancelTransaction ==
  ASSUME NEW segs, NEW retained, NEW t, ReceiverOK(t, segs, retained)
  PROVE  ReceiverOK(CancelTransaction(t), segs, retained)
<1>1. ReceiverOK([t EXCEPT !.canceled = TRUE], segs, retained)
  BY DEF ReceiverOK, Undecided, ReceiverType
<1> QED
  BY <1>1, R_SetTxnStatus, Statuses DEF CancelTransaction

LEMMA R_FinishTransaction ==
  ASSUME NEW segs, NEW retained, NEW t, ReceiverOK(t, segs, retained)
  PROVE  ReceiverOK(FinishTransaction(t), segs, retained)
BY ZenonT(60) DEF ReceiverOK, Undecided, ReceiverType, FinishTransaction

LEMMA R_Suspended ==
  ASSUME NEW segs, NEW retained, NEW t, ReceiverOK(t, segs, retained),
         NEW b \in BOOLEAN
  PROVE  ReceiverOK([t EXCEPT !.suspended = b], segs, retained)
BY DEF ReceiverOK, Undecided, ReceiverType

LEMMA R_NoneOK ==
  ASSUME NEW segs, NEW retained
  PROVE  ReceiverOK(R_None, segs, retained)
<1>1. R_None \in ReceiverType
  BY Bounds, Statuses
     DEF R_None, ReceiverType, RxSubStates, DeliveryCodes, FileStatuses
<1> QED
  BY <1>1 DEF ReceiverOK, Undecided, R_None, NoCrc

(* The temporary file may grow. *)
LEMMA TempGrows ==
  ASSUME NEW segs, NEW retained, NEW t, ReceiverOK(t, segs, retained),
         NEW more, segs \subseteq more
  PROVE  ReceiverOK(t, more, retained)
BY DEF ReceiverOK

-------------------------------------------------------------------------------

LEMMA SetupRxTransactionOK ==
  ASSUME NEW segs, NEW retained, NEW p, NEW status \in TxnStatuses,
         NEW has_chunks \in BOOLEAN, NEW held \in SUBSET Segs, NEW creates \in BOOLEAN
  PROVE  ReceiverOK(SetupRxTransaction(p, status, has_chunks, held, creates), segs, retained)
<1> DEFINE none == [R_None EXCEPT !.txn_stat = status]
           t == AllocChunkList(none, has_chunks)
           state == IF p.class = 2 THEN "R2" ELSE "R1"
           u == [t EXCEPT !.reliable = (p.class = 2), !.chunks = held, !.state = state]
           v == [u EXCEPT !.fin_dc = "INVALID", !.fin_fs = "INVALID"]
<1>1. ReceiverOK(none, segs, retained)
  BY R_NoneOK DEF ReceiverOK, Undecided, ReceiverType
<1> HIDE DEF none
<1>2. ReceiverOK(t, segs, retained)
  BY <1>1, R_SetTxnStatus, Statuses DEF AllocChunkList
<1> HIDE DEF t
<1>3. ReceiverOK([t EXCEPT !.state = "HOLD"], segs, retained)
  BY <1>2 DEF ReceiverOK, Undecided, ReceiverType
<1>4. ReceiverOK(u, segs, retained)
  BY <1>2, ZenonT(60) DEF ReceiverOK, Undecided, ReceiverType
<1> HIDE DEF u
<1>5. ReceiverOK(v, segs, retained)
  BY <1>4 DEF ReceiverOK, Undecided, ReceiverType, DeliveryCodes, FileStatuses
<1> HIDE DEF v
<1>6. ReceiverOK([v EXCEPT !.fd = TRUE, !.tempfile_created = TRUE], segs, retained)
  BY <1>5, ZenonT(60) DEF ReceiverOK, Undecided, ReceiverType
<1>7. ReceiverOK(SetTxnStatus(v, "FILESTORE_REJECTION"), segs, retained)
  BY <1>5, R_SetTxnStatus, Statuses
<1>8. ReceiverOK(R_Init(u, creates), segs, retained)
  BY <1>6, <1>7 DEF R_Init, v
<1> QED
  BY <1>3, <1>8 DEF SetupRxTransaction, none, t, u

-------------------------------------------------------------------------------

LEMMA R_RecvEofOK ==
  ASSUME NEW segs, NEW retained, NEW t, ReceiverOK(t, segs, retained), NEW p \in Eof
  PROVE  ReceiverOK(R_RecvEof(t, p), segs, retained)
<1> DEFINE u == IF t.eof_count # 0 THEN t
                ELSE SetTxnStatus([t EXCEPT !.eof_size = p.size], p.cc)
<1>1. ReceiverOK(u, segs, retained)
  <2>1. ReceiverOK([t EXCEPT !.eof_size = p.size], segs, retained)
    BY DEF ReceiverOK, Undecided, ReceiverType, Eof
  <2>2. p.cc \in TxnStatuses
    BY Statuses DEF Eof
  <2> QED
    BY <2>1, <2>2, R_SetTxnStatus
<1> HIDE DEF u
<1>2. ASSUME CheckAckNakCount(u.eof_count)
      PROVE  ReceiverOK([u EXCEPT !.eof_count = @ + 1], segs, retained)
  <2>1. u.eof_count + 1 \in 0 .. AckLimit
    BY <1>1, <1>2, AckLimitAssumption DEF CheckAckNakCount, ReceiverOK, ReceiverType
  <2> QED
    BY <1>1, <2>1 DEF ReceiverOK, Undecided, ReceiverType
<1>3. ReceiverOK(SetTxnStatus(u, "POS_ACK_LIMIT_REACHED"), segs, retained)
  BY <1>1, R_SetTxnStatus, Statuses
<1> QED
  BY <1>2, <1>3 DEF R_RecvEof, u

LEMMA R_RecvMdOK ==
  ASSUME NEW segs, NEW retained, NEW t, ReceiverOK(t, segs, retained),
         NEW p \in Metadata, p.size = FileSize
  PROVE  ReceiverOK(R_RecvMd(t, p), segs, retained)
<1>1. ReceiverOK([t EXCEPT !.md_recv = TRUE, !.fsize = p.size,
                           !.close_req = p.close_req], segs, retained)
  BY ZenonT(60) DEF ReceiverOK, Undecided, ReceiverType, Metadata
<1> QED
  BY <1>1 DEF R_RecvMd

LEMMA R_RecvFdOK ==
  ASSUME NEW segs, NEW retained, NEW t, ReceiverOK(t, segs, retained),
         NEW p \in FileData, NEW seeks \in BOOLEAN, NEW writes \in BOOLEAN,
         NEW u \in R_RecvFd(t, p, seeks, writes)
  PROVE  ReceiverOK(u, segs, retained)
<1>1. p.offset \in Segs /\ p.offset \in 0 .. FileSize /\ p.offset + 1 \in 0 .. FileSize
  BY FileSizeAssumption DEF FileData, Segs
<1>2. ASSUME NEW c \in LearnOutcomes(t.chunks, {p.offset}, RxChunks)
      PROVE  ReceiverOK([t EXCEPT !.cached_pos = p.offset + 1, !.acknak_count = 0,
                                  !.chunks = c], segs, retained)
  <2>1. c \in SUBSET Segs
    BY <1>1 DEF LearnOutcomes, ReceiverOK, ReceiverType
  <2> QED
    BY <1>1, <2>1, Bounds DEF ReceiverOK, Undecided, ReceiverType
<1>3. ReceiverOK([t EXCEPT !.cached_pos = p.offset], segs, retained)
  BY <1>1 DEF ReceiverOK, Undecided, ReceiverType
<1>4. /\ ReceiverOK(SetTxnStatus(t, "FILE_SIZE_ERROR"), segs, retained)
      /\ ReceiverOK(SetTxnStatus([t EXCEPT !.cached_pos = p.offset],
                                 "FILESTORE_REJECTION"), segs, retained)
  BY <1>3, R_SetTxnStatus, Statuses
<1>5. CASE R_Stores(t, p, seeks, writes)
  BY <1>2, <1>5 DEF R_RecvFd
<1>6. CASE ~R_Stores(t, p, seeks, writes)
  BY <1>4, <1>6 DEF R_RecvFd
<1> QED
  BY <1>5, <1>6

LEMMA R_RecvOK ==
  ASSUME NEW segs, NEW retained, NEW t, ReceiverOK(t, segs, retained),
         NEW p \in ToReceiver, p.type = "METADATA" => p.size = FileSize,
         NEW seeks \in BOOLEAN, NEW writes \in BOOLEAN,
         NEW u \in R_Recv(t, p, seeks, writes)
  PROVE  ReceiverOK(u, segs, retained)
<1>1. /\ p.type = "METADATA" => p \in Metadata
      /\ p.type = "FILEDATA" => p \in FileData
      /\ p.type = "EOF" => p \in Eof
  BY DEF ToReceiver, Metadata, FileData, Eof, Ack
<1>2. p.type = "EOF" => ReceiverOK(R_RecvEof(t, p), segs, retained)
  BY <1>1, R_RecvEofOK
<1>3. p.type = "METADATA" => ReceiverOK(R_RecvMd(t, p), segs, retained)
  BY <1>1, R_RecvMdOK
<1>4. ReceiverOK([t EXCEPT !.finack_recv = (@ \/ p.directive = "FIN")], segs, retained)
  BY DEF ReceiverOK, Undecided, ReceiverType
<1>5. ReceiverOK(R_Directive(t, p), segs, retained)
  BY <1>2, <1>3, <1>4 DEF R_Directive
<1>6. ASSUME R_AcceptsFd(t, p), u \in R_RecvFd(t, p, seeks, writes)
      PROVE  ReceiverOK(u, segs, retained)
  BY <1>1, <1>6, R_RecvFdOK DEF R_AcceptsFd
<1> QED
  BY <1>2, <1>5, <1>6 DEF R_Recv

-------------------------------------------------------------------------------

LEMMA R_CalcCrcStartOK ==
  ASSUME NEW segs, NEW retained, NEW t, ReceiverOK(t, segs, retained), NEW works
  PROVE  ReceiverOK(R_CalcCrcStart(t, works), segs, retained)
<1> DEFINE u == [t EXCEPT !.crc_pos = 0, !.cached_pos = 0]
<1>1. ReceiverOK(u, segs, retained)
  <2>1. /\ u \in ReceiverType
        /\ u.crc_pos = 0
        /\ u.md_recv = t.md_recv /\ u.fsize = t.fsize
        /\ u.is_complete = t.is_complete /\ u.fin_fs = t.fin_fs
    BY Bounds DEF ReceiverOK, ReceiverType
  <2> HIDE DEF u
  <2>2. \A s \in Nat : s < u.crc_pos => s \in segs
    BY <2>1
  <2> QED
    BY <2>1, <2>2 DEF ReceiverOK
<1> QED
  BY <1>1, R_SetTxnStatus, Statuses DEF R_CalcCrcStart

LEMMA R_CalcCrcChunkOK ==
  ASSUME NEW segs, NEW retained, NEW t, ReceiverOK(t, segs, retained), NEW works
  PROVE  ReceiverOK(R_CalcCrcChunk(t, segs, works), segs, retained)
<1> DEFINE end == IF t.cached_pos + CrcPerWakeup > t.fsize THEN t.fsize
                  ELSE t.cached_pos + CrcPerWakeup
           Continues == t.crc_pos = t.cached_pos /\ t.cached_pos .. end - 1 \subseteq segs
           pos == IF Continues THEN end ELSE NoCrc
<1>1. end \in 0 .. FileSize
  BY Bounds, CrcPerWakeupAssumption DEF ReceiverOK, ReceiverType
<1>2. pos \in NoCrc .. FileSize
  BY <1>1, Bounds DEF NoCrc
<1>3. Undecided(t) => \A s \in Nat : s < pos => s \in segs
  <2> SUFFICES ASSUME Undecided(t), NEW s \in Nat, s < pos
               PROVE  s \in segs
    OBVIOUS
  <2>1. Continues /\ pos = end
    BY DEF NoCrc
  <2>2. CASE s < t.crc_pos
    BY <2>2 DEF ReceiverOK
  <2>3. CASE ~(s < t.crc_pos)
    <3>1. t.crc_pos \in Int /\ t.crc_pos = t.cached_pos
      BY <2>1, Bounds DEF ReceiverOK, ReceiverType, NoCrc
    <3>2. s \in t.cached_pos .. end - 1
      BY <1>1, <2>1, <2>3, <3>1, Bounds
    <3> QED
      BY <2>1, <3>2
  <2> QED
    BY <2>2, <2>3
<1>4. ReceiverOK([t EXCEPT !.cached_pos = end, !.crc_pos = pos], segs, retained)
  <2> HIDE DEF end, pos
  <2> QED
    BY <1>1, <1>2, <1>3 DEF ReceiverOK, Undecided, ReceiverType
<1>5. ReceiverOK(SetTxnStatus(t, "FILE_SIZE_ERROR"), segs, retained)
  BY R_SetTxnStatus, Statuses
<1> QED
  BY <1>4, <1>5 DEF R_CalcCrcChunk

LEMMA R_SubStates ==
  {"DATA_NORMAL", "DATA_EOF", "VALIDATE", "FILESTORE", "FINACK", "COMPLETE"} = RxSubStates
BY DEF RxSubStates

(* A sub-state is entered from one in which the CRC still mattered, or is  *)
(* one in which it does not.                                               *)
LEMMA R_EnterOK ==
  ASSUME NEW segs, NEW retained, NEW t, ReceiverOK(t, segs, retained),
         NEW next \in RxSubStates, NEW works, next \in {"FINACK", "COMPLETE"} \/ Undecided(t)
  PROVE  ReceiverOK(R_Enter(t, next, works), segs, retained)
<1> DEFINE u == [t EXCEPT !.sub_state = next, !.ack_timer_armed = FALSE]
<1>1. ReceiverOK(u, segs, retained)
  <2>1. /\ u \in ReceiverType /\ u.sub_state = next /\ u.md_recv = t.md_recv
        /\ u.fsize = t.fsize /\ u.is_complete = t.is_complete
        /\ u.crc_pos = t.crc_pos /\ u.fin_fs = t.fin_fs
    BY DEF ReceiverOK, ReceiverType
  <2> HIDE DEF u
  <2> QED
    BY <2>1 DEF ReceiverOK, Undecided
<1> HIDE DEF u
<1>2. ReceiverOK([u EXCEPT !.acknak_count = 0, !.send_nak = (@ \/ t.reliable)],
                 segs, retained)
  <2>1. (u.send_nak \/ t.reliable) \in BOOLEAN
    OBVIOUS
  <2> QED
    BY <1>1, <2>1, Bounds, ZenonT(60) DEF ReceiverOK, Undecided, ReceiverType
<1>3. ReceiverOK([u EXCEPT !.acknak_count = 0, !.send_fin = TRUE], segs, retained)
  BY <1>1, Bounds DEF ReceiverOK, Undecided, ReceiverType
<1>4. /\ ReceiverOK(R_CalcCrcStart(u, works), segs, retained)
      /\ ReceiverOK(FinishTransaction(u), segs, retained)
  BY <1>1, R_CalcCrcStartOK, R_FinishTransaction
<1> QED
  BY <1>1, <1>2, <1>3, <1>4 DEF R_Enter, u

LEMMA R_CheckState_DATA_NORMAL_OK ==
  ASSUME NEW segs, NEW retained, NEW t, ReceiverOK(t, segs, retained), NEW works,
         t.sub_state = "DATA_NORMAL"
  PROVE  ReceiverOK(R_CheckState_DATA_NORMAL(t, works), segs, retained)
BY R_EnterOK, R_SubStates DEF R_CheckState_DATA_NORMAL, Undecided

LEMMA R_CheckState_DATA_EOF_OK ==
  ASSUME NEW segs, NEW retained, NEW t, ReceiverOK(t, segs, retained), NEW works,
         t.sub_state = "DATA_EOF"
  PROVE  ReceiverOK(R_CheckState_DATA_EOF(t, works), segs, retained)
<1>1. ReceiverOK(R_Enter(t, "FILESTORE", works), segs, retained)
  BY R_EnterOK, R_SubStates DEF Undecided
<1>2. ASSUME R_CheckComplete(t)
      PROVE  ReceiverOK(R_Enter([t EXCEPT !.is_complete = TRUE], "VALIDATE", works),
                        segs, retained)
  <2> DEFINE u == [t EXCEPT !.is_complete = TRUE]
  <2>1. ReceiverOK(u, segs, retained) /\ Undecided(u)
    BY <1>2 DEF R_CheckComplete, ReceiverOK, Undecided, ReceiverType
  <2> HIDE DEF u
  <2>2. ReceiverOK(R_Enter(u, "VALIDATE", works), segs, retained)
    BY <2>1, R_EnterOK, R_SubStates
  <2> QED
    BY <2>2 DEF u
<1>3. ASSUME CheckAckNakCount(t.acknak_count)
      PROVE  ReceiverOK([t EXCEPT !.acknak_count = @ + 1, !.send_nak = TRUE], segs, retained)
  <2>1. t.acknak_count + 1 \in 0 .. AckLimit
    BY <1>3, AckLimitAssumption DEF CheckAckNakCount, ReceiverOK, ReceiverType
  <2> QED
    BY <2>1 DEF ReceiverOK, Undecided, ReceiverType
<1>4. ReceiverOK(R_Enter(SetTxnStatus(t, "NAK_LIMIT_REACHED"), "FILESTORE", works),
                 segs, retained)
  <2> DEFINE u == SetTxnStatus(t, "NAK_LIMIT_REACHED")
  <2>1. ReceiverOK(u, segs, retained)
    BY R_SetTxnStatus, Statuses
  <2>2. Undecided(u)
    BY DEF SetTxnStatus, Undecided, ReceiverOK, ReceiverType
  <2> HIDE DEF u
  <2>3. ReceiverOK(R_Enter(u, "FILESTORE", works), segs, retained)
    BY <2>1, <2>2, R_EnterOK, R_SubStates
  <2> QED
    BY <2>3 DEF u
<1> QED
  BY <1>1, <1>2, <1>3, <1>4 DEF R_CheckState_DATA_EOF

LEMMA R_CheckState_VALIDATE_OK ==
  ASSUME NEW segs, NEW retained, NEW t, ReceiverOK(t, segs, retained), NEW works,
         t.sub_state = "VALIDATE"
  PROVE  ReceiverOK(R_CheckState_VALIDATE(t, segs, works), segs, retained)
BY R_EnterOK, R_SubStates, R_CalcCrcChunkOK DEF R_CheckState_VALIDATE, Undecided

LEMMA R_CheckState_FINACK_OK ==
  ASSUME NEW segs, NEW retained, NEW t, ReceiverOK(t, segs, retained), NEW works
  PROVE  ReceiverOK(R_CheckState_FINACK(t, works), segs, retained)
<1>1. ReceiverOK(R_Enter(t, "COMPLETE", works), segs, retained)
  BY R_EnterOK, R_SubStates
<1>2. ASSUME CheckAckNakCount(t.acknak_count)
      PROVE  ReceiverOK([t EXCEPT !.acknak_count = @ + 1, !.send_fin = TRUE], segs, retained)
  <2>1. t.acknak_count + 1 \in 0 .. AckLimit
    BY <1>2, AckLimitAssumption DEF CheckAckNakCount, ReceiverOK, ReceiverType
  <2> QED
    BY <2>1 DEF ReceiverOK, Undecided, ReceiverType
<1> QED
  BY <1>1, <1>2 DEF R_CheckState_FINACK

(***************************************************************************)
(* A file that is moved into place is the file that was sent.              *)
(***************************************************************************)
LEMMA R_MovesTheFileSent ==
  ASSUME NEW segs, NEW retained, NEW t, ReceiverOK(t, segs, retained),
         Undecided(t), R_Moves(t)
  PROVE  t.fsize = FileSize /\ Missing(segs, FileSize) = {}
<1>1. t.fsize = FileSize /\ t.crc_pos = FileSize
  BY DEF R_Moves, R_CrcMatches, ReceiverOK
<1>2. \A s \in 0 .. FileSize - 1 : s \in segs
  BY <1>1, Bounds DEF ReceiverOK
<1> QED
  BY <1>1, <1>2 DEF Missing

(***************************************************************************)
(* Once the file is dealt with, the temporary file does not matter any     *)
(* more, and a file is reported as retained only if it was moved.          *)
(***************************************************************************)
LEMMA R_CheckState_FILESTORE_OK ==
  ASSUME NEW segs, NEW retained, NEW t, ReceiverOK(t, segs, retained), NEW works,
         NEW other
  PROVE  ReceiverOK(R_CheckState_FILESTORE(t, works), other,
                    retained \/ (R_Moves(t) /\ works))
<1> DEFINE now == retained \/ (R_Moves(t) /\ works)
           u == [t EXCEPT !.fd = FALSE]
           file == R_HandleFileRetention(t, works)
           next == IF t.reliable \/ t.close_req THEN "FINACK" ELSE "COMPLETE"
           Typed(x) == /\ x \in ReceiverType
                       /\ x.md_recv => x.fsize = FileSize
                       /\ x.is_complete => x.md_recv
                       /\ x.fin_fs = "RETAINED" => now
<1>1. retained => now
  OBVIOUS
<1> HIDE DEF now
<1>2. Typed(u)
  BY <1>1, ZenonT(60) DEF ReceiverOK, ReceiverType
<1> HIDE DEF u
<1>3. ASSUME NEW x, Typed(x), NEW st \in TxnStatuses
      PROVE  Typed(SetTxnStatus(x, st))
  BY <1>3 DEF SetTxnStatus, ReceiverType
<1>4. ASSUME NEW x, Typed(x), NEW dc \in DeliveryCodes
      PROVE  Typed(R_Discarded(x, dc))
  BY <1>4 DEF R_Discarded, ReceiverType, FileStatuses
<1>5. Typed([u EXCEPT !.fin_dc = "INVALID", !.fin_fs = "INVALID"])
  BY <1>2 DEF ReceiverType, DeliveryCodes, FileStatuses
<1>6. ASSUME now
      PROVE  Typed([u EXCEPT !.txn_stat = "NO_ERROR", !.fin_dc = "COMPLETE",
                             !.fin_fs = "RETAINED"])
  BY <1>2, <1>6, Statuses DEF ReceiverType, DeliveryCodes, FileStatuses
<1>7. Typed(file)
  <2>1. {"COMPLETE", "INCOMPLETE"} \subseteq DeliveryCodes
    BY DEF DeliveryCodes
  <2>2. Typed(R_Discarded(SetTxnStatus(u, "INVALID_FILE_STRUCTURE"), "INCOMPLETE"))
    BY <1>2, <1>3, <1>4, <2>1, Statuses
  <2>3. Typed(R_Discarded(SetTxnStatus(u, "FILE_CHECKSUM_FAILURE"), "COMPLETE"))
    BY <1>2, <1>3, <1>4, <2>1, Statuses
  <2>4. Typed(R_Discarded(SetTxnStatus(u, "FILESTORE_REJECTION"), "COMPLETE"))
    BY <1>2, <1>3, <1>4, <2>1, Statuses
  <2>5. Typed(SetTxnStatus([u EXCEPT !.fin_dc = "INVALID", !.fin_fs = "INVALID"],
                           "FILESTORE_REJECTION"))
    BY <1>3, <1>5, Statuses
  <2> HIDE DEF Typed
  <2> QED
    BY <1>6, <2>2, <2>3, <2>4, <2>5 DEF R_HandleFileRetention, u, now
<1> HIDE DEF file
<1>8. next \in {"FINACK", "COMPLETE"} /\ next \in RxSubStates
  BY R_SubStates
<1> HIDE DEF next
<1> DEFINE v == [file EXCEPT !.sub_state = next, !.ack_timer_armed = FALSE]
<1>9. ReceiverOK(v, other, now)
  <2>1. /\ v \in ReceiverType /\ v.sub_state = next /\ v.md_recv = file.md_recv
        /\ v.fsize = file.fsize /\ v.is_complete = file.is_complete
        /\ v.fin_fs = file.fin_fs
    BY <1>7, <1>8 DEF ReceiverType
  <2> QED
    BY <1>7, <1>8, <2>1 DEF ReceiverOK, Undecided
<1> HIDE DEF v
<1>10. ReceiverOK([v EXCEPT !.acknak_count = 0, !.send_fin = TRUE], other, now)
  BY <1>9, Bounds, ZenonT(60) DEF ReceiverOK, Undecided, ReceiverType
<1>11. ReceiverOK(FinishTransaction(v), other, now)
  BY <1>9, R_FinishTransaction
<1> QED
  BY <1>8, <1>10, <1>11 DEF R_CheckState_FILESTORE, R_Enter, file, next, v, now

-------------------------------------------------------------------------------

LEMMA R_InactivityTickOK ==
  ASSUME NEW segs, NEW retained, NEW t, ReceiverOK(t, segs, retained), NEW w
  PROVE  /\ ReceiverOK(R_InactivityTick(t, w), segs, retained)
         /\ R_InactivityTick(t, w).sub_state = t.sub_state
         /\ Active(R_InactivityTick(t, w)) = Active(t)
<1> DEFINE u == [t EXCEPT !.inactivity_fired = TRUE]
<1>1. ReceiverOK(u, segs, retained) /\ u.sub_state = t.sub_state /\ u.state = t.state
  BY DEF ReceiverOK, Undecided, ReceiverType
<1> HIDE DEF u
<1>2. LET v == SetTxnStatus(u, "INACTIVITY_DETECTED")
      IN  ReceiverOK(v, segs, retained) /\ v.sub_state = t.sub_state /\ v.state = t.state
  <2>1. ReceiverOK(SetTxnStatus(u, "INACTIVITY_DETECTED"), segs, retained)
    BY <1>1, R_SetTxnStatus, Statuses
  <2> QED
    BY <1>1, <2>1 DEF SetTxnStatus, ReceiverOK, ReceiverType
<1> QED
  BY <1>1, <1>2 DEF R_InactivityTick, Active, u

LEMMA R_AckTimerTickOK ==
  ASSUME NEW segs, NEW retained, NEW t, ReceiverOK(t, segs, retained), NEW w
  PROVE  /\ ReceiverOK(R_AckTimerTick(t, w), segs, retained)
         /\ R_AckTimerTick(t, w).sub_state = t.sub_state
         /\ R_Moves(R_AckTimerTick(t, w)) = R_Moves(t)
<1> DEFINE u == [t EXCEPT !.ack_timer_armed = FALSE]
<1>1. ReceiverOK(u, segs, retained) /\ u.sub_state = t.sub_state
  BY ZenonT(60) DEF ReceiverOK, Undecided, ReceiverType
<1>2. /\ u.tempfile_created = t.tempfile_created /\ u.is_complete = t.is_complete
      /\ u.txn_stat = t.txn_stat /\ u.crc_pos = t.crc_pos /\ u.fsize = t.fsize
  BY DEF ReceiverOK, ReceiverType
<1> HIDE DEF u
<1>3. R_Moves(u) = R_Moves(t)
  BY <1>2 DEF R_Moves, TxnIsOK, R_CrcMatches
<1> QED
  BY <1>1, <1>3 DEF R_AckTimerTick, u

(* A tick that does not deal with the file. *)
LEMMA R_CheckedOK ==
  ASSUME NEW segs, NEW retained, NEW t, ReceiverOK(t, segs, retained), NEW w,
         ~R_Files(t)
  PROVE  ReceiverOK(R_Checked(t, segs, w), segs, retained)
<1> DEFINE u == R_InactivityTick(t, w)
           v == R_AckTimerTick(u, w)
<1>1. ReceiverOK(u, segs, retained) /\ u.sub_state = t.sub_state
  BY R_InactivityTickOK
<1> HIDE DEF u
<1>2. ReceiverOK(v, segs, retained) /\ v.sub_state = t.sub_state
  BY <1>1, R_AckTimerTickOK
<1> HIDE DEF v
<1>3. ASSUME Active(t)
      PROVE  ReceiverOK(R_CheckState(v, segs, w.works), segs, retained)
  <2>1. v.sub_state # "FILESTORE"
    BY <1>2, <1>3 DEF R_Files
  <2> QED
    BY <1>2, <2>1, R_CheckState_DATA_NORMAL_OK, R_CheckState_DATA_EOF_OK,
       R_CheckState_VALIDATE_OK, R_CheckState_FINACK_OK
       DEF R_CheckState
<1> QED
  BY <1>1, <1>3 DEF R_Checked, u, v

(* A tick that does. *)
LEMMA R_CheckedFilesOK ==
  ASSUME NEW segs, NEW retained, NEW t, ReceiverOK(t, segs, retained), NEW w,
         R_Files(t), NEW other
  PROVE  ReceiverOK(R_Checked(t, segs, w), other, retained \/ R_Retains(t, w))
<1> DEFINE u == R_InactivityTick(t, w)
           v == R_AckTimerTick(u, w)
<1>1. ReceiverOK(u, segs, retained) /\ u.sub_state = t.sub_state
  BY R_InactivityTickOK
<1>2. R_Retains(t, w) <=> (R_Moves(u) /\ w.works)
  BY DEF R_Retains
<1> HIDE DEF u
<1>3. /\ ReceiverOK(v, segs, retained) /\ v.sub_state = "FILESTORE"
      /\ R_Moves(v) = R_Moves(u)
  BY <1>1, R_AckTimerTickOK DEF R_Files
<1> HIDE DEF v
<1>4. ReceiverOK(R_CheckState_FILESTORE(v, w.works), other,
                 retained \/ (R_Moves(v) /\ w.works))
  BY <1>3, R_CheckState_FILESTORE_OK
<1>5. R_Checked(t, segs, w) = R_CheckState_FILESTORE(v, w.works)
  BY <1>3 DEF R_Checked, R_Files, R_CheckState, u, v
<1> QED
  BY <1>2, <1>3, <1>4, <1>5 DEF ReceiverOK

LEMMA R_SentOK ==
  ASSUME NEW segs, NEW retained, NEW t, ReceiverOK(t, segs, retained)
  PROVE  ReceiverOK(R_Sent(t), segs, retained)
<1>1. ReceiverOK([t EXCEPT !.eof_ack_count = t.eof_count], segs, retained)
  BY DEF ReceiverOK, Undecided, ReceiverType
<1>2. ReceiverOK([t EXCEPT !.send_nak = FALSE,
                           !.ack_timer_armed = (@ \/ R_NakSends(t))], segs, retained)
  <2> DEFINE armed == t.ack_timer_armed \/ R_NakSends(t)
  <2>1. armed \in BOOLEAN
    OBVIOUS
  <2> HIDE DEF armed
  <2>2. ReceiverOK([t EXCEPT !.send_nak = FALSE, !.ack_timer_armed = armed],
                   segs, retained)
    BY <2>1, ZenonT(60) DEF ReceiverOK, Undecided, ReceiverType
  <2> QED
    BY <2>2 DEF armed
<1>3. ReceiverOK([t EXCEPT !.send_fin = FALSE,
                           !.ack_timer_armed = (@ \/ t.reliable)], segs, retained)
  <2> DEFINE armed == t.ack_timer_armed \/ t.reliable
  <2>1. armed \in BOOLEAN
    OBVIOUS
  <2> HIDE DEF armed
  <2>2. ReceiverOK([t EXCEPT !.send_fin = FALSE, !.ack_timer_armed = armed],
                   segs, retained)
    BY <2>1, ZenonT(60) DEF ReceiverOK, Undecided, ReceiverType
  <2> QED
    BY <2>2 DEF armed
<1> QED
  BY <1>1, <1>2, <1>3 DEF R_Sent

LEMMA R_TickOK ==
  ASSUME NEW segs, NEW retained, NEW t, ReceiverOK(t, segs, retained), NEW w
  PROVE  /\ ~R_Files(t) => ReceiverOK(R_Tick(t, segs, w), segs, retained)
         /\ R_Files(t) => \A other :
              ReceiverOK(R_Tick(t, segs, w), other, retained \/ R_Retains(t, w))
<1>1. ASSUME NEW file, NEW now, ReceiverOK(R_Checked(t, segs, w), file, now)
      PROVE  ReceiverOK(R_Tick(t, segs, w), file, now)
  BY <1>1, R_SentOK, R_NoneOK DEF R_Tick
<1>2. CASE ~R_Files(t)
  BY <1>1, <1>2, R_CheckedOK
<1>3. CASE R_Files(t)
  <2> SUFFICES ASSUME NEW other
               PROVE  ReceiverOK(R_Tick(t, segs, w), other, retained \/ R_Retains(t, w))
    BY <1>3
  <2> QED
    BY <1>1, <1>3, R_CheckedFilesOK
<1> QED
  BY <1>2, <1>3

(* What R_Tick sends is a PDU, and a FIN reports what happened to the file. *)
LEMMA R_DueOK ==
  ASSUME NEW segs, NEW retained, NEW t, ReceiverOK(t, segs, retained), NEW p \in R_Due(t)
  PROVE  /\ p \in ToSender
         /\ p.type = "FIN" /\ p.file_status = "RETAINED" => retained
<1>1. GetClass(t) \in Classes
  BY DEF GetClass, Classes
<1>2. To_ConditionCode(t.txn_stat) \in ConditionCodes
  BY Statuses DEF ReceiverOK, ReceiverType
<1>3. R_Gaps(t) \in SUBSET Segs
  BY Bounds DEF R_Gaps, GapBytes, Missing, Segs, ReceiverOK, ReceiverType
<1>4. t.md_recv \in BOOLEAN /\ t.fin_dc \in DeliveryCodes /\ t.fin_fs \in FileStatuses
  BY DEF ReceiverOK, ReceiverType
<1>5. CASE R_EofAckDue(t)
  BY <1>1, <1>5 DEF R_Due, ToSender, Ack
<1>6. CASE ~R_EofAckDue(t) /\ t.send_nak
  <2> DEFINE segments == IF t.md_recv THEN R_Gaps(t) ELSE {}
             nak == [type |-> "NAK", class |-> GetClass(t), metadata |-> ~t.md_recv,
                     segments |-> segments]
  <2>1. segments \in SUBSET Segs /\ (~t.md_recv) \in BOOLEAN
    BY <1>3, <1>4
  <2>2. p = nak
    BY <1>6 DEF R_Due
  <2> HIDE DEF segments
  <2>3. nak \in Nak /\ nak.type = "NAK"
    BY <1>1, <2>1 DEF Nak
  <2> QED
    BY <2>2, <2>3 DEF ToSender
<1>7. CASE ~R_EofAckDue(t) /\ ~t.send_nak
  BY <1>1, <1>2, <1>4, <1>7 DEF R_Due, ToSender, Fin, ReceiverOK
<1> QED
  BY <1>5, <1>6, <1>7

-------------------------------------------------------------------------------
(* The transfer. *)

Delivered == dst = "good"

(* What PDUs in the network say about the file is true. *)
PdusOK ==
  \A p \in net : /\ p.type = "METADATA" => p.size = FileSize
                 /\ p.type = "FIN" /\ p.file_status = "RETAINED" => Delivered

(***************************************************************************)
(* The inductive invariant.  SourceGoneOnlyIfDelivered follows the chain   *)
(* source - sender - FIN - receiver - CRC - temporary file backwards, and  *)
(* each link is a conjunct: the sender removes its source on a FIN, a FIN  *)
(* repeats what the receiver recorded, the receiver records a file as      *)
(* retained when it moves it, and moves it when the CRC, computed up to    *)
(* the size that the metadata names, has seen every segment.               *)
(***************************************************************************)
FileInv ==
  /\ src \in {"present", "removed", "in_move_dir", "in_fail_dir"}
  /\ temp \in SUBSET Segs
  /\ tempfile \in BOOLEAN
  /\ dst \in {"none", "good"}
  /\ net \in SUBSET Pdus
  /\ created \in 0 .. MaxRx
  /\ commanded \in 0 .. MaxCommands
  /\ SenderOK(snd, snd.q, Delivered)
  /\ ReceiverOK(rcv, temp, Delivered)
  /\ PdusOK
  /\ SourceGoneOnlyIfDelivered

LEMMA InitInv == Init => FileInv
<1> SUFFICES ASSUME Init PROVE FileInv
  OBVIOUS
<1>1. SenderOK(snd, "PEND", Delivered) /\ ReceiverOK(rcv, temp, Delivered)
  BY S_PendingOK, R_NoneOK, HistStatusesAssumption DEF Init
<1>2. snd.q = "PEND"
  BY DEF Init, S_Pending
<1>3. SenderOK(snd, snd.q, Delivered) /\ ReceiverOK(rcv, temp, Delivered)
  BY <1>1, <1>2
<1>4. PdusOK /\ SourceGoneOnlyIfDelivered /\ net \in SUBSET Pdus
  BY DEF Init, PdusOK, SourceGoneOnlyIfDelivered
<1>5. created \in 0 .. MaxRx /\ commanded \in 0 .. MaxCommands /\ temp \in SUBSET Segs
  BY BoundsAssumption DEF Init
<1> QED
  BY <1>3, <1>4, <1>5 DEF Init, FileInv

LEMMA FileDataOffset == \A p \in ToReceiver : p.type = "FILEDATA" => p.offset \in Segs
BY DEF ToReceiver, Metadata, FileData, Eof, Ack

LEMMA R_InactivityTickSize ==
  ASSUME NEW w, rcv \in ReceiverType
  PROVE  R_InactivityTick(rcv, w).fsize = rcv.fsize
<1> DEFINE u == [rcv EXCEPT !.inactivity_fired = TRUE]
<1>1. u \in ReceiverType /\ u.fsize = rcv.fsize
  BY DEF ReceiverType
<1> HIDE DEF u
<1>2. SetTxnStatus(u, "INACTIVITY_DETECTED").fsize = u.fsize
  BY <1>1 DEF SetTxnStatus, ReceiverType
<1> QED
  BY <1>1, <1>2 DEF R_InactivityTick, u

LEMMA OutcomesOK == Outcomes \subseteq BOOLEAN
BY DEF Outcomes

-------------------------------------------------------------------------------
(* Each action preserves the invariant. *)

LEMMA S_StartInv == FileInv /\ S_Start => FileInv'
<1> SUFFICES ASSUME FileInv, S_Start PROVE FileInv'
  OBVIOUS
<1>1. SenderOK(snd', snd'.q, Delivered)
  BY SetupTxTransactionOK, OutcomesOK DEF FileInv, S_Start
<1> QED
  BY <1>1 DEF FileInv, S_Start, PdusOK, Delivered, SourceGoneOnlyIfDelivered

LEMMA S_WakeupInv == FileInv /\ S_Wakeup => FileInv'
<1> SUFFICES ASSUME FileInv, NEW w \in Wakeups, S_WakeupWith(w) PROVE FileInv'
  BY DEF S_Wakeup
<1>1. SenderOK(snd', snd'.q, Delivered)
  BY S_TickOK DEF FileInv, S_WakeupWith
<1>2. SenderOK(S_Checked(snd, w), "TX", Delivered)
  BY S_CheckedOK DEF FileInv, S_WakeupWith
<1>3. \A p \in S_TickSends(snd, w) :
        p \in ToReceiver /\ (p.type = "METADATA" => p.size = FileSize)
  BY <1>2, S_DueOK DEF S_TickSends
<1>4. \A p \in ToReceiver : p.type # "FIN"
  BY DEF ToReceiver, Metadata, FileData, Eof, Ack
<1>5. net' \in SUBSET Pdus /\ PdusOK'
  BY <1>3, <1>4 DEF FileInv, S_WakeupWith, PdusOK, Pdus, Delivered
<1>6. /\ src' \in {"present", "removed", "in_move_dir", "in_fail_dir"}
      /\ Reliable /\ src' \in {"removed", "in_move_dir"} => Delivered
  <2>1. SenderOK(S_InactivityTick(snd, w), snd.q, Delivered)
    BY S_InactivityTickOK DEF FileInv
  <2> QED
    BY <2>1, S_HandleFileRetentionOK
       DEF FileInv, S_WakeupWith, SourceGoneOnlyIfDelivered, Delivered
<1> QED
  BY <1>1, <1>5, <1>6 DEF FileInv, S_WakeupWith, Delivered, SourceGoneOnlyIfDelivered

LEMMA S_AnswerNakInv == FileInv /\ S_AnswerNak => FileInv'
<1> SUFFICES ASSUME FileInv, S_AnswerNak PROVE FileInv'
  OBVIOUS
<1>1. SenderOK(snd', snd.q, Delivered)
  BY S_Tick_NakOK, OutcomesOK DEF FileInv, S_AnswerNak
<1>2. SenderOK(snd', snd'.q, Delivered)
  BY <1>1 DEF SenderOK
<1>3. \A s \in FirstSegment(snd) :
        FileDataPdu(snd, s) \in ToReceiver /\ FileDataPdu(snd, s).type = "FILEDATA"
  <2>1. FirstSegment(snd) \subseteq Segs
    BY DEF FirstSegment, FileInv, SenderOK, SenderType
  <2> QED
    BY <2>1, FileDataPduOK
<1>4. net' \in SUBSET Pdus /\ PdusOK'
  BY <1>3 DEF FileInv, S_AnswerNak, PdusOK, Pdus, Delivered
<1> QED
  BY <1>2, <1>4 DEF FileInv, S_AnswerNak, Delivered, SourceGoneOnlyIfDelivered

LEMMA S_NewDataInv == FileInv /\ S_NewData => FileInv'
<1> SUFFICES ASSUME FileInv, S_NewData PROVE FileInv'
  OBVIOUS
<1>1. SenderOK(snd', snd.q, Delivered)
  BY S_SubstateSendFileDataOK, OutcomesOK DEF FileInv, S_NewData
<1>2. SenderOK(snd', snd'.q, Delivered)
  BY <1>1 DEF SenderOK
<1>3. snd.foffs \in Segs
  BY FileSizeAssumption DEF FileInv, S_NewData, SenderOK, SenderType, Segs
<1>4. net' \in SUBSET Pdus /\ PdusOK'
  BY <1>3, FileDataPduOK DEF FileInv, S_NewData, PdusOK, Pdus, Delivered
<1> QED
  BY <1>2, <1>4 DEF FileInv, S_NewData, Delivered, SourceGoneOnlyIfDelivered

LEMMA S_ReceiveInv == FileInv /\ S_Receive => FileInv'
<1> SUFFICES ASSUME FileInv, S_Receive PROVE FileInv'
  OBVIOUS
<1>1. SenderOK(snd', snd.q, Delivered)
  BY S_RecvOK DEF FileInv, S_Receive, PdusOK
<1>2. SenderOK(snd', snd'.q, Delivered)
  BY <1>1 DEF SenderOK
<1> QED
  BY <1>2 DEF FileInv, S_Receive, PdusOK, Delivered, SourceGoneOnlyIfDelivered

(***************************************************************************)
(* Delivered is stable, so what was true of the sender and of the receiver *)
(* stays true.                                                             *)
(***************************************************************************)
LEMMA OnceDelivered ==
  ASSUME FileInv, Delivered => Delivered'
  PROVE  /\ SenderOK(snd, snd.q, Delivered')
         /\ \A t, file : ReceiverOK(t, file, Delivered) => ReceiverOK(t, file, Delivered')
         /\ Reliable /\ src \in {"removed", "in_move_dir"} => Delivered'
<1>1. SenderOK(snd, snd.q, Delivered')
  BY DEF FileInv, SenderOK
<1>2. \A t, file : ReceiverOK(t, file, Delivered) => ReceiverOK(t, file, Delivered')
  BY DEF ReceiverOK
<1> QED
  BY <1>1, <1>2 DEF FileInv, SourceGoneOnlyIfDelivered, Delivered

LEMMA R_ReceiveInv == FileInv /\ R_Receive => FileInv'
<1> SUFFICES ASSUME FileInv, R_Receive,
                    NEW p \in net \cap ToReceiver,
                    NEW seeks \in Outcomes, NEW writes \in Outcomes,
                    rcv' \in R_Recv(rcv, p, seeks, writes),
                    temp' = IF R_AcceptsFd(rcv, p) /\ R_Stores(rcv, p, seeks, writes)
                              THEN temp \cup {p.offset} ELSE temp
             PROVE  FileInv'
  BY DEF R_Receive
<1>1. ReceiverOK(rcv', temp, Delivered)
  BY R_RecvOK, OutcomesOK DEF FileInv, PdusOK
<1>2. temp' \in SUBSET Segs /\ temp \subseteq temp'
  BY FileDataOffset DEF FileInv, R_AcceptsFd
<1>3. ReceiverOK(rcv', temp', Delivered)
  BY <1>1, <1>2, TempGrows
<1> QED
  BY <1>2, <1>3 DEF FileInv, R_Receive, PdusOK, Delivered, SourceGoneOnlyIfDelivered

LEMMA R_CreateInv == FileInv /\ R_Create => FileInv'
<1> SUFFICES ASSUME FileInv, R_Create PROVE FileInv'
  OBVIOUS
<1>1. PICK p \in net \cap ToReceiver, has_chunks \in Outcomes, creates \in Outcomes,
           seeks \in Outcomes, writes \in Outcomes, status \in HistStatuses,
           held \in RxLists :
        LET t    == SetupRxTransaction(p, status, has_chunks, held, creates)
            kept == IF t.tempfile_created THEN {} ELSE temp
        IN  /\ rcv' \in R_Recv(t, p, seeks, writes)
            /\ tempfile' = (tempfile \/ t.tempfile_created)
            /\ temp' = IF R_AcceptsFd(t, p) /\ R_Stores(t, p, seeks, writes)
                         THEN kept \cup {p.offset} ELSE kept
  BY DEF R_Create
<1> DEFINE t    == SetupRxTransaction(p, status, has_chunks, held, creates)
           kept == IF t.tempfile_created THEN {} ELSE temp
<1>2. ReceiverOK(t, kept, Delivered)
  BY SetupRxTransactionOK, OutcomesOK, RxListsAssumption, HistStatusesAssumption
<1>3. kept \in SUBSET Segs
  BY DEF FileInv
<1>4. tempfile' \in BOOLEAN
  BY <1>1 DEF FileInv
<1>5. /\ rcv' \in R_Recv(t, p, seeks, writes)
      /\ temp' = IF R_AcceptsFd(t, p) /\ R_Stores(t, p, seeks, writes)
                   THEN kept \cup {p.offset} ELSE kept
  BY <1>1
<1> HIDE DEF t, kept
<1>6. ReceiverOK(rcv', kept, Delivered)
  BY <1>2, <1>5, R_RecvOK, OutcomesOK DEF FileInv, PdusOK
<1>7. temp' \in SUBSET Segs /\ kept \subseteq temp'
  BY <1>3, <1>5, FileDataOffset DEF R_AcceptsFd
<1>8. ReceiverOK(rcv', temp', Delivered)
  BY <1>6, <1>7, TempGrows
<1>9. created' \in 0 .. MaxRx
  BY BoundsAssumption DEF FileInv, R_Create
<1> QED
  BY <1>4, <1>7, <1>8, <1>9
     DEF FileInv, R_Create, PdusOK, Delivered, SourceGoneOnlyIfDelivered

LEMMA R_WakeupInv == FileInv /\ R_Wakeup => FileInv'
<1> SUFFICES ASSUME FileInv, NEW w \in Wakeups, R_WakeupWith(w) PROVE FileInv'
  BY DEF R_Wakeup
<1>1. R_Retains(rcv, w) => dst' = "good"
  <2> SUFFICES ASSUME R_Retains(rcv, w) PROVE dst' = "good"
    OBVIOUS
  <2> DEFINE u == R_InactivityTick(rcv, w)
  <2>1. ReceiverOK(u, temp, Delivered) /\ u.sub_state = "FILESTORE"
    BY R_InactivityTickOK DEF FileInv, R_Retains, R_Files
  <2>2. R_Moves(u)
    BY DEF R_Retains
  <2>3. u.fsize = rcv.fsize
    BY R_InactivityTickSize DEF FileInv, ReceiverOK
  <2> HIDE DEF u
  <2>4. u.fsize = FileSize /\ Missing(temp, FileSize) = {}
    BY <2>1, <2>2, R_MovesTheFileSent DEF Undecided
  <2> QED
    BY <2>3, <2>4 DEF R_WakeupWith
<1>2. dst' \in {"none", "good"} /\ (Delivered => Delivered')
      /\ (Delivered \/ R_Retains(rcv, w) => Delivered')
  BY <1>1 DEF FileInv, R_WakeupWith, Delivered
<1>3. ReceiverOK(rcv', temp', Delivered')
  <2>1. CASE R_Files(rcv)
    <3>1. ReceiverOK(rcv', temp', Delivered \/ R_Retains(rcv, w))
      BY <2>1, R_TickOK DEF FileInv, R_WakeupWith
    <3> QED
      BY <1>2, <3>1 DEF ReceiverOK
  <2>2. CASE ~R_Files(rcv)
    <3>1. ReceiverOK(rcv', temp', Delivered)
      BY <2>2, R_TickOK DEF FileInv, R_WakeupWith
    <3> QED
      BY <1>2, <3>1, OnceDelivered
  <2> QED
    BY <2>1, <2>2
<1>4. /\ ~R_Files(rcv) => ReceiverOK(R_Checked(rcv, temp, w), temp, Delivered)
      /\ R_Files(rcv) =>
           ReceiverOK(R_Checked(rcv, temp, w), temp, Delivered \/ R_Retains(rcv, w))
  BY R_CheckedOK, R_CheckedFilesOK DEF FileInv
<1>5. \A p \in R_TickSends(rcv, temp, w) :
        p \in ToSender /\ (p.type = "FIN" /\ p.file_status = "RETAINED" => Delivered')
  <2> SUFFICES ASSUME NEW p \in R_TickSends(rcv, temp, w)
               PROVE  /\ p \in ToSender
                      /\ p.type = "FIN" /\ p.file_status = "RETAINED" => Delivered'
    OBVIOUS
  <2>1. p \in R_Due(R_Checked(rcv, temp, w))
    BY DEF R_TickSends
  <2>2. ReceiverOK(R_Checked(rcv, temp, w), temp, Delivered \/ R_Retains(rcv, w))
    BY <1>4 DEF ReceiverOK
  <2>3. /\ p \in ToSender
        /\ p.type = "FIN" /\ p.file_status = "RETAINED" => Delivered \/ R_Retains(rcv, w)
    BY <2>1, <2>2, R_DueOK
  <2> QED
    BY <1>2, <2>3
<1>6. \A p \in ToSender : p.type # "METADATA"
  BY DEF ToSender, Nak, Fin, Ack
<1>7. net' \in SUBSET Pdus /\ PdusOK'
  <2>1. net' = net \cup R_TickSends(rcv, temp, w)
    BY DEF R_WakeupWith
  <2>2. net' \in SUBSET Pdus
    BY <1>5, <2>1 DEF FileInv, Pdus
  <2>3. PdusOK'
    <3> SUFFICES ASSUME NEW p \in net'
                 PROVE  /\ p.type = "METADATA" => p.size = FileSize
                        /\ p.type = "FIN" /\ p.file_status = "RETAINED" => Delivered'
      BY DEF PdusOK
    <3>1. CASE p \in net
      BY <1>2, <3>1 DEF FileInv, PdusOK
    <3>2. CASE p \in R_TickSends(rcv, temp, w)
      BY <1>5, <1>6, <3>2
    <3> QED
      BY <2>1, <3>1, <3>2
  <2> QED
    BY <2>2, <2>3
<1>8. temp' \in SUBSET Segs /\ tempfile' \in BOOLEAN
  BY DEF FileInv, R_WakeupWith
<1>9. SenderOK(snd', snd'.q, Delivered') /\ SourceGoneOnlyIfDelivered'
  BY <1>2, OnceDelivered DEF R_WakeupWith, SourceGoneOnlyIfDelivered, Delivered
<1> QED
  BY <1>2, <1>3, <1>7, <1>8, <1>9 DEF FileInv, R_WakeupWith

LEMMA CommandInv ==
  ASSUME FileInv, NEW name, Command(name),
         SenderOK(snd', snd'.q, Delivered), ReceiverOK(rcv', temp, Delivered)
  PROVE  FileInv'
<1>1. commanded' \in 0 .. MaxCommands
  BY BoundsAssumption DEF FileInv, Command
<1> QED
  BY <1>1 DEF FileInv, Command, PdusOK, Delivered, SourceGoneOnlyIfDelivered

LEMMA CommandsInv ==
  FileInv /\ (\/ S_Cancel \/ S_Abandon \/ S_Suspend \/ S_Resume
              \/ R_Cancel \/ R_Abandon \/ R_Suspend \/ R_Resume)
    => FileInv'
<1> SUFFICES ASSUME FileInv, \/ S_Cancel \/ S_Abandon \/ S_Suspend \/ S_Resume
                             \/ R_Cancel \/ R_Abandon \/ R_Suspend \/ R_Resume
             PROVE  FileInv'
  OBVIOUS
<1>1. SenderOK(snd, snd.q, Delivered) /\ ReceiverOK(rcv, temp, Delivered)
  BY DEF FileInv
<1>2. ASSUME NEW name, NEW t, S_Command(name, t), SenderOK(t, snd.q, Delivered)
      PROVE  FileInv'
  <2>1. SenderOK(snd', snd'.q, Delivered) /\ rcv' = rcv /\ Command(name)
    BY <1>2 DEF S_Command, SenderOK
  <2> QED
    BY <1>1, <2>1, CommandInv
<1>3. ASSUME NEW name, NEW t, R_Command(name, t), ReceiverOK(t, temp, Delivered)
      PROVE  FileInv'
  <2>1. ReceiverOK(rcv', temp, Delivered) /\ snd' = snd /\ Command(name)
    BY <1>3 DEF R_Command
  <2> QED
    BY <1>1, <2>1, CommandInv
<1>4. CASE S_Cancel
  BY <1>1, <1>2, <1>4, S_CancelTransaction DEF S_Cancel
<1>5. CASE S_Abandon
  BY <1>1, <1>2, <1>5, S_FinishTransaction DEF S_Abandon
<1>6. CASE S_Suspend
  BY <1>1, <1>2, <1>6, S_Suspended DEF S_Suspend
<1>7. CASE S_Resume
  BY <1>1, <1>2, <1>7, S_Suspended DEF S_Resume
<1>8. CASE R_Cancel
  BY <1>1, <1>3, <1>8, R_CancelTransaction DEF R_Cancel
<1>9. CASE R_Abandon
  BY <1>1, <1>3, <1>9, R_FinishTransaction DEF R_Abandon
<1>10. CASE R_Suspend
  BY <1>1, <1>3, <1>10, R_Suspended DEF R_Suspend
<1>11. CASE R_Resume
  BY <1>1, <1>3, <1>11, R_Suspended DEF R_Resume
<1> QED
  BY <1>4, <1>5, <1>6, <1>7, <1>8, <1>9, <1>10, <1>11

LEMMA NextInv == FileInv /\ [Next]_vars => FileInv'
<1>1. FileInv /\ UNCHANGED vars => FileInv'
  BY DEF FileInv, vars, PdusOK, Delivered, SourceGoneOnlyIfDelivered
<1> QED
  BY <1>1, S_StartInv, S_WakeupInv, S_AnswerNakInv, S_NewDataInv, S_ReceiveInv,
     R_ReceiveInv, R_CreateInv, R_WakeupInv, CommandsInv DEF Next

-------------------------------------------------------------------------------

(* The inductive invariant holds in every reachable state. *)
THEOREM Invariant == Spec => []FileInv
<1>1. Init => FileInv
  BY InitInv
<1>2. FileInv /\ [Next]_vars => FileInv'
  BY NextInv
<1> QED
  BY <1>1, <1>2, PTL DEF Spec

(* Both transactions, the files and the network are always well typed. *)
THEOREM TypeCorrect == Spec => []TypeOK
<1>1. FileInv => TypeOK
  BY DEF FileInv, TypeOK, SenderOK, ReceiverOK
<1> QED
  BY <1>1, Invariant, PTL

(* No class 2 sender removes or moves away a source file that was not      *)
(* delivered.                                                              *)
THEOREM SourceIsSafe == Spec => []SourceGoneOnlyIfDelivered
<1>1. FileInv => SourceGoneOnlyIfDelivered
  BY DEF FileInv
<1> QED
  BY <1>1, Invariant, PTL

(* Every FIN that reports a retained file tells the truth.                 *)
THEOREM FinIsTrue == Spec => []RetainedFinIsTrue
<1>1. FileInv => RetainedFinIsTrue
  BY DEF FileInv, PdusOK, RetainedFinIsTrue, Delivered
<1> QED
  BY <1>1, Invariant, PTL

(* Every file put in place is the file that was sent.                      *)
THEOREM CopiesAreIdentical == Spec => []OnlyIdenticalCopies
<1>1. FileInv => OnlyIdenticalCopies
  BY DEF FileInv, OnlyIdenticalCopies
<1> QED
  BY <1>1, Invariant, PTL

-------------------------------------------------------------------------------
(***************************************************************************)
(* The outcome: what both sides tell each other about it, what they leave  *)
(* behind when they end, and what was sent before an EOF.  This rests on   *)
(* FileInv and on one more inductive invariant, which says of each         *)
(* transaction what its conduct has been.                                  *)
(***************************************************************************)

(* What some of the theorems assume: no transaction is abandoned, and no   *)
(* chunk list comes to a receiver with the contents of its last owner.     *)
NoAbandon == "abandon" \notin Commands
ListsComeEmpty == RxLists \subseteq {{}}

(***************************************************************************)
(* A sender: what cancelled it is an error; what it takes for success came *)
(* with a FIN; its EOF follows its data; and it has its file open while it *)
(* is active at most.                                                      *)
(***************************************************************************)
S_Conduct(t, delivered) ==
  /\ t.canceled => ~TxnIsOK(t)
  /\ t.fin_count # 0 /\ TxnIsOK(t) => delivered
  /\ t.is_complete /\ (Reliable \/ CloseReq) => t.fin_count # 0
  /\ t.send_eof \/ t.sub_state = "DATA_EOF" => t.q = "TX" /\ t.foffs = FileSize
  /\ NoAbandon => /\ t.q = "PEND" => Active(t)
                  /\ t.fd => t.q = "TX" /\ Active(t)

(***************************************************************************)
(* A receiver: what cancelled it is an error; it reports when it has dealt *)
(* with its file, always the same, and success only for a file in place;   *)
(* until then it holds the temporary file, which has all the bytes that    *)
(* the chunk list says it has.  exists says whether that file exists, said *)
(* is the set of reports that its FINs have made.                          *)
(***************************************************************************)
Report(x) == <<x.fin_dc, x.fin_fs>>

R_Conduct(t, file, exists, delivered, said) ==
  /\ t.canceled => ~TxnIsOK(t)
  /\ t.send_fin => ~Undecided(t)
  /\ ~Undecided(t) /\ TxnIsOK(t) => delivered
  /\ \A report \in said : ~Undecided(t) /\ report = Report(t)
  /\ ListsComeEmpty /\ t.fd =>
       /\ t.chunks \subseteq file
       /\ t.is_complete => Missing(file, FileSize) = {}
  /\ NoAbandon => /\ t.fd => Active(t) /\ Undecided(t)
                  /\ exists => Active(t) /\ Undecided(t) /\ t.tempfile_created

IsFin(p) == p.type = "FIN"
Reports == {<<p.delivery_code, p.file_status>> : p \in {q \in net : IsFin(q)}}

(* The reports of the one receive transaction that there was.              *)
Said == IF created = 1 THEN Reports ELSE {}

Sent(s) == \E p \in net : p.type = "FILEDATA" /\ p.offset = s

OutcomeInv ==
  /\ S_Conduct(snd, Delivered)
  /\ R_Conduct(rcv, temp, tempfile, Delivered, IF R_Exists THEN Said ELSE {})
  /\ Active(snd) => src = "present"
  /\ \A s \in Segs : s < snd.foffs => Sent(s)
  /\ (\E p \in net : p.type = "EOF") => \A s \in Segs : Sent(s)
  /\ \A p \in net : IsFin(p) /\ p.cc = "NO_ERROR" => Delivered
  /\ created = 0 => ~R_Exists /\ Reports = {}
  /\ \A x, y \in Said : x = y
-------------------------------------------------------------------------------
(* The sender.  A step that leaves these fields alone, or at most adds an  *)
(* error or takes back a request to send, is of no account.                *)

S_Same(t, u) ==
  /\ u.q = t.q /\ u.state = t.state /\ u.sub_state = t.sub_state /\ u.fd = t.fd
  /\ u.foffs = t.foffs /\ u.canceled = t.canceled /\ u.is_complete = t.is_complete
  /\ u.fin_count = t.fin_count
  /\ u.send_eof => t.send_eof
  /\ TxnIsOK(u) => TxnIsOK(t)

LEMMA S_SameConduct ==
  ASSUME NEW delivered, NEW t, NEW u, S_Conduct(t, delivered), S_Same(t, u)
  PROVE  S_Conduct(u, delivered)
BY DEF S_Conduct, S_Same, Active

LEMMA S_SameTrans ==
  ASSUME NEW t, NEW u, NEW v, S_Same(t, u), S_Same(u, v)
  PROVE  S_Same(t, v)
BY DEF S_Same

LEMMA S_StatusSame ==
  ASSUME NEW t \in SenderType, NEW st
  PROVE  S_Same(t, SetTxnStatus(t, st))
<1> DEFINE u == [t EXCEPT !.txn_stat = st]
<1>1. ~TxnIsOK(t) => SetTxnStatus(t, st) = t
  BY DEF SetTxnStatus
<1>2. TxnIsOK(t) => SetTxnStatus(t, st) = u
  BY DEF SetTxnStatus
<1>3. TxnIsOK(t) => S_Same(t, u)
  BY DEF S_Same, SenderType
<1>4. S_Same(t, t)
  BY DEF S_Same
<1> QED
  BY <1>1, <1>2, <1>3, <1>4

(* An error that is set, or was set before, is an error.                   *)
LEMMA S_ErrorSticks ==
  ASSUME NEW t \in SenderType, NEW st, st # "NO_ERROR"
  PROVE  ~TxnIsOK(SetTxnStatus(t, st))
BY DEF SetTxnStatus, TxnIsOK, IsError, SenderType

LEMMA S_CancelConduct ==
  ASSUME NEW delivered, NEW t \in SenderType, S_Conduct(t, delivered)
  PROVE  /\ S_Conduct(CancelTransaction(t), delivered)
         /\ Active(CancelTransaction(t)) => Active(t)
         /\ CancelTransaction(t).foffs = t.foffs
<1> DEFINE u == [t EXCEPT !.canceled = TRUE]
           v == SetTxnStatus(u, "CANCEL_REQUEST_RECEIVED")
<1>1. u \in SenderType
  BY DEF SenderType
<1>2. /\ u.q = t.q /\ u.state = t.state /\ u.sub_state = t.sub_state /\ u.fd = t.fd
      /\ u.foffs = t.foffs /\ u.is_complete = t.is_complete
      /\ u.fin_count = t.fin_count /\ u.send_eof = t.send_eof
  BY DEF SenderType
<1> HIDE DEF u
<1>3. S_Same(u, v) /\ ~TxnIsOK(v)
  BY <1>1, S_StatusSame, S_ErrorSticks
<1> HIDE DEF v
<1>4. S_Conduct(v, delivered) /\ v.state = t.state /\ v.foffs = t.foffs
  BY <1>2, <1>3 DEF S_Same, S_Conduct, Active
<1> QED
  BY <1>4 DEF CancelTransaction, Active, u, v

LEMMA S_FinishConduct ==
  ASSUME NEW delivered, NEW t \in SenderType, S_Conduct(t, delivered),
         NoAbandon => t.q = "TX"
  PROVE  /\ S_Conduct(FinishTransaction(t), delivered)
         /\ ~Active(FinishTransaction(t))
         /\ FinishTransaction(t).foffs = t.foffs
<1> DEFINE u == FinishTransaction(t)
<1>1. /\ u.q = t.q /\ u.state = "HOLD" /\ u.sub_state = t.sub_state /\ u.fd = FALSE
      /\ u.foffs = t.foffs /\ u.is_complete = t.is_complete /\ u.txn_stat = t.txn_stat
      /\ u.fin_count = t.fin_count /\ u.send_eof = t.send_eof /\ u.canceled = t.canceled
  BY DEF SenderType, FinishTransaction
<1> HIDE DEF u
<1> QED
  BY <1>1 DEF S_Conduct, Active, TxnIsOK, u

LEMMA S_FreshConduct ==
  ASSUME NEW delivered
  PROVE  /\ \A status : /\ S_Conduct(S_Pending(status), delivered)
                        /\ S_Pending(status).foffs = 0
         /\ S_Conduct(S_Recycled, delivered)
         /\ ~Active(S_Recycled) /\ S_Recycled.foffs = 0
<1>1. \A status : S_Conduct(S_Pending(status), delivered)
  BY DEF S_Conduct, S_Pending, Active
<1> DEFINE t == S_Pending("NO_ERROR")
<1>2. /\ t \in SenderType /\ t.sub_state = "DATA_NORMAL" /\ t.fd = FALSE /\ t.foffs = 0
      /\ t.canceled = FALSE /\ t.is_complete = FALSE /\ t.fin_count = 0 /\ t.send_eof = FALSE
  BY S_PendingOK, Statuses DEF SenderOK, S_Pending
<1> HIDE DEF t
<1> DEFINE u == [t EXCEPT !.q = "FREE", !.state = "UNDEF"]
<1>3. /\ u.q = "FREE" /\ u.state = "UNDEF" /\ u.sub_state = "DATA_NORMAL" /\ u.fd = FALSE
      /\ u.canceled = FALSE /\ u.is_complete = FALSE /\ u.fin_count = 0
      /\ u.send_eof = FALSE /\ u.foffs = 0
  BY <1>2 DEF SenderType
<1> HIDE DEF u
<1>4. \A status : S_Pending(status).foffs = 0
  BY DEF S_Pending
<1>5. S_Conduct(S_Recycled, delivered) /\ ~Active(S_Recycled) /\ S_Recycled.foffs = 0
  BY <1>3 DEF S_Conduct, Active, S_Recycled, t, u
<1> QED
  BY <1>1, <1>4, <1>5

LEMMA SetupTxTransactionConduct ==
  ASSUME NEW delivered, NEW t \in SenderType, S_Conduct(t, delivered), t.q = "PEND",
         NEW has_chunks \in BOOLEAN, NEW opens \in BOOLEAN
  PROVE  LET v == SetupTxTransaction(t, has_chunks, opens)
         IN  /\ S_Conduct(v, delivered)
             /\ Active(v) => Active(t)
             /\ v.foffs \in {0, t.foffs}
<1> DEFINE u == AllocChunkList(t, has_chunks)
           x == [u EXCEPT !.fd = TRUE, !.fsize = FileSize, !.send_md = TRUE]
           y == [x EXCEPT !.q = "TX"]
<1>1. u \in SenderType /\ S_Same(t, u)
  <2>1. SetTxnStatus(t, "NO_RESOURCE") \in SenderType
    BY Statuses DEF SetTxnStatus, SenderType
  <2>2. S_Same(t, t)
    BY DEF S_Same
  <2> QED
    BY <2>1, <2>2, S_StatusSame DEF AllocChunkList
<1> HIDE DEF u
<1>2. ~TxnIsOK(SetTxnStatus(u, "FILESTORE_REJECTION"))
  BY <1>1, S_ErrorSticks
<1>3. /\ y.q = "TX" /\ y.state = u.state /\ y.sub_state = u.sub_state /\ y.fd = TRUE
      /\ y.foffs = u.foffs /\ y.is_complete = u.is_complete /\ y.txn_stat = u.txn_stat
      /\ y.fin_count = u.fin_count /\ y.send_eof = u.send_eof /\ y.canceled = u.canceled
  BY <1>1 DEF SenderType
<1>4. TxnIsOK(x) <=> TxnIsOK(u)
  BY <1>1 DEF SenderType, TxnIsOK
<1> HIDE DEF x, y
<1>5. S_Conduct(y, delivered) /\ (Active(y) => Active(t)) /\ y.foffs = t.foffs
  BY <1>1, <1>3 DEF S_Same, S_Conduct, Active, TxnIsOK
<1>6. SetupTxTransaction(t, has_chunks, opens) \in {S_Recycled, y}
  BY <1>2, <1>4 DEF SetupTxTransaction, S_Init, u, x, y
<1> QED
  BY <1>5, <1>6, S_FreshConduct

LEMMA S_EnterConduct ==
  ASSUME NEW delivered, NEW t \in SenderType, S_Conduct(t, delivered), t.q = "TX",
         NEW next \in TxSubStates, next = "DATA_EOF" => t.foffs = FileSize
  PROVE  /\ S_Conduct(S_Enter(t, next), delivered)
         /\ Active(S_Enter(t, next)) => Active(t) /\ next # "COMPLETE"
         /\ S_Enter(t, next).foffs = t.foffs
<1> DEFINE u == [t EXCEPT !.sub_state = next, !.ack_timer_armed = FALSE]
           v == [u EXCEPT !.acknak_count = 0, !.send_eof = TRUE]
<1>1. u \in SenderType
  BY DEF SenderType
<1>2. /\ u.q = t.q /\ u.state = t.state /\ u.sub_state = next /\ u.fd = t.fd
      /\ u.foffs = t.foffs /\ u.is_complete = t.is_complete /\ u.txn_stat = t.txn_stat
      /\ u.fin_count = t.fin_count /\ u.send_eof = t.send_eof /\ u.canceled = t.canceled
  BY DEF SenderType
<1> HIDE DEF u
<1>3. S_Conduct(u, delivered)
  BY <1>2 DEF S_Conduct, Active, TxnIsOK
<1>4. ASSUME next = "DATA_EOF"
      PROVE  S_Conduct(v, delivered) /\ v.foffs = t.foffs /\ v.state = t.state
  <2>1. /\ v.q = t.q /\ v.state = t.state /\ v.sub_state = next /\ v.fd = t.fd
        /\ v.foffs = t.foffs /\ v.is_complete = t.is_complete /\ v.txn_stat = t.txn_stat
        /\ v.fin_count = t.fin_count /\ v.canceled = t.canceled
    BY <1>1, <1>2 DEF SenderType
  <2> HIDE DEF v
  <2> QED
    BY <1>4, <2>1 DEF S_Conduct, Active, TxnIsOK
<1>5. /\ S_Conduct(FinishTransaction(u), delivered) /\ ~Active(FinishTransaction(u))
      /\ FinishTransaction(u).foffs = u.foffs
  BY <1>1, <1>2, <1>3, S_FinishConduct
<1>6. S_Enter(t, next) = CASE next = "DATA_EOF" -> v
                           [] next = "COMPLETE" -> FinishTransaction(u)
                           [] OTHER             -> u
  BY DEF S_Enter, u, v
<1> HIDE DEF v
<1> QED
  BY <1>2, <1>3, <1>4, <1>5, <1>6 DEF Active

LEMMA S_CheckState_DATA_NORMAL_Conduct ==
  ASSUME NEW delivered, NEW t, SenderOK(t, "TX", delivered), S_Conduct(t, delivered)
  PROVE  LET v == S_CheckState_DATA_NORMAL(t)
         IN  /\ S_Conduct(v, delivered)
             /\ Active(v) => Active(t)
             /\ v.foffs = t.foffs
<1>1. t \in SenderType /\ t.q = "TX" /\ (t.foffs >= t.fsize => t.foffs = FileSize)
  BY FileSizeAssumption DEF SenderOK, SenderType
<1> QED
  BY <1>1, S_EnterConduct, SubStates DEF S_CheckState_DATA_NORMAL

LEMMA S_CompletedConduct ==
  ASSUME NEW delivered, NEW t \in SenderType, S_Conduct(t, delivered), t.q = "TX",
         Reliable \/ CloseReq => t.fin_count # 0
  PROVE  LET v == S_Completed(t)
         IN  /\ S_Conduct(v, delivered)
             /\ Active(v) => Active(t)
             /\ v.foffs = t.foffs
<1> DEFINE u == [t EXCEPT !.is_complete = TRUE]
<1>1. /\ u \in SenderType
      /\ u.q = t.q /\ u.state = t.state /\ u.sub_state = t.sub_state /\ u.fd = t.fd
      /\ u.foffs = t.foffs /\ u.txn_stat = t.txn_stat
      /\ u.fin_count = t.fin_count /\ u.send_eof = t.send_eof /\ u.canceled = t.canceled
  BY DEF SenderType
<1> HIDE DEF u
<1>2. S_Conduct(u, delivered)
  BY <1>1 DEF S_Conduct, Active, TxnIsOK
<1>3. /\ S_Conduct(S_Enter(u, "FILESTORE"), delivered)
      /\ Active(S_Enter(u, "FILESTORE")) => Active(u)
      /\ S_Enter(u, "FILESTORE").foffs = u.foffs
  BY <1>1, <1>2, S_EnterConduct, SubStates
<1> QED
  BY <1>1, <1>3 DEF S_Completed, Active, u

LEMMA S_CheckState_DATA_EOF_Conduct ==
  ASSUME NEW delivered, NEW t, SenderOK(t, "TX", delivered), S_Conduct(t, delivered),
         t.sub_state = "DATA_EOF"
  PROVE  LET v == S_CheckState_DATA_EOF(t)
         IN  /\ S_Conduct(v, delivered)
             /\ Active(v) => Active(t)
             /\ v.foffs = t.foffs
<1> DEFINE Good(v) == /\ S_Conduct(v, delivered)
                      /\ Active(v) => Active(t)
                      /\ v.foffs = t.foffs
<1>1. t \in SenderType /\ t.q = "TX" /\ t.foffs = FileSize
  BY DEF SenderOK, S_Conduct
<1>2. Good(S_Enter(t, "FILESTORE"))
  BY <1>1, S_EnterConduct, SubStates
<1>3. Good(S_Enter(SetTxnStatus(t, "NAK_LIMIT_REACHED"), "FILESTORE"))
  <2> DEFINE u == SetTxnStatus(t, "NAK_LIMIT_REACHED")
  <2>1. SenderOK(u, "TX", delivered)
    BY S_SetTxnStatus, Statuses
  <2>2. S_Same(t, u)
    BY <1>1, S_StatusSame
  <2> HIDE DEF u
  <2>3. u \in SenderType /\ u.q = "TX" /\ S_Conduct(u, delivered)
    BY <2>1, <2>2, S_SameConduct DEF SenderOK
  <2>4. Good(S_Enter(u, "FILESTORE"))
    BY <2>2, <2>3, S_EnterConduct, SubStates DEF S_Same, Active
  <2> QED
    BY <2>4 DEF u
<1>4. Good([t EXCEPT !.acknak_count = @ + 1, !.send_eof = TRUE])
  <2> DEFINE v == [t EXCEPT !.acknak_count = @ + 1, !.send_eof = TRUE]
  <2>1. /\ v.q = t.q /\ v.state = t.state /\ v.sub_state = t.sub_state /\ v.fd = t.fd
        /\ v.foffs = t.foffs /\ v.txn_stat = t.txn_stat /\ v.is_complete = t.is_complete
        /\ v.fin_count = t.fin_count /\ v.canceled = t.canceled
    BY <1>1 DEF SenderType
  <2> HIDE DEF v
  <2>2. Good(v)
    BY <1>1, <2>1 DEF S_Conduct, Active, TxnIsOK
  <2> QED
    BY <2>2 DEF v
<1>5. Good(t)
  OBVIOUS
<1>6. t.fin_count # 0 => Good(S_Completed(t))
  BY <1>1, S_CompletedConduct
<1>7. ~Reliable /\ ~CloseReq => Good(S_Completed([t EXCEPT !.fin_dc = "UNREPORTED"]))
  <2> DEFINE u == [t EXCEPT !.fin_dc = "UNREPORTED"]
  <2>1. u \in SenderType /\ S_Same(t, u)
    BY <1>1 DEF SenderType, DeliveryCodes, S_Same, TxnIsOK
  <2> HIDE DEF u
  <2>2. S_Conduct(u, delivered) /\ u.q = "TX"
    BY <1>1, <2>1, S_SameConduct DEF S_Same
  <2>3. ~Reliable /\ ~CloseReq => Good(S_Completed(u))
    BY <2>1, <2>2, S_CompletedConduct DEF S_Same, Active
  <2> QED
    BY <2>3 DEF u
<1>8. Reliable => Good(S2_CheckState_DATA_EOF(t))
  <2> HIDE DEF Good
  <2> QED
    BY <1>2, <1>3, <1>4, <1>5, <1>6 DEF S2_CheckState_DATA_EOF
<1>9. ~Reliable => Good(S1_CheckState_DATA_EOF(t))
  <2> HIDE DEF Good
  <2> QED
    BY <1>5, <1>6, <1>7 DEF S1_CheckState_DATA_EOF
<1>10. Good(S_CheckState_DATA_EOF(t))
  <2> HIDE DEF Good
  <2> QED
    BY <1>2, <1>5, <1>8, <1>9 DEF S_CheckState_DATA_EOF
<1> QED
  BY <1>10

(* When CF_CFDP_S_CheckState has disposed of the source, it has ended.     *)
LEMMA S_CheckStateConduct ==
  ASSUME NEW delivered, NEW t, SenderOK(t, "TX", delivered), S_Conduct(t, delivered)
  PROVE  LET v == S_CheckState(t)
         IN  /\ S_Conduct(v, delivered)
             /\ Active(v) => Active(t) /\ t.sub_state # "FILESTORE"
             /\ v.foffs = t.foffs
<1>1. t \in SenderType /\ t.q = "TX" /\ t.sub_state \in TxSubStates
  BY DEF SenderOK, SenderType
<1>2. /\ S_Conduct(S_Enter(t, "COMPLETE"), delivered)
      /\ ~Active(S_Enter(t, "COMPLETE"))
      /\ S_Enter(t, "COMPLETE").foffs = t.foffs
  BY <1>1, S_EnterConduct, SubStates
<1>3. CASE t.sub_state = "DATA_NORMAL"
  BY <1>3, S_CheckState_DATA_NORMAL_Conduct DEF S_CheckState
<1>4. CASE t.sub_state = "DATA_EOF"
  BY <1>4, S_CheckState_DATA_EOF_Conduct DEF S_CheckState
<1>5. CASE t.sub_state = "FILESTORE"
  BY <1>2, <1>5 DEF S_CheckState
<1>6. CASE t.sub_state = "COMPLETE"
  BY <1>6 DEF S_CheckState
<1> QED
  BY <1>1, <1>3, <1>4, <1>5, <1>6 DEF TxSubStates

LEMMA S_InactivityTickSame ==
  ASSUME NEW t \in SenderType, NEW w
  PROVE  S_Same(t, S_InactivityTick(t, w))
<1> DEFINE u == [t EXCEPT !.inactivity_fired = TRUE]
<1>1. u \in SenderType /\ S_Same(t, u) /\ S_Same(t, t)
  BY DEF SenderType, S_Same, TxnIsOK
<1> HIDE DEF u
<1>2. S_Same(t, SetTxnStatus(u, "INACTIVITY_DETECTED"))
  BY <1>1, S_StatusSame, S_SameTrans
<1> QED
  BY <1>1, <1>2 DEF S_InactivityTick, u

LEMMA S_AckTimerTickSame ==
  ASSUME NEW t \in SenderType, NEW w
  PROVE  S_Same(t, S_AckTimerTick(t, w))
<1> DEFINE u == [t EXCEPT !.ack_timer_armed = FALSE]
<1>1. S_Same(t, u) /\ S_Same(t, t)
  BY DEF SenderType, S_Same, TxnIsOK
<1> QED
  BY <1>1 DEF S_AckTimerTick

LEMMA S_CheckedConduct ==
  ASSUME NEW delivered, NEW t, SenderOK(t, "TX", delivered), S_Conduct(t, delivered), NEW w
  PROVE  LET v == S_Checked(t, w)
         IN  /\ S_Conduct(v, delivered)
             /\ Active(v) => Active(t) /\ ~S_Files(t)
             /\ v.foffs = t.foffs
<1> DEFINE u == S_InactivityTick(t, w)
           x == S_AckTimerTick(u, w)
           v == S_CheckState(x)
<1>1. SenderOK(u, "TX", delivered) /\ S_Same(t, u) /\ u \in SenderType
  BY S_InactivityTickOK, S_InactivityTickSame DEF SenderOK
<1>2. S_Conduct(u, delivered)
  BY <1>1, S_SameConduct
<1> HIDE DEF u
<1>3. SenderOK(x, "TX", delivered) /\ S_Same(u, x)
  <2>1. SenderOK([u EXCEPT !.ack_timer_armed = FALSE], "TX", delivered)
    BY <1>1, ZenonT(60) DEF SenderOK, SenderType
  <2> QED
    BY <1>1, <2>1, S_AckTimerTickSame DEF S_AckTimerTick
<1>4. S_Conduct(x, delivered)
  BY <1>2, <1>3, S_SameConduct
<1> HIDE DEF x
<1>5. /\ S_Conduct(v, delivered)
      /\ Active(v) => Active(x) /\ x.sub_state # "FILESTORE"
      /\ v.foffs = x.foffs
  BY <1>3, <1>4, S_CheckStateConduct
<1> HIDE DEF v
<1>6. S_Checked(t, w) = IF Active(t) THEN v ELSE u
  BY DEF S_Checked, u, x, v
<1> QED
  BY <1>1, <1>2, <1>3, <1>5, <1>6 DEF S_Same, Active, S_Files

LEMMA S_SentSame ==
  ASSUME NEW t \in SenderType
  PROVE  S_Same(t, S_Sent(t))
<1>1. S_Same(t, t)
  BY DEF S_Same
<1>2. S_Same(t, [t EXCEPT !.send_md = FALSE])
  BY DEF SenderType, S_Same, TxnIsOK
<1>3. S_Same(t, [t EXCEPT !.send_eof = FALSE,
                          !.ack_timer_armed = IF Reliable THEN TRUE ELSE @])
  BY DEF SenderType, S_Same, TxnIsOK
<1>4. S_Same(t, [t EXCEPT !.fin_ack_count = t.fin_count])
  BY DEF SenderType, S_Same, TxnIsOK
<1> QED
  BY <1>1, <1>2, <1>3, <1>4 DEF S_Sent

LEMMA S_TickConduct ==
  ASSUME NEW delivered, NEW t, SenderOK(t, "TX", delivered), S_Conduct(t, delivered), NEW w
  PROVE  LET v == S_Tick(t, w)
         IN  /\ S_Conduct(v, delivered)
             /\ Active(v) => Active(t) /\ ~S_Files(t)
             /\ v.foffs \in {0, t.foffs}
<1> DEFINE u == S_Checked(t, w)
           v == IF w.blocked THEN u ELSE S_Sent(u)
<1>1. /\ S_Conduct(u, delivered) /\ u \in SenderType
      /\ Active(u) => Active(t) /\ ~S_Files(t)
      /\ u.foffs = t.foffs
  BY S_CheckedConduct, S_CheckedOK DEF SenderOK
<1> HIDE DEF u
<1>2. S_Same(u, S_Sent(u)) /\ S_Same(u, u)
  BY <1>1, S_SentSame DEF S_Same
<1>3. S_Same(u, v)
  BY <1>2
<1> HIDE DEF v
<1>4. S_Conduct(v, delivered) /\ (Active(v) => Active(t) /\ ~S_Files(t)) /\ v.foffs = t.foffs
  BY <1>1, <1>3, S_SameConduct DEF S_Same, Active
<1>5. S_Tick(t, w) \in {S_Recycled, v}
  BY DEF S_Tick, u, v
<1> QED
  BY <1>4, <1>5, S_FreshConduct

(* An EOF is sent only when all data has been.                             *)
LEMMA S_DueAfterData ==
  ASSUME NEW delivered, NEW t \in SenderType, S_Conduct(t, delivered), NEW p \in S_Due(t)
  PROVE  p.type # "FIN" /\ (p.type = "EOF" => t.foffs = FileSize)
<1>1. CASE t.send_md
  BY <1>1 DEF S_Due
<1>2. CASE ~t.send_md /\ t.send_eof
  BY <1>2 DEF S_Due, S_Conduct
<1>3. CASE ~t.send_md /\ ~t.send_eof
  BY <1>3 DEF S_Due
<1> QED
  BY <1>1, <1>2, <1>3

LEMMA S_SubstateSendFileDataConduct ==
  ASSUME NEW delivered, NEW t, SenderOK(t, "TX", delivered), S_Conduct(t, delivered),
         t.foffs < t.fsize, NEW reads \in BOOLEAN
  PROVE  LET v == S_SubstateSendFileData(t, reads)
         IN  /\ S_Conduct(v, delivered)
             /\ Active(v) => Active(t)
             /\ v.foffs = IF t.fd /\ reads THEN t.foffs + 1 ELSE t.foffs
<1> DEFINE v == [t EXCEPT !.foffs = @ + 1]
           u == SetTxnStatus(t, "READ_FAILURE")
<1>1. /\ t \in SenderType /\ ~t.send_eof /\ t.sub_state # "DATA_EOF"
  BY FileSizeAssumption DEF SenderOK, SenderType, S_Conduct
<1>2. /\ v.q = t.q /\ v.state = t.state /\ v.sub_state = t.sub_state /\ v.fd = t.fd
      /\ v.foffs = t.foffs + 1 /\ v.txn_stat = t.txn_stat /\ v.is_complete = t.is_complete
      /\ v.fin_count = t.fin_count /\ v.canceled = t.canceled /\ v.send_eof = t.send_eof
  BY <1>1 DEF SenderType
<1> HIDE DEF v
<1>3. S_Conduct(v, delivered) /\ (Active(v) => Active(t))
  BY <1>1, <1>2 DEF S_Conduct, Active, TxnIsOK
<1>4. S_Same(t, u)
  BY <1>1, S_StatusSame
<1> HIDE DEF u
<1>5. S_Conduct(u, delivered) /\ (Active(u) => Active(t)) /\ u.foffs = t.foffs
  BY <1>4, S_SameConduct DEF S_Same, Active
<1> QED
  BY <1>2, <1>3, <1>5 DEF S_SubstateSendFileData, u, v

LEMMA S_Tick_NakSame ==
  ASSUME NEW t \in SenderType, NEW reads \in BOOLEAN
  PROVE  S_Same(t, S_Tick_Nak(t, reads))
<1>1. S_Same(t, [t EXCEPT !.fd_nak_pending = FALSE]) /\ S_Same(t, t)
  BY DEF SenderType, S_Same, TxnIsOK
<1>2. S_Same(t, [t EXCEPT !.chunks = @ \ FirstSegment(t)])
  BY DEF SenderType, S_Same, TxnIsOK
<1> QED
  BY <1>1, <1>2 DEF S_Tick_Nak

LEMMA S_RecvFinConduct ==
  ASSUME NEW delivered, NEW retained, NEW queue, NEW t, SenderOK(t, queue, retained),
         S_Conduct(t, delivered), NEW p \in Fin, p.cc = "NO_ERROR" => delivered
  PROVE  LET v == S_RecvFin(t, p)
         IN  /\ S_Conduct(v, delivered)
             /\ Active(v) => Active(t)
             /\ v.foffs = t.foffs
<1> DEFINE x == [t EXCEPT !.fin_dc = p.delivery_code, !.fin_fs = p.file_status]
           y == SetTxnStatus(x, p.cc)
           u == IF t.fin_count # 0 THEN t ELSE y
           v == [u EXCEPT !.fin_count = @ + 1]
           z == SetTxnStatus(u, "POS_ACK_LIMIT_REACHED")
<1>1. t \in SenderType /\ p.cc \in TxnStatuses
  BY Statuses DEF SenderOK, Fin
<1>2. x \in SenderType /\ S_Same(t, x)
  BY <1>1 DEF SenderType, Fin, S_Same, TxnIsOK
<1> HIDE DEF x
<1>3. /\ y \in SenderType /\ S_Same(x, y)
      /\ TxnIsOK(y) => delivered
  <2>1. y \in SenderType
    BY <1>1, <1>2 DEF SetTxnStatus, SenderType
  <2>2. TxnIsOK(y) => p.cc = "NO_ERROR"
    BY <1>2, S_ErrorSticks
  <2> QED
    BY <1>2, <2>1, <2>2, S_StatusSame
<1> HIDE DEF y
<1>4. /\ u \in SenderType /\ S_Same(t, u)
      /\ TxnIsOK(u) => delivered \/ t.fin_count # 0
  <2>1. S_Same(t, t)
    BY DEF S_Same
  <2>2. S_Same(t, y)
    BY <1>2, <1>3, S_SameTrans
  <2> QED
    BY <1>1, <1>3, <2>1, <2>2
<1>5. S_Conduct(u, delivered)
  BY <1>4, S_SameConduct
<1> HIDE DEF u
<1>6. /\ v.q = u.q /\ v.state = u.state /\ v.sub_state = u.sub_state /\ v.fd = u.fd
      /\ v.foffs = u.foffs /\ v.txn_stat = u.txn_stat /\ v.is_complete = u.is_complete
      /\ v.fin_count = u.fin_count + 1 /\ v.canceled = u.canceled /\ v.send_eof = u.send_eof
      /\ u.fin_count \in Nat
  BY <1>4, AckLimitAssumption DEF SenderType
<1> HIDE DEF v
<1>7. TxnIsOK(u) => delivered
  BY <1>4 DEF S_Conduct, S_Same
<1>8. S_Conduct(v, delivered) /\ (Active(v) => Active(t)) /\ v.foffs = t.foffs
  BY <1>4, <1>5, <1>6, <1>7 DEF S_Conduct, S_Same, Active, TxnIsOK
<1>9. S_Conduct(z, delivered) /\ (Active(z) => Active(t)) /\ z.foffs = t.foffs
  <2>1. S_Same(u, z)
    BY <1>4, S_StatusSame
  <2> QED
    BY <1>4, <1>5, <2>1, S_SameConduct DEF S_Same, Active
<1> HIDE DEF z
<1>10. S_RecvFin(t, p) \in {v, z}
  BY DEF S_RecvFin, u, v, x, y, z
<1> QED
  BY <1>8, <1>9, <1>10

LEMMA S_RecvConduct ==
  ASSUME NEW delivered, NEW retained, NEW queue, NEW t, SenderOK(t, queue, retained),
         S_Conduct(t, delivered), NEW p \in ToSender,
         IsFin(p) /\ p.cc = "NO_ERROR" => delivered,
         NEW v \in S_Recv(t, p)
  PROVE  /\ S_Conduct(v, delivered)
         /\ Active(v) => Active(t)
         /\ v.foffs = t.foffs
<1> DEFINE Good(x) == /\ S_Conduct(x, delivered)
                      /\ Active(x) => Active(t)
                      /\ x.foffs = t.foffs
<1>1. (p.type = "FIN" => p \in Fin) /\ (p.type = "NAK" => p \in Nak) /\ t \in SenderType
  BY DEF ToSender, Fin, Nak, Ack, SenderOK
<1>2. ASSUME NEW x, S_Same(t, x) PROVE Good(x)
  BY <1>2, S_SameConduct DEF S_Same, Active
<1>3. p.type = "FIN" => Good(S_RecvFin(t, p))
  BY <1>1, S_RecvFinConduct DEF IsFin
<1>4. p.type = "FIN" => Good(S_RecvEarlyFin(t, p))
  <2> DEFINE u == SetTxnStatus(t, "EARLY_FIN")
  <2>1. SenderOK(u, queue, retained) /\ S_Same(t, u)
    BY <1>1, S_SetTxnStatus, S_StatusSame, Statuses
  <2>2. S_Conduct(u, delivered)
    BY <2>1, S_SameConduct
  <2> HIDE DEF u
  <2>3. p.type = "FIN" => /\ S_Conduct(S_RecvFin(u, p), delivered)
                          /\ Active(S_RecvFin(u, p)) => Active(u)
                          /\ S_RecvFin(u, p).foffs = u.foffs
    BY <1>1, <2>1, <2>2, S_RecvFinConduct DEF IsFin
  <2> QED
    BY <2>1, <2>3 DEF S_RecvEarlyFin, S_Same, Active, u
<1>5. ASSUME NEW x \in S2_RecvNak(t, p) PROVE Good(x)
  <2>1. PICK c \in ChunksAfterNak(t.chunks, p.segments) :
          x = [t EXCEPT !.send_md = @ \/ p.metadata,
                        !.fd_nak_pending = @ \/ p.segments # {},
                        !.chunks = c]
    BY DEF S2_RecvNak
  <2>2. S_Same(t, x)
    BY <1>1, <2>1 DEF SenderType, S_Same, TxnIsOK
  <2> QED
    BY <1>2, <2>2
<1>6. Good(S2_RecvEofAck(t, p))
  <2>1. S_Same(t, [t EXCEPT !.eof_ack_recv = TRUE]) /\ S_Same(t, t)
    BY <1>1 DEF SenderType, S_Same, TxnIsOK
  <2> QED
    BY <1>2, <2>1 DEF S2_RecvEofAck
<1>7. Good(t)
  OBVIOUS
<1>8. Good(v)
  <2> HIDE DEF Good
  <2> QED
    BY <1>3, <1>4, <1>5, <1>6, <1>7 DEF S_Recv
<1> QED
  BY <1>8

-------------------------------------------------------------------------------
(* The receiver.                                                           *)

R_Same(t, u) ==
  /\ u.state = t.state /\ u.sub_state = t.sub_state /\ u.fd = t.fd
  /\ u.tempfile_created = t.tempfile_created /\ u.is_complete = t.is_complete
  /\ u.chunks = t.chunks /\ u.canceled = t.canceled
  /\ u.fin_dc = t.fin_dc /\ u.fin_fs = t.fin_fs
  /\ u.send_fin => t.send_fin
  /\ TxnIsOK(u) => TxnIsOK(t)

LEMMA R_SameConduct ==
  ASSUME NEW file, NEW exists, NEW delivered, NEW said, NEW t, NEW u,
         R_Conduct(t, file, exists, delivered, said), R_Same(t, u)
  PROVE  R_Conduct(u, file, exists, delivered, said)
BY DEF R_Conduct, R_Same, Active, Undecided, Report

LEMMA R_SameTrans ==
  ASSUME NEW t, NEW u, NEW v, R_Same(t, u), R_Same(u, v)
  PROVE  R_Same(t, v)
BY DEF R_Same

LEMMA R_StatusSame ==
  ASSUME NEW t \in ReceiverType, NEW st
  PROVE  R_Same(t, SetTxnStatus(t, st))
<1> DEFINE u == [t EXCEPT !.txn_stat = st]
<1>1. ~TxnIsOK(t) => SetTxnStatus(t, st) = t
  BY DEF SetTxnStatus
<1>2. TxnIsOK(t) => SetTxnStatus(t, st) = u
  BY DEF SetTxnStatus
<1>3. TxnIsOK(t) => R_Same(t, u)
  BY DEF R_Same, ReceiverType
<1>4. R_Same(t, t)
  BY DEF R_Same
<1> QED
  BY <1>1, <1>2, <1>3, <1>4

LEMMA R_ErrorSticks ==
  ASSUME NEW t \in ReceiverType, NEW st, st # "NO_ERROR"
  PROVE  ~TxnIsOK(SetTxnStatus(t, st))
BY DEF SetTxnStatus, TxnIsOK, IsError, ReceiverType

LEMMA R_CancelConduct ==
  ASSUME NEW file, NEW exists, NEW delivered, NEW said, NEW t \in ReceiverType,
         R_Conduct(t, file, exists, delivered, said)
  PROVE  /\ R_Conduct(CancelTransaction(t), file, exists, delivered, said)
         /\ CancelTransaction(t).state = t.state
<1> DEFINE u == [t EXCEPT !.canceled = TRUE]
           v == SetTxnStatus(u, "CANCEL_REQUEST_RECEIVED")
<1>1. u \in ReceiverType
  BY DEF ReceiverType
<1>2. /\ u.state = t.state /\ u.sub_state = t.sub_state /\ u.fd = t.fd
      /\ u.tempfile_created = t.tempfile_created /\ u.is_complete = t.is_complete
      /\ u.chunks = t.chunks /\ u.send_fin = t.send_fin
      /\ u.fin_dc = t.fin_dc /\ u.fin_fs = t.fin_fs
  BY DEF ReceiverType
<1> HIDE DEF u
<1>3. R_Same(u, v) /\ ~TxnIsOK(v)
  BY <1>1, R_StatusSame, R_ErrorSticks
<1> HIDE DEF v
<1>4. R_Conduct(v, file, exists, delivered, said) /\ v.state = t.state
  BY <1>2, <1>3 DEF R_Same, R_Conduct, Active, Undecided, Report
<1> QED
  BY <1>4 DEF CancelTransaction, u, v

(* A transaction that is finished once its file was dealt with, or one that*)
(* is abandoned.                                                           *)
LEMMA R_FinishConduct ==
  ASSUME NEW file, NEW exists, NEW delivered, NEW said, NEW t \in ReceiverType,
         R_Conduct(t, file, exists, delivered, said), NoAbandon => ~Undecided(t)
  PROVE  /\ R_Conduct(FinishTransaction(t), file, exists, delivered, said)
         /\ FinishTransaction(t).state = "HOLD"
<1> DEFINE u == FinishTransaction(t)
<1>1. /\ u.state = "HOLD" /\ u.sub_state = t.sub_state /\ u.fd = FALSE
      /\ u.tempfile_created = t.tempfile_created /\ u.is_complete = t.is_complete
      /\ u.chunks = t.chunks /\ u.send_fin = t.send_fin /\ u.canceled = t.canceled
      /\ u.fin_dc = t.fin_dc /\ u.fin_fs = t.fin_fs /\ u.txn_stat = t.txn_stat
  BY DEF ReceiverType, FinishTransaction
<1> HIDE DEF u
<1> QED
  BY <1>1 DEF R_Conduct, Undecided, Report, TxnIsOK, u

LEMMA R_NoneConduct ==
  ASSUME NEW file, NEW exists, NEW delivered, NoAbandon => ~exists
  PROVE  R_Conduct(R_None, file, exists, delivered, {}) /\ R_None.state = "UNDEF"
BY DEF R_Conduct, R_None, Undecided

(* The file is delivered, or the temporary file grows, and what was said   *)
(* may have been less.                                                     *)
LEMMA R_ConductMore ==
  ASSUME NEW file, NEW exists, NEW delivered, NEW said, NEW t,
         R_Conduct(t, file, exists, delivered, said),
         NEW more, file \subseteq more, NEW now, delivered => now,
         NEW less, less \subseteq said
  PROVE  R_Conduct(t, more, exists, now, less)
<1>1. Missing(file, FileSize) = {} => Missing(more, FileSize) = {}
  BY DEF Missing
<1> QED
  BY <1>1 DEF R_Conduct

LEMMA SetupRxTransactionConduct ==
  ASSUME NEW file, NEW exists, NEW delivered, NEW p, NEW status \in TxnStatuses,
         NEW has_chunks \in BOOLEAN, NEW held \in RxLists, NEW creates \in BOOLEAN,
         LET t == SetupRxTransaction(p, status, has_chunks, held, creates)
         IN  NoAbandon /\ exists => t.tempfile_created
  PROVE  R_Conduct(SetupRxTransaction(p, status, has_chunks, held, creates),
                   file, exists, delivered, {})
<1> DEFINE none == [R_None EXCEPT !.txn_stat = status]
           t == AllocChunkList(none, has_chunks)
           state == IF p.class = 2 THEN "R2" ELSE "R1"
           u == [t EXCEPT !.reliable = (p.class = 2), !.chunks = held, !.state = state]
           v == [u EXCEPT !.fin_dc = "INVALID", !.fin_fs = "INVALID"]
           x == [v EXCEPT !.fd = TRUE, !.tempfile_created = TRUE]
           z == SetTxnStatus(v, "FILESTORE_REJECTION")
           hold == [t EXCEPT !.state = "HOLD"]
           Fresh(r) == /\ r \in ReceiverType /\ ~r.canceled /\ ~r.send_fin /\ Undecided(r)
                       /\ ~r.is_complete
           Idle(r) == Fresh(r) /\ ~r.fd /\ ~r.tempfile_created
<1>1. Idle(none)
  <2>1. R_None \in ReceiverType
    BY R_NoneOK DEF ReceiverOK
  <2>2. none \in ReceiverType
    BY <2>1 DEF ReceiverType
  <2> QED
    BY <2>2 DEF R_None, Undecided
<1> HIDE DEF none
<1>2. Idle(t)
  <2>1. Idle(SetTxnStatus(none, "NO_RESOURCE"))
    BY <1>1, Statuses DEF SetTxnStatus, ReceiverType, Undecided
  <2> QED
    BY <1>1, <2>1 DEF AllocChunkList
<1> HIDE DEF t
<1>3. Idle(hold)
  BY <1>2 DEF ReceiverType, Undecided
<1>4. Idle(u) /\ u.chunks = held /\ Active(u)
  BY <1>2, RxListsAssumption, ZenonT(60) DEF ReceiverType, Undecided, Active
<1> HIDE DEF u
<1>5. Idle(v) /\ v.chunks = held /\ Active(v)
  BY <1>4 DEF ReceiverType, Undecided, DeliveryCodes, FileStatuses, Active
<1> HIDE DEF v
<1>6. Fresh(x) /\ x.chunks = held /\ x.tempfile_created /\ Active(x)
  BY <1>5 DEF ReceiverType, Undecided, Active
<1>7. Idle(z)
  BY <1>5, Statuses DEF SetTxnStatus, ReceiverType, Undecided
<1>8. SetupRxTransaction(p, status, has_chunks, held, creates) \in {hold, x, z}
  BY DEF SetupRxTransaction, R_Init, none, t, u, v, x, z, hold
<1> HIDE DEF hold, x, z
<1>9. ASSUME NEW r, Idle(r), NoAbandon /\ exists => r.tempfile_created
      PROVE  R_Conduct(r, file, exists, delivered, {})
  BY <1>9 DEF R_Conduct
<1>10. R_Conduct(x, file, exists, delivered, {})
  <2>1. ListsComeEmpty => held \subseteq file
    BY DEF ListsComeEmpty
  <2> QED
    BY <1>6, <2>1 DEF R_Conduct
<1> QED
  BY <1>3, <1>7, <1>8, <1>9, <1>10

LEMMA R_RecvFdConduct ==
  ASSUME NEW file, NEW exists, NEW delivered, NEW said, NEW t \in ReceiverType,
         R_Conduct(t, file, exists, delivered, said),
         NEW p \in FileData, NEW seeks \in BOOLEAN, NEW writes \in BOOLEAN,
         NEW v \in R_RecvFd(t, p, seeks, writes)
  PROVE  /\ R_Stores(t, p, seeks, writes) =>
              R_Conduct(v, file \cup {p.offset}, exists, delivered, said)
         /\ ~R_Stores(t, p, seeks, writes) => R_Conduct(v, file, exists, delivered, said)
         /\ v.state = t.state
<1> DEFINE more == file \cup {p.offset}
           x == [t EXCEPT !.cached_pos = p.offset]
<1>1. CASE R_Stores(t, p, seeks, writes)
  <2>1. PICK c \in LearnOutcomes(t.chunks, {p.offset}, RxChunks) :
          v = [t EXCEPT !.cached_pos = p.offset + 1, !.acknak_count = 0, !.chunks = c]
    BY <1>1 DEF R_RecvFd
  <2>2. c \subseteq t.chunks \cup {p.offset}
    BY DEF LearnOutcomes
  <2>3. /\ v.state = t.state /\ v.sub_state = t.sub_state /\ v.fd = t.fd
        /\ v.tempfile_created = t.tempfile_created /\ v.is_complete = t.is_complete
        /\ v.chunks = c /\ v.send_fin = t.send_fin /\ v.canceled = t.canceled
        /\ v.fin_dc = t.fin_dc /\ v.fin_fs = t.fin_fs /\ v.txn_stat = t.txn_stat
    BY <2>1 DEF ReceiverType
  <2>4. R_Conduct(t, more, exists, delivered, said)
    BY R_ConductMore
  <2>5. ListsComeEmpty /\ t.fd => c \subseteq more
    BY <2>2 DEF R_Conduct
  <2> HIDE DEF more
  <2>6. R_Conduct(v, more, exists, delivered, said)
    BY <2>3, <2>4, <2>5 DEF R_Conduct, Undecided, Active, Report, TxnIsOK
  <2> QED
    BY <1>1, <2>3, <2>6 DEF more
<1>2. CASE ~R_Stores(t, p, seeks, writes)
  <2>1. /\ x \in ReceiverType /\ R_Same(t, x)
    <3>1. p.offset \in 0 .. FileSize
      BY FileSizeAssumption DEF FileData, Segs
    <3> QED
      BY <3>1 DEF ReceiverType, R_Same, TxnIsOK
  <2> HIDE DEF x
  <2>2. R_Same(t, SetTxnStatus(t, "FILE_SIZE_ERROR"))
    BY R_StatusSame
  <2>3. R_Same(t, SetTxnStatus(x, "FILESTORE_REJECTION"))
    BY <2>1, R_StatusSame, R_SameTrans
  <2>4. v \in {SetTxnStatus(t, "FILE_SIZE_ERROR"), SetTxnStatus(x, "FILESTORE_REJECTION")}
    BY <1>2 DEF R_RecvFd, x
  <2>5. R_Same(t, v)
    BY <2>2, <2>3, <2>4
  <2> QED
    BY <1>2, <2>5, R_SameConduct DEF R_Same
<1> QED
  BY <1>1, <1>2

LEMMA R_DirectiveSame ==
  ASSUME NEW t \in ReceiverType, NEW p \in ToReceiver
  PROVE  R_Same(t, R_Directive(t, p)) /\ (p.type = "EOF" => R_Same(t, R_RecvEof(t, p)))
<1>1. p.type = "EOF" => p \in Eof
  BY DEF ToReceiver, Metadata, FileData, Eof, Ack
<1>2. R_Same(t, t)
  BY DEF R_Same
<1>3. p.type = "EOF" => R_Same(t, R_RecvEof(t, p))
  <2> SUFFICES ASSUME p \in Eof PROVE R_Same(t, R_RecvEof(t, p))
    BY <1>1
  <2> DEFINE x == [t EXCEPT !.eof_size = p.size]
             y == SetTxnStatus(x, p.cc)
             u == IF t.eof_count # 0 THEN t ELSE y
             v == [u EXCEPT !.eof_count = @ + 1]
             z == SetTxnStatus(u, "POS_ACK_LIMIT_REACHED")
  <2>1. x \in ReceiverType /\ R_Same(t, x)
    BY DEF ReceiverType, Eof, R_Same, TxnIsOK
  <2> HIDE DEF x
  <2>2. y \in ReceiverType /\ R_Same(t, y)
    <3>1. p.cc \in TxnStatuses
      BY Statuses DEF Eof
    <3>2. y \in ReceiverType
      BY <2>1, <3>1 DEF SetTxnStatus, ReceiverType
    <3> QED
      BY <2>1, <3>2, R_StatusSame, R_SameTrans
  <2> HIDE DEF y
  <2>3. u \in ReceiverType /\ R_Same(t, u)
    BY <1>2, <2>2
  <2> HIDE DEF u
  <2>4. R_Same(u, v) /\ R_Same(u, z)
    <3>1. R_Same(u, v)
      BY <2>3 DEF ReceiverType, R_Same, TxnIsOK
    <3> QED
      BY <2>3, <3>1, R_StatusSame
  <2> HIDE DEF v, z
  <2>5. R_Same(t, v) /\ R_Same(t, z)
    BY <2>3, <2>4, R_SameTrans
  <2> QED
    BY <2>5 DEF R_RecvEof, u, v, x, y, z
<1>4. R_Same(t, R_RecvMd(t, p))
  <2>1. R_Same(t, [t EXCEPT !.md_recv = TRUE, !.fsize = p.size, !.close_req = p.close_req])
    BY DEF ReceiverType, R_Same, TxnIsOK
  <2> QED
    BY <1>2, <2>1 DEF R_RecvMd
<1>5. R_Same(t, [t EXCEPT !.finack_recv = (@ \/ p.directive = "FIN")])
  BY DEF ReceiverType, R_Same, TxnIsOK
<1> QED
  BY <1>2, <1>3, <1>4, <1>5 DEF R_Directive

LEMMA R_RecvConduct ==
  ASSUME NEW file, NEW exists, NEW delivered, NEW said, NEW t \in ReceiverType,
         R_Conduct(t, file, exists, delivered, said),
         NEW p \in ToReceiver, NEW seeks \in BOOLEAN, NEW writes \in BOOLEAN,
         NEW v \in R_Recv(t, p, seeks, writes),
         NEW after, after = IF R_AcceptsFd(t, p) /\ R_Stores(t, p, seeks, writes)
                              THEN file \cup {p.offset} ELSE file
  PROVE  R_Conduct(v, after, exists, delivered, said) /\ v.state = t.state
<1>1. CASE v \in R_RecvFd(t, p, seeks, writes) /\ R_AcceptsFd(t, p)
  <2>1. p \in FileData
    BY <1>1 DEF R_AcceptsFd, ToReceiver, Metadata, FileData, Eof, Ack
  <2>2. /\ R_Stores(t, p, seeks, writes) =>
             R_Conduct(v, file \cup {p.offset}, exists, delivered, said)
        /\ ~R_Stores(t, p, seeks, writes) => R_Conduct(v, file, exists, delivered, said)
        /\ v.state = t.state
    BY <1>1, <2>1, R_RecvFdConduct
  <2> QED
    BY <1>1, <2>2
<1>2. CASE ~R_AcceptsFd(t, p)
  <2>1. R_Same(t, v)
    <3>1. R_Same(t, t)
      BY DEF R_Same
    <3> QED
      BY <1>2, <3>1, R_DirectiveSame DEF R_Recv
  <2> QED
    BY <1>2, <2>1, R_SameConduct DEF R_Same
<1>3. R_AcceptsFd(t, p) => v \in R_RecvFd(t, p, seeks, writes)
  BY DEF R_Recv, R_AcceptsFd, Active
<1> QED
  BY <1>1, <1>2, <1>3

(***************************************************************************)
(* A sub-state is entered before the file was dealt with, unless it is     *)
(* COMPLETE.                                                               *)
(***************************************************************************)
LEMMA R_EnterConduct ==
  ASSUME NEW file, NEW exists, NEW delivered, NEW said, NEW t \in ReceiverType,
         R_Conduct(t, file, exists, delivered, said), NEW works,
         NEW next \in {"DATA_EOF", "VALIDATE", "FILESTORE", "COMPLETE"},
         IF next = "COMPLETE" THEN ~Undecided(t) ELSE Undecided(t)
  PROVE  R_Conduct(R_Enter(t, next, works), file, exists, delivered, said)
<1> DEFINE u == [t EXCEPT !.sub_state = next, !.ack_timer_armed = FALSE]
           v == [u EXCEPT !.acknak_count = 0, !.send_nak = (@ \/ t.reliable)]
           x == [u EXCEPT !.crc_pos = 0, !.cached_pos = 0]
           y == SetTxnStatus(u, "FILE_SIZE_ERROR")
<1>1. u \in ReceiverType
  BY DEF ReceiverType, RxSubStates
<1>2. /\ u.state = t.state /\ u.sub_state = next /\ u.fd = t.fd
      /\ u.tempfile_created = t.tempfile_created /\ u.is_complete = t.is_complete
      /\ u.chunks = t.chunks /\ u.send_fin = t.send_fin /\ u.canceled = t.canceled
      /\ u.fin_dc = t.fin_dc /\ u.fin_fs = t.fin_fs /\ u.txn_stat = t.txn_stat
  BY DEF ReceiverType
<1> HIDE DEF u
<1>3. Undecided(u) <=> Undecided(t)
  BY <1>2 DEF Undecided
<1>4. R_Conduct(u, file, exists, delivered, said)
  BY <1>2, <1>3 DEF R_Conduct, Active, Report, TxnIsOK
<1>5. next = "COMPLETE" => R_Conduct(FinishTransaction(u), file, exists, delivered, said)
  BY <1>1, <1>3, <1>4, R_FinishConduct
<1>6. R_Same(u, v) /\ R_Same(u, x)
  BY <1>1 DEF ReceiverType, R_Same, TxnIsOK
<1>7. R_Same(u, y)
  BY <1>1, R_StatusSame
<1> HIDE DEF v, x, y
<1>8. /\ R_Conduct(v, file, exists, delivered, said)
      /\ R_Conduct(x, file, exists, delivered, said)
      /\ R_Conduct(y, file, exists, delivered, said)
  BY <1>4, <1>6, <1>7, R_SameConduct
<1>9. R_Enter(t, next, works) = CASE next = "DATA_EOF" -> v
                                  [] next = "VALIDATE" -> R_CalcCrcStart(u, works)
                                  [] next = "COMPLETE" -> FinishTransaction(u)
                                  [] OTHER             -> u
  BY DEF R_Enter, u, v
<1>10. R_CalcCrcStart(u, works) \in {x, y}
  BY DEF R_CalcCrcStart, x, y
<1>11. CASE next = "VALIDATE"
  BY <1>8, <1>9, <1>10, <1>11
<1>12. CASE next # "VALIDATE"
  BY <1>4, <1>5, <1>8, <1>9, <1>12
<1> QED
  BY <1>11, <1>12

LEMMA R_CheckState_DATA_EOF_Conduct ==
  ASSUME NEW file, NEW exists, NEW delivered, NEW said, NEW t,
         ReceiverOK(t, file, delivered),
         R_Conduct(t, file, exists, delivered, said), NEW works,
         t.sub_state = "DATA_EOF"
  PROVE  R_Conduct(R_CheckState_DATA_EOF(t, works), file, exists, delivered, said)
<1> DEFINE u == [t EXCEPT !.is_complete = TRUE]
           v == [t EXCEPT !.acknak_count = @ + 1, !.send_nak = TRUE]
           x == SetTxnStatus(t, "NAK_LIMIT_REACHED")
           Good(r) == R_Conduct(r, file, exists, delivered, said)
<1>1. t \in ReceiverType /\ Undecided(t)
  BY DEF ReceiverOK, Undecided
<1>2. Good(R_Enter(t, "FILESTORE", works))
  BY <1>1, R_EnterConduct
<1>3. R_CheckComplete(t) => Good(R_Enter(u, "VALIDATE", works))
  <2> SUFFICES ASSUME R_CheckComplete(t) PROVE Good(R_Enter(u, "VALIDATE", works))
    OBVIOUS
  <2>1. /\ u \in ReceiverType
        /\ u.state = t.state /\ u.sub_state = t.sub_state /\ u.fd = t.fd
        /\ u.tempfile_created = t.tempfile_created
        /\ u.chunks = t.chunks /\ u.send_fin = t.send_fin /\ u.canceled = t.canceled
        /\ u.fin_dc = t.fin_dc /\ u.fin_fs = t.fin_fs /\ u.txn_stat = t.txn_stat
    BY <1>1 DEF ReceiverType
  <2> HIDE DEF u
  <2>2. t.fsize = FileSize /\ Missing(t.chunks, FileSize) = {}
    BY DEF R_CheckComplete, ReceiverOK
  <2>3. ListsComeEmpty /\ t.fd => Missing(file, FileSize) = {}
    BY <2>2 DEF R_Conduct, Missing
  <2>4. R_Conduct(u, file, exists, delivered, said) /\ Undecided(u)
    BY <1>1, <2>1, <2>3 DEF R_Conduct, Undecided, Active, Report, TxnIsOK
  <2> QED
    BY <2>1, <2>4, R_EnterConduct
<1>4. Good(v)
  <2>1. R_Same(t, v)
    BY <1>1 DEF ReceiverType, R_Same, TxnIsOK
  <2> QED
    BY <2>1, R_SameConduct
<1>5. Good(R_Enter(x, "FILESTORE", works))
  <2>1. x \in ReceiverType /\ R_Same(t, x)
    BY <1>1, R_StatusSame, Statuses DEF SetTxnStatus, ReceiverType
  <2> HIDE DEF x
  <2>2. R_Conduct(x, file, exists, delivered, said) /\ Undecided(x)
    BY <1>1, <2>1, R_SameConduct DEF R_Same, Undecided
  <2> QED
    BY <2>1, <2>2, R_EnterConduct
<1>6. Good(t)
  OBVIOUS
<1>7. Good(R_CheckState_DATA_EOF(t, works))
  <2> HIDE DEF Good
  <2> QED
    BY <1>2, <1>3, <1>4, <1>5, <1>6 DEF R_CheckState_DATA_EOF
<1> QED
  BY <1>7

LEMMA R_CalcCrcChunkSame ==
  ASSUME NEW t \in ReceiverType, NEW file, NEW works
  PROVE  R_Same(t, R_CalcCrcChunk(t, file, works))
<1> DEFINE end == IF t.cached_pos + CrcPerWakeup > t.fsize THEN t.fsize
                  ELSE t.cached_pos + CrcPerWakeup
           Continues == t.crc_pos = t.cached_pos /\ t.cached_pos .. end - 1 \subseteq file
           pos == IF Continues THEN end ELSE NoCrc
           u == [t EXCEPT !.cached_pos = end, !.crc_pos = pos]
<1>1. R_CalcCrcChunk(t, file, works) \in {t, u, SetTxnStatus(t, "FILE_SIZE_ERROR")}
  BY DEF R_CalcCrcChunk
<1> HIDE DEF end, pos
<1>2. R_Same(t, u) /\ R_Same(t, t)
  BY DEF ReceiverType, R_Same, TxnIsOK
<1>3. R_Same(t, SetTxnStatus(t, "FILE_SIZE_ERROR"))
  BY R_StatusSame
<1> QED
  BY <1>1, <1>2, <1>3

LEMMA R_CheckState_VALIDATE_Conduct ==
  ASSUME NEW file, NEW exists, NEW delivered, NEW said, NEW t \in ReceiverType,
         R_Conduct(t, file, exists, delivered, said), NEW works,
         t.sub_state = "VALIDATE"
  PROVE  R_Conduct(R_CheckState_VALIDATE(t, file, works), file, exists, delivered, said)
<1>1. R_Conduct(R_Enter(t, "FILESTORE", works), file, exists, delivered, said)
  BY R_EnterConduct DEF Undecided
<1> QED
  BY <1>1, R_CalcCrcChunkSame, R_SameConduct DEF R_CheckState_VALIDATE

LEMMA R_CheckState_FINACK_Conduct ==
  ASSUME NEW file, NEW exists, NEW delivered, NEW said, NEW t \in ReceiverType,
         R_Conduct(t, file, exists, delivered, said), NEW works,
         t.sub_state = "FINACK"
  PROVE  R_Conduct(R_CheckState_FINACK(t, works), file, exists, delivered, said)
<1> DEFINE v == [t EXCEPT !.acknak_count = @ + 1, !.send_fin = TRUE]
<1>1. R_Conduct(R_Enter(t, "COMPLETE", works), file, exists, delivered, said)
  BY R_EnterConduct DEF Undecided
<1>2. R_Conduct(v, file, exists, delivered, said)
  <2>1. /\ v.state = t.state /\ v.sub_state = t.sub_state /\ v.fd = t.fd
        /\ v.tempfile_created = t.tempfile_created /\ v.is_complete = t.is_complete
        /\ v.chunks = t.chunks /\ v.canceled = t.canceled
        /\ v.fin_dc = t.fin_dc /\ v.fin_fs = t.fin_fs /\ v.txn_stat = t.txn_stat
    BY DEF ReceiverType
  <2> HIDE DEF v
  <2> QED
    BY <2>1 DEF R_Conduct, Undecided, Active, Report, TxnIsOK
<1> QED
  BY <1>1, <1>2 DEF R_CheckState_FINACK

LEMMA R_CheckState_DATA_NORMAL_Conduct ==
  ASSUME NEW file, NEW exists, NEW delivered, NEW said, NEW t \in ReceiverType,
         R_Conduct(t, file, exists, delivered, said), NEW works,
         t.sub_state = "DATA_NORMAL"
  PROVE  R_Conduct(R_CheckState_DATA_NORMAL(t, works), file, exists, delivered, said)
<1>1. R_Conduct(R_Enter(t, "DATA_EOF", works), file, exists, delivered, said)
  BY R_EnterConduct DEF Undecided
<1>2. R_Conduct(R_Enter(t, "FILESTORE", works), file, exists, delivered, said)
  BY R_EnterConduct DEF Undecided
<1> QED
  BY <1>1, <1>2 DEF R_CheckState_DATA_NORMAL

(* Whatever becomes of the file, no file is open afterwards, and only a    *)
(* file that was moved into place leaves the transaction without an error. *)
LEMMA R_HandleFileRetentionConduct ==
  ASSUME NEW t \in ReceiverType, t.canceled => ~TxnIsOK(t), NEW moves
  PROVE  LET v == R_HandleFileRetention(t, moves)
         IN  /\ v \in ReceiverType
             /\ v.fd = FALSE
             /\ v.canceled => ~TxnIsOK(v)
             /\ TxnIsOK(v) => R_Moves(t) /\ moves
<1> DEFINE u == [t EXCEPT !.fd = FALSE]
           v == R_HandleFileRetention(t, moves)
           Failed(x) == x \in ReceiverType /\ x.fd = FALSE /\ ~TxnIsOK(x)
<1>1. u \in ReceiverType /\ u.fd = FALSE /\ u.canceled = t.canceled
  BY DEF ReceiverType
<1> HIDE DEF u
<1>2. ASSUME NEW x \in ReceiverType, x.fd = FALSE, NEW st \in TxnStatuses, st # "NO_ERROR"
      PROVE  Failed(SetTxnStatus(x, st))
  <2>1. ~TxnIsOK(SetTxnStatus(x, st))
    BY <1>2, R_ErrorSticks
  <2> QED
    BY <1>2, <2>1 DEF SetTxnStatus, ReceiverType
<1>3. ASSUME NEW x, Failed(x), NEW dc \in DeliveryCodes PROVE Failed(R_Discarded(x, dc))
  BY <1>3 DEF R_Discarded, ReceiverType, FileStatuses, TxnIsOK
<1>4. Failed(SetTxnStatus([u EXCEPT !.fin_dc = "INVALID", !.fin_fs = "INVALID"],
                          "FILESTORE_REJECTION"))
  <2>1. /\ [u EXCEPT !.fin_dc = "INVALID", !.fin_fs = "INVALID"] \in ReceiverType
        /\ [u EXCEPT !.fin_dc = "INVALID", !.fin_fs = "INVALID"].fd = FALSE
    BY <1>1 DEF ReceiverType, DeliveryCodes, FileStatuses
  <2> QED
    BY <1>2, <2>1, Statuses
<1> DEFINE kept == [u EXCEPT !.txn_stat = "NO_ERROR", !.fin_dc = "COMPLETE",
                             !.fin_fs = "RETAINED"]
<1>5. kept \in ReceiverType /\ kept.fd = FALSE /\ kept.canceled = t.canceled
  BY <1>1, Statuses DEF ReceiverType, DeliveryCodes, FileStatuses
<1> HIDE DEF kept
<1>6. {"COMPLETE", "INCOMPLETE"} \subseteq DeliveryCodes
  BY DEF DeliveryCodes
<1>7. /\ Failed(R_Discarded(SetTxnStatus(u, "INVALID_FILE_STRUCTURE"), "INCOMPLETE"))
      /\ Failed(R_Discarded(SetTxnStatus(u, "FILE_CHECKSUM_FAILURE"), "COMPLETE"))
      /\ Failed(R_Discarded(SetTxnStatus(u, "FILESTORE_REJECTION"), "COMPLETE"))
  <2>1. /\ Failed(SetTxnStatus(u, "INVALID_FILE_STRUCTURE"))
        /\ Failed(SetTxnStatus(u, "FILE_CHECKSUM_FAILURE"))
        /\ Failed(SetTxnStatus(u, "FILESTORE_REJECTION"))
    BY <1>1, <1>2, Statuses
  <2> QED
    BY <1>3, <1>6, <2>1
<1>8. Failed(v) \/ (v = kept /\ R_Moves(t) /\ moves)
  <2> HIDE DEF Failed
  <2> QED
    BY <1>4, <1>7 DEF R_HandleFileRetention, u, kept
<1> HIDE DEF v
<1>9. R_Moves(t) => ~t.canceled
  BY DEF R_Moves
<1> QED
  BY <1>5, <1>8, <1>9 DEF v

LEMMA R_CheckState_FILESTORE_Conduct ==
  ASSUME NEW file, NEW exists, NEW delivered, NEW said, NEW t \in ReceiverType,
         R_Conduct(t, file, exists, delivered, said), NEW works,
         t.sub_state = "FILESTORE",
         NEW other, NEW still, NoAbandon => ~still,
         NEW now, R_Moves(t) /\ works => now
  PROVE  R_Conduct(R_CheckState_FILESTORE(t, works), other, still, now, said)
<1> DEFINE u == R_HandleFileRetention(t, works)
           next == IF t.reliable \/ t.close_req THEN "FINACK" ELSE "COMPLETE"
           v == [u EXCEPT !.sub_state = next, !.ack_timer_armed = FALSE]
           x == [v EXCEPT !.acknak_count = 0, !.send_fin = TRUE]
           y == FinishTransaction(v)
<1>1. /\ u \in ReceiverType /\ u.fd = FALSE
      /\ u.canceled => ~TxnIsOK(u)
      /\ TxnIsOK(u) => R_Moves(t) /\ works
  BY R_HandleFileRetentionConduct DEF R_Conduct
<1> HIDE DEF u
<1>2. next \in {"FINACK", "COMPLETE"}
  OBVIOUS
<1> HIDE DEF next
<1>3. /\ v \in ReceiverType /\ v.sub_state = next /\ v.fd = FALSE
      /\ v.canceled = u.canceled /\ v.txn_stat = u.txn_stat
  BY <1>1, <1>2 DEF ReceiverType, RxSubStates
<1> HIDE DEF v
<1>4. /\ x.sub_state = next /\ x.fd = FALSE
      /\ x.canceled = u.canceled /\ x.txn_stat = u.txn_stat
  BY <1>3 DEF ReceiverType
<1>5. /\ y.sub_state = next /\ y.fd = FALSE
      /\ y.canceled = u.canceled /\ y.txn_stat = u.txn_stat
  BY <1>3 DEF ReceiverType, FinishTransaction
<1> HIDE DEF x, y
<1>6. said = {}
  <2>1. \A report \in said : FALSE
    BY DEF R_Conduct, Undecided
  <2> QED
    BY <2>1
<1>7. R_Conduct(x, other, still, now, said) /\ R_Conduct(y, other, still, now, said)
  BY <1>1, <1>2, <1>4, <1>5, <1>6 DEF R_Conduct, Undecided, TxnIsOK
<1>8. R_CheckState_FILESTORE(t, works) \in {x, y}
  BY <1>2 DEF R_CheckState_FILESTORE, R_Enter, u, v, x, y, next
<1> QED
  BY <1>7, <1>8

LEMMA R_InactivityTickSame ==
  ASSUME NEW t \in ReceiverType, NEW w
  PROVE  R_Same(t, R_InactivityTick(t, w))
<1> DEFINE u == [t EXCEPT !.inactivity_fired = TRUE]
<1>1. u \in ReceiverType /\ R_Same(t, u) /\ R_Same(t, t)
  BY DEF ReceiverType, R_Same, TxnIsOK
<1> HIDE DEF u
<1>2. R_Same(t, SetTxnStatus(u, "INACTIVITY_DETECTED"))
  BY <1>1, R_StatusSame, R_SameTrans
<1> QED
  BY <1>1, <1>2 DEF R_InactivityTick, u

LEMMA R_AckTimerTickSame ==
  ASSUME NEW t \in ReceiverType, NEW w
  PROVE  R_Same(t, R_AckTimerTick(t, w))
<1> DEFINE u == [t EXCEPT !.ack_timer_armed = FALSE]
<1>1. R_Same(t, u) /\ R_Same(t, t)
  BY DEF ReceiverType, R_Same, TxnIsOK
<1> QED
  BY <1>1 DEF R_AckTimerTick

(* A tick that does not deal with the file, and one that does.             *)
LEMMA R_CheckedConduct ==
  ASSUME NEW file, NEW exists, NEW delivered, NEW said, NEW t,
         ReceiverOK(t, file, delivered),
         R_Conduct(t, file, exists, delivered, said), NEW w, ~R_Files(t)
  PROVE  R_Conduct(R_Checked(t, file, w), file, exists, delivered, said)
<1> DEFINE u == R_InactivityTick(t, w)
           v == R_AckTimerTick(u, w)
<1>1. ReceiverOK(u, file, delivered) /\ u.sub_state = t.sub_state
  BY R_InactivityTickOK
<1>2. R_Conduct(u, file, exists, delivered, said)
  BY R_InactivityTickSame, R_SameConduct DEF ReceiverOK
<1> HIDE DEF u
<1>3. ReceiverOK(u, file, delivered) /\ u.sub_state = t.sub_state /\ u \in ReceiverType
  BY <1>1 DEF ReceiverOK
<1>4. ReceiverOK(v, file, delivered) /\ v.sub_state = u.sub_state
  BY <1>3, R_AckTimerTickOK
<1>5. ReceiverOK(v, file, delivered) /\ v.sub_state = t.sub_state /\ v \in ReceiverType
  BY <1>3, <1>4 DEF ReceiverOK
<1>6. R_Conduct(v, file, exists, delivered, said)
  BY <1>3, <1>2, R_AckTimerTickSame, R_SameConduct
<1> HIDE DEF v
<1>7. ASSUME Active(t)
      PROVE  R_Conduct(R_CheckState(v, file, w.works), file, exists, delivered, said)
  <2>1. v.sub_state # "FILESTORE"
    BY <1>5, <1>7 DEF R_Files
  <2> QED
    BY <1>5, <1>6, <2>1, R_CheckState_DATA_NORMAL_Conduct, R_CheckState_DATA_EOF_Conduct,
       R_CheckState_VALIDATE_Conduct, R_CheckState_FINACK_Conduct
       DEF R_CheckState
<1> QED
  BY <1>2, <1>7 DEF R_Checked, u, v

LEMMA R_CheckedFilesConduct ==
  ASSUME NEW file, NEW exists, NEW delivered, NEW said, NEW t,
         ReceiverOK(t, file, delivered),
         R_Conduct(t, file, exists, delivered, said), NEW w, R_Files(t),
         NEW other, NEW still, NoAbandon => ~still, NEW now, R_Retains(t, w) => now
  PROVE  R_Conduct(R_Checked(t, file, w), other, still, now, said)
<1> DEFINE u == R_InactivityTick(t, w)
           v == R_AckTimerTick(u, w)
<1>1. ReceiverOK(u, file, delivered) /\ u.sub_state = t.sub_state /\ u \in ReceiverType
  BY R_InactivityTickOK DEF ReceiverOK
<1>2. R_Conduct(u, file, exists, delivered, said)
  BY R_InactivityTickSame, R_SameConduct DEF ReceiverOK
<1>3. R_Moves(u) /\ w.works => now
  BY DEF R_Retains
<1> HIDE DEF u
<1>4. /\ ReceiverOK(v, file, delivered) /\ v.sub_state = u.sub_state
      /\ R_Moves(v) = R_Moves(u)
  BY <1>1, R_AckTimerTickOK
<1>5. v.sub_state = "FILESTORE" /\ v \in ReceiverType /\ R_Moves(v) = R_Moves(u)
  BY <1>1, <1>4 DEF ReceiverOK, R_Files
<1>6. R_Conduct(v, file, exists, delivered, said)
  BY <1>1, <1>2, R_AckTimerTickSame, R_SameConduct
<1> HIDE DEF v
<1>7. R_Conduct(R_CheckState_FILESTORE(v, w.works), other, still, now, said)
  BY <1>3, <1>5, <1>6, R_CheckState_FILESTORE_Conduct
<1>8. R_Checked(t, file, w) = R_CheckState_FILESTORE(v, w.works)
  BY <1>5 DEF R_Checked, R_Files, R_CheckState, u, v
<1> QED
  BY <1>7, <1>8

LEMMA R_SentSame ==
  ASSUME NEW t \in ReceiverType
  PROVE  R_Same(t, R_Sent(t))
<1>1. R_Same(t, t)
  BY DEF R_Same
<1>2. R_Same(t, [t EXCEPT !.eof_ack_count = t.eof_count])
  BY DEF ReceiverType, R_Same, TxnIsOK
<1>3. R_Same(t, [t EXCEPT !.send_nak = FALSE, !.ack_timer_armed = (@ \/ R_NakSends(t))])
  BY DEF ReceiverType, R_Same, TxnIsOK
<1>4. R_Same(t, [t EXCEPT !.send_fin = FALSE, !.ack_timer_armed = (@ \/ t.reliable)])
  BY DEF ReceiverType, R_Same, TxnIsOK
<1> QED
  BY <1>1, <1>2, <1>3, <1>4 DEF R_Sent

(* A FIN is sent by a receiver that has dealt with its file, and reports   *)
(* what became of it.                                                      *)
LEMMA R_DueReport ==
  ASSUME NEW file, NEW exists, NEW delivered, NEW said, NEW t \in ReceiverType,
         R_Conduct(t, file, exists, delivered, said), NEW p \in R_Due(t)
  PROVE  /\ p.type \notin {"EOF", "FILEDATA"}
         /\ IsFin(p) => /\ ~Undecided(t)
                        /\ <<p.delivery_code, p.file_status>> = Report(t)
                        /\ p.cc = "NO_ERROR" => delivered
<1>1. CASE R_EofAckDue(t)
  BY <1>1 DEF R_Due, IsFin
<1>2. CASE ~R_EofAckDue(t) /\ t.send_nak
  BY <1>2 DEF R_Due, IsFin
<1>3. CASE ~R_EofAckDue(t) /\ ~t.send_nak
  <2>1. /\ t.send_fin
        /\ p = [type |-> "FIN", class |-> GetClass(t), cc |-> To_ConditionCode(t.txn_stat),
                delivery_code |-> t.fin_dc, file_status |-> t.fin_fs]
    BY <1>3 DEF R_Due
  <2>2. p.cc = "NO_ERROR" => TxnIsOK(t)
    BY <2>1 DEF To_ConditionCode, TxnIsOK, IsError
  <2> QED
    BY <2>1, <2>2 DEF R_Conduct, Report
<1> QED
  BY <1>1, <1>2, <1>3

(* What was said may be more, as long as it is the same.                   *)
LEMMA R_SaysMore ==
  ASSUME NEW file, NEW exists, NEW delivered, NEW said, NEW t,
         R_Conduct(t, file, exists, delivered, said), NEW more,
         \A report \in more : report \in said \/ (~Undecided(t) /\ report = Report(t))
  PROVE  R_Conduct(t, file, exists, delivered, more)
BY DEF R_Conduct

(* The tick of a receiver whose maintenance finds it as u.                 *)
LEMMA R_TickConduct ==
  ASSUME NEW file, NEW exists, NEW delivered, NEW said, NEW t, NEW temporary, NEW w,
         R_Checked(t, temporary, w) \in ReceiverType,
         R_Conduct(R_Checked(t, temporary, w), file, exists, delivered, said)
  PROVE  LET v == R_Tick(t, temporary, w)
         IN  R_Conduct(v, file, exists, delivered, IF v.state = "UNDEF" THEN {} ELSE said)
<1> DEFINE u == R_Checked(t, temporary, w)
           x == IF w.blocked THEN u ELSE R_Sent(u)
<1> HIDE DEF u
<1>1. R_Same(u, x)
  <2>1. R_Same(u, u)
    BY DEF R_Same
  <2> QED
    BY <2>1, R_SentSame DEF u
<1>2. R_Conduct(x, file, exists, delivered, said)
  BY <1>1, R_SameConduct DEF u
<1> HIDE DEF x
<1>3. R_Conduct(x, file, exists, delivered, {})
  BY <1>2, R_SaysMore
<1>4. CASE x.inactivity_fired /\ x.state = "HOLD"
  <2>1. NoAbandon => ~exists
    BY <1>2, <1>4 DEF R_Conduct, Active
  <2>2. R_Tick(t, temporary, w) = R_None
    BY <1>4 DEF R_Tick, u, x
  <2> QED
    BY <2>1, <2>2, R_NoneConduct
<1>5. CASE ~(x.inactivity_fired /\ x.state = "HOLD")
  <2>1. R_Tick(t, temporary, w) = x
    BY <1>5 DEF R_Tick, u, x
  <2> QED
    BY <1>2, <1>3, <2>1
<1> QED
  BY <1>4, <1>5

-------------------------------------------------------------------------------
(* Each action preserves the invariant. *)

LEMMA OutcomeInit == Init => OutcomeInv
<1> SUFFICES ASSUME Init PROVE OutcomeInv
  OBVIOUS
<1>1. Reports = {} /\ Said = {}
  BY DEF Init, Reports, Said
<1>2. S_Conduct(snd, Delivered) /\ snd.foffs = 0
  BY S_FreshConduct DEF Init
<1>3. R_Conduct(rcv, temp, tempfile, Delivered, {}) /\ rcv.state = "UNDEF"
  BY R_NoneConduct DEF Init
<1>4. R_Conduct(rcv, temp, tempfile, Delivered, IF R_Exists THEN Said ELSE {})
  BY <1>1, <1>3
<1>5. src = "present" /\ net = {} /\ ~R_Exists
  BY <1>3 DEF Init, R_Exists
<1>6. \A s \in Segs : ~(s < snd.foffs)
  BY <1>2, FileSizeAssumption DEF Segs
<1> QED
  BY <1>1, <1>2, <1>4, <1>5, <1>6 DEF OutcomeInv

(* A step of the sender, which may send PDUs but no FIN, and an EOF only   *)
(* after all its data.                                                     *)
LEMMA SenderStep ==
  ASSUME OutcomeInv, UNCHANGED <<rcv, temp, tempfile, dst, created>>,
         S_Conduct(snd', Delivered), Active(snd') => src' = "present",
         net \subseteq net',
         \A p \in net' : p \in net \/ p.type \notin {"FIN", "EOF"}
                           \/ (p.type = "EOF" /\ snd.foffs = FileSize),
         \A s \in Segs : s < snd'.foffs => s < snd.foffs \/ Sent(s)'
  PROVE  OutcomeInv'
<1>1. \A s \in Segs : Sent(s) => Sent(s)'
  BY DEF Sent
<1>2. \A s \in Segs : s < snd'.foffs => Sent(s)'
  BY <1>1 DEF OutcomeInv
<1>3. (\E p \in net' : p.type = "EOF") => \A s \in Segs : Sent(s)'
  <2>1. snd.foffs = FileSize => \A s \in Segs : s < snd.foffs
    BY FileSizeAssumption DEF Segs
  <2> QED
    BY <1>1, <2>1 DEF OutcomeInv
<1>4. \A p \in net' : p.type = "FIN" => p \in net
  OBVIOUS
<1>5. Reports' = Reports /\ Said' = Said
  <2>1. Reports' = Reports
    BY <1>4 DEF Reports, IsFin
  <2> QED
    BY <2>1 DEF Said
<1>6. R_Exists' = R_Exists /\ Delivered' = Delivered
  BY DEF R_Exists, Delivered
<1>7. R_Conduct(rcv, temp, tempfile, Delivered, IF R_Exists THEN Said ELSE {})'
  BY <1>5, <1>6 DEF OutcomeInv
<1>8. \A p \in net' : IsFin(p) /\ p.cc = "NO_ERROR" => Delivered'
  BY <1>4, <1>6 DEF OutcomeInv, IsFin
<1>9. S_Conduct(snd', Delivered')
  BY <1>6
<1>10. (created' = 0 => ~R_Exists' /\ Reports' = {}) /\ \A x, y \in Said' : x = y
  BY <1>5, <1>6 DEF OutcomeInv
<1> QED
  BY <1>2, <1>3, <1>7, <1>8, <1>9, <1>10 DEF OutcomeInv

LEMMA S_StartOutcome == FileInv /\ OutcomeInv /\ S_Start => OutcomeInv'
<1> SUFFICES ASSUME FileInv, OutcomeInv, S_Start PROVE OutcomeInv'
  OBVIOUS
<1>1. PICK has_chunks \in BOOLEAN, opens \in BOOLEAN :
        snd' = SetupTxTransaction(snd, has_chunks, opens)
  BY OutcomesOK DEF S_Start
<1>2. snd \in SenderType /\ snd.q = "PEND" /\ S_Conduct(snd, Delivered)
  BY DEF FileInv, OutcomeInv, SenderOK, S_Start
<1>3. /\ S_Conduct(snd', Delivered)
      /\ Active(snd') => Active(snd)
      /\ snd'.foffs \in {0, snd.foffs}
  BY <1>1, <1>2, SetupTxTransactionConduct
<1>4. \A s \in Segs : s < snd'.foffs => s < snd.foffs
  BY <1>3, FileSizeAssumption DEF Segs
<1>5. src' = src /\ net' = net /\ UNCHANGED <<rcv, temp, tempfile, dst, created>>
  BY DEF S_Start
<1>6. Active(snd') => src' = "present"
  BY <1>3, <1>5 DEF OutcomeInv
<1> QED
  BY <1>3, <1>4, <1>5, <1>6, SenderStep

LEMMA S_WakeupOutcome == FileInv /\ OutcomeInv /\ S_Wakeup => OutcomeInv'
<1> SUFFICES ASSUME FileInv, OutcomeInv, NEW w \in Wakeups, S_WakeupWith(w)
             PROVE  OutcomeInv'
  BY DEF S_Wakeup
<1>1. SenderOK(snd, "TX", Delivered) /\ S_Conduct(snd, Delivered)
  BY DEF FileInv, OutcomeInv, S_WakeupWith
<1>2. /\ S_Conduct(snd', Delivered)
      /\ Active(snd') => Active(snd) /\ ~S_Files(snd)
      /\ snd'.foffs \in {0, snd.foffs}
  BY <1>1, S_TickConduct DEF S_WakeupWith
<1>3. \A s \in Segs : s < snd'.foffs => s < snd.foffs
  BY <1>2, FileSizeAssumption DEF Segs
<1>4. Active(snd') => src' = "present"
  BY <1>2 DEF OutcomeInv, S_WakeupWith
<1>5. \A p \in S_TickSends(snd, w) : p.type # "FIN" /\ (p.type = "EOF" => snd.foffs = FileSize)
  <2>1. /\ S_Conduct(S_Checked(snd, w), Delivered)
        /\ S_Checked(snd, w).foffs = snd.foffs
    BY <1>1, S_CheckedConduct
  <2>2. S_Checked(snd, w) \in SenderType
    BY <1>1, S_CheckedOK DEF SenderOK
  <2> QED
    BY <2>1, <2>2, S_DueAfterData DEF S_TickSends
<1>6. net' = net \cup S_TickSends(snd, w) /\ UNCHANGED <<rcv, temp, tempfile, dst, created>>
  BY DEF S_WakeupWith
<1>7. \A p \in net' : p \in net \/ p.type \notin {"FIN", "EOF"}
                        \/ (p.type = "EOF" /\ snd.foffs = FileSize)
  BY <1>5, <1>6
<1> QED
  BY <1>2, <1>3, <1>4, <1>6, <1>7, SenderStep

LEMMA S_AnswerNakOutcome == FileInv /\ OutcomeInv /\ S_AnswerNak => OutcomeInv'
<1> SUFFICES ASSUME FileInv, OutcomeInv, S_AnswerNak PROVE OutcomeInv'
  OBVIOUS
<1>1. PICK reads \in BOOLEAN :
        /\ snd' = S_Tick_Nak(snd, reads)
        /\ net' = IF snd.fd /\ reads
                    THEN net \cup {FileDataPdu(snd, s) : s \in FirstSegment(snd)}
                    ELSE net
  BY OutcomesOK DEF S_AnswerNak
<1>2. snd \in SenderType /\ S_Conduct(snd, Delivered)
  BY DEF FileInv, OutcomeInv, SenderOK
<1>3. S_Same(snd, snd')
  BY <1>1, <1>2, S_Tick_NakSame
<1>4. S_Conduct(snd', Delivered) /\ snd'.foffs = snd.foffs /\ (Active(snd') => Active(snd))
  BY <1>2, <1>3, S_SameConduct DEF S_Same, Active
<1>5. src' = src /\ UNCHANGED <<rcv, temp, tempfile, dst, created>>
  BY DEF S_AnswerNak
<1>6. \A s : FileDataPdu(snd, s).type = "FILEDATA"
  BY DEF FileDataPdu
<1>7. net \subseteq net' /\ \A p \in net' : p \in net \/ p.type = "FILEDATA"
  BY <1>1, <1>6
<1>8. Active(snd') => src' = "present"
  BY <1>4, <1>5 DEF OutcomeInv
<1> QED
  BY <1>4, <1>5, <1>7, <1>8, SenderStep

LEMMA S_NewDataOutcome == FileInv /\ OutcomeInv /\ S_NewData => OutcomeInv'
<1> SUFFICES ASSUME FileInv, OutcomeInv, S_NewData PROVE OutcomeInv'
  OBVIOUS
<1>1. PICK reads \in BOOLEAN :
        /\ snd' = S_SubstateSendFileData(snd, reads)
        /\ net' = IF snd.fd /\ reads
                    THEN net \cup {FileDataPdu(snd, snd.foffs)} ELSE net
  BY OutcomesOK DEF S_NewData
<1>2. /\ SenderOK(snd, "TX", Delivered) /\ S_Conduct(snd, Delivered)
      /\ snd.foffs < snd.fsize
  BY DEF FileInv, OutcomeInv, S_NewData
<1>3. /\ S_Conduct(snd', Delivered)
      /\ Active(snd') => Active(snd)
      /\ snd'.foffs = IF snd.fd /\ reads THEN snd.foffs + 1 ELSE snd.foffs
  BY <1>1, <1>2, S_SubstateSendFileDataConduct
<1>4. src' = src /\ UNCHANGED <<rcv, temp, tempfile, dst, created>>
  BY DEF S_NewData
<1>5. \A s : FileDataPdu(snd, s).type = "FILEDATA" /\ FileDataPdu(snd, s).offset = s
  BY DEF FileDataPdu
<1>6. net \subseteq net' /\ \A p \in net' : p \in net \/ p.type = "FILEDATA"
  BY <1>1, <1>5
<1>7. Active(snd') => src' = "present"
  BY <1>3, <1>4 DEF OutcomeInv
<1>8. \A s \in Segs : s < snd'.foffs => s < snd.foffs \/ Sent(s)'
  <2>1. CASE snd.fd /\ reads
    <3>1. FileDataPdu(snd, snd.foffs) \in net'
      BY <1>1, <2>1
    <3>2. ASSUME NEW s \in Segs, s = snd.foffs PROVE Sent(s)'
      BY <1>5, <3>1, <3>2 DEF Sent
    <3>3. snd.foffs \in Nat
      BY <1>2, FileSizeAssumption DEF SenderOK, SenderType
    <3>4. \A s \in Segs : s < snd.foffs + 1 => s < snd.foffs \/ s = snd.foffs
      BY <3>3, FileSizeAssumption DEF Segs
    <3> QED
      BY <1>3, <2>1, <3>2, <3>4
  <2>2. CASE ~(snd.fd /\ reads)
    BY <1>3, <2>2
  <2> QED
    BY <2>1, <2>2
<1> QED
  BY <1>3, <1>4, <1>6, <1>7, <1>8, SenderStep

LEMMA S_ReceiveOutcome == FileInv /\ OutcomeInv /\ S_Receive => OutcomeInv'
<1> SUFFICES ASSUME FileInv, OutcomeInv, S_Receive PROVE OutcomeInv'
  OBVIOUS
<1>1. PICK p \in net \cap ToSender : snd' \in S_Recv(snd, p)
  BY DEF S_Receive
<1>2. /\ SenderOK(snd, snd.q, Delivered) /\ S_Conduct(snd, Delivered)
      /\ IsFin(p) /\ p.cc = "NO_ERROR" => Delivered
  BY DEF FileInv, OutcomeInv
<1>3. /\ S_Conduct(snd', Delivered)
      /\ Active(snd') => Active(snd)
      /\ snd'.foffs = snd.foffs
  BY <1>1, <1>2, S_RecvConduct
<1>4. src' = src /\ net' = net /\ UNCHANGED <<rcv, temp, tempfile, dst, created>>
  BY DEF S_Receive
<1>5. Active(snd') => src' = "present"
  BY <1>3, <1>4 DEF OutcomeInv
<1> QED
  BY <1>3, <1>4, <1>5, SenderStep

(* A step that concerns the receiver only, and sends nothing.              *)
LEMMA ReceiverStep ==
  ASSUME OutcomeInv, UNCHANGED <<snd, src, dst, net>>,
         R_Conduct(rcv', temp', tempfile', Delivered, IF R_Exists' THEN Said' ELSE {}),
         created' # 0 \/ (created' = created /\ (R_Exists' <=> R_Exists)),
         Said' \subseteq Said
  PROVE  OutcomeInv'
<1>1. Reports' = Reports /\ Delivered' = Delivered
  BY DEF Reports, Delivered, IsFin
<1>2. \A s : Sent(s)' <=> Sent(s)
  BY DEF Sent
<1>3. (\A x, y \in Said' : x = y) /\ (created' = 0 => ~R_Exists' /\ Reports' = {})
  BY <1>1 DEF OutcomeInv
<1>4. R_Conduct(rcv, temp, tempfile, Delivered, IF R_Exists THEN Said ELSE {})'
  BY <1>1
<1>5. \A p \in net' : IsFin(p) /\ p.cc = "NO_ERROR" => Delivered'
  BY <1>1 DEF OutcomeInv
<1>6. S_Conduct(snd', Delivered') /\ (Active(snd') => src' = "present")
  BY <1>1 DEF OutcomeInv
<1>7. /\ \A s \in Segs : s < snd'.foffs => Sent(s)'
      /\ (\E p \in net' : p.type = "EOF") => \A s \in Segs : Sent(s)'
  BY <1>2 DEF OutcomeInv
<1> QED
  BY <1>3, <1>4, <1>5, <1>6, <1>7 DEF OutcomeInv

LEMMA R_ReceiveOutcome == FileInv /\ OutcomeInv /\ R_Receive => OutcomeInv'
<1> SUFFICES ASSUME FileInv, OutcomeInv, R_Receive PROVE OutcomeInv'
  OBVIOUS
<1>1. PICK p \in net \cap ToReceiver, seeks \in BOOLEAN, writes \in BOOLEAN :
        /\ rcv' \in R_Recv(rcv, p, seeks, writes)
        /\ temp' = IF R_AcceptsFd(rcv, p) /\ R_Stores(rcv, p, seeks, writes)
                     THEN temp \cup {p.offset} ELSE temp
  BY OutcomesOK DEF R_Receive
<1>2. /\ rcv \in ReceiverType /\ R_Exists
      /\ R_Conduct(rcv, temp, tempfile, Delivered, Said)
  BY DEF FileInv, OutcomeInv, ReceiverOK, R_Receive
<1>3. /\ R_Conduct(rcv', temp', tempfile, Delivered, Said)
      /\ rcv'.state = rcv.state
  BY <1>1, <1>2, R_RecvConduct
<1>4. /\ UNCHANGED <<snd, src, dst, net>> /\ tempfile' = tempfile /\ created' = created
  BY DEF R_Receive
<1>5. Said' = Said /\ R_Exists' /\ R_Exists
  BY <1>2, <1>3, <1>4 DEF Said, Reports, IsFin, R_Exists
<1>6. R_Conduct(rcv', temp', tempfile', Delivered, IF R_Exists' THEN Said' ELSE {})
  BY <1>3, <1>4, <1>5
<1>7. Said' \subseteq Said /\ (R_Exists' <=> R_Exists)
  BY <1>5
<1> QED
  BY <1>4, <1>6, <1>7, ReceiverStep

LEMMA R_CreateOutcome == FileInv /\ OutcomeInv /\ R_Create => OutcomeInv'
<1> SUFFICES ASSUME FileInv, OutcomeInv, R_Create PROVE OutcomeInv'
  OBVIOUS
<1>1. PICK p \in net \cap ToReceiver, has_chunks \in Outcomes, creates \in Outcomes,
           seeks \in Outcomes, writes \in Outcomes, status \in HistStatuses,
           held \in RxLists :
        LET t    == SetupRxTransaction(p, status, has_chunks, held, creates)
            kept == IF t.tempfile_created THEN {} ELSE temp
        IN  /\ rcv' \in R_Recv(t, p, seeks, writes)
            /\ tempfile' = (tempfile \/ t.tempfile_created)
            /\ temp' = IF R_AcceptsFd(t, p) /\ R_Stores(t, p, seeks, writes)
                         THEN kept \cup {p.offset} ELSE kept
  BY DEF R_Create
<1> DEFINE t    == SetupRxTransaction(p, status, has_chunks, held, creates)
           kept == IF t.tempfile_created THEN {} ELSE temp
<1>2. {has_chunks, creates, seeks, writes} \subseteq BOOLEAN
  BY OutcomesOK
<1>3. t \in ReceiverType
  BY <1>2, SetupRxTransactionOK, RxListsAssumption, HistStatusesAssumption DEF ReceiverOK
<1>4. NoAbandon /\ tempfile' => t.tempfile_created
  <2>1. ~Active(rcv)
    BY DEF R_Create, R_Exists, Active
  <2> QED
    BY <1>1, <2>1 DEF OutcomeInv, R_Conduct
<1>5. R_Conduct(t, kept, tempfile', Delivered, {})
  <2> HIDE DEF kept
  <2> QED
    BY <1>4, <1>2, SetupRxTransactionConduct, HistStatusesAssumption
<1>6. /\ rcv' \in R_Recv(t, p, seeks, writes)
      /\ temp' = IF R_AcceptsFd(t, p) /\ R_Stores(t, p, seeks, writes)
                   THEN kept \cup {p.offset} ELSE kept
  BY <1>1
<1> HIDE DEF t, kept
<1>7. R_Conduct(rcv', temp', tempfile', Delivered, {})
  BY <1>3, <1>5, <1>6, <1>2, R_RecvConduct
<1>8. /\ UNCHANGED <<snd, src, dst, net>> /\ created' = created + 1 /\ created \in Nat
  BY BoundsAssumption DEF R_Create, FileInv
<1>9. Said' = {}
  <2>1. CASE created = 0
    <3>1. Reports = {}
      BY <2>1 DEF OutcomeInv
    <3>2. Reports' = Reports
      BY <1>8 DEF Reports, IsFin
    <3> QED
      BY <3>1, <3>2 DEF Said
  <2>2. CASE created # 0
    <3>1. created' # 1
      BY <1>8, <2>2
    <3> QED
      BY <3>1 DEF Said
  <2> QED
    BY <2>1, <2>2
<1>10. R_Conduct(rcv', temp', tempfile', Delivered, IF R_Exists' THEN Said' ELSE {})
  BY <1>7, <1>9
<1>11. created' # 0 /\ Said' \subseteq Said
  BY <1>8, <1>9
<1> QED
  BY <1>8, <1>10, <1>11, ReceiverStep

LEMMA R_WakeupOutcome == FileInv /\ FileInv' /\ OutcomeInv /\ R_Wakeup => OutcomeInv'
<1> SUFFICES ASSUME FileInv, FileInv', OutcomeInv, NEW w \in Wakeups, R_WakeupWith(w)
             PROVE  OutcomeInv'
  BY DEF R_Wakeup
<1> DEFINE u == R_Checked(rcv, temp, w)
           sends == R_TickSends(rcv, temp, w)
<1>1. (Delivered => Delivered') /\ (R_Retains(rcv, w) => Delivered')
  BY DEF FileInv, R_WakeupWith, Delivered
<1>2. /\ R_Exists /\ ReceiverOK(rcv, temp, Delivered)
      /\ R_Conduct(rcv, temp, tempfile, Delivered, Said)
  BY DEF FileInv, OutcomeInv, R_WakeupWith
<1>3. u \in ReceiverType /\ R_Conduct(u, temp', tempfile', Delivered', Said)
  <2>1. CASE R_Files(rcv)
    <3>1. ReceiverOK(u, temp, Delivered \/ R_Retains(rcv, w))
      BY <1>2, <2>1, R_CheckedFilesOK
    <3>2. NoAbandon => ~tempfile'
      BY <1>2, <2>1 DEF R_WakeupWith, R_Conduct
    <3>3. R_Conduct(u, temp', tempfile', Delivered', Said)
      BY <1>1, <1>2, <2>1, <3>2, R_CheckedFilesConduct
    <3> QED
      BY <3>1, <3>3 DEF ReceiverOK
  <2>2. CASE ~R_Files(rcv)
    <3>1. u \in ReceiverType
      BY <1>2, <2>2, R_CheckedOK DEF ReceiverOK
    <3>2. R_Conduct(u, temp, tempfile, Delivered, Said)
      BY <1>2, <2>2, R_CheckedConduct
    <3>3. temp' = temp /\ tempfile' = tempfile
      BY <2>2 DEF R_WakeupWith
    <3>4. R_Conduct(u, temp, tempfile, Delivered', Said)
      BY <1>1, <3>2, R_ConductMore
    <3> QED
      BY <3>1, <3>3, <3>4
  <2> QED
    BY <2>1, <2>2
<1>4. rcv' = R_Tick(rcv, temp, w) /\ net' = net \cup sends /\ sends \subseteq R_Due(u)
      /\ UNCHANGED <<snd, src, created>>
  BY DEF R_WakeupWith, R_TickSends
<1> HIDE DEF sends
<1>5. \A p \in sends : /\ p.type \notin {"EOF", "FILEDATA"}
                       /\ IsFin(p) => /\ ~Undecided(u)
                                      /\ <<p.delivery_code, p.file_status>> = Report(u)
                                      /\ p.cc = "NO_ERROR" => Delivered'
  <2> HIDE DEF u
  <2> QED
    BY <1>3, <1>4, R_DueReport
<1>6. \A report \in Said' : report \in Said \/ (~Undecided(u) /\ report = Report(u))
  <2>1. \A report \in Reports' :
          report \in Reports \/ (~Undecided(u) /\ report = Report(u))
    <3> HIDE DEF u
    <3> QED
      BY <1>4, <1>5 DEF Reports, IsFin
  <2> QED
    BY <1>4, <2>1 DEF Said
<1>7. R_Conduct(u, temp', tempfile', Delivered', Said')
  <2> HIDE DEF u
  <2> QED
    BY <1>3, <1>6, R_SaysMore
<1>8. R_Conduct(rcv', temp', tempfile', Delivered', IF R_Exists' THEN Said' ELSE {})
  <2>1. LET v == R_Tick(rcv, temp, w)
        IN  R_Conduct(v, temp', tempfile', Delivered', IF v.state = "UNDEF" THEN {} ELSE Said')
    BY <1>3, <1>7, R_TickConduct
  <2>2. R_Conduct(rcv', temp', tempfile', Delivered',
                  IF rcv'.state = "UNDEF" THEN {} ELSE Said')
    BY <1>4, <2>1
  <2>3. (IF rcv'.state = "UNDEF" THEN {} ELSE Said') = (IF R_Exists' THEN Said' ELSE {})
    BY DEF R_Exists
  <2> QED
    BY <2>2, <2>3
<1>9. \A x, y \in Said' : x = y
  BY <1>7 DEF R_Conduct
<1> HIDE DEF u
<1>10. created' # 0
  BY <1>2, <1>4 DEF OutcomeInv
<1>11. /\ \A s \in Segs : s < snd'.foffs => Sent(s)'
       /\ (\E p \in net' : p.type = "EOF") => \A s \in Segs : Sent(s)'
  <2>1. \A s : Sent(s) => Sent(s)'
    BY <1>4 DEF Sent
  <2>2. \A p \in net' : p.type = "EOF" => p \in net
    BY <1>4, <1>5
  <2> QED
    BY <1>4, <2>1, <2>2 DEF OutcomeInv
<1>12. \A p \in net' : IsFin(p) /\ p.cc = "NO_ERROR" => Delivered'
  BY <1>1, <1>4, <1>5 DEF OutcomeInv, IsFin
<1>13. S_Conduct(snd', Delivered') /\ (Active(snd') => src' = "present")
  BY <1>1, <1>4 DEF OutcomeInv, S_Conduct
<1> QED
  BY <1>8, <1>9, <1>10, <1>11, <1>12, <1>13 DEF OutcomeInv

LEMMA S_CommandOutcome ==
  FileInv /\ OutcomeInv /\ (S_Cancel \/ S_Abandon \/ S_Suspend \/ S_Resume) => OutcomeInv'
<1> SUFFICES ASSUME FileInv, OutcomeInv, S_Cancel \/ S_Abandon \/ S_Suspend \/ S_Resume
             PROVE  OutcomeInv'
  OBVIOUS
<1>1. snd \in SenderType /\ S_Conduct(snd, Delivered) /\ (Active(snd) => src = "present")
  BY DEF FileInv, OutcomeInv, SenderOK
<1>2. ASSUME NEW name, NEW t, S_Command(name, t), S_Conduct(t, Delivered),
             Active(t) => Active(snd), t.foffs = snd.foffs
      PROVE  OutcomeInv'
  <2>1. /\ UNCHANGED <<rcv, temp, tempfile, dst, created, src, net>> /\ snd' = t
    BY <1>2 DEF S_Command, Command
  <2>2. Active(snd') => src' = "present"
    BY <1>1, <1>2, <2>1
  <2> QED
    BY <1>2, <2>1, <2>2, SenderStep
<1>3. CASE S_Cancel
  BY <1>1, <1>2, <1>3, S_CancelConduct DEF S_Cancel
<1>4. CASE S_Abandon
  <2>1. ~NoAbandon
    BY <1>4 DEF S_Abandon, S_Command, Command, NoAbandon
  <2> QED
    BY <1>1, <1>2, <1>4, <2>1, S_FinishConduct DEF S_Abandon
<1>5. \A b \in BOOLEAN : LET t == [snd EXCEPT !.suspended = b]
                         IN  /\ S_Conduct(t, Delivered)
                             /\ Active(t) => Active(snd)
                             /\ t.foffs = snd.foffs
  <2> SUFFICES ASSUME NEW b \in BOOLEAN
               PROVE  S_Same(snd, [snd EXCEPT !.suspended = b])
    BY <1>1, S_SameConduct DEF S_Same, Active
  <2> QED
    BY <1>1 DEF SenderType, S_Same, TxnIsOK
<1>6. CASE S_Suspend
  BY <1>2, <1>5, <1>6 DEF S_Suspend
<1>7. CASE S_Resume
  BY <1>2, <1>5, <1>7 DEF S_Resume
<1> QED
  BY <1>3, <1>4, <1>6, <1>7

LEMMA R_CommandOutcome ==
  FileInv /\ OutcomeInv /\ (R_Cancel \/ R_Abandon \/ R_Suspend \/ R_Resume) => OutcomeInv'
<1> SUFFICES ASSUME FileInv, OutcomeInv, R_Cancel \/ R_Abandon \/ R_Suspend \/ R_Resume
             PROVE  OutcomeInv'
  OBVIOUS
<1>1. /\ rcv \in ReceiverType
      /\ R_Exists => R_Conduct(rcv, temp, tempfile, Delivered, Said)
  BY DEF FileInv, OutcomeInv, ReceiverOK
<1>2. ASSUME NEW name, NEW t, R_Command(name, t),
             R_Conduct(t, temp, tempfile, Delivered, Said), t.state # "UNDEF"
      PROVE  OutcomeInv'
  <2>1. /\ UNCHANGED <<snd, src, dst, net, temp, tempfile, created>>
        /\ rcv' = t /\ R_Exists
    BY <1>2 DEF R_Command, Command
  <2>2. Said' = Said /\ R_Exists'
    BY <1>2, <2>1 DEF Said, Reports, IsFin, R_Exists
  <2>3. R_Conduct(rcv', temp', tempfile', Delivered, IF R_Exists' THEN Said' ELSE {})
    BY <1>2, <2>1, <2>2
  <2>4. Said' \subseteq Said /\ (R_Exists' <=> R_Exists)
    BY <2>1, <2>2
  <2> QED
    BY <2>1, <2>3, <2>4, ReceiverStep
<1>3. CASE R_Cancel
  <2>1. R_Exists
    BY <1>3 DEF R_Cancel, R_Command
  <2> QED
    BY <1>1, <1>2, <1>3, <2>1, R_CancelConduct DEF R_Cancel, R_Exists
<1>4. CASE R_Abandon
  <2>1. R_Exists /\ ~NoAbandon
    BY <1>4 DEF R_Abandon, R_Command, Command, NoAbandon
  <2> QED
    BY <1>1, <1>2, <1>4, <2>1, R_FinishConduct DEF R_Abandon
<1>5. \A b \in BOOLEAN : LET t == [rcv EXCEPT !.suspended = b]
                         IN  R_Exists => /\ R_Conduct(t, temp, tempfile, Delivered, Said)
                                         /\ t.state # "UNDEF"
  <2> SUFFICES ASSUME NEW b \in BOOLEAN
               PROVE  R_Same(rcv, [rcv EXCEPT !.suspended = b])
    BY <1>1, R_SameConduct DEF R_Same, R_Exists
  <2> QED
    BY <1>1 DEF ReceiverType, R_Same, TxnIsOK
<1>6. CASE R_Suspend
  BY <1>2, <1>5, <1>6 DEF R_Suspend, R_Command
<1>7. CASE R_Resume
  BY <1>2, <1>5, <1>7 DEF R_Resume, R_Command
<1> QED
  BY <1>3, <1>4, <1>6, <1>7

LEMMA OutcomeNext == FileInv /\ FileInv' /\ OutcomeInv /\ [Next]_vars => OutcomeInv'
<1>1. FileInv /\ OutcomeInv /\ UNCHANGED vars => OutcomeInv'
  <2> SUFFICES ASSUME OutcomeInv, UNCHANGED vars PROVE OutcomeInv'
    OBVIOUS
  <2>1. snd' = snd /\ src' = src /\ net' = net /\ UNCHANGED <<rcv, temp, tempfile, dst, created>>
    BY DEF vars
  <2>2. S_Conduct(snd', Delivered) /\ (Active(snd') => src' = "present")
    BY <2>1 DEF OutcomeInv
  <2> QED
    BY <2>1, <2>2, SenderStep
<1> QED
  BY <1>1, S_StartOutcome, S_WakeupOutcome, S_AnswerNakOutcome, S_NewDataOutcome,
     S_ReceiveOutcome, R_ReceiveOutcome, R_CreateOutcome, R_WakeupOutcome,
     S_CommandOutcome, R_CommandOutcome DEF Next

-------------------------------------------------------------------------------

(* Both transactions conduct themselves as they should, and what they told *)
(* each other is true.                                                     *)
THEOREM OutcomeInvariant == Spec => []OutcomeInv
<1>1. Init => OutcomeInv
  BY OutcomeInit
<1>2. FileInv /\ FileInv' /\ OutcomeInv /\ [Next]_vars => OutcomeInv'
  BY OutcomeNext
<1> QED
  BY <1>1, <1>2, Invariant, PTL DEF Spec

(* No EOF is sent before every segment of the file was sent.               *)
THEOREM EofComesLast == Spec => []EofFollowsAllData
<1>1. OutcomeInv => EofFollowsAllData
  BY DEF OutcomeInv, EofFollowsAllData, Sent
<1> QED
  BY <1>1, OutcomeInvariant, PTL

(* A sender that ends without an error has delivered its file.             *)
THEOREM SuccessIsDelivery == Spec => []SuccessMeansDelivered
<1>1. OutcomeInv => SuccessMeansDelivered
  BY DEF OutcomeInv, S_Conduct, SuccessMeansDelivered, Delivered
<1> QED
  BY <1>1, OutcomeInvariant, PTL

(* All FINs of a receive transaction report the same outcome.              *)
THEOREM FinsNeverDisagree == Spec => []FinsAgree
<1>1. OutcomeInv => FinsAgree
  <2> SUFFICES ASSUME OutcomeInv, created = 1, NEW p \in net, NEW q \in net,
                      IsFin(p), IsFin(q)
               PROVE  p.delivery_code = q.delivery_code /\ p.file_status = q.file_status
    BY DEF FinsAgree, IsFin
  <2>1. /\ <<p.delivery_code, p.file_status>> \in Said
        /\ <<q.delivery_code, q.file_status>> \in Said
    BY DEF Said, Reports
  <2>2. <<p.delivery_code, p.file_status>> = <<q.delivery_code, q.file_status>>
    BY <2>1 DEF OutcomeInv
  <2> QED
    BY <2>2
<1> QED
  BY <1>1, OutcomeInvariant, PTL

(* A receiver whose chunk list came to it empty takes its file for         *)
(* complete only when every segment was written.                           *)
THEOREM CompleteIsWritten == ListsComeEmpty => (Spec => []CompleteMeansWritten)
<1> SUFFICES ASSUME ListsComeEmpty PROVE Spec => []CompleteMeansWritten
  OBVIOUS
<1>1. OutcomeInv => CompleteMeansWritten
  BY DEF OutcomeInv, R_Conduct, CompleteMeansWritten
<1> QED
  BY <1>1, OutcomeInvariant, PTL

(* Unless a transaction is abandoned, no open file and no temporary file   *)
(* outlives the work on it.                                                *)
THEOREM NothingRemains == NoAbandon => (Spec => []NothingLeftBehind)
<1> SUFFICES ASSUME NoAbandon PROVE Spec => []NothingLeftBehind
  OBVIOUS
<1>1. OutcomeInv => NothingLeftBehind
  BY DEF OutcomeInv, S_Conduct, R_Conduct, NothingLeftBehind, R_Exists, Active
<1> QED
  BY <1>1, OutcomeInvariant, PTL

(* From its cancellation on, a transaction neither removes or moves away   *)
(* its source, nor puts a file in place.                                   *)
THEOREM CancelIsRespected == Spec => CancelledLeavesFilesAlone
<1> DEFINE Alone == /\ snd.canceled => src' \in {src, "in_fail_dir"}
                    /\ rcv.canceled => dst' = dst
<1>1. ASSUME FileInv, OutcomeInv, NEW w \in Wakeups, S_WakeupWith(w)
      PROVE  Alone
  <2> DEFINE u == S_InactivityTick(snd, w)
  <2>1. snd.canceled => ~TxnIsOK(u)
    <3>1. S_Same(snd, u)
      BY <1>1, S_InactivityTickSame DEF FileInv, SenderOK
    <3> HIDE DEF u
    <3> QED
      BY <1>1, <3>1 DEF OutcomeInv, S_Conduct, S_Same
  <2>2. S_Files(snd) => src = "present"
    BY <1>1 DEF OutcomeInv, S_Files
  <2>3. snd.canceled => S_HandleFileRetention(u) \in {"in_fail_dir", "present"}
    BY <2>1 DEF S_HandleFileRetention
  <2> QED
    BY <1>1, <2>2, <2>3 DEF S_WakeupWith
<1>2. ASSUME FileInv, OutcomeInv, NEW w \in Wakeups, R_WakeupWith(w)
      PROVE  Alone
  <2> DEFINE u == R_InactivityTick(rcv, w)
  <2>1. rcv.canceled => ~TxnIsOK(u)
    <3>1. R_Same(rcv, u)
      BY <1>2, R_InactivityTickSame DEF FileInv, ReceiverOK
    <3> HIDE DEF u
    <3> QED
      BY <1>2, <3>1 DEF OutcomeInv, R_Conduct, R_Same
  <2>2. rcv.canceled => ~R_Retains(rcv, w)
    BY <2>1 DEF R_Retains, R_Moves
  <2> QED
    BY <1>2, <2>2 DEF R_WakeupWith
<1>3. FileInv /\ OutcomeInv /\ [Next]_vars => [Alone]_vars
  <2> SUFFICES ASSUME FileInv, OutcomeInv, Next PROVE Alone
    OBVIOUS
  <2>1. CASE S_Wakeup
    BY <1>1, <2>1 DEF S_Wakeup
  <2>2. CASE R_Wakeup
    BY <1>2, <2>2 DEF R_Wakeup
  <2>3. CASE ~S_Wakeup /\ ~R_Wakeup
    <3>1. src' = src /\ dst' = dst
      BY <2>3 DEF Next, S_Start, S_AnswerNak, S_NewData, S_Receive, R_Receive, R_Create,
         S_Cancel, S_Abandon, S_Suspend, S_Resume, S_Command,
         R_Cancel, R_Abandon, R_Suspend, R_Resume, R_Command, Command
    <3> QED
      BY <3>1
  <2> QED
    BY <2>1, <2>2, <2>3
<1> QED
  BY <1>3, Invariant, OutcomeInvariant, PTL DEF Spec, CancelledLeavesFilesAlone

-------------------------------------------------------------------------------
(* The promises of CF_Delivery.  What a step of the engine leaves of the   *)
(* phase of a sender: who cancelled it, and that a transaction in HOLD     *)
(* stays there and forgets no error.                                       *)

S_Keeps(t, u) ==
  /\ (u.q = "FREE") = (t.q = "FREE")
  /\ u.canceled = t.canceled
  /\ t.state = "HOLD" => /\ u.state = "HOLD" /\ u.is_complete = t.is_complete
                         /\ TxnIsOK(u) => TxnIsOK(t)

LEMMA S_SameKeeps ==
  ASSUME NEW t, NEW u, S_Same(t, u)
  PROVE  S_Keeps(t, u)
BY DEF S_Same, S_Keeps

S_Marked(t, u) == u.q = t.q /\ u.canceled = t.canceled

LEMMA S_StatusMarked ==
  ASSUME NEW t \in SenderType, NEW st
  PROVE  S_Marked(t, SetTxnStatus(t, st))
BY S_StatusSame DEF S_Same, S_Marked

LEMMA S_EnterMarked ==
  ASSUME NEW t \in SenderType, NEW next
  PROVE  S_Marked(t, S_Enter(t, next))
<1> DEFINE u == [t EXCEPT !.sub_state = next, !.ack_timer_armed = FALSE]
<1>1. u.q = t.q /\ u.canceled = t.canceled
  BY DEF SenderType
<1>2. DOMAIN u = DOMAIN t
  OBVIOUS
<1>3. /\ S_Marked(t, [u EXCEPT !.acknak_count = 0, !.send_eof = TRUE])
      /\ S_Marked(t, [u EXCEPT !.fd = FALSE, !.state = "HOLD"])
      /\ S_Marked(t, u)
  BY <1>1, <1>2 DEF SenderType, S_Marked
<1> QED
  BY <1>3 DEF S_Enter, FinishTransaction

LEMMA S_CompletedMarked ==
  ASSUME NEW t \in SenderType
  PROVE  S_Marked(t, S_Completed(t))
<1> DEFINE u == [t EXCEPT !.is_complete = TRUE]
<1>1. u \in SenderType /\ S_Marked(t, u)
  BY DEF SenderType, S_Marked
<1> HIDE DEF u
<1>2. S_Marked(u, S_Enter(u, "FILESTORE"))
  BY <1>1, S_EnterMarked
<1> QED
  BY <1>1, <1>2 DEF S_Completed, S_Marked, u

LEMMA S_CheckStateMarked ==
  ASSUME NEW t \in SenderType
  PROVE  S_Marked(t, S_CheckState(t))
<1>1. S_Marked(t, t)
  BY DEF S_Marked
<1>2. \A next : S_Marked(t, S_Enter(t, next))
  BY S_EnterMarked
<1>3. S_Marked(t, S_CheckState_DATA_NORMAL(t))
  BY <1>1, <1>2 DEF S_CheckState_DATA_NORMAL
<1>4. S_Marked(t, S1_CheckState_DATA_EOF(t))
  <2> DEFINE u == [t EXCEPT !.fin_dc = "UNREPORTED"]
  <2>1. u \in SenderType /\ S_Marked(t, u)
    BY DEF SenderType, S_Marked, DeliveryCodes
  <2> HIDE DEF u
  <2>2. S_Marked(t, S_Completed(u))
    BY <2>1, S_CompletedMarked DEF S_Marked
  <2> QED
    BY <1>1, <2>2, S_CompletedMarked DEF S1_CheckState_DATA_EOF, u
<1>5. S_Marked(t, S2_CheckState_DATA_EOF(t))
  <2> DEFINE u == SetTxnStatus(t, "NAK_LIMIT_REACHED")
             v == [t EXCEPT !.acknak_count = @ + 1, !.send_eof = TRUE]
  <2>1. u \in SenderType
    BY Statuses DEF SetTxnStatus, SenderType
  <2>2. S_Marked(t, S_Enter(u, "FILESTORE"))
    <3>1. S_Marked(t, u)
      BY S_StatusMarked
    <3> HIDE DEF u
    <3> QED
      BY <2>1, <3>1, S_EnterMarked DEF S_Marked
  <2>3. S_Marked(t, v)
    BY DEF SenderType, S_Marked
  <2> HIDE DEF u, v
  <2> QED
    BY <1>1, <1>2, <2>2, <2>3, S_CompletedMarked DEF S2_CheckState_DATA_EOF, u, v
<1> QED
  BY <1>1, <1>2, <1>3, <1>4, <1>5 DEF S_CheckState, S_CheckState_DATA_EOF

LEMMA S_TickKeeps ==
  ASSUME NEW delivered, NEW t, SenderOK(t, "TX", delivered), NEW w
  PROVE  S_Tick(t, w) = S_Recycled \/ S_Keeps(t, S_Tick(t, w))
<1> DEFINE u == S_InactivityTick(t, w)
           x == S_AckTimerTick(u, w)
           y == S_Checked(t, w)
           v == IF w.blocked THEN y ELSE S_Sent(y)
<1>1. u \in SenderType /\ S_Same(t, u) /\ t \in SenderType
  BY S_InactivityTickOK, S_InactivityTickSame DEF SenderOK
<1>2. y \in SenderType
  BY S_CheckedOK DEF SenderOK
<1> HIDE DEF u
<1>3. x \in SenderType /\ S_Same(u, x)
  <2>1. [u EXCEPT !.ack_timer_armed = FALSE] \in SenderType
    BY <1>1, ZenonT(60) DEF SenderType
  <2> QED
    BY <1>1, <2>1, S_AckTimerTickSame DEF S_AckTimerTick
<1> HIDE DEF x
<1>4. S_Marked(x, S_CheckState(x))
  BY <1>3, S_CheckStateMarked
<1>5. y = IF Active(t) THEN S_CheckState(x) ELSE u
  BY DEF S_Checked, x, u
<1>6. S_Keeps(t, y)
  <2>1. CASE Active(t)
    BY <1>1, <1>3, <1>4, <1>5, <2>1 DEF S_Same, S_Marked, S_Keeps, Active
  <2>2. CASE ~Active(t)
    BY <1>1, <1>5, <2>2, S_SameKeeps
  <2> QED
    BY <2>1, <2>2
<1> HIDE DEF y
<1>7. S_Same(y, S_Sent(y)) /\ S_Same(y, y)
  BY <1>2, S_SentSame DEF S_Same
<1>8. S_Keeps(t, v)
  <2>1. S_Same(y, v)
    BY <1>7
  <2> HIDE DEF v
  <2> QED
    BY <1>6, <2>1 DEF S_Same, S_Keeps
<1>9. S_Tick(t, w) \in {S_Recycled, v}
  BY DEF S_Tick, y, v
<1> QED
  BY <1>8, <1>9

(* The tick that disposes of the source file is the one that ends.         *)
LEMMA S_FilesTick ==
  ASSUME NEW delivered, NEW t, SenderOK(t, "TX", delivered), NEW w, S_Files(t)
  PROVE  LET u == S_InactivityTick(t, w)
             v == S_Tick(t, w)
         IN  \/ v = S_Recycled
             \/ /\ v.q = "TX" /\ v.state = "HOLD" /\ v.is_complete = u.is_complete
                /\ v.txn_stat = u.txn_stat
<1> DEFINE u == S_InactivityTick(t, w)
           x == S_AckTimerTick(u, w)
           y == [x EXCEPT !.sub_state = "COMPLETE", !.ack_timer_armed = FALSE]
           z == [y EXCEPT !.fd = FALSE, !.state = "HOLD"]
           v == IF w.blocked THEN z ELSE S_Sent(z)
<1>1. u \in SenderType /\ S_Same(t, u) /\ t \in SenderType /\ t.q = "TX"
  BY S_InactivityTickOK, S_InactivityTickSame DEF SenderOK
<1> HIDE DEF u
<1>2. /\ x \in SenderType /\ x.q = u.q /\ x.sub_state = u.sub_state
      /\ x.is_complete = u.is_complete /\ x.txn_stat = u.txn_stat
  <2> DEFINE uu == [u EXCEPT !.ack_timer_armed = FALSE]
  <2>1. /\ uu \in SenderType
    BY <1>1, ZenonT(60) DEF SenderType
  <2>2. /\ uu.q = u.q /\ uu.sub_state = u.sub_state
        /\ uu.is_complete = u.is_complete /\ uu.txn_stat = u.txn_stat
    BY <1>1 DEF SenderType
  <2> HIDE DEF uu
  <2> QED
    BY <1>1, <2>1, <2>2 DEF S_AckTimerTick, uu
<1>3. S_Checked(t, w) = z
  <2>1. S_Checked(t, w) = S_CheckState(x) /\ x.sub_state = "FILESTORE"
    BY <1>1, <1>2 DEF S_Checked, S_Files, S_Same, x, u
  <2> HIDE DEF x
  <2> QED
    BY <2>1 DEF S_CheckState, S_Enter, FinishTransaction
<1> HIDE DEF x
<1>4. /\ z \in SenderType /\ z.q = "TX" /\ z.state = "HOLD"
      /\ z.is_complete = u.is_complete /\ z.txn_stat = u.txn_stat
  <2>1. y \in SenderType
    BY <1>2, ZenonT(60) DEF SenderType, TxSubStates
  <2>2. y.q = x.q /\ y.is_complete = x.is_complete /\ y.txn_stat = x.txn_stat
    BY <1>2 DEF SenderType
  <2> HIDE DEF y
  <2>3. z \in SenderType
    BY <2>1, ZenonT(60) DEF SenderType
  <2>4. /\ z.q = y.q /\ z.state = "HOLD" /\ z.is_complete = y.is_complete
        /\ z.txn_stat = y.txn_stat
    BY <2>1 DEF SenderType
  <2> QED
    BY <1>1, <1>2, <2>2, <2>3, <2>4 DEF S_Same
<1> HIDE DEF z
<1>5. /\ S_Sent(z).q = z.q /\ S_Sent(z).state = z.state
      /\ S_Sent(z).is_complete = z.is_complete /\ S_Sent(z).txn_stat = z.txn_stat
  BY <1>4 DEF S_Sent, SenderType
<1>6. S_Tick(t, w) \in {S_Recycled, v}
  BY <1>3 DEF S_Tick
<1> QED
  BY <1>4, <1>5, <1>6 DEF u

LEMMA S_NakKeeps ==
  ASSUME NEW t \in SenderType, NEW reads \in BOOLEAN
  PROVE  S_Keeps(t, S_Tick_Nak(t, reads))
BY S_Tick_NakSame, S_SameKeeps

LEMMA S_DataKeeps ==
  ASSUME NEW t \in SenderType, NEW reads \in BOOLEAN
  PROVE  S_Keeps(t, S_SubstateSendFileData(t, reads))
<1>1. S_Keeps(t, [t EXCEPT !.foffs = @ + 1])
  BY DEF SenderType, S_Keeps, TxnIsOK
<1>2. S_Keeps(t, SetTxnStatus(t, "READ_FAILURE"))
  BY S_StatusSame, S_SameKeeps
<1> QED
  BY <1>1, <1>2 DEF S_SubstateSendFileData

LEMMA S_FinKeeps ==
  ASSUME NEW t \in SenderType, NEW p \in Fin
  PROVE  S_Keeps(t, S_RecvFin(t, p))
<1> DEFINE x == [t EXCEPT !.fin_dc = p.delivery_code, !.fin_fs = p.file_status]
           y == SetTxnStatus(x, p.cc)
           u == IF t.fin_count # 0 THEN t ELSE y
           v == [u EXCEPT !.fin_count = @ + 1]
           z == SetTxnStatus(u, "POS_ACK_LIMIT_REACHED")
<1>1. x \in SenderType /\ S_Same(t, x)
  BY DEF SenderType, Fin, S_Same, TxnIsOK
<1> HIDE DEF x
<1>2. y \in SenderType /\ S_Same(x, y)
  <2>1. p.cc \in TxnStatuses
    BY Statuses DEF Fin
  <2>2. y \in SenderType
    BY <1>1, <2>1 DEF SetTxnStatus, SenderType
  <2> QED
    BY <1>1, <2>2, S_StatusSame
<1> HIDE DEF y
<1>3. u \in SenderType /\ S_Keeps(t, u)
  <2>1. S_Keeps(t, t)
    BY DEF S_Keeps
  <2>2. S_Keeps(t, y)
    BY <1>1, <1>2, S_SameTrans, S_SameKeeps
  <2> QED
    BY <1>2, <2>1, <2>2
<1> HIDE DEF u
<1>4. S_Keeps(u, v)
  BY <1>3 DEF SenderType, S_Keeps, TxnIsOK
<1>5. S_Keeps(u, z)
  BY <1>3, S_StatusSame, S_SameKeeps
<1> HIDE DEF v, z
<1>6. S_Keeps(t, v) /\ S_Keeps(t, z)
  BY <1>3, <1>4, <1>5 DEF S_Keeps
<1>7. S_RecvFin(t, p) \in {v, z}
  BY DEF S_RecvFin, u, v, x, y, z
<1> QED
  BY <1>6, <1>7

LEMMA S_RecvKeeps ==
  ASSUME NEW t \in SenderType, NEW p \in ToSender, NEW v \in S_Recv(t, p)
  PROVE  S_Keeps(t, v)
<1>1. p.type = "FIN" => p \in Fin
  BY DEF ToSender, Fin, Nak, Ack
<1>2. S_Keeps(t, t)
  BY DEF S_Keeps
<1>3. p.type = "FIN" => S_Keeps(t, S_RecvFin(t, p))
  BY <1>1, S_FinKeeps
<1>4. p.type = "FIN" => S_Keeps(t, S_RecvEarlyFin(t, p))
  <2> DEFINE u == SetTxnStatus(t, "EARLY_FIN")
  <2>1. u \in SenderType /\ S_Keeps(t, u)
    BY S_StatusSame, S_SameKeeps, Statuses DEF SetTxnStatus, SenderType
  <2> HIDE DEF u
  <2>2. p.type = "FIN" => S_Keeps(u, S_RecvFin(u, p))
    BY <1>1, <2>1, S_FinKeeps
  <2> QED
    BY <2>1, <2>2 DEF S_RecvEarlyFin, S_Keeps, u
<1>5. ASSUME NEW x \in S2_RecvNak(t, p) PROVE S_Keeps(t, x)
  <2>1. PICK c \in ChunksAfterNak(t.chunks, p.segments) :
          x = [t EXCEPT !.send_md = @ \/ p.metadata,
                        !.fd_nak_pending = @ \/ p.segments # {},
                        !.chunks = c]
    BY DEF S2_RecvNak
  <2> QED
    BY <2>1 DEF SenderType, S_Keeps, TxnIsOK
<1>6. S_Keeps(t, S2_RecvEofAck(t, p))
  <2>1. S_Keeps(t, [t EXCEPT !.eof_ack_recv = TRUE])
    BY DEF SenderType, S_Keeps, TxnIsOK
  <2> QED
    BY <1>2, <2>1 DEF S2_RecvEofAck
<1> QED
  BY <1>2, <1>3, <1>4, <1>5, <1>6 DEF S_Recv

(***************************************************************************)
(* A step of a sender: it is recycled, or it keeps what it knows of its    *)
(* outcome, unless it is cancelled.                                        *)
(***************************************************************************)
S_Moves(t, u) ==
  \/ u.q = "FREE"
  \/ /\ t.q # "FREE" /\ u.q # "FREE"
     /\ t.canceled => u.canceled
     /\ t.state = "HOLD" => /\ u.state = "HOLD" /\ u.is_complete = t.is_complete
                            /\ TxnIsOK(u) => TxnIsOK(t)

LEMMA S_KeepsMoves ==
  ASSUME NEW t, NEW u, S_Keeps(t, u)
  PROVE  S_Moves(t, u)
BY DEF S_Keeps, S_Moves

LEMMA S_StartMoves ==
  ASSUME NEW t \in SenderType, NEW has_chunks, NEW opens, t.q = "PEND"
  PROVE  S_Moves(t, SetupTxTransaction(t, has_chunks, opens))
<1> DEFINE u == AllocChunkList(t, has_chunks)
           x == [u EXCEPT !.fd = TRUE, !.fsize = FileSize, !.send_md = TRUE]
           z == SetTxnStatus(u, "FILESTORE_REJECTION")
           y == [x EXCEPT !.q = "TX"]
<1>1. u \in SenderType /\ S_Same(t, u)
  <2>1. SetTxnStatus(t, "NO_RESOURCE") \in SenderType
    BY Statuses DEF SetTxnStatus, SenderType
  <2>2. S_Same(t, t)
    BY DEF S_Same
  <2> QED
    BY <2>1, <2>2, S_StatusSame DEF AllocChunkList
<1> HIDE DEF u
<1>2. /\ y.q = "TX" /\ y.state = u.state /\ y.is_complete = u.is_complete
      /\ y.txn_stat = u.txn_stat /\ y.canceled = u.canceled
  BY <1>1 DEF SenderType
<1>3. ~TxnIsOK(z) /\ (TxnIsOK(x) <=> TxnIsOK(u))
  BY <1>1, S_ErrorSticks DEF SenderType, TxnIsOK
<1> HIDE DEF x, y, z
<1>4. S_Moves(t, y)
  BY <1>1, <1>2 DEF S_Same, S_Moves, TxnIsOK
<1>5. S_Moves(t, S_Recycled)
  <2>1. S_Recycled.q = "FREE"
    BY DEF S_Recycled, S_Pending
  <2> QED
    BY <2>1 DEF S_Moves
<1>6. SetupTxTransaction(t, has_chunks, opens) \in {S_Recycled, y}
  BY <1>3 DEF SetupTxTransaction, S_Init, u, x, y, z
<1> QED
  BY <1>4, <1>5, <1>6

LEMMA S_CancelMoves ==
  ASSUME NEW t \in SenderType, t.q # "FREE"
  PROVE  S_Moves(t, CancelTransaction(t))
<1> DEFINE u == [t EXCEPT !.canceled = TRUE]
           v == SetTxnStatus(u, "CANCEL_REQUEST_RECEIVED")
<1>1. /\ u \in SenderType /\ u.q = t.q /\ u.state = t.state
      /\ u.is_complete = t.is_complete /\ u.txn_stat = t.txn_stat /\ u.canceled
  BY DEF SenderType
<1> HIDE DEF u
<1>2. S_Same(u, v)
  BY <1>1, S_StatusSame
<1> HIDE DEF v
<1>3. S_Moves(t, v) /\ S_Moves(t, t)
  BY <1>1, <1>2 DEF S_Same, S_Moves, TxnIsOK
<1> QED
  BY <1>3 DEF CancelTransaction, u, v

LEMMA S_FinishMoves ==
  ASSUME NEW t \in SenderType, t.q # "FREE"
  PROVE  S_Moves(t, FinishTransaction(t))
<1> DEFINE u == FinishTransaction(t)
<1>1. /\ u.q = t.q /\ u.state = "HOLD" /\ u.is_complete = t.is_complete
      /\ u.txn_stat = t.txn_stat /\ u.canceled = t.canceled
  BY DEF SenderType, FinishTransaction
<1> HIDE DEF u
<1>2. S_Moves(t, u)
  BY <1>1 DEF S_Moves, TxnIsOK
<1> QED
  BY <1>2 DEF u

(***************************************************************************)
(* Such a step, if it leaves the files and the receiver alone, is a step   *)
(* of CF_Delivery or changes nothing there: an open transfer ends with a   *)
(* success only if that was confirmed, and a cancelled one never does.     *)
(***************************************************************************)
LEMMA SenderDelivers ==
  ASSUME S_Conduct(snd', Delivered), S_Moves(snd, snd'),
         UNCHANGED <<src, dst, rcv, created>>, R_Reports' = R_Reports
  PROVE  [Delivery!Next]_(Delivery!vars)
<1> DEFINE a == S_Phase(snd)
           b == S_Phase(snd')
<1>1. /\ snd'.canceled => ~TxnIsOK(snd')
      /\ snd'.is_complete /\ (Reliable \/ CloseReq) /\ TxnIsOK(snd') => dst = "good"
  BY DEF S_Conduct, Delivered
<1>2. a \in {"open", "cancelled", "success", "failure", "over"}
  BY DEF S_Phase
<1>3. b \in {"open", "cancelled", "success", "failure", "over"}
  BY DEF S_Phase
<1>4. \/ b = a
      \/ a = "open" /\ b = "cancelled"
      \/ a = "open" /\ b = "success" /\ (Reliable \/ CloseReq => dst = "good")
      \/ a \in {"open", "cancelled"} /\ b \in {"failure", "over"}
      \/ a = "success" /\ b = "failure"
      \/ a \in {"success", "failure"} /\ b = "over"
  <2>1. CASE snd'.q = "FREE"
    <3>1. b = "over"
      BY <2>1 DEF S_Phase
    <3> QED
      BY <1>2, <3>1
  <2>2. CASE snd'.q # "FREE" /\ snd.q # "FREE"
    <3>1. a = IF snd.state = "HOLD"
                THEN IF snd.is_complete /\ TxnIsOK(snd) THEN "success" ELSE "failure"
                ELSE IF snd.canceled THEN "cancelled" ELSE "open"
      BY <2>2 DEF S_Phase
    <3>2. b = IF snd'.state = "HOLD"
                THEN IF snd'.is_complete /\ TxnIsOK(snd') THEN "success" ELSE "failure"
                ELSE IF snd'.canceled THEN "cancelled" ELSE "open"
      BY <2>2 DEF S_Phase
    <3> HIDE DEF a, b
    <3> QED
      BY <1>1, <2>2, <3>1, <3>2 DEF S_Moves
  <2> QED
    BY <2>1, <2>2 DEF S_Moves
<1>5. R_Phase(rcv') = R_Phase(rcv)
  OBVIOUS
<1> QED
  BY <1>4, <1>5 DEF Delivery!Next, Delivery!vars, Delivery!Cancel, Delivery!Succeed,
     Delivery!Fail, Delivery!Spoil, Delivery!Forget, Delivery!SourceGoesTo

(* The tick that disposes of the source file ends the transfer, with the   *)
(* outcome that the file shows.                                            *)
LEMMA FilesDelivers ==
  ASSUME FileInv, OutcomeInv, NEW w \in Wakeups, S_WakeupWith(w), S_Files(snd),
         R_Reports' = R_Reports
  PROVE  [Delivery!Next]_(Delivery!vars)
<1> DEFINE u == S_InactivityTick(snd, w)
           a == S_Phase(snd)
           b == S_Phase(snd')
<1>1. /\ SenderOK(snd, "TX", Delivered) /\ S_Conduct(snd, Delivered)
      /\ src = "present"
  BY DEF FileInv, OutcomeInv, S_WakeupWith, S_Files
<1>2. S_Same(snd, u)
  BY <1>1, S_InactivityTickSame DEF SenderOK
<1>3. /\ u.canceled = snd.canceled
      /\ snd.canceled => ~TxnIsOK(u)
      /\ u.is_complete /\ TxnIsOK(u) /\ (Reliable \/ CloseReq) => dst = "good"
  BY <1>1, <1>2 DEF S_Same, S_Conduct, Delivered
<1>4. \/ snd' = S_Recycled
      \/ /\ snd'.q = "TX" /\ snd'.state = "HOLD" /\ snd'.is_complete = u.is_complete
         /\ snd'.txn_stat = u.txn_stat
  BY <1>1, S_FilesTick DEF S_WakeupWith
<1>5. src' = IF w.works THEN S_HandleFileRetention(u) ELSE src
  BY DEF S_WakeupWith
<1> HIDE DEF u
<1>6. a = IF snd.canceled THEN "cancelled" ELSE "open"
  <2>1. snd.q # "FREE" /\ snd.state # "HOLD"
    BY <1>1 DEF S_Files, Active, SenderOK
  <2> QED
    BY <2>1 DEF S_Phase
<1>7. b \in {"over", IF u.is_complete /\ TxnIsOK(u) THEN "success" ELSE "failure"}
  <2>1. CASE snd' = S_Recycled
    <3>1. snd'.q = "FREE"
      BY <2>1 DEF S_Recycled, S_Pending
    <3> QED
      BY <3>1 DEF S_Phase
  <2>2. CASE snd' # S_Recycled
    <3>1. /\ snd'.q # "FREE" /\ snd'.state = "HOLD"
          /\ snd'.is_complete /\ TxnIsOK(snd') <=> u.is_complete /\ TxnIsOK(u)
      BY <1>4, <2>2 DEF TxnIsOK
    <3> QED
      BY <3>1 DEF S_Phase
  <2> QED
    BY <2>1, <2>2
<1>8. R_Phase(rcv') = R_Phase(rcv) /\ dst' = dst /\ created' = created
  BY DEF S_WakeupWith
<1> HIDE DEF a, b
<1>9. CASE u.is_complete /\ TxnIsOK(u)
  <2>1. a = "open" /\ b \in {"success", "over"}
    BY <1>3, <1>6, <1>7, <1>9
  <2>2. src' \in {"present", "removed", "in_move_dir"}
    BY <1>1, <1>5, <1>9 DEF S_HandleFileRetention
  <2>3. Delivery!Succeed
    BY <1>1, <1>3, <1>8, <1>9, <2>1, <2>2
       DEF Delivery!Succeed, Delivery!SourceGoesTo, a, b
  <2> QED
    BY <2>3 DEF Delivery!Next
<1>10. CASE ~(u.is_complete /\ TxnIsOK(u))
  <2>1. a \in {"open", "cancelled"} /\ b \in {"failure", "over"}
    BY <1>6, <1>7, <1>10
  <2>2. src' \in {"present", "in_fail_dir"}
    BY <1>1, <1>5, <1>10 DEF S_HandleFileRetention
  <2>3. Delivery!Fail
    BY <1>1, <1>8, <2>1, <2>2 DEF Delivery!Fail, Delivery!SourceGoesTo, a, b
  <2> QED
    BY <2>3 DEF Delivery!Next
<1> QED
  BY <1>9, <1>10

LEMMA S_WakeupDelivers ==
  FileInv /\ OutcomeInv /\ OutcomeInv' /\ S_Wakeup => [Delivery!Next]_(Delivery!vars)
<1> SUFFICES ASSUME FileInv, OutcomeInv, OutcomeInv', NEW w \in Wakeups, S_WakeupWith(w)
             PROVE  [Delivery!Next]_(Delivery!vars)
  BY DEF S_Wakeup
<1>1. SenderOK(snd, "TX", Delivered) /\ S_Conduct(snd, Delivered)
  BY DEF FileInv, OutcomeInv, S_WakeupWith
<1>2. \A p \in S_TickSends(snd, w) : p.type # "FIN"
  <2>1. S_Conduct(S_Checked(snd, w), Delivered) /\ S_Checked(snd, w) \in SenderType
    BY <1>1, S_CheckedConduct, S_CheckedOK DEF SenderOK
  <2> QED
    BY <2>1, S_DueAfterData DEF S_TickSends
<1>3. R_Reports' = R_Reports
  BY <1>2 DEF S_WakeupWith, R_Reports
<1>4. CASE S_Files(snd)
  BY <1>3, <1>4, FilesDelivers
<1>5. CASE ~S_Files(snd)
  <2>1. UNCHANGED <<src, dst, rcv, created>> /\ S_Conduct(snd', Delivered)
    BY <1>5 DEF S_WakeupWith, OutcomeInv, Delivered
  <2>2. snd' = S_Recycled \/ S_Keeps(snd, snd')
    BY <1>1, S_TickKeeps DEF S_WakeupWith
  <2>3. S_Recycled.q = "FREE"
    BY DEF S_Recycled, S_Pending
  <2>4. S_Moves(snd, snd')
    <3>1. CASE snd' = S_Recycled
      BY <2>3, <3>1 DEF S_Moves
    <3>2. CASE S_Keeps(snd, snd')
      BY <1>1, <3>2 DEF S_Keeps, S_Moves, SenderOK
    <3> QED
      BY <2>2, <3>1, <3>2
  <2> QED
    BY <1>3, <2>1, <2>4, SenderDelivers
<1> QED
  BY <1>4, <1>5

LEMMA SenderActionsDeliver ==
  FileInv /\ OutcomeInv' /\ (S_Start \/ S_AnswerNak \/ S_NewData \/ S_Receive) =>
    [Delivery!Next]_(Delivery!vars)
<1> SUFFICES ASSUME FileInv, OutcomeInv', S_Start \/ S_AnswerNak \/ S_NewData \/ S_Receive
             PROVE  [Delivery!Next]_(Delivery!vars)
  OBVIOUS
<1>1. snd \in SenderType
  BY DEF FileInv, SenderOK
<1>2. UNCHANGED <<src, dst, rcv, created>> /\ S_Conduct(snd', Delivered)
  BY DEF S_Start, S_AnswerNak, S_NewData, S_Receive, OutcomeInv, Delivered
<1>3. net \subseteq net' /\ \A p \in net' : p \in net \/ p.type # "FIN"
  <2>1. \A s : FileDataPdu(snd, s).type = "FILEDATA"
    BY DEF FileDataPdu
  <2> QED
    BY <2>1 DEF S_Start, S_AnswerNak, S_NewData, S_Receive
<1>4. R_Reports' = R_Reports
  BY <1>3 DEF R_Reports
<1>5. ASSUME S_Start PROVE S_Moves(snd, snd')
  BY <1>1, <1>5, S_StartMoves DEF S_Start
<1>6. ASSUME S_AnswerNak PROVE S_Moves(snd, snd')
  BY <1>1, <1>6, S_NakKeeps, S_KeepsMoves, OutcomesOK DEF S_AnswerNak
<1>7. ASSUME S_NewData PROVE S_Moves(snd, snd')
  BY <1>1, <1>7, S_DataKeeps, S_KeepsMoves, OutcomesOK DEF S_NewData
<1>8. ASSUME S_Receive PROVE S_Moves(snd, snd')
  BY <1>1, <1>8, S_RecvKeeps, S_KeepsMoves DEF S_Receive
<1> QED
  BY <1>2, <1>4, <1>5, <1>6, <1>7, <1>8, SenderDelivers

LEMMA S_CommandDelivers ==
  FileInv /\ OutcomeInv' /\ (S_Cancel \/ S_Abandon \/ S_Suspend \/ S_Resume) =>
    [Delivery!Next]_(Delivery!vars)
<1> SUFFICES ASSUME FileInv, OutcomeInv', S_Cancel \/ S_Abandon \/ S_Suspend \/ S_Resume
             PROVE  [Delivery!Next]_(Delivery!vars)
  OBVIOUS
<1>1. snd \in SenderType
  BY DEF FileInv, SenderOK
<1>2. /\ UNCHANGED <<src, dst, rcv, created, net>> /\ S_Conduct(snd', Delivered)
      /\ snd.q # "FREE"
  BY DEF S_Cancel, S_Abandon, S_Suspend, S_Resume, S_Command, Command, OutcomeInv, Delivered
<1>3. R_Reports' = R_Reports
  BY <1>2 DEF R_Reports
<1>4. \A b \in BOOLEAN : S_Moves(snd, [snd EXCEPT !.suspended = b])
  BY <1>1, <1>2 DEF SenderType, S_Moves, TxnIsOK
<1>5. \/ snd' = CancelTransaction(snd) \/ snd' = FinishTransaction(snd)
      \/ \E b \in BOOLEAN : snd' = [snd EXCEPT !.suspended = b]
  BY DEF S_Cancel, S_Abandon, S_Suspend, S_Resume, S_Command
<1>6. S_Moves(snd, snd')
  BY <1>1, <1>2, <1>4, <1>5, S_CancelMoves, S_FinishMoves
<1> QED
  BY <1>2, <1>3, <1>6, SenderDelivers

-------------------------------------------------------------------------------
(* What a step of the engine leaves of the phase of a receiver.            *)

R_Marked(t, u) == u.canceled = t.canceled /\ (t.state # "UNDEF" => u.state # "UNDEF")

LEMMA R_SameMarked ==
  ASSUME NEW t, NEW u, R_Same(t, u)
  PROVE  R_Marked(t, u)
BY DEF R_Same, R_Marked

LEMMA R_RecvMarked ==
  ASSUME NEW t \in ReceiverType, NEW p \in ToReceiver, NEW seeks, NEW writes,
         NEW v \in R_Recv(t, p, seeks, writes)
  PROVE  R_Marked(t, v)
<1> DEFINE x == [t EXCEPT !.cached_pos = p.offset]
<1>1. CASE R_AcceptsFd(t, p) /\ R_Stores(t, p, seeks, writes)
  <2>1. v \in R_RecvFd(t, p, seeks, writes)
    BY <1>1 DEF R_Recv, R_AcceptsFd, Active
  <2>2. PICK c \in LearnOutcomes(t.chunks, {p.offset}, RxChunks) :
          v = [t EXCEPT !.cached_pos = p.offset + 1, !.acknak_count = 0, !.chunks = c]
    BY <1>1, <2>1 DEF R_RecvFd
  <2> QED
    BY <2>2 DEF ReceiverType, R_Marked
<1>2. CASE R_AcceptsFd(t, p) /\ ~R_Stores(t, p, seeks, writes)
  <2>1. x \in ReceiverType /\ R_Same(t, x)
    <3>1. p.offset \in 0 .. FileSize
      BY <1>2, FileDataOffset, FileSizeAssumption DEF R_AcceptsFd, Segs
    <3> QED
      BY <3>1 DEF ReceiverType, R_Same, TxnIsOK
  <2>2. v \in {SetTxnStatus(t, "FILE_SIZE_ERROR"), SetTxnStatus(x, "FILESTORE_REJECTION")}
    BY <1>2 DEF R_Recv, R_RecvFd, R_AcceptsFd, Active
  <2> HIDE DEF x
  <2> QED
    BY <2>1, <2>2, R_StatusSame, R_SameTrans, R_SameMarked
<1>3. CASE ~R_AcceptsFd(t, p)
  <2>1. R_Same(t, t)
    BY DEF R_Same
  <2> QED
    BY <1>3, <2>1, R_DirectiveSame, R_SameMarked DEF R_Recv
<1> QED
  BY <1>1, <1>2, <1>3

LEMMA SetupRxTransactionOpen ==
  ASSUME NEW p, NEW status \in TxnStatuses, NEW has_chunks, NEW held \in RxLists, NEW creates
  PROVE  LET t == SetupRxTransaction(p, status, has_chunks, held, creates)
         IN  t.state # "UNDEF" /\ t.canceled = FALSE
<1> DEFINE none == [R_None EXCEPT !.txn_stat = status]
           t == AllocChunkList(none, has_chunks)
           state == IF p.class = 2 THEN "R2" ELSE "R1"
           u == [t EXCEPT !.reliable = (p.class = 2), !.chunks = held, !.state = state]
           v == [u EXCEPT !.fin_dc = "INVALID", !.fin_fs = "INVALID"]
           x == [v EXCEPT !.fd = TRUE, !.tempfile_created = TRUE]
           z == SetTxnStatus(v, "FILESTORE_REJECTION")
           hold == [t EXCEPT !.state = "HOLD"]
<1>1. none \in ReceiverType /\ none.canceled = FALSE
  <2>1. R_None \in ReceiverType
    BY R_NoneOK DEF ReceiverOK
  <2>2. none \in ReceiverType
    BY <2>1 DEF ReceiverType
  <2> QED
    BY <2>2 DEF R_None
<1> HIDE DEF none
<1>2. t \in ReceiverType /\ t.canceled = FALSE
  <2>1. /\ SetTxnStatus(none, "NO_RESOURCE") \in ReceiverType
        /\ SetTxnStatus(none, "NO_RESOURCE").canceled = FALSE
    BY <1>1, Statuses DEF SetTxnStatus, ReceiverType
  <2> QED
    BY <1>1, <2>1 DEF AllocChunkList
<1> HIDE DEF t
<1>3. hold.state = "HOLD" /\ hold.canceled = FALSE
  BY <1>2 DEF ReceiverType
<1>4. u \in ReceiverType /\ u.state \in {"R1", "R2"} /\ u.canceled = FALSE
  BY <1>2, RxListsAssumption, ZenonT(60) DEF ReceiverType
<1> HIDE DEF u
<1>5. v \in ReceiverType /\ v.state = u.state /\ v.canceled = FALSE
  BY <1>4 DEF ReceiverType, DeliveryCodes, FileStatuses
<1> HIDE DEF v
<1>6. x.state = v.state /\ x.canceled = FALSE
  BY <1>5 DEF ReceiverType
<1>7. z.state = v.state /\ z.canceled = FALSE
  BY <1>5 DEF SetTxnStatus, ReceiverType
<1>8. SetupRxTransaction(p, status, has_chunks, held, creates) \in {hold, x, z}
  BY DEF SetupRxTransaction, R_Init, none, t, u, v, x, z, hold
<1> HIDE DEF hold, x, z
<1> QED
  BY <1>3, <1>4, <1>5, <1>6, <1>7, <1>8

LEMMA R_EnterMarked ==
  ASSUME NEW t \in ReceiverType, NEW next \in RxSubStates, NEW works
  PROVE  R_Marked(t, R_Enter(t, next, works))
<1> DEFINE u == [t EXCEPT !.sub_state = next, !.ack_timer_armed = FALSE]
<1>1. u \in ReceiverType /\ R_Marked(t, u)
  BY DEF ReceiverType, R_Marked
<1> HIDE DEF u
<1>2. /\ R_Marked(u, [u EXCEPT !.acknak_count = 0, !.send_nak = (@ \/ t.reliable)])
      /\ R_Marked(u, [u EXCEPT !.acknak_count = 0, !.send_fin = TRUE])
      /\ R_Marked(u, [u EXCEPT !.fd = FALSE, !.state = "HOLD"])
      /\ R_Marked(u, [u EXCEPT !.crc_pos = 0, !.cached_pos = 0])
      /\ R_Marked(u, u)
  BY <1>1 DEF ReceiverType, R_Marked
<1>3. R_Marked(u, SetTxnStatus(u, "FILE_SIZE_ERROR"))
  BY <1>1, R_StatusSame, R_SameMarked
<1>4. R_Marked(u, R_Enter(t, next, works))
  BY <1>2, <1>3 DEF R_Enter, FinishTransaction, R_CalcCrcStart, u
<1> QED
  BY <1>1, <1>4 DEF R_Marked

LEMMA R_HandleFileRetentionMarked ==
  ASSUME NEW t \in ReceiverType, NEW moves
  PROVE  /\ R_HandleFileRetention(t, moves) \in ReceiverType
         /\ R_Marked(t, R_HandleFileRetention(t, moves))
<1> DEFINE u == [t EXCEPT !.fd = FALSE]
           x == [u EXCEPT !.fin_dc = "INVALID", !.fin_fs = "INVALID"]
           kept == [u EXCEPT !.txn_stat = "NO_ERROR", !.fin_dc = "COMPLETE",
                             !.fin_fs = "RETAINED"]
           Good(r) == r \in ReceiverType /\ R_Marked(u, r)
<1>1. u \in ReceiverType /\ R_Marked(t, u)
  BY DEF ReceiverType, R_Marked
<1> HIDE DEF u
<1>2. Good(x) /\ Good(kept)
  <2>1. Good(x)
    BY <1>1 DEF ReceiverType, R_Marked, DeliveryCodes, FileStatuses
  <2>2. Good(kept)
    BY <1>1, Statuses DEF ReceiverType, R_Marked, DeliveryCodes, FileStatuses
  <2> QED
    BY <2>1, <2>2
<1> HIDE DEF x, kept
<1>3. ASSUME NEW r, Good(r), NEW st \in TxnStatuses PROVE Good(SetTxnStatus(r, st))
  <2>1. R_Marked(r, SetTxnStatus(r, st))
    BY <1>3, R_StatusSame, R_SameMarked
  <2>2. SetTxnStatus(r, st) \in ReceiverType
    BY <1>3 DEF SetTxnStatus, ReceiverType
  <2> QED
    BY <1>3, <2>1, <2>2 DEF R_Marked
<1>4. Good(u)
  BY <1>1 DEF R_Marked
<1>5. ASSUME NEW st \in TxnStatuses, NEW dc \in DeliveryCodes
      PROVE  Good(R_Discarded(SetTxnStatus(u, st), dc))
  <2> DEFINE y == SetTxnStatus(u, st)
  <2>1. y \in ReceiverType /\ R_Marked(u, y)
    BY <1>3, <1>4
  <2> HIDE DEF y
  <2>2. R_Discarded(y, dc) \in ReceiverType /\ R_Marked(y, R_Discarded(y, dc))
    BY <2>1 DEF R_Discarded, ReceiverType, R_Marked, FileStatuses
  <2> QED
    BY <2>1, <2>2 DEF R_Marked, y
<1>6. Good(SetTxnStatus(x, "FILESTORE_REJECTION"))
  BY <1>2, <1>3, Statuses
<1>7. "COMPLETE" \in DeliveryCodes /\ "INCOMPLETE" \in DeliveryCodes
  BY DEF DeliveryCodes
<1>8. Good(R_HandleFileRetention(t, moves))
  <2> HIDE DEF Good
  <2> QED
    BY <1>2, <1>5, <1>6, <1>7, Statuses DEF R_HandleFileRetention, u, x, kept
<1> QED
  BY <1>1, <1>8 DEF R_Marked

LEMMA R_CheckStateMarked ==
  ASSUME NEW t \in ReceiverType, NEW file, NEW works
  PROVE  R_Marked(t, R_CheckState(t, file, works))
<1>1. {"DATA_EOF", "VALIDATE", "FILESTORE", "FINACK", "COMPLETE"} \subseteq RxSubStates
  BY DEF RxSubStates
<1>2. \A next \in RxSubStates : R_Marked(t, R_Enter(t, next, works))
  BY R_EnterMarked
<1>3. R_Marked(t, t)
  BY DEF R_Marked
<1>4. R_Marked(t, R_CheckState_DATA_NORMAL(t, works))
  BY <1>1, <1>2, <1>3 DEF R_CheckState_DATA_NORMAL
<1>5. R_Marked(t, R_CheckState_DATA_EOF(t, works))
  <2> DEFINE u == [t EXCEPT !.is_complete = TRUE]
             x == SetTxnStatus(t, "NAK_LIMIT_REACHED")
             v == [t EXCEPT !.acknak_count = @ + 1, !.send_nak = TRUE]
  <2>1. u \in ReceiverType /\ R_Marked(t, u) /\ R_Marked(t, v)
    BY DEF ReceiverType, R_Marked
  <2>2. x \in ReceiverType /\ R_Marked(t, x)
    BY R_StatusSame, R_SameMarked, Statuses DEF SetTxnStatus, ReceiverType
  <2> HIDE DEF u, x, v
  <2>3. R_Marked(u, R_Enter(u, "VALIDATE", works)) /\ R_Marked(x, R_Enter(x, "FILESTORE", works))
    BY <1>1, <2>1, <2>2, R_EnterMarked
  <2>4. R_Marked(t, R_Enter(u, "VALIDATE", works)) /\ R_Marked(t, R_Enter(x, "FILESTORE", works))
    BY <2>1, <2>2, <2>3 DEF R_Marked
  <2> QED
    BY <1>1, <1>2, <1>3, <2>1, <2>4 DEF R_CheckState_DATA_EOF, u, x, v
<1>6. R_Marked(t, R_CheckState_VALIDATE(t, file, works))
  BY <1>1, <1>2, R_CalcCrcChunkSame, R_SameMarked DEF R_CheckState_VALIDATE
<1>7. t.sub_state = "FILESTORE" => R_Marked(t, R_CheckState_FILESTORE(t, works))
  <2> DEFINE u == R_HandleFileRetention(t, works)
  <2>1. R_Marked(t, u) /\ u \in ReceiverType
    BY R_HandleFileRetentionMarked
  <2> HIDE DEF u
  <2>2. \A next \in RxSubStates : R_Marked(u, R_Enter(u, next, works))
    BY <2>1, R_EnterMarked
  <2> QED
    BY <1>1, <2>1, <2>2 DEF R_CheckState_FILESTORE, R_Marked, u
<1>8. R_Marked(t, R_CheckState_FINACK(t, works))
  <2>1. R_Marked(t, [t EXCEPT !.acknak_count = @ + 1, !.send_fin = TRUE])
    BY DEF ReceiverType, R_Marked
  <2> QED
    BY <1>1, <1>2, <1>3, <2>1 DEF R_CheckState_FINACK
<1> QED
  BY <1>3, <1>4, <1>5, <1>6, <1>7, <1>8 DEF R_CheckState

LEMMA R_CheckedMarked ==
  ASSUME NEW t \in ReceiverType, NEW file, NEW w
  PROVE  R_Marked(t, R_Checked(t, file, w))
<1> DEFINE u == R_InactivityTick(t, w)
           x == R_AckTimerTick(u, w)
<1>1. u \in ReceiverType /\ R_Marked(t, u)
  <2> DEFINE y == [t EXCEPT !.inactivity_fired = TRUE]
  <2>1. y \in ReceiverType
    BY DEF ReceiverType
  <2> HIDE DEF y
  <2>2. SetTxnStatus(y, "INACTIVITY_DETECTED") \in ReceiverType
    BY <2>1, Statuses DEF SetTxnStatus, ReceiverType
  <2> QED
    BY <2>1, <2>2, R_InactivityTickSame, R_SameMarked DEF R_InactivityTick, y
<1> HIDE DEF u
<1>2. x \in ReceiverType /\ R_Marked(u, x)
  <2>1. [u EXCEPT !.ack_timer_armed = FALSE] \in ReceiverType
    BY <1>1, ZenonT(60) DEF ReceiverType
  <2> QED
    BY <1>1, <2>1, R_AckTimerTickSame, R_SameMarked DEF R_AckTimerTick
<1> HIDE DEF x
<1>3. R_Marked(x, R_CheckState(x, file, w.works))
  BY <1>2, R_CheckStateMarked
<1> QED
  BY <1>1, <1>2, <1>3 DEF R_Checked, R_Marked, u, x

(* The tick of a receiver that is recycled, or keeps its phase.            *)
LEMMA R_TickPhase ==
  ASSUME NEW t \in ReceiverType, NEW file, NEW w, t.state # "UNDEF",
         R_Checked(t, file, w) \in ReceiverType
  PROVE  R_Phase(R_Tick(t, file, w)) \in {R_Phase(t), "none"}
<1> DEFINE u == R_Checked(t, file, w)
           v == IF w.blocked THEN u ELSE R_Sent(u)
<1>1. R_Marked(t, u)
  BY R_CheckedMarked
<1>2. R_Marked(u, R_Sent(u)) /\ R_Marked(u, u)
  BY R_SentSame, R_SameMarked DEF R_Marked
<1> HIDE DEF u
<1>3. R_Marked(t, v)
  BY <1>1, <1>2 DEF R_Marked
<1> HIDE DEF v
<1>4. R_Phase(v) = R_Phase(t)
  BY <1>3 DEF R_Marked, R_Phase
<1>5. R_Phase(R_None) = "none"
  BY DEF R_Phase, R_None
<1>6. R_Tick(t, file, w) \in {R_None, v}
  BY DEF R_Tick, u, v
<1> QED
  BY <1>4, <1>5, <1>6

(* A FIN reports a success only for a transaction without an error.        *)
LEMMA R_DueSuccess ==
  ASSUME NEW t, NEW p \in R_Due(t), IsFin(p), p.cc = "NO_ERROR"
  PROVE  TxnIsOK(t)
BY DEF R_Due, IsFin, To_ConditionCode, TxnIsOK, IsError

Summary(p) == [success |-> p.cc = "NO_ERROR", delivery_code |-> p.delivery_code,
               file_status |-> p.file_status]

LEMMA SummariesOfFins == R_Reports = {Summary(p) : p \in {q \in net : IsFin(q)}}
BY DEF R_Reports, Summary, IsFin

LEMMA R_WakeupDelivers ==
  FileInv /\ FileInv' /\ OutcomeInv /\ OutcomeInv' /\ R_Wakeup =>
    [Delivery!Next]_(Delivery!vars)
<1> SUFFICES ASSUME FileInv, FileInv', OutcomeInv, OutcomeInv',
                    NEW w \in Wakeups, R_WakeupWith(w)
             PROVE  Delivery!Serve
  BY DEF R_Wakeup, Delivery!Next
<1> DEFINE u == R_Checked(rcv, temp, w)
           sends == R_TickSends(rcv, temp, w)
<1>1. /\ R_Exists /\ ReceiverOK(rcv, temp, Delivered) /\ rcv \in ReceiverType
      /\ R_Conduct(rcv, temp, tempfile, Delivered, Said)
  BY DEF FileInv, OutcomeInv, R_WakeupWith, ReceiverOK
<1>2. u \in ReceiverType /\ (u.canceled => ~TxnIsOK(u))
  <2>1. CASE R_Files(rcv)
    <3>1. R_Conduct(u, {}, FALSE, TRUE, Said)
      BY <1>1, <2>1, R_CheckedFilesConduct
    <3>2. ReceiverOK(u, temp, Delivered \/ R_Retains(rcv, w))
      BY <1>1, <2>1, R_CheckedFilesOK
    <3> HIDE DEF u
    <3> QED
      BY <3>1, <3>2 DEF ReceiverOK, R_Conduct
  <2>2. CASE ~R_Files(rcv)
    <3>1. R_Conduct(u, temp, tempfile, Delivered, Said)
      BY <1>1, <2>2, R_CheckedConduct
    <3>2. ReceiverOK(u, temp, Delivered)
      BY <1>1, <2>2, R_CheckedOK
    <3> HIDE DEF u
    <3> QED
      BY <3>1, <3>2 DEF ReceiverOK, R_Conduct
  <2> QED
    BY <2>1, <2>2
<1>3. u.canceled = rcv.canceled
  BY <1>1, R_CheckedMarked DEF R_Marked
<1>4. /\ rcv' = R_Tick(rcv, temp, w) /\ net' = net \cup sends /\ sends \subseteq R_Due(u)
      /\ UNCHANGED <<snd, src, created>>
  BY DEF R_WakeupWith, R_TickSends
<1>5. R_Phase(rcv) # "none" /\ R_Phase(rcv') \in {R_Phase(rcv), "none"}
  BY <1>1, <1>2, <1>4, R_TickPhase DEF R_Phase, R_Exists
<1> HIDE DEF u, sends
<1>6. dst' = dst \/ Delivery!Deliver
  <2>1. CASE R_Retains(rcv, w)
    <3>1. dst' = "good"
      BY <2>1 DEF R_WakeupWith, FileInv
    <3>2. rcv.canceled = FALSE
      <4> DEFINE v == R_InactivityTick(rcv, w)
      <4>1. R_Same(rcv, v) /\ TxnIsOK(v)
        BY <1>1, <2>1, R_InactivityTickSame DEF R_Retains, R_Moves
      <4> HIDE DEF v
      <4> QED
        BY <1>1, <4>1 DEF R_Same, R_Conduct, ReceiverType
    <3>3. R_Phase(rcv) = "open"
      BY <1>5, <3>2 DEF R_Phase
    <3>4. Said = {}
      <4>1. Undecided(rcv)
        BY <2>1 DEF R_Retains, R_Files, Undecided
      <4>2. \A report \in Said : FALSE
        BY <1>1, <4>1 DEF R_Conduct
      <4> QED
        BY <4>2
    <3>5. created = 1 => R_Reports = {}
      <4> SUFFICES ASSUME created = 1 PROVE ~\E p \in net : IsFin(p)
        BY SummariesOfFins
      <4> QED
        BY <3>4 DEF Said, Reports
    <3> QED
      BY <3>1, <3>3, <3>5 DEF Delivery!Deliver, Delivery!Unreported
  <2>2. CASE ~R_Retains(rcv, w)
    BY <2>2 DEF R_WakeupWith
  <2> QED
    BY <2>1, <2>2
<1>7. R_Reports \subseteq R_Reports'
  BY <1>4 DEF R_Reports
<1>8. ASSUME NEW r \in R_Reports', r \notin R_Reports
      PROVE  Delivery!Truthful(r)
  <2>1. PICK p \in net' : IsFin(p) /\ r = Summary(p)
    BY <1>8 DEF R_Reports, Summary, IsFin
  <2>2. /\ r.success <=> p.cc = "NO_ERROR"
        /\ r.delivery_code = p.delivery_code /\ r.file_status = p.file_status
    BY <2>1 DEF Summary
  <2>3. p \in R_Due(u)
    BY <1>4, <1>8, <2>1, SummariesOfFins
  <2>4. r.success => R_Phase(rcv) = "open"
    BY <1>2, <1>3, <1>5, <2>1, <2>2, <2>3, R_DueSuccess DEF R_Phase
  <2>5. r.success \/ r.file_status = "RETAINED" => dst' = "good"
    BY <2>1, <2>2 DEF FileInv, PdusOK, OutcomeInv, IsFin, Delivered
  <2>6. ASSUME created = 1, NEW said \in R_Reports'
        PROVE  said.file_status = r.file_status /\ said.delivery_code = r.delivery_code
    <3>1. PICK q \in net' : IsFin(q) /\ said = Summary(q)
      BY <2>6 DEF R_Reports, Summary, IsFin
    <3>2. /\ <<p.delivery_code, p.file_status>> \in Said'
          /\ <<q.delivery_code, q.file_status>> \in Said'
      BY <1>4, <2>1, <2>6, <3>1 DEF Said, Reports
    <3>3. <<p.delivery_code, p.file_status>> = <<q.delivery_code, q.file_status>>
      BY <3>2 DEF OutcomeInv
    <3> QED
      BY <2>2, <3>1, <3>3 DEF Summary
  <2> QED
    BY <2>4, <2>5, <2>6 DEF Delivery!Truthful
<1>9. UNCHANGED <<src, S_Phase(snd), created>>
  BY <1>4
<1> QED
  BY <1>5, <1>6, <1>7, <1>8, <1>9 DEF Delivery!Serve

LEMMA ReceiverDelivers ==
  FileInv /\ (R_Receive \/ R_Create \/ R_Cancel \/ R_Abandon \/ R_Suspend \/ R_Resume) =>
    [Delivery!Next]_(Delivery!vars)
<1> SUFFICES ASSUME FileInv,
                    R_Receive \/ R_Create \/ R_Cancel \/ R_Abandon \/ R_Suspend \/ R_Resume
             PROVE  [Delivery!Next]_(Delivery!vars)
  OBVIOUS
<1>1. rcv \in ReceiverType
  BY DEF FileInv, ReceiverOK
<1>2. UNCHANGED <<src, dst, net, snd>>
  BY DEF R_Receive, R_Create, R_Cancel, R_Abandon, R_Suspend, R_Resume, R_Command, Command
<1>3. R_Reports' = R_Reports /\ S_Phase(snd') = S_Phase(snd)
  BY <1>2 DEF R_Reports
<1>4. ASSUME created' = created, R_Exists, R_Marked(rcv, rcv')
      PROVE  UNCHANGED Delivery!vars
  <2>1. R_Phase(rcv') = R_Phase(rcv)
    BY <1>4 DEF R_Marked, R_Phase, R_Exists
  <2> QED
    BY <1>2, <1>3, <1>4, <2>1 DEF Delivery!vars
<1>5. CASE R_Receive
  <2>1. R_Marked(rcv, rcv')
    BY <1>1, <1>5, R_RecvMarked DEF R_Receive
  <2> QED
    BY <1>4, <1>5, <2>1 DEF R_Receive
<1>6. CASE R_Create
  <2>1. PICK p \in net \cap ToReceiver, has_chunks \in Outcomes, creates \in Outcomes,
             seeks \in Outcomes, writes \in Outcomes, status \in HistStatuses,
             held \in RxLists :
          rcv' \in R_Recv(SetupRxTransaction(p, status, has_chunks, held, creates),
                          p, seeks, writes)
    BY <1>6 DEF R_Create
  <2> DEFINE t == SetupRxTransaction(p, status, has_chunks, held, creates)
  <2>2. t \in ReceiverType
    BY OutcomesOK, SetupRxTransactionOK, RxListsAssumption, HistStatusesAssumption
       DEF ReceiverOK
  <2>3. t.state # "UNDEF" /\ t.canceled = FALSE
    BY SetupRxTransactionOpen, HistStatusesAssumption
  <2>4. rcv' \in R_Recv(t, p, seeks, writes)
    BY <2>1
  <2> HIDE DEF t
  <2>5. R_Marked(t, rcv')
    BY <2>2, <2>4, R_RecvMarked
  <2>6. R_Phase(rcv) = "none" /\ R_Phase(rcv') = "open"
    BY <1>6, <2>3, <2>5 DEF R_Marked, R_Phase, R_Create, R_Exists
  <2>7. Delivery!Attempt
    BY <1>2, <1>3, <1>6, <2>6 DEF Delivery!Attempt, R_Create
  <2> QED
    BY <2>7 DEF Delivery!Next
<1>7. CASE R_Cancel
  <2> DEFINE t == [rcv EXCEPT !.canceled = TRUE]
             v == SetTxnStatus(t, "CANCEL_REQUEST_RECEIVED")
  <2>1. t \in ReceiverType /\ t.canceled /\ t.state = rcv.state
    BY <1>1 DEF ReceiverType
  <2> HIDE DEF t
  <2>2. v.canceled /\ v.state = rcv.state
    BY <2>1, R_StatusSame DEF R_Same
  <2> HIDE DEF v
  <2>3. R_Exists /\ created' = created /\ rcv' = IF rcv.canceled THEN rcv ELSE v
    BY <1>7 DEF R_Cancel, R_Command, Command, CancelTransaction, t, v
  <2>4. CASE rcv.canceled
    BY <1>4, <2>3, <2>4 DEF R_Marked
  <2>5. CASE ~rcv.canceled
    <3>1. R_Phase(rcv) = "open" /\ R_Phase(rcv') = "cancelled"
      BY <2>2, <2>3, <2>5 DEF R_Phase, R_Exists
    <3>2. Delivery!CancelAttempt
      BY <1>2, <1>3, <2>3, <3>1 DEF Delivery!CancelAttempt
    <3> QED
      BY <3>2 DEF Delivery!Next
  <2> QED
    BY <2>4, <2>5
<1>8. CASE R_Abandon \/ R_Suspend \/ R_Resume
  <2>1. R_Exists /\ created' = created
    BY <1>8 DEF R_Abandon, R_Suspend, R_Resume, R_Command, Command
  <2>2. R_Marked(rcv, FinishTransaction(rcv))
    BY <1>1 DEF FinishTransaction, ReceiverType, R_Marked
  <2>3. \A b \in BOOLEAN : R_Marked(rcv, [rcv EXCEPT !.suspended = b])
    BY <1>1 DEF ReceiverType, R_Marked
  <2> QED
    BY <1>4, <1>8, <2>1, <2>2, <2>3 DEF R_Abandon, R_Suspend, R_Resume, R_Command
<1> QED
  BY <1>5, <1>6, <1>7, <1>8

LEMMA InitDelivers == Init => Delivery!Init
<1> SUFFICES ASSUME Init PROVE Delivery!Init
  OBVIOUS
<1>1. src = "present" /\ dst = "none" /\ created = 0 /\ R_Reports = {}
  BY DEF Init, R_Reports
<1>2. S_Phase(snd) = "open"
  BY DEF Init, S_Pending, S_Phase
<1>3. R_Phase(rcv) = "none"
  BY DEF Init, R_None, R_Phase
<1> QED
  BY <1>1, <1>2, <1>3 DEF Delivery!Init

LEMMA NextDelivers ==
  FileInv /\ FileInv' /\ OutcomeInv /\ OutcomeInv' /\ [Next]_vars =>
    [Delivery!Next]_(Delivery!vars)
<1>1. UNCHANGED vars => UNCHANGED Delivery!vars
  BY DEF vars, Delivery!vars, R_Reports
<1> QED
  BY <1>1, S_WakeupDelivers, SenderActionsDeliver, S_CommandDelivers, R_WakeupDelivers,
     ReceiverDelivers DEF Next

(* Whatever the network, the files and the commands do, a transfer keeps   *)
(* the promises of CF_Delivery.                                            *)
THEOREM TransferDelivers == Spec => ImplementsDelivery
<1>1. Init => Delivery!Init
  BY InitDelivers
<1>2. FileInv /\ FileInv' /\ OutcomeInv /\ OutcomeInv' /\ [Next]_vars =>
        [Delivery!Next]_(Delivery!vars)
  BY NextDelivers
<1> QED
  BY <1>1, <1>2, Invariant, OutcomeInvariant, PTL DEF Spec, ImplementsDelivery, Delivery!Spec
===============================================================================
