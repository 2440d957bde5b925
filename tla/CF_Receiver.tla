----------------------------- MODULE CF_Receiver -----------------------------
(***************************************************************************)
(* The receive side of one transaction: cf_cfdp_r.c and what cf_cfdp.c     *)
(* does for it.  A transaction is a record t; each operator is one C       *)
(* function as a map from the transaction before to the one after.  temp   *)
(* is the set of segments that the temporary file holds.                   *)
(*                                                                         *)
(* The CRC is abstracted to crc_pos: the length of the prefix of the file  *)
(* that has been digested in order, or NoCrc once the digest can no longer *)
(* agree with the sender's.                                                *)
(***************************************************************************)
EXTENDS CF_Cfdp

CONSTANTS RxChunks,       \* max_chunks of a receiver's chunk list
          CrcPerWakeup,   \* rx_crc_calc_bytes_per_wakeup, in segments
          RxLists         \* contents a chunk list may have when it is allocated

ASSUME RxChunksAssumption == RxChunks \in Nat \ {0}
ASSUME CrcPerWakeupAssumption == CrcPerWakeup \in Nat \ {0}
ASSUME RxListsAssumption == RxLists \subseteq SUBSET Segs

RxSubStates ==
  {"DATA_NORMAL", "DATA_EOF", "VALIDATE", "FILESTORE", "FINACK", "COMPLETE"}

NoCrc == -1

ReceiverType ==
  [state : {"R1", "R2", "HOLD", "UNDEF"}, reliable : BOOLEAN,
   sub_state : RxSubStates, txn_stat : TxnStatuses, fd : BOOLEAN,
   tempfile_created : BOOLEAN, md_recv : BOOLEAN, close_req : BOOLEAN,
   fsize : 0 .. FileSize, eof_size : 0 .. FileSize, chunks : SUBSET Segs,
   cached_pos : 0 .. FileSize, crc_pos : NoCrc .. FileSize,
   eof_count : 0 .. AckLimit, eof_ack_count : 0 .. AckLimit,
   acknak_count : 0 .. AckLimit, send_nak : BOOLEAN, send_fin : BOOLEAN,
   finack_recv : BOOLEAN, ack_timer_armed : BOOLEAN,
   inactivity_fired : BOOLEAN, is_complete : BOOLEAN,
   fin_dc : DeliveryCodes, fin_fs : FileStatuses,
   suspended : BOOLEAN, canceled : BOOLEAN]

(* No transaction: none yet, or the last one recycled. *)
R_None ==
  [state |-> "UNDEF", reliable |-> FALSE, sub_state |-> "DATA_NORMAL",
   txn_stat |-> "NO_ERROR", fd |-> FALSE, tempfile_created |-> FALSE,
   md_recv |-> FALSE, close_req |-> FALSE, fsize |-> 0, eof_size |-> 0,
   chunks |-> {}, cached_pos |-> 0, crc_pos |-> NoCrc,
   eof_count |-> 0, eof_ack_count |-> 0, acknak_count |-> 0,
   send_nak |-> FALSE, send_fin |-> FALSE, finack_recv |-> FALSE,
   ack_timer_armed |-> FALSE, inactivity_fired |-> FALSE,
   is_complete |-> FALSE, fin_dc |-> "COMPLETE", fin_fs |-> "DISCARDED",
   suspended |-> FALSE, canceled |-> FALSE]

-------------------------------------------------------------------------------
(* A transaction is created by the first PDU that finds none. *)

R_Init(t, creates) ==
  LET u == [t EXCEPT !.fin_dc = "INVALID", !.fin_fs = "INVALID"]
  IN  IF creates THEN [u EXCEPT !.fd = TRUE, !.tempfile_created = TRUE]
                 ELSE SetTxnStatus(u, "FILESTORE_REJECTION")

(* status is what the history entry says, held what the chunk list holds.  *)
SetupRxTransaction(p, status, has_chunks, held, creates) ==
  LET t == AllocChunkList([R_None EXCEPT !.txn_stat = status], has_chunks)
  IN  IF ~TxnIsOK(t) THEN [t EXCEPT !.state = "HOLD"]
      ELSE R_Init([t EXCEPT !.reliable = (p.class = 2), !.chunks = held,
                            !.state = IF p.class = 2 THEN "R2" ELSE "R1"],
                  creates)

-------------------------------------------------------------------------------
(* Received PDUs: the possible transactions after the handler.  seeks and  *)
(* writes say whether the file operations succeed.                         *)

R_RecvEof(t, p) ==
  LET u == IF t.eof_count # 0 THEN t
           ELSE SetTxnStatus([t EXCEPT !.eof_size = p.size], p.cc)
  IN  IF CheckAckNakCount(u.eof_count)
        THEN [u EXCEPT !.eof_count = @ + 1]
        ELSE SetTxnStatus(u, "POS_ACK_LIMIT_REACHED")

R_RecvMd(t, p) ==
  IF t.md_recv THEN t
  ELSE [t EXCEPT !.md_recv = TRUE, !.fsize = p.size, !.close_req = p.close_req]

(* Whether a file data PDU ends up in the temporary file. *)
R_Stores(t, p, seeks, writes) ==
  t.fd /\ writes /\ (t.cached_pos = p.offset \/ seeks)

R_RecvFd(t, p, seeks, writes) ==
  IF R_Stores(t, p, seeks, writes)
    THEN {[t EXCEPT !.cached_pos = p.offset + 1, !.acknak_count = 0, !.chunks = c]
            : c \in LearnOutcomes(t.chunks, {p.offset}, RxChunks)}
  ELSE IF t.cached_pos # p.offset /\ ~(t.fd /\ seeks)
    THEN {SetTxnStatus(t, "FILE_SIZE_ERROR")}
  ELSE {SetTxnStatus([t EXCEPT !.cached_pos = p.offset], "FILESTORE_REJECTION")}

R_AcceptsFd(t, p) ==
  /\ p.type = "FILEDATA"
  /\ (p.class = 2) = t.reliable
  /\ Active(t)
  /\ TxnIsOK(t)

(* The directive handlers of R1 and R2, by sub-state. *)
R_Directive(t, p) ==
  CASE p.type = "EOF" /\ (t.reliable \/ t.sub_state \in {"DATA_NORMAL", "DATA_EOF"}) ->
         R_RecvEof(t, p)
    [] p.type = "METADATA" /\ t.sub_state \in {"DATA_NORMAL", "DATA_EOF"} ->
         R_RecvMd(t, p)
    [] p.type = "ACK" /\ t.reliable /\ t.sub_state \in {"FINACK", "COMPLETE"} ->
         [t EXCEPT !.finack_recv = (@ \/ p.directive = "FIN")]
    [] OTHER -> t

R_Recv(t, p, seeks, writes) ==
  IF (p.class = 2) # t.reliable THEN {t}
  ELSE IF t.state = "HOLD" THEN {IF p.type = "EOF" THEN R_RecvEof(t, p) ELSE t}
  ELSE IF R_AcceptsFd(t, p) THEN R_RecvFd(t, p, seeks, writes)
  ELSE {R_Directive(t, p)}

-------------------------------------------------------------------------------
(* The CRC of the temporary file, computed a few segments per wakeup.      *)

R_CalcCrcStart(t, works) ==
  IF t.fsize # t.eof_size \/ ~works
    THEN SetTxnStatus(t, "FILE_SIZE_ERROR")
    ELSE [t EXCEPT !.crc_pos = 0, !.cached_pos = 0]

R_CalcCrcChunk(t, temp, works) ==
  LET end == IF t.cached_pos + CrcPerWakeup > t.fsize THEN t.fsize
             ELSE t.cached_pos + CrcPerWakeup
      InFile    == \E s \in temp : s >= end - 1
      Continues == t.crc_pos = t.cached_pos /\ t.cached_pos .. end - 1 \subseteq temp
  IN  IF t.cached_pos >= t.fsize THEN t
      ELSE IF works /\ InFile
        THEN [t EXCEPT !.cached_pos = end, !.crc_pos = IF Continues THEN end ELSE NoCrc]
      ELSE SetTxnStatus(t, "FILE_SIZE_ERROR")

(* Mutant: the checksum is not compared. *)
R_CrcMatches_Skipped(t) == TRUE

R_CrcMatches(t) == t.crc_pos = t.fsize

-------------------------------------------------------------------------------
(* CF_CFDP_R_CheckState *)

(* Mutant: the last segment is not looked for. *)
R_CheckComplete_OffByOne(t) ==
  ~t.send_nak /\ t.eof_count # 0 /\ t.md_recv /\ Missing(t.chunks, t.fsize - 1) = {}

R_CheckComplete(t) ==
  /\ ~t.send_nak
  /\ t.eof_count # 0
  /\ t.md_recv
  /\ Missing(t.chunks, t.fsize) = {}

(* Whether CF_CFDP_R_HandleFileRetention gets as far as to move the        *)
(* temporary file into its place.                                          *)
R_Moves(t) == t.tempfile_created /\ t.is_complete /\ TxnIsOK(t) /\ R_CrcMatches(t)

R_Discarded(t, dc) ==
  [t EXCEPT !.fin_dc = dc,
            !.fin_fs = IF t.txn_stat = "FILESTORE_REJECTION"
                         THEN "DISCARDED_FILESTORE" ELSE "DISCARDED"]

(* Mutant: a file that cannot be moved into place is reported as retained. *)
R_HandleFileRetention_Unchecked(t, moves) ==
  LET u == [t EXCEPT !.fd = FALSE]
  IN  IF R_Moves(t)
        THEN [u EXCEPT !.txn_stat = "NO_ERROR", !.fin_dc = "COMPLETE",
                       !.fin_fs = "RETAINED"]
        ELSE R_Discarded(SetTxnStatus(u, "INVALID_FILE_STRUCTURE"), "INCOMPLETE")

R_HandleFileRetention(t, moves) ==
  LET u == [t EXCEPT !.fd = FALSE]
  IN  IF ~t.tempfile_created
        THEN SetTxnStatus([u EXCEPT !.fin_dc = "INVALID", !.fin_fs = "INVALID"],
                          "FILESTORE_REJECTION")
      ELSE IF ~t.is_complete
        THEN R_Discarded(SetTxnStatus(u, "INVALID_FILE_STRUCTURE"), "INCOMPLETE")
      ELSE IF ~R_Moves(t)
        THEN R_Discarded(SetTxnStatus(u, "FILE_CHECKSUM_FAILURE"), "COMPLETE")
      ELSE IF ~moves
        THEN R_Discarded(SetTxnStatus(u, "FILESTORE_REJECTION"), "COMPLETE")
      ELSE [u EXCEPT !.txn_stat = "NO_ERROR", !.fin_dc = "COMPLETE",
                     !.fin_fs = "RETAINED"]

(* One-time entry of a new sub-state. *)
R_Enter(t, next, works) ==
  LET u == [t EXCEPT !.sub_state = next, !.ack_timer_armed = FALSE]
  IN  CASE next = "DATA_EOF" ->
             [u EXCEPT !.acknak_count = 0, !.send_nak = (@ \/ t.reliable)]
        [] next = "VALIDATE" -> R_CalcCrcStart(u, works)
        [] next = "FINACK"   -> [u EXCEPT !.acknak_count = 0, !.send_fin = TRUE]
        [] next = "COMPLETE" -> FinishTransaction(u)
        [] OTHER             -> u

R_CheckState_DATA_NORMAL(t, works) ==
  IF t.eof_count # 0 THEN R_Enter(t, "DATA_EOF", works)
  ELSE IF ~TxnIsOK(t) THEN R_Enter(t, "FILESTORE", works)
  ELSE t

R_CheckState_DATA_EOF(t, works) ==
  IF ~TxnIsOK(t) THEN R_Enter(t, "FILESTORE", works)
  ELSE IF R_CheckComplete(t)
    THEN R_Enter([t EXCEPT !.is_complete = TRUE], "VALIDATE", works)
  ELSE IF ~t.reliable \/ t.send_nak \/ t.ack_timer_armed THEN t
  ELSE IF CheckAckNakCount(t.acknak_count)
    THEN [t EXCEPT !.acknak_count = @ + 1, !.send_nak = TRUE]
  ELSE R_Enter(SetTxnStatus(t, "NAK_LIMIT_REACHED"), "FILESTORE", works)

R_CheckState_VALIDATE(t, temp, works) ==
  IF ~TxnIsOK(t) \/ t.cached_pos = t.fsize
    THEN R_Enter(t, "FILESTORE", works)
    ELSE R_CalcCrcChunk(t, temp, works)

R_CheckState_FILESTORE(t, works) ==
  R_Enter(R_HandleFileRetention(t, works),
          IF t.reliable \/ t.close_req THEN "FINACK" ELSE "COMPLETE", works)

(* Mutant: a late error sends the transaction back to FILESTORE. *)
R_CheckState_FINACK_Back(t, works) ==
  IF ~TxnIsOK(t) /\ ~t.send_fin THEN R_Enter(t, "FILESTORE", works)
  ELSE IF t.finack_recv \/ t.inactivity_fired THEN R_Enter(t, "COMPLETE", works)
  ELSE t

R_CheckState_FINACK(t, works) ==
  IF t.send_fin THEN t
  ELSE IF ~t.reliable \/ t.finack_recv \/ t.inactivity_fired
    THEN R_Enter(t, "COMPLETE", works)
  ELSE IF t.ack_timer_armed THEN t
  ELSE IF CheckAckNakCount(t.acknak_count)
    THEN [t EXCEPT !.acknak_count = @ + 1, !.send_fin = TRUE]
  ELSE R_Enter(t, "COMPLETE", works)

R_CheckState(t, temp, works) ==
  CASE t.sub_state = "DATA_NORMAL" -> R_CheckState_DATA_NORMAL(t, works)
    [] t.sub_state = "DATA_EOF"    -> R_CheckState_DATA_EOF(t, works)
    [] t.sub_state = "VALIDATE"    -> R_CheckState_VALIDATE(t, temp, works)
    [] t.sub_state = "FILESTORE"   -> R_CheckState_FILESTORE(t, works)
    [] t.sub_state = "FINACK"      -> R_CheckState_FINACK(t, works)
    [] OTHER                       -> t

-------------------------------------------------------------------------------
(* CF_CFDP_R_Tick: w.inactive and w.expired say that the inactivity and    *)
(* the ACK timer have run out, w.works that file operations succeed, and   *)
(* w.blocked that no message can be sent.                                  *)

(* Mutant: the timer stands still once the transaction has ended. *)
R_InactivityTick_ActiveOnly(t, w) ==
  IF w.inactive /\ ~t.inactivity_fired /\ Active(t)
    THEN SetTxnStatus([t EXCEPT !.inactivity_fired = TRUE], "INACTIVITY_DETECTED")
    ELSE t

R_InactivityTick(t, w) ==
  IF w.inactive /\ ~t.inactivity_fired
    THEN LET u == [t EXCEPT !.inactivity_fired = TRUE]
         IN  IF Active(t) THEN SetTxnStatus(u, "INACTIVITY_DETECTED") ELSE u
    ELSE t

R_AckTimerTick(t, w) ==
  IF t.reliable /\ w.expired THEN [t EXCEPT !.ack_timer_armed = FALSE] ELSE t

R_EofAckDue(t) == t.reliable /\ t.eof_ack_count # t.eof_count

(* The gaps that a NAK reports.  A full list reports one gap less. *)
R_Gaps(t) ==
  GapBytes(t.chunks, IF NumRuns(t.chunks) < RxChunks THEN RxChunks ELSE RxChunks - 1,
           t.fsize)

R_NakSends(t) == ~t.md_recv \/ R_Gaps(t) # {}

(* The one control PDU that CF_CFDP_R_Tick_Maintenance sends. *)
R_Due(t) ==
  IF R_EofAckDue(t)
    THEN {[type |-> "ACK", class |-> GetClass(t), directive |-> "EOF"]}
  ELSE IF t.send_nak
    THEN IF R_NakSends(t)
           THEN {[type |-> "NAK", class |-> GetClass(t), metadata |-> ~t.md_recv,
                  segments |-> IF t.md_recv THEN R_Gaps(t) ELSE {}]}
           ELSE {}
  ELSE IF t.send_fin
    THEN {[type |-> "FIN", class |-> GetClass(t), cc |-> To_ConditionCode(t.txn_stat),
           delivery_code |-> t.fin_dc, file_status |-> t.fin_fs]}
  ELSE {}

R_Sent(t) ==
  IF R_EofAckDue(t) THEN [t EXCEPT !.eof_ack_count = t.eof_count]
  ELSE IF t.send_nak
    THEN [t EXCEPT !.send_nak = FALSE, !.ack_timer_armed = (@ \/ R_NakSends(t))]
  ELSE IF t.send_fin
    THEN [t EXCEPT !.send_fin = FALSE, !.ack_timer_armed = (@ \/ t.reliable)]
  ELSE t

(* The transaction when R_Tick comes to its maintenance part. *)
R_Checked(t, temp, w) ==
  LET u == R_InactivityTick(t, w)
  IN  IF Active(t) THEN R_CheckState(R_AckTimerTick(u, w), temp, w.works) ELSE u

R_Tick(t, temp, w) ==
  LET u == R_Checked(t, temp, w)
      v == IF w.blocked THEN u ELSE R_Sent(u)
  IN  IF v.inactivity_fired /\ v.state = "HOLD" THEN R_None ELSE v

R_TickSends(t, temp, w) == IF w.blocked THEN {} ELSE R_Due(R_Checked(t, temp, w))

(* Whether this tick's CF_CFDP_R_CheckState disposes of the temporary      *)
(* file, and whether by moving it to its destination: by then the          *)
(* inactivity timer may have made the transaction fail.                    *)
R_Files(t) == Active(t) /\ t.sub_state = "FILESTORE"

R_Retains(t, w) == R_Files(t) /\ R_Moves(R_InactivityTick(t, w)) /\ w.works
===============================================================================
