------------------------------- MODULE CF_Cfdp -------------------------------
(***************************************************************************)
(* What the send and the receive state machines of CF share: transaction   *)
(* status, condition codes, the ACK/NAK limit, the class a PDU is marked   *)
(* with, and the PDUs themselves.  A file is FileSize segments, each the   *)
(* data of one file data PDU; offsets count segments.                      *)
(***************************************************************************)
EXTENDS CF_Runs

CONSTANTS FileSize,    \* size of the file sent, in segments
          AckLimit,    \* CF_ChannelConfig_t.ack_limit
          HistStatuses \* statuses that a history entry may hold when it is taken

ASSUME FileSizeAssumption == FileSize \in Nat
ASSUME AckLimitAssumption == AckLimit \in Nat

Segs == 0 .. FileSize - 1

-------------------------------------------------------------------------------
(* CF_TxnStatus_t, without its common prefix: the codes that a PDU cannot  *)
(* carry and the condition codes that it can.  Values that no code assigns *)
(* are left out, UNDEFINED among them: the history entry of a transaction  *)
(* starts as zero, NO_ERROR, or with what its last transaction left in it. *)

LocalStatuses == {"EARLY_FIN", "READ_FAILURE", "NO_RESOURCE"}

ConditionCodes ==
  {"NO_ERROR", "POS_ACK_LIMIT_REACHED", "FILESTORE_REJECTION",
   "FILE_CHECKSUM_FAILURE", "FILE_SIZE_ERROR", "NAK_LIMIT_REACHED",
   "INACTIVITY_DETECTED", "INVALID_FILE_STRUCTURE", "CANCEL_REQUEST_RECEIVED"}

TxnStatuses == LocalStatuses \cup ConditionCodes

ASSUME HistStatusesAssumption == HistStatuses \subseteq TxnStatuses

IsError(status) == status # "NO_ERROR"

TxnIsOK(t) == ~IsError(t.txn_stat)

(* The first error sticks; a success does not. *)
SetTxnStatus(t, status) ==
  IF TxnIsOK(t) THEN [t EXCEPT !.txn_stat = status] ELSE t

(* A transaction that finds no chunk list on the channel's free list. *)
AllocChunkList(t, available) ==
  IF available THEN t ELSE SetTxnStatus(t, "NO_RESOURCE")

(* Mutant: the cancel is noted but is no error. *)
CancelTransaction_NoStatus(t) == [t EXCEPT !.canceled = TRUE]

CancelTransaction(t) ==
  IF t.canceled THEN t
  ELSE SetTxnStatus([t EXCEPT !.canceled = TRUE], "CANCEL_REQUEST_RECEIVED")

(* Mutant: the file stays open. *)
FinishTransaction_NoClose(t) == [t EXCEPT !.state = "HOLD"]

(* The end of CF_CFDP_FinishTransaction; its bookkeeping is CF_TxnPool's.  *)
FinishTransaction(t) == [t EXCEPT !.fd = FALSE, !.state = "HOLD"]

To_ConditionCode(status) ==
  IF status \in ConditionCodes THEN status
                             ELSE "CANCEL_REQUEST_RECEIVED"

(* Mutant: one more than the limit. *)
CheckAckNakCount_OffByOne(count) == count <= AckLimit

(* CF_CFDP_CheckAckNakCount counts up to ack_limit and then says no. *)
CheckAckNakCount(count) == count < AckLimit

Active(t) == t.state \in {"S1", "S2", "R1", "R2"}

(* The class that CF_CFDP_ConstructPduHeader writes into a PDU comes from  *)
(* the state, so a transaction in HOLD marks its PDUs class 1.             *)
GetClass(t) == IF t.state \in {"S2", "R2"} THEN 2 ELSE 1

-------------------------------------------------------------------------------
(* PDUs, the header reduced to the class it announces. *)

Classes == {1, 2}
DeliveryCodes == {"INVALID", "COMPLETE", "INCOMPLETE", "UNREPORTED"}
FileStatuses == {"INVALID", "DISCARDED", "DISCARDED_FILESTORE", "RETAINED"}

Metadata ==
  [type : {"METADATA"}, class : Classes, size : 0 .. FileSize, close_req : BOOLEAN]
FileData == [type : {"FILEDATA"}, class : Classes, offset : Segs]
Eof == [type : {"EOF"}, class : Classes, cc : ConditionCodes, size : 0 .. FileSize]
Nak == [type : {"NAK"}, class : Classes, metadata : BOOLEAN, segments : SUBSET Segs]
Fin == [type : {"FIN"}, class : Classes, cc : ConditionCodes,
        delivery_code : DeliveryCodes, file_status : FileStatuses]
Ack(directives) == [type : {"ACK"}, class : Classes, directive : directives]

ToReceiver == Metadata \cup FileData \cup Eof \cup Ack({"FIN"})
ToSender   == Nak \cup Fin \cup Ack({"EOF"})
===============================================================================
