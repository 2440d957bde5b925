-------------------------------- MODULE CF_Wire --------------------------------
(***************************************************************************)
(* PDUs on their way through the software bus: how cf_cfdp.c builds and    *)
(* encodes them, CF_CFDP_MsgOutGet and CF_CFDP_Send hand them to the bus,  *)
(* and CF_CFDP_ReceiveMessage decodes and checks them.  On the way a PDU   *)
(* may be cut short, and a peer may use what CF only receives: PDU CRCs,   *)
(* large files, identifiers of more octets.                                *)
(*                                                                         *)
(* One transaction, of entity src towards entity dst; both ends are CF.    *)
(***************************************************************************)
EXTENDS CF_Codec, CF_Crc

CONSTANTS EntityIds, SeqNums,
          MaxPduSize,       \* CF_MAX_PDU_SIZE
          MaxFilename,      \* CF_FILENAME_MAX_LEN, with its final NUL
          NameLengths,      \* lengths of the names of files
          Codes,            \* condition codes
          FileLength,       \* octets of the file that is sent
          ChunkSizes,       \* values of outgoing_file_chunk_size
          CrcSizes,         \* octets that the receiver digests at a time
          CutSizes,         \* bound of the model: what is cut off file data
          Junk              \* an octet as bus buffers hold it when allocated

(* What a field of 32 bits holds: TLC has no number as large as 2^32. *)
Numbers32 == {v \in Nat : v \div 65536 < 65536}

ASSUME WireAssumption ==
  /\ EntityIds \cup SeqNums \cup {FileLength} \subseteq Numbers32
  /\ ChunkSizes \cup CrcSizes \subseteq Nat \ {0}
  /\ MaxFilename \in Octet /\ NameLengths \subseteq 0 .. MaxFilename
  /\ Codes \subseteq 0 .. 15 /\ CutSizes \subseteq Nat /\ Junk \in Octet /\ Radix <= 256

(***************************************************************************)
(* The longest PDU, a NAK with all its segments, the longest metadata or   *)
(* an EOF with a fault location, fits: the default configuration has 512   *)
(* octets for 58 segments.  The length field has 16 bits.                  *)
(***************************************************************************)
LongestHeader == HeaderSize + 3 * EntityIdSize
ASSUME SizeAssumption ==
  /\ MaxPduSize >= LongestHeader + 1 + 8 + 8 * MaxSegments
  /\ MaxPduSize >= LongestHeader + 1 + 5 + 2 * (1 + MaxFilename)
  /\ MaxPduSize >= LongestHeader + 1 + 9 + 2 + EntityIdSize
  /\ MaxPduSize \in Nat /\ MaxPduSize < 65536

VARIABLES
  txn,      \* the identity of the transaction, and the sender's progress
  out_msg,  \* engine.out.msg: whether a buffer is held for a PDU being built
  buffers,  \* how many buffers the bus has given and not got back
  wire,     \* the message under way, with the PDU that it was meant to be
  rx,       \* what CF_CFDP_ReceiveMessage made of the last message
  file      \* the octets that the receiver has written, by offset

vars == <<txn, out_msg, buffers, wire, rx, file>>

FileData == 0               \* "directive_code == 0 if file data"
DirectiveCode == [EOF |-> 4, FIN |-> 5, ACK |-> 6, METADATA |-> 7, NAK |-> 8]
ToReceiver == 0
ToSender == 1

Unwritten == Radix
NoMessage == [base |-> <<>>, size |-> 0, ph |-> [code |-> FileData], how |-> "none"]
Nothing == [ret |-> "NONE", h |-> NoHeader, code |-> FileData, body |-> <<>>]

(* Names with a final NUL are below MaxFilename; one of that length is what *)
(* only a peer may send.                                                    *)
Names == {[i \in 1 .. n |-> 65 + (i % 26)] : n \in NameLengths}

(* The file: every word differs, and so do the digits of most words. *)
File == [i \in 1 .. FileLength |-> (i * i + i \div 4) % Radix]

-------------------------------------------------------------------------------
(* Building a PDU: the logical buffer is its encoder, header and body. *)

EncodeStart == CodecState([i \in 1 .. MaxPduSize |-> Junk], MaxPduSize)

(* Both ends name the entities of the transaction in the same order. *)
ConstructPduHeader(directive_code, towards_sender) ==
  LET larger == IF txn.src > txn.dst THEN txn.src ELSE txn.dst
      h == [NoHeader EXCEPT
        !.version = 1, !.pdu_type = IF directive_code = FileData THEN 1 ELSE 0,
        !.direction = towards_sender, !.txm_mode = IF txn.class = 1 THEN 1 ELSE 0,
        !.eid_length = GetValueEncodedSize(larger),
        !.txn_seq_length = GetValueEncodedSize(txn.seq),
        !.source_eid = txn.src, !.destination_eid = txn.dst, !.sequence_num = txn.seq]
      e == EncodeHeaderWithoutSize(EncodeStart, h)
  IN  [s |-> IF directive_code = FileData THEN e.s
                                         ELSE EncodeFileDirectiveHeader(e.s, directive_code),
       h |-> e.h]

SetPduLength(ph) ==
  LET final_pos == ph.s.next_offset
      h == IF final_pos >= ph.h.header_encoded_length
             THEN [ph.h EXCEPT !.data_encoded_length = final_pos - ph.h.header_encoded_length]
             ELSE ph.h
  IN  [ph EXCEPT !.s = EncodeHeaderFinalSize(ph.s, h), !.h = h]

(* CF_CFDP_AppendTlv: the entity that reports an error. *)
FaultLocation(cc, local_eid) ==
  IF cc = 0 THEN <<>>
  ELSE <<Tlv(EntityIdTlv, GetValueEncodedSize(local_eid), local_eid)>>

EncodedBody(p, directive_code, body) ==
  [s    |-> CASE directive_code = DirectiveCode.METADATA -> EncodeMd(p.s, body)
              [] directive_code = DirectiveCode.EOF -> EncodeEof(p.s, body)
              [] directive_code = DirectiveCode.FIN -> EncodeFin(p.s, body)
              [] directive_code = DirectiveCode.ACK -> EncodeAck(p.s, body)
              [] directive_code = DirectiveCode.NAK -> EncodeNak(p.s, body),
   h    |-> p.h, code |-> directive_code, body |-> body]

Built(directive_code, towards_sender, body) ==
  EncodedBody(ConstructPduHeader(directive_code, towards_sender), directive_code, body)

-------------------------------------------------------------------------------
(* The bus *)

(* CF_CFDP_MsgOutGet with a buffer to be had; CF_Tick says when there is   *)
(* none.  A buffer that is still held is released first.                   *)
MsgOutGet == buffers - (IF out_msg THEN 1 ELSE 0) + 1

(* CF_CFDP_Send, after CF_CFDP_MsgOutGet; what was received before matters *)
(* no more.                                                                *)
Send(built) ==
  LET ph == SetPduLength(built)
  IN  /\ out_msg' = FALSE
      /\ buffers' = MsgOutGet
      /\ rx' = Nothing
      /\ wire' = [base |-> ph.s.base, how |-> "whole",
                  size |-> ph.h.header_encoded_length + ph.h.data_encoded_length,
                  ph   |-> [h |-> ph.h, code |-> ph.code, body |-> ph.body, ok |-> built.s.is_valid]]

-------------------------------------------------------------------------------
(* Sending *)

(* Bound of the model: directives are exchanged before the file data; the  *)
(* codec keeps nothing from one PDU to the next.                           *)
MayBuild == wire = NoMessage /\ txn.foffs = 0

SendDirective(directive_code, towards_sender, body) ==
  /\ Send(Built(directive_code, towards_sender, body))
  /\ UNCHANGED <<txn, file>>

SendMd ==
  /\ MayBuild
  /\ \E close_req \in 0 .. 1, src_filename, dst_filename \in Names :
       SendDirective(DirectiveCode.METADATA, ToReceiver,
         [close_req |-> close_req, checksum_type |-> 0, size |-> FileLength,
          source_filename |-> src_filename, dest_filename |-> dst_filename])

(* From the receiver, in answer to an EOF, or from the sender, to a FIN. *)
SendAck ==
  /\ MayBuild
  /\ \E answered \in {"EOF", "FIN"}, peer_cc \in Codes, txn_status \in 0 .. 3 :
       SendDirective(DirectiveCode.ACK, IF answered = "EOF" THEN ToSender ELSE ToReceiver,
         [ack_directive_code |-> DirectiveCode[answered],
          ack_subtype_code |-> IF answered = "FIN" THEN 1 ELSE 0,
          cc |-> peer_cc, txn_status |-> txn_status])

SendFin ==
  /\ MayBuild
  /\ \E cc \in Codes, fin_dc \in 0 .. 1, fin_fs \in 0 .. 3 :
       SendDirective(DirectiveCode.FIN, ToSender,
         [cc |-> cc, delivery_code |-> fin_dc, file_status |-> fin_fs,
          tlv_list |-> FaultLocation(cc, txn.dst)])

(* n requests of different lengths, from small offsets or from large ones. *)
NakSegments(first, n) == [i \in 1 .. n |-> Segment(first + i, first + 300 * i)]

SendNak ==
  /\ MayBuild
  /\ \E first \in {0, 70000}, n \in 0 .. MaxSegments :
       SendDirective(DirectiveCode.NAK, ToSender,
         [scope_start |-> 0, scope_end |-> FileLength,
          segment_list |-> NakSegments(first, n)])

(* At the end of the file, or, with an error, in the middle of it. *)
SendEof ==
  /\ wire = NoMessage
  /\ \E cc \in Codes :
       /\ cc = 0 => txn.foffs = FileLength
       /\ LET crc == CRC_Finalize(txn.crc)
          IN  Send(Built(DirectiveCode.EOF, ToReceiver,
                [cc |-> cc, crc |-> crc.result, size |-> FileLength,
                 tlv_list |-> FaultLocation(cc, txn.src)]))
  /\ UNCHANGED <<txn, file>>

(* Mutant: the encoded header is not deducted from the room in the PDU. *)
ActualBytes_WholePdu(s, bytes_to_read, chunk_size) ==
  Min({s.max_size, bytes_to_read, chunk_size})

ActualBytes(s, bytes_to_read, chunk_size) == Min({GetRemain(s), bytes_to_read, chunk_size})

(* CF_CFDP_S_SendFileData behind the header p, with the octets that it     *)
(* reads.                                                                  *)
FileDataBehind(p, chunk_size) ==
  LET e == EncodeFileDataHeader(p.s, p.h.segment_meta_flag = 1, [NoFd EXCEPT !.offset = txn.foffs])
      n == ActualBytes(e, FileLength - txn.foffs, chunk_size)
      data == SubSeq(File, txn.foffs + 1, txn.foffs + n)
  IN  [s |-> Encode(e, data), h |-> p.h, code |-> FileData,
       body |-> [NoFd EXCEPT !.offset = txn.foffs, !.data = data]]

FileDataPdu(chunk_size) == FileDataBehind(ConstructPduHeader(FileData, ToReceiver), chunk_size)

(* CF_CFDP_S_SubstateSendFileData, when the file can be read. *)
SendFileData ==
  /\ wire = NoMessage /\ txn.foffs < FileLength
  /\ \E pdu \in {FileDataPdu(chunk_size) : chunk_size \in ChunkSizes} :
       /\ Send(pdu)
       /\ txn' = [txn EXCEPT !.foffs = @ + Len(pdu.body.data),
                             !.crc = CRC_Digest(@, pdu.body.data)]
  /\ UNCHANGED file

(* It cannot: the message was taken all the same. *)
ReadFails ==
  /\ wire = NoMessage /\ txn.foffs < FileLength
  /\ out_msg' = TRUE /\ buffers' = MsgOutGet
  /\ UNCHANGED <<txn, wire, rx, file>>

-------------------------------------------------------------------------------
(* Under way *)

Altered(m) ==
  /\ wire.how = "whole" /\ wire' = m
  /\ UNCHANGED <<txn, out_msg, buffers, rx, file>>

(* What lies behind a shorter message is not the message that was sent. *)
CutShort ==
  \E n \in IF wire.ph.code = FileData THEN CutSizes ELSE 1 .. wire.size :
    /\ n <= wire.size
    /\ Altered([wire EXCEPT !.size = @ - n, !.how = "cut",
                   !.base = [i \in DOMAIN @ |-> IF i > wire.size - n THEN Junk ELSE @[i]]])

SetFlag(base, flag) == [base EXCEPT ![1] = @ + flag]

(* A peer sends file data with a CRC of the PDU, which CF ignores. *)
WithCrc ==
  /\ wire.ph.code = FileData /\ wire.size + 4 <= MaxPduSize
  /\ Altered([wire EXCEPT !.base = SetFlag(SubSeq(@, 1, wire.size) \o <<1, 2, 3, 4>>, 2),
                          !.size = @ + 4, !.how = "crc"])

(* What CF does not support: 64-bit sizes, and identifiers too long. *)
LargeFile == Altered([wire EXCEPT !.base = SetFlag(@, 1), !.how = "unsupported"])

LongIds ==
  LET h == wire.ph.h
      e == EncodeHeaderWithoutSize(EncodeStart, [h EXCEPT !.eid_length = EntityIdSize + 1])
  IN  Altered([wire EXCEPT !.base = SubSeq(e.s.base, 1, e.h.header_encoded_length)
                                      \o SubSeq(@, h.header_encoded_length + 1, wire.size),
                           !.size = @ - h.header_encoded_length + e.h.header_encoded_length,
                           !.how = "unsupported"])

-------------------------------------------------------------------------------
(* Receiving: s is the decoder, h the header *)

DecodeStart(m) ==
  LET s == CodecState(m.base, m.size) IN IF m.size > 0 THEN s ELSE SetDone(s)

Rejected(ret) == [Nothing EXCEPT !.ret = ret]

(* CF_CFDP_RecvPh, when the header is decoded. *)
CheckedPh(d) ==
  LET directive == d.s.is_valid /\ d.v.pdu_type = 0
      c == DecodeFileDirectiveHeader(d.s)
      e == IF directive THEN c.s ELSE d.s
  IN  [s |-> e, h |-> d.v, code |-> IF directive THEN c.v ELSE FileData,
       ret |-> IF ~d.ok \/ (d.s.is_valid /\ d.v.large_flag = 1) THEN "CF_ERROR"
               ELSE IF ~e.is_valid THEN "CF_SHORT_PDU_ERROR" ELSE "CFE_SUCCESS"]

RecvPh(s) == CheckedPh(DecodeHeader(s))

(* CF_CFDP_CopyStringFromLV leaves room for the final NUL. *)
FitsString(octets) == Len(octets) < MaxFilename

RecvMd(s) ==
  LET d == DecodeMd(s)
  IN  [body |-> d.v,
       ret  |-> IF /\ d.s.is_valid
                   /\ FitsString(d.v.source_filename) /\ FitsString(d.v.dest_filename)
                  THEN "CFE_SUCCESS" ELSE "CF_PDU_METADATA_ERROR"]

WithoutCrc(data) == SubSeq(data, 1, Len(data) - 4)

RecvFd(s, h) ==
  LET d == DecodeFileDataHeader(s, h.segment_meta_flag = 1)
      short == ~d.s.is_valid \/ (h.crc_flag = 1 /\ Len(d.v.data) < 4)
  IN  [body |-> IF ~short /\ h.crc_flag = 1
                  THEN [d.v EXCEPT !.data = WithoutCrc(@)] ELSE d.v,
       ret  |-> IF short THEN "CF_SHORT_PDU_ERROR"
                ELSE IF h.segment_meta_flag = 1 THEN "CF_ERROR" ELSE "CFE_SUCCESS"]

(* CF_CFDP_RecvEof, RecvAck, RecvFin and RecvNak: only their length. *)
Whole(d) == [body |-> d.v, ret |-> IF d.s.is_valid THEN "CFE_SUCCESS" ELSE "CF_SHORT_PDU_ERROR"]

RecvEof(s) == Whole(DecodeEof(s))
RecvAck(s) == Whole(DecodeAck(s))
RecvFin(s) == Whole(DecodeFin(s))
RecvNak(s) == Whole(DecodeNak(s))

(* The handler that the dispatch tables have for a PDU. *)
Handled(p) ==
  CASE p.h.pdu_type = 1 -> RecvFd(p.s, p.h)
    [] p.code = DirectiveCode.METADATA -> RecvMd(p.s)
    [] p.code = DirectiveCode.EOF -> RecvEof(p.s)
    [] p.code = DirectiveCode.FIN -> RecvFin(p.s)
    [] p.code = DirectiveCode.ACK -> RecvAck(p.s)
    [] p.code = DirectiveCode.NAK -> RecvNak(p.s)
    [] OTHER -> Rejected("CF_ERROR")

Answer(p, d) ==
  IF d.ret # "CFE_SUCCESS" THEN Rejected(d.ret)
  ELSE [ret |-> d.ret, h |-> p.h, code |-> p.code, body |-> d.body]

Dispatched(p) ==
  IF p.ret # "CFE_SUCCESS" THEN Rejected(p.ret) ELSE Answer(p, Handled(p))

Received(m) == Dispatched(RecvPh(DecodeStart(m)))

Write(fd) ==
  [i \in 1 .. FileLength |-> IF i > fd.offset /\ i <= fd.offset + Len(fd.data)
                               THEN fd.data[i - fd.offset] ELSE file[i]]

(* The bus takes its buffer back when the receiver is done with it. *)
Receive ==
  /\ wire # NoMessage
  /\ rx' = Received(wire)
  /\ file' = IF rx'.ret = "CFE_SUCCESS" /\ rx'.code = FileData THEN Write(rx'.body) ELSE file
  /\ wire' = NoMessage
  /\ buffers' = buffers - 1
  /\ UNCHANGED <<txn, out_msg>>

-------------------------------------------------------------------------------

Init ==
  /\ txn \in [src : EntityIds, dst : EntityIds, seq : SeqNums, class : {1, 2},
              foffs : {0}, crc : {CRC_Start}]
  /\ out_msg = FALSE /\ buffers = 0
  /\ wire = NoMessage
  /\ rx = Nothing
  /\ file = [i \in 1 .. FileLength |-> Unwritten]

Next ==
  \/ SendMd \/ SendAck \/ SendFin \/ SendNak \/ SendEof \/ SendFileData \/ ReadFails
  \/ CutShort \/ WithCrc \/ LargeFile \/ LongIds
  \/ Receive

Spec == Init /\ [][Next]_vars

-------------------------------------------------------------------------------

(* Type correctness, part of MessagesAreWhole. *)
TypeOK ==
  /\ txn.foffs \in 0 .. FileLength /\ txn.crc \in [working : Word, result : Word, index : 0 .. 3]
  /\ out_msg \in BOOLEAN
  /\ wire # NoMessage => \A i \in 1 .. wire.size : wire.base[i] \in Octet
  /\ rx.h \in PduHeader
  /\ file \in [1 .. FileLength -> 0 .. Unwritten]

(***************************************************************************)
(* The length field of a PDU, the size of its message and the lengths in   *)
(* its header agree, and it fits: nothing is encoded past the buffer, so   *)
(* the comment of CF_CFDP_SendFd, "this should check if any encoding error *)
(* occurred", has nothing to check.  And no message buffer is lost: what   *)
(* the bus has given is under way or held in engine.out.msg, also when the *)
(* file cannot be read after the buffer was taken.                         *)
(***************************************************************************)
MessagesAreWhole ==
  /\ TypeOK
  /\ buffers = (IF out_msg THEN 1 ELSE 0) + (IF wire # NoMessage THEN 1 ELSE 0)
  /\ wire.how = "whole" =>
       LET b == wire.base
           header == HeaderSize + 2 * (GetField(b[4], 3, 4) + 1) + GetField(b[4], 3, 0) + 1
       IN  /\ wire.ph.ok
           /\ wire.size = header + b[2] * 256 + b[3]
           /\ wire.size <= MaxPduSize

(***************************************************************************)
(* What one CF encodes another CF decodes: every PDU that is not altered   *)
(* is accepted with the header and the body that it was built from, except *)
(* metadata with a name that does not fit, which is rejected.  A CRC that  *)
(* was not asked for does no harm, while PDUs with 64-bit sizes or with    *)
(* identifiers of more octets than are stored are rejected, never misread  *)
(* (CF5025 and CF5026 of the requirements).                                *)
(***************************************************************************)
Meant(r, ph) == r.ret = "CFE_SUCCESS" /\ r.h = ph.h /\ r.code = ph.code /\ r.body = ph.body

NameTooLong(ph) ==
  /\ ph.code = DirectiveCode.METADATA
  /\ MaxFilename \in {Len(ph.body.source_filename), Len(ph.body.dest_filename)}

RoundTrip ==
  [][wire # NoMessage /\ wire' = NoMessage =>
       CASE wire.how = "unsupported" -> rx'.ret = "CF_ERROR"
         [] wire.how = "crc" -> rx'.ret = "CFE_SUCCESS" /\ rx'.body = wire.ph.body
         [] wire.how = "cut" -> TRUE
         [] OTHER -> IF NameTooLong(wire.ph) THEN rx'.ret = "CF_PDU_METADATA_ERROR"
                                             ELSE Meant(rx', wire.ph)]_vars

(***************************************************************************)
(* A PDU that was cut short is rejected, or it is understood as far as it  *)
(* goes: lists and file data may be shorter than they were, and nothing is *)
(* made up from what the buffer held before.                               *)
(***************************************************************************)
Lists == {"tlv_list", "segment_list", "data"}

FarAsItGoes(body, meant) ==
  \A f \in DOMAIN meant : IF f \in Lists THEN IsPrefix(body[f], meant[f]) ELSE body[f] = meant[f]

CutNeverForges ==
  [][wire.how = "cut" /\ wire' = NoMessage =>
       \/ rx'.ret # "CFE_SUCCESS"
       \/ rx'.h = wire.ph.h /\ rx'.code = wire.ph.code /\ FarAsItGoes(rx'.body, wire.ph.body)]_vars

(* The modular checksum of whole words, the last one padded with zeros. *)
ModularSum ==
  LET Digit(i) == IF i <= FileLength THEN File[i] ELSE 0
      WordAt(k) == ((Digit(4*k + 1) * Radix + Digit(4*k + 2)) * Radix + Digit(4*k + 3)) * Radix
                     + Digit(4*k + 4)
  IN  FoldLeft(LAMBDA sum, k : (sum + WordAt(k - 1)) % Power[4], 0,
               [k \in 1 .. (FileLength + 3) \div 4 |-> k])

(* The receiver's checksum, taken n octets at a time. *)
ChecksumBy(n) ==
  LET Piece(i) == SubSeq(file, (i - 1) * n + 1, Min({i * n, FileLength}))
      pieces == [i \in 1 .. (FileLength + n - 1) \div n |-> Piece(i)]
  IN  CRC_Finalize(FoldLeft(CRC_Digest, CRC_Start, pieces)).result

(***************************************************************************)
(* Every octet that the receiver writes is the octet of the file at that   *)
(* offset, also when PDUs are cut short or carry a CRC behind their data;  *)
(* and sender and receiver agree on the checksum of a file that arrived,   *)
(* in whatever pieces the one sent and the other reads it: it is the       *)
(* modular checksum of the file.                                           *)
(***************************************************************************)
ChecksumsAgree ==
  /\ \A i \in 1 .. FileLength : file[i] \in {File[i], Unwritten}
  /\ rx.ret = "CFE_SUCCESS" /\ rx.code = DirectiveCode.EOF /\ rx.body.cc = 0 =>
       /\ rx.body.crc = ModularSum
       /\ file = File => \A n \in CrcSizes : ChecksumBy(n) = rx.body.crc
===============================================================================
