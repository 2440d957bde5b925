------------------------------- MODULE CF_Codec -------------------------------
(***************************************************************************)
(* Encoding and decoding of CFDP PDUs: cf_codec.c on sequences of octets.  *)
(* The modes of a codec state are those of CF_CodecState_t: once it is not *)
(* valid it stays so, whatever fits afterwards.                            *)
(*                                                                         *)
(* An encoder is used by operators that give the encoder afterwards; a     *)
(* decoder by operators that give [s |-> the decoder afterwards, v |-> the *)
(* logical value].  A name is a sequence of octets, and data is identified *)
(* with its octets, where the code keeps pointers into the PDU.  Integers  *)
(* stand for those that a field of 32 bits holds.                          *)
(***************************************************************************)
EXTENDS Integers, Sequences, FiniteSets, SequencesExt

CONSTANTS MaxSegments,      \* CF_PDU_MAX_SEGMENTS
          MaxTlv            \* CF_PDU_MAX_TLV

ASSUME CodecAssumption == MaxSegments \in Nat /\ MaxTlv \in Nat \ {0}

Octet == 0 .. 255
EntityIdTlv == 6            \* CF_CFDP_TLV_TYPE_ENTITY_ID
EntityIdSize == 4           \* sizeof(CF_EntityId_t), sizeof(CF_TransactionSeq_t)

-------------------------------------------------------------------------------
(* Octets and fields *)

(* The n octets of a value, in network order. *)
Octets(v, n) == [k \in 1 .. n |-> IF n - k >= 4 THEN 0 ELSE (v \div 256 ^ (n - k)) % 256]

Value(octets) == FoldLeft(LAMBDA v, octet : v * 256 + octet, 0, octets)

(* FSV into a cleared octet, and FGV. *)
Field(v, nbits, shift) == (v % 2 ^ nbits) * 2 ^ shift
GetField(octet, nbits, shift) == (octet \div 2 ^ shift) % 2 ^ nbits

GetValueEncodedSize(v) ==
  CHOOSE n \in 1 .. 4 : (v < 256 ^ n \/ n = 4) /\ \A k \in 1 .. n - 1 : v >= 256 ^ k

-------------------------------------------------------------------------------
(* The codec state *)

CodecState(base, size) ==
  [is_valid |-> TRUE, next_offset |-> 0, max_size |-> size, base |-> base]

SetDone(s) == [s EXCEPT !.is_valid = FALSE]
GetRemain(s) == s.max_size - s.next_offset

(* Mutant: one octet beyond the end is allowed. *)
CheckSize_OneBeyond(s, n) ==
  IF s.next_offset + n > s.max_size + 1 THEN SetDone(s) ELSE [s EXCEPT !.next_offset = @ + n]

CheckSize(s, n) ==
  IF s.next_offset + n > s.max_size THEN SetDone(s) ELSE [s EXCEPT !.next_offset = @ + n]

(* What CF_CFDP_DoDecodeChunk points at. *)
ChunkAt(s, n) == SubSeq(s.base, s.next_offset + 1, s.next_offset + n)

(* CF_CFDP_DoEncodeChunk, and the octets that its caller stores there. *)
Encode(s, octets) ==
  LET e == CheckSize(s, Len(octets))
      at == s.next_offset
  IN  IF ~e.is_valid THEN e
      ELSE [e EXCEPT !.base = [i \in DOMAIN @ |-> IF i > at /\ i <= at + Len(octets)
                                                    THEN octets[i - at] ELSE @[i]]]

EncodeIntegerInSize(s, v, n) == Encode(s, Octets(v, n))

(* Decoding n octets: those octets, or none when there are fewer. *)
Decode(s, n) ==
  LET d == CheckSize(s, n)
  IN  [s |-> d, v |-> IF d.is_valid THEN ChunkAt(s, n) ELSE <<>>]

DecodeIntegerInSize(s, n) ==
  LET d == Decode(s, n) IN [s |-> d.s, v |-> Value(d.v)]

-------------------------------------------------------------------------------
(* The common header *)

HeaderSize == 4             \* sizeof(CF_CFDP_PduHeader_t)

PduHeader ==
  [version : 0 .. 7, pdu_type : 0 .. 1, direction : 0 .. 1, txm_mode : 0 .. 1,
   crc_flag : 0 .. 1, large_flag : 0 .. 1, segmentation_control : 0 .. 1,
   eid_length : 0 .. 8, segment_meta_flag : 0 .. 1, txn_seq_length : 0 .. 8,
   header_encoded_length : Nat, data_encoded_length : Nat,
   source_eid : Nat, destination_eid : Nat, sequence_num : Nat]

NoHeader ==
  [version |-> 0, pdu_type |-> 0, direction |-> 0, txm_mode |-> 0, crc_flag |-> 0,
   large_flag |-> 0, segmentation_control |-> 0, eid_length |-> 0,
   segment_meta_flag |-> 0, txn_seq_length |-> 0, header_encoded_length |-> 0,
   data_encoded_length |-> 0, source_eid |-> 0, destination_eid |-> 0, sequence_num |-> 0]

(* CF_CFDP_EncodeHeaderWithoutSize: the length, octets 2 and 3, is left as *)
(* the buffer has it, and no use is made of the CRC and large file flags.  *)
EncodeHeaderWithoutSize(s, h) ==
  LET flags == Field(h.version, 3, 5) + Field(h.pdu_type, 1, 4) + Field(h.direction, 1, 3)
                 + Field(h.txm_mode, 1, 2)
      lengths == Field(h.segmentation_control, 1, 7) + Field(h.eid_length - 1, 3, 4)
                   + Field(h.segment_meta_flag, 1, 3) + Field(h.txn_seq_length - 1, 3, 0)
      e == Encode(s, <<flags>> \o SubSeq(s.base, 2, 3) \o <<lengths>>)
      ids == EncodeIntegerInSize(EncodeIntegerInSize(EncodeIntegerInSize(e,
               h.source_eid, h.eid_length), h.sequence_num, h.txn_seq_length),
               h.destination_eid, h.eid_length)
  IN  IF ~e.is_valid THEN [s |-> e, h |-> h]
      ELSE [s |-> ids, h |-> [h EXCEPT !.header_encoded_length = ids.next_offset]]

EncodeHeaderFinalSize(s, h) ==
  IF s.is_valid /\ s.next_offset >= HeaderSize
    THEN SetDone([s EXCEPT !.base = ReplaceAt(ReplaceAt(@, 2, h.data_encoded_length \div 256),
                                              3, h.data_encoded_length % 256)])
    ELSE SetDone(s)

(* The four octets of a header that are always there. *)
FixedHeader(c) ==
  [NoHeader EXCEPT
    !.version = GetField(c[1], 3, 5), !.pdu_type = GetField(c[1], 1, 4),
    !.direction = GetField(c[1], 1, 3), !.txm_mode = GetField(c[1], 1, 2),
    !.crc_flag = GetField(c[1], 1, 1), !.large_flag = GetField(c[1], 1, 0),
    !.segmentation_control = GetField(c[4], 1, 7), !.eid_length = GetField(c[4], 3, 4) + 1,
    !.segment_meta_flag = GetField(c[4], 1, 3), !.txn_seq_length = GetField(c[4], 3, 0) + 1,
    !.data_encoded_length = c[2] * 256 + c[3]]

(* The numbers behind them, if they are not longer than what keeps them. *)
DecodeIds(s, h) ==
  LET src == DecodeIntegerInSize(s, h.eid_length)
      seq == DecodeIntegerInSize(src.s, h.txn_seq_length)
      dst == DecodeIntegerInSize(seq.s, h.eid_length)
  IN  IF h.eid_length > EntityIdSize \/ h.txn_seq_length > EntityIdSize
        THEN [s |-> s, v |-> h, ok |-> FALSE]
      ELSE [s |-> dst.s, ok |-> TRUE,
            v |-> [h EXCEPT !.source_eid = src.v, !.sequence_num = seq.v,
                            !.destination_eid = dst.v,
                            !.header_encoded_length = dst.s.next_offset]]

(* CF_CFDP_DecodeHeader; ok is its return code. *)
DecodeHeader(s) ==
  LET d == Decode(s, HeaderSize)
  IN  IF d.s.is_valid THEN DecodeIds(d.s, FixedHeader(d.v))
                      ELSE [s |-> d.s, v |-> NoHeader, ok |-> TRUE]

EncodeFileDirectiveHeader(s, code) == Encode(s, <<code>>)
DecodeFileDirectiveHeader(s) == DecodeIntegerInSize(s, 1)

-------------------------------------------------------------------------------
(* Length-value and type-length-value fields, segment requests, lists *)

EncodeLV(s, octets) == Encode(Encode(s, <<Len(octets)>>), octets)

DecodeLV(s) ==
  LET length == DecodeIntegerInSize(s, 1)
  IN  IF length.s.is_valid THEN Decode(length.s, length.v)
                           ELSE [s |-> length.s, v |-> <<>>]

(* A TLV other than an entity id is never sent with a value. *)
Tlv(type, length, eid) == [type |-> type, length |-> length, eid |-> eid]

EncodeTLV(s, tlv) ==
  LET e == Encode(s, <<tlv.type, tlv.length>>)
  IN  IF ~e.is_valid THEN e
      ELSE IF tlv.type = EntityIdTlv THEN EncodeIntegerInSize(e, tlv.eid, tlv.length)
      ELSE IF tlv.length > 0 THEN SetDone(CheckSize(e, tlv.length)) ELSE e

DecodeTLV(s) ==
  LET d == Decode(s, 2)
      tlv == Tlv(d.v[1], d.v[2], 0)
      eid == DecodeIntegerInSize(d.s, tlv.length)
  IN  IF ~d.s.is_valid THEN [s |-> d.s, v |-> Tlv(0, 0, 0)]
      ELSE IF tlv.type = EntityIdTlv THEN [s |-> eid.s, v |-> [tlv EXCEPT !.eid = eid.v]]
      ELSE [s |-> CheckSize(d.s, tlv.length), v |-> tlv]

Segment(first, last) == [offset_start |-> first, offset_end |-> last]

EncodeSegmentRequest(s, segment) ==
  Encode(s, Octets(segment.offset_start, 4) \o Octets(segment.offset_end, 4))

DecodeSegmentRequest(s) ==
  LET d == Decode(s, 8)
  IN  [s |-> d.s, v |-> IF d.s.is_valid
                          THEN Segment(Value(SubSeq(d.v, 1, 4)), Value(SubSeq(d.v, 5, 8)))
                          ELSE Segment(0, 0)]

(* Entries are encoded and decoded while the codec state is valid. *)
EncodeAllTlv(s, tlvs) ==
  FoldLeft(LAMBDA e, tlv : IF e.is_valid THEN EncodeTLV(e, tlv) ELSE e, s, tlvs)

EncodeAllSegments(s, segments) ==
  FoldLeft(LAMBDA e, segment : IF e.is_valid THEN EncodeSegmentRequest(e, segment) ELSE e,
           s, segments)

(* An entry counts if it was decoded as a whole. *)
Counted(list, d) == [s |-> d.s, v |-> IF d.s.is_valid THEN Append(list.v, d.v) ELSE list.v]

(* The loops stop at their limit, at an error, or where the PDU ends; with *)
(* the limits in use, "too many" entries are left unread.                  *)
DecodeAllTlv(s, limit) ==
  FoldLeft(LAMBDA list, i : IF list.s.is_valid /\ GetRemain(list.s) # 0
                              THEN Counted(list, DecodeTLV(list.s)) ELSE list,
           [s |-> s, v |-> <<>>], [i \in 1 .. limit |-> i])

DecodeAllSegments(s, limit) ==
  FoldLeft(LAMBDA list, i : IF list.s.is_valid /\ GetRemain(list.s) # 0
                              THEN Counted(list, DecodeSegmentRequest(list.s)) ELSE list,
           [s |-> s, v |-> <<>>], [i \in 1 .. limit |-> i])

-------------------------------------------------------------------------------
(* The directives *)

EncodeMd(s, md) ==
  LET e == Encode(s, <<Field(md.close_req, 1, 7) + Field(md.checksum_type, 4, 0)>>
                       \o Octets(md.size, 4))
  IN  IF e.is_valid THEN EncodeLV(EncodeLV(e, md.source_filename), md.dest_filename) ELSE e

NoMd == [close_req |-> 0, checksum_type |-> 0, size |-> 0, source_filename |-> <<>>,
         dest_filename |-> <<>>]

DecodeMd(s) ==
  LET d   == Decode(s, 5)
      src == DecodeLV(d.s)
      dst == DecodeLV(src.s)
  IN  IF ~d.s.is_valid THEN [s |-> d.s, v |-> NoMd]
      ELSE [s |-> dst.s,
            v |-> [close_req |-> GetField(d.v[1], 1, 7), checksum_type |-> GetField(d.v[1], 4, 0),
                   size |-> Value(SubSeq(d.v, 2, 5)),
                   source_filename |-> src.v, dest_filename |-> dst.v]]

EncodeEof(s, eof) ==
  LET e == Encode(s, <<Field(eof.cc, 4, 4)>> \o Octets(eof.crc, 4) \o Octets(eof.size, 4))
  IN  IF e.is_valid THEN EncodeAllTlv(e, eof.tlv_list) ELSE e

NoEof == [cc |-> 0, crc |-> 0, size |-> 0, tlv_list |-> <<>>]

DecodeEof(s) ==
  LET d == Decode(s, 9)
      tlvs == DecodeAllTlv(d.s, MaxTlv)
  IN  IF ~d.s.is_valid THEN [s |-> d.s, v |-> NoEof]
      ELSE [s |-> tlvs.s,
            v |-> [cc |-> GetField(d.v[1], 4, 4), crc |-> Value(SubSeq(d.v, 2, 5)),
                   size |-> Value(SubSeq(d.v, 6, 9)), tlv_list |-> tlvs.v]]

(* Mutant: the delivery code is put where the file status ends. *)
EncodeFin_Shift(s, fin) ==
  LET e == Encode(s, <<Field(fin.cc, 4, 4) + Field(fin.delivery_code, 1, 1)
                         + Field(fin.file_status, 2, 0)>>)
  IN  IF e.is_valid THEN EncodeAllTlv(e, fin.tlv_list) ELSE e

EncodeFin(s, fin) ==
  LET e == Encode(s, <<Field(fin.cc, 4, 4) + Field(fin.delivery_code, 1, 2)
                         + Field(fin.file_status, 2, 0)>>)
  IN  IF e.is_valid THEN EncodeAllTlv(e, fin.tlv_list) ELSE e

NoFin == [cc |-> 0, delivery_code |-> 0, file_status |-> 0, tlv_list |-> <<>>]

DecodeFin(s) ==
  LET d == DecodeIntegerInSize(s, 1)
      tlvs == DecodeAllTlv(d.s, MaxTlv)
  IN  IF ~d.s.is_valid THEN [s |-> d.s, v |-> NoFin]
      ELSE [s |-> tlvs.s,
            v |-> [cc |-> GetField(d.v, 4, 4), delivery_code |-> GetField(d.v, 1, 2),
                   file_status |-> GetField(d.v, 2, 0), tlv_list |-> tlvs.v]]

EncodeAck(s, ack) ==
  Encode(s, <<Field(ack.ack_directive_code, 4, 4) + Field(ack.ack_subtype_code, 4, 0),
              Field(ack.cc, 4, 4) + Field(ack.txn_status, 2, 0)>>)

NoAck == [ack_directive_code |-> 0, ack_subtype_code |-> 0, cc |-> 0, txn_status |-> 0]

DecodeAck(s) ==
  LET d == Decode(s, 2)
  IN  IF ~d.s.is_valid THEN [s |-> d.s, v |-> NoAck]
      ELSE [s |-> d.s,
            v |-> [ack_directive_code |-> GetField(d.v[1], 4, 4),
                   ack_subtype_code |-> GetField(d.v[1], 4, 0),
                   cc |-> GetField(d.v[2], 4, 4), txn_status |-> GetField(d.v[2], 2, 0)]]

EncodeNak(s, nak) ==
  LET e == Encode(s, Octets(nak.scope_start, 4) \o Octets(nak.scope_end, 4))
  IN  IF e.is_valid THEN EncodeAllSegments(e, nak.segment_list) ELSE e

NoNak == [scope_start |-> 0, scope_end |-> 0, segment_list |-> <<>>]

DecodeNak(s) ==
  LET d == Decode(s, 8)
      segments == DecodeAllSegments(d.s, MaxSegments)
  IN  IF ~d.s.is_valid THEN [s |-> d.s, v |-> NoNak]
      ELSE [s |-> segments.s,
            v |-> [scope_start |-> Value(SubSeq(d.v, 1, 4)), scope_end |-> Value(SubSeq(d.v, 5, 8)),
                   segment_list |-> segments.v]]

-------------------------------------------------------------------------------
(* File data: the header, after which the encoder leaves room for the data *)

NoFd == [continuation_state |-> 0, segment_list |-> <<>>, offset |-> 0, data |-> <<>>]

EncodeFileDataHeader(s, with_meta, fd) ==
  LET m == Encode(s, <<Field(fd.continuation_state, 2, 6)
                         + Field(Len(fd.segment_list), 6, 0)>>)
      e == IF ~with_meta THEN s
           ELSE IF m.is_valid THEN EncodeAllSegments(m, fd.segment_list) ELSE m
  IN  Encode(e, Octets(fd.offset, 4))

(* The segments that the metadata counts, none if they are too many. *)
DecodeSegmentMetadata(s) ==
  LET d == DecodeIntegerInSize(s, 1)
      fd == [NoFd EXCEPT !.continuation_state = GetField(d.v, 2, 6)]
      count == GetField(d.v, 6, 0)
      list == FoldLeft(LAMBDA l, i : IF l.s.is_valid
                                       THEN Counted(l, DecodeSegmentRequest(l.s)) ELSE l,
                       [s |-> d.s, v |-> <<>>], [i \in 1 .. count |-> i])
  IN  IF ~d.s.is_valid THEN [s |-> d.s, v |-> NoFd]
      ELSE IF count > MaxSegments THEN [s |-> SetDone(d.s), v |-> fd]
      ELSE [s |-> list.s, v |-> [fd EXCEPT !.segment_list = list.v]]

DecodeFileDataHeader(s, with_meta) ==
  LET m == IF with_meta THEN DecodeSegmentMetadata(s) ELSE [s |-> s, v |-> NoFd]
      d == DecodeIntegerInSize(m.s, 4)
  IN  IF ~d.s.is_valid THEN [s |-> d.s, v |-> m.v]
      ELSE [s |-> CheckSize(d.s, GetRemain(d.s)),
            v |-> [m.v EXCEPT !.offset = d.v, !.data = ChunkAt(d.s, GetRemain(d.s))]]
===============================================================================
