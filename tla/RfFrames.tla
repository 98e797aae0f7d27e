------------------------------ MODULE RfFrames ------------------------------
(***************************************************************************)
(* The serial protocol of the reader (protocol/frames.py): frames, their   *)
(* checksum, the tags a notification carries, and how a buffer of received *)
(* bytes is cut into frames.                                               *)
(*                                                                         *)
(* The layout is the code's: header, type, address (2), code, length (2),  *)
(* parameters, checksum.  A byte has ByteRange values (256 in the code).   *)
(***************************************************************************)
EXTENDS Integers, Sequences, SequencesExt

CONSTANTS
    ByteRange,
    R, F,                           \* the bytes of HEADER
    Command, Response, Notification,
    TagUpload, OfflineTagUpload,
    TlvEpc, TlvRssi, TlvStatus, TlvTag,
    NoRssi

Bytes == 0..ByteRange - 1

ASSUME FrameAssumption ==
    /\ ByteRange \in Nat /\ ByteRange > 1
    /\ {R, F, Command, Response, Notification, TagUpload, OfflineTagUpload,
        TlvEpc, TlvRssi, TlvStatus, TlvTag} \subseteq Bytes
    /\ R # F /\ TagUpload # OfflineTagUpload
    /\ NoRssi \notin Int

FixedHeaderLen == 8

-----------------------------------------------------------------------------

\* calculate_checksum: the sum of a frame's bytes and its checksum is zero.
Checksum(bytes) ==
    LET Sum[n \in 0..Len(bytes)] == IF n = 0 THEN 0 ELSE Sum[n - 1] + bytes[n]
    IN  (-Sum[Len(bytes)]) % ByteRange

Word(n) == <<(n \div ByteRange) % ByteRange, n % ByteRange>>

BuildFrame(type, address, code, params) ==
    LET body == <<R, F, type>> \o Word(address) \o <<code>>
                  \o Word(Len(params)) \o params
    IN  Append(body, Checksum(body))

SuccessResponse(address, code) ==
    BuildFrame(Response, address, code, <<TlvStatus, 1, 0>>)

Tlv(type, value) == <<type, Len(value)>> \o value

\* build_tag_upload_notification; the strength is sent as one byte.
TagNotification(address, tag, code) ==
    BuildFrame(Notification, address, code,
               Tlv(TlvTag, Tlv(TlvEpc, tag.epc)
                             \o Tlv(TlvRssi, <<tag.rssi % ByteRange>>)))

-----------------------------------------------------------------------------

\* MUTANT: the strength is read as an unsigned byte.
SignedByteUnsigned(b) == b

SignedByte(b) == IF 2 * b >= ByteRange THEN b - ByteRange ELSE b

\* The TLVs of a block, up to the first that does not fit.
Tlvs(data) ==
    LET From[p \in 1..Len(data) + 1] ==
            IF p + 1 > Len(data) THEN <<>>
            ELSE IF p + 1 + data[p + 1] > Len(data) THEN <<>>
            ELSE <<[type |-> data[p],
                    value |-> SubSeq(data, p + 2, p + 1 + data[p + 1])]>>
                   \o From[p + 2 + data[p + 1]]
    IN  From[1]

\* tlvs.get(type): the last TLV of a type counts.
LastValue(tlvs, type) ==
    LET of == {i \in DOMAIN tlvs : tlvs[i].type = type}
    IN  IF of = {} THEN <<>> ELSE tlvs[Max(of)].value

\* _tag_from_tlvs: no tag, or one.
TagOf(tlvs) ==
    LET epc == LastValue(tlvs, TlvEpc)
        rssi == LastValue(tlvs, TlvRssi)
    IN  IF epc = <<>> THEN <<>>
        ELSE <<[epc |-> epc,
                rssi |-> IF rssi = <<>> THEN NoRssi ELSE SignedByte(rssi[1])]>>

\* parse_tag_from_parameters: tags nested in a Tag TLV, and bare EPCs.
TagsIn(params) ==
    LET tlvs == Tlvs(params)
        TagsOf(tlv) == CASE tlv.type = TlvTag -> TagOf(Tlvs(tlv.value))
                         [] tlv.type = TlvEpc -> TagOf(<<tlv>>)
                         [] OTHER -> <<>>
    IN  FlattenSeq([i \in DOMAIN tlvs |-> TagsOf(tlvs[i])])

-----------------------------------------------------------------------------

\* The length of the frame that starts at i, as its length field claims.
FrameLenAt(b, i) == FixedHeaderLen + b[i + 6] * ByteRange + b[i + 7] + 1

\* decode_frame of the bytes of one frame: the checksum must fit.
FrameOK(raw) == Last(raw) = Checksum(Front(raw))

\* The tags of one frame: none unless it is a valid tag notification.
TagsOfFrame(raw) ==
    IF /\ FrameOK(raw)
       /\ raw[3] = Notification
       /\ raw[6] \in {TagUpload, OfflineTagUpload}
    THEN TagsIn(SubSeq(raw, FixedHeaderLen + 1, Len(raw) - 1))
    ELSE <<>>

HeadersFrom(b, i) == {j \in i..Len(b) - 1 : b[j] = R /\ b[j + 1] = F}

\* MUTANT: the first byte of a header that was cut in two is thrown away.
LeftOverForgetsHalfHeader(b, i) == <<>>

\* What is kept of a buffer without a header: it may end in half of one.
LeftOver(b, i) == IF i <= Len(b) /\ Last(b) = R THEN <<R>> ELSE <<>>

\* MUTANT: a frame is cut off only when a further byte is there.
CompleteWithOneMore(b, i) ==
    /\ Len(b) - i + 1 >= FixedHeaderLen
    /\ Len(b) - i + 1 > FrameLenAt(b, i)

\* The frame that starts at i has arrived in full.
Complete(b, i) ==
    /\ Len(b) - i + 1 >= FixedHeaderLen
    /\ Len(b) - i + 1 >= FrameLenAt(b, i)

\* FrameBuffer._drain: the tags of the complete frames, and what stays in the
\* buffer.  A frame is consumed whole, whether it is valid or not.
Drain(b) ==
    LET From[i \in 1..Len(b) + 1] ==
            LET headers == HeadersFrom(b, i)
                start == Min(headers)
                next == start + FrameLenAt(b, start)
                behind == From[next]
            IN
            IF headers = {} THEN [tags |-> <<>>, rest |-> LeftOver(b, i)]
            ELSE IF ~Complete(b, start)
            THEN [tags |-> <<>>, rest |-> SubSeq(b, start, Len(b))]
            ELSE [tags |-> TagsOfFrame(SubSeq(b, start, next - 1))
                             \o behind.tags,
                  rest |-> behind.rest]
    IN  From[1]
=============================================================================
