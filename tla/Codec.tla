------------------------------- MODULE Codec -------------------------------
(***************************************************************************)
(* The response validators of mctpd (src/mctpd/src/MCTPBinding.cpp        *)
(* 556-824) as operators over what they look at: the frame length, its    *)
(* completion code (byte 3) and, for count-prefixed lists, the count of   *)
(* byte 4, together with the bytes of the frame each path reads.  They    *)
(* are checked over every frame up to MaxLen bytes.  The PLDM message     *)
(* header of src/libpldm_intel/base.h (struct pldm_msg_hdr and its mask   *)
(* macros) is compared with the wire layout of DSP0240 for both bitfield  *)
(* orders, and its payload structures with their length macros.          *)
(***************************************************************************)
EXTENDS Naturals, SequencesExt, Bitwise

CONSTANTS
  MaxLen,         \* bound: longest frame considered
  MaxCount,       \* bound: largest count byte considered
  CompletionCodes, \* completion codes considered; 0 is MCTP_CTRL_CC_SUCCESS
  PldmInstances,  \* instance IDs considered for a PLDM header (< 32)
  PldmTypes,      \* PLDM types considered (< 64)
  PldmVersions    \* header versions considered (< 4)

minCmdRespSize == 4          \* header (3 bytes) + completion code
minMsgTypeRespLen == 5       \* ... + the count byte
mctpVersionLen == 4          \* one version entry
MCTP_CTRL_CC_SUCCESS == 0
completionCodeIndex == 3     \* the byte of the completion code

VARIABLES
  frame,   \* [len, cc, count] of the response under validation
  hdr,     \* the fields of a PLDM message header
  payload  \* a PLDM payload structure of base.h, or "none"

Frames == [len : 0..MaxLen, cc : CompletionCodes, count : 0..MaxCount]

(* checkMinRespSize (556-559). *)
CheckMinRespSize(f) == f.len >= minCmdRespSize

(***************************************************************************)
(* checkRespSizeAndCompletionCode<structure> (561-582): long enough for   *)
(* the header, success, and exactly sizeof(structure) bytes.              *)
(***************************************************************************)
CheckRespSizeAndCompletionCode(f, size) ==
  /\ CheckMinRespSize(f)
  /\ ~(f.cc # MCTP_CTRL_CC_SUCCESS \/ f.len # size)

(* Fault-injected variant: the count test of 733-738 and 801-807 dropped. *)
CountedListOkNoLength(f, entrySize) ==
  /\ CheckMinRespSize(f)
  /\ ~(f.cc # MCTP_CTRL_CC_SUCCESS \/ f.len <= minMsgTypeRespLen)

(***************************************************************************)
(* The checks of getMsgTypeSupportCtrlCmd (705-738) and of                 *)
(* getMctpVersionSupportCtrlCmd (772-807): success and more than the      *)
(* fixed prefix, then the rest must hold count entries of entrySize bytes. *)
(***************************************************************************)
CountedListOk(f, entrySize) ==
  /\ CheckMinRespSize(f)
  /\ ~(f.cc # MCTP_CTRL_CC_SUCCESS \/ f.len <= minMsgTypeRespLen)
  /\ f.len - minMsgTypeRespLen = f.count * entrySize

MsgTypeSupportOk(f) == CountedListOk(f, 1)
VersionSupportOk(f) == CountedListOk(f, mctpVersionLen)

(***************************************************************************)
(* The byte offsets of resp each path reads.  checkRespSizeAndCompletion- *)
(* Code (561-582) reads completion_code through the structure pointer     *)
(* once the frame holds the header, and its callers read the whole        *)
(* structure when it succeeds (982-984, 1028-1030).                       *)
(***************************************************************************)
FixedReads(f, size) ==
  IF ~CheckMinRespSize(f) THEN {}
  ELSE {completionCodeIndex}
       \cup (IF CheckRespSizeAndCompletionCode(f, size) THEN 0..(size - 1) ELSE {})

(***************************************************************************)
(* getMsgTypeSupportCtrlCmd (705-746) and getMctpVersionSupportCtrlCmd    *)
(* (772-820): after the minimum-size test, resp[completionCodeIndex]; on  *)
(* a failing status or a frame of at most five bytes, the four header     *)
(* bytes copied into the response record; otherwise the five-byte prefix  *)
(* (copy_n), and when the count test passes, the entries: the message    *)
(* types from byte 5 to the end of the frame (assign), or count version   *)
(* entries of four bytes each from byte 5 (the loop of 809-819).          *)
(***************************************************************************)
CountedReads(f, ok, entries) ==
  IF ~CheckMinRespSize(f) THEN {}
  ELSE IF f.cc # MCTP_CTRL_CC_SUCCESS \/ f.len <= minMsgTypeRespLen
       THEN {completionCodeIndex} \cup 0..(minCmdRespSize - 1)
       ELSE 0..(minMsgTypeRespLen - 1) \cup (IF ok THEN entries ELSE {})

MsgTypeSupportReads(f) ==
  CountedReads(f, MsgTypeSupportOk(f), minMsgTypeRespLen..(f.len - 1))

VersionSupportReads(f) ==
  CountedReads(f, VersionSupportOk(f),
               minMsgTypeRespLen..(minMsgTypeRespLen + f.count * mctpVersionLen - 1))

(***************************************************************************)
(* Spec section 4.5, the reference: a fixed-size response is rejected when *)
(* shorter than header + status, when the status is not success, or when   *)
(* its length is not the structure size; a count-prefixed one when the    *)
(* status is not success or the rest is not count * entrySize bytes.       *)
(***************************************************************************)
SpecCountedOk(f, entrySize) ==
  /\ f.len >= minMsgTypeRespLen
  /\ f.cc = MCTP_CTRL_CC_SUCCESS
  /\ f.len - minMsgTypeRespLen = f.count * entrySize

(***************************************************************************)
(* The PLDM header macros of base.h (64-70) and the fields of struct      *)
(* pldm_msg_hdr (93-113).                                                  *)
(***************************************************************************)
PLDM_RQ_D_MASK == 192
PLDM_RQ_D_SHIFT == 6
PLDM_MSG_TYPE_MASK == 63
PLDM_INSTANCE_ID_MASK == 31
PLDM_MAX_TYPES == 64

PldmHdrs == [instance_id : PldmInstances, reserved : {0, 1}, datagram : {0, 1},
             request : {0, 1}, type : PldmTypes, header_ver : PldmVersions]

(***************************************************************************)
(* The byte that bitfields <<value, width>> fill when the compiler         *)
(* allocates them from the least significant bit up, in declaration order *)
(* (GCC with __LITTLE_ENDIAN_BITFIELD); with __BIG_ENDIAN_BITFIELD it     *)
(* allocates from the most significant bit down, the same as allocating   *)
(* the reversed declaration from the least significant bit.               *)
(***************************************************************************)
RECURSIVE PackLsbFirst(_)
PackLsbFirst(fields) ==
  IF fields = <<>> THEN 0
  ELSE Head(fields)[1] + 2^Head(fields)[2] * PackLsbFirst(Tail(fields))

PackMsbFirst(fields) == PackLsbFirst(Reverse(fields))

(* struct pldm_msg_hdr, __LITTLE_ENDIAN_BITFIELD branch (94-98, 106-108). *)
LeHdrBytes(h) ==
  << PackLsbFirst(<< <<h.instance_id, 5>>, <<h.reserved, 1>>,
                     <<h.datagram, 1>>, <<h.request, 1>> >>),
     PackLsbFirst(<< <<h.type, 6>>, <<h.header_ver, 2>> >>) >>

(* Fault-injected variant: datagram and request swapped in the big-endian branch. *)
BeHdrBytesSwapped(h) ==
  << PackMsbFirst(<< <<h.datagram, 1>>, <<h.request, 1>>,
                     <<h.reserved, 1>>, <<h.instance_id, 5>> >>),
     PackMsbFirst(<< <<h.header_ver, 2>>, <<h.type, 6>> >>) >>

(* struct pldm_msg_hdr, __BIG_ENDIAN_BITFIELD branch (99-103, 109-111). *)
BeHdrBytes(h) ==
  << PackMsbFirst(<< <<h.request, 1>>, <<h.datagram, 1>>,
                     <<h.reserved, 1>>, <<h.instance_id, 5>> >>),
     PackMsbFirst(<< <<h.header_ver, 2>>, <<h.type, 6>> >>) >>

(***************************************************************************)
(* The payload length macros of base.h (74-84).                           *)
(***************************************************************************)
PayloadBytes ==
  [get_commands_req |-> 5, get_version_req |-> 6, get_types_resp |-> 9,
   get_tid_resp |-> 2, set_tid_resp |-> 1, get_commands_resp |-> 33,
   get_version_resp |-> 6]

(***************************************************************************)
(* The payload structures of base.h (143-238) as their fields' sizes and  *)
(* alignments; arrays of uint8_t or bitfield8_t are bytes, and ver32_t    *)
(* (pldm_types.h) is four one-byte fields.  Of pldm_get_version_resp, the *)
(* fixed part before version_data[1]; pldm_set_tid_rsp is                *)
(* pldm_cc_only_rsp.                                                       *)
(***************************************************************************)
U8 == [size |-> 1, align |-> 1]
U32 == [size |-> 4, align |-> 4]
Bytes(n) == [size |-> n, align |-> 1]

PldmPayloads ==
  [get_commands_req |-> <<U8, Bytes(4)>>,
   get_version_req |-> <<U32, U8, U8>>,
   get_types_resp |-> <<U8, Bytes(PLDM_MAX_TYPES \div 8)>>,
   get_tid_resp |-> <<U8, U8>>,
   set_tid_resp |-> <<U8>>,
   get_commands_resp |-> <<U8, Bytes(32)>>,
   get_version_resp |-> <<U8, U32, U8>>]


(* Fault-injected variant: the packed attribute dropped, every field at   *)
(* its natural alignment.                                                  *)
RECURSIVE NaturalEnd(_, _)
NaturalEnd(fields, off) ==
  IF fields = <<>> THEN off
  ELSE LET a == Head(fields).align IN
       NaturalEnd(Tail(fields), ((off + a - 1) \div a) * a + Head(fields).size)

SizeOfUnpacked(fields) == NaturalEnd(fields, 0)

(* __attribute__((packed)): the fields follow one another with no padding. *)
SizeOf(fields) == FoldLeft(LAMBDA n, f : n + f.size, 0, fields)

(***************************************************************************)
(* The reference, DSP0240's header: byte 1 is Rq (bit 7), D (bit 6), a    *)
(* reserved bit and the 5-bit instance ID; byte 2 is the 2-bit header     *)
(* version above the 6-bit PLDM type.                                      *)
(***************************************************************************)
WireHdr(h) ==
  << h.request * 128 + h.datagram * 64 + h.reserved * 32 + h.instance_id,
     h.header_ver * 64 + h.type >>

(***************************************************************************)
(* One subject per initial state: a response frame, a PLDM header, or a   *)
(* payload structure; the others keep a fixed value.                      *)
(***************************************************************************)
Frame0 == [len |-> 0, cc |-> MCTP_CTRL_CC_SUCCESS, count |-> 0]
Hdr0 == CHOOSE h \in PldmHdrs : TRUE

Init ==
  \/ frame \in Frames /\ hdr = Hdr0 /\ payload = "none"
  \/ frame = Frame0 /\ hdr \in PldmHdrs /\ payload = "none"
  \/ frame = Frame0 /\ hdr = Hdr0 /\ payload \in DOMAIN PldmPayloads
Next == UNCHANGED <<frame, hdr, payload>>
Spec == Init /\ [][Next]_<<frame, hdr, payload>>

-----------------------------------------------------------------------------
(***************************************************************************)
(* No validation path reads outside the response: whatever length, status *)
(* and count byte a device sends, the completion-code read, the header    *)
(* copy of a rejected answer, the prefix copy and the entries read after  *)
(* an accepted one all lie inside resp, for every structure size the      *)
(* fixed-size check may be instantiated with.  Each read is safe only     *)
(* because of a test made earlier on another path.                        *)
(***************************************************************************)
ReadsInsideFrame ==
  \A size \in minCmdRespSize..MaxLen :
    FixedReads(frame, size) \cup MsgTypeSupportReads(frame)
      \cup VersionSupportReads(frame) \subseteq 0..(frame.len - 1)

(***************************************************************************)
(* The count-prefixed checks accept exactly the frames the spec accepts,  *)
(* the empty list (count 0, five bytes) included.                         *)
(***************************************************************************)
CountedCheckMatchesSpec ==
  /\ MsgTypeSupportOk(frame) <=> SpecCountedOk(frame, 1)
  /\ VersionSupportOk(frame) <=> SpecCountedOk(frame, mctpVersionLen)

(***************************************************************************)
(* Both bitfield branches of struct pldm_msg_hdr put every field where    *)
(* DSP0240 puts it on the wire, and the mask macros read the instance ID, *)
(* the Rq/D pair and the PLDM type back from those bytes: a build for     *)
(* either bitfield order talks the same wire format.                      *)
(***************************************************************************)
PldmHeaderLayout ==
  LET b == LeHdrBytes(hdr) IN
  /\ b = WireHdr(hdr)
  /\ BeHdrBytes(hdr) = WireHdr(hdr)
  /\ (b[1] & PLDM_INSTANCE_ID_MASK) = hdr.instance_id
  /\ shiftR(b[1] & PLDM_RQ_D_MASK, PLDM_RQ_D_SHIFT) = 2 * hdr.request + hdr.datagram
  /\ (b[2] & PLDM_MSG_TYPE_MASK) = hdr.type

(***************************************************************************)
(* Every payload length macro is the size of its packed structure: a      *)
(* decoder that checks payload_length against the macro and then reads   *)
(* the structure's fields reads exactly the bytes the message carries.    *)
(***************************************************************************)
PayloadLengthsMatchStructs ==
  payload # "none" => SizeOf(PldmPayloads[payload]) = PayloadBytes[payload]

=============================================================================
