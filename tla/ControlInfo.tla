----------------------------- MODULE ControlInfo -----------------------------
(***************************************************************************)
(* FindInCmsgHdr (driver/socket.c:459-474): the search of a received      *)
(* datagram's control information for the pkt-info header that            *)
(* SocketEndpointFromNbl (socket.c:484, 493) needs.                        *)
(*                                                                         *)
(* The control information is a run of WSACMSGHDRs, each followed by its  *)
(* data and padded to the header alignment.  A header is modelled by its  *)
(* level, its type and the length of its data; byte offsets follow from   *)
(* the 64-bit layout (a 16-byte header, 8-byte alignment).  The remaining *)
(* length is a SIZE_T, kept at SW bits so that its wrap can occur.         *)
(***************************************************************************)
EXTENDS Naturals, Sequences, SequencesExt

CONSTANTS SW   \* bits of a SIZE_T (64 in the code)

HdrSize  == 16  \* sizeof(WSACMSGHDR)
HdrAlign == 8   \* TYPE_ALIGNMENT(WSACMSGHDR) = MAX_NATURAL_ALIGNMENT

AlignUp(n) == ((n + HdrAlign - 1) \div HdrAlign) * HdrAlign

(* WSA_CMSG_LEN: what a header's cmsg_len holds for d bytes of data.       *)
CmsgLen(h) == AlignUp(HdrSize) + h.dlen

(* WSA_CMSG_SPACE: the bytes a header and its padded data occupy.          *)
CmsgSpace(h) == AlignUp(HdrSize + AlignUp(h.dlen))

(* Fault variant: the step taken by the unaligned cmsg_len.               *)
CmsgHdrAlignNone(n) == n

(* WSA_CMSGHDR_ALIGN(Hdr->cmsg_len), the step of lines 470-471.           *)
CmsgHdrAlign(n) == AlignUp(n)

(* Lines 463-473.  ctl is the run of headers, k the header Hdr points at  *)
(* (past the end of ctl, Hdr points outside the control information),     *)
(* len the remaining Len.  Hdr never becomes NULL once it is not.          *)
RECURSIVE Walk(_, _, _, _, _)
Walk(ctl, k, len, level, type) ==
    IF len = 0 THEN [res |-> "null", at |-> 0]
    ELSE IF k > Len(ctl) THEN [res |-> "outside", at |-> k]
    ELSE IF ctl[k].level = level /\ ctl[k].type = type THEN [res |-> "found", at |-> k]
    ELSE Walk(ctl, k + 1, (len - CmsgHdrAlign(CmsgLen(ctl[k]))) % 2^SW, level, type)

(* FindInCmsgHdr(Data, Level, Type) with Data->ControlInfoLength = len;    *)
(* an empty ctl stands for a NULL Data->ControlInfo.                       *)
FindInCmsgHdr(ctl, len, level, type) ==
    IF ctl = <<>> THEN [res |-> "null", at |-> 0] ELSE Walk(ctl, 1, len, level, type)

-----------------------------------------------------------------------------
(* Reference definition: the first header of the requested level and type. *)
FirstMatch(ctl, level, type) ==
    LET k == SelectInSeq(ctl, LAMBDA h : h.level = level /\ h.type = type) IN
    IF k = 0 THEN [res |-> "null", at |-> 0] ELSE [res |-> "found", at |-> k]

(* The ControlInfoLength of a run of headers laid out by the stack, every  *)
(* header padded to WSA_CMSG_SPACE.                                        *)
PaddedLength(ctl) == FoldLeft(LAMBDA n, h : n + CmsgSpace(h), 0, ctl)
=============================================================================
