----------------------------- MODULE MpUnreach -----------------------------
(***************************************************************************)
(* One call of libparsebgp_mp_un_reach_attr_parse_un_reach_nlri_attr      *)
(* (src/lib/mp_un_reach_attr.c) and the AFI/SAFI dispatch below it.        *)
(*                                                                         *)
(* The caller hands over a pointer to its cursor (uint8_t **data) and the  *)
(* attribute length.  The function reads AFI (2 bytes) and SAFI (1 byte),  *)
(* then either signals End-of-RIB, returns, or dispatches to an NLRI       *)
(* sub-parser.  The SAFI is read with `**data++`: the post-increment       *)
(* applies to the local pointer-to-pointer, so the SAFI byte is read       *)
(* correctly but the caller's cursor is not advanced past it, and every    *)
(* sub-parser afterwards receives a pointer to whatever lies after the     *)
(* caller's pointer variable.  `pp` records where the local `data` points. *)
(*                                                                         *)
(* buf is the caller's buffer from the attribute's first byte onward; a    *)
(* read past its end is an out-of-bounds read, whose value is any byte of  *)
(* Garbage.  `data` is the caller's cursor as an offset into buf.          *)
(***************************************************************************)
EXTENDS Integers, Sequences

CONSTANTS
    Attrs,     \* the (buffer, attr_len) pairs a caller may pass
    Garbage    \* the values an out-of-bounds byte read may produce

Byte == 0..255

ASSUME AttrsAssumption ==
    Attrs \subseteq [buf : Seq(Byte), len : Nat]
ASSUME GarbageAssumption ==
    Garbage \subseteq Byte /\ Garbage # {}

\* RFC 4760 / IANA codes the switches of mp_un_reach_attr.c compare with
BGP_AFI_IPV4 == 1
BGP_AFI_IPV6 == 2
BGP_AFI_L2VPN == 25
BGP_AFI_BGPLS == 16388
BGP_SAFI_UNICAST == 1
BGP_SAFI_NLRI_LABEL == 4
BGP_SAFI_EVPN == 70
BGP_SAFI_MPLS == 128

VARIABLES
    buf,        \* bytes at and after the caller's *data on entry
    arg_len,    \* attr_len as passed by the caller
    data,       \* the caller's cursor *data, as an offset into buf
    pp,         \* where the local uint8_t **data points
    attr_len,   \* the local attr_len
    afi,        \* mp_unreach_nlri_data.afi
    safi,       \* mp_unreach_nlri_data.safi
    counts,     \* the three count_* fields of mp_unreach_nlri_data
    eor,        \* *has_end_of_rib_marker
    hi,         \* bytes of buf read so far (highest offset + 1)
    oob,        \* a read went past the end of the caller's buffer
    wild,       \* a sub-parser dereferenced a stray pointer
    pc

vars == <<buf, arg_len, data, pp, attr_len, afi, safi, counts, eor, hi, oob, wild, pc>>

PCs == {"afi", "safi", "check", "dispatch", "done", "crashed"}

\* The value of the byte at offset i (0-based) of the caller's buffer.
ReadByte(i) == IF i < Len(buf) THEN {buf[i + 1]} ELSE Garbage

\* Whether reading offsets i..j-1 stays inside the caller's buffer.
InBuf(j) == j <= Len(buf)

Init ==
    /\ \E a \in Attrs : buf = a.buf /\ arg_len = a.len
    /\ data = 0
    /\ pp = "caller"
    /\ attr_len = 0
    /\ afi = 0
    /\ safi = 0
    /\ counts \in {0, 1}      \* whatever the path_attrs struct held before
    /\ eor = 0
    /\ hi = 0
    /\ oob = FALSE
    /\ wild = FALSE
    /\ pc = "afi"

\* memcpy of the AFI, *data += 2, attr_len -= 2, SWAP_BYTES to host order.
ReadAfi ==
    /\ pc = "afi"
    /\ \E h \in ReadByte(data), l \in ReadByte(data + 1) : afi' = h * 256 + l
    /\ data' = data + 2
    /\ attr_len' = arg_len - 2
    /\ hi' = data + 2
    /\ oob' = (oob \/ ~InBuf(data + 2))
    /\ pc' = "safi"
    /\ UNCHANGED <<buf, arg_len, pp, safi, counts, eor, wild>>

\* Variants of the SAFI read: without the attr_len decrement, and reading
\* the octet after the cursor (as `*(*data + 1)` would).
ReadSafiNoDecrement ==
    /\ pc = "safi"
    /\ \E s \in ReadByte(data) : safi' = s
    /\ pp' = "past"
    /\ hi' = data + 1
    /\ oob' = (oob \/ ~InBuf(data + 1))
    /\ pc' = "check"
    /\ UNCHANGED <<buf, arg_len, data, afi, counts, eor, attr_len, wild>>
\* safi = **data++ ; attr_len-- : reads the byte at the caller's cursor,
\* then advances the local pointer-to-pointer, not the cursor.
ReadSafi ==
    /\ pc = "safi"
    /\ \E s \in ReadByte(data) : safi' = s
    /\ pp' = "past"
    /\ attr_len' = attr_len - 1
    /\ hi' = data + 1
    /\ oob' = (oob \/ ~InBuf(data + 1))
    /\ pc' = "check"
    /\ UNCHANGED <<buf, arg_len, data, afi, counts, eor, wild>>

\* The length checks after the fixed fields.
CheckLen ==
    /\ pc = "check"
    /\ \/ attr_len < 0 /\ pc' = "done" /\ UNCHANGED eor
       \/ attr_len = 0 /\ eor' = 1 /\ pc' = "done"
       \/ attr_len > 0 /\ pc' = "dispatch" /\ UNCHANGED eor
    /\ UNCHANGED <<buf, arg_len, data, pp, attr_len, afi, safi, counts, hi, oob, wild>>

IpAfis == {BGP_AFI_IPV4, BGP_AFI_IPV6}
IpSafis == {BGP_SAFI_UNICAST, BGP_SAFI_NLRI_LABEL, BGP_SAFI_MPLS}

\* A sub-parser reads through the local data pointer.  When it no longer
\* points at the caller's cursor the read is a wild dereference: the call
\* may crash or return, with nothing written to the caller's cursor.
SubParse ==
    IF pp = "caller"
    THEN /\ data' = data + attr_len
         /\ hi' = data + attr_len
         /\ oob' = (oob \/ ~InBuf(data + attr_len))
         /\ pc' = "done"
         /\ UNCHANGED wild
    ELSE /\ wild' = TRUE
         /\ pc' \in {"crashed", "done"}
         /\ UNCHANGED <<data, hi, oob>>

\* A branch that returns without reading anything.
Skip == pc' = "done" /\ UNCHANGED <<data, hi, oob, wild>>

\* parse_afi_ipv4_ipv6: reset the three counts, then switch on the SAFI.
ParseAfiIpv4Ipv6 ==
    /\ counts' = 0
    /\ IF safi \in IpSafis THEN SubParse ELSE Skip

\* parse_afi: switch on the AFI (and on the SAFI for L2VPN).
ParseAfi ==
    /\ pc = "dispatch"
    /\ CASE afi \in IpAfis -> ParseAfiIpv4Ipv6
         [] afi = BGP_AFI_BGPLS -> SubParse /\ UNCHANGED counts
         [] afi = BGP_AFI_L2VPN /\ safi = BGP_SAFI_EVPN -> SubParse /\ UNCHANGED counts
         [] OTHER -> Skip /\ UNCHANGED counts
    /\ UNCHANGED <<buf, arg_len, pp, attr_len, afi, safi, eor>>

Next == ReadAfi \/ ReadSafi \/ CheckLen \/ ParseAfi

Spec == Init /\ [][Next]_vars

-----------------------------------------------------------------------------
(* Properties *)

\* The variables keep their types.
TypeOK ==
    /\ buf \in Seq(Byte)
    /\ arg_len \in Nat
    /\ data \in Nat
    /\ pp \in {"caller", "past"}
    /\ attr_len \in Int
    /\ afi \in 0..(2^16 - 1)
    /\ safi \in Byte
    /\ counts \in Nat
    /\ eor \in {0, 1}
    /\ hi \in Nat
    /\ oob \in BOOLEAN
    /\ wild \in BOOLEAN
    /\ pc \in PCs

\* Spec 4.3: End-of-RIB is signalled exactly when the payload after AFI and
\* SAFI is empty, i.e. attr_len = 3; the decrements after the two reads
\* must add up to that.
EorIffEmpty ==
    pc = "done" => (eor = 1 <=> arg_len = 3)

\* Spec 4.3 / 8.8: every branch that returns normally consumed exactly
\* attr_len bytes of the caller's buffer (an End-of-RIB attribute with
\* attr_len = 3 reports 3 bytes consumed).
ConsumesAttrLen ==
    (pc = "done" /\ ~oob /\ ~wild /\ arg_len >= 3) => data = arg_len

\* Spec 8.2: no read goes past the attribute's declared length.
ReadsWithinAttr ==
    hi <= arg_len

\* The NLRI sub-parsers are handed the caller's cursor, never a pointer
\* to whatever lies beside it: no NLRI parse dereferences a stray pointer.
NoWildDereference ==
    ~wild

=============================================================================
