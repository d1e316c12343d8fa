--------------------------- MODULE MC_BmpParser ---------------------------
(***************************************************************************)
(* Small instance of BmpParser: header widths scaled down, and buffers    *)
(* made of one or two BMP messages taken from a list of well-formed and    *)
(* malformed messages, encoded byte by byte in network order.             *)
(***************************************************************************)
EXTENDS BmpParser

MC_WordBits == 16
MC_HdrV3Len == 5
MC_HdrV1V2Len == 2
MC_PeerHdrLen == 2
MC_LocalIpLen == 1
MC_BgpMarkerLen == 1
MC_BgpMaxMsgSize == 24
MC_BmpDataSize == 30
MC_TlvHdrLen == 4
MC_InfoSize == 2
MC_ErrReadingMsg == -1
MC_GarbageLens == {0, 3}
MC_MaxEntries == 10

U16(n) == << (n \div 256) % 256, n % 256 >>
U32(n) == << 0, 0, (n \div 256) % 256, n % 256 >>

(* Values below 2^16, the width of the instance, in four network bytes. *)
(* A BGP message: marker, length, type, body. *)
Bgp(type, body) ==
  [i \in 1..MC_BgpMarkerLen |-> 255] \o U16(MC_BgpMarkerLen + 3 + Len(body))
    \o << type >> \o body
PeerHdr == [i \in 1..MC_PeerHdrLen |-> 0]

(* A v3 message with a given and with its true length. *)
V3Len(type, hlen, body) == << 3 >> \o U32(hlen) \o << type >> \o body
V3(type, body) == V3Len(type, 1 + MC_HdrV3Len + Len(body), body)

RouteMon3 == V3(0, PeerHdr \o Bgp(2, << 7 >>))
Stats3 == V3(1, PeerHdr \o U32(1) \o U16(7) \o U16(4) \o << 0, 0, 0, 9 >>)
StatsSkip3 == V3(1, PeerHdr \o U32(1) \o U16(7) \o U16(1) \o << 5 >>)
StatsShort3 == V3(1, PeerHdr \o U32(2) \o U16(7) \o U16(8) \o << 0, 0, 0, 9 >>)
StatsExtra3 == V3(1, PeerHdr \o U32(0) \o U16(7) \o U16(4) \o << 0, 0, 0, 9 >>)
Up3 == V3(3, PeerHdr \o << 0 >> \o U16(179) \o U16(179)
                 \o Bgp(1, << 4 >>) \o Bgp(1, << 4 >>))
UpNotOpen3 == V3(3, PeerHdr \o << 0 >> \o U16(179) \o U16(179)
                 \o Bgp(1, << 4 >>) \o Bgp(3, << 4 >>))
UpBadOpen3 == V3(3, PeerHdr \o << 0 >> \o U16(179) \o U16(179)
                 \o Bgp(2, << 4 >>) \o << 255, 0, 1, 1 >>)
Down3 == V3(2, PeerHdr \o << 2 >> \o U16(6))
DownNotify3 == V3(2, PeerHdr \o << 1 >> \o Bgp(3, << 6, 2 >>))
Init3 == V3(4, U16(0) \o U16(1) \o << 65 >>)
Term3 == V3(5, << >>)
Short3 == V3Len(0, 6, PeerHdr)
Huge3 == V3Len(4, 2^MC_WordBits - 1, << >>)
HugeRouteMon3 == V3Len(0, 2^(MC_WordBits - 1) + 8, PeerHdr)
TooLong3 == V3Len(0, 40, PeerHdr)
BadType3 == V3(7, << >>)
Truncated3 == SubSeq(RouteMon3, 1, 9)
BadVersion == << 4 >>
RouteMon2 == << 2, 0, 0 >> \o Bgp(2, << 7 >>)
Stats2 == << 1, 1, 0 >>
Down2 == << 2, 2, 0, 2, 0, 6 >>
Up2 == << 2, 3, 0 >>
Init2 == << 1, 4, 0 >>
BadType2 == << 2, 9, 0 >>

Messages ==
  { RouteMon3, Stats3, StatsSkip3, StatsShort3, StatsExtra3, Up3, UpNotOpen3,
    UpBadOpen3, Down3, DownNotify3, Init3, Term3, Short3, Huge3, HugeRouteMon3, TooLong3,
    BadType3, Truncated3, BadVersion, RouteMon2, Stats2, Down2, Up2, Init2,
    BadType2 }

MC_Streams == { m1 \o m2 : m1, m2 \in Messages } \cup { << >> }
=============================================================================
