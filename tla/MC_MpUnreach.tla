--------------------------- MODULE MC_MpUnreach ----------------------------
(***************************************************************************)
(* Small instance of MpUnreach: every (AFI, SAFI) class the dispatch       *)
(* tells apart, attr_len from 0 to 5, and the attribute either at the end  *)
(* of the caller's buffer or followed by one more byte.                    *)
(***************************************************************************)
EXTENDS MpUnreach

MC_Afis == {BGP_AFI_IPV4, BGP_AFI_IPV6, BGP_AFI_L2VPN, BGP_AFI_BGPLS, 99}
MC_Safis == {BGP_SAFI_UNICAST, BGP_SAFI_NLRI_LABEL, BGP_SAFI_MPLS, BGP_SAFI_EVPN, 2}

(* AFI in network order, SAFI, then two NLRI bytes. *)
Payload(a, s) == << a \div 256, a % 256, s, 9, 9 >>

MC_Attrs ==
  { [buf |-> SubSeq(Payload(a, s), 1, n) \o t, len |-> n] :
      a \in MC_Afis, s \in MC_Safis, n \in 0..5, t \in {<< >>, << 7 >>} }

MC_Garbage == {0}

=============================================================================
