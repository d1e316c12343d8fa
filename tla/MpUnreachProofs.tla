------------------------- MODULE MpUnreachProofs --------------------------
(***************************************************************************)
(* Proofs about MpUnreach for every attribute a caller may pass.          *)
(*                                                                         *)
(* EorIffEmpty is not inductive: it speaks only of the final states, and *)
(* needs to know where the cursor and the local attr_len stand at each    *)
(* earlier pc.  Frame records that; TypeOK /\ Frame *)
(* is inductive.  As in BmpParserProofs, SMT never sees buf \in Seq(Byte): *)
(* Zenon turns sequence facts into facts about naturals first.             *)
(***************************************************************************)
EXTENDS MpUnreach, SequenceTheorems, TLAPS

(* A byte is a natural number below 256, and conversely. *)
LEMMA IsByte ==
  ASSUME NEW x
  PROVE  x \in Byte <=> x \in Nat /\ x <= 255
BY DEF Byte

(* Every value a byte read can produce is a byte; in bounds it is buf's. *)
LEMMA ReadByteType ==
  ASSUME NEW s \in Seq(Byte), NEW i \in Nat
  PROVE  /\ IF i < Len(s) THEN {s[i + 1]} \subseteq Byte ELSE TRUE
         /\ Garbage \subseteq Byte
<1>1. Len(s) \in Nat
  BY LenProperties, Zenon
<1>2. i < Len(s) => i + 1 \in 1..Len(s)
  BY <1>1
<1>3. i < Len(s) => s[i + 1] \in Byte
  BY <1>2, ElementOfSeq, Zenon
<1>4. QED
  BY <1>3, GarbageAssumption, Zenon

LEMMA ReadByteSub ==
  ASSUME buf \in Seq(Byte), NEW i \in Nat
  PROVE  ReadByte(i) \subseteq Byte
<1>1. /\ IF i < Len(buf) THEN {buf[i + 1]} \subseteq Byte ELSE TRUE
      /\ Garbage \subseteq Byte
  BY ReadByteType
<1>2. QED
  BY <1>1, Zenon DEF ReadByte

(* Where the cursor, the local attr_len and the End-of-RIB flag stand at *)
(* each point of the call.                                                *)
Frame ==
  /\ pc = "afi" => data = 0 /\ eor = 0
  /\ pc = "safi" => data = 2 /\ attr_len = arg_len - 2 /\ eor = 0
  /\ pc \in {"check", "dispatch"} =>
        data = 2 /\ attr_len = arg_len - 3 /\ eor = 0
  /\ pc = "dispatch" => attr_len > 0
  /\ pc = "done" => (eor = 1 <=> arg_len = 3)

IInv == TypeOK /\ Frame

(* TypeOK split in the sequence-typed part and the scalar part. *)
BufType == buf \in Seq(Byte)
ScalarTypes ==
  /\ arg_len \in Nat /\ data \in Nat /\ pp \in {"caller", "past"}
  /\ attr_len \in Int /\ afi \in 0..(2^16 - 1) /\ safi \in Byte
  /\ counts \in Nat /\ eor \in {0, 1} /\ hi \in Nat
  /\ oob \in BOOLEAN /\ wild \in BOOLEAN /\ pc \in PCs

LEMMA TypeSplit == TypeOK <=> BufType /\ ScalarTypes
BY PTL DEF TypeOK, BufType, ScalarTypes

LEMMA InitIInv == Init => IInv
<1> SUFFICES ASSUME Init PROVE BufType /\ ScalarTypes /\ Frame
  BY TypeSplit, Zenon DEF IInv
<1>1. PICK a \in Attrs : buf = a.buf /\ arg_len = a.len
  BY Zenon DEF Init
<1>2. BufType /\ arg_len \in Nat
  BY <1>1, AttrsAssumption, Zenon DEF BufType
<1>3. /\ data = 0 /\ pp = "caller" /\ attr_len = 0 /\ afi = 0 /\ safi = 0
      /\ counts \in {0, 1} /\ eor = 0 /\ hi = 0 /\ oob = FALSE
      /\ wild = FALSE /\ pc = "afi"
  BY Zenon DEF Init
<1>4. oob \in BOOLEAN /\ wild \in BOOLEAN
  BY <1>3, Zenon
<1>5. ScalarTypes
  BY <1>2, <1>3, <1>4 DEF ScalarTypes, Byte, PCs
<1>6. Frame
  BY <1>3 DEF Frame
<1>7. QED
  BY <1>2, <1>5, <1>6

(* Reading the AFI moves the cursor over two bytes and leaves two fewer *)
(* to read; the value is a 16-bit number whichever bytes it comes from.  *)
LEMMA ReadAfiStep ==
  ASSUME BufType, ScalarTypes, Frame, ReadAfi
  PROVE  BufType' /\ ScalarTypes' /\ Frame'
<1>1. PICK h \in ReadByte(data), l \in ReadByte(data + 1) : afi' = h * 256 + l
  BY Zenon DEF ReadAfi
<1>2. data \in Nat /\ data + 1 \in Nat
  BY DEF ScalarTypes
<1>21. ReadByte(data) \subseteq Byte /\ ReadByte(data + 1) \subseteq Byte
  BY <1>2, ReadByteSub, Zenon DEF BufType
<1>22. h \in Byte /\ l \in Byte
  BY <1>1, <1>21, Zenon
<1>3. h \in Nat /\ h <= 255 /\ l \in Nat /\ l <= 255
  BY <1>22, IsByte, Zenon
<1>4. /\ pc = "afi" /\ data' = data + 2 /\ attr_len' = arg_len - 2
      /\ hi' = data + 2 /\ oob' = (oob \/ ~InBuf(data + 2)) /\ pc' = "safi"
      /\ UNCHANGED <<buf, arg_len, pp, safi, counts, eor, wild>>
  BY Zenon DEF ReadAfi
<1>5. oob' \in BOOLEAN
  BY <1>4, Zenon
<1>6. BufType'
  BY <1>4, Zenon DEF BufType
<1>7. ScalarTypes'
  BY <1>1, <1>3, <1>4, <1>5 DEF ScalarTypes, PCs
<1>8. Frame'
  BY <1>4 DEF Frame, ScalarTypes
<1>9. QED
  BY <1>6, <1>7, <1>8

(* `**data++` reads the byte under the cursor and leaves the cursor     *)
(* where it is; one byte fewer is left to read.                         *)
LEMMA ReadSafiStep ==
  ASSUME BufType, ScalarTypes, Frame, ReadSafi
  PROVE  BufType' /\ ScalarTypes' /\ Frame'
<1>1. /\ pc = "safi" /\ safi' \in ReadByte(data) /\ pp' = "past"
      /\ attr_len' = attr_len - 1 /\ hi' = data + 1
      /\ oob' = (oob \/ ~InBuf(data + 1)) /\ pc' = "check"
      /\ UNCHANGED <<buf, arg_len, data, afi, counts, eor, wild>>
  BY Zenon DEF ReadSafi
<1>21. data \in Nat
  BY DEF ScalarTypes
<1>2. safi' \in Byte
  BY <1>1, <1>21, ReadByteSub, Zenon DEF BufType
<1>3. oob' \in BOOLEAN
  BY <1>1, Zenon
<1>4. data = 2 /\ attr_len = arg_len - 2 /\ eor = 0
  BY <1>1 DEF Frame
<1>6. BufType'
  BY <1>1, Zenon DEF BufType
<1>7. ScalarTypes'
  BY <1>1, <1>2, <1>3 DEF ScalarTypes, PCs
<1>8. Frame'
  BY <1>1, <1>4 DEF Frame, ScalarTypes
<1>9. QED
  BY <1>6, <1>7, <1>8

(* The length checks: End-of-RIB is set exactly when nothing is left   *)
(* after AFI and SAFI, that is when the caller passed attr_len = 3.      *)
LEMMA CheckLenStep ==
  ASSUME BufType, ScalarTypes, Frame, CheckLen
  PROVE  BufType' /\ ScalarTypes' /\ Frame'
<1>1. /\ pc = "check"
      /\ \/ attr_len < 0 /\ pc' = "done" /\ eor' = eor
         \/ attr_len = 0 /\ eor' = 1 /\ pc' = "done"
         \/ attr_len > 0 /\ pc' = "dispatch" /\ eor' = eor
      /\ UNCHANGED <<buf, arg_len, data, pp, attr_len, afi, safi, counts, hi, oob, wild>>
  BY Zenon DEF CheckLen
<1>2. data = 2 /\ attr_len = arg_len - 3 /\ eor = 0
  BY <1>1 DEF Frame
<1>3. oob' \in BOOLEAN /\ wild' \in BOOLEAN
  BY <1>1, Zenon DEF ScalarTypes
<1>4. BufType'
  BY <1>1, Zenon DEF BufType
<1>5. ScalarTypes'
  BY <1>1, <1>3 DEF ScalarTypes, PCs
<1>6. Frame'
  BY <1>1, <1>2 DEF Frame, ScalarTypes
<1>7. QED
  BY <1>4, <1>5, <1>6

(* The AFI switch of parse_afi ends in a sub-parser call or in a return  *)
(* without reading; only the IPv4/IPv6 arm touches the counts.           *)
LEMMA ParseAfiCases ==
  ASSUME ParseAfi, counts \in Nat
  PROVE  /\ SubParse \/ Skip
         /\ counts' \in Nat
<1> DEFINE L2 == afi = BGP_AFI_L2VPN /\ safi = BGP_SAFI_EVPN
<1>1. CASE afi \in IpAfis
  <2>1. ~(afi = BGP_AFI_BGPLS) /\ ~L2
    BY <1>1 DEF IpAfis, BGP_AFI_IPV4, BGP_AFI_IPV6, BGP_AFI_BGPLS, BGP_AFI_L2VPN
  <2>2. ParseAfiIpv4Ipv6
    BY <1>1, <2>1, Zenon DEF ParseAfi
  <2>3. QED
    BY <2>2, Zenon DEF ParseAfiIpv4Ipv6
<1>2. CASE afi = BGP_AFI_BGPLS
  <2>1. afi \notin IpAfis /\ ~L2
    BY <1>2 DEF IpAfis, BGP_AFI_IPV4, BGP_AFI_IPV6, BGP_AFI_BGPLS, BGP_AFI_L2VPN
  <2>2. SubParse /\ counts' = counts
    BY <1>2, <2>1, Zenon DEF ParseAfi
  <2>3. QED
    BY <2>2, Zenon
<1>3. CASE L2
  <2>1. afi \notin IpAfis /\ afi # BGP_AFI_BGPLS
    BY <1>3 DEF IpAfis, BGP_AFI_IPV4, BGP_AFI_IPV6, BGP_AFI_BGPLS, BGP_AFI_L2VPN
  <2>2. SubParse /\ counts' = counts
    BY <1>3, <2>1, Zenon DEF ParseAfi
  <2>3. QED
    BY <2>2, Zenon
<1>4. CASE afi \notin IpAfis /\ afi # BGP_AFI_BGPLS /\ ~L2
  <2>1. Skip /\ counts' = counts
    BY <1>4, Zenon DEF ParseAfi
  <2>2. QED
    BY <2>1, Zenon
<1>5. QED
  BY <1>1, <1>2, <1>3, <1>4

(* The dispatch: whatever a sub-parser does through the stray pointer,   *)
(* End-of-RIB stays unset.                                                *)
LEMMA ParseAfiStep ==
  ASSUME BufType, ScalarTypes, Frame, ParseAfi
  PROVE  BufType' /\ ScalarTypes' /\ Frame'
<1>1. /\ pc = "dispatch"
      /\ UNCHANGED <<buf, arg_len, pp, attr_len, afi, safi, eor>>
  BY Zenon DEF ParseAfi
<1>2. /\ data \in Nat /\ hi \in Nat /\ attr_len \in Int /\ counts \in Nat
      /\ data = 2 /\ attr_len = arg_len - 3 /\ attr_len > 0 /\ eor = 0
  BY <1>1 DEF Frame, ScalarTypes
<1>3. (SubParse \/ Skip) /\ counts' \in Nat
  BY <1>2, ParseAfiCases
<1>4. /\ data' \in Nat /\ hi' \in Nat /\ pc' \in {"crashed", "done"}
      /\ oob' \in BOOLEAN /\ wild' \in BOOLEAN
  <2>1. CASE SubParse /\ pp = "caller"
    <3>1. /\ data' = data + attr_len /\ hi' = data + attr_len
          /\ oob' = (oob \/ ~InBuf(data + attr_len)) /\ pc' = "done"
          /\ wild' = wild
      BY <2>1, Zenon DEF SubParse
    <3>2. oob' \in BOOLEAN /\ wild' \in BOOLEAN
      BY <3>1, Zenon DEF ScalarTypes
    <3>3. QED
      BY <1>2, <3>1, <3>2
  <2>2. CASE SubParse /\ pp # "caller"
    <3>1. /\ wild' = TRUE /\ pc' \in {"crashed", "done"}
          /\ data' = data /\ hi' = hi /\ oob' = oob
      BY <2>2, Zenon DEF SubParse
    <3>2. oob' \in BOOLEAN /\ wild' \in BOOLEAN
      BY <3>1, Zenon DEF ScalarTypes
    <3>3. QED
      BY <1>2, <3>1, <3>2
  <2>3. CASE Skip
    <3>1. pc' = "done" /\ data' = data /\ hi' = hi /\ oob' = oob /\ wild' = wild
      BY <2>3, Zenon DEF Skip
    <3>2. oob' \in BOOLEAN /\ wild' \in BOOLEAN
      BY <3>1, Zenon DEF ScalarTypes
    <3>3. QED
      BY <1>2, <3>1, <3>2
  <2>4. QED
    BY <1>3, <2>1, <2>2, <2>3
<1>5. BufType'
  BY <1>1, Zenon DEF BufType
<1>6. ScalarTypes'
  BY <1>1, <1>3, <1>4 DEF ScalarTypes, PCs
<1>7. Frame'
  BY <1>1, <1>2, <1>4 DEF Frame
<1>8. QED
  BY <1>5, <1>6, <1>7

LEMMA IInvStep == IInv /\ [Next]_vars => IInv'
<1> SUFFICES ASSUME TypeOK, Frame, [Next]_vars
             PROVE  TypeOK' /\ Frame'
  BY Zenon DEF IInv
<1>0. BufType /\ ScalarTypes
  BY TypeSplit
<1> SUFFICES BufType' /\ ScalarTypes' /\ Frame'
  BY PTL DEF TypeOK, BufType, ScalarTypes
<1>1. CASE ReadAfi
  BY <1>0, <1>1, ReadAfiStep
<1>2. CASE ReadSafi
  BY <1>0, <1>2, ReadSafiStep
<1>3. CASE CheckLen
  BY <1>0, <1>3, CheckLenStep
<1>4. CASE ParseAfi
  BY <1>0, <1>4, ParseAfiStep
<1>5. CASE UNCHANGED vars
  BY <1>0, <1>5, Zenon DEF vars, BufType, ScalarTypes, Frame
<1>6. QED
  BY <1>1, <1>2, <1>3, <1>4, <1>5 DEF Next

(* The variables of the MP_UNREACH parse keep their types in every run,  *)
(* for every attribute a caller may pass.                                *)
THEOREM TypeCorrect == Spec => []TypeOK
<1>1. IInv => TypeOK
  BY Zenon DEF IInv
<1>2. QED
  BY InitIInv, IInvStep, <1>1, PTL DEF Spec

(* End-of-RIB is reported exactly for the attributes with attr_len = 3   *)
(* (spec 4.3), whatever AFI, SAFI and buffer follow: the two decrements *)
(* after the AFI and SAFI reads and the == 0 test agree for every length.*)
THEOREM EorCorrect == Spec => []EorIffEmpty
<1>1. IInv => EorIffEmpty
  BY DEF IInv, Frame, EorIffEmpty
<1>2. QED
  BY InitIInv, IInvStep, <1>1, PTL DEF Spec

=============================================================================
