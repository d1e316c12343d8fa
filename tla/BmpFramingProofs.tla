-------------------------- MODULE BmpFramingProofs --------------------------
(***************************************************************************)
(* Proof of V3Framing: a call that returns on a v3 route-monitoring,      *)
(* stats or peer-up message lying in the buffer leaves the caller's       *)
(* buffer pointer at the end of that message.                             *)
(*                                                                         *)
(* It rests on two facts the code does not check but its constants and    *)
(* types give (FramingAssumption):                                         *)
(*   - parse_bmp_v3 reads 4 + 1 header bytes and subtracts 1 +            *)
(*     BMP_HDRv3_LEN, so BMP_HDRv3_LEN must be 5;                           *)
(*   - buf_len is an int, so a buffer is shorter than 2^(WordBits-1) and  *)
(*     the length arithmetic of a message in the buffer never wraps.      *)
(*                                                                         *)
(* The invariant FrameInv follows a v3 call through its steps: where the  *)
(* pointer stands and what bmp_len holds after parse_bmp_v3 and after     *)
(* parse_peer_hdr, and that the body handlers then copy exactly the rest  *)
(* of the message.                                                         *)
(***************************************************************************)
EXTENDS BmpParserProofs

USE HeaderAssumption, SizeAssumption

FramingAssumption ==
  /\ HdrV3Len = 5
  /\ \A s \in Streams : Len(s) < Modulus \div 2

(* The declared length of the message the current call started on, and   *)
(* whether that message of type t has its headers and lies in the buffer. *)
D == DeclaredLen(start)
Fits(t) == D >= V3HeadersLen(t) /\ start + D <= Len(stream)

FrameInv ==
  /\ pc = "v3" => start < Len(stream) /\ stream[start + 1] = 3 /\ pos = start + 1
  /\ pc = "v2" => start < Len(stream) /\ stream[start + 1] \in {1, 2}
  /\ pc = "peer_hdr" =>
       /\ IsV3At(start) /\ pos = start + 6
       /\ bmp_len = V3BodyLen(D) /\ bmp_type = stream[start + 6]
  /\ (pc = "body" /\ IsV3At(start) /\ bmp_type \in 0..3) =>
       /\ pos = start + 6 + PeerHdrLen
       /\ bmp_len = PeerHdrBodyLen(V3BodyLen(D))
  /\ pc = "stats" => bmp_type = TYPE_STATS_REPORT
  /\ (pc = "stats" /\ IsV3At(start) /\ Fits(TYPE_STATS_REPORT)) => pos = start + D
  /\ pc = "tlv" => bmp_type \in {TYPE_INIT_MSG, TYPE_TERM_MSG}
  /\ V3Framing

-----------------------------------------------------------------------------
(* Arithmetic and buffer facts.                                            *)

(* The int conversion leaves a value of the lower half of the range alone. *)
LEMMA NoWrap ==
  ASSUME NEW x \in Int, 0 <= x, x < Modulus \div 2
  PROVE  ToInt(x) = x
BY ModulusAssumption, SMT DEF ToInt

(* A buffer is shorter than half the int range. *)
LEMMA LenBound ==
  ASSUME FramingAssumption, SeqTypes
  PROVE  Len(stream) < Modulus \div 2
BY Zenon DEF FramingAssumption, SeqTypes

(* The declared length of a v3 message in the buffer is a natural number. *)
LEMMA DeclaredNat ==
  ASSUME SeqTypes, ScalarTypes, IsV3At(start)
  PROVE  D \in Nat
<1>1. ByteFacts(stream) /\ start \in Nat /\ start + 5 <= Len(stream)
  BY StreamFacts DEF ScalarTypes, IsV3At, Avail
<1>2. \A i \in 1..4 : stream[start + 1 + i] \in Nat
  BY <1>1 DEF ByteFacts
<1>3. QED
  BY <1>1, <1>2, NetToHostType DEF D, DeclaredLen

(* A step that keeps the buffer and the start of the call keeps what the  *)
(* message it started on declares.                                        *)
LEMMA SameCall ==
  ASSUME stream' = stream, start' = start
  PROVE  /\ D' = D /\ IsV3At(start)' = IsV3At(start)
         /\ \A t : Fits(t)' = Fits(t)
BY DEF D, DeclaredLen, IsV3At, Avail, Fits

(* buffer_bmp_message, given a length that neither is negative nor runs   *)
(* past the buffer, and not throwing, copies exactly that many bytes.     *)
LEMMA BufferLands ==
  ASSUME NEW p \in Nat, NEW blen \in Int, 0 <= blen, p + blen <= Len(stream),
         Len(stream) \in Nat, ~BufferBmpMessage(p, blen).thrown
  PROVE  BufferBmpMessage(p, blen).pos = p + blen
<1>1. CASE blen = 0
  <2>1. BufferBmpMessage(p, blen).pos = p
    BY <1>1, Zenon DEF BufferBmpMessage
  <2>2. QED
    BY <1>1, <2>1
<1>2. CASE blen > 0
  <2>1. Avail(p, blen)
    BY DEF Avail
  <2>2. ~(blen <= 0)
    BY <1>2
  <2>3. CASE blen > BmpDataSize
    BY <2>2, <2>3, Zenon DEF BufferBmpMessage
  <2>4. CASE ~(blen > BmpDataSize)
    BY <2>1, <2>2, <2>4, Zenon DEF BufferBmpMessage
  <2>5. QED
    BY <2>3, <2>4
<1>3. QED
  BY <1>1, <1>2

(* The length arithmetic of a v3 message of type t that has its headers   *)
(* and lies in the buffer: parse_bmp_v3 and parse_peer_hdr leave bmp_len  *)
(* at what follows the per-peer header, and nothing wraps.                *)
LEMMA HeaderArith ==
  ASSUME FramingAssumption, SeqTypes, ScalarTypes, IsV3At(start),
         NEW t \in {TYPE_ROUTE_MON, TYPE_STATS_REPORT, TYPE_PEER_UP}, Fits(t)
  PROVE  /\ D \in Nat
         /\ PeerHdrBodyLen(V3BodyLen(D)) = D - 6 - PeerHdrLen
         /\ D - 6 - PeerHdrLen >= (IF t = TYPE_PEER_UP THEN LocalIpLen + 4 ELSE 0)
         /\ start + D < Modulus \div 2
<1>1. D \in Nat
  BY DeclaredNat
<1>2. Len(stream) < Modulus \div 2 /\ HdrV3Len = 5 /\ start \in Nat
  <2>1. HdrV3Len = 5
    BY DEF FramingAssumption
  <2>2. start \in Nat
    BY DEF ScalarTypes
  <2>3. QED
    BY <2>1, <2>2, LenBound
<1>3. /\ D >= 6 + PeerHdrLen + (IF t = TYPE_PEER_UP THEN LocalIpLen + 4 ELSE 0)
      /\ start + D <= Len(stream)
  BY <1>2 DEF Fits, V3HeadersLen
<1>0. Len(stream) \in Nat
  BY StreamFacts DEF ByteFacts
<1>a. /\ D - 6 \in Int /\ 0 <= D - 6 /\ D - 6 < Modulus \div 2
      /\ D - 6 - PeerHdrLen \in Int /\ 0 <= D - 6 - PeerHdrLen
      /\ D - 6 - PeerHdrLen < Modulus \div 2
  BY <1>0, <1>1, <1>2, <1>3, ModulusAssumption
<1>4. V3BodyLen(D) = D - 6
  <2>1. ToInt(D - 6) = D - 6
    BY <1>a, NoWrap
  <2>2. D - 1 - HdrV3Len = D - 6
    BY <1>1, <1>2
  <2>3. QED
    BY <2>1, <2>2 DEF V3BodyLen
<1>5. PeerHdrBodyLen(D - 6) = D - 6 - PeerHdrLen
  <2>1. ToInt(D - 6 - PeerHdrLen) = D - 6 - PeerHdrLen
    BY <1>a, NoWrap
  <2>2. QED
    BY <2>1 DEF PeerHdrBodyLen
<1>6. QED
  BY <1>0, <1>1, <1>2, <1>3, <1>4, <1>5, ModulusAssumption

-----------------------------------------------------------------------------
(* Each step keeps FrameInv.                                               *)

(* A step to a point FrameInv says nothing of. *)
LEMMA Vacuous ==
  ASSUME pc' \in {"idle", "threw", "crashed"}
  PROVE  FrameInv'
BY Zenon DEF FrameInv, V3Framing, FramedAt

(* A return on a message of a type V3Framing does not speak of. *)
LEMMA ReturnedOther ==
  ASSUME pc' = "returned",
         bmp_type' \notin {TYPE_ROUTE_MON, TYPE_STATS_REPORT, TYPE_PEER_UP}
  PROVE  FrameInv'
BY Zenon DEF FrameInv, V3Framing, FramedAt

(* The version byte starts a v3 call one byte into its message. *)
LEMMA ReadVersionFrame ==
  ASSUME ScalarTypes, ReadVersion
  PROVE  FrameInv'
<1>1. CASE ~Avail(pos, 1)
  BY <1>1, Vacuous, Zenon DEF ReadVersion
<1>2. CASE Avail(pos, 1)
  <2>1. /\ pos' = pos + 1 /\ start' = pos /\ stream' = stream
        /\ pc' = CASE stream[pos + 1] = 3        -> "v3"
                   [] stream[pos + 1] \in {1, 2} -> "v2"
                   [] OTHER                      -> "threw"
    BY <1>2, Zenon DEF ReadVersion, Avail
  <2>2. start' < Len(stream') /\ pos' = start' + 1
    BY <1>2, <2>1 DEF Avail, ScalarTypes
  <2>3. CASE stream[pos + 1] = 3
    <3>1. pc' = "v3"
      BY <2>1, <2>3
    <3>2. QED
      BY <2>1, <2>2, <2>3, <3>1, Zenon DEF FrameInv, V3Framing, FramedAt
  <2>4. CASE stream[pos + 1] \in {1, 2}
    <3>1. pc' = "v2"
      BY <2>1, <2>4
    <3>2. QED
      BY <2>1, <2>2, <2>4, <3>1, Zenon DEF FrameInv, V3Framing, FramedAt
  <2>5. CASE stream[pos + 1] # 3 /\ stream[pos + 1] \notin {1, 2}
    BY <2>1, <2>5, Vacuous, Zenon
  <2>6. QED
    BY <2>3, <2>4, <2>5
<1>3. QED
  BY <1>1, <1>2

(* parse_bmp_v3 leaves the pointer after the common header and bmp_len at *)
(* the declared length less that header.                                   *)
LEMMA ParseBmpV3Frame ==
  ASSUME ScalarTypes, FrameInv, ParseBmpV3
  PROVE  FrameInv'
<1>1. pc = "v3"
  BY Zenon DEF ParseBmpV3
<1>2. start < Len(stream) /\ stream[start + 1] = 3 /\ pos = start + 1
  BY <1>1, Zenon DEF FrameInv
<1>3. CASE ~Avail(pos, 5)
  BY <1>3, Vacuous, Zenon DEF ParseBmpV3, Threw
<1>4. CASE Avail(pos, 5)
  <2> DEFINE blen == V3BodyLen(NetToHost(stream, pos, 4))
             type == stream[pos + 5]
  <2>1. /\ pos' = pos + 5 /\ bmp_len' = blen
        /\ pc' = IF blen > BgpMaxMsgSize THEN "threw"
                  ELSE CASE type \in 0..3 -> "peer_hdr"
                         [] type \in 4..5 -> "body"
                         [] OTHER         -> "threw"
        /\ bmp_type' = IF pc' = "threw" THEN bmp_type ELSE type
        /\ stream' = stream /\ start' = start
    BY <1>4, Zenon DEF ParseBmpV3, Avail
  <2>2. blen = V3BodyLen(D)
    BY <1>2 DEF D, DeclaredLen
  <2>3. IsV3At(start) /\ pos' = start + 6 /\ type = stream[start + 6]
    <3>1. pos \in Nat /\ start \in Nat
      BY DEF ScalarTypes
    <3>2. pos' = pos + 5
      BY <2>1, Zenon
    <3>3. QED
      BY <1>2, <1>4, <3>1, <3>2 DEF IsV3At, Avail
  <2>4. D' = D /\ IsV3At(start)' = IsV3At(start)
    BY <2>1, SameCall
  <2>5. CASE blen > BgpMaxMsgSize \/ ~(type \in 0..5)
    <3>1. pc' = "threw"
      BY <2>1, <2>5
    <3>2. QED
      BY <3>1, Vacuous
  <2>6. CASE ~(blen > BgpMaxMsgSize) /\ type \in 0..3
    <3>1. pc' = "peer_hdr" /\ bmp_type' = type
      BY <2>1, <2>6
    <3>2. QED
      BY <2>1, <2>2, <2>3, <2>4, <3>1, Zenon DEF FrameInv, V3Framing, FramedAt
  <2>7. CASE ~(blen > BgpMaxMsgSize) /\ type \in 4..5
    <3>0. type \notin 0..3
      BY <2>7
    <3>1. pc' = "body" /\ bmp_type' = type
      BY <2>1, <2>7, <3>0
    <3>2. bmp_type' \notin 0..3
      BY <3>0, <3>1
    <3>3. QED
      BY <3>1, <3>2, Zenon DEF FrameInv, V3Framing, FramedAt
  <2>8. QED
    <3>1. type \in 0..5 => type \in 0..3 \/ type \in 4..5
      OBVIOUS
    <3>2. QED
      BY <2>5, <2>6, <2>7, <3>1
<1>5. QED
  BY <1>3, <1>4

(* parse_peer_hdr moves the pointer past the per-peer header and takes    *)
(* that header off bmp_len.                                               *)
LEMMA ParsePeerHdrFrame ==
  ASSUME ScalarTypes, FrameInv, ParsePeerHdr
  PROVE  FrameInv'
<1>1. pc = "peer_hdr"
  BY Zenon DEF ParsePeerHdr
<1>2. /\ IsV3At(start) /\ pos = start + 6
      /\ bmp_len = V3BodyLen(D) /\ bmp_type = stream[start + 6]
  BY <1>1, Zenon DEF FrameInv
<1>3. CASE ~Avail(pos, PeerHdrLen)
  BY <1>3, Vacuous, Zenon DEF ParsePeerHdr, Threw
<1>4. CASE Avail(pos, PeerHdrLen)
  <2>1. /\ pos' = pos + PeerHdrLen /\ bmp_len' = PeerHdrBodyLen(bmp_len)
        /\ pc' = "body" /\ stream' = stream /\ start' = start
    BY <1>4, Zenon DEF ParsePeerHdr
  <2>2. D' = D
    BY <2>1, SameCall
  <2>3. pos' = start + 6 + PeerHdrLen
    BY <1>2, <2>1 DEF ScalarTypes
  <2>4. bmp_len' = PeerHdrBodyLen(V3BodyLen(D'))
    BY <1>2, <2>1, <2>2
  <2>5. QED
    BY <2>1, <2>3, <2>4, Zenon DEF FrameInv, V3Framing, FramedAt
<1>5. QED
  BY <1>3, <1>4

(* A v1/v2 call never reaches the body on a message that reads as v3. *)
LEMMA ParseBmpV2Frame ==
  ASSUME FrameInv, ParseBmpV2
  PROVE  FrameInv'
<1>1. pc = "v2"
  BY Zenon DEF ParseBmpV2
<1>2. stream[start + 1] \in {1, 2}
  BY <1>1, Zenon DEF FrameInv
<1>3. ~IsV3At(start)
  BY <1>2 DEF IsV3At
<1>4. pc' \in {"threw", "body"} /\ stream' = stream /\ start' = start
  BY Zenon DEF ParseBmpV2, Threw
<1>5. ~IsV3At(start)'
  BY <1>3, <1>4, SameCall
<1>6. CASE pc' = "threw"
  BY <1>6, Vacuous
<1>7. CASE pc' = "body"
  BY <1>5, <1>7, Zenon DEF FrameInv, V3Framing, FramedAt
<1>8. QED
  BY <1>4, <1>6, <1>7

(* A return on a route-monitoring, stats or peer-up message is framed    *)
(* when the message is.                                                    *)
LEMMA ReturnedAs ==
  ASSUME pc' = "returned",
         NEW t \in {TYPE_ROUTE_MON, TYPE_STATS_REPORT, TYPE_PEER_UP},
         bmp_type' = t, FramedAt(t)'
  PROVE  FrameInv'
<1>1. V3Framing'
  <2>1. SUFFICES ASSUME NEW u \in {TYPE_ROUTE_MON, TYPE_STATS_REPORT, TYPE_PEER_UP}
                 PROVE  FramedAt(u)'
    BY Zenon DEF V3Framing
  <2>2. CASE u = t
    BY <2>2
  <2>3. CASE u # t
    BY <2>3, Zenon DEF FramedAt
  <2>4. QED
    BY <2>2, <2>3
<1>2. QED
  BY <1>1, Zenon DEF FrameInv

(* In the body of a v3 message of type t that has its headers and lies in *)
(* the buffer, the pointer is after the per-peer header and bmp_len holds *)
(* exactly the rest of the message.                                       *)
LEMMA BodyAt ==
  ASSUME FramingAssumption, SeqTypes, ScalarTypes, FrameInv,
         pc = "body", IsV3At(start),
         NEW t \in {TYPE_ROUTE_MON, TYPE_STATS_REPORT, TYPE_PEER_UP},
         bmp_type = t, Fits(t)
  PROVE  /\ D \in Nat /\ pos \in Nat
         /\ pos = start + 6 + PeerHdrLen
         /\ bmp_len = D - 6 - PeerHdrLen
         /\ D - 6 - PeerHdrLen >= (IF t = TYPE_PEER_UP THEN LocalIpLen + 4 ELSE 0)
         /\ start + D < Modulus \div 2
<1>1. bmp_type \in 0..3
  BY DEF TYPE_ROUTE_MON, TYPE_STATS_REPORT, TYPE_PEER_UP
<1>2. pos = start + 6 + PeerHdrLen /\ bmp_len = PeerHdrBodyLen(V3BodyLen(D))
  BY <1>1, Zenon DEF FrameInv
<1>3. /\ D \in Nat
      /\ PeerHdrBodyLen(V3BodyLen(D)) = D - 6 - PeerHdrLen
      /\ D - 6 - PeerHdrLen >= (IF t = TYPE_PEER_UP THEN LocalIpLen + 4 ELSE 0)
      /\ start + D < Modulus \div 2
  BY HeaderArith
<1>4. pos \in Nat
  BY DEF ScalarTypes
<1>5. QED
  BY <1>2, <1>3, <1>4

(* case TYPE_ROUTE_MON copies the rest of the message and returns at its  *)
(* end.                                                                    *)
LEMMA RouteMonFrame ==
  ASSUME FramingAssumption, SeqTypes, ScalarTypes, FrameInv, RouteMon
  PROVE  FrameInv'
<1> DEFINE b == BufferBmpMessage(pos, bmp_len)
<1>1. pc = "body" /\ bmp_type = TYPE_ROUTE_MON
  BY Zenon DEF RouteMon
<1>2. CASE b.thrown
  BY <1>2, Vacuous, Zenon DEF RouteMon, Threw
<1>3. CASE ~b.thrown
  <2>1. /\ pos' = b.pos /\ pc' = "returned" /\ bmp_type' = bmp_type
        /\ stream' = stream /\ start' = start
    BY <1>3, Zenon DEF RouteMon, Buffered
  <2>2. D' = D /\ IsV3At(start)' = IsV3At(start)
    BY <2>1, SameCall
  <2>3. ASSUME IsV3At(start), Fits(TYPE_ROUTE_MON)
        PROVE  pos' = start + D
    <3>1. /\ D \in Nat /\ pos \in Nat
          /\ pos = start + 6 + PeerHdrLen /\ bmp_len = D - 6 - PeerHdrLen
          /\ D - 6 - PeerHdrLen >= 0
      BY <1>1, <2>3, BodyAt DEF TYPE_ROUTE_MON, TYPE_PEER_UP
    <3>2. Len(stream) \in Nat /\ start \in Nat /\ start + D <= Len(stream)
      BY <2>3, StreamFacts DEF ByteFacts, Fits, ScalarTypes
    <3>3. b.pos = pos + bmp_len
      <4>1. bmp_len \in Int /\ 0 <= bmp_len /\ pos + bmp_len <= Len(stream)
        BY <3>1, <3>2
      <4>2. QED
        BY <1>3, <3>1, <3>2, <4>1, BufferLands
    <3>4. QED
      BY <2>1, <3>1, <3>2, <3>3
  <2>4. FramedAt(TYPE_ROUTE_MON)'
    BY <2>1, <2>2, <2>3 DEF FramedAt, Fits, D
  <2>5. QED
    BY <1>1, <2>1, <2>4, ReturnedAs
<1>4. QED
  BY <1>2, <1>3

(* case TYPE_STATS_REPORT copies the rest of the message before the      *)
(* stats loop starts.                                                      *)
LEMMA StatsReportFrame ==
  ASSUME FramingAssumption, SeqTypes, ScalarTypes, FrameInv, StatsReport
  PROVE  FrameInv'
<1> DEFINE b == BufferBmpMessage(pos, bmp_len)
<1>1. pc = "body" /\ bmp_type = TYPE_STATS_REPORT
  BY Zenon DEF StatsReport
<1>2. CASE b.thrown \/ b.dlen < 4
  <2>1. b.dlen \in Int
    <3>1. pos \in 0..Len(stream) /\ bmp_len \in IntW
      BY DEF ScalarTypes
    <3>2. QED
      BY <3>1, BufferType
  <2>2. ~(~b.thrown /\ b.dlen >= 4)
    BY <1>2, <2>1
  <2>3. QED
    BY <2>2, Vacuous, Zenon DEF StatsReport, Threw
<1>3. CASE ~(b.thrown \/ b.dlen < 4)
  <2>1. /\ pos' = b.pos /\ pc' = "stats" /\ bmp_type' = bmp_type
        /\ stream' = stream /\ start' = start
    BY <1>3, Zenon DEF StatsReport, Buffered
  <2>2. D' = D /\ IsV3At(start)' = IsV3At(start)
        /\ Fits(TYPE_STATS_REPORT)' = Fits(TYPE_STATS_REPORT)
    BY <2>1, SameCall
  <2>3. ASSUME IsV3At(start), Fits(TYPE_STATS_REPORT)
        PROVE  pos' = start + D
    <3>1. /\ D \in Nat /\ pos \in Nat
          /\ pos = start + 6 + PeerHdrLen /\ bmp_len = D - 6 - PeerHdrLen
          /\ D - 6 - PeerHdrLen >= 0
      BY <1>1, <2>3, BodyAt DEF TYPE_STATS_REPORT, TYPE_PEER_UP
    <3>2. Len(stream) \in Nat /\ start \in Nat /\ start + D <= Len(stream)
      BY <2>3, StreamFacts DEF ByteFacts, Fits, ScalarTypes
    <3>3. b.pos = pos + bmp_len
      <4>1. bmp_len \in Int /\ 0 <= bmp_len /\ pos + bmp_len <= Len(stream)
        BY <3>1, <3>2
      <4>2. QED
        BY <1>3, <3>1, <3>2, <4>1, BufferLands
    <3>4. QED
      BY <2>1, <3>1, <3>2, <3>3
  <2>4. QED
    BY <1>1, <2>1, <2>2, <2>3, Zenon DEF FrameInv, V3Framing, FramedAt
<1>4. QED
  BY <1>2, <1>3

(* case TYPE_PEER_UP: parse_peer_up_event_hdr reads the local address and *)
(* the ports and takes them off bmp_len; the rest of the message is then  *)
(* copied, and the call returns at its end.                               *)
LEMMA PeerUpFrame ==
  ASSUME FramingAssumption, SeqTypes, ScalarTypes, FrameInv, PeerUp
  PROVE  FrameInv'
<1>1. pc = "body" /\ bmp_type = TYPE_PEER_UP
  BY Zenon DEF PeerUp
<1>2. CASE ~Avail(pos, LocalIpLen + 4)
  BY <1>2, Vacuous, Zenon DEF PeerUp, Threw
<1>3. CASE Avail(pos, LocalIpLen + 4)
  <2> DEFINE b == BufferBmpMessage(pos + LocalIpLen + 4,
                                   ToInt(bmp_len - (LocalIpLen + 4)))
             u == HandleUpEvent(b.data, b.dlen)
  <2>1. CASE b.thrown \/ u.thrown
    BY <1>3, <2>1, Vacuous, Zenon DEF PeerUp, Threw
  <2>2. CASE ~b.thrown /\ ~u.thrown
    <3>1. /\ pos' = b.pos /\ pc' = "returned" /\ bmp_type' = bmp_type
          /\ stream' = stream /\ start' = start
      BY <1>3, <2>2, Zenon DEF PeerUp, Buffered
    <3>2. D' = D /\ IsV3At(start)' = IsV3At(start)
      BY <3>1, SameCall
    <3>3. ASSUME IsV3At(start), Fits(TYPE_PEER_UP)
          PROVE  pos' = start + D
      <4>1. /\ D \in Nat /\ pos \in Nat
            /\ pos = start + 6 + PeerHdrLen /\ bmp_len = D - 6 - PeerHdrLen
            /\ D - 6 - PeerHdrLen >= LocalIpLen + 4
            /\ start + D < Modulus \div 2
        BY <1>1, <3>3, BodyAt
      <4>2. Len(stream) \in Nat /\ start \in Nat /\ start + D <= Len(stream)
        BY <3>3, StreamFacts DEF ByteFacts, Fits, ScalarTypes
      <4>3. ToInt(bmp_len - (LocalIpLen + 4)) = bmp_len - (LocalIpLen + 4)
        <5>1. /\ bmp_len - (LocalIpLen + 4) \in Int
              /\ 0 <= bmp_len - (LocalIpLen + 4)
              /\ bmp_len - (LocalIpLen + 4) < Modulus \div 2
          BY <4>1, <4>2, ModulusAssumption
        <5>2. QED
          BY <5>1, NoWrap
      <4>4. b.pos = pos + LocalIpLen + 4 + (bmp_len - (LocalIpLen + 4))
        <5>1. /\ pos + LocalIpLen + 4 \in Nat
              /\ bmp_len - (LocalIpLen + 4) \in Int
              /\ 0 <= bmp_len - (LocalIpLen + 4)
              /\ pos + LocalIpLen + 4 + (bmp_len - (LocalIpLen + 4)) <= Len(stream)
          BY <4>1, <4>2
        <5>2. ~BufferBmpMessage(pos + LocalIpLen + 4,
                                bmp_len - (LocalIpLen + 4)).thrown
          BY <2>2, <4>3
        <5>3. QED
          BY <4>2, <4>3, <5>1, <5>2, BufferLands
      <4>5. QED
        BY <3>1, <4>1, <4>2, <4>4
    <3>4. FramedAt(TYPE_PEER_UP)'
      BY <3>1, <3>2, <3>3 DEF FramedAt, Fits, D
    <3>5. QED
      BY <1>1, <3>1, <3>4, ReturnedAs
  <2>3. QED
    BY <2>1, <2>2
<1>4. QED
  BY <1>2, <1>3

(* case TYPE_PEER_DOWN returns on a type V3Framing does not speak of. *)
LEMMA PeerDownFrame ==
  ASSUME PeerDown
  PROVE  FrameInv'
<1>1. /\ pc' \in {"threw", "returned"} /\ bmp_type' = bmp_type
      /\ bmp_type = TYPE_PEER_DOWN
  BY Zenon DEF PeerDown, Threw
<1>2. bmp_type' \notin {TYPE_ROUTE_MON, TYPE_STATS_REPORT, TYPE_PEER_UP}
  BY <1>1 DEF TYPE_PEER_DOWN, TYPE_ROUTE_MON, TYPE_STATS_REPORT, TYPE_PEER_UP
<1>3. QED
  BY <1>1, <1>2, Vacuous, ReturnedOther

(* The stats loop leaves the pointer, and its end returns there. *)
LEMMA StatsLoopFrame ==
  ASSUME FrameInv, StatsEntry \/ StatsDone
  PROVE  FrameInv'
<1>1. /\ pc = "stats" /\ pc' \in {"threw", "stats", "returned"}
      /\ UNCHANGED <<stream, start, pos, bmp_type>>
  BY Zenon DEF StatsEntry, StatsDone, Threw
<1>2. /\ bmp_type = TYPE_STATS_REPORT
      /\ (IsV3At(start) /\ Fits(TYPE_STATS_REPORT)) => pos = start + D
  BY <1>1, Zenon DEF FrameInv
<1>3. /\ D' = D /\ IsV3At(start)' = IsV3At(start)
      /\ Fits(TYPE_STATS_REPORT)' = Fits(TYPE_STATS_REPORT)
  BY <1>1, SameCall
<1>4. CASE pc' = "threw"
  BY <1>4, Vacuous
<1>5. CASE pc' = "stats"
  BY <1>1, <1>2, <1>3, <1>5, Zenon DEF FrameInv, V3Framing, FramedAt
<1>6. CASE pc' = "returned"
  <2>1. FramedAt(TYPE_STATS_REPORT)'
    BY <1>1, <1>2, <1>3 DEF FramedAt, Fits, D
  <2>2. QED
    BY <1>1, <1>2, <1>6, <2>1, ReturnedAs
<1>7. QED
  BY <1>1, <1>4, <1>5, <1>6

(* The init/term messages and their TLV loop return on types V3Framing    *)
(* does not speak of.                                                      *)
LEMMA TlvFrame ==
  ASSUME FrameInv, InitTermMsg \/ TlvEntry \/ TlvDone
  PROVE  FrameInv'
<1>1. /\ pc' \in {"threw", "crashed", "tlv", "returned"}
      /\ bmp_type' = bmp_type /\ bmp_type \in {TYPE_INIT_MSG, TYPE_TERM_MSG}
  <2>1. CASE InitTermMsg
    BY <2>1, Zenon DEF InitTermMsg, Threw
  <2>2. CASE TlvEntry \/ TlvDone
    <3>1. pc = "tlv"
      BY <2>2, Zenon DEF TlvEntry, TlvDone
    <3>2. QED
      BY <2>2, <3>1, Zenon DEF TlvEntry, TlvDone, FrameInv
  <2>3. QED
    BY <2>1, <2>2
<1>2. bmp_type' \notin {TYPE_ROUTE_MON, TYPE_STATS_REPORT, TYPE_PEER_UP}
  BY <1>1 DEF TYPE_INIT_MSG, TYPE_TERM_MSG, TYPE_ROUTE_MON, TYPE_STATS_REPORT,
     TYPE_PEER_UP
<1>3. CASE pc' = "tlv"
  BY <1>1, <1>3, Zenon DEF FrameInv, V3Framing, FramedAt
<1>4. QED
  BY <1>1, <1>2, <1>3, Vacuous, ReturnedOther

(* A stuttering step keeps FrameInv. *)
LEMMA StutterFrame ==
  ASSUME FrameInv, UNCHANGED vars
  PROVE  FrameInv'
<1>1. /\ stream' = stream /\ start' = start /\ pos' = pos /\ pc' = pc
      /\ bmp_len' = bmp_len /\ bmp_type' = bmp_type
  BY Zenon DEF vars
<1>2. /\ D' = D /\ IsV3At(start)' = IsV3At(start)
      /\ \A t : Fits(t)' = Fits(t)
  BY <1>1, SameCall
<1>3. \A t : FramedAt(t)' = FramedAt(t)
  BY <1>1, <1>2 DEF FramedAt, Fits, D
<1>4. QED
  BY <1>1, <1>2, <1>3, Zenon DEF FrameInv, V3Framing

(* Every step keeps FrameInv. *)
LEMMA FrameStep ==
  ASSUME FramingAssumption, TypeOK, FrameInv, [Next]_vars
  PROVE  FrameInv'
<1>1. SeqTypes /\ ScalarTypes
  BY TypeSplit
<1>2. CASE ReadVersion
  BY <1>1, <1>2, ReadVersionFrame
<1>3. CASE ParseBmpV3
  BY <1>1, <1>3, ParseBmpV3Frame
<1>4. CASE ParsePeerHdr
  BY <1>1, <1>4, ParsePeerHdrFrame
<1>5. CASE ParseBmpV2
  BY <1>5, ParseBmpV2Frame
<1>6. CASE PeerDown
  BY <1>6, PeerDownFrame
<1>7. CASE PeerUp
  BY <1>1, <1>7, PeerUpFrame
<1>8. CASE RouteMon
  BY <1>1, <1>8, RouteMonFrame
<1>9. CASE StatsReport
  BY <1>1, <1>9, StatsReportFrame
<1>10. CASE StatsEntry \/ StatsDone
  BY <1>10, StatsLoopFrame
<1>11. CASE InitTermMsg \/ TlvEntry \/ TlvDone
  BY <1>11, TlvFrame
<1>12. CASE InvalidType \/ NextCall
  BY <1>12, Vacuous, Zenon DEF InvalidType, Threw, NextCall
<1>13. CASE UNCHANGED vars
  BY <1>13, StutterFrame
<1>14. QED
  BY <1>2, <1>3, <1>4, <1>5, <1>6, <1>7, <1>8, <1>9, <1>10, <1>11, <1>12,
     <1>13 DEF Next, ParseStep

-----------------------------------------------------------------------------
(***************************************************************************)
(* A call that returns on a v3 route-monitoring, stats or peer-up message *)
(* whose declared length covers its headers and lies in the buffer leaves *)
(* the caller's buffer pointer at the end of that message, for every      *)
(* header width and word size, provided BMP_HDRv3_LEN is the 5 bytes      *)
(* parse_bmp_v3 reads and the buffer fits an int.  The length arithmetic  *)
(* of parse_bmp_v3, parse_peer_hdr and parse_peer_up_event_hdr and the    *)
(* copy of buffer_bmp_message together frame the message.                *)
(***************************************************************************)
THEOREM V3FramingCorrect ==
  ASSUME FramingAssumption
  PROVE  Spec => []V3Framing
<1>1. Init => FrameInv
  BY Zenon DEF Init, FrameInv, V3Framing, FramedAt
<1>2. TypeOK /\ FrameInv /\ [Next]_vars => FrameInv'
  BY FrameStep
<1>3. Spec => []TypeOK
  BY TypeCorrect
<1>4. FrameInv => V3Framing
  BY Zenon DEF FrameInv
<1>5. QED
  BY <1>1, <1>2, <1>3, <1>4, PTL DEF Spec
=============================================================================
