-------------------------- MODULE BmpParserProofs --------------------------
(***************************************************************************)
(* Proofs about BmpParser for every value of its constants.               *)
(*                                                                         *)
(* The SMT backend does not terminate on obligations that mix a           *)
(* hypothesis s \in Seq(0..255) with a term s[i], so the typing of the    *)
(* two byte sequences (the caller's buffer and bmp_data) is kept behind   *)
(* the definitions SeqTypes and ByteFacts: Zenon unfolds them, and SMT    *)
(* only sees that every byte is a natural number no larger than 255.      *)
(***************************************************************************)
EXTENDS BmpParser, SequenceTheorems, TLAPS

USE HeaderAssumption, SizeAssumption

(* TypeOK split in the sequence-typed part and the scalar part. *)
SeqTypes == stream \in Streams /\ bmp_data \in Seq(Byte)
ScalarTypes ==
  /\ pos \in 0..Len(stream) /\ start \in 0..Len(stream)
  /\ pc \in PCs
  /\ read_size \in Int
  /\ bmp_len \in IntW
  /\ bmp_data_len \in 0..BmpDataSize
  /\ bmp_type \in Byte
  /\ stats_count \in UIntW
  /\ loop_i \in Nat /\ cur \in Nat /\ pushed \in Nat
  /\ ub \in BOOLEAN

(* What the arithmetic needs to know of a byte sequence. *)
ByteFacts(s) ==
  /\ Len(s) \in Nat
  /\ \A i \in 1..Len(s) : s[i] \in Nat /\ s[i] <= 255

LEMMA TypeSplit == TypeOK <=> SeqTypes /\ ScalarTypes
BY Zenon DEF TypeOK, SeqTypes, ScalarTypes

(* A byte is a natural number below 256, and conversely. *)
LEMMA ByteNat ==
  ASSUME NEW x
  PROVE  x \in Byte <=> x \in Nat /\ x <= 255
BY DEF Byte

(* The elements of a byte sequence, as the arithmetic sees them. *)
LEMMA SeqByteFacts ==
  ASSUME NEW s \in Seq(Byte)
  PROVE  ByteFacts(s)
<1>1. Len(s) \in Nat
  BY LenProperties, Zenon
<1>2. \A i \in 1..Len(s) : s[i] \in Byte
  BY ElementOfSeq, Zenon
<1>3. QED
  BY <1>1, <1>2, ByteNat, Zenon DEF ByteFacts

(* The buffer the caller hands over is a byte sequence. *)
LEMMA StreamFacts ==
  ASSUME SeqTypes
  PROVE  /\ stream \in Seq(Byte) /\ ByteFacts(stream)
         /\ bmp_data \in Seq(Byte) /\ ByteFacts(bmp_data)
<1>1. stream \in Seq(Byte) /\ bmp_data \in Seq(Byte)
  BY StreamAssumption, Zenon DEF SeqTypes
<1>2. QED
  BY <1>1, SeqByteFacts, Zenon

(* The int conversion yields an int. *)
LEMMA ToIntType ==
  ASSUME NEW x \in Int
  PROVE  ToInt(x) \in IntW
BY ModulusAssumption, SMT DEF ToInt, IntW

(* Shifting a byte into a uint32_t yields a uint32_t. *)
LEMMA ShiftInType ==
  ASSUME NEW a \in Int, NEW b \in Int
  PROVE  ShiftIn(a, b) \in UIntW /\ ShiftIn(a, b) \in Nat
BY ModulusAssumption, SMT DEF ShiftIn, UIntW

(* Four bytes shifted into a uint32_t make a uint32_t. *)
LEMMA ShiftIn4Type ==
  ASSUME NEW a \in Nat, NEW b \in Nat, NEW c \in Nat, NEW e \in Nat
  PROVE  /\ ShiftIn(ShiftIn(ShiftIn(a, b), c), e) \in UIntW
         /\ ShiftIn(ShiftIn(ShiftIn(a, b), c), e) \in Nat
<1>1. \A x, y \in Nat : ShiftIn(x, y) \in UIntW /\ ShiftIn(x, y) \in Nat
  BY ShiftInType
<1>2. ShiftIn(ShiftIn(a, b), c) \in Nat
  BY <1>1, Zenon
<1>3. QED
  BY <1>1, <1>2, Zenon

(* Zero, the value bmp_len is reset to, is an int. *)
LEMMA ZeroIntW == 0 \in IntW
BY ModulusAssumption, SMT DEF IntW

(* A network-order field of the buffer is a non-negative integer. *)
LEMMA NetToHostType ==
  ASSUME NEW s, NEW p \in Nat, NEW n \in {1, 2, 4},
         \A i \in 1..n : s[p + i] \in Nat
  PROVE  NetToHost(s, p, n) \in Nat
<1>1. CASE n \in {1, 2}
  BY <1>1 DEF NetToHost
<1>2. CASE n = 4
  <2>1. s[p + 1] \in Nat /\ s[p + 2] \in Nat /\ s[p + 3] \in Nat /\ s[p + 4] \in Nat
    BY <1>2
  <2>2. QED
    BY <1>2, <2>1, ShiftIn4Type DEF NetToHost
<1>3. QED
  BY <1>1, <1>2

(* A byte of bmp_data, or the zero after it, is a natural number. *)
LEMMA DataByteType ==
  ASSUME NEW d, ByteFacts(d), NEW k \in Nat
  PROVE  DataByte(d, k) \in Nat
BY DEF DataByte, ByteFacts

(* The two-byte length of a BGP header read from bmp_data is natural. *)
LEMMA DataNet2Type ==
  ASSUME NEW d, ByteFacts(d), NEW k \in Nat
  PROVE  DataNet2(d, k) \in Nat
<1>1. DataByte(d, k) \in Nat /\ DataByte(d, k + 1) \in Nat
  BY DataByteType
<1>2. QED
  BY <1>1 DEF DataNet2

(* The 4-byte stats counter read from bmp_data is a uint32_t. *)
LEMMA DataNet4Type ==
  ASSUME NEW d, ByteFacts(d), NEW k \in Nat
  PROVE  DataNet4(d, k) \in UIntW
<1>1. /\ DataByte(d, k) \in Nat /\ DataByte(d, k + 1) \in Nat
      /\ DataByte(d, k + 2) \in Nat /\ DataByte(d, k + 3) \in Nat
  BY DataByteType
<1>2. QED
  BY <1>1, ShiftIn4Type DEF DataNet4

(* The OPEN length parse_bgp_open_msg would consume is natural. *)
LEMMA OpenMsgLenType ==
  ASSUME NEW d, ByteFacts(d), NEW off \in Nat, NEW sz \in Int
  PROVE  OpenMsgLen(d, off, sz) \in Nat
<1>1. DataNet2(d, off + BgpMarkerLen) \in Nat
  BY DataNet2Type
<1>2. QED
  BY <1>1 DEF OpenMsgLen, BgpHdrLen

(* The message type parse_bgp_header reports is natural. *)
LEMMA BgpParseHeaderType ==
  ASSUME NEW d, ByteFacts(d), NEW off \in Nat, NEW sz \in Int
  PROVE  BgpParseHeader(d, off, sz) \in Nat
<1>1. DataByte(d, off + BgpMarkerLen + 2) \in Nat
  BY DataByteType
<1>2. QED
  BY <1>1 DEF BgpParseHeader

(* An int and a uint32_t are integers. *)
LEMMA WordInt ==
  ASSUME NEW x
  PROVE  /\ x \in IntW => x \in Int
         /\ x \in UIntW => x \in Nat
BY ModulusAssumption, SMT DEF IntW, UIntW

(* The empty bmp_data left by bzero is a byte sequence. *)
LEMMA EmptyBytes == << >> \in Seq(Byte) /\ ByteFacts(<< >>)
<1>1. << >> \in Seq(Byte)
  BY EmptySeq, Zenon
<1>2. QED
  BY <1>1, SeqByteFacts, Zenon

(* The bytes buffer_bmp_message copies out of the buffer form a byte     *)
(* sequence.                                                              *)
LEMMA CopyBytes ==
  ASSUME NEW s \in Seq(Byte), NEW p \in Nat, NEW n \in Nat, p + n <= Len(s)
  PROVE  SubSeq(s, p + 1, p + n) \in Seq(Byte)
<1>1. Len(s) \in Nat
  BY LenProperties, Zenon
<1>2. \A i \in p + 1..p + n : i \in 1..Len(s)
  BY <1>1
<1>3. \A i \in p + 1..p + n : s[i] \in Byte
  BY <1>2, ElementOfSeq, Zenon
<1>4. p + 1 \in Int /\ p + n \in Int
  OBVIOUS
<1>5. QED
  BY <1>3, <1>4, SubSeqProperties, Zenon

(* What buffer_bmp_message leaves behind is well typed, and it never      *)
(* copies more than sizeof(bmp_data) bytes.                               *)
LEMMA BufferType ==
  ASSUME SeqTypes, ScalarTypes, NEW p \in 0..Len(stream), NEW blen \in IntW
  PROVE  LET b == BufferBmpMessage(p, blen)
         IN  /\ b.thrown \in BOOLEAN
             /\ b.pos \in 0..Len(stream)
             /\ b.len \in IntW
             /\ b.data \in Seq(Byte)
             /\ b.dlen \in 0..BmpDataSize
<1>s. stream \in Seq(Byte) /\ ByteFacts(stream)
  BY StreamFacts
<1>0. /\ Len(stream) \in Nat /\ blen \in Int
      /\ bmp_data_len \in 0..BmpDataSize
  BY <1>s, WordInt DEF ByteFacts, ScalarTypes
<1>1. CASE blen <= 0
  <2>1. BufferBmpMessage(p, blen) =
          [thrown |-> FALSE, pos |-> p, len |-> blen, data |-> << >>,
           dlen |-> bmp_data_len]
    <3>1. ~(blen > BmpDataSize \/ ~Avail(p, blen))
      BY <1>0, <1>1 DEF Avail
    <3>2. QED
      BY <1>1, <3>1, Zenon DEF BufferBmpMessage
  <2>2. QED
    BY <1>0, <2>1, EmptyBytes
<1>2. CASE blen > 0 /\ (blen > BmpDataSize \/ ~Avail(p, blen))
  <2>1. BufferBmpMessage(p, blen) =
          [thrown |-> TRUE, pos |-> p, len |-> blen, data |-> << >>,
           dlen |-> bmp_data_len]
    <3>1. ~(blen <= 0)
      BY <1>0, <1>2
    <3>2. QED
      BY <1>2, <3>1, Zenon DEF BufferBmpMessage
  <2>2. QED
    BY <1>0, <2>1, EmptyBytes
<1>3. CASE blen > 0 /\ ~(blen > BmpDataSize \/ ~Avail(p, blen))
  <2>1. BufferBmpMessage(p, blen) =
          [thrown |-> FALSE, pos |-> p + blen, len |-> 0,
           data |-> SubSeq(stream, p + 1, p + blen), dlen |-> blen]
    <3>1. ~(blen <= 0)
      BY <1>0, <1>3
    <3>2. QED
      BY <1>3, <3>1, Zenon DEF BufferBmpMessage
  <2>2. SubSeq(stream, p + 1, p + blen) \in Seq(Byte)
    BY <1>s, <1>0, <1>3, CopyBytes DEF Avail
  <2>3. QED
    BY <1>0, <1>3, <2>1, <2>2, ZeroIntW DEF Avail
<1>4. QED
  BY <1>0, <1>1, <1>2, <1>3

(* What handle_up_event returns is an integer. *)
LEMMA UpEventType ==
  ASSUME NEW d, ByteFacts(d), NEW size \in Int
  PROVE  HandleUpEvent(d, size).read \in Int
<1>1. OpenMsgLen(d, 0, size) \in Nat
  BY OpenMsgLenType
<1>2. \A o \in Nat : OpenMsgLen(d, o, size - o) \in Nat
  BY OpenMsgLenType
<1>3. CASE BgpParseHeader(d, 0, size) = BGP_MSG_OPEN
  <2>1. BgpHdrLen + OpenMsgLen(d, 0, size) \in Nat
    BY <1>1 DEF BgpHdrLen
  <2>2. OpenMsgLen(d, BgpHdrLen + OpenMsgLen(d, 0, size),
                   size - (BgpHdrLen + OpenMsgLen(d, 0, size))) \in Nat
    BY <2>1, <1>2
  <2>3. QED
    BY <1>3, <2>1, <2>2 DEF HandleUpEvent, BgpHdrLen
<1>4. CASE BgpParseHeader(d, 0, size) # BGP_MSG_OPEN
  <2>1. OpenMsgLen(d, 0, size - 0) \in Nat
    BY <1>2
  <2>2. QED
    BY <1>4, <2>1 DEF HandleUpEvent, BgpHdrLen
<1>5. QED
  BY <1>3, <1>4

-----------------------------------------------------------------------------
(* Each action preserves the typing.                                       *)

(* What the arithmetic of the actions needs of a well-typed state. *)
NumFacts ==
  /\ Len(stream) \in Nat
  /\ \A i \in 1..Len(stream) : stream[i] \in Nat /\ stream[i] <= 255
  /\ bmp_len \in Int
  /\ ByteFacts(bmp_data)

LEMMA NumFactsLemma ==
  ASSUME SeqTypes, ScalarTypes
  PROVE  NumFacts
<1>1. ByteFacts(stream) /\ ByteFacts(bmp_data)
  BY StreamFacts
<1>2. bmp_len \in Int
  BY WordInt DEF ScalarTypes
<1>3. QED
  BY <1>1, <1>2, Zenon DEF NumFacts, ByteFacts

(* A step that only throws leaves every type intact. *)
LEMMA ThrewType ==
  ASSUME SeqTypes, ScalarTypes, Threw
  PROVE  SeqTypes' /\ ScalarTypes'
<1>1. SeqTypes'
  BY Zenon DEF Threw, SeqTypes
<1>2. ScalarTypes'
  BY DEF Threw, ScalarTypes, PCs
<1>3. QED
  BY <1>1, <1>2

LEMMA ReadVersionType ==
  ASSUME SeqTypes, ScalarTypes, ReadVersion
  PROVE  SeqTypes' /\ ScalarTypes'
<1>0. NumFacts
  BY NumFactsLemma
<1>1. SeqTypes'
  BY EmptyBytes, Zenon DEF ReadVersion, SeqTypes
<1>2. /\ start' = pos /\ bmp_len' = 0 /\ read_size' = 1
      /\ UNCHANGED <<stream, bmp_data_len, bmp_type, stats_count, loop_i, cur,
                     pushed, ub>>
  BY Zenon DEF ReadVersion
<1>3. pos' \in 0..Len(stream) /\ pc' \in PCs
  <2>1. CASE ~Avail(pos, 1)
    <3>1. pc' = "threw" /\ pos' = pos
      BY <2>1, Zenon DEF ReadVersion
    <3>2. QED
      BY <3>1 DEF ScalarTypes, PCs
  <2>2. CASE Avail(pos, 1)
    <3>1. /\ pos' = pos + 1
          /\ pc' = CASE stream[pos + 1] = 3        -> "v3"
                      [] stream[pos + 1] \in {1, 2} -> "v2"
                      [] OTHER                      -> "threw"
      BY <2>2, Zenon DEF ReadVersion
    <3>2. QED
      BY <1>0, <2>2, <3>1, SMTT(30) DEF NumFacts, ScalarTypes, PCs, Avail
  <2>3. QED
    BY <2>1, <2>2
<1>4. ScalarTypes'
  BY <1>2, <1>3, ZeroIntW DEF ScalarTypes
<1>5. QED
  BY <1>1, <1>4

LEMMA ParseBmpV3Type ==
  ASSUME SeqTypes, ScalarTypes, ParseBmpV3
  PROVE  SeqTypes' /\ ScalarTypes'
<1>0. NumFacts
  BY NumFactsLemma
<1>1. CASE ~Avail(pos, 5)
  <2>1. Threw
    BY <1>1, Zenon DEF ParseBmpV3
  <2>2. QED
    BY <2>1, ThrewType
<1>2. CASE Avail(pos, 5)
  <2> DEFINE blen == V3BodyLen(NetToHost(stream, pos, 4))
             type == stream[pos + 5]
  <2>1. /\ pos' = pos + 5 /\ read_size' = read_size + 5 /\ bmp_len' = blen
        /\ pc' = IF blen > BgpMaxMsgSize THEN "threw"
                  ELSE CASE type \in 0..3 -> "peer_hdr"
                         [] type \in 4..5 -> "body"
                         [] OTHER         -> "threw"
        /\ bmp_type' = IF pc' = "threw" THEN bmp_type ELSE type
        /\ UNCHANGED <<stream, start, bmp_data, bmp_data_len, stats_count,
                       loop_i, cur, pushed, ub>>
    BY <1>2, Zenon DEF ParseBmpV3
  <2>2. \A i \in 1..4 : stream[pos + i] \in Nat
    BY <1>0, <1>2 DEF NumFacts, Avail, ScalarTypes
  <2>3. NetToHost(stream, pos, 4) \in Nat
    BY <2>2, NetToHostType DEF ScalarTypes
  <2>4. blen \in IntW
    BY <2>3, ToIntType DEF V3BodyLen
  <2>5. type \in Nat /\ type <= 255
    BY <1>0, <1>2 DEF NumFacts, Avail, ScalarTypes
  <2>6. pc' \in PCs
    BY <2>1 DEF PCs
  <2>7. bmp_type' \in Byte
    BY <2>1, <2>5, SMTT(30) DEF ScalarTypes, Byte
  <2>8. SeqTypes'
    BY <2>1, Zenon DEF SeqTypes
  <2>9. ScalarTypes'
    BY <1>2, <2>1, <2>4, <2>6, <2>7, SMTT(30) DEF ScalarTypes, Avail
  <2>10. QED
    BY <2>8, <2>9
<1>3. QED
  BY <1>1, <1>2

LEMMA ParsePeerHdrType ==
  ASSUME SeqTypes, ScalarTypes, ParsePeerHdr
  PROVE  SeqTypes' /\ ScalarTypes'
<1>0. NumFacts
  BY NumFactsLemma
<1>1. CASE ~Avail(pos, PeerHdrLen)
  <2>1. Threw
    BY <1>1, Zenon DEF ParsePeerHdr
  <2>2. QED
    BY <2>1, ThrewType
<1>2. CASE Avail(pos, PeerHdrLen)
  <2>1. /\ pos' = pos + PeerHdrLen /\ read_size' = read_size + PeerHdrLen
        /\ bmp_len' = PeerHdrBodyLen(bmp_len) /\ pc' = "body"
        /\ UNCHANGED <<stream, start, bmp_data, bmp_data_len, bmp_type,
                       stats_count, loop_i, cur, pushed, ub>>
    BY <1>2, Zenon DEF ParsePeerHdr
  <2>2. PeerHdrBodyLen(bmp_len) \in IntW
    BY <1>0, ToIntType DEF NumFacts, PeerHdrBodyLen
  <2>3. SeqTypes'
    BY <2>1, Zenon DEF SeqTypes
  <2>4. ScalarTypes'
    BY <1>2, <2>1, <2>2 DEF ScalarTypes, PCs, Avail
  <2>5. QED
    BY <2>3, <2>4
<1>3. QED
  BY <1>1, <1>2

LEMMA ParseBmpV2Type ==
  ASSUME SeqTypes, ScalarTypes, ParseBmpV2
  PROVE  SeqTypes' /\ ScalarTypes'
<1>0. NumFacts
  BY NumFactsLemma
<1>1. CASE ~Avail(pos, HdrV1V2Len)
  <2>1. Threw
    BY <1>1, Zenon DEF ParseBmpV2
  <2>2. QED
    BY <2>1, ThrewType
<1>2. CASE Avail(pos, HdrV1V2Len)
  <2> DEFINE p1 == pos + HdrV1V2Len
             type == stream[pos + 1]
             peek == BgpMarkerLen + 2
             Same == UNCHANGED <<stream, start, bmp_data, bmp_data_len, stats_count,
                                 loop_i, cur, pushed, ub>>
  <2>1. \/ Threw
        \/ /\ Avail(p1, peek) /\ pos' = p1 + peek
           /\ read_size' = read_size + HdrV1V2Len + peek
           /\ bmp_len' = ToInt(NetToHost(stream, p1 + BgpMarkerLen, 2))
           /\ bmp_type' = type /\ pc' = "body" /\ Same
        \/ /\ pos' = p1 /\ read_size' = read_size + HdrV1V2Len
           /\ bmp_len' = 0 /\ bmp_type' = type /\ pc' = "body" /\ Same
    BY <1>2, Zenon DEF ParseBmpV2
  <2>2. type \in Nat /\ type <= 255
    BY <1>0, <1>2 DEF NumFacts, Avail, ScalarTypes
  <2>l. Len(stream) \in Nat
    BY <1>0 DEF NumFacts
  <2>b. type \in Byte
    BY <2>2, ByteNat, Zenon
  <2>3. CASE Threw
    BY <2>3, ThrewType
  <2>4. CASE /\ Avail(p1, peek) /\ pos' = p1 + peek
             /\ read_size' = read_size + HdrV1V2Len + peek
             /\ bmp_len' = ToInt(NetToHost(stream, p1 + BgpMarkerLen, 2))
             /\ bmp_type' = type /\ pc' = "body" /\ Same
    <3>1. \A i \in 1..2 : stream[p1 + BgpMarkerLen + i] \in Nat
      BY <1>0, <2>4 DEF NumFacts, Avail, ScalarTypes
    <3>2. NetToHost(stream, p1 + BgpMarkerLen, 2) \in Nat
      BY <3>1, NetToHostType DEF ScalarTypes
    <3>3. bmp_len' \in IntW
      BY <2>4, <3>2, ToIntType
    <3>4. SeqTypes'
      BY <2>4, Zenon DEF SeqTypes
    <3>5. ScalarTypes'
      BY <2>l, <2>b, <2>4, <3>3, SMTT(30) DEF ScalarTypes, PCs, Avail
    <3>6. QED
      BY <3>4, <3>5
  <2>5. CASE /\ pos' = p1 /\ read_size' = read_size + HdrV1V2Len
             /\ bmp_len' = 0 /\ bmp_type' = type /\ pc' = "body" /\ Same
    <3>1. SeqTypes'
      BY <2>5, Zenon DEF SeqTypes
    <3>2. ScalarTypes'
      BY <2>l, <1>2, <2>b, <2>5, ZeroIntW, SMTT(30) DEF ScalarTypes, PCs, Avail
    <3>3. QED
      BY <3>1, <3>2
  <2>6. QED
    BY <2>1, <2>3, <2>4, <2>5
<1>3. QED
  BY <1>1, <1>2

(* What a body handler takes over from buffer_bmp_message is well typed. *)
LEMMA BufferedType ==
  ASSUME SeqTypes, ScalarTypes, NEW p \in 0..Len(stream), NEW blen \in IntW,
         Buffered(BufferBmpMessage(p, blen))
  PROVE  /\ bmp_data' \in Seq(Byte)
         /\ pos' \in 0..Len(stream) /\ bmp_len' \in IntW
         /\ bmp_data_len' \in 0..BmpDataSize
<1>1. LET b == BufferBmpMessage(p, blen)
      IN  /\ b.data \in Seq(Byte) /\ b.pos \in 0..Len(stream)
          /\ b.len \in IntW /\ b.dlen \in 0..BmpDataSize
  BY BufferType
<1>2. QED
  BY <1>1, Zenon DEF Buffered

LEMMA PeerDownType ==
  ASSUME SeqTypes, ScalarTypes, PeerDown
  PROVE  SeqTypes' /\ ScalarTypes'
<1>0. NumFacts
  BY NumFactsLemma
<1>1. CASE ~Avail(pos, 1)
  <2>1. Threw
    BY <1>1, Zenon DEF PeerDown
  <2>2. QED
    BY <2>1, ThrewType
<1>2. CASE Avail(pos, 1)
  <2> DEFINE b == BufferBmpMessage(pos + 1, bmp_len)
             reason == stream[pos + 1]
  <2>1. \/ Threw
        \/ /\ Buffered(b)
           /\ read_size' = read_size + 1 + DownReasonBytes(reason, b.dlen)
           /\ pc' = "returned"
           /\ UNCHANGED <<stream, start, bmp_type, stats_count, loop_i, cur,
                          pushed, ub>>
    BY <1>2, Zenon DEF PeerDown
  <2>2. CASE Threw
    BY <2>2, ThrewType
  <2>3. CASE /\ Buffered(b)
             /\ read_size' = read_size + 1 + DownReasonBytes(reason, b.dlen)
             /\ pc' = "returned"
             /\ UNCHANGED <<stream, start, bmp_type, stats_count, loop_i, cur,
                            pushed, ub>>
    <3>1. pos + 1 \in 0..Len(stream) /\ bmp_len \in IntW
      BY <1>0, <1>2 DEF NumFacts, ScalarTypes, Avail
    <3>2. /\ bmp_data' \in Seq(Byte)
          /\ pos' \in 0..Len(stream) /\ bmp_len' \in IntW
          /\ bmp_data_len' \in 0..BmpDataSize
      BY <2>3, <3>1, BufferedType
    <3>3. b.dlen \in 0..BmpDataSize
      BY <3>1, BufferType
    <3>4. DownReasonBytes(reason, b.dlen) \in Int
      BY <3>3 DEF DownReasonBytes, HandleDownEvent
    <3>5. SeqTypes'
      BY <2>3, <3>2, Zenon DEF SeqTypes
    <3>6. ScalarTypes'
      BY <2>3, <3>2, <3>4 DEF ScalarTypes, PCs
    <3>7. QED
      BY <3>5, <3>6
  <2>4. QED
    BY <2>1, <2>2, <2>3
<1>3. QED
  BY <1>1, <1>2

LEMMA PeerUpType ==
  ASSUME SeqTypes, ScalarTypes, PeerUp
  PROVE  SeqTypes' /\ ScalarTypes'
<1>0. NumFacts
  BY NumFactsLemma
<1>1. CASE ~Avail(pos, LocalIpLen + 4)
  <2>1. Threw
    BY <1>1, Zenon DEF PeerUp
  <2>2. QED
    BY <2>1, ThrewType
<1>2. CASE Avail(pos, LocalIpLen + 4)
  <2> DEFINE b == BufferBmpMessage(pos + LocalIpLen + 4,
                                   ToInt(bmp_len - (LocalIpLen + 4)))
             u == HandleUpEvent(b.data, b.dlen)
  <2>1. \/ Threw
        \/ /\ Buffered(b)
           /\ read_size' = read_size + LocalIpLen + 4 + u.read
           /\ pc' = "returned"
           /\ UNCHANGED <<stream, start, bmp_type, stats_count, loop_i, cur,
                          pushed, ub>>
    BY <1>2, Zenon DEF PeerUp
  <2>2. CASE Threw
    BY <2>2, ThrewType
  <2>3. CASE /\ Buffered(b)
             /\ read_size' = read_size + LocalIpLen + 4 + u.read
             /\ pc' = "returned"
             /\ UNCHANGED <<stream, start, bmp_type, stats_count, loop_i, cur,
                            pushed, ub>>
    <3>1. pos + LocalIpLen + 4 \in 0..Len(stream)
      BY <1>0, <1>2 DEF NumFacts, ScalarTypes, Avail
    <3>2. ToInt(bmp_len - (LocalIpLen + 4)) \in IntW
      BY <1>0, ToIntType DEF NumFacts
    <3>3. /\ bmp_data' \in Seq(Byte)
          /\ pos' \in 0..Len(stream) /\ bmp_len' \in IntW
          /\ bmp_data_len' \in 0..BmpDataSize
      BY <2>3, <3>1, <3>2, BufferedType
    <3>4. b.data \in Seq(Byte) /\ b.dlen \in 0..BmpDataSize
      BY <3>1, <3>2, BufferType
    <3>5. ByteFacts(b.data) /\ b.dlen \in Int
      BY <3>4, SeqByteFacts
    <3>6. u.read \in Int
      BY <3>5, UpEventType
    <3>7. SeqTypes'
      BY <2>3, <3>3, Zenon DEF SeqTypes
    <3>8. ScalarTypes'
      BY <2>3, <3>3, <3>6 DEF ScalarTypes, PCs
    <3>9. QED
      BY <3>7, <3>8
  <2>4. QED
    BY <2>1, <2>2, <2>3
<1>3. QED
  BY <1>1, <1>2

LEMMA RouteMonType ==
  ASSUME SeqTypes, ScalarTypes, RouteMon
  PROVE  SeqTypes' /\ ScalarTypes'
<1> DEFINE b == BufferBmpMessage(pos, bmp_len)
<1>1. \/ Threw
      \/ /\ Buffered(b)
         /\ read_size' = read_size + HandleUpdate(b.dlen)
         /\ pc' = "returned"
         /\ UNCHANGED <<stream, start, bmp_type, stats_count, loop_i, cur,
                        pushed, ub>>
  BY Zenon DEF RouteMon
<1>2. CASE Threw
  BY <1>2, ThrewType
<1>3. CASE /\ Buffered(b)
           /\ read_size' = read_size + HandleUpdate(b.dlen)
           /\ pc' = "returned"
           /\ UNCHANGED <<stream, start, bmp_type, stats_count, loop_i, cur,
                          pushed, ub>>
  <2>1. pos \in 0..Len(stream) /\ bmp_len \in IntW
    BY DEF ScalarTypes
  <2>2. /\ bmp_data' \in Seq(Byte)
        /\ pos' \in 0..Len(stream) /\ bmp_len' \in IntW
        /\ bmp_data_len' \in 0..BmpDataSize
    BY <1>3, <2>1, BufferedType
  <2>3. b.dlen \in 0..BmpDataSize
    BY <2>1, BufferType
  <2>4. SeqTypes'
    BY <1>3, <2>2, Zenon DEF SeqTypes
  <2>5. ScalarTypes'
    BY <1>3, <2>2, <2>3 DEF ScalarTypes, PCs, HandleUpdate
  <2>6. QED
    BY <2>4, <2>5
<1>4. QED
  BY <1>1, <1>2, <1>3

LEMMA StatsReportType ==
  ASSUME SeqTypes, ScalarTypes, StatsReport
  PROVE  SeqTypes' /\ ScalarTypes'
<1> DEFINE b == BufferBmpMessage(pos, bmp_len)
<1>1. \/ Threw
      \/ /\ Buffered(b)
         /\ stats_count' = DataNet4(b.data, 0)
         /\ read_size' = read_size + 4
         /\ cur' = 4 /\ loop_i' = 0 /\ pushed' = 0
         /\ pc' = "stats"
         /\ UNCHANGED <<stream, start, bmp_type, ub>>
  BY Zenon DEF StatsReport
<1>2. CASE Threw
  BY <1>2, ThrewType
<1>3. CASE /\ Buffered(b)
           /\ stats_count' = DataNet4(b.data, 0)
           /\ read_size' = read_size + 4
           /\ cur' = 4 /\ loop_i' = 0 /\ pushed' = 0
           /\ pc' = "stats"
           /\ UNCHANGED <<stream, start, bmp_type, ub>>
  <2>1. pos \in 0..Len(stream) /\ bmp_len \in IntW
    BY DEF ScalarTypes
  <2>2. /\ bmp_data' \in Seq(Byte)
        /\ pos' \in 0..Len(stream) /\ bmp_len' \in IntW
        /\ bmp_data_len' \in 0..BmpDataSize
    BY <1>3, <2>1, BufferedType
  <2>3. b.data \in Seq(Byte)
    BY <2>1, BufferType
  <2>4. DataNet4(b.data, 0) \in UIntW
    BY <2>3, SeqByteFacts, DataNet4Type
  <2>5. SeqTypes'
    BY <1>3, <2>2, Zenon DEF SeqTypes
  <2>6. ScalarTypes'
    BY <1>3, <2>2, <2>4 DEF ScalarTypes, PCs
  <2>7. QED
    BY <2>5, <2>6
<1>4. QED
  BY <1>1, <1>2, <1>3

LEMMA InitTermMsgType ==
  ASSUME SeqTypes, ScalarTypes, InitTermMsg
  PROVE  SeqTypes' /\ ScalarTypes'
<1> DEFINE b == BufferBmpMessage(pos, bmp_len)
<1>1. \/ Threw
      \/ /\ Buffered(b)
         /\ loop_i' = 0 /\ pushed' = 0 /\ pc' = "tlv"
         /\ UNCHANGED <<stream, start, read_size, bmp_type, stats_count, cur, ub>>
  BY Zenon DEF InitTermMsg
<1>2. CASE Threw
  BY <1>2, ThrewType
<1>3. CASE /\ Buffered(b)
           /\ loop_i' = 0 /\ pushed' = 0 /\ pc' = "tlv"
           /\ UNCHANGED <<stream, start, read_size, bmp_type, stats_count, cur, ub>>
  <2>1. pos \in 0..Len(stream) /\ bmp_len \in IntW
    BY DEF ScalarTypes
  <2>2. /\ bmp_data' \in Seq(Byte)
        /\ pos' \in 0..Len(stream) /\ bmp_len' \in IntW
        /\ bmp_data_len' \in 0..BmpDataSize
    BY <1>3, <2>1, BufferedType
  <2>3. SeqTypes'
    BY <1>3, <2>2, Zenon DEF SeqTypes
  <2>4. ScalarTypes'
    BY <1>3, <2>2 DEF ScalarTypes, PCs
  <2>5. QED
    BY <2>3, <2>4
<1>4. QED
  BY <1>1, <1>2, <1>3

LEMMA StatsEntryType ==
  ASSUME SeqTypes, ScalarTypes, StatsEntry
  PROVE  SeqTypes' /\ ScalarTypes'
<1>0. NumFacts
  BY NumFactsLemma
<1>1. CASE cur + 4 > bmp_data_len
  <2>0. ~(cur + 4 <= bmp_data_len)
    BY <1>1 DEF ScalarTypes
  <2>1. Threw
    BY <1>1, <2>0, Zenon DEF StatsEntry
  <2>2. QED
    BY <2>1, ThrewType
<1>2. CASE cur + 4 <= bmp_data_len
  <2> DEFINE slen == DataNet2(bmp_data, cur + 2)
             h == cur + 4
  <2>1. /\ \/ cur' = h + slen /\ read_size' = read_size + 4 + slen
           \/ cur' = h /\ read_size' = read_size + 4
           \/ cur' = Smaller(h + slen, bmp_data_len) /\ read_size' = read_size + 4
        /\ loop_i' = loop_i + 1 /\ pushed' = pushed + 1
        /\ UNCHANGED <<stream, pos, pc, start, bmp_len, bmp_data, bmp_data_len,
                       bmp_type, stats_count, ub>>
    <3>1. ~(cur + 4 > bmp_data_len)
      BY <1>2 DEF ScalarTypes
    <3>2. QED
      BY <1>2, <3>1, Zenon DEF StatsEntry
  <2>2. slen \in Nat
    BY <1>0, DataNet2Type DEF NumFacts, ScalarTypes
  <2>3. SeqTypes'
    BY <2>1, Zenon DEF SeqTypes
  <2>4. ScalarTypes'
    BY <2>1, <2>2 DEF ScalarTypes, Smaller
  <2>5. QED
    BY <2>3, <2>4
<1>3. QED
  BY <1>1, <1>2 DEF ScalarTypes

LEMMA TlvEntryType ==
  ASSUME SeqTypes, ScalarTypes, TlvEntry
  PROVE  SeqTypes' /\ ScalarTypes'
<1>0. /\ pc = "tlv" /\ ub' = TRUE
      /\ UNCHANGED <<stream, pos, start, bmp_len, bmp_data, bmp_data_len,
                     bmp_type, stats_count, cur>>
  BY Zenon DEF TlvEntry
<1>1. SeqTypes'
  BY <1>0, Zenon DEF SeqTypes
<1>2. CASE pc' = "crashed"
  <2>1. UNCHANGED <<read_size, loop_i, pushed>>
    BY <1>0, <1>2, Zenon DEF TlvEntry
  <2>2. QED
    BY <1>0, <1>1, <1>2, <2>1 DEF ScalarTypes, PCs
<1>3. CASE pc' # "crashed"
  <2>1. PICK g \in GarbageLens :
          LET info == IF g > 0 THEN Smaller(InfoSize, g) ELSE 0
          IN /\ loop_i' = loop_i + TlvHdrLen + info
             /\ read_size' = read_size + TlvHdrLen + info
             /\ pushed' = pushed + 1
             /\ UNCHANGED pc
    BY <1>3, Zenon DEF TlvEntry
  <2>2. g \in Nat
    OBVIOUS
  <2>3. QED
    BY <1>0, <1>1, <2>1, <2>2 DEF ScalarTypes, Smaller
<1>4. QED
  BY <1>2, <1>3

(* The steps that change nothing but the program counter. *)
LEMMA PcStepType ==
  ASSUME SeqTypes, ScalarTypes, StatsDone \/ TlvDone \/ InvalidType \/ NextCall
  PROVE  SeqTypes' /\ ScalarTypes'
<1>1. CASE InvalidType
  BY <1>1, ThrewType DEF InvalidType
<1>2. CASE StatsDone \/ TlvDone \/ NextCall
  <2>1. SeqTypes'
    BY <1>2, Zenon DEF StatsDone, TlvDone, NextCall, SeqTypes
  <2>2. ScalarTypes'
    BY <1>2 DEF StatsDone, TlvDone, NextCall, ScalarTypes, PCs
  <2>3. QED
    BY <2>1, <2>2
<1>3. QED
  BY <1>1, <1>2

-----------------------------------------------------------------------------
(* The initial state is well typed. *)
LEMMA InitType == Init => TypeOK
<1> SUFFICES ASSUME Init PROVE SeqTypes /\ ScalarTypes
  BY TypeSplit
<1>1. stream \in Seq(Byte)
  BY StreamAssumption, Zenon DEF Init
<1>2. Len(stream) \in Nat
  BY <1>1, LenProperties, Zenon
<1>3. 0 \in UIntW /\ 0 \in Byte
  BY ModulusAssumption DEF UIntW, Byte
<1>4. SeqTypes
  BY EmptyBytes, Zenon DEF Init, SeqTypes
<1>5. /\ pos = 0 /\ start = 0 /\ pc = "idle" /\ read_size = 0
      /\ bmp_len = 0 /\ bmp_data_len = 0 /\ bmp_type = 0
      /\ stats_count = 0 /\ loop_i = 0 /\ cur = 0 /\ pushed = 0
      /\ ub \in BOOLEAN
  BY Zenon DEF Init
<1>6. ScalarTypes
  BY <1>2, <1>3, <1>5, ZeroIntW DEF ScalarTypes, PCs
<1>7. QED
  BY <1>4, <1>6

(* Every step keeps the state well typed. *)
LEMMA TypeStep == TypeOK /\ [Next]_vars => TypeOK'
<1> SUFFICES ASSUME TypeOK, [Next]_vars PROVE TypeOK'
  OBVIOUS
<1>0. SeqTypes /\ ScalarTypes
  BY TypeSplit
<1> SUFFICES SeqTypes' /\ ScalarTypes'
  BY Zenon DEF TypeOK, SeqTypes, ScalarTypes
<1>1. CASE ReadVersion
  BY <1>0, <1>1, ReadVersionType
<1>2. CASE ParseBmpV3
  BY <1>0, <1>2, ParseBmpV3Type
<1>3. CASE ParsePeerHdr
  BY <1>0, <1>3, ParsePeerHdrType
<1>4. CASE ParseBmpV2
  BY <1>0, <1>4, ParseBmpV2Type
<1>5. CASE PeerDown
  BY <1>0, <1>5, PeerDownType
<1>6. CASE PeerUp
  BY <1>0, <1>6, PeerUpType
<1>7. CASE RouteMon
  BY <1>0, <1>7, RouteMonType
<1>8. CASE StatsReport
  BY <1>0, <1>8, StatsReportType
<1>9. CASE StatsEntry
  BY <1>0, <1>9, StatsEntryType
<1>10. CASE InitTermMsg
  BY <1>0, <1>10, InitTermMsgType
<1>11. CASE TlvEntry
  BY <1>0, <1>11, TlvEntryType
<1>12. CASE StatsDone \/ TlvDone \/ InvalidType \/ NextCall
  BY <1>0, <1>12, PcStepType
<1>13. CASE UNCHANGED vars
  BY <1>0, <1>13, Zenon DEF vars, SeqTypes, ScalarTypes
<1>14. QED
  BY <1>1, <1>2, <1>3, <1>4, <1>5, <1>6, <1>7, <1>8, <1>9, <1>10, <1>11,
     <1>12, <1>13 DEF Next, ParseStep

(***************************************************************************)
(* Type correctness: every state of a parse is well typed.  In particular  *)
(* bmp_len stays an int through the length arithmetic of parse_bmp_v3,     *)
(* parse_peer_hdr and parse_peer_up_event_hdr, the buffer pointer never    *)
(* leaves the caller's buffer, and bmp_data_len never exceeds              *)
(* sizeof(bmp_data), whatever the buffer holds.                            *)
(***************************************************************************)
THEOREM TypeCorrect == Spec => []TypeOK
BY InitType, TypeStep, PTL DEF Spec

=============================================================================
