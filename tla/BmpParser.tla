----------------------------- MODULE BmpParser -----------------------------
(***************************************************************************)
(* The BMP message parser of src/src/parse_bmp.cpp.                        *)
(*                                                                         *)
(* A caller hands libparsebgp_parse_bmp_parse_msg a byte buffer and calls  *)
(* it again on what is left after each message.  The parser advances the   *)
(* caller's buffer pointer through extract_from_buffer and keeps its       *)
(* working state in file-scope globals (bmp_len, bmp_data, bmp_data_len,   *)
(* bmp_type) that survive from one call to the next.                       *)
(*                                                                         *)
(* The buffer is modelled byte by byte: stream is the caller's buffer and  *)
(* pos the number of bytes the buffer pointer has been advanced by.  Each  *)
(* C function of the parse is one step; a call goes                        *)
(*   idle -> v3 | v2 -> [peer_hdr] -> body -> [stats | tlv] -> returned     *)
(* and may end in "threw" (a thrown const char * ends the caller's loop)   *)
(* or "crashed" (undefined behaviour that takes the process down).         *)
(* Header widths that the code takes from parse_bmp.h are CONSTANTS so     *)
(* that TLC can run with small ones.                                       *)
(***************************************************************************)
EXTENDS Integers, Sequences

CONSTANTS
  WordBits,      \* width of int and uint32_t (32)
  HdrV3Len,      \* BMP_HDRv3_LEN: v3 common header without the version byte
  HdrV1V2Len,    \* BMP_HDRv1v2_LEN: v1/v2 common header without the version
  PeerHdrLen,    \* BMP_PEER_HDR_LEN: the v3 per-peer header
  LocalIpLen,    \* sizeof(up_event->local_ip) in the peer-up header
  BgpMarkerLen,  \* the BGP header marker (16 bytes)
  BgpMaxMsgSize, \* BGP_MAX_MSG_SIZE
  BmpDataSize,   \* sizeof(bmp_data)
  TlvHdrLen,     \* BMP_INIT_MSG_LEN = BMP_TERM_MSG_LEN
  InfoSize,      \* sizeof(init_msg->info) = sizeof(term_msg->info)
  ErrReadingMsg, \* ERR_READING_MSG, the error code handle_up_event returns
  GarbageLens,   \* TLV lengths a read through a garbage pointer can yield
  MaxEntries,    \* model bound on the entries of a stats or TLV vector
  Streams        \* the buffers a caller may hand to the parser

Byte == 0..255

ASSUME WordAssumption == WordBits \in Nat \ {0}
ASSUME HeaderAssumption ==
  /\ HdrV3Len \in Nat /\ HdrV1V2Len \in Nat \ {0} /\ PeerHdrLen \in Nat
  /\ LocalIpLen \in Nat /\ BgpMarkerLen \in Nat /\ TlvHdrLen \in Nat \ {0}
  /\ InfoSize \in Nat /\ GarbageLens \subseteq Nat
  /\ MaxEntries \in Nat
ASSUME SizeAssumption ==
  /\ BgpMaxMsgSize \in Nat /\ BmpDataSize \in Nat
  /\ ErrReadingMsg \in Int /\ ErrReadingMsg < 0
ASSUME StreamAssumption == Streams \subseteq Seq(Byte)

(* enum BMP_MSG_TYPES of parse_bmp.h *)
TYPE_ROUTE_MON == 0
TYPE_STATS_REPORT == 1
TYPE_PEER_DOWN == 2
TYPE_PEER_UP == 3
TYPE_INIT_MSG == 4
TYPE_TERM_MSG == 5
BGP_MSG_OPEN == 1

BgpHdrLen == BgpMarkerLen + 3

(* The steps of one call, and how a call ends. *)
PCs == {"idle", "v3", "v2", "peer_hdr", "body", "stats", "tlv",
        "returned", "threw", "crashed"}

VARIABLES
  stream,        \* the caller's buffer
  pos,           \* how far the caller's buffer pointer has been advanced
  pc,            \* the step the current call is at
  start,         \* pos when the current call began
  read_size,     \* the byte count the current call will return
  bmp_len,       \* global int: BMP bytes still to be read
  bmp_data,      \* global buffer: the bytes copied into it by this call
  bmp_data_len,  \* global: length of the data last buffered
  bmp_type,      \* global: type of the message being parsed
  stats_count,   \* stats report: the decoded stats counter
  loop_i,        \* loop index of the stats or init/term TLV loop
  cur,           \* stats report: bytes of bmp_data read so far
  pushed,        \* entries pushed onto the stats or TLV vector
  ub             \* undefined behaviour has been executed

vars == <<stream, pos, pc, start, read_size, bmp_len, bmp_data, bmp_data_len,
          bmp_type, stats_count, loop_i, cur, pushed, ub>>

-----------------------------------------------------------------------------
(* Conversions and the buffer primitive.                                   *)

(* uint32_t and int: values modulo 2^WordBits, and the conversion of an   *)
(* unsigned value to int as gcc does it.                                   *)
Modulus == 2^WordBits
UIntW == 0..(Modulus - 1)
IntW == -(Modulus \div 2)..(Modulus \div 2 - 1)
ASSUME ModulusAssumption == Modulus \in Nat \ {0} /\ Modulus % 2 = 0
ToInt(x) == LET m == x % Modulus IN IF m >= Modulus \div 2 THEN m - Modulus ELSE m

Smaller(a, b) == IF a <= b THEN a ELSE b

(* extract_from_buffer(buffer, buf_len, out, n) succeeds iff n bytes remain. *)
Avail(p, n) == p + n <= Len(stream)

(* One more network-order byte of a uint32_t value. *)
ShiftIn(acc, b) == (acc * 256 + b) % Modulus

(* extract of n bytes at offset p followed by SWAP_BYTES: big-endian value. *)
NetToHost(s, p, n) ==
  CASE n = 1 -> s[p + 1]
    [] n = 2 -> s[p + 1] * 256 + s[p + 2]
    [] n = 4 -> ShiftIn(ShiftIn(ShiftIn(s[p + 1], s[p + 2]), s[p + 3]), s[p + 4])

(* A byte of bmp_data: what this call copied, zero (bzero) after it. *)
DataByte(d, k) == IF k < Len(d) THEN d[k + 1] ELSE 0
DataNet2(d, k) == DataByte(d, k) * 256 + DataByte(d, k + 1)
DataNet4(d, k) ==
  ShiftIn(ShiftIn(ShiftIn(DataByte(d, k), DataByte(d, k + 1)), DataByte(d, k + 2)),
          DataByte(d, k + 3))

-----------------------------------------------------------------------------
(* Helpers of parse_bmp.cpp.                                               *)

(* libparsebgp_parse_bmp_buffer_bmp_message: copy bmp_len bytes from the   *)
(* buffer into bmp_data, unless bmp_len <= 0, which leaves bmp_data_len as *)
(* the previous call set it.                                               *)
BufferBmpMessage(p, blen) ==
  CASE blen <= 0 ->
         [thrown |-> FALSE, pos |-> p, len |-> blen, data |-> << >>,
          dlen |-> bmp_data_len]
    [] blen > BmpDataSize \/ ~Avail(p, blen) ->
         [thrown |-> TRUE, pos |-> p, len |-> blen, data |-> << >>,
          dlen |-> bmp_data_len]
    [] OTHER ->
         [thrown |-> FALSE, pos |-> p + blen, len |-> 0,
          data |-> SubSeq(stream, p + 1, p + blen), dlen |-> blen]

(* bmp_len of a v3 message: its length minus the common header, computed  *)
(* in uint32_t and stored in an int.                                       *)
V3BodyLen(hlen) == ToInt(hlen - 1 - HdrV3Len)

(* bmp_len once parse_peer_hdr has read the per-peer header. *)
PeerHdrUnadjusted(blen) == blen   \* mutant: the subtraction forgotten
PeerHdrBodyLen(blen) == ToInt(blen - PeerHdrLen)

(* The embedded BGP parsers live in parse_bgp.cpp: libparsebgp_parse_bgp_ *)
(* handle_update and _handle_down_event read the message they are given;  *)
(* _parse_header yields the type of a complete header; _parse_open_msg    *)
(* the OPEN body length, 0 when it does not fit.                          *)
HandleUpdate(size) == size
HandleDownEvent(size) == size
BgpParseHeader(d, off, size) ==
  IF size >= BgpHdrLen THEN DataByte(d, off + BgpMarkerLen + 2) ELSE 0
OpenMsgLen(d, off, size) ==
  LET l == DataNet2(d, off + BgpMarkerLen) - BgpHdrLen
  IN IF 0 < l /\ BgpHdrLen + l <= size THEN l ELSE 0

(* libparsebgp_parse_bgp_handle_up_event: the sent OPEN (skipped when the  *)
(* first message is not an OPEN), then the received OPEN, which must be.   *)
HandleUpEvent(d, size) ==
  LET sentOpen == BgpParseHeader(d, 0, size) = BGP_MSG_OPEN
      n1 == OpenMsgLen(d, 0, size)
      off == IF sentOpen THEN BgpHdrLen + n1 ELSE 0
      t2 == BgpParseHeader(d, off, size - off)
      n2 == OpenMsgLen(d, off, size - off)
  IN CASE sentOpen /\ n1 = 0 -> [thrown |-> FALSE, read |-> ErrReadingMsg]
       [] t2 # BGP_MSG_OPEN  -> [thrown |-> TRUE, read |-> 0]
       [] n2 = 0             -> [thrown |-> FALSE, read |-> ErrReadingMsg]
       [] OTHER              -> [thrown |-> FALSE, read |-> off + BgpHdrLen + n2]

(* Bytes the peer-down body adds to read_size, by reason code. *)
DownReasonBytes(reason, size) ==
  CASE reason \in {1, 3} -> HandleDownEvent(size)
    [] reason = 2        -> 2
    [] OTHER             -> 0

(* The for loop of the stats and of the init/term TLV handlers ends. *)
LoopDoneExact(i, n) == i = n  \* mutant: i != n as the loop condition
LoopDone(i, n) == i >= n

-----------------------------------------------------------------------------
(* Actions.                                                                 *)

Threw == pc' = "threw" /\ UNCHANGED <<stream, pos, start, read_size, bmp_len,
           bmp_data, bmp_data_len, bmp_type, stats_count, loop_i, cur, pushed, ub>>

Init ==
  /\ stream \in Streams
  /\ pos = 0 /\ start = 0 /\ pc = "idle" /\ read_size = 0
  /\ bmp_len = 0 /\ bmp_data = << >> /\ bmp_data_len = 0 /\ bmp_type = 0
  /\ stats_count = 0 /\ loop_i = 0 /\ cur = 0 /\ pushed = 0 /\ ub = FALSE

(* libparsebgp_parse_bmp_parse_msg up to the version check of             *)
(* libparsebgp_parse_bmp_handle_msg: bzero(bmp_data), bmp_len = 0, then   *)
(* the version byte.                                                      *)
ReadVersion ==
  /\ pc = "idle"
  /\ start' = pos /\ bmp_data' = << >> /\ bmp_len' = 0
  /\ \/ /\ ~Avail(pos, 1)
        /\ pc' = "threw" /\ UNCHANGED pos
     \/ /\ Avail(pos, 1)
        /\ pos' = pos + 1
        /\ pc' = CASE stream[pos + 1] = 3        -> "v3"
                   [] stream[pos + 1] \in {1, 2} -> "v2"
                   [] OTHER                      -> "threw"
  /\ read_size' = 1
  /\ UNCHANGED <<stream, bmp_data_len, bmp_type, stats_count, loop_i, cur,
                 pushed, ub>>

(* libparsebgp_parse_bmp_parse_bmp_v3: length and type, bmp_len, then the  *)
(* BGP_MAX_MSG_SIZE check and the type switch.                             *)
ParseBmpV3 ==
  /\ pc = "v3"
  /\ \/ /\ ~Avail(pos, 5)
        /\ Threw
     \/ /\ Avail(pos, 5)
        /\ LET blen == V3BodyLen(NetToHost(stream, pos, 4))
               type == stream[pos + 5]
           IN /\ pos' = pos + 5 /\ read_size' = read_size + 5
              /\ bmp_len' = blen
              /\ pc' = IF blen > BgpMaxMsgSize THEN "threw"
                       ELSE CASE type \in 0..3 -> "peer_hdr"
                              [] type \in 4..5 -> "body"
                              [] OTHER         -> "threw"
              /\ bmp_type' = IF pc' = "threw" THEN bmp_type ELSE type
        /\ UNCHANGED <<stream, start, bmp_data, bmp_data_len, stats_count,
                       loop_i, cur, pushed, ub>>

(* libparsebgp_parse_bmp_parse_peer_hdr *)
ParsePeerHdr ==
  /\ pc = "peer_hdr"
  /\ \/ /\ ~Avail(pos, PeerHdrLen)
        /\ Threw
     \/ /\ Avail(pos, PeerHdrLen)
        /\ pos' = pos + PeerHdrLen /\ read_size' = read_size + PeerHdrLen
        /\ bmp_len' = PeerHdrBodyLen(bmp_len)
        /\ pc' = "body"
        /\ UNCHANGED <<stream, start, bmp_data, bmp_data_len, bmp_type,
                       stats_count, loop_i, cur, pushed, ub>>

(* libparsebgp_parse_bmp_parse_bmp_v2: the legacy header and, by type, the *)
(* peek at the BGP length (route monitoring), the inverted reason check    *)
(* (peer down) and the peer-up rejection.                                  *)
ParseBmpV2 ==
  /\ pc = "v2"
  /\ \/ /\ ~Avail(pos, HdrV1V2Len)
        /\ Threw
     \/ /\ Avail(pos, HdrV1V2Len)
        /\ LET p1 == pos + HdrV1V2Len
               type == stream[pos + 1]
               peek == BgpMarkerLen + 2
           IN \/ /\ type = TYPE_ROUTE_MON /\ Avail(p1, peek)
                 /\ pos' = p1 + peek
                 /\ read_size' = read_size + HdrV1V2Len + peek
                 /\ bmp_len' = ToInt(NetToHost(stream, p1 + BgpMarkerLen, 2))
                 /\ bmp_type' = type /\ pc' = "body"
              \/ /\ type = TYPE_ROUTE_MON /\ ~Avail(p1, peek)
                 /\ Threw
              \/ /\ type = TYPE_PEER_DOWN /\ Avail(p1, 1)
                 /\ Threw
              \/ /\ type = TYPE_PEER_UP
                 /\ Threw
              \/ /\ \/ type \notin {TYPE_ROUTE_MON, TYPE_PEER_DOWN, TYPE_PEER_UP}
                    \/ type = TYPE_PEER_DOWN /\ ~Avail(p1, 1)
                 /\ pos' = p1 /\ read_size' = read_size + HdrV1V2Len
                 /\ bmp_len' = 0 /\ bmp_type' = type /\ pc' = "body"
        /\ UNCHANGED <<stream, start, bmp_data, bmp_data_len, stats_count,
                       loop_i, cur, pushed, ub>>

(* The body handlers of libparsebgp_parse_bmp_parse_msg.  Each buffers the *)
(* rest of the message and parses it from bmp_data.                       *)
Buffered(b) ==
  /\ pos' = b.pos /\ bmp_len' = b.len /\ bmp_data' = b.data
  /\ bmp_data_len' = b.dlen

(* case TYPE_PEER_DOWN: the reason byte (parse_peer_down_event_hdr), the  *)
(* buffered rest, then the reason's payload.                              *)
PeerDown ==
  /\ pc = "body" /\ bmp_type = TYPE_PEER_DOWN
  /\ \/ /\ ~Avail(pos, 1)
        /\ Threw
     \/ /\ Avail(pos, 1)
        /\ LET reason == stream[pos + 1]
               b == BufferBmpMessage(pos + 1, bmp_len)
           IN \/ /\ b.thrown
                 /\ Threw
              \/ /\ ~b.thrown
                 /\ Buffered(b)
                 /\ read_size' = read_size + 1 + DownReasonBytes(reason, b.dlen)
                 /\ pc' = "returned"
                 /\ UNCHANGED <<stream, start, bmp_type, stats_count, loop_i,
                                cur, pushed, ub>>

(* case TYPE_PEER_UP: libparsebgp_parse_bmp_parse_peer_up_event_hdr reads *)
(* local address, local port and remote port, subtracts what it read from *)
(* bmp_len and throws if a read failed; then the two OPEN messages.       *)
PeerUp ==
  /\ pc = "body" /\ bmp_type = TYPE_PEER_UP
  /\ \/ /\ ~Avail(pos, LocalIpLen + 4)
        /\ Threw
     \/ /\ Avail(pos, LocalIpLen + 4)
        /\ LET b == BufferBmpMessage(pos + LocalIpLen + 4,
                                     ToInt(bmp_len - (LocalIpLen + 4)))
               u == HandleUpEvent(b.data, b.dlen)
           IN \/ /\ b.thrown \/ u.thrown
                 /\ Threw
              \/ /\ ~b.thrown /\ ~u.thrown
                 /\ Buffered(b)
                 /\ read_size' = read_size + LocalIpLen + 4 + u.read
                 /\ pc' = "returned"
                 /\ UNCHANGED <<stream, start, bmp_type, stats_count, loop_i,
                                cur, pushed, ub>>

(* case TYPE_ROUTE_MON *)
RouteMon ==
  /\ pc = "body" /\ bmp_type = TYPE_ROUTE_MON
  /\ LET b == BufferBmpMessage(pos, bmp_len)
     IN \/ /\ b.thrown
           /\ Threw
        \/ /\ ~b.thrown
           /\ Buffered(b)
           /\ read_size' = read_size + HandleUpdate(b.dlen)
           /\ pc' = "returned"
           /\ UNCHANGED <<stream, start, bmp_type, stats_count, loop_i, cur,
                          pushed, ub>>

(* case TYPE_STATS_REPORT: buffer, then libparsebgp_parse_bmp_handle_stats_ *)
(* report reads the 4-byte stats counter from bmp_data, bounded by         *)
(* bmp_data_len.                                                            *)
StatsReport ==
  /\ pc = "body" /\ bmp_type = TYPE_STATS_REPORT
  /\ LET b == BufferBmpMessage(pos, bmp_len)
     IN \/ /\ b.thrown \/ b.dlen < 4
           /\ Threw
        \/ /\ ~b.thrown /\ b.dlen >= 4
           /\ Buffered(b)
           /\ stats_count' = DataNet4(b.data, 0)
           /\ read_size' = read_size + 4
           /\ cur' = 4 /\ loop_i' = 0 /\ pushed' = 0
           /\ pc' = "stats"
           /\ UNCHANGED <<stream, start, bmp_type, ub>>

(* One pass of the stats loop: type and length, then a 4 or 8 byte counter *)
(* (a failed read is ignored) or the value skipped byte by byte, which     *)
(* stops at the end of the data and is not added to read_size.             *)
StatsEntry ==
  /\ pc = "stats" /\ ~LoopDone(loop_i, stats_count) /\ pushed < MaxEntries
  /\ \/ /\ cur + 4 > bmp_data_len
        /\ Threw
     \/ /\ cur + 4 <= bmp_data_len
        /\ LET slen == DataNet2(bmp_data, cur + 2)
               h == cur + 4
           IN \/ /\ slen \in {4, 8} /\ h + slen <= bmp_data_len
                 /\ cur' = h + slen /\ read_size' = read_size + 4 + slen
              \/ /\ slen \in {4, 8} /\ h + slen > bmp_data_len
                 /\ cur' = h /\ read_size' = read_size + 4
              \/ /\ slen \notin {4, 8}
                 /\ cur' = Smaller(h + slen, bmp_data_len)
                 /\ read_size' = read_size + 4
        /\ loop_i' = loop_i + 1 /\ pushed' = pushed + 1
        /\ UNCHANGED <<stream, pos, pc, start, bmp_len, bmp_data, bmp_data_len,
                       bmp_type, stats_count, ub>>

StatsDone ==
  /\ pc = "stats" /\ LoopDone(loop_i, stats_count)
  /\ pc' = "returned"
  /\ UNCHANGED <<stream, pos, start, read_size, bmp_len, bmp_data, bmp_data_len,
                 bmp_type, stats_count, loop_i, cur, pushed, ub>>

(* case TYPE_INIT_MSG and TYPE_TERM_MSG: buffer, then the TLV loop of      *)
(* handle_init_msg / handle_term_msg, which runs over bmp_data_len.        *)
InitTermMsg ==
  /\ pc = "body" /\ bmp_type \in {TYPE_INIT_MSG, TYPE_TERM_MSG}
  /\ LET b == BufferBmpMessage(pos, bmp_len)
     IN \/ /\ b.thrown
           /\ Threw
        \/ /\ ~b.thrown
           /\ Buffered(b)
           /\ loop_i' = 0 /\ pushed' = 0 /\ pc' = "tlv"
           /\ UNCHANGED <<stream, start, read_size, bmp_type, stats_count,
                          cur, ub>>

(* One pass of the TLV loop.  memcpy(&init_msg, buf_ptr, BMP_INIT_MSG_LEN) *)
(* overwrites the pointer itself with message bytes and the loop then     *)
(* dereferences and deletes it: the process crashes, or reads a TLV       *)
(* length from wherever the pointer lands.                                *)
TlvEntry ==
  /\ pc = "tlv" /\ ~LoopDone(loop_i, bmp_data_len) /\ pushed < MaxEntries
  /\ ub' = TRUE
  /\ \/ /\ pc' = "crashed"
        /\ UNCHANGED <<read_size, loop_i, pushed>>
     \/ \E g \in GarbageLens :
          LET info == IF g > 0 THEN Smaller(InfoSize, g) ELSE 0
          IN /\ loop_i' = loop_i + TlvHdrLen + info
             /\ read_size' = read_size + TlvHdrLen + info
             /\ pushed' = pushed + 1
             /\ UNCHANGED pc
  /\ UNCHANGED <<stream, pos, start, bmp_len, bmp_data, bmp_data_len, bmp_type,
                 stats_count, cur>>

TlvDone ==
  /\ pc = "tlv" /\ LoopDone(loop_i, bmp_data_len)
  /\ pc' = "returned"
  /\ UNCHANGED <<stream, pos, start, read_size, bmp_len, bmp_data, bmp_data_len,
                 bmp_type, stats_count, loop_i, cur, pushed, ub>>

(* default: throw "invalid type" (reachable from v1/v2 headers only). *)
InvalidType ==
  /\ pc = "body" /\ bmp_type \notin 0..5
  /\ Threw

(* The caller parses the next message while bytes remain. *)
NextCall ==
  /\ pc = "returned" /\ pos < Len(stream)
  /\ pc' = "idle"
  /\ UNCHANGED <<stream, pos, start, read_size, bmp_len, bmp_data, bmp_data_len,
                 bmp_type, stats_count, loop_i, cur, pushed, ub>>

(* A step of the running call of parse_msg. *)
ParseStep ==
  \/ ReadVersion \/ ParseBmpV3 \/ ParsePeerHdr \/ ParseBmpV2
  \/ PeerDown \/ PeerUp \/ RouteMon \/ StatsReport \/ StatsEntry \/ StatsDone
  \/ InitTermMsg \/ TlvEntry \/ TlvDone \/ InvalidType

Next == ParseStep \/ NextCall

Spec == Init /\ [][Next]_vars

(* parse_msg runs on the caller's thread without blocking: once called it *)
(* keeps executing until it returns, throws or crashes.  Whether the      *)
(* caller calls again is its own choice, so NextCall gets no fairness.    *)
FairSpec == Spec /\ WF_vars(ParseStep)

-----------------------------------------------------------------------------
(* Properties.                                                              *)

TypeOK ==
  /\ stream \in Streams
  /\ pos \in 0..Len(stream) /\ start \in 0..Len(stream)
  /\ pc \in PCs
  /\ read_size \in Int
  /\ bmp_len \in IntW
  /\ bmp_data \in Seq(Byte)
  /\ bmp_data_len \in 0..BmpDataSize
  /\ bmp_type \in Byte
  /\ stats_count \in UIntW
  /\ loop_i \in Nat /\ cur \in Nat /\ pushed \in Nat
  /\ ub \in BOOLEAN

(* The message the current call started on, as the stream declares it. *)
IsV3At(p) == Avail(p, 5) /\ stream[p + 1] = 3
DeclaredLen(p) == NetToHost(stream, p + 1, 4)
(* Bytes a v3 message of type t needs for its headers. *)
V3HeadersLen(t) ==
  1 + HdrV3Len + PeerHdrLen + (IF t = TYPE_PEER_UP THEN LocalIpLen + 4 ELSE 0)

(* A call that returns on a v3 message of type t that lies in the buffer  *)
(* and whose declared length covers its headers leaves the caller's       *)
(* buffer pointer exactly at the end of that message, so the next call    *)
(* starts on the next message.  (A declared length past the buffer's end  *)
(* is TruncatedRejected's case.)                                           *)
FramedAt(t) ==
  (/\ pc = "returned" /\ bmp_type = t /\ IsV3At(start)
   /\ DeclaredLen(start) >= V3HeadersLen(t)
   /\ start + DeclaredLen(start) <= Len(stream))
  => pos = start + DeclaredLen(start)

(* The length arithmetic of parse_bmp_v3, parse_peer_hdr and              *)
(* parse_peer_up_event_hdr keeps route monitoring, stats report and peer  *)
(* up messages framed.                                                     *)
V3Framing == \A t \in {TYPE_ROUTE_MON, TYPE_STATS_REPORT, TYPE_PEER_UP} : FramedAt(t)

(* The same for peer down: the reason byte read by parse_peer_down_event_ *)
(* hdr must be part of the message.                                        *)
PeerDownFraming == FramedAt(TYPE_PEER_DOWN)

(* A body handler parses only bytes of the message being parsed: the      *)
(* length it is given is what buffer_bmp_message copied in this call.     *)
FreshBody ==
  pc \in {"stats", "tlv", "returned"} => bmp_data_len = Len(bmp_data)

(* handle_stats_report returns the number of bytes it consumed from the  *)
(* buffered body, the skipped values of unexpected lengths included (spec *)
(* 2: every decoder returns the bytes it consumed; spec 4.4: a skipped     *)
(* stats value still has its length honoured).  The body starts after the *)
(* pos - start - bmp_data_len bytes of headers, and cur is how far the    *)
(* handler has read into it.                                               *)
StatsReadSizeExact ==
  (pc = "returned" /\ bmp_type = TYPE_STATS_REPORT)
  => read_size = (pos - start - bmp_data_len) + cur

(* No parse executes undefined behaviour. *)
NoUndefinedBehaviour == ~ub

(* A v1/v2 peer-down message is rejected only if its reason byte is       *)
(* missing (spec 4.4: versions 1 and 2 support peer down).                 *)
LegacyPeerDownAccepted ==
  (/\ pc = "threw" /\ Avail(start, 1) /\ stream[start + 1] \in {1, 2}
   /\ Avail(start + 1, HdrV1V2Len) /\ stream[start + 2] = TYPE_PEER_DOWN)
  => ~Avail(start + 1 + HdrV1V2Len, 1)

(* A v3 message whose declared length exceeds the bytes left in the       *)
(* buffer is rejected, never returned as parsed (spec 3: reject, not      *)
(* truncate).                                                              *)
TruncatedRejected ==
  (pc = "returned" /\ IsV3At(start)) => start + DeclaredLen(start) <= Len(stream)

(* A v1/v2 route-monitoring message: legacy header, then a BGP message    *)
(* whose own length field gives the bytes that follow the header.         *)
IsV2RouteMonAt(p) ==
  /\ Avail(p, 1 + HdrV1V2Len + BgpMarkerLen + 2)
  /\ stream[p + 1] \in {1, 2} /\ stream[p + 2] = TYPE_ROUTE_MON
V2BgpLen(p) == NetToHost(stream, p + 1 + HdrV1V2Len + BgpMarkerLen, 2)

(* A call that returns on a v1/v2 route-monitoring message leaves the     *)
(* caller's buffer pointer at the end of the embedded BGP message (spec   *)
(* 4.4: the length is peeked from the first 18 bytes of the BGP header,   *)
(* and exactly that message is buffered).                                  *)
V2RouteMonFraming ==
  (pc = "returned" /\ bmp_type = TYPE_ROUTE_MON /\ IsV2RouteMonAt(start))
  => pos = start + 1 + HdrV1V2Len + V2BgpLen(start)

-----------------------------------------------------------------------------
(* Liveness.                                                                *)

(* Every call of parse_msg ends: the stats loop, the TLV loops (even when  *)
(* they read TLV lengths through the overwritten pointer) and the copy of  *)
(* buffer_bmp_message all terminate, so the call returns, throws or        *)
(* crashes.                                                                *)
CallReturns == pc = "idle" ~> pc \in {"returned", "threw", "crashed"}

=============================================================================
