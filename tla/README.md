# TLA+ models of libparsebgp

This directory holds TLA+ models of the parts of libparsebgp that carry
control flow and state: the BMP message parser (`src/src/parse_bmp.cpp`)
and the MP_UNREACH_NLRI attribute parser (`src/lib/mp_un_reach_attr.c`).
It also holds TLC configurations that check them on small instances, and
TLAPS proofs that hold for every value of the constants. `PROJECT.json`
records the following:

- which definition models which source lines;
- every run;
- the mutants that show each passing property can fail;
- the findings;
- the hazards;
- the theorems.

## The system and its parts

The repository contains one parser implementation of each kind:

| Part | Source | Status |
|------|--------|--------|
| BMP message parser: `libparsebgp_parse_bmp_parse_msg` and its static helpers | `src/src/parse_bmp.cpp` | modelled (`BmpParser`) |
| MP_UNREACH_NLRI parser: `..._parse_un_reach_nlri_attr`, `_parse_afi`, `_parse_afi_ipv4_ipv6` | `src/lib/mp_un_reach_attr.c` | modelled (`MpUnreach`) |
| `extract_from_buffer`, `SWAP_BYTES` | `src/lib/parsebgp_utils.h` (prototypes only) | modelled by their contract |
| UPDATE, NOTIFICATION and MRT declarations | `update_msg.h`, `notification_msg.h`, `mrt/parsebgp_mrt.h`, `bgp/parsebgp_bgp_update_impl.h` | not modelled: struct and enum declarations only |

The BMP parser is sequential, and it is not reentrant. It keeps four
file-scope globals that persist from one call to the next:

- `bmp_len`: the bytes of the current message still to read;
- `bmp_data` and `bmp_data_len`: the buffered body;
- `bmp_type`.

Each call of `parse_msg` does the following, in order:

1. It zeroes `bmp_data`.
2. It reads the version byte.
3. It parses the v3 common header (`parse_bmp_v3` with `parse_peer_hdr`) or the legacy v1/v2 header (`parse_bmp_v2`).
4. It dispatches on the type:
   - peer down, peer up, route monitoring and stats report each buffer the rest of the message into `bmp_data` (`buffer_bmp_message`) and parse it from there;
   - initiation and termination do the same, and then run a TLV loop.

The embedded BGP parsers (`parse_bgp.cpp`) are not in the repository. The
model gives them only what the BMP parser depends on: the bytes they
report as read. These definitions are marked `spec_modelled` in the map.

The MP_UNREACH parser is a single call. It does the following:

1. It reads the AFI (2 bytes) and the SAFI (1 byte).
2. It checks the remaining length.
3. It then takes one of three paths:
   - it signals End-of-RIB;
   - it dispatches on (AFI, SAFI) to an NLRI sub-parser;
   - it returns.

The sub-parsers are not in the repository either.

## Modules

- **`BmpParser`**: one call after another of `parse_msg` over a caller's
  buffer.
  - `stream` is the buffer, and `pos` is the caller's cursor.
  - `start` is where the current call began, and `read_size` is what the call will return.
  - `pc` is the point of the call.
  - One action per function or per loop pass:
    - `ReadVersion`: `parse_msg` up to the version check of `handle_msg`;
    - `ParseBmpV3`, `ParsePeerHdr`, `ParseBmpV2`;
    - `PeerDown`, `PeerUp`, `RouteMon`, `StatsReport`, `InitTermMsg`, `InvalidType`: the cases of the switch in `parse_msg`, each including its call of `buffer_bmp_message` (`BufferBmpMessage`);
    - `StatsEntry`, `StatsDone`: the stats loop;
    - `TlvEntry`, `TlvDone`: the init/term TLV loops;
    - `NextCall`: the caller's next call.
  - `ParseStep` is every action but `NextCall`: the steps of the running call. `FairSpec` adds weak fairness of `ParseStep` (see Fairness).
  - `MaxEntries` bounds the entries a stats or TLV loop pushes, so that TLC's state space stays finite. A loop that hit it would stop with no step enabled, and `CallReturns` would fail. Since `bmp_core` passes, no loop of the instance is cut short by the bound.
  - Every `throw` leads to `pc = "threw"`. `Threw` leaves `pos` where the last completed step put it, although the code has often advanced the pointer already (before the throws at lines 148, 152, 125, 129, 340, 461-489 and 525). No property speaks of `pos` after a throw.
  - Integers keep their width. `WordBits` is 32 in the code, and `ToInt` is gcc's unsigned-to-int conversion. `len - 1 - BMP_HDRv3_LEN` is computed in `uint32_t` and stored in an `int`, and the model keeps that wrap (`V3BodyLen`).
  - The `memcpy(&init_msg, buf_ptr, ...)` of the TLV loops writes message bytes into the pointer variable itself, which is undefined behaviour. The model makes a nondeterministic choice between a crash and a TLV length read from wherever the pointer lands (`GarbageLens`), and sets `ub`.
- **`MC_BmpParser`**: the instance for TLC.
  - Header widths are scaled down, with `WordBits = 16`.
  - Buffers are one or two messages drawn from a list of well-formed and malformed messages of every type and of versions 1, 2 and 3, encoded byte by byte.
  - `HugeRouteMon3` declares a length of 2^15 + 8. Its `bmp_len` wraps negative, and `buffer_bmp_message` returns early on it (line 18). Had it not, the unsigned size test of line 21 would throw.
- **`MpUnreach`**: one call of `parse_un_reach_nlri_attr`.
  - `buf` is the caller's buffer from the attribute onward, and `data` is the caller's cursor `*data`.
  - `pp` records where the local `uint8_t **data` points.
  - `oob` records a read past the buffer, and `wild` a dereference of the stray pointer.
  - Actions:
    - `ReadAfi` (lines 147-152);
    - `ReadSafi` (`**data++; attr_len--`, lines 154-155);
    - `CheckLen` (lines 160-173);
    - `ParseAfi` (`parse_afi`), which uses `ParseAfiIpv4Ipv6` (the count resets and the SAFI switch) and `SubParse`.
- **`MC_MpUnreach`**: the instance for TLC.
  - Attributes cover every AFI/SAFI class the switches distinguish (the three IP SAFIs among them), plus an unknown AFI and an unknown SAFI.
  - `attr_len` ranges over 0..5.
  - The attribute is either at the end of the buffer or followed by one more byte.
- **`BmpParserProofs`, `BmpFramingProofs`, `MpUnreachProofs`**: the TLAPS proofs.

## Runs

| Run | Expect | What it shows |
|-----|--------|---------------|
| `bmp_core` | pass | `V3Framing` (see below). Under `FairSpec`, also `CallReturns`: every call returns, throws or crashes, including the TLV loops that read lengths through the overwritten pointer |
| `bmp_peer_down_framing` | violation | `PeerDownFraming`: a peer-down message's reason byte is not subtracted from `bmp_len` (line 524), so the next message is parsed one byte late |
| `bmp_fresh_body` | violation | `FreshBody`: with `bmp_len <= 0`, `buffer_bmp_message` returns early (line 18) and the handler uses the previous call's `bmp_data_len` |
| `bmp_read_size` | violation | `StatsReadSizeExact`: a stats report returns fewer bytes than its handler consumed. The skip loop for a value of unexpected length (line 376) does not count the skipped bytes: `StatsSkip3` consumes 17 bytes and returns 16 |
| `bmp_tlv_ub` | violation | `NoUndefinedBehaviour`: every initiation/termination body reaches the `memcpy` into the pointer (lines 262 and 302) |
| `bmp_legacy_peer_down` | violation | `LegacyPeerDownAccepted`: the inverted `!= 1` test (line 113) rejects every v1/v2 peer-down message that has its reason byte |
| `bmp_truncated` | violation | `TruncatedRejected`: a declared v3 length of 2^31 + 6 or more (2^15 + 6 in the instance) wraps `bmp_len` negative (line 162). `buffer_bmp_message` then returns early, and the message is returned as parsed although it runs past the buffer. The trace is `Huge3`, an initiation message declaring 2^16 - 1 bytes |
| `bmp_v2_route_mon` | violation | `V2RouteMonFraming`: a v1/v2 route-monitoring message reads the 18-byte BGP marker and length, then sets `bmp_len` to the whole BGP length (line 100), so the call buffers 18 bytes of the next message |
| `mp_unreach_core` | pass | `EorIffEmpty`: End-of-RIB is signalled exactly for `attr_len = 3` |
| `mp_unreach_consumed` | violation | `ConsumesAttrLen`: the spec 8.8 scenario leaves the cursor at 2, not 3, because `**data++` advances the local pointer (line 154) |
| `mp_unreach_overread` | violation | `ReadsWithinAttr`: `attr_len < 3` is checked only after the 3 bytes were read (line 163) |
| `mp_unreach_wild` | violation | `NoWildDereference`: every supported AFI/SAFI with NLRI hands the sub-parser the stray pointer (line 172) |

`V3Framing` says the following. A call that returns on a v3 route-monitoring,
stats or peer-up message, whose declared length covers its headers, leaves
the cursor exactly at the end of that message. This requires the length
arithmetic of `parse_bmp_v3`, `parse_peer_hdr` and `parse_peer_up_event_hdr`
to agree. It speaks of messages that lie in the buffer: a declared length
past the buffer's end is `TruncatedRejected`'s case. Its mutant drops the
subtraction in `parse_peer_hdr`.

The mutant of `CallReturns` is an exit test `loop_i = n` in place of `loop_i >= n`. A TLV pass can then step over the end, and the loop never exits.

Each property of a passing run has a mutant in `PROJECT.json`: a plausible
change of the mapped code under which TLC finds the property violated.

**Bounds.** The BMP buffers hold at most two messages. Two are enough to
show that a call leaves the cursor where the next call needs it, and that
the globals carry over from one call to the next. The scaled header widths
keep every message a few bytes long. They do not change the control flow:
every length check is on a named constant.

There is one deviation. With `WordBits = 16`, `ToInt` on the 16-bit v1/v2
route-monitoring length could wrap, where the real 32-bit `int` cannot.
None of the instance's messages reaches that case.

In `MC_MpUnreach`, `attr_len` 0..5 covers the three outcomes of the
length check (negative, zero, positive) and NLRI bytes after the fixed
fields.

**Fairness.** `FairSpec` assumes `WF_vars(ParseStep)` and nothing more.
`parse_msg` runs on the caller's thread and never blocks, so once called it
keeps executing until it returns, throws or crashes. Whether the caller
calls again is the caller's choice, so `NextCall` gets no fairness, and
`CallReturns` speaks only of the call in progress. The MP_UNREACH parser
has no liveness question beyond its straight-line code. `CHECK_DEADLOCK
FALSE` is set because a parse really ends: the buffer is consumed, the
call threw, or the call crashed.

## Proofs

Every proof module checks completely with `tlapm`.

- **`BmpParserProofs`**
  - `TypeCorrect` proves `Spec => []TypeOK` for every word width and header size allowed by the `ASSUME`s of `BmpParser`: the pointer stays within the buffer, `bmp_data_len` within `sizeof(bmp_data)` and the stats counter an unsigned word. No run checks `TypeOK`: it says nothing a plausible bug of the code could break (`ToInt` keeps `bmp_len` a signed word whatever line 162 computes).
  - The proof has one lemma per action and typing lemmas for `NetToHost`, `ShiftIn`, `ToInt` and `BufferBmpMessage`.
  - Byte sequences are kept behind the opaque definitions `SeqTypes` and `ByteFacts`, so the SMT backend only sees bytes as naturals of at most 255.
- **`BmpFramingProofs`**: `V3FramingCorrect` proves `Spec => []V3Framing` under `FramingAssumption`, for every word width and header width. `FramingAssumption` is two facts the code does not check:
  - `BMP_HDRv3_LEN = 5`. `parse_bmp_v3` reads 4 + 1 header bytes but subtracts `1 + BMP_HDRv3_LEN`.
  - Every buffer is shorter than 2^(WordBits-1), as `buf_len` is an `int`. Then no length arithmetic on a message in the buffer wraps (`NoWrap`).

  `V3Framing` speaks only of returned calls, so it is strengthened to the inductive invariant `FrameInv`, which follows a v3 call step by step:
  - after `parse_bmp_v3`, `pos = start + 6` and `bmp_len` is the declared length less 6;
  - after `parse_peer_hdr`, the per-peer header is also off both;
  - during the stats loop, `pos` is already at the message's end;
  - at a v1/v2 body, the message does not read as v3.

  `BufferLands` shows that `buffer_bmp_message` then copies exactly the rest of the message. To make the proof possible, the size check of `ParseBmpV3` is written as `IF ... THEN "threw" ELSE CASE ...`. Overlapping CASE arms would leave `pc'` unspecified when both hold. TLC took the first arm either way.
- **`MpUnreachProofs`**: `TypeCorrect` and `EorCorrect` (`Spec => []EorIffEmpty`), for every attribute and buffer.
  - `EorIffEmpty` speaks only of the final state, so it is not inductive.
  - The strengthening `Frame` records, for each point of the call, where the cursor and the local `attr_len` stand:
    - `data = 2` and `attr_len = arg_len - 3` after the SAFI read;
    - `attr_len > 0` at the dispatch;
    - End-of-RIB still unset before the check.
  - `TypeOK /\ Frame` is inductive. There is one step lemma per action, and `ParseAfiCases` for the AFI switch.

What stays with TLC:

- the violations;
- `V3Framing` outside `FramingAssumption`. The instance satisfies the assumption (`HdrV3Len = 5`, buffers of a few bytes), so no run looks at that case either;
- `CallReturns` and every other liveness property, which the prover cannot check.

## Not modelled

- The BGP message parsers and the NLRI sub-parsers. They are not in the repository, and the model keeps only the bytes they consume.
- The MRT parser. Only its declarations are in the repository.
