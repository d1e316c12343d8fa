CONSTANTS
  WordBits <- MC_WordBits
  HdrV3Len <- MC_HdrV3Len
  HdrV1V2Len <- MC_HdrV1V2Len
  PeerHdrLen <- MC_PeerHdrLen
  LocalIpLen <- MC_LocalIpLen
  BgpMarkerLen <- MC_BgpMarkerLen
  BgpMaxMsgSize <- MC_BgpMaxMsgSize
  BmpDataSize <- MC_BmpDataSize
  TlvHdrLen <- MC_TlvHdrLen
  InfoSize <- MC_InfoSize
  ErrReadingMsg <- MC_ErrReadingMsg
  GarbageLens <- MC_GarbageLens
  MaxEntries <- MC_MaxEntries
  Streams <- MC_Streams
SPECIFICATION FairSpec
CHECK_DEADLOCK FALSE
INVARIANTS
  V3Framing
PROPERTIES
  CallReturns
