SPECIFICATION FairSpec
CONSTANTS
  preamble_len = 4
  PreambleHigh <- MCHigh
  long_frame = 4
  short_frame = 3
  TypeBits = 2
  KnownTypes <- MCKnownTypes
  BlockLen = 18
  short_output = TRUE
  ErrorLimits = {0, 1}
  Qualities = {0, 5, 10, 20}
  Leads = {0, 1, 2}
  Blocks <- MCBlocks
  RawBlocks <- MCRawBlocks
INVARIANTS FrameDecoded AccessInBounds
PROPERTIES DecodeEnds
CHECK_DEADLOCK FALSE
