SPECIFICATION PartsSpec
CONSTANTS
  ByteBits = 2
  MAX_CHARS = 3
  NoOffset = NoOffset
  zero = zero
  d1 = d1
  Data <- MCData
  ZeroPage = zero
  ReadAsBitmap <- MCReadAsBitmap
  Word = 24
  MaxExtents = 2
  Uninitialised <- MCUninitialised
  MaxPages <- MCMaxPages
  Operations <- MCOperations
  Frames = {f1, f2, f3, f4}
  NoFrame = NoFrame
  PAGE_SIZE = 8
  SIZE_TABLE_PAGE_HEADER = 1
  SIZE_TUPLE = 1
  Rows = {r1, r2}
  Sizes = {1, 2, 3}
  NoRow = NoRow
CHECK_DEADLOCK FALSE
INVARIANTS
  CountMatchesBits
  AllocationConsistent
  ReadsLastWrite
  ListConsistent
  Layout
  ContentIntact
  NoSpaceLost
PROPERTIES
  AllocatesLowestFree
  ImplementsAllocator
  VictimIsLeastRecent
  ImplementsReplacer
