CONSTANTS
  ByteBits = 2
  MAX_CHARS = 3
  zero = zero
  d1 = d1
  Data <- MCData
  ZeroPage = zero
  ReadAsBitmap <- MCReadAsBitmap
  Word = 24
  MaxExtents = 2
  Uninitialised <- MCUninitialised
  MaxPages <- TwoPages
  Operations <- AnyReopens
SPECIFICATION Spec
CHECK_DEADLOCK FALSE
PROPERTY
  AllocatesFreePage
