CONSTANTS
  Frames = {0, 1}
  pool_size_ = 2
  MaxPageId = 2
  Data = {zero, d}
  ZeroPage = zero
  INVALID_PAGE_ID = INVALID_PAGE_ID
  NoFrame = NoFrame
  MaxHolds = 2
  CarelessMaxPageId = 1
  CarelessData = {zero}
SPECIFICATION Spec
INVARIANTS
  PoolConsistent
  NoLostUpdate
  HeldPageStays
PROPERTIES
  FailsOnlyWhenAllPinned
