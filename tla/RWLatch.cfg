SPECIFICATION LatchSpec
CONSTANTS
  Threads = {t1, t2, t3, t4}
  MAX_READERS = 4
INVARIANTS
  ReaderCountExact
  Exclusion
  NoMissedWakeup
PROPERTIES
  EnteredWriterWrites
  SomeThreadGetsIn
