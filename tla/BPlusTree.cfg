SPECIFICATION Spec
VIEW UpToPageNumbers
CONSTANTS
  MaxPageId = 18
  NoKey = NoKey
  Operations = {}
  Shapes <- MCShapes
INVARIANTS
  PagesMatchTree
  LookupAgrees
  TreeConsistent
  ScanIsSorted
  RootPersisted
