SPECIFICATION Spec
VIEW UpToPageNumbers
CONSTANTS
  MaxPageId = 18
  NoKey = NoKey
  Operations = {"refill"}
  Shapes <- MCShapes
INVARIANT RootPersisted
