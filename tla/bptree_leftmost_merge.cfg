SPECIFICATION Spec
VIEW UpToPageNumbers
CONSTANTS
  MaxPageId = 18
  NoKey = NoKey
  Operations = {"leftmost merge"}
  Shapes <- MCShapes
INVARIANT PagesMatchTree
