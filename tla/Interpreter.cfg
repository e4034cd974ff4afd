CONSTANTS
  None = None
  Docs = {"root", "leaf"}
  Application <- Leaf
  Dialogs <- LeafDialogs
  MaxDepth = 2
  MaxRethrows = 2
  MaxEvents = 1
SPECIFICATION FairSpec
INVARIANTS
  TypeOK
  ScopesNested
  SubdialogMatched
PROPERTIES
  StopEnds
  KeepsContract
CHECK_DEADLOCK FALSE
