CONSTANTS
  None = None
  Docs = {"leaf", "root"}
  Root <- LeafRoot
  Page <- LeafPage
  Links <- LeafLinks
  Items <- LeafItems
  Addresses <- Ten
  MaxDepth = 2
SPECIFICATION Spec
INVARIANTS
  ListensForItem
  MatchFound
  OneOwner
  SignalsFresh
CHECK_DEADLOCK FALSE
