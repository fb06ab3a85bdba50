SPECIFICATION FairSpec
CONSTANTS
  Sizes <- TreeSizes
  Degrees <- TreeDegrees
INVARIANTS
  ChildrenMatchParents
  SpanningTree
  MirrorOrder
PROPERTY IterEnds
