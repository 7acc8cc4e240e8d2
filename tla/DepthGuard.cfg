SPECIFICATION MCSpec
CONSTANTS
  MCMaxNodes = 6
  Trees <- MCTrees
  MaxASTDepth = 2
INVARIANTS
  VerdictExact
  StackBounded
  DocumentOrder
  DepthInv
PROPERTY EventuallyExtracted
