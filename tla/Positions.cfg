SPECIFICATION MCPositionsSpec
CONSTANTS
  Name = {"f", "g"}
  NoName = ""
  DeclWindow = 1
  MCMaxLines = 3
  MCMaxTokens = 4
  MCUses = {"fn", "bind", "call"}
  MCOrders = {"source", "chain"}
  MCMaxBytes = 6
  Inputs <- MCInputs
  Sources <- MCSources
INVARIANTS
  IInv
  NoSharedToken
  NamesTheCallee
  ExactWhenPlain
  LeavesInPlace
CHECK_DEADLOCK FALSE
