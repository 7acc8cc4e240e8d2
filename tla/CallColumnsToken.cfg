SPECIFICATION MCSpec
CONSTANTS
  Name = {"f", "g"}
  NoName = ""
  DeclWindow = 1
  MCMaxLines = 1
  MCMaxTokens = 3
  MCUses = {"fn", "bind", "call"}
  MCOrders = {"source", "chain"}
  Inputs <- MCPlainInputs
INVARIANT ColIsTheCallsToken
