SPECIFICATION MCSpec
CONSTANTS
  MCMaxNodes = 4
  MCMaxErrors = 2
  DefaultParseTimeout = 1
  Timeouts = {0, 2}
  MaxEngines = 2
  MaxCuts = 2
  Results <- MCResults
INVARIANTS
  IInv
  NothingLeaks
  UsedWhileOpen
  TimeBounded
  FirstErrorNamed
PROPERTY EveryCallReturns
