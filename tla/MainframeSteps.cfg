SPECIFICATION MCSpec
CONSTANTS
  Sources <- MCNone
  LitText <- MCLitText
  Number <- MCNumber
  Decks <- MCParmDecks
  MCMaxItems = 1
  MCMaxStatements = 1
  MCMaxCopies = 1
INVARIANT StepsHaveCallSites
CHECK_DEADLOCK FALSE
