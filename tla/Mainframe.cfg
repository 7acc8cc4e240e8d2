SPECIFICATION MCSpec
CONSTANTS
  Sources <- MCSources
  LitText <- MCLitText
  Number <- MCNumber
  Decks <- MCDecks
  MCMaxItems = 4
  MCMaxStatements = 3
  MCMaxCopies = 3
INVARIANTS
  StepsRun
  DatasetsAgree
  DataTree
  CallsReach
  BodyIsSpan
  CopiesImported
CHECK_DEADLOCK FALSE
