SPECIFICATION Spec
CONSTANTS
  Sources <- MCSources
  Truth <- MCTruth
  MCMaxLines = 4
  MCMaxTokens = 5
INVARIANTS
  DisabledBranchesMasked
  CPPOnlyBranchesBlanked
  LosingBranchesReported
CHECK_DEADLOCK FALSE
