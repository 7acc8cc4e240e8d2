SPECIFICATION Masking
CONSTANTS
  Word <- MCWord
  Digit <- MCDigit
  Inputs <- MCHeredocInputs
  MCLanguages = {}
INVARIANT KeepsCode
CHECK_DEADLOCK FALSE
