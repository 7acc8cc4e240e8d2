SPECIFICATION Masking
CONSTANTS
  Word <- MCWord
  Digit <- MCDigit
  Inputs <- MCRegexInputs
  MCLanguages = {}
INVARIANT HidesText
CHECK_DEADLOCK FALSE
