SPECIFICATION Masking
CONSTANTS
  Word <- MCWord
  Digit <- MCDigit
  Inputs <- MCInputs
  MCLanguages = {"c", "cpp", "objc", "java", "go", "rust", "javascript", "typescript", "tsx", "python", "php", "csharp", "kotlin", "swift"}
INVARIANTS
  TypeOK
  KeepsCode
  HidesText
PROPERTY Terminates
CHECK_DEADLOCK FALSE
