SPECIFICATION Spec
CONSTANT
  Profiles <- MCProfiles
INVARIANTS
  CallsToInnermost
  FnCallsToInnermost
  GoUsesOnce
  NamedAfterItsParent
  DeclaredOnce
  AccessAsDeclared
  NothingDeclaredLost
CHECK_DEADLOCK FALSE
