SPECIFICATION Spec
CONSTANTS
  ParenStackSize = 1
  CallStackSize = 2
  McrStackSize = 1
  MaxZones = 2
  MaxOpen = 1
INVARIANTS ResultIsExpression
PROPERTIES OutputsFollow
