SPECIFICATION Spec
CONSTANTS
  LocalBytes <- MCLocalBytes
  AllocWidths <- MCAllocWidths
  CallStackSize = 4
INVARIANTS
  Balanced
  InBounds
  Isolated
PROPERTIES
  ImplementsAreas
