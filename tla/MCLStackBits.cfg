SPECIFICATION Spec
CONSTANTS
  LocalBytes <- MCLocalBytes
  AllocWidths <- MCAllocWidths
  CallStackSize = 4
INVARIANT
  BaseIsAligned
