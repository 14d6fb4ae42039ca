SPECIFICATION ProgramSpec
CONSTANTS
  ob1 = ob1
  udt = udt
  fc1 = fc1
  fc2 = fc2
  a = a
  b = b
  bad = bad
  NoSource = NoSource
  Sources = {a, b, bad}
  Blocks = {ob1, udt, fc1, fc2}
  OB1 = ob1
  LibBlocks = {fc1}
  MaxPending = 3
  MaxLibs = 2
  Kinds <- MCKinds
  Defines <- MCDefines
  Calls <- MCCalls
  Faulty <- MCFaulty
INVARIANTS ProgramTypeOK StartedIsRunnable StartedIsBuilt AcknowledgedIsSaved
