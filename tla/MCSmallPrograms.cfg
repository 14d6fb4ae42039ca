CONSTANTS
  Modulus = 8
  Presets <- MCPresets
  Gaps = {0, 1, 5}
  Begin = 7
  MaxCalls = 5
  Half = 2
  PVs <- MCPVs
  AccuValues = {1, 10, 2456, 4097}
  MaxOps = 5
  WordBits = 2
  Values <- MCValues
  Counts = {1, 2, 3, 5}
  MaxSteps = 7
  Durations <- MCDurations
  TimeSteps <- MCTimeSteps
  MaxTime = 84
  MaxLate = 2
  MaxProgram = 6
SPECIFICATION ProgramSpec
VIEW View
INVARIANTS TypesOK OutputsAreIec CountsPulses ResultsAreExact OverflowIsRemembered JumpsDecide ClockPhases
PROPERTIES TimerIsIdeal
