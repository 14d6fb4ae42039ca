CONSTANTS
  Messages = {"RUN", "STOP", "RESET", "SHUTDOWN", "HWMOD", "LIBSEL", "AWLSRC"}
  Modules = {m1, m2, m3}
SPECIFICATION PlcSpec
INVARIANTS PlcTypeOK CyclesAreStarted CyclesUseStartedHardware HardwareIsReachable
PROPERTIES ExitStays ExitEnds HardwareGoesDown
