CONSTANT Messages = {"RUN", "STOP", "RESET", "SHUTDOWN", "HWMOD", "LIBSEL", "AWLSRC"}
SPECIFICATION Spec
PROPERTY ExitIsFinal
