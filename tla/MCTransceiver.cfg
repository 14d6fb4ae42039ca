CONSTANTS
  Messages <- MCMessages
  HdrLen = 3
  Room = 4
  MaxSent = 4
SPECIFICATION StreamSpec
INVARIANTS InSync
PROPERTY ImplementsStream
