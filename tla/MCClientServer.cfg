SPECIFICATION Spec
CONSTANTS
  c1 = c1
  c2 = c2
  Clients = {c1, c2}
  Requests <- MCRequests
  SeqNumbers = 2
  UpRoom = 1
  DownRoom = 2
INVARIANTS
  TypeOK
  AnswersItsCall
  FlagsAgree
PROPERTIES
  Served
