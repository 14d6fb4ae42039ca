SPECIFICATION Spec
VIEW View
CONSTANTS
  OB = "ob"
  FBs <- MCFBs
  Sites <- NestedSites
  Site <- NestedSite
  TempBytes <- MCTempBytes
  DBs <- NestedDBs
  UserOps <- AllOps
  Bases <- MCBases
  LocalBytes = 3
  CallStackSize = 4
INVARIANTS
  TypeOK
  StackAgrees
  ParamsReachable
  InstanceView
PROPERTIES
  ReturnRestores
  CopyBackToCaller
