SPECIFICATION FairStreamSpec
CONSTANTS
  Files <- SomeFiles
  Window = 2
  ReadMark = 1
  WriteMark = 2
  MaxConns = 2
  StreamRaces <- AllStreamRaces
INVARIANTS
  StreamTypeOK
  TransferIsWholeUnlessRaced
  NoIdleHandle
PROPERTIES
  SettlesUnlessRaced
CHECK_DEADLOCK FALSE
