SPECIFICATION Spec
CONSTANTS
  a1 = a1
  a2 = a2
  p1 = p1
  p2 = p2
  Shells = {a1, a2}
  Ptys = {p1, p2}
  NoShell = NoShell
  NoPty = NoPty
  MaxConns = 2
  MaxStray = 1
  MaxRaces = 1
  Races <- AllRaces
SYMMETRY Symmetry
INVARIANTS
  TypeOK
  NoForeignShellUnlessRaced
  NoDeadPrompt
  NoOrphan
  RegistryIsTrue
PROPERTIES
  ResumedShellSurvivesUnlessRaced
CHECK_DEADLOCK FALSE
