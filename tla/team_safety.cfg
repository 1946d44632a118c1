SPECIFICATION Spec
CONSTANTS
  People = {p1, p2}
  Hosts = {h1}
  Invitations = {i1, i2}
  Requests = {r1, r2}
  Given = {"devops", "auditor"}
  Races <- AllRaces
  MaxCalls = 4
  MaxRaces = 1
SYMMETRY Symmetry
INVARIANTS
  AlwaysAnOwnerUnlessRaced
  StartsFromNoAccessUnlessRaced
PROPERTIES
  RemovedStaysOutUnlessRaced
  OpensWithAccessUnlessRaced
CHECK_DEADLOCK FALSE
