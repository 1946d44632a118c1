SPECIFICATION Spec
CONSTANTS
  Codes = {k1, k2}
  Pairings = {p1, p2}
  Withdrawals = {w1, w2}
  Tunnels = {u1}
  MaxTokens = 3
  Races <- AllRaces
  MaxRaces = 1
SYMMETRY Symmetry
INVARIANTS
  WithdrawnIsCutUnlessRaced
  PairedIsWelcomeUnlessRaced
  HoldsItsTokenUnlessRaced
  StoppedIsOffUnlessRaced
CHECK_DEADLOCK FALSE
