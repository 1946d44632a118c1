SPECIFICATION Spec
CONSTANTS
  c1 = c1
  c2 = c2
  Clients = {c1, c2}
  Tabs = {t1, t2}
  FirstToken <- InOrder
  ClientOf <- OneBusyClient
  Orgs <- TwoWorkspaces
  MaxTokens = 4
  Races <- AllRaces
  MaxRaces = 1
SYMMETRY Symmetry
INVARIANTS
  SignOutIsFinalUnlessRaced
  StaysSignedInUnlessRaced
  SwitchSticksUnlessRaced
CHECK_DEADLOCK FALSE
