SPECIFICATION Spec
CONSTANTS
  Rows = {x1}
  MaxChanges = 2
  MaxTheirs = 1
  MaxFails = 2
  Races <- AllRaces
  MaxRaces = 1
INVARIANTS
  
  OnceInOrderUnlessRaced
  ShowsMineUnlessRaced
PROPERTIES
  SyncsUnlessRaced
CHECK_DEADLOCK FALSE
