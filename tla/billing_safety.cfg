SPECIFICATION Spec
CONSTANTS
  Checkouts = {p1, p2}
  Handlers = {h1, h2}
  MaxRaces = 1
  Races <- AllRaces
SYMMETRY Symmetry
INVARIANTS
  TypeOK
  LatestWinsUnlessRaced
  RefundEndsItsPlanUnlessRaced
  DonationTellsUnlessRaced
CHECK_DEADLOCK FALSE
