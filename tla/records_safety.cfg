SPECIFICATION RowsSpec
CONSTANTS
  r1 = r1
  r2 = r2
  l1 = l1
  Rows = {r1, r2}
  Lists = {l1}
  RowRaces <- AllRowRaces
INVARIANTS
  RowsTypeOK
  LiveIsListedUnlessRaced
  SaysHowItEndedUnlessRaced
PROPERTIES
  AbandonedRowEndsUnlessRaced
CHECK_DEADLOCK FALSE
