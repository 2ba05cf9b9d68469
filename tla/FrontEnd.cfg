SPECIFICATION FairSpec
CONSTANTS
  r1 = r1
  r2 = r2
  Ids <- MCIds
  Nobody = Nobody
  Manages = TRUE
  MaxSteps = 3
  MaxCalls = 2
  Rows <- MCRows
INVARIANTS
  TypeOK NoSpinnerForever ListIsCurrent ActsOnTheSelected NothingReturns WidgetsAgree
PROPERTIES
  Settles
CHECK_DEADLOCK FALSE
