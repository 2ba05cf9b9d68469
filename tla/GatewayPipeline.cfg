SPECIFICATION FairSpec
CONSTANTS
  r1 = r1
  r2 = r2
  a1 = a1
  noOne = noOne
  NoOne = noOne
  Conditions = {}
  PolicyIds = {}
  PolicyOf <- MCPolicies
  Requests = {r1, r2}
  Admins = {a1}
  Inputs <- MCBenign
  Scores = {60, 98}
INVARIANTS
  BlockTakesHold
  LastToldIsKept
PROPERTIES
  EveryRequestEnds
CHECK_DEADLOCK FALSE
