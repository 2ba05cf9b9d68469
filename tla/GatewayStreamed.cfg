SPECIFICATION Spec
CONSTANTS
  r1 = r1
  r2 = r2
  a1 = a1
  noOne = noOne
  NoOne = noOne
  Conditions = {}
  PolicyIds = {}
  PolicyOf <- MCPolicies
  Requests = {r1, r2}
  Admins = {a1}
  Inputs <- MCInputs
  Scores = {80, 100}
SYMMETRY MCSymmetry
INVARIANTS
  StreamedIsPersisted
CHECK_DEADLOCK FALSE
