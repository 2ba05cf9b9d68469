SPECIFICATION Spec
CONSTANTS
  s1 = s1
  s2 = s2
  c1 = c1
  k1 = k1
  o1 = o1
  Sockets = {s1, s2}
  Channels = {c1}
  Allowed <- MCAllowedOne
  Org <- MCOrg
  Cleaners = {k1}
  MaxGlobal = 1
  MaxPerOrg = 2
  MaxSubs = 1
INVARIANTS
  WithinLimits
