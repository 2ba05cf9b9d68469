SPECIFICATION FairSpec
CONSTANTS
  Admins = {a1, a2}
  Gateways = {g1}
  Workers = {w1, w2}
  TTL = 2
  MaxFillDelay = 1
  MaxChanges = 2
INVARIANTS
  FreshUnlessRaced
PROPERTIES
  StalenessBounded
  EventuallyFresh
