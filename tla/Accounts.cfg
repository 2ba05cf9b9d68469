SPECIFICATION Spec
CONSTANTS
  ann = ann
  bob = bob
  sue = sue
  new = new
  ours = ours
  theirs = theirs
  n1 = n1
  n2 = n2
  r1 = r1
  r2 = r2
  Nobody = Nobody
  Users <- MCUsers
  Orgs <- MCOrgs
  Requests <- MCRequests
  Begun <- MCBegun
  Asks <- MCAsks
  Names <- MCNames
SYMMETRY Symmetric
INVARIANT AskedIsAnswered AuditedInOrder
PROPERTY RightsOnlyByAdministrators NoSelfRevival
CHECK_DEADLOCK FALSE
