SPECIFICATION FairSpec
CONSTANTS
  s1 = s1
  o1 = o1
  o2 = o2
  global = global
  noOrg = noOrg
  any = any
  retention = retention
  broadcast = broadcast
  Orgs = {o1, o2}
  NoOrg = noOrg
  Global = global
  Any = any
  Retention = retention
  Broadcast = broadcast
  Sockets = {s1}
  RequestOf <- MCOrganization
  Published <- MCBothTenants
  HistoryLimit = 2
  AskedLimits = {1, 2}
  RetentionLimit = 1
  QueueSize = 2
  MaxEvents = 2
  MaxGlobal = 2
  MaxPerOrg = 2
  MaxSubs = 2
INVARIANTS
  TypeOK
  NoGapOnJoin
  TenantIsolation
PROPERTIES
  ReachesDashboards
CHECK_DEADLOCK FALSE
