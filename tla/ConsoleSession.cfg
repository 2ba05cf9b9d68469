SPECIFICATION FairSpec
CONSTANTS
  u1 = u1
  u2 = u2
  t1 = t1
  t2 = t2
  Users <- MCUsers
  Stored <- MCStored
  Tabs <- MCTabs
  Nobody = Nobody
  MaxSteps = 2
  MaxCalls = 2
INVARIANTS
  WaitersWake OwnersSession StaysSignedIn ViewsAgree
PROPERTIES
  Unstuck
CHECK_DEADLOCK FALSE
