SPECIFICATION RuntimeSpec
CONSTANTS
  payroll = payroll
  night = night
  allowPayroll = allowPayroll
  blockBoth = blockBoth
  quarantineNight = quarantineNight
  Conditions = {payroll, night}
  PolicyIds = {allowPayroll, blockBoth, quarantineNight}
  PolicyOf <- MCPolicies
  Inputs <- MCInputs
  Profiles <- MCProfiles
  Scores = {0, 22, 23, 26, 27, 80, 100}
INVARIANTS
  RefusalCosts
  NoWayBackInProduction
  RecoveryThreshold
