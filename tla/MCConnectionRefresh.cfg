SPECIFICATION Spec
CONSTANTS
  Generations <- MCGenerations
  MaxDemand = 1
  MaxBackoff = 2
  MaxIdentity = 1
  MaxDisturbances = 3
INVARIANT OpenKeepsRefreshing
CHECK_DEADLOCK FALSE
