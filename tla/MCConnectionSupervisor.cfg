SPECIFICATION Spec
CONSTANTS
  Generations <- MCGenerations
  MaxDemand = 2
  MaxBackoff = 2
  MaxIdentity = 2
  MaxDisturbances = 5
INVARIANTS NeverStranded NoWorkUnwanted OneWayForward CurrentIdentityOnly
PROPERTIES BackoffEarned StoppedForGood Recovers HalfOpenDetected
CHECK_DEADLOCK FALSE
