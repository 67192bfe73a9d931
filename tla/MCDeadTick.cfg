SPECIFICATION Spec
CONSTANTS
  MaxEpoch = 1
  MaxGeneration = 0
INVARIANTS PolicyTicks
