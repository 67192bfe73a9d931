SPECIFICATION Spec
CONSTANTS
  Settings <- MCSettings
  Default <- MCDefault
  Updates <- MCUpdates
  Effect <- MCEffect
  Throws = Throws
  Retries = 3
  MaxRevision = 3
  MaxCalls = 3
INVARIANT SnapshotTrue
PROPERTY UpdatesSerial
CHECK_DEADLOCK FALSE
