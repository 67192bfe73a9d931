SPECIFICATION Spec
CONSTANTS
  None = None
  Settings <- MCSettings
  Migrate <- MCMigrate
  MaxEvents = 5
INVARIANTS ShowsStored NoWriteLoop
CHECK_DEADLOCK FALSE
