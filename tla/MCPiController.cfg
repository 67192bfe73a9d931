SPECIFICATION Spec
CONSTANTS
  p0 = p0
  p1 = p1
  p2 = p2
  None = None
  Preferences <- MCPreferences
  Commands <- MCCommands
  MaxTurns = 3
  MaxDisturbances = 2
SYMMETRY Alike
INVARIANTS SaveIsAnswered ConflictExplained
PROPERTIES SeenBeforeOverwritten TypedIsKept OnlyForOpenInspector
CHECK_DEADLOCK FALSE
