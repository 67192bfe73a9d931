SPECIFICATION Spec
CONSTANTS
  home = home
  day = day
  night = night
  Keys = {home, day, night}
  Successions <- MCNoSuccession
  MaxLive = 1
  MaxHandles = 3
  MaxDisturbances = 7
  MaxDepth = 4
  None = None
  Gone = Gone
INVARIANTS KnownToServer FreePlacesTaken RotationMarks
CHECK_DEADLOCK FALSE
