SPECIFICATION Spec
CONSTANTS
  home = home
  day = day
  night = night
  Keys = {home, day, night}
  Successions <- MCDayToNight
  MaxLive = 1
  MaxHandles = 3
  MaxDisturbances = 0
  MaxDepth = 4
  None = None
  Gone = Gone
INVARIANT LeaseEndsWithPair
CHECK_DEADLOCK FALSE
