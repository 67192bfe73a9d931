SPECIFICATION Spec
CONSTANTS
  home = home
  day = day
  night = night
  Keys = {day, night}
  Successions <- MCDayToNight
  MaxLive = 1
  MaxHandles = 2
  MaxDisturbances = 0
  MaxDepth = 4
  None = None
  Gone = Gone
INVARIANT CapRespected
CHECK_DEADLOCK FALSE
