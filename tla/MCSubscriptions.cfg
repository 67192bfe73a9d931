SPECIFICATION Spec
CONSTANTS
  home = home
  day = day
  night = night
  Keys = {day, night}
  Successions <- MCDayToNight
  MaxLive = 1
  MaxHandles = 2
  MaxDisturbances = 8
  MaxDepth = 4
  None = None
  Gone = Gone
INVARIANTS EntriesTrue NothingWaitsInVain
PROPERTY QueueServed
CHECK_DEADLOCK FALSE
