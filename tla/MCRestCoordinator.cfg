SPECIFICATION Spec
CONSTANTS
  shut = shut
  live = live
  Keys = {shut, live}
  ClosedKeys = {shut}
  MaxConcurrent = 1
  MaxStarts = 2
  Window = 2
  Ranks = {0, 2}
  MaxCache = 1
  MaxFlights = 3
  MaxWaiters = 2
INVARIANTS LimitsKept GateDriven SingleFlight
CHECK_DEADLOCK FALSE
