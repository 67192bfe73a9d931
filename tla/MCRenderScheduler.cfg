SPECIFICATION Spec
CONSTANTS
  up = up
  rising = rising
  down = down
  SemanticKeys = {up, rising, down}
  Picture <- MCPicture
  Intervals <- MCIntervals
  ControlInterval = 2
  MaxGeneration = 2
  MaxSequence = 3
  NoKey = NoKey
INVARIANTS ShowsLatest EverythingTakenUp
PROPERTY LatestWins
CHECK_DEADLOCK FALSE
