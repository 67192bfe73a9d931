SPECIFICATION Spec
CONSTANTS
  Markets <- MCMarkets
  LastTime <- MCLastTime
  Jumps <- MCJumps
  Resync = 2
INVARIANTS SessionsLast AtPresent
