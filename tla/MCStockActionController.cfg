SPECIFICATION Spec
CONSTANTS
  MaxEpoch = 1
  MaxGeneration = 1
INVARIANTS
  NoStaleAnswer
  NothingLeftBehind
  SubscribedByPolicy
  NeverBlind
  TimersRun
  ConnectionShown
