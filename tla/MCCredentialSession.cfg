SPECIFICATION Spec
CONSTANTS
  c1 = c1
  c2 = c2
  r1 = r1
  r2 = r2
  Credentials = {c1, c2}
  No = No
  Requesters = {r1, r2}
  MaxChanges = 2
  MaxTokens = 2
  MaxFlights = 2
SYMMETRY MCSymmetry
INVARIANTS CredentialsIsolated NobodyForgotten
PROPERTY OwnTokenDiscarded
CHECK_DEADLOCK FALSE
