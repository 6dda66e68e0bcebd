CONSTANTS
  r1 = r1
  r2 = r2
  c1 = c1
  c2 = c2
  None = None
  Calls = {r1, r2}
  PaneCalls = {r2}
  Clients = {c1, c2}
  Kind <- MCTwoFull
  MaxRetries = 2
SPECIFICATION Spec
INVARIANT OwnAnswer
