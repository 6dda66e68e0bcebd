CONSTANTS
  q = q
  m = m
  cm = cm
  Callers <- MCCallers
  Mutations <- MCMutations
  OnSession <- MCOnSession
  Capacity = 1
  None = None
SPECIFICATION FairSpec
INVARIANTS TypeOK RefusedNotExecuted
PROPERTY CallsReturn
