CONSTANTS
  c1 = c1
  c2 = c2
  Clients = {c1, c2}
  Kinds = {"interactive", "plain", "pane", "window"}
  Sizes = {0, 2, 3}
  MirrorSizes = {0, 2}
  None = None
  MaxWindows = 2
  MaxMessages = 3
SYMMETRY ClientSymmetry
SPECIFICATION Spec
INVARIANTS TypeOK OwnerIsAttached ActiveWindowFits ExitsWhenUnattached ClosedIsForgotten
PROPERTY OwnershipByOwnEvent
\* The bounds end a behaviour.
CHECK_DEADLOCK FALSE
