CONSTANTS
  MaxWindows = 2
  MaxRequests = 3
SPECIFICATION Spec
INVARIANTS TypeOK OnePlace FocusValid ClosedHasExpiry ShellsOwned NoGhostPanes
PROPERTY NoResurrection
\* The session ends with its last pane.
CHECK_DEADLOCK FALSE
