CONSTANTS
  Reloads = {"command", "watcher"}
  MaxChanges = 3
  MaxSeconds = 0
  MaxIncidents = 0
SPECIFICATION Spec
INVARIANT FinalSnapshot
