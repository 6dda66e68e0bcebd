SPECIFICATION Spec
CONSTANTS
  p1 = p1
  p2 = p2
  Panes = {p1, p2}
  Redrawn = {}
  Respawned = {p2}
  MaxLoad = 3
  EventCap = 2
  QueueCap = 2
INVARIANT RespawnedOutputShown
