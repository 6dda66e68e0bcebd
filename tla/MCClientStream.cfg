SPECIFICATION FairSpec
CONSTANTS
  p1 = p1
  p2 = p2
  Panes = {p1, p2}
  Redrawn = {p2}
  Respawned = {p2}
  MaxLoad = 3
  EventCap = 1
  QueueCap = 2
INVARIANTS TypeOK CaughtUp SnapshotFirst LayoutsInOrder
PROPERTIES FeedsEveryPane EventuallyShown
