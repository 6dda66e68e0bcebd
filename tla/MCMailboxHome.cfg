CONSTANTS
  p1 = p1
  p2 = p2
  Panes = {p1, p2}
  Senders = {p1, p2}
  Waiters = {}
  Wakeful = {}
  t1 = t1
  t2 = t2
  Topics = {t1}
  Filters = {"any"}
  AckStatuses = {"ok"}
  Hosts <- OneHost
  RemoteThreads = {0, 2}
  StoredMessages = 2
  SubscriberCap = 2
  MaxLoad = 3
SPECIFICATION Spec
INVARIANT InferredReplyGoesHome
\* The bounds end a behaviour.
CHECK_DEADLOCK FALSE
