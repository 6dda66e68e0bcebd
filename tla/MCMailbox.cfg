CONSTANTS
  p1 = p1
  p2 = p2
  Panes = {p1, p2}
  Senders = {p2}
  Waiters = {p1}
  Wakeful = {p1}
  t1 = t1
  t2 = t2
  Topics = {t1}
  Filters = {"any", t1, t2}
  AckStatuses = {"ok"}
  Hosts <- OneHost
  RemoteThreads = {2}
  StoredMessages = 2
  SubscriberCap = 1
  MaxLoad = 4
SPECIFICATION Spec
INVARIANTS TypeOK NoMissedMessage WokenWhenDrained EventNumbersDistinct
PROPERTY MessagesKept
\* The bounds end a behaviour.
CHECK_DEADLOCK FALSE
