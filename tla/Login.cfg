SPECIFICATION FairSpec
CONSTANTS
  Clients = {"b1", "b2"}
  Capacity = 3
  Cost = 1
  Minute = 1
  MaxTime = 3
  SessionTTL = 2
  Interval = 2
  MaxKey = 1
  MaxSessions = 1
INVARIANTS SessionsExact
PROPERTIES SweepsUnseen RefreshSpaced LoginsEnd
CHECK_DEADLOCK FALSE
