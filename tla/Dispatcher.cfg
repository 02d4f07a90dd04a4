SPECIFICATION FairSpec
CONSTANTS
  Calls = {n1, n2}
  Hooks = {1, 2}
  EchoHooks = {2}
  Workers = {w1, w2}
  Stoppers = {s1}
  NoJob = NoJob
  QueueCapacity = 1
  MaxRetries = 2
INVARIANTS OutcomeExplained
PROPERTIES KeepsPromise StopSettles
CHECK_DEADLOCK FALSE
