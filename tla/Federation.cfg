SPECIFICATION FairSpec
CONSTANTS
  Names = {"a", "b"}
  OldPeers <- MCPeers
  Urls = {"u1", "u2"}
  Secrets = {"k"}
  Skew <- MCSkew
  MaxSkew = 1
  Cap = 1
  TTL = 0
  Timeout = 1
  Searchers = {1, 2}
  MaxTime = 2
  MaxAdds = 2
  MaxChanges = 1
  MaxCalls = 3
  MaxAtOnce = 2
INVARIANTS ConnectedProven
PROPERTIES Fresh Complete SearchesEnd
CHECK_DEADLOCK FALSE
