SPECIFICATION FairSpec
CONSTANTS
  Names = {1, 2}
  OldTables <- MCTables
  Requests <- AllCalls
  Procs = {p1, p2}
  Scanners = {s1}
  Conns = {c1, c2, c3}
  NoConn = NoConn
  MaxAttempts = 2
  PageSize = 1
  MaxOps = 2
INVARIANTS NoOrphans RegistrationsKept ScanComplete
PROPERTIES RequestsFinish
CHECK_DEADLOCK FALSE
