SPECIFICATION Spec
CONSTANTS
  Requests <- MCRequests
  OldRows <- MCRows
  OldEdges <- MCEdges
  OldInputs <- MCInputs
  Procs = {p1, p2}
  Walkers = {w1}
  LegacyWrites = TRUE
  MaxAttempts = 2
  MaxNodes = 2
  MaxOps = 3
INVARIANTS AckedReadable VersionsDense InputsReturned LineageExact
SYMMETRY ProcSymmetry
CHECK_DEADLOCK FALSE
