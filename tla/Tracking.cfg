SPECIFICATION Spec
CONSTANTS
  Procs = {p1, p2}
  Requests <- MCRequests
  Runs = {1, 2, 3, 4}
  OldRuns <- MCOldRuns
  Keys = {"k", "l"}
  Values = {"a", "b"}
  SpanIds = {"s", "c"}
  Traces = {"t", "u"}
  Times = {2, 3}
  PageSize = 1
  MaxOps = 4
  Nothing = Nothing
  NaN = NaN
INVARIANTS AckedLogged RetrySafe LatestExact SearchExact
SYMMETRY ProcSymmetry
CHECK_DEADLOCK FALSE
