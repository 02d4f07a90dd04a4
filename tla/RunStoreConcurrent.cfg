SPECIFICATION Spec
CONSTANTS
  Runs = {r1}
  Keys = {"k"}
  Vals = {"v1"}
  OldRuns = {r1}
  Lifecycles = {}
  Deletes = {"k", "mlflow.parentRunId"}
  Updates <- OneUpdate
  Batches <- MixedBatches
  ClientStarts = {}
  Writers = {w1, w2}
  Readers = {}
  Janitor = janitor
  NoRun = ""
  NoProc = NoProc
  NoRow = NoRow
  Absent = Absent
  StaleAfter = 0
  Retention = 1
  MaxEventsPerReplay = 3
  MaxInFlight = 2
  MaxOps = 3
  MaxClock = 2
INVARIANTS LogOrdered ParentAsOfExact NoFutureTag ReplayIsTheLoop
PROPERTIES JanitorKeepsOutcomes
SYMMETRY WriterSymmetry
