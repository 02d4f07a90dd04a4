SPECIFICATION FairSpec
CONSTANTS
  Runs = {r1, r2}
  Keys = {"k"}
  Vals = {}
  OldRuns = {r1}
  Lifecycles = {}
  Deletes = {"mlflow.parentRunId"}
  Updates = {}
  Batches <- ParentBatches
  ClientStarts = {}
  Writers = {w1, w2}
  Readers = {}
  Janitor = janitor
  NoRun = ""
  NoProc = NoProc
  NoRow = NoRow
  Absent = Absent
  StaleAfter = 0
  Retention = 0
  MaxEventsPerReplay = 3
  MaxInFlight = 2
  MaxOps = 2
  MaxClock = 1
INVARIANTS ParentTagMirrored
PROPERTIES RequestsFinish
