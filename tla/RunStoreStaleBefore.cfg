SPECIFICATION Spec
CONSTANTS
  Runs = {r1}
  Keys = {"k"}
  Vals = {"v1", "v2"}
  OldRuns = {r1}
  Lifecycles = {}
  Deletes = {}
  Updates = {}
  Batches <- KeyBatches
  ClientStarts = {}
  Writers = {w1, w2}
  Readers = {}
  Janitor = janitor
  NoRun = ""
  NoProc = NoProc
  NoRow = NoRow
  Absent = Absent
  StaleAfter = 3
  Retention = 0
  MaxEventsPerReplay = 3
  MaxInFlight = 2
  MaxOps = 2
  MaxClock = 3
INVARIANTS AsOfExact
