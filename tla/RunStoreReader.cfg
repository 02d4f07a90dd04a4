SPECIFICATION Spec
CONSTANTS
  Runs = {r1}
  Keys = {"k"}
  Vals = {"v1"}
  OldRuns = {r1}
  Lifecycles = {"deleted"}
  Deletes = {"k"}
  Updates <- OneUpdate
  Batches <- KeyBatches
  ClientStarts = {}
  Writers = {w1}
  Readers = {rd1}
  Janitor = janitor
  NoRun = ""
  NoProc = NoProc
  NoRow = NoRow
  Absent = Absent
  StaleAfter = 0
  Retention = 1
  MaxEventsPerReplay = 1
  MaxInFlight = 1
  MaxOps = 2
  MaxClock = 3
INVARIANTS TypeOK AsOfExact ReadRowExact
PROPERTIES MutationLogged
