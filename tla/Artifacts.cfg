SPECIFICATION Spec
CONSTANTS
  Order <- MCOrder
  Old <- MCOld
  Requests <- MCRequests
  Configs <- MCConfigs
  Procs = {1, 2}
  PageSize = 1
  Exclusive = TRUE
  Absent = Absent
  MaxOps = 2
INVARIANTS AnswersTrue WholeArtifacts NoLeftovers
CHECK_DEADLOCK FALSE
