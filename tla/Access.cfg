SPECIFICATION Spec
CONSTANTS
  Procs = {"p1", "p2"}
  Requests <- MCRequests
  Workspaces = {"default", "team"}
  Users = {"ann", "bob"}
  OldRoles <- MCRoles
  OldExperiments <- MCExperiments
  Auth = "basic"
  PageSize = 1
  Times = {1, 2}
  MaxOps = 4
INVARIANTS AckedKept Authorized SearchExact
CHECK_DEADLOCK FALSE
