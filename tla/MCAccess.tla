------------------------------ MODULE MCAccess ------------------------------
(* Ann manages the default workspace, which is open once ann has left it; bob *)
(* manages the workspace "team", which starts empty.                          *)
EXTENDS Access

MCRoles == [ws \in Workspaces |-> [u \in Users |->
              IF u = (IF ws = Default THEN "ann" ELSE "bob") THEN "admin" ELSE Nothing]]

Old(id, t) == [Experiment(id, Default, IF id = 1 THEN "e1" ELSE "e2", t) EXCEPT !.located = TRUE, !.tag = "t"]
MCExperiments == {Old(1, 1), Old(2, 1)}

New(name, located) == [name |-> name, tag |-> "t", located |-> located]

MCRequests == {
  Request("createWorkspace", "ann", Default, Nothing, 0, "team"),
  Request("listMembers", "ann", Default, "team", 0, Nothing),
  Request("deleteWorkspace", "bob", "team", "team", 0, Nothing),
  Request("addMember", "ann", Default, "team", 0, [user |-> "bob", role |-> "editor"]),
  Request("addMember", "bob", "team", "team", 0, [user |-> "ann", role |-> "viewer"]),
  Request("removeMember", "ann", Default, Default, 0, "ann"),
  Request("removeMember", "bob", "team", "team", 0, "bob"),
  Request("export", "bob", Default, Nothing, 0, Nothing),
  Request("saveDashboard", "bob", "team", Nothing, 0, Nothing),
  Request("createExperiment", "bob", "team", Nothing, 0, New("e1", TRUE)),
  Request("cloneExperiment", "ann", Default, Nothing, 1, New("e3", FALSE)),
  Request("setStage", "ann", Default, Nothing, 2, "deleted"),
  Request("rename", "ann", Default, Nothing, 2, "e3"),
  Request("searchExperiments", "ann", Default, Nothing, 0, "active")}
=============================================================================
