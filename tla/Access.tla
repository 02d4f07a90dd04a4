------------------------------- MODULE Access -------------------------------
(***************************************************************************)
(* Workspaces, their members, and the experiments they own:                *)
(* internal/store/workspaces.go, the experiment half of sqlite.go, the     *)
(* workspace and RBAC middlewares of internal/server, the handlers of      *)
(* api/native/workspaces.go, the experiment handlers of api/mlflow, the    *)
(* dashboards, and the gRPC receiver's own copy of the two middlewares.    *)
(*                                                                         *)
(* A request is resolved to a workspace, authorised by one or two lookups  *)
(* and served by one or more store calls; every one of these is a step of  *)
(* its own on a pooled connection, so members, workspaces and experiments  *)
(* change in between.  Any store call may also fail and end the request.   *)
(***************************************************************************)
EXTENDS Keyset

CONSTANTS
  Procs,       \* request goroutines
  Requests,    \* what clients send, see Request
  Workspaces,  \* workspace ids
  Users,
  OldRoles,    \* members when the behaviour starts
  OldExperiments,
  Auth,        \* cfg.Auth: "none" switches the role checks off
  PageSize,    \* MaxResults of the searches
  Times,       \* creation times
  MaxOps       \* bound: requests served in a behaviour

Default == "default"
Nothing == "nothing"      \* no path target, no such member, no tag
Roles == {"viewer", "editor", "admin"}
Rank == [nothing |-> 0, viewer |-> 1, editor |-> 2, admin |-> 3]

\* op, the caller, the X-Workspace header or cookie, the workspace in the path,
\* the experiment named, and whatever else the body carries.
Request(op, user, ws, target, exp, arg) ==
  [op |-> op, user |-> user, ws |-> ws, target |-> target, exp |-> exp, arg |-> arg]

VARIABLES
  workspaces,   \* the ids in table workspaces
  role,         \* table workspace_members; Nothing where there is no row
  experiments,  \* table experiments with experiment_tags: a set of rows
  dashboards,   \* table dashboards: the workspaces that have one
  lastId,       \* sqlite_sequence of experiments
  req,          \* the request each goroutine serves
  ops,          \* requests begun
  granted,      \* history: the grants that held at some moment of the request
  acked,        \* history: experiments whose creation was acknowledged
  steady        \* history: the rows a search matched ever since it began

db == <<workspaces, role, experiments, dashboards, lastId>>
vars == <<workspaces, role, experiments, dashboards, lastId, req, ops, granted, acked, steady>>

Idle == [pc |-> "idle", q |-> Request("none", Nothing, Default, Nothing, 0, Nothing),
         id |-> 0, tag |-> Nothing, cursor |-> Start, out |-> {}, twice |-> {}]

Experiment(id, ws, name, ctime) ==
  [id |-> id, ws |-> ws, name |-> name, ctime |-> ctime, stage |-> "active",
   located |-> FALSE, tag |-> Nothing]

\* The columns of experiments.
Row(e) == e = [id |-> e.id, ws |-> e.ws, name |-> e.name, ctime |-> e.ctime, stage |-> e.stage,
               located |-> e.located, tag |-> e.tag]

ASSUME AccessConstants ==
  /\ Default \in Workspaces /\ Nothing \notin Users \cup Workspaces
  /\ OldRoles \in [Workspaces -> [Users -> Roles \cup {Nothing}]]
  /\ PageSize \in Nat \ {0} /\ MaxOps \in Nat /\ Times \subseteq Int
  /\ IsFiniteSet(OldExperiments)
  /\ \A e \in OldExperiments : /\ Row(e) /\ e.ws \in Workspaces /\ e.ctime \in Times /\ e.located \in BOOLEAN
                              /\ e.id \in 1 .. Cardinality(OldExperiments)
  /\ \A e, f \in OldExperiments : e.id = f.id => e = f
  /\ \A q \in Requests :
       /\ q.op \in {"createExperiment", "cloneExperiment"} => q.arg.located \in BOOLEAN
       /\ q.op = "addMember" => q.arg.role \in Roles
       /\ q.op = "setTag" => q.arg # Nothing

Init ==
  /\ workspaces = Workspaces
  /\ role = OldRoles
  /\ experiments = OldExperiments
  /\ dashboards = {} /\ lastId = Cardinality(OldExperiments)
  /\ req = [p \in Procs |-> Idle] /\ ops = 0
  /\ granted = [p \in Procs |-> {}]
  /\ acked = {} /\ steady = [p \in Procs |-> {}]

-----------------------------------------------------------------------------
(* The middlewares.                                                         *)

Members(ws) == {u \in Users : role[ws][u] # Nothing}

\* requiredRole, for the operations of this module.  A search is a POST here, which
\* takes an editor; the same search by GET, for viewers, is left out.
Required(op) ==
  IF op \in {"createWorkspace", "updateWorkspace", "deleteWorkspace", "addMember", "removeMember"}
  THEN "admin"
  ELSE IF op = "listMembers" THEN "viewer"
  ELSE "editor"

roleAtLeast(actual, op) == Rank[actual] >= Rank[Required(op)]

Goto(p, pc) == req' = [req EXCEPT ![p].pc = pc]

\* A request ends; its goroutine serves another one, or none.
End(p) == req' = [req EXCEPT ![p] = Idle]

Arrive(p) ==
  /\ req[p].pc = "idle" /\ ops < MaxOps
  /\ \E q \in Requests : req' = [req EXCEPT ![p] = [Idle EXCEPT !.pc = "resolve", !.q = q]]
  /\ ops' = ops + 1
  /\ UNCHANGED <<db, acked>>

\* workspaceMiddleware and the head of Export: "default" is not looked up.
ResolveWorkspace(p) ==
  LET q == req[p].q IN
  /\ req[p].pc = "resolve"
  /\ IF q.ws # Default /\ q.ws \notin workspaces THEN End(p)
     ELSE Goto(p, CASE Auth = "none" -> "serve"
                    [] Auth # "none" /\ q.target \notin {Nothing, q.ws} -> "target"
                    [] OTHER -> "open")
  /\ UNCHANGED <<db, ops, acked>>

\* rbacMiddleware, a path that names another workspace: its members decide, if
\* it has any.
ListTargetMembers(p) ==
  /\ req[p].pc = "target"
  /\ Goto(p, IF Members(req[p].q.target) # {} THEN "targetRole" ELSE "open")
  /\ UNCHANGED <<db, ops, acked>>

GetTargetRole(p) ==
  LET q == req[p].q IN
  /\ req[p].pc = "targetRole"
  /\ IF roleAtLeast(role[q.target][q.user], q.op) THEN Goto(p, "serve") ELSE End(p)
  /\ UNCHANGED <<db, ops, acked>>

\* The default workspace without members is open to everybody.
OpenModeAnywhere(p) ==
  /\ req[p].pc = "open"
  /\ Goto(p, IF Members(req[p].q.ws) = {} THEN "serve" ELSE "role")
  /\ UNCHANGED <<db, ops, acked>>

OpenMode(p) ==
  LET ws == req[p].q.ws IN
  /\ req[p].pc = "open"
  /\ Goto(p, IF ws = Default /\ Members(ws) = {} THEN "serve" ELSE "role")
  /\ UNCHANGED <<db, ops, acked>>

GetMemberRole(p) ==
  LET q == req[p].q IN
  /\ req[p].pc = "role"
  /\ IF roleAtLeast(role[q.ws][q.user], q.op) THEN Goto(p, "serve") ELSE End(p)
  /\ UNCHANGED <<db, ops, acked>>

Serving(p, op) == req[p].pc = "serve" /\ req[p].q.op = op

-----------------------------------------------------------------------------
(* Workspaces and members.                                                  *)

\* The new id, or its display name, may be taken; then nothing is inserted.
CreateWorkspace(p) ==
  /\ Serving(p, "createWorkspace")
  /\ workspaces' \in {workspaces, workspaces \cup {req[p].q.arg}}
  /\ End(p)
  /\ UNCHANGED <<role, experiments, dashboards, lastId, ops, acked>>

\* DELETE FROM workspaces with its ON DELETE CASCADE, then the dashboards.
DropWorkspace(ws) ==
  /\ workspaces' = workspaces \ {ws}
  /\ role' = [role EXCEPT ![ws] = [u \in Users |-> Nothing]]
  /\ experiments' = {e \in experiments : e.ws # ws}
  /\ dashboards' = dashboards \ {ws}
  /\ UNCHANGED lastId

\* The check in a query of its own, before the transaction: the request carries
\* what it found.
DeleteUnchecked(p) ==
  LET ws == req[p].q.target IN
  \/ /\ Serving(p, "deleteWorkspace")
     /\ IF ws = Default \/ \E e \in experiments : e.ws = ws THEN End(p) ELSE Goto(p, "drop")
     /\ UNCHANGED <<db, ops, acked>>
  \/ /\ req[p].pc = "drop"
     /\ DropWorkspace(ws)
     /\ End(p)
     /\ UNCHANGED <<ops, acked>>

\* Emptiness is a condition of the DELETE itself.
DeleteWorkspace(p) ==
  LET ws == req[p].q.target IN
  /\ Serving(p, "deleteWorkspace")
  /\ IF ws = Default \/ ws \notin workspaces \/ \E e \in experiments : e.ws = ws
     THEN UNCHANGED db
     ELSE DropWorkspace(ws)
  /\ End(p)
  /\ UNCHANGED <<ops, acked>>

\* GetWorkspace, then the upsert, which the foreign key may refuse.
AddMember(p) ==
  /\ Serving(p, "addMember")
  /\ IF req[p].q.target \in workspaces THEN Goto(p, "upsert") ELSE End(p)
  /\ UNCHANGED <<db, ops, acked>>

UpsertMember(p) ==
  LET q == req[p].q IN
  /\ req[p].pc = "upsert"
  /\ role' = IF q.target \in workspaces
             THEN [role EXCEPT ![q.target][q.arg.user] = q.arg.role] ELSE role
  /\ End(p)
  /\ UNCHANGED <<workspaces, experiments, dashboards, lastId, ops, acked>>

RemoveMember(p) ==
  LET q == req[p].q IN
  /\ Serving(p, "removeMember")
  /\ role' = [role EXCEPT ![q.target][q.arg] = Nothing]
  /\ End(p)
  /\ UNCHANGED <<workspaces, experiments, dashboards, lastId, ops, acked>>

\* The rest of an export writes spans; an update of a workspace, its display name
\* and description; the others read.  Nothing of this is represented here.
ServeElsewhere(p) ==
  /\ \E op \in {"listMembers", "updateWorkspace", "export"} : Serving(p, op)
  /\ End(p)
  /\ UNCHANGED <<db, ops, acked>>

\* SaveDashboard: an upsert into a table without a foreign key.
SaveDashboard(p) ==
  /\ Serving(p, "saveDashboard")
  /\ dashboards' = dashboards \cup {req[p].q.ws}
  /\ End(p)
  /\ UNCHANGED <<workspaces, role, experiments, lastId, ops, acked>>

-----------------------------------------------------------------------------
(* Experiments.                                                             *)

Named(ws, name) == {e \in experiments : e.ws = ws /\ e.name = name}

\* GetExperiment and the workspace test of getExperimentInWorkspace.
Found(p) == {e \in experiments : e.id = req[p].q.exp /\ e.ws = req[p].q.ws}

\* The rows with the one of this id replaced.
Patched(id, e) == {IF f.id = id THEN e ELSE f : f \in experiments}

\* CloneExperiment reads the source, tags included, before it creates the copy.
CloneExperiment(p) ==
  /\ Serving(p, "cloneExperiment")
  /\ IF Found(p) = {} THEN End(p)
     ELSE \E e \in Found(p) : req' = [req EXCEPT ![p].pc = "insert", ![p].tag = e.tag]
  /\ UNCHANGED <<db, ops, acked>>

\* What follows a statement of CreateExperiment: the default location, then the tag,
\* each by id and whatever others wrote meanwhile; then the answer.
Proceed(p, id, tag, step) ==
  IF step = "locate" \/ (step = "tag" /\ tag # Nothing)
  THEN /\ req' = [req EXCEPT ![p].pc = step, ![p].id = id, ![p].tag = tag]
       /\ UNCHANGED acked
  ELSE /\ End(p)
       /\ acked' = acked \cup {[id |-> id, tag |-> tag]}

\* CreateExperiment: the INSERT, refused when the name is taken or the workspace
\* has gone.
InsertExperiment(p) ==
  LET q == req[p].q
      tag == IF q.op = "cloneExperiment" THEN req[p].tag ELSE q.arg.tag IN
  /\ Serving(p, "createExperiment") \/ req[p].pc = "insert"
  /\ IF Named(q.ws, q.arg.name) # {} \/ q.ws \notin workspaces
     THEN End(p) /\ UNCHANGED <<experiments, lastId, acked>>
     ELSE \E t \in Times :
            LET e == [Experiment(lastId + 1, q.ws, q.arg.name, t) EXCEPT !.located = q.arg.located] IN
            /\ experiments' = experiments \cup {e}
            /\ lastId' = lastId + 1
            /\ Proceed(p, e.id, tag, IF q.arg.located THEN "tag" ELSE "locate")
  /\ UNCHANGED <<workspaces, role, dashboards, ops>>

\* The UPDATE does not ask how many rows it found.
SetLocation(p) ==
  LET id == req[p].id IN
  /\ req[p].pc = "locate"
  /\ experiments' = {IF e.id = id THEN [e EXCEPT !.located = TRUE] ELSE e : e \in experiments}
  /\ Proceed(p, id, req[p].tag, "tag")
  /\ UNCHANGED <<workspaces, role, dashboards, lastId, ops>>

\* SetExperimentTag, an upsert under a foreign key.
SetCreationTag(p) ==
  LET id == req[p].id IN
  /\ req[p].pc = "tag"
  /\ \E e \in experiments :
       e.id = id /\ experiments' = Patched(id, [e EXCEPT !.tag = req[p].tag])
  /\ Proceed(p, id, req[p].tag, "answer")
  /\ UNCHANGED <<workspaces, role, dashboards, lastId, ops>>

\* DeleteExperiment, RestoreExperiment, UpdateExperiment and SetExperimentTag find
\* the experiment in the workspace first and then write by id.
Changes == {"setStage", "rename", "setTag"}

FindExperiment(p) ==
  /\ \E op \in Changes : Serving(p, op)
  /\ IF Found(p) = {} THEN End(p) ELSE Goto(p, "apply")
  /\ UNCHANGED <<db, ops, acked>>

ChangeExperiment(p) ==
  LET q == req[p].q IN
  /\ req[p].pc = "apply"
  /\ \E e \in experiments :
       /\ e.id = q.exp
       /\ experiments' = Patched(e.id,
            CASE q.op = "setStage" -> [e EXCEPT !.stage = q.arg]
              [] q.op = "setTag" -> [e EXCEPT !.tag = q.arg]
              [] q.op = "rename" -> IF Named(e.ws, q.arg) = {} THEN [e EXCEPT !.name = q.arg] ELSE e)
  /\ End(p)
  /\ UNCHANGED <<workspaces, role, dashboards, lastId, ops, acked>>

\* The rows of a search with their keys: creation_time DESC, id ASC.
Matching(q) ==
  {[id |-> e.id, key |-> <<0 - e.ctime, e.id>>] :
     e \in {f \in experiments : f.ws = q.ws /\ q.arg \in {"all", f.stage}}}

\* A client that pages to the end.  Every page is one query.
SearchPage(p) ==
  LET left == Rest(Matching(req[p].q), req[p].cursor)
      page == {r.id : r \in First(left, PageSize)}
      token == Token(left, PageSize) IN
  /\ Serving(p, "searchExperiments") \/ req[p].pc = "page"
  /\ req' = [req EXCEPT ![p].pc = IF token = Start THEN "searched" ELSE "page",
                        ![p].cursor = token,
                        ![p].out = req[p].out \cup page,
                        ![p].twice = req[p].twice \cup (req[p].out \cap page)]
  /\ UNCHANGED <<db, ops, acked>>

EndSearch(p) == req[p].pc = "searched" /\ End(p) /\ UNCHANGED <<db, ops, acked>>

\* A store call returns an error, a context that was cancelled included.
Fail(p) ==
  /\ req[p].pc \notin {"idle", "searched"}
  /\ End(p)
  /\ UNCHANGED <<db, ops, acked>>

-----------------------------------------------------------------------------
(* The history, and the specification.                                      *)

Checks == {"resolve", "target", "targetRole", "open", "role"}

\* What the tables grant the caller of q right now.
Grants(q) ==
  (IF \/ q.ws = Default /\ Members(q.ws) = {}
      \/ roleAtLeast(role[q.ws][q.user], q.op) THEN {"own"} ELSE {}) \cup
  (IF q.target # Nothing /\ roleAtLeast(role[q.target][q.user], q.op) THEN {"target"} ELSE {}) \cup
  (IF q.target # Nothing /\ Members(q.target) = {} THEN {"unmanned"} ELSE {})

Observe ==
  /\ granted' = [p \in Procs |->
       CASE req'[p].pc = "idle" -> {}
         [] req'[p].pc \in Checks -> granted[p] \cup Grants(req[p].q)'
         [] OTHER -> granted[p]]
  /\ steady' = [p \in Procs |->
       CASE Serving(p, "searchExperiments")' -> Matching(req[p].q)'
         [] req'[p].pc \in {"page", "searched"} -> steady[p] \cap Matching(req[p].q)'
         [] OTHER -> {}]

Serve(p) ==
  \/ ResolveWorkspace(p) \/ ListTargetMembers(p) \/ GetTargetRole(p) \/ OpenMode(p) \/ GetMemberRole(p)
  \/ CreateWorkspace(p) \/ DeleteWorkspace(p) \/ AddMember(p) \/ UpsertMember(p) \/ RemoveMember(p)
  \/ ServeElsewhere(p) \/ SaveDashboard(p)
  \/ CloneExperiment(p) \/ InsertExperiment(p) \/ SetLocation(p) \/ SetCreationTag(p)
  \/ FindExperiment(p) \/ ChangeExperiment(p) \/ SearchPage(p) \/ EndSearch(p)

Next == (\E p \in Procs : Arrive(p) \/ Serve(p) \/ Fail(p)) /\ Observe

Spec == Init /\ [][Next]_vars

-----------------------------------------------------------------------------
\* What the store answered it did stays done: an experiment whose creation was
\* acknowledged is there, with its artifact location and its tag, also when its
\* workspace was being deleted by another request at the time ("a row created
\* concurrently cannot be cascade-deleted between check and delete").  And no
\* experiment and no membership is left in a workspace that is gone, so a workspace
\* created again under the same id starts without experiments and members (a
\* dashboard saved late may be there: its table has no foreign key).
AckedKept ==
  /\ \A a \in acked : \E e \in experiments :
       e.id = a.id /\ e.located /\ (a.tag # Nothing => e.tag # Nothing)
  /\ \A e \in experiments : e.ws \in workspaces
  /\ \A ws \in Workspaces \ workspaces : Members(ws) = {}

\* A handler runs only for a caller who was entitled at some moment since the
\* request came in: by a role in the workspace the request acts on, by the open
\* default workspace, or, for a workspace that nobody manages yet, by the
\* caller's own.  Nothing learned for an earlier request is used again, so a
\* member who was removed is refused from the next request on.
Authorized ==
  \A p \in Procs :
    Auth # "none" /\ req[p].pc \notin Checks \cup {"idle"} =>
      IF req[p].q.target \in {Nothing, req[p].q.ws} THEN "own" \in granted[p]
      ELSE "target" \in granted[p] \/ {"unmanned", "own"} \subseteq granted[p]

\* A client that follows the page tokens to the end has seen every experiment
\* that matched all along exactly once, whatever was created, deleted, restored
\* or renamed between its pages, and however many share a creation time.
SearchExact ==
  \A p \in Procs :
    /\ req[p].twice = {}
    /\ req[p].pc = "searched" => {r.id : r \in steady[p]} \subseteq req[p].out
=============================================================================
