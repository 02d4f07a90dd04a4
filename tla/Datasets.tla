------------------------------ MODULE Datasets ------------------------------
(***************************************************************************)
(* Versioned datasets: the content-addressed store internal/datasets/cas.go,*)
(* internal/store/sqlite_datasets_v2.go, the dataset inputs of runs in     *)
(* internal/store/sqlite.go, and the handlers in internal/api/native/      *)
(* datasets.go and internal/api/mlflow/handlers.go.                        *)
(*                                                                         *)
(* An upload stores the bytes first, file operation by file operation, and *)
(* then inserts the version.  Both writers of datasets_v2 read before they *)
(* write, so their transactions are two steps, the second of which fails   *)
(* when anybody has committed in between.  Rows of datasets_v2 are never   *)
(* deleted; the collection of unreferenced contents is an operator's job   *)
(* with the server stopped.  A dataset is <<workspace, name>>; a content   *)
(* stands for its SHA-256.                                                 *)
(***************************************************************************)
EXTENDS Naturals, Sequences, FiniteSets, SequencesExt, FiniteSetsExt

CONSTANTS
  Requests,     \* the calls clients may make, see Ops
  Procs,        \* request goroutines
  Walkers,      \* clients that ask for the lineage of a version
  OldRows,      \* datasets_v2 of a server with some history,
  OldEdges,     \*   its lineage
  OldInputs,    \*   and its v0.3 inputs
  LegacyWrites, \* LITEMLFLOW_ENABLE_DATASETS_V03_WRITES
  MaxAttempts,  \* of retryWriteRace and of LogInputs
  MaxNodes,     \* maxLineageNodes
  MaxOps        \* bound: requests issued in a behaviour

Ops == {"upload", "delete", "logInputs"}

ASSUME DatasetsConstants ==
  /\ \A q \in Requests : q.op \in Ops
  /\ \A e \in OldEdges : e[2] < e[1] /\ e[1] <= Len(OldRows)
  /\ LegacyWrites \in BOOLEAN
  /\ MaxAttempts \in Nat \ {0} /\ MaxNodes \in Nat /\ MaxOps \in Nat

Contents == {q.content : q \in {r \in Requests : r.op = "upload"}}

VARIABLES
  blobs,   \* the CAS: what the file named after each content holds
  temps,   \* the temporary files: <<name, whether it is complete>>
  rows,    \* datasets_v2 in the order of id
  edges,   \* dataset_lineage: <<child id, parent id>>
  links,   \* dataset_inputs_v2: <<run, dataset id>> in the order of id
  legacy,  \* dataset_inputs, the v0.3 table
  req,     \* the request each goroutine is serving
  fresh,   \* the goroutines whose read snapshot is still the newest
  walk,    \* the lineage each walker is collecting
  acks,    \* history: uploads answered with success, as <<id, content>>
  logged,  \* history: the inputs logged by calls that committed
  ops      \* requests issued so far

files == <<blobs, temps>>
tables == <<rows, edges, links, legacy, fresh>>
vars == <<blobs, temps, rows, edges, links, legacy, req, fresh, walk, acks, logged, ops>>

Idle == [pc |-> "idle", call |-> [op |-> "none"], temp |-> 0, snap |-> 0, tries |-> 0]
NoWalk == [pc |-> "idle", id |-> 0, todo |-> <<>>, next |-> <<>>, visited |-> {},
           anc |-> <<>>, desc |-> <<>>, before |-> {}]

Init ==
  /\ blobs = [c \in Contents |-> IF \E i \in DOMAIN OldRows : OldRows[i].hash = c THEN "whole" ELSE "none"]
  /\ temps = {}
  /\ rows = OldRows /\ edges = OldEdges /\ links = <<>> /\ legacy = OldInputs
  /\ req = [p \in Procs |-> Idle]
  /\ fresh = {}
  /\ walk = [w \in Walkers |-> NoWalk]
  /\ acks = {} /\ logged = OldInputs /\ ops = 0

Ids == DOMAIN rows
VersionsOf(ds) == {i \in Ids : rows[i].ds = ds}

\* A goroutine takes up a request.
Arrive(p, q, op, pc) ==
  /\ req[p].pc = "idle"
  /\ ops < MaxOps
  /\ q.op = op
  /\ ops' = ops + 1
  /\ req' = [req EXCEPT ![p] = [Idle EXCEPT !.call = q, !.temp = ops + 1, !.pc = pc]]
  /\ UNCHANGED <<walk, acks, logged>> /\ UNCHANGED files /\ UNCHANGED tables

\* The handlers: an upload goes through CAS.Put before any row is written, a
\* deletion is one statement, and inputs are logged for a run that is there.
CreateDatasetVersion(p, q) == Arrive(p, q, "upload", "create")
DeleteDatasetVersion(p, q) == Arrive(p, q, "delete", "exec")
HandleLogInputs(p, q) == Arrive(p, q, "logInputs", "snapshot")

At(p, op, pc) == req[p].call.op = op /\ req[p].pc = pc
Goto(p, pc) == req' = [req EXCEPT ![p].pc = pc]
Done(p) == req' = [req EXCEPT ![p] = Idle]

-----------------------------------------------------------------------------
(* CAS.Put.                                                                 *)

Content(p) == req[p].call.content
Temp(p) == {t \in temps : t[1] = req[p].temp}
Rest == UNCHANGED <<walk, acks, logged, ops>> /\ UNCHANGED tables

\* os.CreateTemp: a file of its own.
CreateTemp(p) ==
  /\ At(p, "upload", "create")
  /\ temps' = temps \cup {<<req[p].temp, FALSE>>}
  /\ Goto(p, "copy")
  /\ Rest /\ UNCHANGED blobs

\* io.Copy through the hash, and Close; an error removes the file.
CopyTemp(p) ==
  /\ At(p, "upload", "copy")
  /\ \/ Goto(p, "stat") /\ temps' = (temps \ Temp(p)) \cup {<<req[p].temp, TRUE>>}
     \/ Done(p) /\ temps' = temps \ Temp(p)
  /\ Rest /\ UNCHANGED blobs

\* The content is there already: keep that file and drop this one.
StatFinal(p) ==
  /\ At(p, "upload", "stat")
  /\ IF blobs[Content(p)] # "none"
     THEN temps' = temps \ Temp(p) /\ Goto(p, "snapshot")
     ELSE UNCHANGED temps /\ Goto(p, "rename")
  /\ Rest /\ UNCHANGED blobs

\* The rename replaces what another upload of the content may have put there
\* since, with the same bytes.  An error is a success if the file is there, and
\* removes the temporary file in both cases.
RenameFinal(p) ==
  /\ At(p, "upload", "rename")
  /\ temps' = temps \ Temp(p)
  /\ \/ /\ blobs' = [blobs EXCEPT ![Content(p)] = IF \E t \in Temp(p) : t[2] THEN "whole" ELSE "torn"]
        /\ Goto(p, "snapshot")
     \/ /\ UNCHANGED blobs
        /\ IF blobs[Content(p)] # "none" THEN Goto(p, "snapshot") ELSE Done(p)
  /\ Rest

-----------------------------------------------------------------------------
(* The transactions that add versions.  One attempt is a snapshot, which    *)
(* here is how many rows there were, and the inserts that rely on it.       *)

Seen(p) == SubSeq(rows, 1, req[p].snap)

Snapshot(p) ==
  /\ req' = [req EXCEPT ![p].pc = "insert", ![p].snap = Len(rows)]
  /\ fresh' = fresh \cup {p}
  /\ UNCHANGED <<rows, edges, links, legacy, walk, acks, logged, ops>> /\ UNCHANGED files

\* A newer commit or a busy database: back off and start the transaction again.
Race(p) ==
  /\ req' = [req EXCEPT ![p] = IF @.tries + 1 = MaxAttempts THEN Idle
                               ELSE [@ EXCEPT !.pc = "snapshot", !.tries = @ + 1]]
  /\ fresh' = fresh \ {p}
  /\ UNCHANGED <<rows, edges, links, legacy, walk, acks, logged, ops>> /\ UNCHANGED files

\* MAX(version) + 1 in the table R.
NextVersion(R, ds) == Max({0} \cup {row.v : row \in {x \in ToSet(R) : x.ds = ds}}) + 1

\* CreateDatasetVersion: the parents are looked up first.
Parents(p) == req[p].call.parents

SelectVersion(p) ==
  /\ At(p, "upload", "snapshot")
  /\ IF \A i \in Parents(p) : i \in Ids /\ rows[i].ds[1] = req[p].call.ds[1]
     THEN Snapshot(p)
     ELSE Done(p) /\ UNCHANGED <<walk, acks, logged, ops>> /\ UNCHANGED files /\ UNCHANGED tables

\* The version is computed in a transaction of its own.
InsertStale(p) ==
  LET id == Len(rows) + 1
      ds == req[p].call.ds
  IN /\ At(p, "upload", "insert")
     /\ rows' = Append(rows, [ds |-> ds, v |-> NextVersion(Seen(p), ds), hash |-> Content(p),
                              active |-> TRUE, mirrored |-> FALSE])
     /\ edges' = edges \cup {<<id, i>> : i \in Parents(p)}
     /\ fresh' = {}
     /\ acks' = acks \cup {<<id, Content(p)>>}
     /\ Done(p)
     /\ UNCHANGED <<links, legacy, walk, logged, ops>> /\ UNCHANGED files

InsertVersion(p) ==
  LET id == Len(rows) + 1
      ds == req[p].call.ds
  IN /\ At(p, "upload", "insert")
     /\ \/ /\ p \in fresh
           /\ rows' = Append(rows, [ds |-> ds, v |-> NextVersion(Seen(p), ds), hash |-> Content(p),
                                    active |-> TRUE, mirrored |-> FALSE])
           /\ edges' = edges \cup {<<id, i>> : i \in Parents(p)}
           /\ fresh' = {}
           /\ acks' = acks \cup {<<id, Content(p)>>}
           /\ Done(p)
           /\ UNCHANGED <<links, legacy, walk, logged, ops>> /\ UNCHANGED files
        \/ Race(p)

\* SoftDeleteDatasetVersion: the row stays, and so does the content.
SoftDelete(p) ==
  LET hit == {i \in VersionsOf(req[p].call.ds) : rows[i].v = req[p].call.v}
  IN /\ At(p, "delete", "exec")
     /\ rows' = [i \in Ids |-> IF i \in hit THEN [rows[i] EXCEPT !.active = FALSE] ELSE rows[i]]
     /\ fresh' = IF hit = {} THEN fresh ELSE {}
     /\ Done(p)
     /\ UNCHANGED <<edges, links, legacy, walk, acks, logged, ops>> /\ UNCHANGED files

-----------------------------------------------------------------------------
(* LogInputs.  A run is <<workspace, id>>, an input <<name, digest>>.       *)

\* logInputsOnce begins with reads: the workspace of the run, and whether the
\* first dataset has a row with its digest.
LogSnapshot(p) == At(p, "logInputs", "snapshot") /\ Snapshot(p)

\* The ids in table R of the rows of ds with this digest.
Known(R, ds, hash) == {i \in DOMAIN R : R[i].ds = ds /\ R[i].hash = hash}

Mirrored(R, ds, hash) ==
  [ds |-> ds, v |-> NextVersion(R, ds), hash |-> hash, active |-> TRUE, mirrored |-> TRUE]

\* One round of the loop of logInputsOnce, with the tables t its transaction sees:
\* mirrorIntoDatasetsV2Returning finds a row with this digest, any one of them, or
\* inserts a version for it, and the run is linked to that row.
LogInput(run, t, inp) ==
  LET ds == <<run[1], inp[1]>>
      known == Known(t.rows, ds, inp[2])
  IN IF known = {}
     THEN {[rows |-> Append(t.rows, Mirrored(t.rows, ds, inp[2])),
            links |-> Append(t.links, <<run, Len(t.rows) + 1>>)]}
     ELSE {[t EXCEPT !.links = Append(@, <<run, i>>)] : i \in known}

\* The tables the whole loop may leave; later rounds see the rows of earlier ones.
LogAll(run, inputs) ==
  FoldLeft(LAMBDA ts, inp : UNION {LogInput(run, t, inp) : t \in ts},
           {[rows |-> rows, links |-> links]}, inputs)

LogInputs(p) ==
  LET run == req[p].call.run
      inputs == req[p].call.inputs
      new == [k \in DOMAIN inputs |-> <<run, inputs[k]>>]
  IN /\ At(p, "logInputs", "insert")
     /\ \/ /\ p \in fresh
           /\ \E t \in LogAll(run, inputs) : rows' = t.rows /\ links' = t.links
           /\ legacy' = IF LegacyWrites THEN legacy \o new ELSE legacy
           /\ logged' = logged \o new
           /\ fresh' = {}
           /\ Done(p)
           /\ UNCHANGED <<edges, walk, acks, ops>> /\ UNCHANGED files
        \/ Race(p)

\* GetRunDatasets: the linked rows, then the legacy inputs not among them, in one
\* snapshot.
Linked(run) ==
  LET mine == SelectSeq(links, LAMBDA l : l[1] = run)
  IN [k \in DOMAIN mine |-> <<run, <<rows[mine[k][2]].ds[2], rows[mine[k][2]].hash>>>>]

\* Returns what both tables have.
RunDatasetsTwice(run) == Linked(run) \o SelectSeq(legacy, LAMBDA l : l[1] = run)

GetRunDatasets(run) ==
  Linked(run) \o SelectSeq(legacy, LAMBDA l : l[1] = run /\ l \notin ToSet(Linked(run)))

\* The inputs of a run in its lineage, as <<name, digest, dataset id>>: the linked
\* rows of its workspace, then each legacy input that is not among them, joined
\* with every version of its name and digest.
RunDatasetEdges(run) ==
  LET edge(i) == <<rows[i].ds[2], rows[i].hash, i>>
      mine == SelectSeq(links, LAMBDA l : l[1] = run /\ rows[l[2]].ds[1] = run[1])
      new == [k \in DOMAIN mine |-> edge(mine[k][2])]
      old == SelectSeq(legacy, LAMBDA l : l[1] = run /\ ~\E e \in ToSet(new) : <<e[1], e[2]>> = l[2])
      join(inp) == LET hits == Known(rows, <<run[1], inp[1]>>, inp[2])
                   IN IF hits = {} THEN << <<inp[1], inp[2], 0>> >> ELSE SetToSeq({edge(i) : i \in hits})
  IN new \o FlattenSeq([k \in DOMAIN old |-> join(old[k][2])])

-----------------------------------------------------------------------------
(* Reads of versions, contents and lineage.                                 *)

\* The latest active version of each name.
ListDatasets(ws) ==
  LET active(ds) == {i \in VersionsOf(ds) : rows[i].active}
  IN {i \in Ids : /\ rows[i].ds[1] = ws /\ active(rows[i].ds) # {}
                  /\ rows[i].v = Max({rows[j].v : j \in active(rows[i].ds)})}

\* The row, then the bytes of its hash.
GetDatasetContent(i) == blobs[rows[i].hash]

ParentsOf(i) == {e[2] : e \in {f \in edges : f[1] = i}}
ChildrenOf(i) == {e[1] : e \in {f \in edges : f[2] = i}}

\* Everything that is reachable, with which the walks are compared.
AncestorsOf(i) ==
  LET up[n \in 0 .. Len(rows)] == IF n = 0 THEN ParentsOf(i)
                                  ELSE up[n - 1] \cup UNION {ParentsOf(j) : j \in up[n - 1]}
  IN up[Len(rows)]
DescendantsOf(i) == {j \in Ids : i \in AncestorsOf(j)}

NoTable == UNCHANGED <<req, acks, logged, ops>> /\ UNCHANGED files /\ UNCHANGED tables

GetDatasetLineage(w) ==
  /\ walk[w].pc = "idle"
  /\ \E i \in Ids :
       walk' = [walk EXCEPT ![w] =
         [NoWalk EXCEPT !.pc = "up", !.id = i, !.visited = {i}, !.before = DescendantsOf(i),
                        !.todo = SetToSeq(ParentsOf(i))]]
  /\ NoTable

\* Only looks at the cap between levels.
WalkUpByLevel(w) ==
  LET x == walk[w]
  IN /\ x.pc = "up"
     /\ walk' = [walk EXCEPT ![w] =
          IF x.todo = <<>>
          THEN IF x.next = <<>> \/ Len(x.anc) >= MaxNodes
               THEN [x EXCEPT !.pc = "down", !.todo = <<x.id>>, !.next = <<>>]
               ELSE [x EXCEPT !.todo = x.next, !.next = <<>>]
          ELSE IF Head(x.todo) \in x.visited THEN [x EXCEPT !.todo = Tail(@)]
          ELSE [x EXCEPT !.todo = Tail(@), !.visited = @ \cup {Head(x.todo)},
                         !.anc = Append(@, Head(x.todo)),
                         !.next = @ \o SetToSeq(ParentsOf(Head(x.todo)))]]
     /\ NoTable

\* One node of the frontier of ancestors.
WalkUp(w) ==
  LET x == walk[w]
  IN /\ x.pc = "up"
     /\ walk' = [walk EXCEPT ![w] =
          IF (x.todo = <<>> /\ x.next = <<>>) \/ (x.todo # <<>> /\ Len(x.anc) >= MaxNodes)
          THEN [x EXCEPT !.pc = "down", !.todo = <<x.id>>, !.next = <<>>]
          ELSE IF x.todo = <<>> THEN [x EXCEPT !.todo = x.next, !.next = <<>>]
          ELSE IF Head(x.todo) \in x.visited THEN [x EXCEPT !.todo = Tail(@)]
          ELSE [x EXCEPT !.todo = Tail(@), !.visited = @ \cup {Head(x.todo)},
                         !.anc = Append(@, Head(x.todo)),
                         !.next = @ \o SetToSeq(ParentsOf(Head(x.todo)))]]
     /\ NoTable

\* One node of the frontier of descendants: its children, as far as the cap allows.
WalkDown(w) ==
  LET x == walk[w]
      children == SetToSeq(ChildrenOf(Head(x.todo)) \ x.visited)
      new == SubSeq(children, 1, Min({Len(children), MaxNodes - Len(x.desc)}))
  IN /\ x.pc = "down"
     /\ walk' = [walk EXCEPT ![w] =
          IF (x.todo = <<>> /\ x.next = <<>>) \/ (x.todo # <<>> /\ Len(x.desc) >= MaxNodes)
          THEN [x EXCEPT !.pc = "done", !.todo = <<>>, !.next = <<>>]
          ELSE IF x.todo = <<>> THEN [x EXCEPT !.todo = x.next, !.next = <<>>]
          ELSE [x EXCEPT !.todo = Tail(@), !.visited = @ \cup ToSet(new),
                         !.desc = @ \o new, !.next = @ \o new]]
     /\ NoTable

-----------------------------------------------------------------------------
(* Errors, restarts, and the operator.                                      *)

\* The client goes away while its transaction is open or waits to try again.
Cancel(p) ==
  /\ req[p].pc \in {"snapshot", "insert"}
  /\ Done(p)
  /\ fresh' = fresh \ {p}
  /\ UNCHANGED <<rows, edges, links, legacy, walk, acks, logged, ops>> /\ UNCHANGED files

\* The process stops; the temporary files stay.
Crash ==
  /\ req' = [p \in Procs |-> Idle]
  /\ walk' = [w \in Walkers |-> IF walk[w].pc = "done" THEN walk[w] ELSE NoWalk]
  /\ fresh' = {}
  /\ UNCHANGED <<temps, blobs, rows, edges, links, legacy, acks, logged, ops>>

\* Removes what no version refers to, while the server is up.
CollectOnline(c) ==
  /\ blobs[c] # "none"
  /\ ~\E i \in Ids : rows[i].active /\ rows[i].hash = c
  /\ blobs' = [blobs EXCEPT ![c] = "none"]
  /\ UNCHANGED <<temps, req, walk, acks, logged, ops>> /\ UNCHANGED tables

\* The offline pass an operator makes: DatasetHashStillReferenced ("a helper for offline
\* GC"), then CAS.Delete.
Collect(c) ==
  /\ \A p \in Procs : req[p].pc = "idle"
  /\ blobs[c] # "none"
  /\ ~\E i \in Ids : rows[i].active /\ rows[i].hash = c
  /\ blobs' = [blobs EXCEPT ![c] = "none"]
  /\ UNCHANGED <<temps, req, walk, acks, logged, ops>> /\ UNCHANGED tables

-----------------------------------------------------------------------------
Step(p) ==
  \/ CreateTemp(p) \/ CopyTemp(p) \/ StatFinal(p) \/ RenameFinal(p)
  \/ SelectVersion(p) \/ InsertVersion(p) \/ SoftDelete(p)
  \/ LogSnapshot(p) \/ LogInputs(p)

Walk(w) == WalkUp(w) \/ WalkDown(w)

Next ==
  \/ \E p \in Procs, q \in Requests :
       CreateDatasetVersion(p, q) \/ DeleteDatasetVersion(p, q) \/ HandleLogInputs(p, q)
  \/ \E p \in Procs : Step(p) \/ Cancel(p)
  \/ \E w \in Walkers : GetDatasetLineage(w) \/ Walk(w)
  \/ \E c \in Contents : Collect(c)
  \/ Crash

Spec == Init /\ [][Next]_vars

-----------------------------------------------------------------------------
\* A file under the name of a hash has the content of that hash, whatever uploads
\* overlap, fail or are cut off ("the bytes are by definition equal"); and a version
\* whose upload was acknowledged and that is not deleted can be downloaded, whatever
\* other uploads of the same content, deletions and offline collections there have been.
AckedReadable ==
  /\ \A c \in Contents : blobs[c] # "torn"
  /\ \A a \in acks : rows[a[1]].active => GetDatasetContent(a[1]) = "whole"

\* Uploads and logged inputs that race for the next version of one dataset
\* leave no gap and no duplicate, and so the list has one row per dataset; runs
\* that log one dataset at the same time share its row.
VersionsDense ==
  /\ \A ds \in {rows[i].ds : i \in Ids} :
       /\ {rows[i].v : i \in VersionsOf(ds)} = 1 .. Cardinality(VersionsOf(ds))
       /\ Cardinality(VersionsOf(ds) \cap ListDatasets(ds[1])) <= 1
  /\ \A i, j \in Ids : (rows[i].mirrored /\ rows[j].mirrored /\ rows[i].ds = rows[j].ds
                        /\ rows[i].hash = rows[j].hash) => i = j

\* A run shows every input logged for it, in whichever table, and none more
\* often than it was logged; its lineage has an edge for each of them, and those
\* that are linked as often as they were logged.
InputsReturned ==
  \A x \in ToSet(logged) \cup UNION {ToSet(GetRunDatasets(l[1])) : l \in ToSet(logged)} :
    LET count(s) == Len(SelectSeq(s, LAMBDA y : y = x))
        run == x[1]
        shown == Len(SelectSeq(RunDatasetEdges(run), LAMBDA e : <<e[1], e[2]>> = x[2]))
    IN /\ 1 <= count(GetRunDatasets(run)) /\ count(GetRunDatasets(run)) <= count(logged)
       /\ 1 <= shown
       /\ x \in ToSet(Linked(run)) => shown = count(Linked(run))

\* Lineage has no cycles, and a walk that ran beside other uploads lists every
\* ancestor, and every descendant there was when it began, once, unless there
\* are more than the cap allows, which it never exceeds.
LineageExact ==
  /\ \A e \in edges : e[2] < e[1]
  /\ \A w \in Walkers :
       LET x == walk[w]
           exact(s, must, may) == /\ IsInjective(s) /\ Len(s) <= MaxNodes /\ ToSet(s) \subseteq may
                                  /\ Cardinality(may) <= MaxNodes => must \subseteq ToSet(s)
       IN x.pc = "done" => /\ exact(x.anc, AncestorsOf(x.id), AncestorsOf(x.id))
                           /\ exact(x.desc, x.before, DescendantsOf(x.id))
=============================================================================
