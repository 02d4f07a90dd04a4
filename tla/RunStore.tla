------------------------------ MODULE RunStore ------------------------------
(***************************************************************************)
(* The run store of LiteMLflow with its time-travel event log:            *)
(* internal/store/sqlite.go, sqlite_lineage.go and sqlite_events.go, as    *)
(* the request goroutines, the janitor and the ?as_of= readers drive them. *)
(*                                                                         *)
(* Every mutator has the shape the code calls "write-first": it reads the  *)
(* pre-values of what it is about to change on the connection pool,        *)
(* outside any transaction, and only then opens the transaction in which   *)
(* the rows and their event rows are written.  The pre-reads, the moment   *)
(* the transaction takes SQLite's single write lock, and the commit are    *)
(* separate steps here, so that other goroutines run in between.  The      *)
(* statements inside a transaction are one step: nobody sees them before   *)
(* the commit.  The time stamps of its event rows are not: time.Now() is   *)
(* called for each row, anywhere between the lock and the commit.          *)
(***************************************************************************)
EXTENDS Integers, Sequences, FiniteSets

CONSTANTS
  Runs,         \* run ids the server may hand out
  Keys,         \* ordinary tag keys
  Vals,         \* ordinary tag values
  OldRuns,      \* the runs created before the behaviour starts
  Lifecycles,   \* SetRunLifecycle requests: stages (DeleteRun, RestoreRun)
  Deletes,      \* DeleteTag requests: keys
  Updates,      \* UpdateRun requests: functions from some of status, end, name
  Batches,      \* SetTag, SetTags and CreateRun tag lists: sequences of <<key, value>>
  ClientStarts, \* start_time values a client may send with CreateRun
  Writers,      \* request goroutines
  Readers,      \* goroutines serving ?as_of= reads
  Janitor,      \* the janitor goroutine
  NoRun,        \* the empty run id, and the empty tag value
  NoProc,       \* nobody holds the write lock
  NoRow,        \* no row in runs; the nil of captureRunBefore
  Absent,       \* no row in tags; the false of readTagValue
  StaleAfter,   \* age at which the janitor archives a RUNNING run
  Retention,    \* age at which it prunes events; 0 disables pruning
  MaxEventsPerReplay,
  MaxInFlight,  \* how many mutating requests, the janitor's included, are served at once
  MaxOps,       \* bound: mutating requests issued in a behaviour
  MaxClock      \* bound: last value of the wall clock

ParentKey == "mlflow.parentRunId"
ArchivedKey == "lmf.auto_archived"
Stale == "stale"
AllKeys == Keys \cup {ParentKey, ArchivedKey}
TagVals == Vals \cup Runs \cup {NoRun, Stale}
Procs == Writers \cup {Janitor}

Statuses == {"RUNNING", "SCHEDULED", "FINISHED", "FAILED", "KILLED"}
Stages == {"active", "deleted"}
Names == {"", "a", "b"}
Ends == -1 .. MaxClock          \* -1 is the NULL end_time

\* The columns of a run that an operation of this module writes or tests.
Row == [status : Statuses, end : Ends, name : Names, stage : Stages,
        parent : Runs \cup {NoRun}, start : 0 .. MaxClock]

\* Tags as requests carry them.  A parent tag names a run or is empty; the name
\* of a run that does not exist stands for any unknown id.
Pairs == {kv \in AllKeys \X TagVals : kv[1] = ParentKey => kv[2] \in Runs \cup {NoRun}}

\* The second conjunct follows from the first; the proofs use it as it stands.
ASSUME ConstantTypes ==
  /\ IsFiniteSet(Runs)
  /\ \A S \in SUBSET Runs : Cardinality(S) \in Nat
  /\ OldRuns \subseteq Runs
  /\ StaleAfter \in Nat /\ Retention \in Nat /\ MaxEventsPerReplay \in Nat
  /\ MaxInFlight \in Nat /\ MaxOps \in Nat /\ MaxClock \in Nat \ {0}
  /\ ClientStarts \subseteq 0 .. MaxClock
  /\ Lifecycles \subseteq Stages /\ Deletes \subseteq AllKeys
  /\ Batches \subseteq Seq(Pairs)
  /\ \A u \in Updates : /\ DOMAIN u \subseteq {"status", "end", "name"}
                        /\ "status" \in DOMAIN u => u.status \in Statuses
                        /\ "end" \in DOMAIN u => u.end \in Ends
                        /\ "name" \in DOMAIN u => u.name \in Names
ASSUME FiniteWriters == IsFiniteSet(Writers)
ASSUME ConstantsDistinct ==
  /\ NoRow \notin Row /\ Absent \notin TagVals /\ "row" \notin AllKeys
  /\ NoRun \notin Runs /\ NoProc \notin Procs /\ Janitor \notin Writers

VARIABLES
  row,      \* table runs
  tags,     \* table tags
  events,   \* table events: rows with their AUTOINCREMENT id and ts_ms
  nextId,   \* the next AUTOINCREMENT value
  lock,     \* holder of SQLite's write lock
  req,      \* the mutating request each goroutine is serving
  rd,       \* the as-of read each reader is serving, or its last answer
  clock,    \* wall clock, in ms; time.Now() never goes back here
  ops,      \* mutating requests issued so far
  past,     \* history: past[t] is what was committed when millisecond t ended
  log,      \* history: every event row ever committed
  horizon   \* history: the largest cutoff PruneEventsBefore has run with

db == <<row, tags, events, nextId>>
hist == <<past, log, horizon>>
vars == <<row, tags, events, nextId, lock, req, rd, clock, ops, past, log, horizon>>

\* What the pre-reads of a request have found so far.  A cell not read yet, or
\* not there when it was read, is NoRow or Absent: nil and false in the code.
NothingRead == [row |-> [r \in Runs |-> NoRow],
                tags |-> [r \in Runs |-> [k \in AllKeys |-> Absent]]]

IdleReq == [pc |-> "idle", op |-> "none", run |-> NoRun, arg |-> {}, want |-> {},
            got |-> NothingRead, t0 |-> 0, rest |-> <<>>]
IdleRead == [pc |-> "idle", run |-> NoRun, asOf |-> 0, began |-> 0, row |-> NoRow,
             newer |-> {}, tags |-> [k \in AllKeys |-> Absent]]

Request(op, r, arg, want, rest) ==
  [pc |-> "read", op |-> op, run |-> r, arg |-> arg, want |-> want,
   got |-> NothingRead, t0 |-> 0, rest |-> rest]

\* The row CreateRun inserts before it knows of a parent.
NewRow(start) == [status |-> "RUNNING", end |-> -1, name |-> "", stage |-> "active",
                  parent |-> NoRun, start |-> start]

Init ==
  /\ row = [r \in Runs |-> IF r \in OldRuns THEN NewRow(0) ELSE NoRow]
  /\ tags = [r \in Runs |-> [k \in AllKeys |-> Absent]]
  /\ events = {} /\ nextId = 1 /\ lock = NoProc
  /\ req = [p \in Procs |-> IdleReq]
  /\ rd = [p \in Readers |-> IdleRead]
  /\ clock = 1 /\ ops = 0
  /\ past = <<>> /\ log = {} /\ horizon = 0

Exists(r) == row[r] # NoRow

-----------------------------------------------------------------------------
(* The wall clock.  At each tick the committed state enters the history; a  *)
(* millisecond is quiet when no transaction was open as it ended, so that   *)
(* no event row carries its stamp and commits later.                        *)

Tick ==
  /\ clock < MaxClock
  /\ clock' = clock + 1
  /\ past' = Append(past, [row |-> row, tags |-> tags, quiet |-> lock = NoProc])
  /\ UNCHANGED <<db, lock, req, rd, ops, log, horizon>>

-----------------------------------------------------------------------------
(* Requests arriving.  A mutating handler first resolves the run in the     *)
(* workspace (ensureRunInWorkspace, assertRunExists), so the run exists;    *)
(* rows of runs are never deleted, so it still does when they write.        *)

InFlight == {p \in Procs : req[p].pc # "idle"}

Arrive(p, q) ==
  /\ req[p].pc = "idle"
  /\ Cardinality(InFlight) < MaxInFlight
  /\ ops < MaxOps
  /\ ops' = ops + 1
  /\ req' = [req EXCEPT ![p] = q]
  /\ UNCHANGED <<db, lock, rd, clock, hist>>

RowCell(r) == [run |-> r, key |-> "row"]
TagCell(r, k) == [run |-> r, key |-> k]

\* SetTag is the batch of length one.
SetRequest(r, batch, rest) ==
  Request("set", r, batch, {TagCell(r, batch[i][1]) : i \in 1 .. Len(batch)}, rest)

\* handlers.go CreateRun: the first mlflow.parentRunId tag becomes ParentRunID,
\* and after store.CreateRun each tag is set by a SetTag call of its own.
FirstParent(batch) ==
  LET at == {i \in 1 .. Len(batch) : batch[i][1] = ParentKey}
  IN IF at = {} THEN NoRun ELSE batch[CHOOSE i \in at : \A j \in at : i <= j][2]

CreateRunArrives(p, r, start, batch) ==
  /\ ~Exists(r)                 \* NewRunID: an id nobody has or is inserting
  /\ \A w \in Procs : ~(req[w].op = "create" /\ req[w].run = r)
  /\ Arrive(p, Request("create", r, [start |-> start, parent |-> FirstParent(batch)], {}, batch))

UpdateRunArrives(p, r, u) ==
  /\ Exists(r)
  /\ DOMAIN u # {}              \* nothing to set: UpdateRun returns at once
  /\ Arrive(p, Request("update", r, u, {RowCell(r)}, <<>>))

SetRunLifecycleArrives(p, r, stage) ==
  /\ Exists(r)
  /\ Arrive(p, Request("lifecycle", r, stage, {RowCell(r)}, <<>>))

SetTagsArrives(p, r, batch) ==
  /\ Exists(r)
  /\ Arrive(p, SetRequest(r, batch, <<>>))

DeleteTagArrives(p, r, k) ==
  /\ Exists(r)
  /\ Arrive(p, Request("delete", r, k, {TagCell(r, k)}, <<>>))

\* janitor.go: one tick archives stale runs and then prunes; ArchiveStaleRuns
\* starts by selecting the stale ids and returns at once when there are none.
StaleRuns(staleBefore) ==
  {r \in Runs : /\ Exists(r)
                /\ row[r].status = "RUNNING" /\ row[r].stage = "active"
                /\ row[r].start < staleBefore}

PruneRequest(tick) == [pc |-> "prune", op |-> "prune", run |-> NoRun, arg |-> tick, want |-> {},
                       got |-> NothingRead, t0 |-> 0, rest |-> <<>>]
AfterArchive(tick) == IF Retention > 0 THEN PruneRequest(tick) ELSE IdleReq

JanitorTick ==
  LET ids == StaleRuns(clock - StaleAfter)
      cells == UNION {{RowCell(r), TagCell(r, ArchivedKey)} : r \in ids}
      archive == Request("archive", NoRun, [ids |-> ids, now |-> clock], cells, <<>>)
  IN /\ req[Janitor].pc = "idle"
     /\ Cardinality(InFlight) < MaxInFlight
     /\ req' = [req EXCEPT ![Janitor] = IF ids = {} THEN AfterArchive(clock) ELSE archive]
     /\ UNCHANGED <<db, lock, rd, clock, ops, hist>>

-----------------------------------------------------------------------------
(* The common steps of a mutator.                                           *)

\* captureRunBefore(s.db) or readTagValue(s.db): one cell, read by itself.  The read
\* succeeds; a request whose context ends here fails as a whole (Fail).
PreRead(p) ==
  /\ req[p].pc = "read"
  /\ \E c \in req[p].want :
       req' = [req EXCEPT
         ![p].want = @ \ {c},
         ![p].got = IF c.key = "row" THEN [@ EXCEPT !.row[c.run] = row[c.run]]
                                     ELSE [@ EXCEPT !.tags[c.run][c.key] = tags[c.run][c.key]]]
  /\ UNCHANGED <<db, lock, rd, clock, ops, hist>>

\* BeginTx, and the first statement of the transaction, a write.
BeginTx(p) ==
  /\ req[p].pc = "read" /\ req[p].want = {}
  /\ lock = NoProc
  /\ lock' = p
  /\ req' = [req EXCEPT ![p].pc = "txn", ![p].t0 = clock]
  /\ UNCHANGED <<db, rd, clock, ops, hist>>

\* What the goroutine does next.  CreateRun goes on to its SetTag calls when the
\* insert worked, and from one SetTag to the next whether it worked or not.
After(p, ok) ==
  LET q == req[p]
  IN IF p = Janitor
     THEN IF q.op = "archive" THEN AfterArchive(q.arg.now) ELSE IdleReq
     ELSE IF q.rest # <<>> /\ (ok \/ q.op # "create")
          THEN SetRequest(q.run, <<Head(q.rest)>>, Tail(q.rest))
          ELSE IdleReq

\* Any error return: a busy timeout or a cancelled request before or inside the
\* transaction, ErrNotFound, a foreign key or unique violation.  The deferred
\* Rollback releases the lock and nothing was written.
FailKeepsLock(p) ==      \* mutant: an error return without the Rollback
  /\ req[p].pc # "idle"
  /\ req' = [req EXCEPT ![p] = After(p, FALSE)]
  /\ UNCHANGED <<db, lock, rd, clock, ops, hist>>
Fail(p) ==
  /\ req[p].pc # "idle"
  /\ req' = [req EXCEPT ![p] = After(p, FALSE)]
  /\ lock' = IF lock = p THEN NoProc ELSE lock
  /\ UNCHANGED <<db, rd, clock, ops, hist>>

\* The process dies and restarts: requests are gone, the database is what was
\* committed.
Crash ==
  /\ req' = [p \in Procs |-> IdleReq]
  /\ rd' = [p \in Readers |-> IdleRead]
  /\ lock' = NoProc
  /\ UNCHANGED <<db, clock, ops, hist>>

\* writeRunEvent stamps each row with time.Now() between the lock and the commit.
StampsEarly(p, n) ==     \* mutant: the stamp is taken before the lock
  {s \in [1 .. n -> 1 .. clock] : \A i, j \in 1 .. n : i < j => s[i] <= s[j]}
Stamps(p, n) ==
  {s \in [1 .. n -> req[p].t0 .. clock] : \A i, j \in 1 .. n : i < j => s[i] <= s[j]}
EventRow(e, id, ts) ==
  [id |-> id, ts |-> ts, run |-> e.run, kind |-> e.kind, key |-> e.key, val |-> e.val, before |-> e.before]
Stamped(evs, s) == {EventRow(evs[i], nextId + i - 1, s[i]) : i \in 1 .. Len(evs)}

RunEvent(kind, r, before) == [run |-> r, kind |-> kind, key |-> "row", val |-> NoRun, before |-> before]
TagEvent(kind, r, k, v, before) == [run |-> r, kind |-> kind, key |-> k, val |-> v, before |-> before]

\* tx.Commit(): the rows and the event rows become visible together.
Commit(p, newRow, newTags, evs) ==
  /\ \E s \in Stamps(p, Len(evs)) :
       /\ events' = events \cup Stamped(evs, s)
       /\ log' = log \cup Stamped(evs, s)
  /\ nextId' = nextId + Len(evs)
  /\ row' = newRow /\ tags' = newTags
  /\ lock' = NoProc
  /\ req' = [req EXCEPT ![p] = After(p, TRUE)]
  /\ UNCHANGED <<rd, clock, ops, past, horizon>>

InTxn(p, op) == req[p].pc = "txn" /\ req[p].op = op

-----------------------------------------------------------------------------
(* The mutators, from the write lock to the commit.                         *)

\* Without a parent a single INSERT and no event; with one, setParentRunID
\* updates the column, mirrors the tag and writes both events in the transaction.
CreateRun(p) ==
  LET r == req[p].run
      parent == req[p].arg.parent
      inserted == NewRow(req[p].arg.start)
  IN /\ InTxn(p, "create")
     /\ ~Exists(r)
     /\ \/ /\ parent = NoRun
           /\ Commit(p, [row EXCEPT ![r] = inserted], tags, <<>>)
        \/ /\ parent # NoRun /\ Exists(parent)
           /\ Commit(p, [row EXCEPT ![r] = [inserted EXCEPT !.parent = parent]],
                     [tags EXCEPT ![r][ParentKey] = parent],
                     << RunEvent("run_parent", r, inserted),
                        TagEvent("tag_set", r, ParentKey, parent, tags[r][ParentKey]) >>)

\* The event carries the row the pre-read found; a nil pre-read writes no event.
NeverCaptured(before, e) == <<>>   \* mutant: UpdateRun and SetRunLifecycle log nothing
IfCaptured(before, e) == IF before = NoRow THEN <<>> ELSE <<e>>

UpdateRun(p) ==
  LET r == req[p].run
      u == req[p].arg
      before == req[p].got.row[r]
      updated == [row[r] EXCEPT !.status = IF "status" \in DOMAIN u THEN u.status ELSE @,
                                !.end = IF "end" \in DOMAIN u THEN u.end ELSE @,
                                !.name = IF "name" \in DOMAIN u THEN u.name ELSE @]
  IN /\ InTxn(p, "update")
     /\ Exists(r)
     /\ Commit(p, [row EXCEPT ![r] = updated], tags,
               IfCaptured(before, RunEvent("run_update", r, before)))

SetRunLifecycle(p) ==
  LET r == req[p].run
      before == req[p].got.row[r]
  IN /\ InTxn(p, "lifecycle")
     /\ Exists(r)
     /\ Commit(p, [row EXCEPT ![r].stage = req[p].arg], tags,
               IfCaptured(before, RunEvent("run_lifecycle", r, before)))

\* The value a batch leaves under a key: the last upsert wins.
LastOf(batch, k) ==
  LET at == {i \in 1 .. Len(batch) : batch[i][1] = k}
  IN batch[CHOOSE i \in at : \A j \in at : j <= i][2]
KeysOf(batch) == {batch[i][1] : i \in 1 .. Len(batch)}
FirstInBatch(batch, k) ==
  LET at == {i \in 1 .. Len(batch) : batch[i][1] = k}
  IN batch[CHOOSE i \in at : \A j \in at : i <= j][2]
UpsertFirst(tagsOf, batch) ==      \* mutant: the first occurrence of a key wins
  [k \in AllKeys |-> IF k \in KeysOf(batch) THEN FirstInBatch(batch, k) ELSE tagsOf[k]]
Upsert(tagsOf, batch) == [k \in AllKeys |-> IF k \in KeysOf(batch) THEN LastOf(batch, k) ELSE tagsOf[k]]

TagParent(batch) == IF ParentKey \in KeysOf(batch) THEN LastOf(batch, ParentKey) ELSE NoRun

\* SetTag and SetTags.  A non-empty mlflow.parentRunId is copied to the column
\* in the same transaction (syncParentRunIDFromTag), which reads its `before`
\* there; the foreign key on parent_run_id refuses an unknown run.
SetTags(p) ==
  LET r == req[p].run
      batch == req[p].arg
      parent == TagParent(batch)
      sets == [i \in 1 .. Len(batch) |->
                 TagEvent("tag_set", r, batch[i][1], batch[i][2], req[p].got.tags[r][batch[i][1]])]
      newTags == [tags EXCEPT ![r] = Upsert(@, batch)]
  IN /\ InTxn(p, "set")
     /\ Exists(r)
     /\ \/ /\ parent = NoRun
           /\ Commit(p, row, newTags, sets)
        \/ /\ parent # NoRun /\ Exists(parent)
           /\ Commit(p, [row EXCEPT ![r].parent = parent], newTags,
                     Append(sets, RunEvent("run_parent", r, row[r])))

\* ErrNotFound when the tag is gone by now; an event only if the pre-read saw it.
DeleteTag(p) ==
  LET r == req[p].run
      k == req[p].arg
      before == req[p].got.tags[r][k]
  IN /\ InTxn(p, "delete")
     /\ tags[r][k] # Absent
     /\ Commit(p, row, [tags EXCEPT ![r][k] = Absent],
               IF before = Absent THEN <<>> ELSE <<TagEvent("tag_delete", r, k, NoRun, before)>>)

\* The UPDATE tests the status and the stage again and skips what changed.
AnyArchivable(r) == TRUE           \* mutant: the UPDATE has no status test
Archivable(r) == row[r].status = "RUNNING" /\ row[r].stage = "active"

\* The SELECT returns the stale ids in any order.
Orders(S) == {s \in [1 .. Cardinality(S) -> S] : \A i, j \in 1 .. Cardinality(S) : s[i] = s[j] => i = j}

ArchiveStaleRuns(p) ==
  LET got == req[p].got
      archived == {r \in req[p].arg.ids : Archivable(r)}
      n == 2 * Cardinality(archived)
  IN /\ InTxn(p, "archive")
     /\ \E order \in Orders(archived) :
          Commit(p,
            [r \in Runs |-> IF r \in archived
                            THEN [row[r] EXCEPT !.status = "FAILED", !.end = req[p].arg.now]
                            ELSE row[r]],
            [r \in Runs |-> IF r \in archived
                            THEN [tags[r] EXCEPT ![ArchivedKey] = Stale] ELSE tags[r]],
            [i \in 1 .. n |->
               LET r == order[(i + 1) \div 2]
               IN IF i % 2 = 1 THEN RunEvent("run_update", r, got.row[r])
                  ELSE TagEvent("tag_set", r, ArchivedKey, Stale, got.tags[r][ArchivedKey])])

\* A single DELETE, which is its own transaction.
PruneEventsUpTo(p) ==              \* mutant: ts_ms <= cutoff
  LET cutoff == req[p].arg - Retention
  IN /\ req[p].pc = "prune"
     /\ lock = NoProc
     /\ events' = {e \in events : e.ts > cutoff}
     /\ horizon' = IF cutoff > horizon THEN cutoff ELSE horizon
     /\ req' = [req EXCEPT ![p] = IdleReq]
     /\ UNCHANGED <<row, tags, nextId, lock, rd, clock, ops, past, log>>
PruneEventsBefore(p) ==
  LET cutoff == req[p].arg - Retention
  IN /\ req[p].pc = "prune"
     /\ lock = NoProc
     /\ events' = {e \in events : e.ts >= cutoff}
     /\ horizon' = IF cutoff > horizon THEN cutoff ELSE horizon
     /\ req' = [req EXCEPT ![p] = IdleReq]
     /\ UNCHANGED <<row, tags, nextId, lock, rd, clock, ops, past, log>>

-----------------------------------------------------------------------------
(* ?as_of= reads (getRunAsOfImpl): the run row, then its events, then its   *)
(* tags, three queries and no transaction.  Undoing the newer events from   *)
(* the last to the first leaves, in each column and each tag, the `before`  *)
(* of the first newer event that touches it; UndoRow and UndoTags state     *)
(* that result directly, UndoRowLoop and UndoTagsLoop are the loops.        *)

\* ORDER BY ts_ms ASC, id ASC
NewestOf(E) == CHOOSE e \in E : \A f \in E : e.ts > f.ts \/ (e.ts = f.ts /\ e.id >= f.id)   \* mutant: undone oldest first
FirstOf(E) == CHOOSE e \in E : \A f \in E : e.ts < f.ts \/ (e.ts = f.ts /\ e.id <= f.id)
BeforeFirst(E, current) == IF E = {} THEN current ELSE FirstOf(E).before

OfKind(E, kind) == {e \in E : e.kind = kind}
OnTag(E, k) == {e \in E : e.kind \in {"tag_set", "tag_delete"} /\ e.key = k}

\* applyUndo: run_update restores status, end_time and name, run_lifecycle the
\* stage, run_parent the parent; the rest of the captured row is not used.
UndoRow(current, newer) ==
  LET u == BeforeFirst(OfKind(newer, "run_update"), current)
  IN [current EXCEPT
        !.status = u.status, !.end = u.end, !.name = u.name,
        !.stage = BeforeFirst(OfKind(newer, "run_lifecycle"), current).stage,
        !.parent = BeforeFirst(OfKind(newer, "run_parent"), current).parent]

\* applyTagUndo: a tag_set without `before` removes the key.
UndoTagsKeepsNew(current, newer) ==  \* mutant: undoing the first set of a key keeps it
  [k \in AllKeys |-> LET b == BeforeFirst(OnTag(newer, k), current[k])
                     IN IF b = Absent THEN current[k] ELSE b]
UndoTags(current, newer) == [k \in AllKeys |-> BeforeFirst(OnTag(newer, k), current[k])]

\* newer[i]: the rows ORDER BY ts_ms ASC, id ASC.
Older(e, f) == e.ts < f.ts \/ (e.ts = f.ts /\ e.id < f.id)
Nth(E, i) == CHOOSE e \in E : Cardinality({f \in E : Older(f, e)}) = i - 1

ApplyUndo(current, e) ==
  CASE e.kind = "run_update" ->
         [current EXCEPT !.status = e.before.status, !.end = e.before.end, !.name = e.before.name]
    [] e.kind = "run_lifecycle" -> [current EXCEPT !.stage = e.before.stage]
    [] e.kind = "run_parent" -> [current EXCEPT !.parent = e.before.parent]
    [] OTHER -> current

ApplyTagUndoKeeps(current, e) ==   \* mutant: a tag_set without `before` is not undone
  IF e.kind \in {"tag_set", "tag_delete"} /\ e.before # Absent
  THEN [current EXCEPT ![e.key] = e.before] ELSE current
ApplyTagUndo(current, e) ==
  IF e.kind = "tag_set" \/ (e.kind = "tag_delete" /\ e.before # Absent)
  THEN [current EXCEPT ![e.key] = e.before] ELSE current

\* The two loops: for i := len(newer) - 1; i >= 0; i--.
UndoRowLoop(current, newer) ==
  LET n == Cardinality(newer)
      undone[i \in 0 .. n] == IF i = 0 THEN current ELSE ApplyUndo(undone[i - 1], Nth(newer, n + 1 - i))
  IN undone[n]
UndoTagsLoop(current, newer) ==
  LET n == Cardinality(newer)
      undone[i \in 0 .. n] == IF i = 0 THEN current ELSE ApplyTagUndo(undone[i - 1], Nth(newer, n + 1 - i))
  IN undone[n]

Newer(r, T) == {e \in events : e.run = r /\ e.ts > T}

GetRunAsOf(p, r, T) ==
  LET found == Exists(r) /\ row[r].start <= T
  IN /\ rd[p].pc \in {"idle", "done", "missing", "limit"}
     /\ rd' = [rd EXCEPT ![p] =
                  IF found
                  THEN [IdleRead EXCEPT !.pc = "events", !.run = r, !.asOf = T, !.began = clock, !.row = row[r]]
                  ELSE [IdleRead EXCEPT !.pc = "missing"]]
     /\ UNCHANGED <<db, lock, req, clock, ops, hist>>

\* The scan stops at the limit and the answer is made of what it has.
ScanEventsTruncated(p) ==
  LET mine == {e \in events : e.run = rd[p].run}
      kept == {e \in mine : Cardinality({f \in mine : f.id < e.id}) < MaxEventsPerReplay}
      newer == {e \in kept : e.ts > rd[p].asOf}
  IN /\ rd[p].pc = "events"
     /\ rd' = [rd EXCEPT ![p].pc = "tags", ![p].row = UndoRow(@, newer), ![p].newer = newer]
     /\ UNCHANGED <<db, lock, req, clock, ops, hist>>

ScanEvents(p) ==
  LET mine == {e \in events : e.run = rd[p].run}
      newer == {e \in mine : e.ts > rd[p].asOf}
  IN /\ rd[p].pc = "events"
     /\ \/ /\ Cardinality(mine) > MaxEventsPerReplay
           /\ rd' = [rd EXCEPT ![p] = [IdleRead EXCEPT !.pc = "limit"]]
        \/ /\ Cardinality(mine) <= MaxEventsPerReplay
           /\ rd' = [rd EXCEPT ![p].pc = "tags", ![p].row = UndoRow(@, newer), ![p].newer = newer]
     /\ UNCHANGED <<db, lock, req, clock, ops, hist>>

ReadTags(p) ==
  /\ rd[p].pc = "tags"
  /\ rd' = [rd EXCEPT ![p].pc = "done", ![p].newer = {},
                      ![p].tags = UndoTags(tags[rd[p].run], rd[p].newer)]
  /\ UNCHANGED <<db, lock, req, clock, ops, hist>>

-----------------------------------------------------------------------------
Arrival(p) ==
  \E r \in Runs :
    \/ \E b \in Batches \cup {<<>>} : \E start \in ClientStarts \cup {clock} : CreateRunArrives(p, r, start, b)
    \/ \E u \in Updates : UpdateRunArrives(p, r, u)
    \/ \E stage \in Lifecycles : SetRunLifecycleArrives(p, r, stage)
    \/ \E b \in Batches : SetTagsArrives(p, r, b)
    \/ \E k \in Deletes : DeleteTagArrives(p, r, k)

\* A goroutine going on with the request it has.
Serve(p) ==
  \/ PreRead(p) \/ BeginTx(p) \/ Fail(p)
  \/ CreateRun(p) \/ UpdateRun(p) \/ SetRunLifecycle(p) \/ SetTags(p) \/ DeleteTag(p)
  \/ ArchiveStaleRuns(p) \/ PruneEventsBefore(p)

Read(p) ==
  \/ \E r \in Runs, T \in 1 .. clock : GetRunAsOf(p, r, T)
  \/ ScanEvents(p) \/ ReadTags(p)

Next ==
  \/ Tick \/ JanitorTick \/ Crash
  \/ \E p \in Writers : Arrival(p)
  \/ \E p \in Procs : Serve(p)
  \/ \E p \in Readers : Read(p)

Spec == Init /\ [][Next]_vars

\* The transaction p has open cannot commit: its row is there already (unique id),
\* its parent is unknown (foreign key), or its tag is gone (ErrNotFound).
Unknown(parent) == parent # NoRun /\ ~Exists(parent)
Refused(p) ==
  \/ InTxn(p, "create") /\ (Exists(req[p].run) \/ Unknown(req[p].arg.parent))
  \/ InTxn(p, "set") /\ Unknown(TagParent(req[p].arg))
  \/ InTxn(p, "delete") /\ tags[req[p].run][req[p].arg] = Absent

\* The steps a goroutine takes by itself.  Of the error returns only those the
\* database forces are among them: timeouts and cancelled contexts may never come.
GoOn(p) ==
  \/ PreRead(p) \/ (Refused(p) /\ Fail(p))
  \/ CreateRun(p) \/ UpdateRun(p) \/ SetRunLifecycle(p) \/ SetTags(p) \/ DeleteTag(p)
  \/ ArchiveStaleRuns(p)
\* SQLite's busy handler tries again until it gets the write lock (or times out).
TakeLock(p) == BeginTx(p) \/ PruneEventsBefore(p)
FairSpec == Spec /\ \A p \in Procs : WF_vars(GoOn(p)) /\ SF_vars(TakeLock(p))

-----------------------------------------------------------------------------
(* Properties.                                                              *)

TagsOf == [AllKeys -> TagVals \cup {Absent}]
RunEventRows == [id : Nat, ts : 1 .. MaxClock, run : Runs, kind : {"run_update", "run_lifecycle", "run_parent"},
                 key : {"row"}, val : {NoRun}, before : Row]
TagEventRows == [id : Nat, ts : 1 .. MaxClock, run : Runs, kind : {"tag_set", "tag_delete"},
                 key : AllKeys, val : TagVals, before : TagVals \cup {Absent}]

\* The arguments of a request, by operation, at time now and over the table rows.
ArgOK(p, op, r, arg, now, rows) ==
  /\ op \in {"create", "update", "lifecycle", "set", "delete"} => r \in Runs
  /\ op = "create" => arg \in [start : 0 .. MaxClock, parent : Runs \cup {NoRun}]
  /\ op = "update" => arg \in Updates
  /\ op = "lifecycle" => arg \in Stages
  /\ op = "set" => arg \in Seq(Pairs)
  /\ op = "delete" => arg \in AllKeys
  /\ op = "archive" => /\ arg \in [ids : SUBSET Runs, now : 1 .. now]
                       /\ p = Janitor /\ \A i \in arg.ids : rows[i] # NoRow
  /\ op = "prune" => arg \in 1 .. now

ReqOK(p, q, now, rows) ==
  /\ q \in [pc : {"idle", "read", "txn", "prune"},
            op : {"none", "create", "update", "lifecycle", "set", "delete", "archive", "prune"},
            run : Runs \cup {NoRun}, arg : {q.arg},
            want : SUBSET [run : Runs, key : AllKeys \cup {"row"}],
            got : [row : [Runs -> Row \cup {NoRow}], tags : [Runs -> TagsOf]],
            t0 : 0 .. now, rest : Seq(Pairs)]
  /\ ArgOK(p, q.op, q.run, q.arg, now, rows)
  /\ q.pc = "prune" => q.op = "prune"
  /\ q.pc = "txn" => q.t0 >= 1 /\ q.want = {}
  /\ q.op = "archive" => \A i \in q.arg.ids : RowCell(i) \in q.want \/ q.got.row[i] # NoRow
  /\ q.rest # <<>> => q.op \in {"create", "set"}

\* The tables, the requests and the history have their types, every request's
\* arguments match its operation, and the lock holder is the one in a transaction.
TypeOK ==
  /\ row \in [Runs -> Row \cup {NoRow}]
  /\ tags \in [Runs -> TagsOf]
  /\ \A e \in events : \/ e.key = "row" /\ e \in RunEventRows
                       \/ e.key # "row" /\ e \in TagEventRows
  /\ nextId \in Nat \ {0}
  /\ lock \in Procs \cup {NoProc}
  /\ req = [p \in Procs |-> req[p]] /\ \A p \in Procs : ReqOK(p, req[p], clock, row)
  /\ \A p \in Procs : req[p].pc = "txn" <=> lock = p
  /\ clock \in 1 .. MaxClock /\ ops \in 0 .. MaxOps /\ horizon \in Int
  /\ past \in Seq([row : [Runs -> Row \cup {NoRow}], tags : [Runs -> TagsOf], quiet : BOOLEAN])
  /\ Len(past) = clock - 1

\* The milliseconds an as-of read can be held to: no transaction was open when
\* they ended, the run existed, and the events after them have not been pruned.
Settled(r, T) == /\ past[T].quiet /\ T + 1 >= horizon
                 /\ past[T].row[r] # NoRow

\* Row ids follow the wall clock: replaying by (ts_ms, id) is replaying in commit
\* order.  An open transaction can only stamp its events after every stamp in the
\* table and after every quiet millisecond, because writeRunEvent calls time.Now()
\* while it holds the write lock.  And a run that has existed still does.
LogOrdered ==
  /\ \A e \in events : e.id < nextId /\ e.ts <= clock
  /\ \A e, f \in events : /\ e.id = f.id => e = f
                          /\ e.id < f.id => e.ts <= f.ts
  /\ \A p \in Procs : lock = p => /\ \A e \in events : e.ts <= req[p].t0
                                  /\ \A t \in 1 .. Len(past) : past[t].quiet => t < req[p].t0
  /\ \A t \in 1 .. Len(past), r \in Runs : past[t].row[r] # NoRow => row[r] # NoRow

\* The reverse loops over the newer events compute what UndoRow and UndoTags say
\* (applyUndo and applyTagUndo restore one event at a time).
ReplayIsTheLoop ==
  \A r \in Runs, T \in 1 .. clock :
    Exists(r) => /\ UndoRowLoop(row[r], Newer(r, T)) = UndoRow(row[r], Newer(r, T))
                 /\ UndoTagsLoop(tags[r], Newer(r, T)) = UndoTags(tags[r], Newer(r, T))

\* An as-of read made in one snapshot returns the row and the tags as they were
\* committed when millisecond T ended (GetRunAsOf undoing `before` values).
AsOfExact ==
  \A r \in Runs, T \in 1 .. Len(past) :
    Settled(r, T) => /\ UndoRow(row[r], Newer(r, T)) = past[T].row[r]
                     /\ UndoTags(tags[r], Newer(r, T)) = past[T].tags[r]

\* However the mutators interleave, the parent_run_id of an as-of read is exact:
\* setParentRunID and syncParentRunIDFromTag capture `before` inside the
\* transaction, under the write lock.
ParentAsOfExact ==
  \A r \in Runs, T \in 1 .. Len(past) :
    Settled(r, T) => UndoRow(row[r], Newer(r, T)).parent = past[T].row[r].parent

\* However the mutators interleave, undoing the newer events of one snapshot never
\* gives a tag value that was written after T: a `before` may be stale, it is never
\* from the future, because the pre-read of the first newer event saw only writes
\* logged at or before T.  (GetRunAsOf reads the events and the tags in two queries,
\* and a SetTag that commits between them is not undone.)
NoFutureTag ==
  \A r \in Runs, k \in AllKeys, T \in 1 .. clock :
    LET v == UndoTags(tags[r], Newer(r, T))[k]
    IN T + 1 >= horizon /\ v # Absent =>
         \E e \in log : e.kind = "tag_set" /\ e.run = r /\ e.key = k /\ e.val = v /\ e.ts <= T

\* A run that finished, or was deleted, between the janitor's SELECT and its
\* UPDATE keeps its outcome (ArchiveStaleRuns: "must not be clobbered to FAILED").
JanitorKeepsOutcomes ==
  [][\A r \in Runs : lock = Janitor /\ row'[r] # row[r] =>
                      row[r].status = "RUNNING" /\ row[r].stage = "active"]_vars

\* A non-empty mlflow.parentRunId tag always equals the parent_run_id column,
\* whichever of CreateRun, SetTag and SetTags wrote last (SetTags: the last
\* occurrence in the batch wins in both places).
ParentTagMirrored ==
  \A r \in Runs : tags[r][ParentKey] \notin {Absent, NoRun} =>
                    Exists(r) /\ row[r].parent = tags[r][ParentKey]

\* Every committed change to a run or to its tags wrote at least one event row for
\* that run in the same commit (migration 013: "row per mutation").
MutationLogged ==
  [][\A r \in Runs : Exists(r) /\ (row'[r] # row[r] \/ tags'[r] # tags[r]) =>
       \E e \in events' : e.run = r /\ e.id >= nextId]_vars

\* The milliseconds a reader that has an answer can be held to: T had passed when
\* the read began, so no later commit can be stamped at or before it.
Answered(p, pcs) ==
  rd[p].pc \in pcs /\ rd[p].asOf < rd[p].began /\ Settled(rd[p].run, rd[p].asOf)

\* The row of an as-of answer is exact although the row and the events are read by
\* two queries: a commit in between is newer than T and is undone by its event.
ReadRowExact ==
  \A p \in Readers : Answered(p, {"tags", "done"}) => rd[p].row = past[rd[p].asOf].row[rd[p].run]

\* Every request ends, and CreateRun's SetTag loop with it, even if no busy wait
\* ever times out: whichever error return another request left its transaction by,
\* the deferred Rollback has freed the one write lock this one waits for.
RequestsFinish ==
  \A p \in Procs : req[p].pc # "idle" ~> req[p].pc = "idle"

=============================================================================
