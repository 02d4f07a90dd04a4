------------------------- MODULE RunStoreAsOfProofs -------------------------
(***************************************************************************)
(* What as-of reads of RunStore are worth.  Every mutator is shown to log  *)
(* what it changes, with `before` values from the table or from its        *)
(* pre-reads (Logged).  With any number of goroutines that is enough to    *)
(* keep tag values from after T out of every answer.  With one mutating    *)
(* request at a time the pre-reads are never stale (SerialInv), and every  *)
(* answer is exact: in one snapshot, and across the queries of a reader.   *)
(* Last, the reverse loops of getRunAsOfImpl give the answers that UndoRow *)
(* and UndoTags state.                                                     *)
(***************************************************************************)
EXTENDS RunStoreProofs

USE ZenonT(60)

-----------------------------------------------------------------------------
(* What mutators log, and what the other as-of reads are worth.            *)

\* The cells a mutator pre-reads before it opens its transaction.
AskedRow(q, r) == \/ q.op \in {"update", "lifecycle"} /\ r = q.run
                  \/ q.op = "archive" /\ r \in q.arg.ids
AskedTag(q, r, k) == \/ q.op = "set" /\ r = q.run /\ k \in KeysOf(q.arg)
                     \/ q.op = "delete" /\ r = q.run /\ k = q.arg
                     \/ q.op = "archive" /\ r \in q.arg.ids /\ k = ArchivedKey

\* The payloads of a commit, and the event rows it adds to the table.
Bodies(evs) == {evs[i] : i \in 1 .. Len(evs)}
NewRows == {e \in events' : e.id >= nextId}
OnCell(b, r, k) == b.kind \in {"tag_set", "tag_delete"} /\ b.run = r /\ b.key = k
OnRun(b, r, kind) == b.run = r /\ b.kind = kind

\* What the rows B of a commit of p say about tag k of run r when its value becomes v: each
\* carries as `before` the value in the table or the one the pre-read found, and a tag_delete
\* has one to restore; a value that was not there is the payload of a tag_set; and only the
\* removal of a tag the pre-read did not find goes unlogged.
TagLogged(p, r, k, v, B) ==
  LET got == req[p].got.tags[r][k]
  IN /\ \A b \in B : OnCell(b, r, k) =>
          /\ b.before = tags[r][k] \/ (AskedTag(req[p], r, k) /\ b.before = got)
          /\ b.kind = "tag_delete" => b.before # Absent
     /\ v = tags[r][k] \/ v = Absent \/ \E b \in B : OnCell(b, r, k) /\ b.kind = "tag_set" /\ b.val = v
     /\ \/ v = tags[r][k]
        \/ \E b \in B : OnCell(b, r, k)
        \/ AskedTag(req[p], r, k) /\ got = Absent /\ tags[r][k] # Absent

\* The same for the columns of run r when its row becomes new.
RowLogged(p, r, new, B) ==
  LET got == req[p].got.row[r]
      missed == AskedRow(req[p], r) /\ got = NoRow
  IN /\ \A b \in B : OnRun(b, r, "run_update") \/ OnRun(b, r, "run_lifecycle") =>
                       AskedRow(req[p], r) /\ b.before = got
     /\ \A b \in B : OnRun(b, r, "run_parent") => b.before.parent = row[r].parent
     /\ new.start = row[r].start
     /\ SameUpdated(new, row[r]) \/ (\E b \in B : OnRun(b, r, "run_update")) \/ missed
     /\ new.stage = row[r].stage \/ (\E b \in B : OnRun(b, r, "run_lifecycle")) \/ missed
     /\ new.parent = row[r].parent \/ \E b \in B : OnRun(b, r, "run_parent")

Logged(p, newRow, newTags, B) ==
  /\ \A r \in Runs : Exists(r) => RowLogged(p, r, newRow[r], B)
  /\ \A r \in Runs, k \in AllKeys : TagLogged(p, r, k, newTags[r][k], B)

\* Every mutator ends in a commit that logs what it changes in this sense.
Logs(p) ==
  /\ req[p].pc = "txn"
  /\ \E newRow, newTags, evs : /\ Len(evs) \in Nat
                               /\ Logged(p, newRow, newTags, Bodies(evs))
                               /\ Commit(p, newRow, newTags, evs)

SameBody(e, b) == /\ e.run = b.run /\ e.kind = b.kind /\ e.key = b.key
                  /\ e.val = b.val /\ e.before = b.before
SameBodies(N, B) == /\ \A n \in N : \E b \in B : SameBody(n, b)
                    /\ \A b \in B : \E n \in N : SameBody(n, b)

\* A commit seen from outside: the rows it adds to the event table and to the log,
\* newer than all there is, log what it changed.
Adds(p) ==
  /\ lock = p /\ req[p].pc = "txn"
  /\ events' = events \cup NewRows /\ log' = log \cup NewRows
  /\ \A e \in NewRows : e.id \in Nat /\ e.id >= nextId /\ e.ts \in Nat /\ e.ts >= req[p].t0
  /\ \A e \in NewRows : e.id < nextId'
  /\ nextId' >= nextId
  /\ Logged(p, row', tags', NewRows)
  /\ lock' = NoProc /\ req' = [req EXCEPT ![p] = After(p, TRUE)]
  /\ rd' = rd /\ clock' = clock /\ past' = past /\ horizon' = horizon

\* Every commit of a mutator.
LEMMA ServeAdds ==
  \A p \in Procs : TypeOK /\ LogOrdered /\ Serve(p) =>
    PreRead(p) \/ BeginTx(p) \/ Fail(p) \/ Adds(p) \/ PruneEventsBefore(p)
\* A run no event names keeps its columns.
<1>RowUntouched. ASSUME NEW p, NEW r, NEW B, \A b \in B : b.run # r \/ b.kind \in {"tag_set", "tag_delete"}
                 PROVE  RowLogged(p, r, row[r], B)
  BY <1>RowUntouched DEF RowLogged, SameUpdated, OnRun
\* A tag no event names keeps its value.
<1>TagUntouched. ASSUME NEW p, NEW r, NEW k, NEW B, \A b \in B : ~OnCell(b, r, k)
                 PROVE  TagLogged(p, r, k, tags[r][k], B)
  BY <1>TagUntouched DEF TagLogged
\* The payloads of the short sequences the mutators log.
<1>BodiesOf. /\ Bodies(<<>>) = {} /\ Len(<<>>) \in Nat
             /\ \A a : Bodies(<<a>>) = {a} /\ Len(<<a>>) \in Nat
             /\ \A a, b : Bodies(<<a, b>>) = {a, b} /\ Len(<<a, b>>) \in Nat
  <2>1. Bodies(<<>>) = {} /\ Len(<<>>) \in Nat
    BY SMTT(60) DEF Bodies
  <2>2. ASSUME NEW a PROVE Bodies(<<a>>) = {a} /\ Len(<<a>>) \in Nat
    BY SMTT(60) DEF Bodies
  <2>3. ASSUME NEW a, NEW b PROVE Bodies(<<a, b>>) = {a, b} /\ Len(<<a, b>>) \in Nat
    <3>1. Len(<<a, b>>) = 2 /\ 1 .. 2 = {1, 2} /\ <<a, b>>[1] = a /\ <<a, b>>[2] = b
      BY SMTT(60)
    <3> QED
      BY <3>1 DEF Bodies
  <2> QED
    BY <2>1, <2>2, <2>3
\* The fields of the payloads.
<1>BodyFields. /\ \A kind, r, before : LET e == RunEvent(kind, r, before)
                                       IN e.kind = kind /\ e.run = r /\ e.key = "row" /\ e.before = before
               /\ \A kind, r, k, v, before : LET e == TagEvent(kind, r, k, v, before)
                                             IN e.kind = kind /\ e.run = r /\ e.key = k /\ e.val = v /\ e.before = before
  BY SMTT(60) DEF RunEvent, TagEvent
\* CreateRun logs the parent it sets, in the column and in the tag.
<1>CreateRunLogs. ASSUME TypeOK, NEW p \in Procs, CreateRun(p)
                  PROVE  Logs(p)
  <2> USE <1>CreateRunLogs
  <2> DEFINE r == req[p].run
             parent == req[p].arg.parent
             inserted == NewRow(req[p].arg.start)
             withParent == [inserted EXCEPT !.parent = parent]
             e1 == RunEvent("run_parent", r, inserted)
             e2 == TagEvent("tag_set", r, ParentKey, parent, tags[r][ParentKey])
  <2>1. /\ req[p].pc = "txn" /\ req[p].op = "create" /\ ~Exists(r)
        /\ \/ Commit(p, [row EXCEPT ![r] = inserted], tags, <<>>)
           \/ Commit(p, [row EXCEPT ![r] = withParent], [tags EXCEPT ![r][ParentKey] = parent], <<e1, e2>>)
    BY DEF CreateRun, InTxn
  <2>1a. req[p].pc = "txn" /\ ~Exists(r)
    BY <2>1
  <2>2. r \in Runs /\ row \in [Runs -> Row \cup {NoRow}] /\ tags \in [Runs -> TagsOf]
    BY <2>1 DEF TypeOK, ReqOK, ArgOK
  <2>3. \A i \in Runs : Exists(i) => i # r
    BY <2>1a
  <2>4. /\ e1.kind = "run_parent" /\ e1.run = r
        /\ e2.kind = "tag_set" /\ e2.run = r /\ e2.key = ParentKey /\ e2.val = parent
        /\ e2.before = tags[r][ParentKey]
    BY SMTT(60), <1>BodyFields
  <2> HIDE DEF e1, e2, inserted, withParent
  <2>5. CASE Commit(p, [row EXCEPT ![r] = inserted], tags, <<>>)
    <3> DEFINE newRow == [row EXCEPT ![r] = inserted]
    <3>1. \A i \in Runs : Exists(i) => newRow[i] = row[i]
      BY <2>2, <2>3
    <3> HIDE DEF newRow
    <3>2. \A i \in Runs : Exists(i) => RowLogged(p, i, newRow[i], {})
      BY <3>1, <1>RowUntouched
    <3>3. \A i \in Runs, k \in AllKeys : TagLogged(p, i, k, tags[i][k], {})
      BY <1>TagUntouched
    <3>4. Logged(p, newRow, tags, Bodies(<<>>))
      BY <3>2, <3>3, <1>BodiesOf DEF Logged
    <3> QED
      BY <2>1a, <2>5, <3>4, <1>BodiesOf DEF Logs, newRow
  <2>6. CASE Commit(p, [row EXCEPT ![r] = withParent], [tags EXCEPT ![r][ParentKey] = parent], <<e1, e2>>)
    <3> DEFINE newRow == [row EXCEPT ![r] = withParent]
               newTags == [tags EXCEPT ![r][ParentKey] = parent]
    <3>1. \A i \in Runs : Exists(i) => newRow[i] = row[i]
      BY <2>2, <2>3
    <3>2. \A i \in Runs, k \in AllKeys : newTags[i][k] = IF i = r /\ k = ParentKey THEN parent ELSE tags[i][k]
      <4>1. tags[r] \in TagsOf
        BY <2>2
      <4>2. newTags[r] = [tags[r] EXCEPT ![ParentKey] = parent] /\ \A i \in Runs : i # r => newTags[i] = tags[i]
        BY <2>2
      <4>3. \A k \in AllKeys : [tags[r] EXCEPT ![ParentKey] = parent][k] = IF k = ParentKey THEN parent ELSE tags[r][k]
        BY <4>1 DEF TagsOf
      <4> HIDE DEF newTags
      <4> QED
        BY <4>2, <4>3
    <3> HIDE DEF newRow, newTags
    <3>3. \A i \in Runs : Exists(i) => RowLogged(p, i, newRow[i], {e1, e2})
      BY <2>3, <2>4, <3>1, <1>RowUntouched
    <3>4. ASSUME NEW i \in Runs, NEW k \in AllKeys PROVE TagLogged(p, i, k, newTags[i][k], {e1, e2})
      <4>1. CASE i = r /\ k = ParentKey
        <5>1. newTags[i][k] = parent
          BY <3>2, <4>1
        <5>2. OnCell(e2, i, k) /\ e2.before = tags[i][k] /\ ~OnCell(e1, i, k)
          BY <2>4, <4>1 DEF OnCell
        <5> QED
          BY <2>4, <5>1, <5>2 DEF TagLogged
      <4>2. CASE ~(i = r /\ k = ParentKey)
        <5>1. \A b \in {e1, e2} : ~OnCell(b, i, k)
          BY <2>4, <4>2 DEF OnCell
        <5>2. newTags[i][k] = tags[i][k]
          BY <3>2, <4>2
        <5> QED
          BY <5>1, <5>2, <1>TagUntouched
      <4> QED
        BY <4>1, <4>2
    <3>5. Logged(p, newRow, newTags, Bodies(<<e1, e2>>))
      BY <3>3, <3>4, <1>BodiesOf DEF Logged
    <3> QED
      BY <2>1a, <2>6, <3>5, <1>BodiesOf DEF Logs, newRow, newTags
  <2> QED
    BY <2>1, <2>5, <2>6
\* What UpdateRun and SetRunLifecycle log: the row the pre-read found, or nothing.
<1>CapturedBodies. ASSUME NEW r, NEW kind, NEW before
                   PROVE  LET evs == IfCaptured(before, RunEvent(kind, r, before))
                          IN /\ Len(evs) \in Nat
                             /\ \A b \in Bodies(evs) : b.kind = kind /\ b.run = r /\ b.before = before
                             /\ before = NoRow \/ \E b \in Bodies(evs) : b.kind = kind /\ b.run = r
  <2> USE <1>CapturedBodies
  <2> DEFINE ev == RunEvent(kind, r, before)
  <2>1. ev.kind = kind /\ ev.run = r /\ ev.before = before
    BY SMTT(60), <1>BodyFields
  <2> HIDE DEF ev
  <2>2. CASE before = NoRow
    <3>1. IfCaptured(before, ev) = <<>>
      BY <2>2 DEF IfCaptured
    <3> QED
      BY <2>2, <3>1, <1>BodiesOf DEF ev
  <2>3. CASE before # NoRow
    <3>1. IfCaptured(before, ev) = <<ev>>
      BY <2>3 DEF IfCaptured
    <3>2. Bodies(<<ev>>) = {ev} /\ Len(<<ev>>) \in Nat
      BY <1>BodiesOf
    <3> QED
      BY <2>1, <3>1, <3>2 DEF ev
  <2> QED
    BY <2>2, <2>3
\* UpdateRun logs the pre-read row with run_update.
<1>UpdateRunLogs. ASSUME TypeOK, NEW p \in Procs, UpdateRun(p)
                  PROVE  Logs(p)
  <2> USE <1>UpdateRunLogs
  <2> DEFINE r == req[p].run
             u == req[p].arg
             before == req[p].got.row[r]
             updated == [row[r] EXCEPT !.status = IF "status" \in DOMAIN u THEN u.status ELSE @,
                                       !.end = IF "end" \in DOMAIN u THEN u.end ELSE @,
                                       !.name = IF "name" \in DOMAIN u THEN u.name ELSE @]
             evs == IfCaptured(before, RunEvent("run_update", r, before))
  <2>1. /\ req[p].pc = "txn" /\ req[p].op = "update" /\ Exists(r)
        /\ Commit(p, [row EXCEPT ![r] = updated], tags, evs)
    BY DEF UpdateRun, InTxn
  <2>2. r \in Runs /\ row \in [Runs -> Row \cup {NoRow}]
    BY <2>1 DEF TypeOK, ReqOK, ArgOK
  <2>3. row[r] \in Row
    BY <2>1, <2>2 DEF Exists
  <2>4. updated.start = row[r].start /\ updated.stage = row[r].stage /\ updated.parent = row[r].parent
    BY <2>3 DEF Row
  <2>5. /\ Len(evs) \in Nat
        /\ \A b \in Bodies(evs) : b.kind = "run_update" /\ b.run = r /\ b.before = before
        /\ before = NoRow \/ \E b \in Bodies(evs) : b.kind = "run_update" /\ b.run = r
    BY SMTT(60), <1>CapturedBodies
  <2>6. AskedRow(req[p], r)
    BY <2>1 DEF AskedRow
  <2> HIDE DEF updated, evs
  <2> DEFINE newRow == [row EXCEPT ![r] = updated]
  <2>7. newRow[r] = updated /\ \A i \in Runs : i # r => newRow[i] = row[i]
    BY <2>2
  <2> HIDE DEF newRow
  <2>8. RowLogged(p, r, updated, Bodies(evs))
    BY <2>4, <2>5, <2>6 DEF RowLogged, OnRun
  <2>9. \A i \in Runs : RowLogged(p, i, newRow[i], Bodies(evs))
    <3> TAKE i \in Runs
    <3>1. CASE i = r
      BY <2>7, <2>8, <3>1
    <3>2. CASE i # r
      BY <2>5, <2>7, <3>2, <1>RowUntouched
    <3> QED
      BY <3>1, <3>2
  <2>10. \A i \in Runs, k \in AllKeys : TagLogged(p, i, k, tags[i][k], Bodies(evs))
    <3>1. \A i \in Runs, k \in AllKeys : \A b \in Bodies(evs) : ~OnCell(b, i, k)
      BY <2>5 DEF OnCell
    <3> QED
      BY <3>1, <1>TagUntouched
  <2>11. Logged(p, newRow, tags, Bodies(evs))
    BY <2>9, <2>10 DEF Logged
  <2> QED
    BY <2>1, <2>5, <2>11 DEF Logs, newRow
\* SetRunLifecycle logs the pre-read row with run_lifecycle.
<1>SetRunLifecycleLogs. ASSUME TypeOK, NEW p \in Procs, SetRunLifecycle(p)
                        PROVE  Logs(p)
  <2> USE <1>SetRunLifecycleLogs
  <2> DEFINE r == req[p].run
             before == req[p].got.row[r]
             updated == [row[r] EXCEPT !.stage = req[p].arg]
             evs == IfCaptured(before, RunEvent("run_lifecycle", r, before))
  <2>1. /\ req[p].pc = "txn" /\ req[p].op = "lifecycle" /\ Exists(r)
        /\ Commit(p, [row EXCEPT ![r].stage = req[p].arg], tags, evs)
    BY DEF SetRunLifecycle, InTxn
  <2>2. r \in Runs /\ row \in [Runs -> Row \cup {NoRow}]
    BY <2>1 DEF TypeOK, ReqOK, ArgOK
  <2>3. row[r] \in Row
    BY <2>1, <2>2 DEF Exists
  <2>4. updated.start = row[r].start /\ SameUpdated(updated, row[r]) /\ updated.parent = row[r].parent
    BY <2>3 DEF Row, SameUpdated
  <2>5. /\ Len(evs) \in Nat
        /\ \A b \in Bodies(evs) : b.kind = "run_lifecycle" /\ b.run = r /\ b.before = before
        /\ before = NoRow \/ \E b \in Bodies(evs) : b.kind = "run_lifecycle" /\ b.run = r
    BY SMTT(60), <1>CapturedBodies
  <2>6. AskedRow(req[p], r)
    BY <2>1 DEF AskedRow
  <2>6a. [row EXCEPT ![r].stage = req[p].arg] = [row EXCEPT ![r] = updated]
    BY <2>2
  <2> HIDE DEF updated, evs
  <2> DEFINE newRow == [row EXCEPT ![r] = updated]
  <2>7. newRow[r] = updated /\ \A i \in Runs : i # r => newRow[i] = row[i]
    BY <2>2
  <2> HIDE DEF newRow
  <2>8. RowLogged(p, r, updated, Bodies(evs))
    BY <2>4, <2>5, <2>6 DEF RowLogged, OnRun
  <2>9. \A i \in Runs : RowLogged(p, i, newRow[i], Bodies(evs))
    <3> TAKE i \in Runs
    <3>1. CASE i = r
      BY <2>7, <2>8, <3>1
    <3>2. CASE i # r
      BY <2>5, <2>7, <3>2, <1>RowUntouched
    <3> QED
      BY <3>1, <3>2
  <2>10. \A i \in Runs, k \in AllKeys : TagLogged(p, i, k, tags[i][k], Bodies(evs))
    <3>1. \A i \in Runs, k \in AllKeys : \A b \in Bodies(evs) : ~OnCell(b, i, k)
      BY <2>5 DEF OnCell
    <3> QED
      BY <3>1, <1>TagUntouched
  <2>11. Logged(p, newRow, tags, Bodies(evs))
    BY <2>9, <2>10 DEF Logged
  <2> QED
    BY <2>1, <2>5, <2>6a, <2>11 DEF Logs, newRow
\* DeleteTag logs the pre-read value, if the pre-read found one.
<1>DeleteTagLogs. ASSUME TypeOK, NEW p \in Procs, DeleteTag(p)
                  PROVE  Logs(p)
  <2> USE <1>DeleteTagLogs
  <2> DEFINE r == req[p].run
             k == req[p].arg
             before == req[p].got.tags[r][k]
             newTags == [tags EXCEPT ![r][k] = Absent]
             ev == TagEvent("tag_delete", r, k, NoRun, before)
             evs == IF before = Absent THEN <<>> ELSE <<ev>>
  <2>1. /\ req[p].pc = "txn" /\ req[p].op = "delete" /\ tags[r][k] # Absent
        /\ Commit(p, row, newTags, evs)
    BY DEF DeleteTag, InTxn
  <2>2. r \in Runs /\ k \in AllKeys /\ tags \in [Runs -> TagsOf]
    BY <2>1 DEF TypeOK, ReqOK, ArgOK
  <2>3. \A i \in Runs, j \in AllKeys : newTags[i][j] = IF i = r /\ j = k THEN Absent ELSE tags[i][j]
    <3>1. tags[r] \in TagsOf
      BY <2>2
    <3>2. newTags[r] = [tags[r] EXCEPT ![k] = Absent] /\ \A i \in Runs : i # r => newTags[i] = tags[i]
      BY <2>2
    <3>3. \A j \in AllKeys : [tags[r] EXCEPT ![k] = Absent][j] = IF j = k THEN Absent ELSE tags[r][j]
      BY <3>1 DEF TagsOf
    <3> HIDE DEF newTags
    <3> QED
      BY <3>2, <3>3
  <2>4. ev.kind = "tag_delete" /\ ev.run = r /\ ev.key = k /\ ev.before = before
    BY DEF TagEvent
  <2> HIDE DEF ev
  <2>5. /\ Len(evs) \in Nat
        /\ \A b \in Bodies(evs) : b = ev /\ before # Absent
        /\ before = Absent \/ ev \in Bodies(evs)
    <3>1. CASE before = Absent
      BY <3>1, <1>BodiesOf
    <3>2. CASE before # Absent
      <4>1. evs = <<ev>>
        BY <3>2
      <4>2. Bodies(<<ev>>) = {ev} /\ Len(<<ev>>) \in Nat
        BY <1>BodiesOf
      <4> QED
        BY <4>1, <4>2
    <3> QED
      BY <3>1, <3>2
  <2>6. AskedTag(req[p], r, k)
    BY <2>1 DEF AskedTag
  <2>6a. req[p].pc = "txn" /\ tags[r][k] # Absent
    BY <2>1
  <2> HIDE DEF evs, newTags
  <2>7. \A i \in Runs : RowLogged(p, i, row[i], Bodies(evs))
    BY <2>4, <2>5, <1>RowUntouched
  <2>8. ASSUME NEW i \in Runs, NEW j \in AllKeys PROVE TagLogged(p, i, j, newTags[i][j], Bodies(evs))
    <3>1. CASE i = r /\ j = k
      <4>1. newTags[i][j] = Absent
        BY <2>3, <3>1
      <4>2. OnCell(ev, r, k)
        BY <2>4 DEF OnCell
      <4> QED
        BY <2>4, <2>5, <2>6, <2>6a, <3>1, <4>1, <4>2 DEF TagLogged
    <3>2. CASE ~(i = r /\ j = k)
      <4>1. \A b \in Bodies(evs) : ~OnCell(b, i, j)
        BY <2>4, <2>5, <3>2 DEF OnCell
      <4>2. newTags[i][j] = tags[i][j]
        BY <2>3, <3>2
      <4> QED
        BY <4>1, <4>2, <1>TagUntouched
    <3> QED
      BY <3>1, <3>2
  <2>9. Logged(p, row, newTags, Bodies(evs))
    BY <2>7, <2>8 DEF Logged
  <2> QED
    BY <2>1, <2>5, <2>9 DEF Logs
\* The value a batch leaves under a key is that of one of its tags.
<1>LastOfAt. ASSUME NEW batch \in Seq(Pairs), NEW k \in KeysOf(batch)
             PROVE  \E i \in 1 .. Len(batch) : batch[i][1] = k /\ batch[i][2] = LastOf(batch, k)
  <2> USE <1>LastOfAt
  <2> DEFINE at == {i \in 1 .. Len(batch) : batch[i][1] = k}
             last == CHOOSE i \in at : \A j \in at : j <= i
  <2>1. at # {} /\ at \subseteq 1 .. Len(batch) /\ Len(batch) \in Nat
    BY SMTT(60) DEF KeysOf
  <2>2. \E i \in at : \A j \in at : j <= i
    <3> HIDE DEF at
    <3> QED
      BY <2>1, GreatestNat
  <2>3. last \in at
    BY <2>2
  <2>4. LastOf(batch, k) = batch[last][2] /\ batch[last][1] = k
    BY <2>3 DEF LastOf
  <2> HIDE DEF last
  <2> QED
    BY <2>3, <2>4
\* SetTags logs each tag with the value the pre-read found under its key, and the
\* parent it copies to the column with the parent the column has.
<1>SetTagsLogs. ASSUME TypeOK, NEW p \in Procs, SetTags(p)
                PROVE  Logs(p)
  <2> USE <1>SetTagsLogs
  <2> DEFINE r == req[p].run
             batch == req[p].arg
             parent == IF ParentKey \in KeysOf(batch) THEN LastOf(batch, ParentKey) ELSE NoRun
             Ev(i) == TagEvent("tag_set", r, batch[i][1], batch[i][2], req[p].got.tags[r][batch[i][1]])
             sets == [i \in 1 .. Len(batch) |-> Ev(i)]
             newTags == [tags EXCEPT ![r] = Upsert(@, batch)]
             withParent == [row[r] EXCEPT !.parent = parent]
             ev == RunEvent("run_parent", r, row[r])
  <2>1. /\ req[p].pc = "txn" /\ req[p].op = "set" /\ Exists(r)
        /\ \/ Commit(p, row, newTags, sets)
           \/ Commit(p, [row EXCEPT ![r].parent = parent], newTags, Append(sets, ev))
    BY DEF SetTags, InTxn, TagParent
  <2>1a. req[p].pc = "txn" /\ Exists(r)
    BY <2>1
  <2>2. /\ r \in Runs /\ batch \in Seq(Pairs) /\ Len(batch) \in Nat
        /\ row \in [Runs -> Row \cup {NoRow}] /\ tags \in [Runs -> TagsOf]
    <3>1. /\ r \in Runs /\ batch \in Seq(Pairs)
          /\ row \in [Runs -> Row \cup {NoRow}] /\ tags \in [Runs -> TagsOf]
      BY <2>1 DEF TypeOK, ReqOK, ArgOK
    <3> QED
      BY SMTT(60), <3>1
  <2>3. row[r] \in Row
    BY <2>1a, <2>2 DEF Exists
  <2>4. /\ SameUpdated(withParent, row[r]) /\ withParent.stage = row[r].stage /\ withParent.start = row[r].start
    BY <2>3 DEF Row, SameUpdated
  <2>5. [row EXCEPT ![r].parent = parent] = [row EXCEPT ![r] = withParent]
    BY <2>2
  <2>6. \A i \in Runs, k \in AllKeys : newTags[i][k] =
           IF i = r /\ k \in KeysOf(batch) THEN LastOf(batch, k) ELSE tags[i][k]
    <3>1. newTags[r] = Upsert(tags[r], batch) /\ \A i \in Runs : i # r => newTags[i] = tags[i]
      BY <2>2
    <3>2. \A k \in AllKeys : Upsert(tags[r], batch)[k] = IF k \in KeysOf(batch) THEN LastOf(batch, k) ELSE tags[r][k]
      BY DEF Upsert
    <3> HIDE DEF newTags
    <3> QED
      BY <3>1, <3>2
  <2>7. \A i \in 1 .. Len(batch) : /\ Ev(i).kind = "tag_set" /\ Ev(i).run = r /\ Ev(i).key = batch[i][1]
                                   /\ Ev(i).val = batch[i][2]
                                   /\ Ev(i).before = req[p].got.tags[r][batch[i][1]]
    BY DEF TagEvent
  <2>8. ev.kind = "run_parent" /\ ev.run = r /\ ev.before = row[r]
    BY SMTT(60), <1>BodyFields
  <2>9. \A k : k \in KeysOf(batch) => AskedTag(req[p], r, k)
    BY <2>1 DEF AskedTag
  <2>10. \A i \in 1 .. Len(batch) : batch[i][1] \in KeysOf(batch)
    BY DEF KeysOf
  <2> HIDE DEF Ev, ev, withParent, newTags, parent
  <2>11. /\ Len(sets) = Len(batch) /\ \A i \in 1 .. Len(batch) : sets[i] = Ev(i)
    BY SMTT(60), <2>2
  <2>12. sets \in Seq({Ev(i) : i \in 1 .. Len(batch)})
    BY SMTT(60), <2>2
  <2> HIDE DEF sets
  <2>13. /\ Len(Append(sets, ev)) = Len(batch) + 1 /\ Append(sets, ev)[Len(batch) + 1] = ev
         /\ \A i \in 1 .. Len(batch) : Append(sets, ev)[i] = Ev(i)
    BY SMTT(60), <2>2, <2>11, <2>12
  <2> DEFINE B0 == {Ev(i) : i \in 1 .. Len(batch)}
  <2>14. Bodies(sets) = B0
    BY <2>11 DEF Bodies
  <2>15. Bodies(Append(sets, ev)) = B0 \cup {ev}
    <3> DEFINE evs == Append(sets, ev)
               n == Len(batch)
    <3>1. 1 .. n + 1 = (1 .. n) \cup {n + 1}
      BY SMTT(60), <2>2
    <3>2. Len(evs) = n + 1 /\ evs[n + 1] = ev /\ \A i \in 1 .. n : evs[i] = Ev(i)
      BY <2>13
    <3> HIDE DEF evs, n
    <3>3. Bodies(evs) = {evs[i] : i \in (1 .. n) \cup {n + 1}}
      BY <3>1, <3>2 DEF Bodies
    <3>4. {evs[i] : i \in (1 .. n) \cup {n + 1}} = {Ev(i) : i \in 1 .. n} \cup {ev}
      BY <3>2
    <3> QED
      BY <3>3, <3>4 DEF evs, n
  <2>16. ASSUME NEW B, B0 \subseteq B, B \subseteq B0 \cup {ev}, NEW i \in Runs, NEW k \in AllKeys
         PROVE  TagLogged(p, i, k, newTags[i][k], B)
    <3>1. CASE i = r /\ k \in KeysOf(batch)
      <4>1. PICK n \in 1 .. Len(batch) : batch[n][1] = k /\ batch[n][2] = LastOf(batch, k)
        BY <2>2, <3>1, <1>LastOfAt
      <4>2. newTags[i][k] = LastOf(batch, k)
        BY <2>6, <3>1
      <4>3. Ev(n) \in B /\ OnCell(Ev(n), i, k) /\ Ev(n).kind = "tag_set" /\ Ev(n).val = newTags[i][k]
        BY <2>7, <2>16, <3>1, <4>1, <4>2 DEF OnCell
      <4>4. \A b \in B : OnCell(b, i, k) =>
              AskedTag(req[p], i, k) /\ b.before = req[p].got.tags[i][k] /\ b.kind = "tag_set"
        <5> SUFFICES ASSUME NEW b \in B, OnCell(b, i, k)
                     PROVE  b.before = req[p].got.tags[i][k] /\ b.kind = "tag_set"
          BY <2>9, <3>1
        <5>1. b # ev
          BY <2>8 DEF OnCell
        <5>2. PICK m \in 1 .. Len(batch) : b = Ev(m)
          BY <2>16, <5>1
        <5> QED
          BY <2>7, <3>1, <5>2 DEF OnCell
      <4> QED
        BY <4>3, <4>4 DEF TagLogged
    <3>2. CASE ~(i = r /\ k \in KeysOf(batch))
      <4>1. \A b \in B : ~OnCell(b, i, k)
        <5> SUFFICES ASSUME NEW b \in B, OnCell(b, i, k) PROVE FALSE
          OBVIOUS
        <5>1. b # ev
          BY <2>8 DEF OnCell
        <5>2. PICK m \in 1 .. Len(batch) : b = Ev(m)
          BY <2>16, <5>1
        <5> QED
          BY <2>7, <2>10, <3>2, <5>2 DEF OnCell
      <4>2. newTags[i][k] = tags[i][k]
        BY <2>6, <3>2
      <4> QED
        BY <4>1, <4>2, <1>TagUntouched
    <3> QED
      BY <3>1, <3>2
  <2>17. \A b \in B0 : b.kind = "tag_set"
    BY <2>7
  <2> HIDE DEF B0
  <2>18. CASE Commit(p, row, newTags, sets)
    <3>1. \A i \in Runs : RowLogged(p, i, row[i], B0)
      BY <2>17, <1>RowUntouched
    <3>2. \A i \in Runs, k \in AllKeys : TagLogged(p, i, k, newTags[i][k], B0)
      BY <2>16
    <3>3. Logged(p, row, newTags, Bodies(sets))
      BY <2>14, <3>1, <3>2 DEF Logged
    <3>4. Len(sets) \in Nat
      BY <2>2, <2>11
    <3> QED
      BY <2>1a, <2>18, <3>3, <3>4 DEF Logs
  <2>19. CASE Commit(p, [row EXCEPT ![r] = withParent], newTags, Append(sets, ev))
    <3> DEFINE newRow == [row EXCEPT ![r] = withParent]
               B == B0 \cup {ev}
    <3>1. newRow[r] = withParent /\ \A i \in Runs : i # r => newRow[i] = row[i]
      BY <2>2
    <3> HIDE DEF newRow
    <3>2. ASSUME NEW i \in Runs PROVE RowLogged(p, i, newRow[i], B)
      <4>1. CASE i = r
        <5>1. \A b \in B : b = ev \/ b.kind = "tag_set"
          BY <2>17
        <5>2. OnRun(ev, r, "run_parent") /\ ev \in B
          BY <2>8 DEF OnRun
        <5> HIDE DEF B
        <5> QED
          BY <2>4, <2>8, <3>1, <4>1, <5>1, <5>2 DEF RowLogged, OnRun
      <4>2. CASE i # r
        BY <2>8, <2>17, <3>1, <4>2, <1>RowUntouched
      <4> QED
        BY <4>1, <4>2
    <3>3. B0 \subseteq B /\ B \subseteq B0 \cup {ev}
      OBVIOUS
    <3> HIDE DEF B
    <3>4. \A i \in Runs, k \in AllKeys : TagLogged(p, i, k, newTags[i][k], B)
      BY <2>16, <3>3
    <3>5. Logged(p, newRow, newTags, Bodies(Append(sets, ev)))
      BY <2>15, <3>2, <3>4 DEF Logged, B
    <3>6. Len(Append(sets, ev)) \in Nat
      BY SMTT(60), <2>2, <2>13
    <3> QED
      BY <2>1a, <2>19, <3>5, <3>6 DEF Logs, newRow
  <2> QED
    BY <2>1, <2>5, <2>18, <2>19
\* The rows of a SELECT, in whatever order, are all of them.
<1>OrdersOnto. ASSUME NEW S, IsFiniteSet(S), NEW order \in Orders(S)
               PROVE  \A x \in S : \E i \in 1 .. Cardinality(S) : order[i] = x
  <2> USE <1>OrdersOnto
  <2> DEFINE c == Cardinality(S)
             R == {order[i] : i \in 1 .. c}
  <2>1. c \in Nat
    BY FS_CardinalityType
  <2>2. order \in [1 .. c -> S] /\ \A i, j \in 1 .. c : order[i] = order[j] => i = j
    BY DEF Orders
  <2>3. IsFiniteSet(1 .. c) /\ Cardinality(1 .. c) = c
    <3>1. 1 \in Int /\ c \in Int
      BY SMTT(60), <2>1
    <3> HIDE DEF c
    <3>2. IsFiniteSet(1 .. c) /\ Cardinality(1 .. c) = IF 1 > c THEN 0 ELSE c - 1 + 1
      BY <3>1, FS_Interval
    <3> QED
      BY SMTT(60), <2>1, <3>2
  <2> HIDE DEF c
  <2>4. order \in Surjection(1 .. c, R) /\ order \in Injection(1 .. c, R)
    <3>1. order \in [1 .. c -> R]
      BY <2>2
    <3> QED
      BY <2>2, <3>1 DEF Surjection, Injection, IsInjective
  <2>5. Cardinality(R) = c
    <3> HIDE DEF R
    <3> QED
      BY <2>3, <2>4, FS_Surjection
  <2>6. R \in SUBSET S
    BY <2>2
  <2>7. S = R
    <3> HIDE DEF R
    <3> QED
      BY <2>5, <2>6, FS_Subset DEF c
  <2> QED
    BY <2>7 DEF c
\* ArchiveStaleRuns logs, for each run it archives, the row and the tag value the
\* pre-reads found.
<1>ArchiveStaleRunsLogs. ASSUME TypeOK, NEW p \in Procs, ArchiveStaleRuns(p)
                         PROVE  Logs(p)
  <2> USE <1>ArchiveStaleRunsLogs
  <2> DEFINE got == req[p].got
             archived == {r \in req[p].arg.ids : Archivable(r)}
             c == Cardinality(archived)
             Failed(r) == [row[r] EXCEPT !.status = "FAILED", !.end = req[p].arg.now]
             newRow == [r \in Runs |-> IF r \in archived THEN Failed(r) ELSE row[r]]
             newTags == [r \in Runs |-> IF r \in archived
                                        THEN [tags[r] EXCEPT ![ArchivedKey] = Stale] ELSE tags[r]]
             RowEv(r) == RunEvent("run_update", r, got.row[r])
             TagEv(r) == TagEvent("tag_set", r, ArchivedKey, Stale, got.tags[r][ArchivedKey])
             Ev(order, i) == LET r == order[(i + 1) \div 2]
                             IN IF i % 2 = 1 THEN RowEv(r) ELSE TagEv(r)
             evs(order) == [i \in 1 .. 2 * c |-> Ev(order, i)]
  <2>1. /\ req[p].pc = "txn" /\ req[p].op = "archive"
        /\ \E order \in Orders(archived) : Commit(p, newRow, newTags, evs(order))
    BY DEF ArchiveStaleRuns, InTxn
  <2>2. PICK order \in Orders(archived) : Commit(p, newRow, newTags, evs(order))
    BY <2>1
  <2>3. /\ req[p].arg.ids \in SUBSET Runs /\ \A r \in req[p].arg.ids : row[r] # NoRow
        /\ row \in [Runs -> Row \cup {NoRow}] /\ tags \in [Runs -> TagsOf]
    BY <2>1 DEF TypeOK, ReqOK, ArgOK
  <2>4. archived \subseteq Runs /\ \A r \in archived : row[r] \in Row /\ r \in req[p].arg.ids
    BY <2>3
  <2>4a. \A r \in archived : AskedRow(req[p], r) /\ AskedTag(req[p], r, ArchivedKey)
    BY <2>1, <2>4 DEF AskedRow, AskedTag
  <2>5. c \in Nat
    BY <2>4, ConstantTypes
  <2>5a. req[p].pc = "txn"
    BY <2>1
  <2> HIDE DEF archived
  <2>6. order \in [1 .. c -> archived]
    BY DEF Orders
  <2>7. \A r \in archived : \E i \in 1 .. c : order[i] = r
    <3>1. IsFiniteSet(archived)
      BY <2>4, ConstantTypes, FS_Subset
    <3> QED
      BY <3>1, <1>OrdersOnto
  <2>8. \A r \in archived : /\ Failed(r).stage = row[r].stage /\ Failed(r).parent = row[r].parent
                            /\ Failed(r).start = row[r].start
    BY <2>4 DEF Row
  <2>9. \A r \in Runs : newRow[r] = IF r \in archived THEN Failed(r) ELSE row[r]
    OBVIOUS
  <2>10. \A r \in Runs, k \in AllKeys :
           newTags[r][k] = IF r \in archived /\ k = ArchivedKey THEN Stale ELSE tags[r][k]
    <3>1. \A r \in Runs : newTags[r] = IF r \in archived THEN [tags[r] EXCEPT ![ArchivedKey] = Stale] ELSE tags[r]
      OBVIOUS
    <3> HIDE DEF newTags
    <3>2. \A r \in Runs, k \in AllKeys :
            [tags[r] EXCEPT ![ArchivedKey] = Stale][k] = IF k = ArchivedKey THEN Stale ELSE tags[r][k]
      <4> TAKE r \in Runs, k \in AllKeys
      <4>1. tags[r] \in TagsOf
        BY <2>3
      <4> QED
        BY <4>1 DEF TagsOf
    <3> TAKE r \in Runs, k \in AllKeys
    <3>3. CASE r \in archived
      <4>1. newTags[r] = [tags[r] EXCEPT ![ArchivedKey] = Stale]
        BY <3>1, <3>3
      <4>2. newTags[r][k] = [tags[r] EXCEPT ![ArchivedKey] = Stale][k]
        BY <4>1
      <4>3. [tags[r] EXCEPT ![ArchivedKey] = Stale][k] = IF k = ArchivedKey THEN Stale ELSE tags[r][k]
        BY <3>2
      <4> QED
        BY <3>3, <4>2, <4>3
    <3>4. CASE r \notin archived
      <4>1. newTags[r] = tags[r]
        BY <3>1, <3>4
      <4> QED
        BY <3>4, <4>1
    <3> QED
      BY <3>3, <3>4
  <2>11. \A r : /\ RowEv(r).kind = "run_update" /\ RowEv(r).run = r /\ RowEv(r).before = req[p].got.row[r]
                /\ TagEv(r).kind = "tag_set" /\ TagEv(r).run = r /\ TagEv(r).key = ArchivedKey
                /\ TagEv(r).val = Stale /\ TagEv(r).before = req[p].got.tags[r][ArchivedKey]
    BY DEF RunEvent, TagEvent
  <2> HIDE DEF newRow, newTags, Failed, RowEv, TagEv, got
  <2> DEFINE B == {RowEv(r) : r \in archived} \cup {TagEv(r) : r \in archived}
  <2>12. Len(evs(order)) = 2 * c /\ \A i \in 1 .. 2 * c : evs(order)[i] = Ev(order, i)
    <3> HIDE DEF Ev, c
    <3>1. 2 * c \in Nat
      BY SMTT(60), <2>5
    <3> QED
      BY SMTT(60), <3>1
  <2>13. \A i \in 1 .. 2 * c : Ev(order, i) \in B
    <3> TAKE i \in 1 .. 2 * c
    <3> HIDE DEF c
    <3>1. (i + 1) \div 2 \in 1 .. c
      BY SMTT(60), <2>5
    <3>2. order[(i + 1) \div 2] \in archived
      BY <2>6, <3>1
    <3> QED
      BY <3>2
  <2>14. \A r \in archived : \E i \in 1 .. 2 * c : Ev(order, i) = RowEv(r)
    <3> TAKE r \in archived
    <3>1. PICK j \in 1 .. c : order[j] = r
      BY <2>7
    <3> HIDE DEF c
    <3>2. 2 * j - 1 \in 1 .. 2 * c /\ (2 * j - 1 + 1) \div 2 = j /\ (2 * j - 1) % 2 = 1
      BY SMTT(60), <2>5
    <3> QED
      BY <3>1, <3>2
  <2>15. \A r \in archived : \E i \in 1 .. 2 * c : Ev(order, i) = TagEv(r)
    <3> TAKE r \in archived
    <3>1. PICK j \in 1 .. c : order[j] = r
      BY <2>7
    <3> HIDE DEF c
    <3>2. 2 * j \in 1 .. 2 * c /\ (2 * j + 1) \div 2 = j /\ (2 * j) % 2 # 1
      BY SMTT(60), <2>5
    <3> QED
      BY <3>1, <3>2
  <2> HIDE DEF evs, Ev
  <2>16. Bodies(evs(order)) = B
    <3>1. \A b \in B : \E i \in 1 .. 2 * c : b = Ev(order, i)
      BY <2>14, <2>15
    <3> HIDE DEF B, c
    <3>2. Bodies(evs(order)) = {Ev(order, i) : i \in 1 .. 2 * c}
      BY <2>12 DEF Bodies
    <3> QED
      BY <2>13, <3>1, <3>2
  <2>17. \A b \in B : \E r \in archived : b = RowEv(r) \/ b = TagEv(r)
    OBVIOUS
  <2>18. \A r \in archived : RowEv(r) \in B /\ TagEv(r) \in B
    OBVIOUS
  <2> HIDE DEF B
  <2>19. ASSUME NEW r \in Runs PROVE RowLogged(p, r, newRow[r], B)
    <3>0. \A b \in B : b.run = r /\ b.kind \notin {"tag_set", "tag_delete"} => r \in archived /\ b = RowEv(r)
      <4> SUFFICES ASSUME NEW b \in B, b.run = r, b.kind \notin {"tag_set", "tag_delete"}
                   PROVE  r \in archived /\ b = RowEv(r)
        OBVIOUS
      <4>1. PICK i \in archived : b = RowEv(i) \/ b = TagEv(i)
        BY <2>17
      <4>2. b = RowEv(i)
        BY <2>11, <4>1
      <4>3. i = r
        BY <2>11, <4>2
      <4> QED
        BY <4>2, <4>3
    <3>1. CASE r \in archived
      <4>1. newRow[r] = Failed(r)
        BY <2>9, <3>1
      <4>2. RowEv(r) \in B /\ OnRun(RowEv(r), r, "run_update")
        BY <2>11, <2>18, <3>1 DEF OnRun
      <4>3. \A b \in B : /\ OnRun(b, r, "run_update") => b = RowEv(r)
                         /\ ~OnRun(b, r, "run_lifecycle") /\ ~OnRun(b, r, "run_parent")
        BY <2>11, <3>0 DEF OnRun
      <4> QED
        BY <2>4a, <2>8, <2>11, <3>1, <4>1, <4>2, <4>3 DEF RowLogged
    <3>2. CASE r \notin archived
      <4>1. newRow[r] = row[r]
        BY <2>9, <3>2
      <4> QED
        BY <3>0, <3>2, <4>1, <1>RowUntouched
    <3> QED
      BY <3>1, <3>2
  <2>20. ASSUME NEW r \in Runs, NEW k \in AllKeys PROVE TagLogged(p, r, k, newTags[r][k], B)
    <3>0. \A b \in B : OnCell(b, r, k) => r \in archived /\ k = ArchivedKey /\ b = TagEv(r)
      <4> SUFFICES ASSUME NEW b \in B, OnCell(b, r, k)
                   PROVE  r \in archived /\ k = ArchivedKey /\ b = TagEv(r)
        OBVIOUS
      <4>1. PICK i \in archived : b = RowEv(i) \/ b = TagEv(i)
        BY <2>17
      <4>2. b = TagEv(i)
        BY <2>11, <4>1 DEF OnCell
      <4>3. i = r /\ k = ArchivedKey
        BY <2>11, <4>2 DEF OnCell
      <4> QED
        BY <4>2, <4>3
    <3>1. CASE r \in archived /\ k = ArchivedKey
      <4>1. newTags[r][k] = Stale
        BY <2>10, <3>1
      <4>2. TagEv(r) \in B /\ OnCell(TagEv(r), r, k)
        BY <2>11, <2>18, <3>1 DEF OnCell
      <4> QED
        BY <2>4a, <2>11, <3>0, <3>1, <4>1, <4>2 DEF TagLogged
    <3>2. CASE ~(r \in archived /\ k = ArchivedKey)
      <4>1. newTags[r][k] = tags[r][k]
        BY <2>10, <3>2
      <4>2. \A b \in B : ~OnCell(b, r, k)
        BY <3>0, <3>2
      <4> QED
        BY <4>1, <4>2, <1>TagUntouched
    <3> QED
      BY <3>1, <3>2
  <2>21. Logged(p, newRow, newTags, Bodies(evs(order)))
    BY <2>16, <2>19, <2>20 DEF Logged
  <2>22. Len(evs(order)) \in Nat
    <3> HIDE DEF c
    <3> QED
      BY SMTT(60), <2>5, <2>12
  <2> QED
    BY <2>2, <2>5a, <2>21, <2>22 DEF Logs
\* The event rows say what their payloads say.
<1>LoggedByRows. ASSUME NEW N, NEW B, SameBodies(N, B), NEW p, NEW newRow, NEW newTags, Logged(p, newRow, newTags, B)
                 PROVE  Logged(p, newRow, newTags, N)
  <2> USE <1>LoggedByRows
  <2>1. ASSUME NEW r \in Runs, Exists(r) PROVE RowLogged(p, r, newRow[r], N)
    <3>1. RowLogged(p, r, newRow[r], B)
      BY <2>1 DEF Logged
    <3>2. \A n \in N : \E b \in B : n.before = b.before /\ \A kind : OnRun(n, r, kind) => OnRun(b, r, kind)
      <4> TAKE n \in N
      <4>1. PICK b \in B : SameBody(n, b)
        BY DEF SameBodies
      <4> QED
        BY <4>1 DEF SameBody, OnRun
    <3>3. \A b \in B : \E n \in N : \A kind : OnRun(b, r, kind) => OnRun(n, r, kind)
      <4> TAKE b \in B
      <4>1. PICK n \in N : SameBody(n, b)
        BY DEF SameBodies
      <4> QED
        BY <4>1 DEF SameBody, OnRun
    <3> QED
      BY <3>1, <3>2, <3>3 DEF RowLogged
  <2>2. ASSUME NEW r \in Runs, NEW k \in AllKeys PROVE TagLogged(p, r, k, newTags[r][k], N)
    <3>1. TagLogged(p, r, k, newTags[r][k], B)
      BY DEF Logged
    <3>2. \A n \in N : \E b \in B : n.before = b.before /\ n.kind = b.kind /\ (OnCell(n, r, k) => OnCell(b, r, k))
      <4> TAKE n \in N
      <4>1. PICK b \in B : SameBody(n, b)
        BY DEF SameBodies
      <4> QED
        BY <4>1 DEF SameBody, OnCell
    <3>3. \A b \in B : \E n \in N : /\ n.val = b.val /\ n.kind = b.kind
                                    /\ OnCell(b, r, k) => OnCell(n, r, k)
      <4> TAKE b \in B
      <4>1. PICK n \in N : SameBody(n, b)
        BY DEF SameBodies
      <4> QED
        BY <4>1 DEF SameBody, OnCell
    <3> QED
      BY SMTT(60), <3>1, <3>2, <3>3 DEF TagLogged
  <2> QED
    BY <2>1, <2>2 DEF Logged
\* A mutator that logs what it changes commits in this sense.
<1>LogsAdds. ASSUME TypeOK, LogOrdered, NEW p \in Procs, Logs(p)
             PROVE  Adds(p)
  <2> USE <1>LogsAdds
  <2>1. PICK newRow, newTags, evs : /\ Len(evs) \in Nat
                                    /\ Logged(p, newRow, newTags, Bodies(evs))
                                    /\ Commit(p, newRow, newTags, evs)
    BY DEF Logs
  <2>2. PICK s \in Stamps(p, Len(evs)) : /\ events' = events \cup Stamped(evs, s)
                                         /\ log' = log \cup Stamped(evs, s)
    BY <2>1 DEF Commit
  <2>3. /\ row' = newRow /\ tags' = newTags /\ nextId' = nextId + Len(evs)
        /\ lock' = NoProc /\ req' = [req EXCEPT ![p] = After(p, TRUE)]
        /\ rd' = rd /\ clock' = clock /\ past' = past /\ horizon' = horizon
    BY <2>1 DEF Commit
  <2>3a. req[p].pc = "txn"
    BY DEF Logs
  <2>4. lock = p /\ nextId \in Nat /\ clock \in Nat /\ req[p].t0 \in Nat /\ Len(evs) \in Nat
    BY <2>1, <2>3a, HolderFacts
  <2> DEFINE S == Stamped(evs, s)
  <2>5. ASSUME NEW i \in 1 .. Len(evs)
        PROVE  LET e == EventRow(evs[i], nextId + i - 1, s[i])
               IN /\ e.id = nextId + i - 1 /\ e.ts = s[i] /\ SameBody(e, evs[i])
                  /\ e.id \in Nat /\ e.id >= nextId /\ e.id < nextId + Len(evs)
                  /\ e.ts \in Nat /\ e.ts >= req[p].t0
    <3> DEFINE e == EventRow(evs[i], nextId + i - 1, s[i])
    <3>1. e.id = nextId + i - 1 /\ e.ts = s[i] /\ SameBody(e, evs[i])
      BY DEF EventRow, SameBody
    <3> HIDE DEF e
    <3>2. s[i] \in req[p].t0 .. clock
      BY DEF Stamps
    <3>3. e.id \in Nat /\ e.id >= nextId /\ e.id < nextId + Len(evs) /\ e.ts \in Nat /\ e.ts >= req[p].t0
      BY SMTT(60), <2>4, <3>1, <3>2
    <3> QED
      BY <3>1, <3>3 DEF e
  <2>6. \A e \in S : \E i \in 1 .. Len(evs) : e = EventRow(evs[i], nextId + i - 1, s[i])
    BY DEF Stamped
  <2>7. \A i \in 1 .. Len(evs) : EventRow(evs[i], nextId + i - 1, s[i]) \in S
    BY DEF Stamped
  <2> HIDE DEF S
  <2>8. \A e \in S : /\ e.id \in Nat /\ e.id >= nextId /\ e.id < nextId + Len(evs)
                     /\ e.ts \in Nat /\ e.ts >= req[p].t0
    BY <2>5, <2>6
  <2>9. \A e \in events : e.id \in Nat /\ e.id < nextId
    BY EventsOrdered DEF Ordered, LogOrdered
  <2>10. NewRows = S
    <3>1. \A e \in events : ~(e.id >= nextId)
      BY SMTT(60), <2>4, <2>9
    <3> QED
      BY <2>2, <2>8, <3>1 DEF NewRows, S
  <2>11. SameBodies(S, Bodies(evs))
    <3>1. \A e \in S : \E b \in Bodies(evs) : SameBody(e, b)
      BY <2>5, <2>6 DEF Bodies
    <3>2. \A b \in Bodies(evs) : \E e \in S : SameBody(e, b)
      BY <2>5, <2>7 DEF Bodies
    <3> QED
      BY <3>1, <3>2 DEF SameBodies
  <2>12. Logged(p, row', tags', S)
    BY <2>1, <2>3, <2>11, <1>LoggedByRows
  <2>13. nextId' >= nextId
    BY SMTT(60), <2>3, <2>4
  <2>14. events' = events \cup S /\ log' = log \cup S
    BY <2>2 DEF S
  <2> QED
    BY <2>3, <2>3a, <2>4, <2>8, <2>10, <2>12, <2>13, <2>14 DEF Adds
<1> QED
  BY <1>LogsAdds, <1>CreateRunLogs, <1>UpdateRunLogs, <1>SetRunLifecycleLogs, <1>SetTagsLogs, <1>DeleteTagLogs,
     <1>ArchiveStaleRunsLogs DEF Serve

-----------------------------------------------------------------------------
(* How a request moves.                                                     *)

\* A request that has read nothing still wants every cell its mutator asks for.
Covers(q) == /\ \A r \in Runs : AskedRow(q, r) => RowCell(r) \in q.want
             /\ \A r \in Runs, k \in AllKeys : AskedTag(q, r, k) => TagCell(r, k) \in q.want
Starts(q) == q.got = NothingRead /\ Covers(q)
SameAsk(o, q) == q.op = o.op /\ q.run = o.run /\ q.arg = o.arg

\* The pre-read of cell c takes it from the cells wanted and puts its value in got.
Reads(o, q, c) ==
  /\ c \in o.want /\ q.want = o.want \ {c}
  /\ \A r \in Runs : q.got.row[r] = IF c = RowCell(r) THEN row[r] ELSE o.got.row[r]
  /\ \A r \in Runs, k \in AllKeys :
       q.got.tags[r][k] = IF c = TagCell(r, k) THEN tags[r][k] ELSE o.got.tags[r][k]

Moves(o, q) ==
  \/ Starts(q)
  \/ SameAsk(o, q) /\ q.want = o.want /\ q.got = o.got
  \/ SameAsk(o, q) /\ \E c : Reads(o, q, c)

\* No goroutine without a request asks for anything, nor does the pruning.
LEMMA QuietStarts ==
  Starts(IdleReq) /\ \A tick : Starts(PruneRequest(tick))
<1>1. IdleReq.op = "none" /\ IdleReq.got = NothingRead
  BY DEF IdleReq
<1>2. \A tick : PruneRequest(tick).op = "prune" /\ PruneRequest(tick).got = NothingRead
  BY DEF PruneRequest
<1> QED
  BY <1>1, <1>2 DEF Starts, Covers, AskedRow, AskedTag

\* SetTag and SetTags ask for the keys of their batch.
LEMMA SetStarts ==
  ASSUME NEW r, NEW batch, NEW rest
  PROVE  Starts(SetRequest(r, batch, rest))
<1> DEFINE want == {TagCell(r, batch[i][1]) : i \in 1 .. Len(batch)}
           q == SetRequest(r, batch, rest)
<1>1. q.op = "set" /\ q.run = r /\ q.arg = batch /\ q.want = want /\ q.got = NothingRead
  BY DEF SetRequest, Request
<1>2. \A k \in KeysOf(batch) : TagCell(r, k) \in want
  BY DEF KeysOf
<1> HIDE DEF q, want
<1> QED
  BY <1>1, <1>2 DEF Starts, Covers, AskedRow, AskedTag, q

\* So does every request that arrives.
LEMMA ArrivalStarts ==
  ASSUME NEW p \in Writers, Arrival(p)
  PROVE  \E q : Starts(q) /\ Arrive(p, q)
<1>1. PICK r \in Runs :
        \/ \E b \in Batches \cup {<<>>} : \E start \in ClientStarts \cup {clock} : CreateRunArrives(p, r, start, b)
        \/ \E u \in Updates : UpdateRunArrives(p, r, u)
        \/ \E stage \in Lifecycles : SetRunLifecycleArrives(p, r, stage)
        \/ \E b \in Batches : SetTagsArrives(p, r, b)
        \/ \E k \in Deletes : DeleteTagArrives(p, r, k)
  BY DEF Arrival
<1>2. ASSUME NEW b, NEW start, CreateRunArrives(p, r, start, b) PROVE \E q : Starts(q) /\ Arrive(p, q)
  <2> DEFINE q == Request("create", r, [start |-> start, parent |-> FirstParent(b)], {}, b)
  <2>1. q.op = "create" /\ q.got = NothingRead
    BY DEF Request
  <2>2. Arrive(p, q)
    BY <1>2 DEF CreateRunArrives
  <2> HIDE DEF q
  <2>3. Starts(q)
    BY <2>1 DEF Starts, Covers, AskedRow, AskedTag
  <2> QED
    BY <2>2, <2>3
<1>3. ASSUME NEW op \in {"update", "lifecycle"}, NEW arg, Arrive(p, Request(op, r, arg, {RowCell(r)}, <<>>))
      PROVE  \E q : Starts(q) /\ Arrive(p, q)
  <2> DEFINE q == Request(op, r, arg, {RowCell(r)}, <<>>)
  <2>1. q.op = op /\ q.run = r /\ q.want = {RowCell(r)} /\ q.got = NothingRead
    BY DEF Request
  <2> HIDE DEF q
  <2>2. Starts(q)
    BY <2>1 DEF Starts, Covers, AskedRow, AskedTag
  <2> QED
    BY <1>3, <2>2 DEF q
<1>4. ASSUME NEW k, DeleteTagArrives(p, r, k) PROVE \E q : Starts(q) /\ Arrive(p, q)
  <2> DEFINE q == Request("delete", r, k, {TagCell(r, k)}, <<>>)
  <2>1. q.op = "delete" /\ q.run = r /\ q.arg = k /\ q.want = {TagCell(r, k)} /\ q.got = NothingRead
    BY DEF Request
  <2>2. Arrive(p, q)
    BY <1>4 DEF DeleteTagArrives
  <2> HIDE DEF q
  <2>3. Starts(q)
    BY <2>1 DEF Starts, Covers, AskedRow, AskedTag
  <2> QED
    BY <2>2, <2>3
<1>5. ASSUME NEW b, SetTagsArrives(p, r, b) PROVE \E q : Starts(q) /\ Arrive(p, q)
  BY <1>5, SetStarts DEF SetTagsArrives
<1>6. ASSUME NEW u, UpdateRunArrives(p, r, u) PROVE \E q : Starts(q) /\ Arrive(p, q)
  BY <1>3, <1>6 DEF UpdateRunArrives
<1>7. ASSUME NEW stage, SetRunLifecycleArrives(p, r, stage) PROVE \E q : Starts(q) /\ Arrive(p, q)
  BY <1>3, <1>7 DEF SetRunLifecycleArrives
<1> QED
  BY <1>1, <1>2, <1>4, <1>5, <1>6, <1>7

\* captureRunBefore and readTagValue read one cell.
LEMMA PreReadMoves ==
  ASSUME TypeOK, NEW p \in Procs, PreRead(p)
  PROVE  \E q : /\ SameAsk(req[p], q) /\ (\E c : Reads(req[p], q, c))
                /\ req' = [req EXCEPT ![p] = q]
<1>1. PICK c \in req[p].want :
        req' = [req EXCEPT ![p].want = @ \ {c},
                           ![p].got = IF c.key = "row" THEN [@ EXCEPT !.row[c.run] = row[c.run]]
                                      ELSE [@ EXCEPT !.tags[c.run][c.key] = tags[c.run][c.key]]]
  BY DEF PreRead
<1> DEFINE o == req[p]
           got == IF c.key = "row" THEN [o.got EXCEPT !.row[c.run] = row[c.run]]
                  ELSE [o.got EXCEPT !.tags[c.run][c.key] = tags[c.run][c.key]]
           q == [o EXCEPT !.want = @ \ {c}, !.got = got]
           Got == [row : [Runs -> Row \cup {NoRow}], tags : [Runs -> TagsOf]]
<1>2. ReqOK(p, o, clock, row) /\ req = [x \in Procs |-> req[x]]
  BY DEF TypeOK
<1>3. /\ c.run \in Runs /\ c.key \in AllKeys \cup {"row"} /\ o.got \in Got
      /\ c = [run |-> c.run, key |-> c.key]
  BY <1>2 DEF ReqOK
<1>4. req' = [req EXCEPT ![p] = q]
  BY <1>1, <1>2
<1>5. /\ \A r \in Runs : got.row[r] = IF c = RowCell(r) THEN row[r] ELSE o.got.row[r]
      /\ \A r \in Runs, k \in AllKeys :
           got.tags[r][k] = IF c = TagCell(r, k) THEN tags[r][k] ELSE o.got.tags[r][k]
  <2> HIDE DEF o
  <2>0. /\ \A r : c = RowCell(r) <=> c.key = "row" /\ c.run = r
        /\ \A r, k : c = TagCell(r, k) <=> c.key = k /\ c.run = r
    BY SMTT(60), <1>3 DEF RowCell, TagCell
  <2>1. CASE c.key = "row"
    <3>1. got = [o.got EXCEPT !.row[c.run] = row[c.run]]
      BY <2>1
    <3>2. got.tags = o.got.tags /\ got.row = [o.got.row EXCEPT ![c.run] = row[c.run]]
      BY <1>3, <3>1
    <3>3. \A r \in Runs : got.row[r] = IF c.run = r THEN row[r] ELSE o.got.row[r]
      BY <1>3, <3>2
    <3>4. \A k \in AllKeys : k # "row"
      BY ConstantsDistinct
    <3> HIDE DEF got
    <3> QED
      BY SMTT(60), <2>0, <2>1, <3>2, <3>3, <3>4
  <2>2. CASE c.key # "row"
    <3>0. c.key \in AllKeys /\ o.got.tags[c.run] \in TagsOf
      BY <1>3, <2>2
    <3>1. got = [o.got EXCEPT !.tags[c.run][c.key] = tags[c.run][c.key]]
      BY <2>2
    <3>2. /\ got.row = o.got.row
          /\ got.tags = [o.got.tags EXCEPT ![c.run] = [o.got.tags[c.run] EXCEPT ![c.key] = tags[c.run][c.key]]]
      BY <1>3, <3>1
    <3>3. /\ got.tags[c.run] = [o.got.tags[c.run] EXCEPT ![c.key] = tags[c.run][c.key]]
          /\ \A r \in Runs : r # c.run => got.tags[r] = o.got.tags[r]
      BY <1>3, <3>2
    <3>4. \A k \in AllKeys : [o.got.tags[c.run] EXCEPT ![c.key] = tags[c.run][c.key]][k]
                               = IF k = c.key THEN tags[c.run][k] ELSE o.got.tags[c.run][k]
      BY <3>0 DEF TagsOf
    <3> HIDE DEF got
    <3>5. \A r \in Runs : got.row[r] = IF c = RowCell(r) THEN row[r] ELSE o.got.row[r]
      BY <2>0, <2>2, <3>2
    <3>6. ASSUME NEW r \in Runs, NEW k \in AllKeys
          PROVE  got.tags[r][k] = IF c = TagCell(r, k) THEN tags[r][k] ELSE o.got.tags[r][k]
      <4>1. CASE r = c.run
        <5>1. got.tags[r][k] = [o.got.tags[c.run] EXCEPT ![c.key] = tags[c.run][c.key]][k]
          BY <3>3, <4>1
        <5>2. got.tags[r][k] = IF k = c.key THEN tags[c.run][k] ELSE o.got.tags[c.run][k]
          BY <3>4, <5>1
        <5>3. c = TagCell(r, k) <=> k = c.key
          BY <2>0, <4>1
        <5> QED
          BY <4>1, <5>2, <5>3
      <4>2. CASE r # c.run
        BY <2>0, <3>3, <4>2
      <4> QED
        BY <4>1, <4>2
    <3> QED
      BY <3>5, <3>6
  <2> QED
    BY <2>1, <2>2
<1> HIDE DEF got
<1>6. /\ q.op = o.op /\ q.run = o.run /\ q.arg = o.arg /\ q.want = o.want \ {c} /\ q.got = got
  BY <1>2 DEF ReqOK
<1> HIDE DEF q
<1>7. SameAsk(o, q) /\ Reads(o, q, c)
  BY <1>5, <1>6 DEF SameAsk, Reads
<1> QED
  BY <1>4, <1>7

\* BeginTx leaves what the request asks for and has read.
LEMMA BeginTxMoves ==
  ASSUME TypeOK, NEW p \in Procs, BeginTx(p)
  PROVE  \E q : /\ SameAsk(req[p], q) /\ q.want = req[p].want /\ q.got = req[p].got
                /\ req' = [req EXCEPT ![p] = q]
<1> DEFINE q == [req[p] EXCEPT !.pc = "txn", !.t0 = clock]
<1>1. req' = [req EXCEPT ![p].pc = "txn", ![p].t0 = clock]
  BY DEF BeginTx
<1>2. ReqOK(p, req[p], clock, row) /\ req = [x \in Procs |-> req[x]]
  BY DEF TypeOK
<1>3. req' = [req EXCEPT ![p] = q]
  BY <1>1, <1>2
<1>4. q.op = req[p].op /\ q.run = req[p].run /\ q.arg = req[p].arg /\ q.want = req[p].want /\ q.got = req[p].got
  BY <1>2 DEF ReqOK
<1> HIDE DEF q
<1> QED
  BY <1>3, <1>4 DEF SameAsk

\* Every step leaves the requests alone, drops them all, or moves one of them; the
\* tables change only when the one that moves commits.
LEMMA RequestStep ==
  TypeOK /\ LogOrdered /\ [Next]_vars =>
    \/ req' = req /\ row' = row /\ tags' = tags
    \/ req' = [p \in Procs |-> IdleReq] /\ row' = row /\ tags' = tags
    \/ \E p \in Procs : \E q :
         /\ req' = [req EXCEPT ![p] = q] /\ Moves(req[p], q)
         /\ req[p].pc = "idle" => Starts(q) /\ Cardinality(InFlight) < MaxInFlight
         /\ (row' = row /\ tags' = tags) \/ Starts(q)
\* What follows an answer starts afresh.
<1>AfterStarts. ASSUME NEW p, NEW ok
                PROVE  Starts(After(p, ok))
  <2> USE <1>AfterStarts
  <2>1. \A tick : Starts(AfterArchive(tick))
    BY QuietStarts DEF AfterArchive
  <2>2. \/ \E tick : After(p, ok) = AfterArchive(tick)
        \/ After(p, ok) = IdleReq
        \/ \E r, batch, rest : After(p, ok) = SetRequest(r, batch, rest)
    BY DEF After
  <2> QED
    BY <2>1, <2>2, QuietStarts, SetStarts
\* The janitor asks for the row and the tag of every stale run.
<1>JanitorStarts. ASSUME JanitorTick
                  PROVE  \E q : Starts(q) /\ req' = [req EXCEPT ![Janitor] = q]
  <2> USE <1>JanitorStarts
  <2> DEFINE ids == StaleRuns(clock - StaleAfter)
             cells == UNION {{RowCell(r), TagCell(r, ArchivedKey)} : r \in ids}
             arg == [ids |-> ids, now |-> clock]
             archive == Request("archive", NoRun, arg, cells, <<>>)
  <2>1. req' = [req EXCEPT ![Janitor] = IF ids = {} THEN AfterArchive(clock) ELSE archive]
    BY DEF JanitorTick
  <2>2. archive.op = "archive" /\ archive.arg = arg /\ archive.want = cells /\ archive.got = NothingRead
    BY DEF Request
  <2>3. arg.ids = ids
    OBVIOUS
  <2>4. \A r \in ids : RowCell(r) \in cells /\ TagCell(r, ArchivedKey) \in cells
    <3> HIDE DEF ids
    <3> QED
      OBVIOUS
  <2> HIDE DEF archive, cells, arg, ids
  <2>5. Starts(archive)
    BY <2>2, <2>3, <2>4 DEF Starts, Covers, AskedRow, AskedTag
  <2>6. Starts(AfterArchive(clock))
    BY QuietStarts DEF AfterArchive
  <2> QED
    BY <2>1, <2>5, <2>6
<1> SUFFICES ASSUME TypeOK, LogOrdered, [Next]_vars
             PROVE  \/ req' = req /\ row' = row /\ tags' = tags
                    \/ req' = [p \in Procs |-> IdleReq] /\ row' = row /\ tags' = tags
                    \/ \E p \in Procs : \E q :
                         /\ req' = [req EXCEPT ![p] = q] /\ Moves(req[p], q)
                         /\ req[p].pc = "idle" => Starts(q) /\ Cardinality(InFlight) < MaxInFlight
                         /\ (row' = row /\ tags' = tags) \/ Starts(q)
  OBVIOUS
<1> DEFINE Goal == \/ req' = req /\ row' = row /\ tags' = tags
                   \/ req' = [p \in Procs |-> IdleReq] /\ row' = row /\ tags' = tags
                   \/ \E p \in Procs : \E q :
                        /\ req' = [req EXCEPT ![p] = q] /\ Moves(req[p], q)
                        /\ req[p].pc = "idle" => Starts(q) /\ Cardinality(InFlight) < MaxInFlight
                        /\ (row' = row /\ tags' = tags) \/ Starts(q)
<1>0. ASSUME NEW p \in Procs, NEW q, req' = [req EXCEPT ![p] = q], Starts(q),
             req[p].pc = "idle" => Cardinality(InFlight) < MaxInFlight
      PROVE  Goal
  BY <1>0 DEF Moves
<1>0a. ASSUME NEW p \in Procs, NEW q, req' = [req EXCEPT ![p] = q], Moves(req[p], q), req[p].pc # "idle",
              row' = row, tags' = tags
       PROVE  Goal
  BY <1>0a
<1>1. CASE Tick \/ (\E p \in Readers : Read(p)) \/ UNCHANGED vars
  BY <1>1 DEF Tick, Read, GetRunAsOf, ScanEvents, ReadTags, db, vars
<1>2. CASE Crash
  BY <1>2 DEF Crash, db
<1> HIDE DEF Goal
<1>3. ASSUME JanitorTick PROVE Goal
  <2>1. Janitor \in Procs /\ Cardinality(InFlight) < MaxInFlight
    BY <1>3 DEF JanitorTick, Procs
  <2>2. PICK q : Starts(q) /\ req' = [req EXCEPT ![Janitor] = q]
    BY <1>3, <1>JanitorStarts
  <2> QED
    BY <1>0, <2>1, <2>2
<1>4. ASSUME NEW p \in Writers, Arrival(p) PROVE Goal
  <2>1. PICK q : Starts(q) /\ Arrive(p, q)
    BY <1>4, ArrivalStarts
  <2>2. p \in Procs /\ Cardinality(InFlight) < MaxInFlight /\ req' = [req EXCEPT ![p] = q]
    BY <2>1 DEF Arrive, Procs
  <2> QED
    BY <1>0, <2>1, <2>2
<1>5. ASSUME NEW p \in Procs, Serve(p) PROVE Goal
  <2>1. CASE PreRead(p)
    <3>1. row' = row /\ tags' = tags /\ req[p].pc # "idle"
      BY <2>1 DEF PreRead, db
    <3>2. PICK q : SameAsk(req[p], q) /\ (\E c : Reads(req[p], q, c)) /\ req' = [req EXCEPT ![p] = q]
      BY <2>1, PreReadMoves
    <3>3. Moves(req[p], q)
      BY <3>2 DEF Moves
    <3> QED
      BY <1>0a, <3>1, <3>2, <3>3
  <2>2. CASE BeginTx(p)
    <3>1. row' = row /\ tags' = tags /\ req[p].pc # "idle"
      BY <2>2 DEF BeginTx, db
    <3>2. PICK q : /\ SameAsk(req[p], q) /\ q.want = req[p].want /\ q.got = req[p].got
                   /\ req' = [req EXCEPT ![p] = q]
      BY <2>2, BeginTxMoves
    <3>3. Moves(req[p], q)
      BY <3>2 DEF Moves
    <3> QED
      BY <1>0a, <3>1, <3>2, <3>3
  <2>3. CASE Fail(p)
    <3>1. req[p].pc # "idle" /\ req' = [req EXCEPT ![p] = After(p, FALSE)]
      BY <2>3 DEF Fail
    <3> QED
      BY <1>0, <3>1, <1>AfterStarts
  <2>4. CASE Adds(p)
    <3>1. req[p].pc # "idle" /\ req' = [req EXCEPT ![p] = After(p, TRUE)]
      BY <2>4 DEF Adds
    <3> QED
      BY <1>0, <3>1, <1>AfterStarts
  <2>5. CASE PruneEventsBefore(p)
    <3>1. req[p].pc # "idle" /\ req' = [req EXCEPT ![p] = IdleReq]
      BY <2>5 DEF PruneEventsBefore
    <3> QED
      BY <1>0, <3>1, QuietStarts
  <2> QED
    BY <1>5, <2>1, <2>2, <2>3, <2>4, <2>5, ServeAdds
<1> QED
  BY <1>1, <1>2, <1>3, <1>4, <1>5 DEF Next, Goal

\* Every step leaves the tables and the log alone, commits, or prunes.
LEMMA TableStep ==
  ASSUME TypeOK, LogOrdered, [Next]_vars
  PROVE  \/ UNCHANGED <<row, tags, events, nextId, log, horizon>>
         \/ \E p \in Procs : Adds(p)
         \/ \E p \in Procs : PruneEventsBefore(p)
<1>1. CASE Tick \/ Crash \/ JanitorTick \/ (\E p \in Readers : Read(p)) \/ UNCHANGED vars
  BY <1>1 DEF Tick, Crash, JanitorTick, Read, GetRunAsOf, ScanEvents, ReadTags, db, hist, vars
<1>2. ASSUME NEW p \in Writers, Arrival(p) PROVE UNCHANGED <<row, tags, events, nextId, log, horizon>>
  <2>1. PICK q : Arrive(p, q)
    BY <1>2, ArrivalStarts
  <2> QED
    BY <2>1 DEF Arrive, db, hist
<1>3. ASSUME NEW p \in Procs, PreRead(p) \/ BeginTx(p) \/ Fail(p)
      PROVE  UNCHANGED <<row, tags, events, nextId, log, horizon>>
  BY <1>3 DEF PreRead, BeginTx, Fail, db, hist
<1> QED
  BY <1>1, <1>2, <1>3, ServeAdds DEF Next

-----------------------------------------------------------------------------
(* No as-of read shows a tag value from after T.                            *)

IsSet(f, r, k, v) == f.kind = "tag_set" /\ f.run = r /\ f.key = k /\ f.val = v
Written(L, v, r, k) == v = Absent \/ \E f \in L : IsSet(f, r, k, v)
IsTag(e) == e.kind \in {"tag_set", "tag_delete"}

\* Every value in the tag table, in a pre-read or in a `before` was logged by a
\* tag_set earlier; and what the log has since the last prune is in the table.
LogInv ==
  /\ events \subseteq log
  /\ \A e \in log : e.id \in Nat /\ e.ts \in Nat /\ e.id < nextId /\ (e.ts >= horizon => e \in events)
  /\ \A r \in Runs, k \in AllKeys : Written(log, tags[r][k], r, k)
  /\ \A p \in Procs, r \in Runs, k \in AllKeys : Written(log, req[p].got.tags[r][k], r, k)
  /\ \A e \in log : IsTag(e) /\ e.before # Absent =>
                      \E f \in log : IsSet(f, e.run, e.key, e.before) /\ f.id < e.id

\* However many goroutines mutate runs at once, no ?as_of= answer made in one snapshot
\* shows a tag value written after T.
THEOREM NoTagFromTheFuture == Spec => []NoFutureTag
\* A pre-read holds nothing, what it held, or what the table has.
<1>GotStep. ASSUME TypeOK, LogOrdered, [Next]_vars, NEW o \in Procs, NEW r \in Runs, NEW k \in AllKeys
            PROVE  req'[o].got.tags[r][k] \in {Absent, tags[r][k], req[o].got.tags[r][k]}
  <2> USE <1>GotStep
  <2>0. NothingRead.tags[r][k] = Absent
    BY DEF NothingRead
  <2>0a. req = [q \in Procs |-> req[q]]
    BY DEF TypeOK
  <2>1. CASE req' = req
    BY <2>1
  <2>2. CASE req' = [p \in Procs |-> IdleReq]
    <3>1. req'[o] = IdleReq /\ IdleReq.got = NothingRead
      BY <2>2 DEF IdleReq
    <3> QED
      BY <2>0, <3>1
  <2>3. ASSUME NEW p \in Procs, NEW q, req' = [req EXCEPT ![p] = q], Moves(req[p], q)
        PROVE  req'[o].got.tags[r][k] \in {Absent, tags[r][k], req[o].got.tags[r][k]}
    <3>1. req'[o] = IF o = p THEN q ELSE req[o]
      BY <2>0a, <2>3
    <3>2. q.got.tags[r][k] \in {Absent, tags[r][k], req[p].got.tags[r][k]}
      <4>1. CASE Starts(q)
        BY <2>0, <4>1 DEF Starts
      <4>2. CASE q.got = req[p].got
        BY <4>2
      <4>3. ASSUME NEW c, Reads(req[p], q, c) PROVE q.got.tags[r][k] \in {tags[r][k], req[p].got.tags[r][k]}
        BY <4>3 DEF Reads
      <4> QED
        BY <2>3, <4>1, <4>2, <4>3 DEF Moves
    <3>3. CASE o = p
      BY <3>1, <3>2, <3>3
    <3>4. CASE o # p
      BY <3>1, <3>4
    <3> QED
      BY <3>3, <3>4
  <2> QED
    BY <2>1, <2>2, <2>3, RequestStep
\* The log only grows.
<1>LogStep. ASSUME TypeOK, TypeOK', LogOrdered, LogInv, [Next]_vars
            PROVE  LogInv'
  <2> USE <1>LogStep
  <2>1. ASSUME log' = log PROVE \A v, r, k : Written(log, v, r, k) => Written(log', v, r, k)
    BY <2>1 DEF Written
  <2>2. ASSUME \A v, r, k : Written(log, v, r, k) => Written(log', v, r, k)
        PROVE  \A p \in Procs, r \in Runs, k \in AllKeys : Written(log', req'[p].got.tags[r][k], r, k)
    <3> TAKE p \in Procs, r \in Runs, k \in AllKeys
    <3>1. req'[p].got.tags[r][k] \in {Absent, tags[r][k], req[p].got.tags[r][k]}
      BY <1>GotStep
    <3>2. Written(log, tags[r][k], r, k) /\ Written(log, req[p].got.tags[r][k], r, k) /\ Written(log, Absent, r, k)
      BY DEF LogInv, Written
    <3>3. Written(log, req'[p].got.tags[r][k], r, k)
      BY <3>1, <3>2
    <3> QED
      BY <2>2, <3>3
  <2>3. CASE UNCHANGED <<row, tags, events, nextId, log, horizon>>
    <3>1. events' \subseteq log'
      BY <2>3 DEF LogInv
    <3>2. \A e \in log' : e.id \in Nat /\ e.ts \in Nat /\ e.id < nextId' /\ (e.ts >= horizon' => e \in events')
      BY <2>3 DEF LogInv
    <3>3. \A r \in Runs, k \in AllKeys : Written(log', tags'[r][k], r, k)
      BY <2>3 DEF LogInv, Written
    <3>4. \A e \in log' : IsTag(e) /\ e.before # Absent =>
                        \E f \in log' : IsSet(f, e.run, e.key, e.before) /\ f.id < e.id
      BY <2>3 DEF LogInv
    <3>5. log' = log
      BY <2>3
    <3> QED
      BY <2>1, <2>2, <3>1, <3>2, <3>3, <3>4, <3>5 DEF LogInv
  <2>4. ASSUME NEW p \in Procs, PruneEventsBefore(p) PROVE LogInv'
    <3> DEFINE cutoff == req[p].arg - Retention
    <3>1. /\ tags' = tags /\ nextId' = nextId /\ log' = log /\ req[p].pc = "prune"
          /\ events' = {e \in events : e.ts >= cutoff}
          /\ horizon' = IF cutoff > horizon THEN cutoff ELSE horizon
      BY <2>4 DEF PruneEventsBefore
    <3>2. cutoff \in Int /\ horizon \in Int
      <4>1. ReqOK(p, req[p], clock, row) /\ clock \in 1 .. MaxClock /\ horizon \in Int
        BY DEF TypeOK
      <4>2. req[p].arg \in 1 .. clock
        BY <3>1, <4>1 DEF ReqOK, ArgOK
      <4> QED
        BY SMTT(60), <4>1, <4>2, ConstantTypes
    <3> HIDE DEF cutoff
    <3>3. \A e \in log : e.ts \in Nat /\ (e.ts >= horizon' => e.ts >= horizon /\ e.ts >= cutoff)
      BY SMTT(60), <3>1, <3>2 DEF LogInv
    <3>4. events' \subseteq log'
      BY <3>1 DEF LogInv
    <3>5. \A e \in log' : e.id \in Nat /\ e.ts \in Nat /\ e.id < nextId' /\ (e.ts >= horizon' => e \in events')
      BY <3>1, <3>3 DEF LogInv
    <3>6. \A r \in Runs, k \in AllKeys : Written(log', tags'[r][k], r, k)
      BY <3>1 DEF LogInv, Written
    <3>7. \A e \in log' : IsTag(e) /\ e.before # Absent =>
                        \E f \in log' : IsSet(f, e.run, e.key, e.before) /\ f.id < e.id
      BY <3>1 DEF LogInv
    <3>8. log' = log
      BY <3>1
    <3> QED
      BY <2>1, <2>2, <3>4, <3>5, <3>6, <3>7, <3>8 DEF LogInv
  <2>5. ASSUME NEW p \in Procs, Adds(p) PROVE LogInv'
    <3> DEFINE N == NewRows
    <3>1. /\ events' = events \cup N /\ log' = log \cup N /\ horizon' = horizon
          /\ \A e \in N : e.id \in Nat /\ e.id >= nextId /\ e.ts \in Nat /\ e.id < nextId'
          /\ nextId' >= nextId
          /\ \A r \in Runs, k \in AllKeys : TagLogged(p, r, k, tags'[r][k], N)
      BY <2>5 DEF Adds, Logged
    <3>2. nextId \in Nat /\ nextId' \in Nat
      BY DEF TypeOK
    <3> HIDE DEF N
    <3>3. \A v, r, k : Written(log, v, r, k) => Written(log', v, r, k)
      BY <3>1 DEF Written
    <3>4. events' \subseteq log'
      BY <3>1 DEF LogInv
    <3>5. \A e \in log' : e.id \in Nat /\ e.ts \in Nat /\ e.id < nextId' /\ (e.ts >= horizon' => e \in events')
      BY SMTT(60), <3>1, <3>2 DEF LogInv
    <3>6. ASSUME NEW r \in Runs, NEW k \in AllKeys PROVE Written(log', tags'[r][k], r, k)
      <4>1. \/ tags'[r][k] = tags[r][k] \/ tags'[r][k] = Absent
            \/ \E b \in N : OnCell(b, r, k) /\ b.kind = "tag_set" /\ b.val = tags'[r][k]
        BY <3>1 DEF TagLogged
      <4>2. CASE tags'[r][k] = tags[r][k]
        <5>1. Written(log, tags[r][k], r, k)
          BY DEF LogInv
        <5>2. Written(log, tags'[r][k], r, k)
          BY <4>2, <5>1
        <5> QED
          BY <3>3, <5>2
      <4>3. CASE tags'[r][k] = Absent
        BY <4>3 DEF Written
      <4>4. ASSUME NEW b \in N, OnCell(b, r, k), b.kind = "tag_set", b.val = tags'[r][k]
            PROVE  Written(log', tags'[r][k], r, k)
        <5>1. b \in log' /\ IsSet(b, r, k, tags'[r][k])
          BY <3>1, <4>4 DEF OnCell, IsSet
        <5> QED
          BY <5>1 DEF Written
      <4> QED
        BY <4>1, <4>2, <4>3, <4>4
    <3>7. ASSUME NEW e \in log', IsTag(e), e.before # Absent
          PROVE  \E f \in log' : IsSet(f, e.run, e.key, e.before) /\ f.id < e.id
      <4>1. CASE e \in log
        BY <3>1, <3>7, <4>1 DEF LogInv
      <4>2. CASE e \in N
        <5>1. e.run \in Runs /\ e.key \in AllKeys
          <6>1. e \in events'
            BY <3>1, <4>2
          <6>2. e \in RunEventRows \/ e \in TagEventRows
            BY <6>1 DEF TypeOK, RunEventRows, TagEventRows
          <6>3. e \notin RunEventRows
            BY <3>7 DEF RunEventRows, IsTag
          <6> QED
            BY <6>2, <6>3 DEF TagEventRows
        <5> DEFINE r == e.run
                   k == e.key
        <5>2. OnCell(e, r, k)
          BY <3>7 DEF OnCell, IsTag
        <5>3. TagLogged(p, r, k, tags'[r][k], N)
          BY <3>1, <5>1
        <5>4. e.before = tags[r][k] \/ e.before = req[p].got.tags[r][k]
          BY <4>2, <5>2, <5>3 DEF TagLogged
        <5>5. Written(log, e.before, r, k)
          BY <5>1, <5>4 DEF LogInv
        <5>6. PICK f \in log : IsSet(f, r, k, e.before)
          BY <3>7, <5>5 DEF Written
        <5>7. f.id \in Nat /\ f.id < nextId
          BY DEF LogInv
        <5>8. e.id \in Nat /\ e.id >= nextId
          BY <3>1, <4>2
        <5>9. f.id < e.id
          BY SMTT(60), <3>2, <5>7, <5>8
        <5> QED
          BY <3>1, <5>6, <5>9
      <4> QED
        BY <3>1, <4>1, <4>2
    <3> QED
      BY <2>2, <3>3, <3>4, <3>5, <3>6, <3>7 DEF LogInv
  <2> QED
    BY <2>3, <2>4, <2>5, TableStep
\* The store starts with no tags and nothing logged.
<1>LogInit. ASSUME Init
            PROVE  LogInv
  <2> USE <1>LogInit
  <2>1. events = {} /\ log = {}
    BY DEF Init
  <2>2. \A r \in Runs, k \in AllKeys : tags[r][k] = Absent
    BY DEF Init
  <2>3. \A p \in Procs, r \in Runs, k \in AllKeys : req[p].got.tags[r][k] = Absent
    <3>1. \A p \in Procs : req[p].got = NothingRead
      BY DEF Init, IdleReq
    <3> QED
      BY SMTT(60), <3>1 DEF NothingRead
  <2> QED
    BY <2>1, <2>2, <2>3 DEF LogInv, Written
\* The first newer event of a tag carries a value that was logged before that event,
\* and whatever was logged after T is itself a newer event.
<1>FirstIsPast. ASSUME TypeOK, LogOrdered, LogInv
                PROVE  NoFutureTag
  <2> USE <1>FirstIsPast
  <2> SUFFICES ASSUME NEW r \in Runs, NEW k \in AllKeys, NEW T \in 1 .. clock, T + 1 >= horizon,
                      UndoTags(tags[r], Newer(r, T))[k] # Absent
               PROVE  \E e \in log : /\ e.kind = "tag_set" /\ e.run = r /\ e.key = k
                                     /\ e.val = UndoTags(tags[r], Newer(r, T))[k] /\ e.ts <= T
    BY SMTT(60) DEF NoFutureTag
  <2> DEFINE E == OnTag(Newer(r, T), k)
             v == UndoTags(tags[r], Newer(r, T))[k]
  <2>1. v = BeforeFirst(E, tags[r][k])
    BY DEF UndoTags
  <2>2. T \in Nat /\ horizon \in Int
    BY SMTT(60) DEF TypeOK
  <2>3. \A e \in E : e \in events /\ e.run = r /\ e.key = k /\ IsTag(e) /\ e.ts > T
    BY DEF OnTag, Newer, IsTag
  <2>4. \A f \in log : (\E x : IsSet(f, r, k, x)) /\ ~(f.ts <= T) => f \in E
    <3> SUFFICES ASSUME NEW f \in log, NEW x, IsSet(f, r, k, x), ~(f.ts <= T) PROVE f \in E
      OBVIOUS
    <3>1. f.ts \in Nat /\ (f.ts >= horizon => f \in events)
      BY DEF LogInv
    <3>2. f.ts > T /\ f.ts >= horizon
      BY SMTT(60), <2>2, <3>1
    <3> QED
      BY <3>1, <3>2 DEF OnTag, Newer, IsSet
  <2> HIDE DEF E
  <2>5. ASSUME NEW f \in log, IsSet(f, r, k, v), f.ts <= T
        PROVE  \E e \in log : e.kind = "tag_set" /\ e.run = r /\ e.key = k /\ e.val = v /\ e.ts <= T
    BY <2>5 DEF IsSet
  <2>5a. v # Absent
    OBVIOUS
  <2> HIDE DEF v
  <2>6. CASE E = {}
    <3>1. v = tags[r][k]
      BY <2>1, <2>6 DEF BeforeFirst
    <3>2. Written(log, v, r, k)
      BY <3>1 DEF LogInv
    <3>3. PICK f \in log : IsSet(f, r, k, v)
      BY <2>5a, <3>2 DEF Written
    <3>4. f.ts <= T
      BY <2>4, <2>6, <3>3
    <3> QED
      BY <2>5, <3>3, <3>4 DEF v
  <2>7. CASE E # {}
    <3> DEFINE e0 == FirstOf(E)
    <3>0. Ordered(E)
      <4>1. Ordered(events)
        BY EventsOrdered
      <4>2. E \subseteq events
        BY <2>3
      <4> QED
        BY <4>1, <4>2 DEF Ordered
    <3>1. e0 \in E /\ \A f \in E : e0.ts < f.ts \/ (e0.ts = f.ts /\ e0.id <= f.id)
      BY <2>7, <3>0, FirstExists
    <3>2. v = e0.before
      BY <2>1, <2>7 DEF BeforeFirst
    <3> HIDE DEF e0
    <3>3. e0 \in log /\ IsTag(e0) /\ e0.run = r /\ e0.key = k
      BY <2>3, <3>1 DEF LogInv
    <3>4. PICK f \in log : IsSet(f, r, k, v) /\ f.id < e0.id
      BY <2>5a, <3>2, <3>3 DEF LogInv
    <3>5. f.ts <= T
      <4> SUFFICES ASSUME ~(f.ts <= T) PROVE FALSE
        OBVIOUS
      <4>1. f \in E
        BY <2>4, <3>4
      <4>2. f.ts <= e0.ts /\ f.ts \in Nat /\ e0.ts \in Nat /\ f.id \in Nat /\ e0.id \in Nat
        BY <3>0, <3>1, <3>4, <4>1 DEF Ordered
      <4>3. e0.ts < f.ts \/ (e0.ts = f.ts /\ e0.id <= f.id)
        BY <3>1, <4>1
      <4> QED
        BY SMTT(60), <3>4, <4>2, <4>3
    <3> QED
      BY <2>5, <3>4, <3>5 DEF v
  <2> QED
    BY <2>6, <2>7
<1>1. Init => AsOfInv /\ LogInv
  BY AsOfInit, <1>LogInit
<1>2. AsOfInv /\ LogInv /\ [Next]_vars => (AsOfInv /\ LogInv)'
  <2> SUFFICES ASSUME AsOfInv, LogInv, [Next]_vars PROVE AsOfInv' /\ LogInv'
    OBVIOUS
  <2>1. AsOfInv'
    BY AsOfStep
  <2>2. TypeOK /\ LogOrdered /\ TypeOK'
    BY <2>1 DEF AsOfInv
  <2> QED
    BY <2>1, <2>2, <1>LogStep
<1>3. AsOfInv /\ LogInv => NoFutureTag
  BY <1>FirstIsPast DEF AsOfInv
<1> QED
  BY <1>1, <1>2, <1>3, PTL DEF Spec

-----------------------------------------------------------------------------
(* The janitor and finished runs.                                           *)

\* The janitor's requests are archivals and prunes.
JanitorOps == req[Janitor].op \in {"none", "archive", "prune"}

\* For any number of goroutines: a run that left RUNNING or was deleted after the
\* janitor's SELECT is not clobbered to FAILED by its UPDATE.
THEOREM JanitorSparesOutcomes == Spec => JanitorKeepsOutcomes
\* Nothing else is ever put in the janitor's place.
<1>JanitorOpsStep. ASSUME TypeOK, LogOrdered, JanitorOps, [Next]_vars
                   PROVE  JanitorOps'
  <2> USE <1>JanitorOpsStep
  <2>0. /\ req = [q \in Procs |-> req[q]] /\ Janitor \in Procs
    BY DEF TypeOK, Procs
  <2>0a. IdleReq.op = "none" /\ \A tick : AfterArchive(tick).op \in {"none", "prune"}
    BY DEF IdleReq, AfterArchive, PruneRequest
  <2>0b. \A ok : After(Janitor, ok).op \in {"none", "prune"}
    BY <2>0a DEF After
  <2>1. CASE Tick \/ (\E p \in Readers : Read(p)) \/ UNCHANGED vars
    <3>1. req' = req
      BY <2>1 DEF Tick, Read, GetRunAsOf, ScanEvents, ReadTags, vars
    <3> QED
      BY <3>1 DEF JanitorOps
  <2>2. CASE Crash
    <3>1. req'[Janitor] = IdleReq
      BY <2>0, <2>2 DEF Crash
    <3> QED
      BY <2>0a, <3>1 DEF JanitorOps
  <2>3. CASE JanitorTick
    <3> DEFINE ids == StaleRuns(clock - StaleAfter)
               cells == UNION {{RowCell(r), TagCell(r, ArchivedKey)} : r \in ids}
               archive == Request("archive", NoRun, [ids |-> ids, now |-> clock], cells, <<>>)
    <3>1. req' = [req EXCEPT ![Janitor] = IF ids = {} THEN AfterArchive(clock) ELSE archive]
      BY <2>3 DEF JanitorTick
    <3>2. archive.op = "archive"
      BY DEF Request
    <3> HIDE DEF archive, ids
    <3>3. req'[Janitor] = IF ids = {} THEN AfterArchive(clock) ELSE archive
      BY <2>0, <3>1
    <3>4. req'[Janitor].op \in {"archive", "none", "prune"}
      BY <2>0a, <3>2, <3>3
    <3> QED
      BY <3>4 DEF JanitorOps
  <2>4. ASSUME NEW p \in Writers, Arrival(p) PROVE JanitorOps'
    <3>1. PICK q : Arrive(p, q)
      BY <2>4, ArrivalStarts
    <3>2. req'[Janitor] = req[Janitor]
      BY <2>0, <3>1, ConstantsDistinct DEF Arrive
    <3> QED
      BY <3>2 DEF JanitorOps
  <2>5. ASSUME NEW p \in Procs, Serve(p) PROVE JanitorOps'
    <3>1. ASSUME NEW q, req' = [req EXCEPT ![p] = q], SameAsk(req[p], q) \/ (p = Janitor => q.op \in {"none", "prune"})
          PROVE  JanitorOps'
      <4>1. req'[Janitor] = IF p = Janitor THEN q ELSE req[Janitor]
        BY <2>0, <3>1
      <4> QED
        BY <3>1, <4>1 DEF JanitorOps, SameAsk
    <3>2. CASE PreRead(p)
      <4>1. PICK q : SameAsk(req[p], q) /\ req' = [req EXCEPT ![p] = q]
        BY <3>2, PreReadMoves
      <4> QED
        BY <3>1, <4>1
    <3>3. CASE BeginTx(p)
      <4>1. PICK q : SameAsk(req[p], q) /\ req' = [req EXCEPT ![p] = q]
        BY <3>3, BeginTxMoves
      <4> QED
        BY <3>1, <4>1
    <3>4. CASE Fail(p) \/ Adds(p)
      <4>1. PICK ok : req' = [req EXCEPT ![p] = After(p, ok)]
        BY <3>4 DEF Fail, Adds
      <4> QED
        BY <2>0b, <3>1, <4>1
    <3>5. CASE PruneEventsBefore(p)
      <4>1. req' = [req EXCEPT ![p] = IdleReq]
        BY <3>5 DEF PruneEventsBefore
      <4> QED
        BY <2>0a, <3>1, <4>1
    <3> QED
      BY <2>5, <3>2, <3>3, <3>4, <3>5, ServeAdds
  <2> QED
    BY <2>1, <2>2, <2>3, <2>4, <2>5 DEF Next
\* The janitor's UPDATE tests status and stage again in its transaction.
<1>JanitorUpdates. ASSUME TypeOK, JanitorOps, [Next]_vars, lock = Janitor, NEW r \in Runs, row'[r] # row[r]
                   PROVE  row[r].status = "RUNNING" /\ row[r].stage = "active"
  <2> USE <1>JanitorUpdates
  <2>1. ASSUME NEW p \in Procs, NEW op, InTxn(p, op) PROVE p = Janitor /\ op \in {"none", "archive", "prune"}
    BY <2>1 DEF InTxn, TypeOK, JanitorOps
  <2>2. Tick \/ Crash \/ JanitorTick \/ (\E p \in Readers : Read(p)) \/ UNCHANGED vars => row' = row
    BY DEF Tick, Crash, JanitorTick, Read, GetRunAsOf, ScanEvents, ReadTags, db, vars
  <2>3. ASSUME NEW p \in Writers, Arrival(p) PROVE row' = row
    <3>1. PICK q : Arrive(p, q)
      BY <2>3, ArrivalStarts
    <3> QED
      BY <3>1 DEF Arrive, db
  <2>4. PICK p \in Procs : Serve(p)
    BY <2>2, <2>3 DEF Next
  <2>5. PreRead(p) \/ BeginTx(p) \/ Fail(p) \/ PruneEventsBefore(p) => row' = row
    BY DEF PreRead, BeginTx, Fail, PruneEventsBefore, db
  <2>6. ~CreateRun(p) /\ ~UpdateRun(p) /\ ~SetRunLifecycle(p) /\ ~SetTags(p) /\ ~DeleteTag(p)
    <3>1. \A op \in {"create", "update", "lifecycle", "set", "delete"} : ~InTxn(p, op)
      BY <2>1
    <3> QED
      BY <3>1 DEF CreateRun, UpdateRun, SetRunLifecycle, SetTags, DeleteTag
  <2>7. ArchiveStaleRuns(p)
    BY <2>4, <2>5, <2>6 DEF Serve
  <2> DEFINE archived == {x \in req[p].arg.ids : Archivable(x)}
  <2>8. row' = [x \in Runs |-> IF x \in archived
                               THEN [row[x] EXCEPT !.status = "FAILED", !.end = req[p].arg.now]
                               ELSE row[x]]
    BY <2>7 DEF ArchiveStaleRuns, Commit
  <2>9. r \in archived
    <3> HIDE DEF archived
    <3> QED
      BY <2>8
  <2> QED
    BY <2>9 DEF Archivable
<1>1. Init => AsOfInv /\ JanitorOps
  <2>1. ASSUME Init PROVE JanitorOps
    BY <2>1 DEF Init, JanitorOps, IdleReq, Procs
  <2> QED
    BY <2>1, AsOfInit
<1>2. AsOfInv /\ JanitorOps /\ [Next]_vars => (AsOfInv /\ JanitorOps)'
  BY AsOfStep, <1>JanitorOpsStep DEF AsOfInv
<1>3. AsOfInv /\ JanitorOps /\ [Next]_vars =>
        [\A r \in Runs : lock = Janitor /\ row'[r] # row[r] =>
                           row[r].status = "RUNNING" /\ row[r].stage = "active"]_vars
  BY <1>JanitorUpdates DEF AsOfInv
<1> QED
  BY <1>1, <1>2, <1>3, PTL DEF Spec, JanitorKeepsOutcomes

-----------------------------------------------------------------------------
(* Mutators served one at a time.                                           *)

\* What a request has pre-read of the cells it asks for is what the tables have.
FreshReq(q, rows, tagsOf) ==
  /\ \A r \in Runs : AskedRow(q, r) => RowCell(r) \in q.want \/ q.got.row[r] = rows[r]
  /\ \A r \in Runs, k \in AllKeys :
       AskedTag(q, r, k) => TagCell(r, k) \in q.want \/ q.got.tags[r][k] = tagsOf[r][k]
Alone(R) == \A p, q \in Procs : R[p].pc # "idle" /\ R[q].pc # "idle" => p = q
SerialInv == Alone(req) /\ \A p \in Procs : req[p].pc # "idle" => FreshReq(req[p], row, tags)

\* With at most one request in flight its pre-reads never go stale.
LEMMA SerialStep ==
  MaxInFlight <= 1 /\ TypeOK /\ LogOrdered /\ SerialInv /\ [Next]_vars => SerialInv'
\* A request arrives only when there is no other.
<1>ArrivesAlone. ASSUME MaxInFlight <= 1, Cardinality(InFlight) < MaxInFlight
                 PROVE  \A p \in Procs : req[p].pc = "idle"
  <2> USE <1>ArrivesAlone
  <2>1. IsFiniteSet(Procs)
    BY FiniteWriters, FS_AddElement DEF Procs
  <2>2. IsFiniteSet(InFlight)
    <3>1. InFlight \subseteq Procs
      BY DEF InFlight
    <3> QED
      BY <2>1, <3>1, FS_Subset
  <2>3. Cardinality(InFlight) \in Nat
    BY <2>2, FS_CardinalityType
  <2>4. Cardinality(InFlight) = 0
    BY SMTT(60), <2>3, ConstantTypes
  <2>5. InFlight = {}
    BY <2>2, <2>4, FS_EmptySet
  <2> QED
    BY <2>5 DEF InFlight
\* A request that moves stays fresh while the tables stay as they are.
<1>MovesFresh. ASSUME NEW o, NEW q, Moves(o, q), Starts(q) \/ FreshReq(o, row, tags), NEW rows, NEW tagsOf,
                      (rows = row /\ tagsOf = tags) \/ Starts(q)
               PROVE  FreshReq(q, rows, tagsOf)
  <2> USE <1>MovesFresh
  <2>1. CASE Starts(q)
    BY <2>1 DEF Starts, Covers, FreshReq
  <2>2. ASSUME SameAsk(o, q) PROVE /\ \A r : AskedRow(q, r) => AskedRow(o, r)
                                   /\ \A r, k : AskedTag(q, r, k) => AskedTag(o, r, k)
    BY <2>2 DEF SameAsk, AskedRow, AskedTag
  <2>3. CASE ~Starts(q) /\ SameAsk(o, q) /\ q.want = o.want /\ q.got = o.got
    BY <2>2, <2>3 DEF FreshReq
  <2>4. ASSUME ~Starts(q), SameAsk(o, q), NEW c, Reads(o, q, c) PROVE FreshReq(q, row, tags)
    <3>1. \A r \in Runs : AskedRow(q, r) => RowCell(r) \in q.want \/ q.got.row[r] = row[r]
      <4> TAKE r \in Runs
      <4>1. q.want = o.want \ {c} /\ q.got.row[r] = IF c = RowCell(r) THEN row[r] ELSE o.got.row[r]
        BY <2>4 DEF Reads
      <4>2. AskedRow(q, r) => RowCell(r) \in o.want \/ o.got.row[r] = row[r]
        BY <2>2, <2>4 DEF FreshReq
      <4> QED
        BY <4>1, <4>2
    <3>2. \A r \in Runs, k \in AllKeys : AskedTag(q, r, k) => TagCell(r, k) \in q.want \/ q.got.tags[r][k] = tags[r][k]
      <4> TAKE r \in Runs, k \in AllKeys
      <4>1. q.want = o.want \ {c} /\ q.got.tags[r][k] = IF c = TagCell(r, k) THEN tags[r][k] ELSE o.got.tags[r][k]
        BY <2>4 DEF Reads
      <4>2. AskedTag(q, r, k) => TagCell(r, k) \in o.want \/ o.got.tags[r][k] = tags[r][k]
        BY <2>2, <2>4 DEF FreshReq
      <4> QED
        BY <4>1, <4>2
    <3> QED
      BY <3>1, <3>2 DEF FreshReq
  <2> QED
    BY <2>1, <2>3, <2>4 DEF Moves
<1> SUFFICES ASSUME MaxInFlight <= 1, TypeOK, LogOrdered, SerialInv, [Next]_vars PROVE SerialInv'
  OBVIOUS
<1>0. req = [q \in Procs |-> req[q]]
  BY DEF TypeOK
<1>1. CASE req' = req /\ row' = row /\ tags' = tags
  BY <1>1 DEF SerialInv
<1>2. CASE req' = [p \in Procs |-> IdleReq]
  <2>1. \A p \in Procs : req'[p].pc = "idle"
    BY <1>2 DEF IdleReq
  <2> QED
    BY <2>1 DEF SerialInv, Alone
<1>3. ASSUME NEW p \in Procs, NEW q, req' = [req EXCEPT ![p] = q], Moves(req[p], q),
             req[p].pc = "idle" => Starts(q) /\ Cardinality(InFlight) < MaxInFlight,
             (row' = row /\ tags' = tags) \/ Starts(q)
      PROVE  SerialInv'
  <2>1. req'[p] = q /\ \A o \in Procs : o # p => req'[o] = req[o]
    BY <1>0, <1>3
  <2>2. \A o \in Procs : o # p => req[o].pc = "idle"
    BY <1>3, <1>ArrivesAlone DEF SerialInv, Alone
  <2>3. Starts(q) \/ FreshReq(req[p], row, tags)
    BY <1>3 DEF SerialInv
  <2>4. FreshReq(q, row', tags')
    BY <1>3, <2>3, <1>MovesFresh
  <2> QED
    BY <2>1, <2>2, <2>4 DEF SerialInv, Alone
<1> QED
  BY <1>1, <1>2, <1>3, RequestStep

\* The rows N of a commit carry what the tables had, and log every change: of the
\* row of run r to new, and of its tag k to v.
RowExact(r, new, N) ==
  /\ \A e \in N : OnRun(e, r, "run_update") \/ OnRun(e, r, "run_lifecycle") => e.before = row[r]
  /\ \A e \in N : OnRun(e, r, "run_parent") => e.before.parent = row[r].parent
  /\ new.start = row[r].start
  /\ SameUpdated(new, row[r]) \/ \E e \in N : OnRun(e, r, "run_update")
  /\ new.stage = row[r].stage \/ \E e \in N : OnRun(e, r, "run_lifecycle")
  /\ new.parent = row[r].parent \/ \E e \in N : OnRun(e, r, "run_parent")
TagExact(r, k, v, N) ==
  /\ \A e \in N : OnCell(e, r, k) => e.before = tags[r][k]
  /\ v = tags[r][k] \/ \E e \in N : OnCell(e, r, k)

\* A commit of a request that is alone logs exactly.
LEMMA AddsExact ==
  ASSUME TypeOK, SerialInv, NEW p \in Procs, Adds(p)
  PROVE  /\ \A r \in Runs : Exists(r) => RowExact(r, row'[r], NewRows)
         /\ \A r \in Runs, k \in AllKeys : TagExact(r, k, tags'[r][k], NewRows)
<1>1. req[p].pc = "txn" /\ Logged(p, row', tags', NewRows)
  BY DEF Adds
<1>2. ReqOK(p, req[p], clock, row)
  BY DEF TypeOK
<1>3. req[p].want = {}
  BY <1>1, <1>2 DEF ReqOK
<1>4. FreshReq(req[p], row, tags)
  BY <1>1 DEF SerialInv
<1>5. ASSUME NEW r \in Runs, Exists(r) PROVE RowExact(r, row'[r], NewRows)
  <2>1. RowLogged(p, r, row'[r], NewRows)
    BY <1>1, <1>5 DEF Logged
  <2>2. AskedRow(req[p], r) => req[p].got.row[r] = row[r]
    BY <1>3, <1>4 DEF FreshReq
  <2>3. row[r] # NoRow
    BY <1>5 DEF Exists
  <2> QED
    BY <2>1, <2>2, <2>3 DEF RowLogged, RowExact
<1>6. ASSUME NEW r \in Runs, NEW k \in AllKeys PROVE TagExact(r, k, tags'[r][k], NewRows)
  <2>1. TagLogged(p, r, k, tags'[r][k], NewRows)
    BY <1>1 DEF Logged
  <2>2. AskedTag(req[p], r, k) => req[p].got.tags[r][k] = tags[r][k]
    BY <1>3, <1>4 DEF FreshReq
  <2> QED
    BY <2>1, <2>2 DEF TagLogged, TagExact
<1> QED
  BY <1>5, <1>6

\* The rows of runs stay.
LEMMA RunsKept ==
  ASSUME TypeOK, LogOrdered, [Next]_vars, NEW r \in Runs, Exists(r)
  PROVE  row'[r] # NoRow
<1>1. CASE row' = row
  BY <1>1 DEF Exists
<1>2. ASSUME NEW p \in Procs, Serve(p) PROVE row'[r] # NoRow
  <2>1. CASE Committed(p)
    <3>1. PICK newRow, newTags, evs : (Exists(r) => newRow[r] # NoRow) /\ Commit(p, newRow, newTags, evs)
      BY <2>1 DEF Committed
    <3> QED
      BY <3>1 DEF Commit
  <2>2. CASE PreRead(p) \/ BeginTx(p) \/ Fail(p) \/ PruneEventsBefore(p)
    BY <1>1, <2>2 DEF PreRead, BeginTx, Fail, PruneEventsBefore, db
  <2> QED
    BY <1>2, <2>1, <2>2, ServeCases
<1>3. CASE Tick \/ Crash \/ JanitorTick \/ (\E p \in Readers : Read(p)) \/ UNCHANGED vars
  BY <1>1, <1>3 DEF Tick, Crash, JanitorTick, Read, GetRunAsOf, ScanEvents, ReadTags, db, vars
<1>4. ASSUME NEW p \in Writers, Arrival(p) PROVE row' = row
  <2>1. PICK q : Arrive(p, q)
    BY <1>4, ArrivalStarts
  <2> QED
    BY <2>1 DEF Arrive, db
<1> QED
  BY <1>1, <1>2, <1>3, <1>4 DEF Next

\* With one mutator at a time, every change to a run or its tags has an event row.
LEMMA ChangeLogged ==
  ASSUME TypeOK, TypeOK', LogOrdered, SerialInv, [Next]_vars, NEW r \in Runs, Exists(r),
         row'[r] # row[r] \/ tags'[r] # tags[r]
  PROVE  \E e \in events' : e.run = r /\ e.id >= nextId
<1>1. PICK p \in Procs : Adds(p)
  BY TableStep DEF PruneEventsBefore
<1>2. RowExact(r, row'[r], NewRows) /\ \A k \in AllKeys : TagExact(r, k, tags'[r][k], NewRows)
  BY <1>1, AddsExact
<1>3. SUFFICES \E e \in NewRows : e.run = r
  BY DEF NewRows
<1>4. CASE row'[r] # row[r]
  <2>1. row[r] \in Row /\ row'[r] \in Row
    <3>1. row[r] \in Row \cup {NoRow} /\ row'[r] \in Row \cup {NoRow}
      BY DEF TypeOK
    <3> QED
      BY <3>1, RunsKept DEF Exists
  <2>2. ~(SameUpdated(row'[r], row[r]) /\ row'[r].stage = row[r].stage /\ row'[r].parent = row[r].parent
          /\ row'[r].start = row[r].start)
    BY SMTT(60), <1>4, <2>1 DEF Row, SameUpdated
  <2> QED
    BY <1>2, <2>2 DEF RowExact, OnRun
<1>5. CASE tags'[r] # tags[r]
  <2>1. tags[r] \in TagsOf /\ tags'[r] \in TagsOf
    BY DEF TypeOK
  <2>2. PICK k \in AllKeys : tags'[r][k] # tags[r][k]
    BY SMTT(60), <1>5, <2>1 DEF TagsOf
  <2> QED
    BY <1>2, <2>2 DEF TagExact, OnCell
<1> QED
  BY <1>4, <1>5

-----------------------------------------------------------------------------
(* As-of reads when mutators are served one at a time.                      *)

\* The rows N are newer than the rows E: undoing both ends with what undoing E ends
\* with, or, when E is empty, with the `before` of a row of N.
Appended(E, N) == Ordered(E \cup N) /\ \A e \in E, n \in N : e.id < n.id
EndsSame(E, N, EN) ==
  /\ E = {} => \A z : BeforeFirst(E, z) = z
  /\ \/ \A z, w : BeforeFirst(EN, z) = BeforeFirst(E, w)
     \/ E = {} /\ N = {} /\ \A z : BeforeFirst(EN, z) = z
     \/ E = {} /\ \E n \in N : \A z : BeforeFirst(EN, z) = n.before

\* Adding newer rows to a set has this effect.
LEMMA FirstCases ==
  ASSUME NEW E, NEW N, Appended(E, N)
  PROVE  EndsSame(E, N, E \cup N)
<1>0. Ordered(E \cup N) /\ \A e \in E, n \in N : e.id < n.id
  BY DEF Appended
<1>1. E = {} => \A z : BeforeFirst(E, z) = z
  BY DEF BeforeFirst
<1>2. CASE E # {}
  <2>1. FirstOf(E \cup N) = FirstOf(E) /\ E \cup N # {}
    BY <1>0, <1>2, FirstOfStable
  <2> QED
    BY <1>2, <2>1 DEF BeforeFirst, EndsSame
<1>3. CASE E = {} /\ N = {}
  BY <1>3 DEF BeforeFirst, EndsSame
<1>4. CASE E = {} /\ N # {}
  <2>1. E \cup N = N /\ FirstOf(N) \in N
    <3>1. E \cup N = N
      BY <1>4
    <3> QED
      BY <1>0, <1>4, <3>1, FirstExists
  <2>2. \A z : BeforeFirst(E \cup N, z) = FirstOf(N).before
    BY <1>4, <2>1 DEF BeforeFirst
  <2>3. \E n \in N : \A z : BeforeFirst(E \cup N, z) = n.before
    BY <2>1, <2>2
  <2> QED
    BY <1>1, <1>4, <2>3 DEF EndsSame
<1> QED
  BY <1>2, <1>3, <1>4

\* The history only grows, at its end, by what a tick finds committed.
LEMMA PastStep ==
  ASSUME TypeOK, [Next]_vars
  PROVE  /\ clock \in Nat /\ clock' \in Nat /\ clock' >= clock /\ Len(past) = clock - 1
         /\ \A T \in 1 .. Len(past) : T \in 1 .. Len(past') /\ past'[T] = past[T]
         /\ \A T \in 1 .. Len(past') :
              \/ T \in 1 .. Len(past)
              \/ /\ T = clock /\ past'[T].row = row /\ past'[T].tags = tags
                 /\ row' = row /\ tags' = tags /\ events' = events
<1> DEFINE now == [row |-> row, tags |-> tags, quiet |-> lock = NoProc]
           Entry == [row : [Runs -> Row \cup {NoRow}], tags : [Runs -> TagsOf], quiet : BOOLEAN]
<1>1. past \in Seq(Entry) /\ Len(past) = clock - 1 /\ clock \in Nat
  <2>1. past \in Seq(Entry) /\ Len(past) = clock - 1 /\ clock \in 1 .. MaxClock
    BY DEF TypeOK
  <2> HIDE DEF Entry
  <2> QED
    BY SMTT(60), <2>1, ConstantTypes
<1>2. CASE Tick
  <2>1. past' = Append(past, now) /\ clock' = clock + 1 /\ row' = row /\ tags' = tags /\ events' = events
    BY <1>2 DEF Tick, db
  <2>2. now.row = row /\ now.tags = tags
    OBVIOUS
  <2> HIDE DEF now, Entry
  <2>3. Len(past') = clock /\ \A T \in 1 .. Len(past') : past'[T] = IF T <= Len(past) THEN past[T] ELSE now
    BY SMTT(60), <1>1, <2>1
  <2> QED
    BY SMTT(60), <1>1, <2>1, <2>2, <2>3
<1>3. CASE past' = past /\ clock' = clock
  BY SMTT(60), <1>1, <1>3
<1>4. ASSUME NEW p \in Procs, Serve(p) PROVE past' = past /\ clock' = clock
  <2>1. CASE Committed(p)
    BY <2>1 DEF Committed, Commit
  <2>2. CASE PreRead(p) \/ BeginTx(p) \/ Fail(p) \/ PruneEventsBefore(p)
    BY <2>2 DEF PreRead, BeginTx, Fail, PruneEventsBefore, hist
  <2> QED
    BY <1>4, <2>1, <2>2, ServeCases
<1>5. ASSUME Crash \/ JanitorTick \/ (\E p \in Readers : Read(p)) \/ UNCHANGED vars
      PROVE  past' = past /\ clock' = clock
  BY <1>5 DEF Crash, JanitorTick, Read, GetRunAsOf, ScanEvents, ReadTags, hist, vars
<1>6. ASSUME NEW p \in Writers, Arrival(p) PROVE past' = past /\ clock' = clock
  <2>1. PICK q : Arrive(p, q)
    BY <1>6, ArrivalStarts
  <2> QED
    BY <2>1 DEF Arrive, hist
<1> QED
  BY <1>2, <1>3, <1>4, <1>5, <1>6 DEF Next

\* The rows of events about run r.
RowsOf(N, r) == {e \in N : e.run = r}

\* What a step does to the events an as-of read of r at T undoes: nothing, or a
\* commit adds its rows about r, all newer than those.
LEMMA NewerStep ==
  ASSUME TypeOK, TypeOK', LogOrdered, LogOrdered', [Next]_vars,
         NEW r \in Runs, NEW T \in 1 .. Len(past), Settled(r, T)'
  PROVE  /\ Settled(r, T) /\ past'[T] = past[T] /\ Exists(r)
         /\ \/ row' = row /\ tags' = tags /\ Newer(r, T)' = Newer(r, T)
            \/ \E p \in Procs : /\ Adds(p)
                                /\ Newer(r, T)' = Newer(r, T) \cup RowsOf(NewRows, r)
                                /\ Appended(Newer(r, T), RowsOf(NewRows, r))
<1>1. past'[T] = past[T] /\ T \in 1 .. Len(past') /\ clock \in Nat
  BY PastStep
<1>2. past[T].quiet /\ T + 1 >= horizon' /\ past[T].row[r] # NoRow
  BY <1>1 DEF Settled
<1>3. T \in Nat /\ horizon \in Int /\ nextId \in Nat /\ Exists(r)
  <2>1. Exists(r)
    BY <1>2 DEF LogOrdered, Exists
  <2>2. horizon \in Int /\ nextId \in Nat \ {0}
    BY DEF TypeOK
  <2>3. T \in Nat
    BY SMTT(60)
  <2> QED
    BY <2>1, <2>2, <2>3
<1>4. CASE UNCHANGED <<row, tags, events, nextId, log, horizon>>
  <2>1. Newer(r, T)' = Newer(r, T) /\ row' = row /\ tags' = tags /\ horizon' = horizon
    BY <1>4 DEF Newer
  <2> QED
    BY <1>1, <1>2, <1>3, <2>1 DEF Settled
<1>5. ASSUME NEW p \in Procs, Adds(p)
      PROVE  /\ Settled(r, T)
             /\ Newer(r, T)' = Newer(r, T) \cup RowsOf(NewRows, r)
             /\ Appended(Newer(r, T), RowsOf(NewRows, r))
  <2>1. /\ lock = p /\ events' = events \cup NewRows /\ horizon' = horizon
        /\ \A e \in NewRows : e.id \in Nat /\ e.id >= nextId /\ e.ts \in Nat /\ e.ts >= req[p].t0
    BY <1>5 DEF Adds
  <2>2. T < req[p].t0 /\ req[p].t0 \in Nat
    <3>1. T < req[p].t0
      BY <1>2, <2>1 DEF LogOrdered
    <3>2. req[p].t0 \in Nat
      BY <1>5, HolderFacts DEF Adds
    <3> QED
      BY <3>1, <3>2
  <2>3. \A e \in NewRows : e.ts > T
    BY SMTT(60), <1>3, <2>1, <2>2
  <2>4. Newer(r, T)' = Newer(r, T) \cup RowsOf(NewRows, r)
    BY <2>1, <2>3 DEF Newer, RowsOf
  <2>5. \A e \in events, n \in NewRows : e.id < n.id
    <3>1. \A e \in events : e.id \in Nat /\ e.id < nextId
      BY EventsOrdered DEF Ordered, LogOrdered
    <3> QED
      BY SMTT(60), <1>3, <2>1, <3>1
  <2>6. Ordered(events \cup NewRows)
    <3>1. \A e \in events : e.id \in Nat /\ e.ts \in Nat
      BY EventsOrdered DEF Ordered
    <3>2. \A e, f \in events \cup NewRows : (e.id = f.id => e = f) /\ (e.id < f.id => e.ts <= f.ts)
      BY <2>1 DEF LogOrdered
    <3> QED
      BY <2>1, <3>1, <3>2 DEF Ordered
  <2>7. Newer(r, T) \subseteq events /\ RowsOf(NewRows, r) \subseteq NewRows
    BY DEF Newer, RowsOf
  <2>8. Appended(Newer(r, T), RowsOf(NewRows, r))
    BY <2>5, <2>6, <2>7 DEF Appended, Ordered
  <2> QED
    BY <1>1, <1>2, <2>1, <2>4, <2>8 DEF Settled
<1>6. ASSUME NEW p \in Procs, PruneEventsBefore(p)
      PROVE  Settled(r, T) /\ row' = row /\ tags' = tags /\ Newer(r, T)' = Newer(r, T)
  <2> DEFINE cutoff == req[p].arg - Retention
  <2>1. /\ row' = row /\ tags' = tags /\ req[p].pc = "prune"
        /\ events' = {e \in events : e.ts >= cutoff}
        /\ horizon' = IF cutoff > horizon THEN cutoff ELSE horizon
    BY <1>6 DEF PruneEventsBefore
  <2>2. ReqOK(p, req[p], clock, row)
    BY DEF TypeOK
  <2>3. req[p].arg \in 1 .. clock
    BY <2>1, <2>2 DEF ReqOK, ArgOK
  <2>4. cutoff \in Int
    BY SMTT(60), <1>1, <2>3, ConstantTypes
  <2> HIDE DEF cutoff
  <2>5. T + 1 >= horizon /\ T + 1 >= cutoff
    BY SMTT(60), <1>2, <1>3, <2>1, <2>4
  <2>6. \A e \in events : e.ts \in Nat
    BY EventsOrdered DEF Ordered
  <2>7. \A e \in events : e.ts > T => e.ts >= cutoff
    BY SMTT(60), <1>3, <2>4, <2>5, <2>6
  <2>8. Newer(r, T)' = Newer(r, T)
    BY <2>1, <2>7 DEF Newer
  <2> QED
    BY <1>1, <1>2, <2>1, <2>5, <2>8 DEF Settled
<1> QED
  BY <1>1, <1>3, <1>4, <1>5, <1>6, TableStep

\* The row and the tags a settled millisecond ended with.
LEMMA PastTypes ==
  ASSUME TypeOK, NEW r \in Runs, NEW T \in 1 .. Len(past), Settled(r, T)
  PROVE  past[T].row[r] \in Row /\ past[T].tags[r] \in TagsOf
<1> DEFINE Entry == [row : [Runs -> Row \cup {NoRow}], tags : [Runs -> TagsOf], quiet : BOOLEAN]
<1>1. past \in Seq(Entry)
  BY DEF TypeOK
<1> HIDE DEF Entry
<1>2. past[T] \in Entry
  BY SMTT(60), <1>1
<1>3. past[T].row \in [Runs -> Row \cup {NoRow}] /\ past[T].tags \in [Runs -> TagsOf]
  BY <1>2 DEF Entry
<1>4. past[T].row[r] # NoRow
  BY DEF Settled
<1> QED
  BY <1>3, <1>4

\* An undo to the row of a settled millisecond still gives it after the step, from
\* the row in the table as from a row read earlier.
LEMMA RowViewStep ==
  TypeOK /\ TypeOK' /\ LogOrdered /\ LogOrdered' /\ SerialInv /\ [Next]_vars /\ AsOfExact =>
    \A r \in Runs, T \in 1 .. Len(past), cur \in Row :
      Settled(r, T)' /\ UndoRow(cur, Newer(r, T)) = past[T].row[r] =>
        /\ UndoRow(row'[r], Newer(r, T)') = past'[T].row[r]
        /\ UndoRow(cur, Newer(r, T)') = past'[T].row[r]
\* A commit that logs exactly leaves an undo to the row X what it was, whether it
\* starts from the new row or from a row cur read before the commit.
<1>CommitUndoesRow. ASSUME NEW r, NEW E, NEW N, NEW new \in Row, NEW cur \in Row, NEW X \in Row, row[r] \in Row,
                           Appended(E, N), \A n \in N : n.run = r, RowExact(r, new, N), UndoRow(row[r], E) = X
                    PROVE  /\ UndoRow(new, E \cup N) = X
                           /\ UndoRow(cur, E) = X => UndoRow(cur, E \cup N) = X
  <2> USE <1>CommitUndoesRow
  <2>1. ASSUME NEW kind PROVE EndsSame(OfKind(E, kind), OfKind(N, kind), OfKind(E \cup N, kind))
    <3>1. OfKind(E \cup N, kind) = OfKind(E, kind) \cup OfKind(N, kind)
      BY DEF OfKind
    <3>2. Appended(OfKind(E, kind), OfKind(N, kind))
      BY DEF Appended, Ordered, OfKind
    <3> QED
      BY <3>1, <3>2, FirstCases
  <2>2. \A kind : \A n \in OfKind(N, kind) : n \in N /\ OnRun(n, r, kind)
    BY DEF OfKind, OnRun
  <2>3. \A kind : \A n \in N : OnRun(n, r, kind) => n \in OfKind(N, kind)
    BY DEF OfKind, OnRun
  <2>4. /\ SameUpdated(BeforeFirst(OfKind(E, "run_update"), row[r]), X)
        /\ BeforeFirst(OfKind(E, "run_lifecycle"), row[r]).stage = X.stage
        /\ BeforeFirst(OfKind(E, "run_parent"), row[r]).parent = X.parent
        /\ row[r].start = X.start
    BY SMTT(60), UndoRowColumns
  <2>5. ASSUME NEW z \in Row,
               OfKind(E, "run_update") = {} /\ OfKind(N, "run_update") = {} => SameUpdated(z, X)
        PROVE  SameUpdated(BeforeFirst(OfKind(E \cup N, "run_update"), z), X)
    <3>1. \A n \in OfKind(N, "run_update") : n.before = row[r]
      BY <2>2 DEF RowExact
    <3>2. EndsSame(OfKind(E, "run_update"), OfKind(N, "run_update"), OfKind(E \cup N, "run_update"))
      BY <2>1
    <3> QED
      BY <2>4, <2>5, <3>1, <3>2 DEF EndsSame
  <2>6. ASSUME NEW z \in Row,
               OfKind(E, "run_lifecycle") = {} /\ OfKind(N, "run_lifecycle") = {} => z.stage = X.stage
        PROVE  BeforeFirst(OfKind(E \cup N, "run_lifecycle"), z).stage = X.stage
    <3>1. \A n \in OfKind(N, "run_lifecycle") : n.before = row[r]
      BY <2>2 DEF RowExact
    <3>2. EndsSame(OfKind(E, "run_lifecycle"), OfKind(N, "run_lifecycle"), OfKind(E \cup N, "run_lifecycle"))
      BY <2>1
    <3> QED
      BY <2>4, <2>6, <3>1, <3>2 DEF EndsSame
  <2>7. ASSUME NEW z \in Row,
               OfKind(E, "run_parent") = {} /\ OfKind(N, "run_parent") = {} => z.parent = X.parent
        PROVE  BeforeFirst(OfKind(E \cup N, "run_parent"), z).parent = X.parent
    <3>1. \A n \in OfKind(N, "run_parent") : n.before.parent = row[r].parent
      BY <2>2 DEF RowExact
    <3>2. EndsSame(OfKind(E, "run_parent"), OfKind(N, "run_parent"), OfKind(E \cup N, "run_parent"))
      BY <2>1
    <3> QED
      BY <2>4, <2>7, <3>1, <3>2 DEF EndsSame
  <2>8. UndoRow(new, E \cup N) = X
    <3>1. OfKind(E, "run_update") = {} /\ OfKind(N, "run_update") = {} => SameUpdated(new, X)
      <4>1. OfKind(N, "run_update") = {} => SameUpdated(new, row[r])
        BY <2>3 DEF RowExact
      <4>2. OfKind(E, "run_update") = {} => SameUpdated(row[r], X)
        BY <2>1, <2>4 DEF EndsSame
      <4> QED
        BY <4>1, <4>2 DEF SameUpdated
    <3>2. OfKind(E, "run_lifecycle") = {} /\ OfKind(N, "run_lifecycle") = {} => new.stage = X.stage
      <4>1. OfKind(N, "run_lifecycle") = {} => new.stage = row[r].stage
        BY <2>3 DEF RowExact
      <4>2. OfKind(E, "run_lifecycle") = {} => row[r].stage = X.stage
        BY <2>1, <2>4 DEF EndsSame
      <4> QED
        BY <4>1, <4>2
    <3>3. OfKind(E, "run_parent") = {} /\ OfKind(N, "run_parent") = {} => new.parent = X.parent
      <4>1. OfKind(N, "run_parent") = {} => new.parent = row[r].parent
        BY <2>3 DEF RowExact
      <4>2. OfKind(E, "run_parent") = {} => row[r].parent = X.parent
        BY <2>1, <2>4 DEF EndsSame
      <4> QED
        BY <4>1, <4>2
    <3>4. new.start = X.start
      BY <2>4 DEF RowExact
    <3>5. /\ SameUpdated(BeforeFirst(OfKind(E \cup N, "run_update"), new), X)
          /\ BeforeFirst(OfKind(E \cup N, "run_lifecycle"), new).stage = X.stage
          /\ BeforeFirst(OfKind(E \cup N, "run_parent"), new).parent = X.parent
      BY <2>5, <2>6, <2>7, <3>1, <3>2, <3>3
    <3> QED
      BY SMTT(60), <3>4, <3>5, UndoRowColumns
  <2>9. ASSUME UndoRow(cur, E) = X PROVE UndoRow(cur, E \cup N) = X
    <3>1. /\ SameUpdated(BeforeFirst(OfKind(E, "run_update"), cur), X)
          /\ BeforeFirst(OfKind(E, "run_lifecycle"), cur).stage = X.stage
          /\ BeforeFirst(OfKind(E, "run_parent"), cur).parent = X.parent
          /\ cur.start = X.start
      BY SMTT(60), <2>9, UndoRowColumns
    <3>2. /\ OfKind(E, "run_update") = {} => SameUpdated(cur, X)
          /\ OfKind(E, "run_lifecycle") = {} => cur.stage = X.stage
          /\ OfKind(E, "run_parent") = {} => cur.parent = X.parent
      BY <2>1, <3>1 DEF EndsSame
    <3>3. /\ SameUpdated(BeforeFirst(OfKind(E \cup N, "run_update"), cur), X)
          /\ BeforeFirst(OfKind(E \cup N, "run_lifecycle"), cur).stage = X.stage
          /\ BeforeFirst(OfKind(E \cup N, "run_parent"), cur).parent = X.parent
      BY <2>5, <2>6, <2>7, <3>2
    <3> QED
      BY SMTT(60), <3>1, <3>3, UndoRowColumns
  <2> QED
    BY <2>8, <2>9
<1> SUFFICES ASSUME TypeOK, TypeOK', LogOrdered, LogOrdered', SerialInv, [Next]_vars, AsOfExact,
                    NEW r \in Runs, NEW T \in 1 .. Len(past), NEW cur \in Row,
                    Settled(r, T)', UndoRow(cur, Newer(r, T)) = past[T].row[r]
             PROVE  /\ UndoRow(row'[r], Newer(r, T)') = past'[T].row[r]
                    /\ UndoRow(cur, Newer(r, T)') = past'[T].row[r]
  OBVIOUS
<1>1. Settled(r, T) /\ past'[T] = past[T] /\ Exists(r)
  BY NewerStep
<1>2. UndoRow(row[r], Newer(r, T)) = past[T].row[r]
  BY <1>1 DEF AsOfExact
<1>3. row[r] \in Row /\ row'[r] \in Row /\ past[T].row[r] \in Row
  <2>1. row[r] \in Row \cup {NoRow} /\ row'[r] \in Row \cup {NoRow}
    BY DEF TypeOK
  <2> QED
    BY <1>1, <2>1, RunsKept, PastTypes DEF Exists
<1>4. CASE row' = row /\ Newer(r, T)' = Newer(r, T)
  BY <1>1, <1>2, <1>4
<1>5. ASSUME NEW p \in Procs, Adds(p), Newer(r, T)' = Newer(r, T) \cup RowsOf(NewRows, r),
             Appended(Newer(r, T), RowsOf(NewRows, r))
      PROVE  /\ UndoRow(row'[r], Newer(r, T)') = past'[T].row[r]
             /\ UndoRow(cur, Newer(r, T)') = past'[T].row[r]
  <2>1. RowExact(r, row'[r], NewRows)
    BY <1>1, <1>5, AddsExact
  <2>2. \A e : e \in RowsOf(NewRows, r) <=> e \in NewRows /\ e.run = r
    BY DEF RowsOf
  <2>3. RowExact(r, row'[r], RowsOf(NewRows, r))
    BY <2>1, <2>2 DEF RowExact, OnRun
  <2>4. PICK E, N, X, new : /\ E = Newer(r, T) /\ N = RowsOf(NewRows, r)
                            /\ X = past[T].row[r] /\ new = row'[r]
    OBVIOUS
  <2>5. /\ new \in Row /\ X \in Row /\ row[r] \in Row /\ Appended(E, N) /\ (\A n \in N : n.run = r)
        /\ RowExact(r, new, N) /\ UndoRow(row[r], E) = X
    BY <1>2, <1>3, <1>5, <2>2, <2>3, <2>4
  <2>6. UndoRow(new, E \cup N) = X /\ (UndoRow(cur, E) = X => UndoRow(cur, E \cup N) = X)
    BY SMTT(60), <2>5, <1>CommitUndoesRow
  <2> QED
    BY <1>1, <1>5, <2>4, <2>6
<1> QED
  BY <1>4, <1>5, NewerStep

\* With one mutator at a time every as-of view stays exact.
LEMMA ExactStep ==
  TypeOK /\ TypeOK' /\ LogOrdered /\ LogOrdered' /\ SerialInv /\ [Next]_vars /\ AsOfExact => AsOfExact'
\* The same for tag k.
<1>CommitUndoesTag. ASSUME NEW r, NEW k, NEW E, NEW N, NEW v, NEW x,
                           Appended(E, N), \A n \in N : n.run = r,
                           TagExact(r, k, v, N), BeforeFirst(OnTag(E, k), tags[r][k]) = x
                    PROVE  BeforeFirst(OnTag(E \cup N, k), v) = x
  <2> USE <1>CommitUndoesTag
  <2>1. OnTag(E \cup N, k) = OnTag(E, k) \cup OnTag(N, k)
    BY DEF OnTag
  <2>2. Appended(OnTag(E, k), OnTag(N, k))
    BY DEF Appended, Ordered, OnTag
  <2>4. \A n \in N : n \in OnTag(N, k) <=> OnCell(n, r, k)
    BY DEF OnTag, OnCell
  <2>5. OnTag(N, k) \subseteq N
    BY DEF OnTag
  <2>6. \A n \in OnTag(N, k) : n.before = tags[r][k]
    BY <2>4, <2>5 DEF TagExact
  <2>7. OnTag(N, k) = {} => v = tags[r][k]
    BY <2>4 DEF TagExact
  <2>8. EndsSame(OnTag(E, k), OnTag(N, k), OnTag(E \cup N, k))
    BY <2>1, <2>2, FirstCases
  <2> QED
    BY <2>6, <2>7, <2>8 DEF EndsSame
\* The same for the tags.
<1>TagsViewStep. ASSUME TypeOK, TypeOK', LogOrdered, LogOrdered', SerialInv, [Next]_vars, AsOfExact,
                        NEW r \in Runs, NEW T \in 1 .. Len(past), Settled(r, T)'
                 PROVE  UndoTags(tags'[r], Newer(r, T)') = past'[T].tags[r]
  <2> USE <1>TagsViewStep
  <2>1. Settled(r, T) /\ past'[T] = past[T] /\ Exists(r)
    BY NewerStep
  <2>2. UndoTags(tags[r], Newer(r, T)) = past[T].tags[r] /\ past[T].tags[r] \in TagsOf
    BY <2>1, PastTypes DEF AsOfExact
  <2>3. CASE tags' = tags /\ Newer(r, T)' = Newer(r, T)
    BY <2>1, <2>2, <2>3
  <2>4. ASSUME NEW p \in Procs, Adds(p), Newer(r, T)' = Newer(r, T) \cup RowsOf(NewRows, r),
               Appended(Newer(r, T), RowsOf(NewRows, r))
        PROVE  UndoTags(tags'[r], Newer(r, T)') = past'[T].tags[r]
    <3>1. PICK E, N, Y : E = Newer(r, T) /\ N = RowsOf(NewRows, r) /\ Y = past[T].tags[r]
      OBVIOUS
    <3>2. \A e : e \in N <=> e \in NewRows /\ e.run = r
      BY <3>1 DEF RowsOf
    <3>3. \A k \in AllKeys : BeforeFirst(OnTag(E, k), tags[r][k]) = Y[k]
      BY SMTT(60), <2>2, <3>1, UndoTagsPoints
    <3>4. ASSUME NEW k \in AllKeys PROVE BeforeFirst(OnTag(E \cup N, k), tags'[r][k]) = Y[k]
      <4>1. TagExact(r, k, tags'[r][k], NewRows)
        BY <2>4, AddsExact
      <4>2. TagExact(r, k, tags'[r][k], N)
        BY <3>2, <4>1 DEF TagExact, OnCell
      <4> QED
        BY <2>4, <3>1, <3>2, <3>3, <4>2, <1>CommitUndoesTag
    <3>5. UndoTags(tags'[r], E \cup N) = Y
      <4>1. PICK y, EN : y = tags'[r] /\ EN = E \cup N
        OBVIOUS
      <4>2. Y \in TagsOf /\ \A k \in AllKeys : BeforeFirst(OnTag(EN, k), y[k]) = Y[k]
        BY <2>2, <3>1, <3>4, <4>1
      <4>3. UndoTags(y, EN) = Y
        BY <4>2, UndoTagsPoints
      <4> QED
        BY <4>1, <4>3
    <3> QED
      BY <2>1, <2>4, <3>1, <3>5
  <2> QED
    BY <2>3, <2>4, NewerStep
\* Undoing nothing.
<1>UndoNothing. /\ \A x \in Row : UndoRow(x, {}) = x
                /\ \A y \in TagsOf : UndoTags(y, {}) = y
  <2>1. \A kind, k : OfKind({}, kind) = {} /\ OnTag({}, k) = {}
    BY DEF OfKind, OnTag
  <2>2. \A z : BeforeFirst({}, z) = z
    BY DEF BeforeFirst
  <2>3. ASSUME NEW x \in Row PROVE UndoRow(x, {}) = x
    <3>1. SameUpdated(x, x)
      BY DEF SameUpdated
    <3>2. PICK E : E = {}
      OBVIOUS
    <3>3. \A kind : BeforeFirst(OfKind(E, kind), x) = x
      BY <2>1, <2>2, <3>2
    <3>4. UndoRow(x, E) = x
      BY SMTT(60), <3>1, <3>3, UndoRowColumns
    <3> QED
      BY <3>2, <3>4
  <2>4. ASSUME NEW y \in TagsOf PROVE UndoTags(y, {}) = y
    <3>1. PICK E : E = {}
      OBVIOUS
    <3>2. \A k \in AllKeys : BeforeFirst(OnTag(E, k), y[k]) = y[k]
      BY <2>1, <2>2, <3>1
    <3>3. UndoTags(y, E) = y
      BY <3>2, UndoTagsPoints
    <3> QED
      BY <3>1, <3>3
  <2> QED
    BY <2>3, <2>4
<1> SUFFICES ASSUME TypeOK, TypeOK', LogOrdered, LogOrdered', SerialInv, [Next]_vars, AsOfExact PROVE AsOfExact'
  OBVIOUS
<1>1. SUFFICES ASSUME NEW r \in Runs, NEW T \in 1 .. Len(past'), Settled(r, T)'
               PROVE  /\ UndoRow(row'[r], Newer(r, T)') = past'[T].row[r]
                      /\ UndoTags(tags'[r], Newer(r, T)') = past'[T].tags[r]
  BY DEF AsOfExact
<1>2. CASE T \in 1 .. Len(past)
  <2>1. Settled(r, T) /\ Exists(r)
    BY <1>1, <1>2, NewerStep
  <2>2. row[r] \in Row /\ UndoRow(row[r], Newer(r, T)) = past[T].row[r]
    <3>1. row[r] \in Row \cup {NoRow}
      BY DEF TypeOK
    <3> QED
      BY <1>2, <2>1, <3>1 DEF Exists, AsOfExact
  <2>3. UndoRow(row'[r], Newer(r, T)') = past'[T].row[r]
    BY <1>1, <1>2, <2>2, RowViewStep
  <2>4. UndoTags(tags'[r], Newer(r, T)') = past'[T].tags[r]
    BY <1>1, <1>2, <1>TagsViewStep
  <2> QED
    BY <2>3, <2>4
<1>3. CASE T \notin 1 .. Len(past)
  <2>1. /\ T = clock /\ past'[T].row = row /\ past'[T].tags = tags
        /\ row' = row /\ tags' = tags /\ events' = events /\ clock \in Nat
    BY <1>3, PastStep
  <2>2. Newer(r, T)' = {}
    <3>1. \A e \in events : e.ts \in Nat /\ e.ts <= clock
      BY EventsOrdered DEF Ordered, LogOrdered
    <3> QED
      BY SMTT(60), <2>1, <3>1 DEF Newer
  <2>3. row[r] \in Row /\ tags[r] \in TagsOf
    <3>1. row[r] \in Row \cup {NoRow} /\ tags[r] \in TagsOf
      BY DEF TypeOK
    <3>2. past'[T].row[r] # NoRow
      BY <1>1 DEF Settled
    <3> QED
      BY <2>1, <3>1, <3>2
  <2> QED
    BY <2>1, <2>2, <2>3, <1>UndoNothing
<1> QED
  BY <1>2, <1>3

-----------------------------------------------------------------------------
(* A reader's three queries.                                                *)

\* What a reader holds: the row it has read, until it scans the events, undoes to the
\* row of its millisecond with the events there are; the row of its answer is that row.
ReadShape(x) == x = [pc |-> x.pc, run |-> x.run, asOf |-> x.asOf, began |-> x.began, row |-> x.row,
                     newer |-> x.newer, tags |-> x.tags]
ReaderOK(p) ==
  /\ ReadShape(rd[p])
  /\ rd[p].pc \in {"events", "tags", "done"} =>
       rd[p].run \in Runs /\ rd[p].asOf \in 1 .. clock /\ rd[p].began \in 1 .. clock
  /\ rd[p].pc = "events" => rd[p].row \in Row
  /\ Answered(p, {"events"}) =>
       UndoRow(rd[p].row, Newer(rd[p].run, rd[p].asOf)) = past[rd[p].asOf].row[rd[p].run]
  /\ Answered(p, {"tags", "done"}) => rd[p].row = past[rd[p].asOf].row[rd[p].run]
ReaderInv == rd = [p \in Readers |-> rd[p]] /\ \A p \in Readers : ReaderOK(p)

\* The record of a read.
ReadRecord(pc, r, T, b, x, n, t) ==
  [pc |-> pc, run |-> r, asOf |-> T, began |-> b, row |-> x, newer |-> n, tags |-> t]

\* A reader with nothing in hand.
LEMMA IdleReader ==
  ASSUME NEW p, rd[p].pc \notin {"events", "tags", "done"}, ReadShape(rd[p])
  PROVE  ReaderOK(p)
  BY DEF ReaderOK, Answered

\* One step and every reader.
LEMMA ReaderStep ==
  TypeOK /\ TypeOK' /\ LogOrdered /\ LogOrdered' /\ SerialInv /\ [Next]_vars /\ AsOfExact /\ ReaderInv => ReaderInv'
\* A reader whose record a step leaves alone.
<1>ReaderKept. ASSUME TypeOK, TypeOK', LogOrdered, LogOrdered', SerialInv, [Next]_vars, AsOfExact,
                      NEW p \in Readers, ReaderOK(p), rd'[p] = rd[p]
               PROVE  ReaderOK(p)'
  <2> USE <1>ReaderKept
  <2>1. clock \in Nat /\ clock' \in Nat /\ clock' >= clock /\ Len(past) = clock - 1
    BY PastStep
  <2>2. CASE rd[p].pc \in {"events", "tags", "done"}
    <3>1. PICK r, T, b, x : r = rd[p].run /\ T = rd[p].asOf /\ b = rd[p].began /\ x = rd[p].row
      OBVIOUS
    <3>2. r \in Runs /\ T \in 1 .. clock /\ b \in 1 .. clock /\ (rd[p].pc = "events" => x \in Row)
      BY <2>2, <3>1 DEF ReaderOK
    <3>3. T \in 1 .. clock' /\ b \in 1 .. clock' /\ (T < b => T \in 1 .. Len(past))
      BY SMTT(60), <2>1, <3>2
    <3>4. ASSUME T < b, Settled(r, T)'
          PROVE  /\ rd[p].pc = "events" => UndoRow(x, Newer(r, T)') = past'[T].row[r]
                 /\ rd[p].pc # "events" => x = past'[T].row[r]
      <4>1. Settled(r, T) /\ past'[T] = past[T]
        BY <3>2, <3>3, <3>4, NewerStep
      <4>2. /\ rd[p].pc = "events" => UndoRow(x, Newer(r, T)) = past[T].row[r]
            /\ rd[p].pc # "events" => x = past[T].row[r]
        BY <2>2, <3>1, <3>4, <4>1 DEF ReaderOK, Answered
      <4>3. CASE rd[p].pc = "events"
        <5>1. x \in Row /\ UndoRow(x, Newer(r, T)) = past[T].row[r]
          BY <3>2, <4>2, <4>3
        <5>2. UndoRow(x, Newer(r, T)') = past'[T].row[r]
          BY <3>2, <3>3, <3>4, <5>1, RowViewStep
        <5> QED
          BY <4>3, <5>2
      <4> QED
        BY <4>1, <4>2, <4>3
    <3>5. ReadShape(rd[p])
      BY DEF ReaderOK
    <3> QED
      BY <3>1, <3>2, <3>3, <3>4, <3>5 DEF ReaderOK, Answered
  <2>3. CASE rd[p].pc \notin {"events", "tags", "done"}
    BY <2>3 DEF ReaderOK, Answered
  <2> QED
    BY <2>2, <2>3
\* The first query: the row as it is now undoes to what it was.
<1>GetRunAsOfReads. ASSUME TypeOK, LogOrdered, AsOfExact, ReaderInv, NEW p \in Readers, NEW r \in Runs, NEW T \in 1 .. clock,
                           GetRunAsOf(p, r, T)
                    PROVE  ReaderOK(p)'
  <2> USE <1>GetRunAsOfReads
  <2>1. /\ row' = row /\ events' = events /\ clock' = clock /\ past' = past /\ horizon' = horizon
        /\ rd'[p] = IF Exists(r) /\ row[r].start <= T
                    THEN [IdleRead EXCEPT !.pc = "events", !.run = r, !.asOf = T, !.began = clock, !.row = row[r]]
                    ELSE [IdleRead EXCEPT !.pc = "missing"]
    BY DEF GetRunAsOf, db, hist, ReaderInv
  <2>2. CASE ~(Exists(r) /\ row[r].start <= T)
    <3>1. rd'[p] = [IdleRead EXCEPT !.pc = "missing"]
      BY <2>1, <2>2
    <3>2. rd'[p].pc = "missing" /\ ReadShape(rd'[p])
      BY <3>1 DEF IdleRead, ReadShape
    <3> QED
      BY <3>2 DEF ReaderOK, Answered
  <2>3. CASE Exists(r) /\ row[r].start <= T
    <3>1. rd'[p] = [IdleRead EXCEPT !.pc = "events", !.run = r, !.asOf = T, !.began = clock, !.row = row[r]]
      BY <2>1, <2>3
    <3>2. /\ rd'[p].pc = "events" /\ rd'[p].run = r /\ rd'[p].asOf = T /\ rd'[p].began = clock
          /\ rd'[p].row = row[r] /\ ReadShape(rd'[p])
      <4>1. PICK t : IdleRead = ReadRecord("idle", NoRun, 0, 0, NoRow, {}, t)
        BY DEF IdleRead, ReadRecord
      <4>2. PICK x, c, o, d : x = row[r] /\ c = clock /\ o = IdleRead /\ d = rd'[p]
        OBVIOUS
      <4>3. o = ReadRecord("idle", NoRun, 0, 0, NoRow, {}, t)
        BY <4>1, <4>2
      <4>4. d = [o EXCEPT !.pc = "events", !.run = r, !.asOf = T, !.began = c, !.row = x]
        BY <3>1, <4>2
      <4>5. d = ReadRecord("events", r, T, c, x, {}, t)
        BY <4>3, <4>4 DEF ReadRecord
      <4>6. d.pc = "events" /\ d.run = r /\ d.asOf = T /\ d.began = c /\ d.row = x /\ ReadShape(d)
        BY <4>5 DEF ReadRecord, ReadShape
      <4> QED
        BY <4>2, <4>6
    <3>3. clock \in 1 .. clock /\ row[r] \in Row /\ Len(past) = clock - 1 /\ clock \in Nat
      <4>1. clock \in 1 .. MaxClock /\ row[r] \in Row \cup {NoRow} /\ Len(past) = clock - 1
        BY DEF TypeOK
      <4>2. clock \in 1 .. clock /\ clock \in Nat
        BY SMTT(60), <4>1, ConstantTypes
      <4> QED
        BY <2>3, <4>1, <4>2 DEF Exists
    <3>4. T < clock => T \in 1 .. Len(past)
      BY SMTT(60), <3>3
    <3>5. T < clock /\ Settled(r, T) => UndoRow(row[r], Newer(r, T)) = past[T].row[r]
      BY <3>4 DEF AsOfExact
    <3>6. Newer(r, T)' = Newer(r, T) /\ (Settled(r, T)' => Settled(r, T))
      BY <2>1 DEF Newer, Settled
    <3> QED
      BY <2>1, <3>2, <3>3, <3>5, <3>6 DEF ReaderOK, Answered
  <2> QED
    BY <2>2, <2>3
\* The second and the third: the events undo the row that was read, and the tags
\* leave it alone.
<1>ScansRead. ASSUME ReaderInv, NEW p \in Readers, ScanEvents(p) \/ ReadTags(p)
              PROVE  ReaderOK(p)'
  <2> USE <1>ScansRead
  <2>1. /\ row' = row /\ events' = events /\ clock' = clock /\ past' = past /\ horizon' = horizon
        /\ ReaderOK(p) /\ ReadShape(rd[p])
    BY DEF ScanEvents, ReadTags, db, hist, ReaderInv, ReaderOK
  <2>2. \A r, T : (Settled(r, T)' => Settled(r, T)) /\ Newer(r, T) = {e \in {f \in events : f.run = r} : e.ts > T}
    BY <2>1 DEF Newer, Settled
  <2>3. PICK x, r, T, b, n, t : x = rd[p].row /\ r = rd[p].run /\ T = rd[p].asOf /\ b = rd[p].began
                                /\ n = rd[p].newer /\ t = rd[p].tags
    OBVIOUS
  <2>4. CASE rd'[p] = [IdleRead EXCEPT !.pc = "limit"]
    <3>1. rd'[p].pc = "limit" /\ ReadShape(rd'[p])
      BY <2>4 DEF IdleRead, ReadShape
    <3> QED
      BY <3>1 DEF ReaderOK, Answered
  <2>5. ASSUME rd[p].pc = "events",
               rd'[p] = [rd[p] EXCEPT !.pc = "tags", !.row = UndoRow(x, Newer(r, T)), !.newer = Newer(r, T)]
        PROVE  ReaderOK(p)'
    <3>1. /\ rd'[p].pc = "tags" /\ rd'[p].run = r /\ rd'[p].asOf = T /\ rd'[p].began = b
          /\ rd'[p].row = UndoRow(x, Newer(r, T)) /\ ReadShape(rd'[p])
      <4>1. PICK y, m, o, d : y = UndoRow(x, Newer(r, T)) /\ m = Newer(r, T) /\ o = rd[p] /\ d = rd'[p]
        OBVIOUS
      <4>2. o = ReadRecord("events", r, T, b, x, n, t)
        BY <2>1, <2>3, <2>5, <4>1 DEF ReadShape, ReadRecord
      <4>3. d = [o EXCEPT !.pc = "tags", !.row = y, !.newer = m]
        BY <2>5, <4>1
      <4>4. d = ReadRecord("tags", r, T, b, y, m, t)
        BY <4>2, <4>3 DEF ReadRecord
      <4>5. d.pc = "tags" /\ d.run = r /\ d.asOf = T /\ d.began = b /\ d.row = y /\ ReadShape(d)
        BY <4>4 DEF ReadRecord, ReadShape
      <4> QED
        BY <4>1, <4>5
    <3>2. r \in Runs /\ T \in 1 .. clock /\ b \in 1 .. clock
      BY <2>1, <2>3, <2>5 DEF ReaderOK
    <3>3. T < b /\ Settled(r, T) => UndoRow(x, Newer(r, T)) = past[T].row[r]
      BY <2>1, <2>3, <2>5 DEF ReaderOK, Answered
    <3> QED
      BY <2>1, <2>2, <3>1, <3>2, <3>3 DEF ReaderOK, Answered
  <2>6. ASSUME rd[p].pc = "tags", NEW v, rd'[p] = [rd[p] EXCEPT !.pc = "done", !.newer = {}, !.tags = v]
        PROVE  ReaderOK(p)'
    <3>1. /\ rd'[p].pc = "done" /\ rd'[p].run = r /\ rd'[p].asOf = T /\ rd'[p].began = b
          /\ rd'[p].row = x /\ ReadShape(rd'[p])
      <4>1. PICK o, d : o = rd[p] /\ d = rd'[p]
        OBVIOUS
      <4>2. o = ReadRecord("tags", r, T, b, x, n, t)
        BY <2>1, <2>3, <2>6, <4>1 DEF ReadShape, ReadRecord
      <4>3. d = [o EXCEPT !.pc = "done", !.newer = {}, !.tags = v]
        BY <2>6, <4>1
      <4>4. d = ReadRecord("done", r, T, b, x, {}, v)
        BY <4>2, <4>3 DEF ReadRecord
      <4>5. d.pc = "done" /\ d.run = r /\ d.asOf = T /\ d.began = b /\ d.row = x /\ ReadShape(d)
        BY <4>4 DEF ReadRecord, ReadShape
      <4> QED
        BY <4>1, <4>5
    <3>2. r \in Runs /\ T \in 1 .. clock /\ b \in 1 .. clock
      BY <2>1, <2>3, <2>6 DEF ReaderOK
    <3>3. T < b /\ Settled(r, T) => x = past[T].row[r]
      BY <2>1, <2>3, <2>6 DEF ReaderOK, Answered
    <3> QED
      BY <2>1, <2>2, <3>1, <3>2, <3>3 DEF ReaderOK, Answered
  <2>7. rd = [o \in Readers |-> rd[o]]
    BY DEF ReaderInv
  <2>8. CASE ScanEvents(p)
    <3>1. PICK m : m = {e \in {f \in events : f.run = r} : e.ts > T}
      OBVIOUS
    <3>2. m = Newer(r, T)
      BY <2>2, <3>1
    <3>3. /\ rd[p].pc = "events"
          /\ \/ rd' = [rd EXCEPT ![p] = [IdleRead EXCEPT !.pc = "limit"]]
             \/ rd' = [rd EXCEPT ![p].pc = "tags", ![p].row = UndoRow(@, m), ![p].newer = m]
      BY <2>3, <2>8, <3>1 DEF ScanEvents
    <3>4. \/ rd'[p] = [IdleRead EXCEPT !.pc = "limit"]
          \/ rd'[p] = [rd[p] EXCEPT !.pc = "tags", !.row = UndoRow(x, m), !.newer = m]
      BY <2>3, <2>7, <3>3
    <3> QED
      BY <2>4, <2>5, <3>2, <3>3, <3>4
  <2>9. CASE ReadTags(p)
    <3>1. PICK v : v = UndoTags(tags[rd[p].run], rd[p].newer)
      OBVIOUS
    <3>2. rd[p].pc = "tags" /\ rd' = [rd EXCEPT ![p].pc = "done", ![p].newer = {}, ![p].tags = v]
      BY <2>9, <3>1 DEF ReadTags
    <3>3. rd'[p] = [rd[p] EXCEPT !.pc = "done", !.newer = {}, !.tags = v]
      BY <2>7, <3>2
    <3> QED
      BY <2>6, <3>2, <3>3
  <2> QED
    BY <2>8, <2>9
<1> SUFFICES ASSUME TypeOK, TypeOK', LogOrdered, LogOrdered', SerialInv, [Next]_vars, AsOfExact, ReaderInv
             PROVE  ReaderInv'
  OBVIOUS
<1>1. rd = [p \in Readers |-> rd[p]] /\ \A p \in Readers : ReaderOK(p)
  BY DEF ReaderInv
<1>2. CASE rd' = rd
  <2>1. \A p \in Readers : ReaderOK(p)'
    BY <1>1, <1>2, <1>ReaderKept
  <2> QED
    BY <1>1, <1>2, <2>1 DEF ReaderInv
<1>3. CASE Crash
  <2>1. rd' = [p \in Readers |-> IdleRead]
    BY <1>3 DEF Crash
  <2>2. IdleRead.pc = "idle" /\ ReadShape(IdleRead)
    BY DEF IdleRead, ReadShape
  <2>3. \A p \in Readers : ReaderOK(p)'
    BY <2>1, <2>2 DEF ReaderOK, Answered
  <2>4. rd' = [p \in Readers |-> rd'[p]]
    BY <2>1
  <2> QED
    BY <2>3, <2>4 DEF ReaderInv
<1>4. ASSUME NEW p \in Readers, Read(p) PROVE ReaderInv'
  <2>1. PICK x : rd' = [rd EXCEPT ![p] = x]
    <3>1. CASE \E r \in Runs, T \in 1 .. clock : GetRunAsOf(p, r, T)
      BY <3>1 DEF GetRunAsOf
    <3>2. CASE ScanEvents(p) \/ ReadTags(p)
      BY <3>2 DEF ScanEvents, ReadTags
    <3> QED
      BY <1>4, <3>1, <3>2 DEF Read
  <2>2. rd' = [o \in Readers |-> rd'[o]] /\ \A o \in Readers : o # p => rd'[o] = rd[o]
    BY <1>1, <2>1
  <2>3. ReaderOK(p)'
    BY <1>4, <1>GetRunAsOfReads, <1>ScansRead DEF Read
  <2>4. \A o \in Readers : o # p => ReaderOK(o)'
    BY <1>1, <2>2, <1>ReaderKept
  <2> QED
    BY <2>2, <2>3, <2>4 DEF ReaderInv
<1>5. CASE Tick \/ JanitorTick \/ UNCHANGED vars
  BY <1>2, <1>5 DEF Tick, JanitorTick, vars
<1>6. ASSUME NEW p \in Writers, Arrival(p) PROVE rd' = rd
  <2>1. PICK q : Arrive(p, q)
    BY <1>6, ArrivalStarts
  <2> QED
    BY <2>1 DEF Arrive
<1>7. ASSUME NEW p \in Procs, Serve(p) PROVE rd' = rd
  BY <1>7, ServeAdds DEF PreRead, BeginTx, Fail, Adds, PruneEventsBefore
<1> QED
  BY <1>2, <1>3, <1>4, <1>5, <1>6, <1>7 DEF Next

-----------------------------------------------------------------------------
(* The theorems on mutators served one at a time.                           *)

ExactInv == AsOfInv /\ SerialInv /\ AsOfExact /\ ReaderInv

\* It holds at the start: nobody has asked for anything and there is no history.
LEMMA ExactInit == Init => ExactInv
<1> SUFFICES ASSUME Init PROVE ExactInv
  OBVIOUS
<1>1. AsOfInv
  BY AsOfInit
<1>2. \A p \in Procs : req[p].pc = "idle"
  BY DEF Init, IdleReq
<1>3. SerialInv
  BY <1>2 DEF SerialInv, Alone
<1>4. AsOfExact
  <2>1. past = <<>>
    BY DEF Init
  <2>2. 1 .. Len(past) = {}
    BY SMTT(60), <2>1
  <2> QED
    BY <2>2 DEF AsOfExact
<1>5. ReaderInv
  <2>1. rd = [p \in Readers |-> IdleRead]
    BY DEF Init
  <2>2. IdleRead.pc = "idle" /\ ReadShape(IdleRead)
    BY DEF IdleRead, ReadShape
  <2>3. \A p \in Readers : ReaderOK(p)
    BY <2>1, <2>2, IdleReader
  <2>4. rd = [p \in Readers |-> rd[p]]
    BY <2>1
  <2> QED
    BY <2>3, <2>4 DEF ReaderInv
<1> QED
  BY <1>1, <1>3, <1>4, <1>5 DEF ExactInv

\* And every step keeps it while at most one mutating request is in flight.
LEMMA ExactInvStep ==
  ASSUME MaxInFlight <= 1, ExactInv, [Next]_vars
  PROVE  ExactInv'
<1>1. AsOfInv /\ SerialInv /\ AsOfExact /\ ReaderInv
  BY DEF ExactInv
<1>2. AsOfInv'
  BY <1>1, AsOfStep
<1>3. TypeOK /\ LogOrdered /\ TypeOK' /\ LogOrdered'
  BY <1>1, <1>2 DEF AsOfInv
<1>4. SerialInv'
  BY <1>1, <1>3, SerialStep
<1>5. AsOfExact'
  BY <1>1, <1>3, ExactStep
<1>6. ReaderInv'
  BY <1>1, <1>3, ReaderStep
<1> QED
  BY <1>2, <1>4, <1>5, <1>6 DEF ExactInv

\* When mutating requests are served one at a time, undoing the events after a settled
\* millisecond T gives the row and the tags of every run exactly as T left them: UpdateRun,
\* SetRunLifecycle, SetTags, DeleteTag, ArchiveStaleRuns and CreateRun each log enough.
THEOREM AsOfReadsExact ==
  ASSUME MaxInFlight <= 1
  PROVE  Spec => []AsOfExact
<1>1. ExactInv /\ [Next]_vars => ExactInv'
  BY ExactInvStep
<1>2. ExactInv => AsOfExact
  BY DEF ExactInv
<1> QED
  BY <1>1, <1>2, ExactInit, PTL DEF Spec

\* In the same case the row of a GetRunAsOf answer is exact although its row and its events
\* come from two queries, with commits, prunes and crashes in between.
THEOREM AnswersExact ==
  ASSUME MaxInFlight <= 1
  PROVE  Spec => []ReadRowExact
<1>1. ExactInv /\ [Next]_vars => ExactInv'
  BY ExactInvStep
<1>2. ExactInv => ReadRowExact
  BY DEF ExactInv, ReaderInv, ReaderOK, ReadRowExact
<1> QED
  BY <1>1, <1>2, ExactInit, PTL DEF Spec

\* In the same case no committed change to a run or to its tags goes without an event row
\* of that run in the same commit.
THEOREM MutationsLogged ==
  ASSUME MaxInFlight <= 1
  PROVE  Spec => MutationLogged
<1> DEFINE A == \A r \in Runs : Exists(r) /\ (row'[r] # row[r] \/ tags'[r] # tags[r]) =>
                                  \E e \in events' : e.run = r /\ e.id >= nextId
<1>1. ExactInv /\ [Next]_vars => ExactInv'
  BY ExactInvStep
<1>2. ExactInv /\ [Next]_vars => [A]_vars
  <2> SUFFICES ASSUME ExactInv, [Next]_vars PROVE A
    OBVIOUS
  <2>1. TypeOK /\ LogOrdered /\ SerialInv
    BY DEF ExactInv, AsOfInv
  <2>2. TypeOK'
    BY <2>1, TypeStep
  <2> QED
    BY <2>1, <2>2, ChangeLogged
<1>3. MutationLogged <=> [][A]_vars
  BY DEF MutationLogged
<1> HIDE DEF A
<1> QED
  BY <1>1, <1>2, <1>3, ExactInit, PTL DEF Spec

-----------------------------------------------------------------------------
(* The reverse loops over the event table of every reachable state.         *)

\* Every tag_delete in the event table carries the value it removed: DeleteTag logs nothing
\* when its pre-read found none.
DeletesCarry == \A e \in events : e.kind = "tag_delete" => e.before # Absent

LEMMA DeletesStep ==
  ASSUME TypeOK, TypeOK', LogOrdered, DeletesCarry, [Next]_vars
  PROVE  DeletesCarry'
<1>1. CASE UNCHANGED events
  BY <1>1 DEF DeletesCarry
<1>2. ASSUME NEW p \in Procs, PruneEventsBefore(p) PROVE DeletesCarry'
  BY <1>2 DEF DeletesCarry, PruneEventsBefore
<1>3. ASSUME NEW p \in Procs, Adds(p) PROVE DeletesCarry'
  <2>1. PICK N : N = NewRows
    OBVIOUS
  <2>2. events' = events \cup N /\ \A r \in Runs, k \in AllKeys : TagLogged(p, r, k, tags'[r][k], N)
    BY <1>3, <2>1 DEF Adds, Logged
  <2>3. ASSUME NEW e \in N, e.kind = "tag_delete" PROVE e.before # Absent
    <3>1. e \in events'
      BY <2>2
    <3>2. EventOK(e)
      BY <3>1 DEF TypeOK, EventOK
    <3>3. e.run \in Runs /\ e.key \in AllKeys
      BY <2>3, <3>2 DEF EventOK, RunEventRows, TagEventRows
    <3>4. OnCell(e, e.run, e.key)
      BY <2>3 DEF OnCell
    <3>5. PICK r, k : r = e.run /\ k = e.key
      OBVIOUS
    <3>6. TagLogged(p, r, k, tags'[r][k], N) /\ OnCell(e, r, k)
      BY <2>2, <3>3, <3>4, <3>5
    <3> QED
      BY <2>3, <3>6 DEF TagLogged
  <2> QED
    BY <2>2, <2>3 DEF DeletesCarry
<1> QED
  BY <1>1, <1>2, <1>3, TableStep

\* In every reachable state the reverse loops of getRunAsOfImpl over the newer events give
\* the row and the tags that UndoRow and UndoTags state.
THEOREM ReplayLoops == Spec => []ReplayIsTheLoop
<1> DEFINE Inv == AsOfInv /\ DeletesCarry
<1>1. Init => Inv
  <2>1. Init => AsOfInv
    BY AsOfInit
  <2>2. Init => DeletesCarry
    BY DEF Init, DeletesCarry
  <2> QED
    BY <2>1, <2>2
<1>2. Inv /\ [Next]_vars => Inv'
  <2> SUFFICES ASSUME AsOfInv, DeletesCarry, [Next]_vars PROVE AsOfInv' /\ DeletesCarry'
    OBVIOUS
  <2>1. AsOfInv'
    BY AsOfStep
  <2>2. TypeOK /\ LogOrdered /\ TypeOK'
    BY <2>1 DEF AsOfInv
  <2> QED
    BY <2>1, <2>2, DeletesStep
<1>3. Inv => ReplayIsTheLoop
  <2> SUFFICES ASSUME AsOfInv, DeletesCarry, NEW r \in Runs, NEW T \in 1 .. clock, Exists(r)
               PROVE  /\ UndoRowLoop(row[r], Newer(r, T)) = UndoRow(row[r], Newer(r, T))
                      /\ UndoTagsLoop(tags[r], Newer(r, T)) = UndoTags(tags[r], Newer(r, T))
    BY DEF ReplayIsTheLoop
  <2>1. TypeOK /\ LogOrdered
    BY DEF AsOfInv
  <2>2. row[r] \in Row /\ tags[r] \in TagsOf
    BY <2>1 DEF TypeOK, Exists
  <2>3. PICK E : E = Newer(r, T)
    OBVIOUS
  <2>4. E \in SUBSET events
    BY <2>3 DEF Newer
  <2>5. IsFiniteSet(E) /\ Ordered(E) /\ \A e \in E : EventOK(e)
    BY <2>1, <2>4, EventsFinite
  <2>6. \A e \in E : EventOK(e) /\ (e.kind = "tag_delete" => e.before # Absent)
    BY <2>4, <2>5 DEF DeletesCarry
  <2>7. UndoRowLoop(row[r], E) = UndoRow(row[r], E)
    BY <2>2, <2>5, RowReplay
  <2>8. UndoTagsLoop(tags[r], E) = UndoTags(tags[r], E)
    BY <2>2, <2>5, <2>6, TagsReplay
  <2> QED
    BY <2>3, <2>7, <2>8
<1> HIDE DEF Inv
<1> QED
  BY <1>1, <1>2, <1>3, PTL DEF Spec
=============================================================================
