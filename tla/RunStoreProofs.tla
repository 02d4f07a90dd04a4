--------------------------- MODULE RunStoreProofs ---------------------------
(***************************************************************************)
(* RunStore keeps its types, the parent tag mirrors the parent column, the *)
(* event log is in commit order, and the parent of an as-of read is exact. *)
(* Every mutator is first shown to end in a commit of one general form     *)
(* (Committed); the invariants are then proved once for that form.         *)
(*                                                                         *)
(* At the end, the loop lemmas: on a finite set of events in commit order  *)
(* the reverse loops of getRunAsOfImpl give what UndoRow and UndoTags do.  *)
(***************************************************************************)
EXTENDS RunStore, FiniteSetTheorems, WellFoundedInduction, TLAPS

USE ZenonT(60)

\* A goroutine without a request is well-formed (the state after a handler returns).
LEMMA IdleOK ==
  ASSUME NEW p, NEW now \in Nat, NEW rows
  PROVE  ReqOK(p, IdleReq, now, rows)
  BY SMTT(60) DEF ReqOK, ArgOK, IdleReq, NothingRead, TagsOf

Ops == {"create", "update", "lifecycle", "set", "delete", "archive"}
Cells == [run : Runs, key : AllKeys \cup {"row"}]

\* The key and the value of each tag in a batch (LogBatch, SetTags).
LEMMA PairTypes ==
  ASSUME NEW batch \in Seq(Pairs), NEW i \in 1 .. Len(batch)
  PROVE  /\ batch[i] \in AllKeys \X TagVals
         /\ batch[i][1] \in AllKeys /\ batch[i][2] \in TagVals
         /\ batch[i][1] = ParentKey => batch[i][2] \in Runs \cup {NoRun}
<1>1. batch[i] \in Pairs
  BY SMTT(60)
<1> QED
  BY <1>1 DEF Pairs

RunBodies == [run : Runs, kind : {"run_update", "run_lifecycle", "run_parent"},
              key : {"row"}, val : {NoRun}, before : Row]
TagBodies == [run : Runs, kind : {"tag_set", "tag_delete"},
              key : AllKeys, val : TagVals, before : TagVals \cup {Absent}]
EventOK(e) == \/ e.key = "row" /\ e \in RunEventRows
              \/ e.key # "row" /\ e \in TagEventRows

\* The event rows of a commit have fresh ids and stamps between the lock and now
\* (writeRunEvent inside the transaction).
LEMMA StampedOK ==
  ASSUME TypeOK, NEW p \in Procs, req[p].pc = "txn",
         NEW evs \in Seq(RunBodies \cup TagBodies), NEW s \in Stamps(p, Len(evs)),
         NEW e \in Stamped(evs, s)
  PROVE  /\ EventOK(e)
         /\ e.id \in nextId .. nextId + Len(evs) - 1
         /\ e.ts \in req[p].t0 .. clock
<1>1. PICK i \in 1 .. Len(evs) : e = EventRow(evs[i], nextId + i - 1, s[i])
  BY DEF Stamped
<1>2. /\ req[p].t0 \in 0 .. clock /\ req[p].t0 >= 1 /\ clock \in 1 .. MaxClock
      /\ nextId \in Nat \ {0} /\ MaxClock \in Nat
  BY ConstantTypes DEF TypeOK, ReqOK
<1>3. s[i] \in req[p].t0 .. clock
  BY DEF Stamps
<1>4. evs[i] \in RunBodies \/ evs[i] \in TagBodies
  BY SMTT(60)
<1>5. /\ e.id = nextId + i - 1 /\ e.ts = s[i]
      /\ e.key = evs[i].key
  BY <1>1 DEF EventRow
<1>6. e.id \in Nat /\ e.ts \in 1 .. MaxClock /\ e.id \in nextId .. nextId + Len(evs) - 1
  BY SMTT(60), <1>2, <1>3, <1>5
<1>7. CASE evs[i] \in RunBodies
  BY <1>1, <1>3, <1>5, <1>6, <1>7 DEF RunBodies, EventOK, RunEventRows, EventRow
<1>8. CASE evs[i] \in TagBodies
  BY <1>1, <1>3, <1>5, <1>6, <1>8, ConstantsDistinct DEF TagBodies, EventOK, TagEventRows, EventRow
<1> QED
  BY <1>3, <1>4, <1>5, <1>6, <1>7, <1>8

\* What a commit does to the parent of run r: it logs the parent the row had, or
\* leaves it alone; and the tag it leaves behind is empty, or the column's value,
\* or untouched together with the column.
ParentLogged(r, newRow, evs) ==
  LET at == {i \in 1 .. Len(evs) : evs[i].run = r /\ evs[i].kind = "run_parent"}
  IN IF at = {} THEN newRow[r].parent = row[r].parent
                ELSE \A i \in at : evs[i].before.parent = row[r].parent
ParentTagKept(r, newRow, newTags) ==
  \/ newTags[r][ParentKey] \in {Absent, NoRun}
  \/ newRow[r] # NoRow /\ newRow[r].parent = newTags[r][ParentKey]
  \/ newTags[r][ParentKey] = tags[r][ParentKey] /\ (Exists(r) => newRow[r].parent = row[r].parent)

\* Every mutator ends in a well-typed commit that loses no run.
Committed(p) ==
  /\ req[p].pc = "txn"
  /\ \E newRow \in [Runs -> Row \cup {NoRow}], newTags \in [Runs -> TagsOf],
        evs \in Seq(RunBodies \cup TagBodies) :
       /\ \A r \in Runs : Exists(r) => newRow[r] # NoRow /\ ParentLogged(r, newRow, evs)
       /\ \A r \in Runs : ParentTagKept(r, newRow, newTags)
       /\ Commit(p, newRow, newTags, evs)

\* A non-empty set of naturals has a least element (ORDER BY ... ASC has a first row).
LEMMA LeastNat ==
  ASSUME NEW T, T \subseteq Nat, T # {}
  PROVE  \E n \in T : \A m \in T : n <= m
<1> DEFINE R == OpToRel(<, Nat)
<1>1. IsWellFoundedOn(R, Nat)
  BY NatLessThanWellFounded
<1>2. \A x, y \in Nat : x < y => <<x, y>> \in R
  BY DEF OpToRel
<1> HIDE DEF R
<1>3. PICK n \in T : \A m \in T : ~ (<<m, n>> \in R)
  BY <1>1, WFMin
<1>4. ASSUME NEW m \in T
      PROVE  n <= m
  <2>1. n \in Nat /\ m \in Nat
    OBVIOUS
  <2>2. ~(m < n)
    BY <1>2, <1>3, <2>1
  <2> QED
    BY SMTT(60), <2>1, <2>2
<1> QED
  BY <1>4

\* A set that has 0 and, with each number, the next one has all of them up to n.
LEMMA UpTo ==
  ASSUME NEW n \in Nat, NEW P, 0 \in P, \A i \in 0 .. n - 1 : i \in P => i + 1 \in P
  PROVE  \A i \in 0 .. n : i \in P
<1> DEFINE Bad == {i \in 0 .. n : i \notin P}
<1>1. SUFFICES ASSUME Bad # {} PROVE FALSE
  OBVIOUS
<1>2. Bad \in SUBSET Nat
  BY SMTT(60)
<1>3. PICK m \in Bad : \A i \in Bad : m <= i
  <2> HIDE DEF Bad
  <2> QED
    BY <1>1, <1>2, LeastNat
<1>4. m \in 0 .. n /\ m \notin P /\ m # 0
  BY DEF Bad
<1>5. m - 1 \in 0 .. n - 1 /\ m - 1 \notin Bad
  BY SMTT(60), <1>3, <1>4
<1>6. m - 1 \in P
  BY SMTT(60), <1>4, <1>5
<1>7. (m - 1) + 1 \in P
  BY <1>5, <1>6
<1> QED
  BY SMTT(60), <1>4, <1>7

\* f has the states of a loop that starts with base and does step with each of the
\* first m members of list.
LoopStates(S, step, base, list, m, f) ==
  /\ f \in [0 .. m -> S] /\ f[0] = base
  /\ \A i \in 1 .. m : f[i] = step[<<f[i - 1], list[i]>>]

\* There is such an f.
LEMMA LoopRuns ==
  ASSUME NEW S, NEW X, NEW step \in [S \X X -> S], NEW base \in S, NEW n \in Nat,
         NEW list, \A i \in 1 .. n : list[i] \in X
  PROVE  \E f : LoopStates(S, step, base, list, n, f)
<1> DEFINE P == {m \in 0 .. n : \E f : LoopStates(S, step, base, list, m, f)}
<1>1. 0 \in P
  <2>1. LoopStates(S, step, base, list, 0, [i \in 0 .. 0 |-> base])
    BY SMTT(60) DEF LoopStates
  <2> QED
    BY SMTT(60), <2>1
<1>2. ASSUME NEW m \in 0 .. n - 1, m \in P PROVE m + 1 \in P
  <2>1. m \in Nat /\ m + 1 \in 1 .. n /\ m + 1 \in 0 .. n
    BY SMTT(60)
  <2>2. PICK f : LoopStates(S, step, base, list, m, f)
    BY <1>2
  <2>3. f \in [0 .. m -> S] /\ f[0] = base /\ \A i \in 1 .. m : f[i] = step[<<f[i - 1], list[i]>>]
    BY <2>2 DEF LoopStates
  <2> DEFINE last == step[<<f[m], list[m + 1]>>]
             g == [i \in 0 .. m + 1 |-> IF i = m + 1 THEN last ELSE f[i]]
  <2>4. last \in S /\ \A i \in 0 .. m : f[i] \in S
    BY SMTT(60), <2>1, <2>3
  <2> HIDE DEF last
  <2>5. g \in [0 .. m + 1 -> S] /\ g[m + 1] = last /\ \A i \in 0 .. m : g[i] = f[i]
    BY SMTT(60), <2>1, <2>4
  <2> HIDE DEF g
  <2>6. \A i \in 1 .. m + 1 : g[i] = step[<<g[i - 1], list[i]>>]
    <3> SUFFICES ASSUME NEW i \in 1 .. m + 1 PROVE g[i] = step[<<g[i - 1], list[i]>>]
      OBVIOUS
    <3>1. g[i - 1] = f[i - 1]
      BY SMTT(60), <2>1, <2>5
    <3>2. CASE i = m + 1
      BY SMTT(60), <2>1, <2>5, <3>1, <3>2 DEF last
    <3>3. CASE i # m + 1
      BY SMTT(60), <2>1, <2>3, <2>5, <3>1, <3>3
    <3> QED
      BY <3>2, <3>3
  <2>7. g[0] = base
    BY SMTT(60), <2>1, <2>3, <2>5
  <2>8. LoopStates(S, step, base, list, m + 1, g)
    BY <2>5, <2>6, <2>7 DEF LoopStates
  <2> QED
    BY <2>1, <2>8
<1>3. n \in P
  <2> HIDE DEF P
  <2> QED
    BY SMTT(60), <1>1, <1>2, UpTo
<1> QED
  BY <1>3

\* c has the values of a variable that a loop from n down to 1 sets to v[j] at each j of Hit.
CountsDown(n, Hit, c, v) ==
  /\ n \in Nat /\ Hit \subseteq 1 .. n
  /\ \A i \in 1 .. n : c[i] = IF n + 1 - i \in Hit THEN v[n + 1 - i] ELSE c[i - 1]

\* In the end it has the value of the least j.
LEMMA ReverseLoop ==
  ASSUME NEW n, NEW Hit, NEW c, NEW v, CountsDown(n, Hit, c, v)
  PROVE  /\ Hit = {} => c[n] = c[0]
         /\ \A m \in Hit : (\A j \in Hit : m <= j) => c[n] = v[m]
<1>0. /\ n \in Nat /\ Hit \subseteq 1 .. n
      /\ \A i \in 1 .. n : c[i] = IF n + 1 - i \in Hit THEN v[n + 1 - i] ELSE c[i - 1]
  BY DEF CountsDown
<1> USE <1>0
<1>1. CASE Hit = {}
  <2> DEFINE P == {i \in 0 .. n : c[i] = c[0]}
  <2>1. 0 \in P
    BY SMTT(60)
  <2>2. ASSUME NEW i \in 0 .. n - 1, i \in P PROVE i + 1 \in P
    <3>1. i + 1 \in 1 .. n /\ (i + 1) - 1 = i
      BY SMTT(60)
    <3>2. c[i + 1] = c[i]
      BY <1>1, <3>1
    <3> QED
      BY SMTT(60), <2>2, <3>1, <3>2
  <2>3. n \in P
    <3> HIDE DEF P
    <3> QED
      BY SMTT(60), <2>1, <2>2, UpTo
  <2> QED
    BY <1>1, <2>3
<1>2. ASSUME NEW m \in Hit, \A j \in Hit : m <= j PROVE c[n] = v[m]
  <2> DEFINE k == n + 1 - m
             P == {i \in 0 .. m - 1 : c[k + i] = v[m]}
  <2>0. m \in 1 .. n /\ m - 1 \in Nat /\ k \in 1 .. n /\ n + 1 - k = m
    BY SMTT(60)
  <2>1. 0 \in P
    BY SMTT(60), <2>0
  <2>2. ASSUME NEW i \in 0 .. (m - 1) - 1, i \in P PROVE i + 1 \in P
    <3>1. /\ k + (i + 1) \in 1 .. n /\ (k + (i + 1)) - 1 = k + i /\ n + 1 - (k + (i + 1)) = m - (i + 1)
          /\ i + 1 \in 0 .. m - 1 /\ ~(m <= m - (i + 1))
      BY SMTT(60), <2>0
    <3>2. m - (i + 1) \notin Hit
      BY <1>2, <3>1
    <3>3. c[k + (i + 1)] = c[k + i]
      BY <3>1, <3>2
    <3> QED
      BY <2>2, <3>1, <3>3
  <2>3. m - 1 \in P
    <3>1. 0 \in P /\ \A i \in 0 .. (m - 1) - 1 : i \in P => i + 1 \in P
      BY <2>1, <2>2
    <3> HIDE DEF P
    <3>2. PICK l : l = m - 1
      OBVIOUS
    <3>3. l \in Nat /\ \A i \in 0 .. l - 1 : i \in P => i + 1 \in P
      BY <2>0, <3>1, <3>2
    <3>4. \A i \in 0 .. l : i \in P
      BY <3>1, <3>3, UpTo
    <3> QED
      BY SMTT(60), <3>2, <3>3, <3>4
  <2>4. k + (m - 1) = n
    BY SMTT(60), <2>0
  <2> QED
    BY <2>3, <2>4
<1> QED
  BY <1>1, <1>2

\* The row CreateRun inserts.
LEMMA NewRowType ==
  ASSUME NEW start \in 0 .. MaxClock
  PROVE  NewRow(start) \in Row
<1>1. -1 \in Ends
  BY SMTT(60), ConstantTypes DEF Ends
<1>2. "RUNNING" \in Statuses /\ "" \in Names /\ "active" \in Stages
  BY DEF Statuses, Names, Stages
<1> QED
  BY <1>1, <1>2 DEF NewRow, Row

\* A non-empty set of positions has a last one (the last upsert of a batch wins).
LEMMA GreatestNat ==
  ASSUME NEW n \in Nat, NEW T, T \subseteq 1 .. n, T # {}
  PROVE  \E g \in T : \A m \in T : m <= g
<1> DEFINE U == {n - i : i \in T}
<1>0. \A i \in T : i \in 1 .. n /\ n - i \in Nat
  BY SMTT(60)
<1>1. U \subseteq Nat /\ U # {}
  BY <1>0
<1>2. PICK u \in U : \A v \in U : u <= v
  <2> HIDE DEF U
  <2> QED
    BY <1>1, LeastNat
<1>3. PICK g \in T : u = n - g
  BY <1>2
<1>4. ASSUME NEW m \in T
      PROVE  m <= g
  <2>1. n - m \in U
    OBVIOUS
  <2>2. n - g <= n - m
    BY <1>2, <1>3, <2>1
  <2>3. m \in Nat /\ g \in Nat
    BY SMTT(60)
  <2> QED
    BY SMTT(60), <2>2, <2>3
<1> QED
  BY <1>4

\* Everything a goroutine serving a request can do: read, lock, fail, prune or commit.
LEMMA ServeCases ==
  \A p \in Procs : TypeOK /\ Serve(p) =>
    PreRead(p) \/ BeginTx(p) \/ Fail(p) \/ Committed(p) \/ PruneEventsBefore(p)
\* The payloads writeRunEvent is given.
<1>BodyTypes. /\ \A r \in Runs, before \in Row :
                   \A kind \in {"run_update", "run_lifecycle", "run_parent"} : RunEvent(kind, r, before) \in RunBodies
              /\ \A r \in Runs, k \in AllKeys, v \in TagVals, before \in TagVals \cup {Absent} :
                   \A kind \in {"tag_set", "tag_delete"} : TagEvent(kind, r, k, v, before) \in TagBodies
  BY DEF RunBodies, TagBodies, RunEvent, TagEvent
\* UpdateRun and SetRunLifecycle log at most one row.
<1>IfCapturedType. ASSUME NEW r \in Runs, NEW before \in Row \cup {NoRow},
                          NEW kind \in {"run_update", "run_lifecycle", "run_parent"}
                   PROVE  IfCaptured(before, RunEvent(kind, r, before)) \in Seq(RunBodies \cup TagBodies)
  <2> USE <1>IfCapturedType
  <2>1. CASE before = NoRow
    BY SMTT(60), <2>1 DEF IfCaptured
  <2>2. CASE before # NoRow
    <3>1. RunEvent(kind, r, before) \in RunBodies
      BY <2>2, <1>BodyTypes
    <3> QED
      BY SMTT(60), <2>2, <3>1 DEF IfCaptured
  <2> QED
    BY <2>1, <2>2
\* A commit that leaves parent_run_id alone and logs no run_parent.
<1>NoParentEvent. ASSUME NEW r, NEW newRow, newRow[r].parent = row[r].parent, NEW evs,
                         \A i \in 1 .. Len(evs) : evs[i].kind # "run_parent"
                  PROVE  ParentLogged(r, newRow, evs)
  BY <1>NoParentEvent DEF ParentLogged
\* CreateRun commits a new row, alone or with its parent in the column and the tag.
<1>CreateRunCommits. ASSUME TypeOK, NEW p \in Procs, CreateRun(p)
                     PROVE  Committed(p)
  <2> USE <1>CreateRunCommits
  <2> DEFINE r == req[p].run
             parent == req[p].arg.parent
             inserted == NewRow(req[p].arg.start)
             withParent == [inserted EXCEPT !.parent = parent]
             evs == << RunEvent("run_parent", r, inserted),
                       TagEvent("tag_set", r, ParentKey, parent, tags[r][ParentKey]) >>
  <2>1. /\ req[p].pc = "txn" /\ req[p].op = "create" /\ ~Exists(r)
        /\ \/ /\ parent = NoRun
              /\ Commit(p, [row EXCEPT ![r] = inserted], tags, <<>>)
           \/ /\ parent # NoRun /\ Exists(parent)
              /\ Commit(p, [row EXCEPT ![r] = withParent], [tags EXCEPT ![r][ParentKey] = parent], evs)
    BY DEF CreateRun, InTxn
  <2>1a. ~Exists(r)
    BY <2>1
  <2>2. /\ r \in Runs /\ parent \in Runs \cup {NoRun} /\ req[p].arg.start \in 0 .. MaxClock
        /\ row \in [Runs -> Row \cup {NoRow}] /\ tags \in [Runs -> TagsOf]
    BY <2>1 DEF TypeOK, ReqOK, ArgOK
  <2>3. inserted \in Row /\ withParent \in Row
    <3>1. inserted \in Row
      BY <2>2, NewRowType
    <3> HIDE DEF inserted
    <3> QED
      BY <2>2, <3>1 DEF Row
  <2>4. ParentKey \in AllKeys /\ parent \in TagVals /\ tags[r][ParentKey] \in TagVals \cup {Absent}
    BY SMTT(60), <2>2 DEF AllKeys, TagVals, TagsOf
  <2>5. [tags EXCEPT ![r][ParentKey] = parent] \in [Runs -> TagsOf]
    <3>1. [tags[r] EXCEPT ![ParentKey] = parent] \in TagsOf
      BY <2>2, <2>4 DEF TagsOf
    <3> QED
      BY <2>2, <3>1
  <2>6. evs \in Seq(RunBodies \cup TagBodies) /\ <<>> \in Seq(RunBodies \cup TagBodies)
    <3>1. /\ RunEvent("run_parent", r, inserted) \in RunBodies
          /\ TagEvent("tag_set", r, ParentKey, parent, tags[r][ParentKey]) \in TagBodies
      BY <2>2, <2>3, <2>4, <1>BodyTypes
    <3> QED
      BY SMTT(60), <3>1
  <2>7. NoRow \notin Row
    BY ConstantsDistinct
  <2> HIDE DEF inserted, withParent, evs
  <2>8. /\ [row EXCEPT ![r] = inserted] \in [Runs -> Row \cup {NoRow}]
        /\ [row EXCEPT ![r] = withParent] \in [Runs -> Row \cup {NoRow}]
        /\ \A i \in Runs : Exists(i) => /\ [row EXCEPT ![r] = inserted][i] # NoRow
                                        /\ [row EXCEPT ![r] = withParent][i] # NoRow
    BY <2>1, <2>2, <2>3, <2>7 DEF Exists
  <2>9. CASE Commit(p, [row EXCEPT ![r] = inserted], tags, <<>>)
    <3> DEFINE newRow == [row EXCEPT ![r] = inserted]
    <3>1. \A i \in Runs : Exists(i) => ParentLogged(i, newRow, <<>>)
      BY SMTT(60), <2>1a, <2>2 DEF ParentLogged, Exists
    <3>2. \A i \in Runs : ParentTagKept(i, newRow, tags)
      BY <2>1a, <2>2 DEF ParentTagKept, Exists
    <3> HIDE DEF newRow
    <3> QED
      BY <2>1, <2>2, <2>6, <2>8, <2>9, <3>1, <3>2 DEF Committed, newRow
  <2>10. CASE Commit(p, [row EXCEPT ![r] = withParent], [tags EXCEPT ![r][ParentKey] = parent], evs)
    <3> DEFINE newRow == [row EXCEPT ![r] = withParent]
               newTags == [tags EXCEPT ![r][ParentKey] = parent]
    <3>1. ASSUME NEW i \in Runs, Exists(i)
          PROVE  ParentLogged(i, newRow, evs)
      <4>0. i # r
        BY <2>1, <3>1
      <4>1. i # r /\ newRow[i] = row[i]
        BY <2>2, <4>0
      <4>2. \A n \in 1 .. Len(evs) : evs[n].run = r
        BY SMTT(60) DEF evs, RunEvent, TagEvent
      <4> QED
        BY <4>1, <4>2 DEF ParentLogged
    <3>2. ASSUME NEW i \in Runs
          PROVE  ParentTagKept(i, newRow, newTags)
      <4>1. CASE i = r
        <5>1. withParent.parent = parent /\ withParent # NoRow
          <6>1. inserted \in Row
            BY <2>3
          <6> QED
            BY <2>3, <2>7, <6>1 DEF withParent, Row
        <5>2. newTags[i][ParentKey] = parent /\ newRow[i] = withParent
          BY <2>2, <2>4, <4>1 DEF TagsOf
        <5> QED
          BY <5>1, <5>2 DEF ParentTagKept
      <4>2. CASE i # r
        BY <2>2, <4>2 DEF ParentTagKept
      <4> QED
        BY <4>1, <4>2
    <3> HIDE DEF newRow, newTags
    <3> QED
      BY <2>1, <2>2, <2>5, <2>6, <2>8, <2>10, <3>1, <3>2 DEF Committed, newRow, newTags
  <2> QED
    BY <2>1, <2>9, <2>10
\* UpdateRun commits status, end_time and name, and leaves the parent alone.
<1>UpdateRunCommits. ASSUME TypeOK, NEW p \in Procs, UpdateRun(p)
                     PROVE  Committed(p)
  <2> USE <1>UpdateRunCommits
  <2> DEFINE r == req[p].run
             u == req[p].arg
             before == req[p].got.row[r]
             updated == [row[r] EXCEPT !.status = IF "status" \in DOMAIN u THEN u.status ELSE @,
                                       !.end = IF "end" \in DOMAIN u THEN u.end ELSE @,
                                       !.name = IF "name" \in DOMAIN u THEN u.name ELSE @]
             evs == IfCaptured(before, RunEvent("run_update", r, before))
  <2>1. /\ req[p].pc = "txn" /\ req[p].op = "update" /\ Exists(r)
        /\ Commit(p, [row EXCEPT ![r] = updated], tags, evs)
    BY DEF UpdateRun, InTxn
  <2>2. /\ r \in Runs /\ u \in Updates /\ before \in Row \cup {NoRow}
        /\ row \in [Runs -> Row \cup {NoRow}] /\ tags \in [Runs -> TagsOf]
    <3>1. /\ row \in [Runs -> Row \cup {NoRow}] /\ tags \in [Runs -> TagsOf]
          /\ ReqOK(p, req[p], clock, row) /\ req[p].op = "update"
      BY <2>1 DEF TypeOK
    <3>2. ArgOK(p, req[p].op, req[p].run, req[p].arg, clock, row)
      BY <3>1 DEF ReqOK
    <3>3. r \in Runs /\ u \in Updates
      BY <3>1, <3>2 DEF ArgOK
    <3>4. req[p].got.row \in [Runs -> Row \cup {NoRow}]
      BY <3>1 DEF ReqOK
    <3> QED
      BY <3>1, <3>3, <3>4
  <2>3. row[r] \in Row
    BY <2>1, <2>2 DEF Exists
  <2>4. updated \in Row
    BY <2>2, <2>3, ConstantTypes DEF Row
  <2>5. evs \in Seq(RunBodies \cup TagBodies)
    BY <2>2, <1>IfCapturedType
  <2>5a. updated.parent = row[r].parent
    BY <2>3 DEF Row
  <2>5b. \A i \in 1 .. Len(evs) : evs[i].kind # "run_parent"
    <3>1. CASE before = NoRow
      <4>1. evs = <<>>
        BY <3>1 DEF IfCaptured
      <4> HIDE DEF evs
      <4> QED
        BY SMTT(60), <4>1
    <3>2. CASE before # NoRow
      <4> DEFINE ev == RunEvent("run_update", r, before)
      <4>1. evs = <<ev>>
        BY <3>2 DEF IfCaptured
      <4>2. ev.kind = "run_update"
        BY DEF RunEvent
      <4> HIDE DEF evs, ev
      <4> QED
        BY SMTT(60), <4>1, <4>2
    <3> QED
      BY <3>1, <3>2
  <2> HIDE DEF updated, evs
  <2>6. /\ [row EXCEPT ![r] = updated] \in [Runs -> Row \cup {NoRow}]
        /\ \A i \in Runs : Exists(i) => [row EXCEPT ![r] = updated][i] # NoRow
    BY <2>2, <2>4, ConstantsDistinct DEF Exists
  <2> DEFINE newRow == [row EXCEPT ![r] = updated]
  <2>7. \A i \in Runs : newRow[i].parent = row[i].parent
    BY <2>2, <2>5a
  <2> HIDE DEF newRow
  <2>8. \A i \in Runs : ParentLogged(i, newRow, evs) /\ ParentTagKept(i, newRow, tags)
    BY <2>5b, <2>7, <1>NoParentEvent DEF ParentTagKept
  <2> QED
    BY <2>1, <2>2, <2>5, <2>6, <2>8 DEF Committed, newRow
\* SetRunLifecycle commits the stage, and leaves the parent alone.
<1>SetRunLifecycleCommits. ASSUME TypeOK, NEW p \in Procs, SetRunLifecycle(p)
                           PROVE  Committed(p)
  <2> USE <1>SetRunLifecycleCommits
  <2> DEFINE r == req[p].run
             before == req[p].got.row[r]
             updated == [row[r] EXCEPT !.stage = req[p].arg]
             evs == IfCaptured(before, RunEvent("run_lifecycle", r, before))
  <2>1. /\ req[p].pc = "txn" /\ req[p].op = "lifecycle" /\ Exists(r)
        /\ Commit(p, [row EXCEPT ![r].stage = req[p].arg], tags, evs)
    BY DEF SetRunLifecycle, InTxn
  <2>2. /\ r \in Runs /\ req[p].arg \in Stages /\ before \in Row \cup {NoRow}
        /\ row \in [Runs -> Row \cup {NoRow}] /\ tags \in [Runs -> TagsOf]
    BY SMTT(60), <2>1 DEF TypeOK, ReqOK, ArgOK
  <2>3. updated \in Row
    BY <2>1, <2>2 DEF Exists, Row
  <2>4. evs \in Seq(RunBodies \cup TagBodies)
    BY <2>2, <1>IfCapturedType
  <2>4a. updated.parent = row[r].parent
    BY <2>1, <2>2 DEF Exists, Row
  <2>4b. \A i \in 1 .. Len(evs) : evs[i].kind # "run_parent"
    <3>1. CASE before = NoRow
      <4>1. evs = <<>>
        BY <3>1 DEF IfCaptured
      <4> HIDE DEF evs
      <4> QED
        BY SMTT(60), <4>1
    <3>2. CASE before # NoRow
      <4> DEFINE ev == RunEvent("run_lifecycle", r, before)
      <4>1. evs = <<ev>>
        BY <3>2 DEF IfCaptured
      <4>2. ev.kind = "run_lifecycle"
        BY DEF RunEvent
      <4> HIDE DEF evs, ev
      <4> QED
        BY SMTT(60), <4>1, <4>2
    <3> QED
      BY <3>1, <3>2
  <2>5. [row EXCEPT ![r].stage = req[p].arg] = [row EXCEPT ![r] = updated]
    BY <2>2
  <2> HIDE DEF updated, evs
  <2>6. /\ [row EXCEPT ![r] = updated] \in [Runs -> Row \cup {NoRow}]
        /\ \A i \in Runs : Exists(i) => [row EXCEPT ![r] = updated][i] # NoRow
    BY <2>2, <2>3, ConstantsDistinct DEF Exists
  <2> DEFINE newRow == [row EXCEPT ![r] = updated]
  <2>7. \A i \in Runs : newRow[i].parent = row[i].parent
    BY <2>2, <2>4a
  <2> HIDE DEF newRow
  <2>8. \A i \in Runs : ParentLogged(i, newRow, evs) /\ ParentTagKept(i, newRow, tags)
    BY <2>4b, <2>7, <1>NoParentEvent DEF ParentTagKept
  <2> QED
    BY <2>1, <2>2, <2>4, <2>5, <2>6, <2>8 DEF Committed, newRow
\* The value a batch leaves under a key is one of its values.
<1>LastOfType. ASSUME NEW batch \in Seq(Pairs), NEW k \in KeysOf(batch)
               PROVE  /\ LastOf(batch, k) \in TagVals
                      /\ k = ParentKey => LastOf(batch, k) \in Runs \cup {NoRun}
  <2> USE <1>LastOfType
  <2> DEFINE at == {i \in 1 .. Len(batch) : batch[i][1] = k}
             last == CHOOSE i \in at : \A j \in at : j <= i
  <2>1. at # {} /\ at \subseteq 1 .. Len(batch) /\ Len(batch) \in Nat
    BY SMTT(60) DEF KeysOf
  <2>2. \E i \in at : \A j \in at : j <= i
    <3> HIDE DEF at
    <3> QED
      BY <2>1, GreatestNat
  <2>3. last \in at
    BY <2>2
  <2>4. LastOf(batch, k) = batch[last][2] /\ batch[last][1] = k
    BY <2>3 DEF LastOf
  <2> QED
    BY <2>3, <2>4, PairTypes
\* The tags after a batch of upserts.
<1>UpsertType. ASSUME NEW batch \in Seq(Pairs), NEW t \in TagsOf
               PROVE  Upsert(t, batch) \in TagsOf
  BY <1>UpsertType, <1>LastOfType DEF Upsert, TagsOf
\* SetTags commits the tags and, for a non-empty mlflow.parentRunId, the column with a
\* run_parent event whose `before` was read in the transaction.
<1>SetTagsCommits. ASSUME TypeOK, NEW p \in Procs, SetTags(p)
                   PROVE  Committed(p)
  <2> USE <1>SetTagsCommits
  <2> DEFINE r == req[p].run
             batch == req[p].arg
             parent == IF ParentKey \in KeysOf(batch) THEN LastOf(batch, ParentKey) ELSE NoRun
             sets == [i \in 1 .. Len(batch) |->
                        TagEvent("tag_set", r, batch[i][1], batch[i][2], req[p].got.tags[r][batch[i][1]])]
             newTags == [tags EXCEPT ![r] = Upsert(@, batch)]
             withParent == [row[r] EXCEPT !.parent = parent]
             ev == RunEvent("run_parent", r, row[r])
  <2>1. /\ req[p].pc = "txn" /\ req[p].op = "set" /\ Exists(r)
        /\ \/ /\ parent = NoRun
              /\ Commit(p, row, newTags, sets)
           \/ /\ parent # NoRun /\ Exists(parent)
              /\ Commit(p, [row EXCEPT ![r].parent = parent], newTags, Append(sets, ev))
    BY DEF SetTags, InTxn, TagParent
  <2>2. /\ r \in Runs /\ batch \in Seq(Pairs) /\ req[p].got.tags \in [Runs -> TagsOf]
        /\ row \in [Runs -> Row \cup {NoRow}] /\ tags \in [Runs -> TagsOf]
    BY <2>1 DEF TypeOK, ReqOK, ArgOK
  <2>3. row[r] \in Row
    BY <2>1, <2>2 DEF Exists
  <2>4. parent \in Runs \cup {NoRun}
    BY <2>2, <1>LastOfType
  <2>5. newTags \in [Runs -> TagsOf]
    BY <2>2, <1>UpsertType
  <2>6. sets \in Seq(RunBodies \cup TagBodies)
    <3>1. ASSUME NEW i \in 1 .. Len(batch)
          PROVE  sets[i] \in TagBodies
      <4>1. batch[i][1] \in AllKeys /\ batch[i][2] \in TagVals
        BY <2>2, PairTypes
      <4>2. req[p].got.tags[r][batch[i][1]] \in TagVals \cup {Absent}
        BY <2>2, <4>1 DEF TagsOf
      <4> QED
        BY <2>2, <4>1, <4>2, <1>BodyTypes
    <3>2. sets \in [1 .. Len(batch) -> RunBodies \cup TagBodies]
      BY <3>1
    <3>3. Len(batch) \in Nat
      BY SMTT(60), <2>2
    <3> HIDE DEF sets
    <3> QED
      BY SMTT(60), <3>2, <3>3
  <2>7. ev \in RunBodies
    BY <2>2, <2>3, <1>BodyTypes
  <2>7a. /\ \A i \in 1 .. Len(sets) : sets[i].kind # "run_parent"
         /\ ev.kind = "run_parent" /\ ev.run = r /\ ev.before = row[r]
    <3>1. Len(batch) \in Nat
      BY SMTT(60), <2>2
    <3>2. Len(sets) = Len(batch)
      BY SMTT(60), <3>1
    <3>3. \A i \in 1 .. Len(batch) : sets[i].kind = "tag_set"
      BY DEF TagEvent
    <3>4. ev.kind = "run_parent" /\ ev.run = r /\ ev.before = row[r]
      BY DEF RunEvent
    <3> QED
      BY <3>2, <3>3, <3>4
  <2>7b. \A i \in Runs : newTags[i][ParentKey] =
           IF i = r /\ ParentKey \in KeysOf(batch) THEN LastOf(batch, ParentKey) ELSE tags[i][ParentKey]
    BY <2>2 DEF Upsert, AllKeys
  <2>7c. \A i \in Runs : newTags[i][ParentKey] =
           IF i = r /\ parent # NoRun THEN parent
           ELSE IF i = r /\ ParentKey \in KeysOf(batch) THEN NoRun ELSE tags[i][ParentKey]
    BY SMTT(60), <2>7b
  <2> HIDE DEF sets, ev
  <2>8. Append(sets, ev) \in Seq(RunBodies \cup TagBodies)
    BY SMTT(60), <2>6, <2>7
  <2> HIDE DEF parent, newTags
  <2>9. withParent \in Row
    BY <2>3, <2>4 DEF Row
  <2>9a. withParent.parent = parent
    BY <2>3, <2>4 DEF Row
  <2>10. [row EXCEPT ![r].parent = parent] = [row EXCEPT ![r] = withParent]
    BY <2>2
  <2> HIDE DEF withParent
  <2>11. /\ [row EXCEPT ![r] = withParent] \in [Runs -> Row \cup {NoRow}]
         /\ \A i \in Runs : Exists(i) => [row EXCEPT ![r] = withParent][i] # NoRow
         /\ \A i \in Runs : Exists(i) => row[i] # NoRow
    BY <2>2, <2>9, ConstantsDistinct DEF Exists
  <2>12. CASE parent = NoRun /\ Commit(p, row, newTags, sets)
    <3>1. \A i \in Runs : ParentLogged(i, row, sets)
      BY <2>7a, <1>NoParentEvent
    <3>2. \A i \in Runs : ParentTagKept(i, row, newTags)
      BY <2>7c, <2>12 DEF ParentTagKept
    <3> QED
      BY <2>1, <2>2, <2>5, <2>6, <2>11, <2>12, <3>1, <3>2 DEF Committed
  <2>13. CASE parent # NoRun /\ Commit(p, [row EXCEPT ![r] = withParent], newTags, Append(sets, ev))
    <3> DEFINE newRow == [row EXCEPT ![r] = withParent]
               evs == Append(sets, ev)
    <3>0. \A i \in Runs : newRow[i] = IF i = r THEN withParent ELSE row[i]
      BY <2>2
    <3>1. ASSUME NEW i \in Runs
          PROVE  ParentLogged(i, newRow, evs)
      <4>1. /\ Len(evs) = Len(sets) + 1 /\ Len(sets) \in Nat /\ evs[Len(sets) + 1] = ev
            /\ \A n \in 1 .. Len(sets) : evs[n] = sets[n]
        BY SMTT(60), <2>6, <2>7
      <4> HIDE DEF evs, newRow
      <4>2. \A n \in 1 .. Len(evs) : evs[n].kind = "run_parent" => n = Len(sets) + 1 /\ evs[n] = ev
        BY SMTT(60), <2>7a, <4>1
      <4>3. CASE i = r
        <5>1. Len(sets) + 1 \in 1 .. Len(evs)
          BY SMTT(60), <4>1
        <5> QED
          BY <2>7a, <4>1, <4>2, <4>3, <5>1 DEF ParentLogged
      <4>4. CASE i # r
        BY <2>7a, <3>0, <4>2, <4>4 DEF ParentLogged
      <4> QED
        BY <4>3, <4>4
    <3>2. \A i \in Runs : ParentTagKept(i, newRow, newTags)
      <4> HIDE DEF newRow
      <4> QED
        BY <2>7c, <2>9, <2>9a, <2>13, <3>0, ConstantsDistinct DEF ParentTagKept
    <3> HIDE DEF newRow, evs
    <3> QED
      BY <2>1, <2>2, <2>5, <2>8, <2>11, <2>13, <3>1, <3>2 DEF Committed, newRow, evs
  <2> QED
    BY <2>1, <2>10, <2>12, <2>13
\* DeleteTag commits the removal of one tag and touches no run.
<1>DeleteTagCommits. ASSUME TypeOK, NEW p \in Procs, DeleteTag(p)
                     PROVE  Committed(p)
  <2> USE <1>DeleteTagCommits
  <2> DEFINE r == req[p].run
             k == req[p].arg
             before == req[p].got.tags[r][k]
             newTags == [tags EXCEPT ![r][k] = Absent]
             evs == IF before = Absent THEN <<>> ELSE <<TagEvent("tag_delete", r, k, NoRun, before)>>
  <2>1. /\ req[p].pc = "txn" /\ req[p].op = "delete"
        /\ Commit(p, row, newTags, evs)
    BY DEF DeleteTag, InTxn
  <2>2. /\ r \in Runs /\ k \in AllKeys /\ req[p].got.tags \in [Runs -> TagsOf]
        /\ row \in [Runs -> Row \cup {NoRow}] /\ tags \in [Runs -> TagsOf]
    BY <2>1 DEF TypeOK, ReqOK, ArgOK
  <2>3. before \in TagVals \cup {Absent} /\ NoRun \in TagVals
    <3>1. NoRun \in TagVals
      BY DEF TagVals
    <3>2. req[p].got.tags[r] \in TagsOf
      BY <2>2
    <3>3. before \in TagVals \cup {Absent}
      BY <2>2, <3>2 DEF TagsOf
    <3> QED
      BY <3>1, <3>3
  <2>4. newTags \in [Runs -> TagsOf]
    <3>1. [tags[r] EXCEPT ![k] = Absent] \in TagsOf
      BY <2>2 DEF TagsOf
    <3> QED
      BY <2>2, <3>1
  <2>5. evs \in Seq(RunBodies \cup TagBodies)
    <3>1. TagEvent("tag_delete", r, k, NoRun, before) \in TagBodies
      BY <2>2, <2>3, <1>BodyTypes
    <3>2. CASE before = Absent
      BY SMTT(60), <3>2
    <3>3. CASE before # Absent
      <4>1. <<TagEvent("tag_delete", r, k, NoRun, before)>> \in Seq(RunBodies \cup TagBodies)
        BY SMTT(60), <3>1
      <4> QED
        BY <3>3, <4>1
    <3> QED
      BY <3>2, <3>3
  <2>6. \A i \in 1 .. Len(evs) : evs[i].kind # "run_parent"
    <3>1. TagEvent("tag_delete", r, k, NoRun, before).kind = "tag_delete"
      BY DEF TagEvent
    <3>2. CASE before = Absent
      BY SMTT(60), <3>2
    <3>3. CASE before # Absent
      <4> DEFINE e == TagEvent("tag_delete", r, k, NoRun, before)
      <4>1. evs = <<e>> /\ e.kind = "tag_delete"
        BY <3>1, <3>3
      <4> HIDE DEF e, evs
      <4> QED
        BY SMTT(60), <4>1
    <3> QED
      BY <3>2, <3>3
  <2>7. \A i \in Runs : newTags[i][ParentKey] \in {Absent, tags[i][ParentKey]}
    <3>1. newTags[r] = [tags[r] EXCEPT ![k] = Absent]
      BY <2>2
    <3>2. newTags[r][ParentKey] \in {Absent, tags[r][ParentKey]}
      BY <2>2, <3>1 DEF TagsOf, AllKeys
    <3> QED
      BY <2>2, <3>2
  <2> HIDE DEF newTags, evs
  <2>8. \A i \in Runs : ParentLogged(i, row, evs) /\ ParentTagKept(i, row, newTags)
    BY <2>6, <2>7, <1>NoParentEvent DEF ParentTagKept
  <2> QED
    BY <2>1, <2>2, <2>4, <2>5, <2>8 DEF Committed, Exists
\* ArchiveStaleRuns commits FAILED runs and their tags, two events for each.
<1>ArchiveStaleRunsCommits. ASSUME TypeOK, NEW p \in Procs, ArchiveStaleRuns(p)
                            PROVE  Committed(p)
  <2> USE <1>ArchiveStaleRunsCommits
  <2> DEFINE got == req[p].got
             archived == {r \in req[p].arg.ids : Archivable(r)}
             c == Cardinality(archived)
             newRow == [r \in Runs |-> IF r \in archived
                                       THEN [row[r] EXCEPT !.status = "FAILED", !.end = req[p].arg.now]
                                       ELSE row[r]]
             newTags == [r \in Runs |-> IF r \in archived
                                        THEN [tags[r] EXCEPT ![ArchivedKey] = Stale] ELSE tags[r]]
             Ev(order, i) == LET r == order[(i + 1) \div 2]
                             IN IF i % 2 = 1 THEN RunEvent("run_update", r, got.row[r])
                                ELSE TagEvent("tag_set", r, ArchivedKey, Stale, got.tags[r][ArchivedKey])
             evs(order) == [i \in 1 .. 2 * c |-> Ev(order, i)]
  <2>1. /\ req[p].pc = "txn" /\ req[p].op = "archive"
        /\ \E order \in Orders(archived) : Commit(p, newRow, newTags, evs(order))
    BY DEF ArchiveStaleRuns, InTxn
  <2>2. PICK order \in Orders(archived) : Commit(p, newRow, newTags, evs(order))
    BY <2>1
  <2>3. /\ req[p].arg.ids \in SUBSET Runs /\ req[p].arg.now \in 1 .. clock /\ clock \in 1 .. MaxClock
        /\ \A r \in req[p].arg.ids : row[r] # NoRow
        /\ got \in [row : [Runs -> Row \cup {NoRow}], tags : [Runs -> TagsOf]]
        /\ \A r \in req[p].arg.ids : got.row[r] # NoRow
        /\ row \in [Runs -> Row \cup {NoRow}] /\ tags \in [Runs -> TagsOf]
        /\ MaxClock \in Nat
    BY <2>1, ConstantTypes DEF TypeOK, ReqOK, ArgOK
  <2>4. archived \subseteq Runs /\ \A r \in archived : row[r] \in Row /\ got.row[r] \in Row
    BY <2>3
  <2>5. c \in Nat
    BY <2>4, ConstantTypes
  <2>6. order \in [1 .. c -> archived]
    BY DEF Orders
  <2>7. newRow \in [Runs -> Row \cup {NoRow}] /\ \A r \in Runs : Exists(r) => newRow[r] # NoRow
    <3>1. "FAILED" \in Statuses /\ req[p].arg.now \in Ends
      BY SMTT(60), <2>3 DEF Statuses, Ends
    <3>2. \A r \in archived : [row[r] EXCEPT !.status = "FAILED", !.end = req[p].arg.now] \in Row
      BY <2>4, <3>1 DEF Row
    <3> HIDE DEF archived
    <3>3. \A r \in Runs : newRow[r] = IF r \in archived
                           THEN [row[r] EXCEPT !.status = "FAILED", !.end = req[p].arg.now] ELSE row[r]
      OBVIOUS
    <3>4. newRow = [r \in Runs |-> newRow[r]]
      OBVIOUS
    <3> HIDE DEF newRow
    <3>5. \A r \in Runs : newRow[r] \in Row \cup {NoRow} /\ (r \in archived => newRow[r] \in Row)
                       /\ (r \notin archived => newRow[r] = row[r])
      <4> TAKE r \in Runs
      <4>1. row[r] \in Row \cup {NoRow}
        BY <2>3
      <4>2. CASE r \in archived
        BY <3>2, <3>3, <4>2
      <4>3. CASE r \notin archived
        BY <3>3, <4>1, <4>3
      <4> QED
        BY <4>2, <4>3
    <3> QED
      BY <3>4, <3>5, ConstantsDistinct DEF Exists
  <2>8. newTags \in [Runs -> TagsOf]
    <3>1. ArchivedKey \in AllKeys /\ Stale \in TagVals
      BY DEF AllKeys, TagVals
    <3>2. \A r \in Runs : [tags[r] EXCEPT ![ArchivedKey] = Stale] \in TagsOf
      BY <2>3, <3>1 DEF TagsOf
    <3> HIDE DEF archived
    <3> QED
      BY <2>3, <3>2
  <2>9. evs(order) \in Seq(RunBodies \cup TagBodies)
    <3>1. ASSUME NEW i \in 1 .. 2 * c
          PROVE  Ev(order, i) \in RunBodies \cup TagBodies
      <4>1. (i + 1) \div 2 \in 1 .. c
        BY SMTT(60), <2>5
      <4> DEFINE r == order[(i + 1) \div 2]
      <4>2. r \in archived
        <5> HIDE DEF archived, c
        <5> QED
          BY <2>6, <4>1
      <4> HIDE DEF r
      <4>3. r \in Runs /\ got.row[r] \in Row
        BY <2>4, <4>2
      <4>3a. ArchivedKey \in AllKeys /\ Stale \in TagVals
        BY DEF AllKeys, TagVals
      <4>4. got.tags[r][ArchivedKey] \in TagVals \cup {Absent}
        <5>1. got.tags \in [Runs -> TagsOf]
          BY <2>3
        <5>2. got.tags[r] \in TagsOf
          BY <4>3, <5>1
        <5> QED
          BY <4>3a, <5>2 DEF TagsOf
      <4>5. /\ RunEvent("run_update", r, got.row[r]) \in RunBodies
            /\ TagEvent("tag_set", r, ArchivedKey, Stale, got.tags[r][ArchivedKey]) \in TagBodies
        <5> HIDE DEF got
        <5> QED
          BY <4>3, <4>3a, <4>4, <1>BodyTypes
      <4> QED
        BY <4>5 DEF r
    <3>2. evs(order) \in [1 .. 2 * c -> RunBodies \cup TagBodies]
      <4> HIDE DEF Ev
      <4> QED
        BY <3>1
    <3>3. 2 * c \in Nat
      BY SMTT(60), <2>5
    <3> HIDE DEF evs, c
    <3> QED
      BY SMTT(60), <3>2, <3>3
  <2>10. \A r \in Runs : newRow[r].parent = row[r].parent
    <3>1. \A r \in archived : [row[r] EXCEPT !.status = "FAILED", !.end = req[p].arg.now].parent = row[r].parent
      BY <2>4 DEF Row
    <3> HIDE DEF archived
    <3> QED
      BY <3>1
  <2>11. \A r \in Runs : newTags[r][ParentKey] = tags[r][ParentKey]
    <3>1. ParentKey # ArchivedKey
      BY DEF ParentKey, ArchivedKey
    <3>2. \A r \in Runs : tags[r] \in TagsOf /\ ParentKey \in AllKeys
      BY <2>3 DEF AllKeys
    <3> HIDE DEF archived
    <3> QED
      BY <3>1, <3>2 DEF TagsOf
  <2>12. \A i \in 1 .. Len(evs(order)) : evs(order)[i].kind # "run_parent"
    <3>1. ASSUME NEW i \in 1 .. 2 * c PROVE Ev(order, i).kind # "run_parent"
      BY DEF RunEvent, TagEvent
    <3> HIDE DEF Ev
    <3>2. evs(order) = [i \in 1 .. 2 * c |-> Ev(order, i)]
      OBVIOUS
    <3> HIDE DEF evs, c
    <3>3. 2 * c \in Nat
      BY SMTT(60), <2>5
    <3>4. Len(evs(order)) = 2 * c
      BY SMTT(60), <3>2, <3>3
    <3> QED
      BY <3>1, <3>2, <3>4
  <2> HIDE DEF newRow, newTags, evs
  <2>13. \A i \in Runs : ParentLogged(i, newRow, evs(order)) /\ ParentTagKept(i, newRow, newTags)
    <3> HIDE DEF archived, c, Ev
    <3>1. \A i \in Runs : ParentLogged(i, newRow, evs(order))
      BY <2>10, <2>12, <1>NoParentEvent
    <3>2. \A i \in Runs : ParentTagKept(i, newRow, newTags)
      BY <2>10, <2>11 DEF ParentTagKept
    <3> QED
      BY <3>1, <3>2
  <2> QED
    BY <2>1, <2>2, <2>7, <2>8, <2>9, <2>13 DEF Committed
<1> QED
  BY <1>CreateRunCommits, <1>UpdateRunCommits, <1>SetRunLifecycleCommits, <1>SetTagsCommits, <1>DeleteTagCommits,
     <1>ArchiveStaleRunsCommits DEF Serve

\* Every step keeps the types.
LEMMA TypeStep ==
  TypeOK /\ [Next]_vars => TypeOK'
\* A request stays well-formed as the clock advances and runs are created.
<1>ReqMono. ASSUME NEW p, NEW q, NEW now \in Nat, NEW later \in Nat, now <= later,
                   NEW rows, NEW rows2, \A r \in Runs : rows[r] # NoRow => rows2[r] # NoRow,
                   ReqOK(p, q, now, rows)
            PROVE  ReqOK(p, q, later, rows2)
  BY SMTT(60), <1>ReqMono DEF ReqOK, ArgOK
\* A request is well-formed when it arrives: its arguments fit its operation and it has read nothing.
<1>RequestOK. ASSUME NEW p, NEW now \in Nat, NEW rows, NEW op \in Ops, NEW r \in Runs \cup {NoRun}, NEW arg,
                     NEW want, want \subseteq Cells, NEW rest \in Seq(Pairs),
                     ArgOK(p, op, r, arg, now, rows), rest # <<>> => op \in {"create", "set"},
                     op = "archive" => \A i \in arg.ids : RowCell(i) \in want
              PROVE  /\ ReqOK(p, Request(op, r, arg, want, rest), now, rows)
                     /\ Request(op, r, arg, want, rest).pc = "read"
  <2> USE <1>RequestOK
  <2> DEFINE q == Request(op, r, arg, want, rest)
  <2>1. /\ q = [pc |-> "read", op |-> op, run |-> r, arg |-> arg, want |-> want,
                got |-> NothingRead, t0 |-> 0, rest |-> rest]
    BY DEF Request, IdleReq
  <2>2. NothingRead \in [row : [Runs -> Row \cup {NoRow}], tags : [Runs -> TagsOf]]
    BY DEF NothingRead, TagsOf
  <2> QED
    BY SMTT(60), <2>1, <2>2 DEF ReqOK, Ops, Cells
\* A SetTag or SetTags request is well-formed when it starts.
<1>SetRequestOK. ASSUME NEW p, NEW now \in Nat, NEW rows, NEW r \in Runs,
                        NEW batch \in Seq(Pairs), NEW rest \in Seq(Pairs)
                 PROVE  /\ ReqOK(p, SetRequest(r, batch, rest), now, rows)
                        /\ SetRequest(r, batch, rest).pc = "read"
  <2> USE <1>SetRequestOK
  <2> DEFINE want == {TagCell(r, batch[i][1]) : i \in 1 .. Len(batch)}
  <2>1. want \subseteq Cells
    BY SMTT(60), PairTypes DEF Cells, TagCell
  <2>2. ArgOK(p, "set", r, batch, now, rows)
    BY DEF ArgOK
  <2>2a. "set" \in Ops /\ r \in Runs \cup {NoRun}
    BY DEF Ops
  <2> HIDE DEF want
  <2>3. /\ ReqOK(p, Request("set", r, batch, want, rest), now, rows)
        /\ Request("set", r, batch, want, rest).pc = "read"
    BY <2>1, <2>2, <2>2a, <1>RequestOK
  <2> QED
    BY <2>3 DEF SetRequest, want
\* What a goroutine does after a commit or an error is well-formed: the next SetTag of
\* CreateRun, the prune of a janitor tick, or nothing.
<1>AfterOK. ASSUME TypeOK, NEW p \in Procs, NEW ok \in BOOLEAN
            PROVE  /\ ReqOK(p, After(p, ok), clock, row)
                   /\ After(p, ok).pc # "txn"
  <2> USE <1>AfterOK
  <2> DEFINE q == req[p]
  <2>0. ReqOK(p, q, clock, row) /\ clock \in 1 .. MaxClock /\ clock \in Nat /\ MaxClock \in Nat
    BY SMTT(60), ConstantTypes DEF TypeOK
  <2>1. IdleReq.pc # "txn" /\ ReqOK(p, IdleReq, clock, row)
    BY <2>0, IdleOK DEF IdleReq
  <2>2. CASE p = Janitor
    <3>1. CASE q.op = "archive" /\ Retention > 0
      <4>1. q.arg.now \in 1 .. clock
        BY <2>0, <3>1 DEF ReqOK, ArgOK
      <4>2. After(p, ok) = PruneRequest(q.arg.now)
        BY <2>2, <3>1 DEF After, AfterArchive
      <4>3. PruneRequest(q.arg.now) = [pc |-> "prune", op |-> "prune", run |-> NoRun, arg |-> q.arg.now,
               want |-> {}, got |-> NothingRead, t0 |-> 0, rest |-> <<>>]
        BY DEF PruneRequest, IdleReq
      <4>4. NothingRead \in [row : [Runs -> Row \cup {NoRow}], tags : [Runs -> TagsOf]]
        BY DEF NothingRead, TagsOf
      <4>5. ArgOK(p, "prune", NoRun, q.arg.now, clock, row)
        BY <4>1, <4>3 DEF ArgOK
      <4>6. ReqOK(p, PruneRequest(q.arg.now), clock, row)
        BY SMTT(60), <2>0, <4>1, <4>3, <4>4, <4>5 DEF ReqOK
      <4> QED
        BY SMTT(60), <4>2, <4>3, <4>6
    <3>2. CASE ~(q.op = "archive" /\ Retention > 0)
      BY <2>1, <2>2, <3>2 DEF After, AfterArchive
    <3> QED
      BY <3>1, <3>2
  <2>3. CASE p # Janitor
    <3>1. CASE q.rest # <<>> /\ (ok \/ q.op # "create") /\ q.run \in Runs
      <4>1. q.rest \in Seq(Pairs) /\ Tail(q.rest) \in Seq(Pairs) /\ Head(q.rest) \in Pairs
        BY SMTT(60), <2>0, <3>1 DEF ReqOK
      <4>2. <<Head(q.rest)>> \in Seq(Pairs)
        BY SMTT(60), <4>1
      <4>3. After(p, ok) = SetRequest(q.run, <<Head(q.rest)>>, Tail(q.rest))
        BY <2>3, <3>1 DEF After
      <4> QED
        BY <2>0, <3>1, <4>1, <4>2, <4>3, <1>SetRequestOK
    <3>2. CASE ~(q.rest # <<>> /\ (ok \/ q.op # "create"))
      BY <2>1, <2>3, <3>2 DEF After
    <3>3. q.rest # <<>> => q.run \in Runs
      BY <2>0 DEF ReqOK, ArgOK
    <3> QED
      BY <3>1, <3>2, <3>3
  <2> QED
    BY <2>2, <2>3
\* tx.Commit() keeps the types and releases the lock.
<1>CommitType. ASSUME TypeOK, NEW p \in Procs, Committed(p)
               PROVE  TypeOK'
  <2> USE <1>CommitType
  <2>0. PICK newRow \in [Runs -> Row \cup {NoRow}], newTags \in [Runs -> TagsOf],
             evs \in Seq(RunBodies \cup TagBodies) :
          /\ req[p].pc = "txn" /\ \A r \in Runs : Exists(r) => newRow[r] # NoRow
          /\ Commit(p, newRow, newTags, evs)
    BY DEF Committed
  <2>1. PICK s \in Stamps(p, Len(evs)) : events' = events \cup Stamped(evs, s)
    BY <2>0 DEF Commit
  <2>2. /\ row' = newRow /\ tags' = newTags /\ lock' = NoProc /\ nextId' = nextId + Len(evs)
        /\ req' = [req EXCEPT ![p] = After(p, TRUE)]
        /\ clock' = clock /\ ops' = ops /\ past' = past /\ horizon' = horizon
    BY <2>0 DEF Commit
  <2>3. /\ req = [q \in Procs |-> req[q]] /\ \A q \in Procs : ReqOK(q, req[q], clock, row)
        /\ \A q \in Procs : req[q].pc = "txn" <=> lock = q
        /\ clock \in Nat
    BY SMTT(60), ConstantTypes DEF TypeOK
  <2>4. ReqOK(p, After(p, TRUE), clock, row) /\ After(p, TRUE).pc # "txn"
    BY <1>AfterOK
  <2>5. /\ req' = [q \in Procs |-> req'[q]]
        /\ req'[p] = After(p, TRUE)
        /\ \A q \in Procs \ {p} : req'[q] = req[q]
    BY <2>2, <2>3
  <2>6. \A q \in Procs : ReqOK(q, req'[q], clock', row')
    <3> TAKE q \in Procs
    <3>1. ReqOK(q, req'[q], clock, row)
      BY <2>3, <2>4, <2>5
    <3>2. \A r \in Runs : row[r] # NoRow => row'[r] # NoRow
      BY <2>0, <2>2 DEF Exists
    <3>3. clock <= clock /\ clock' = clock
      BY SMTT(60), <2>2, <2>3
    <3>4. ReqOK(q, req'[q], clock, row')
      BY <2>3, <3>1, <3>2, <3>3, <1>ReqMono
    <3> QED
      BY <3>3, <3>4
  <2>7. \A q \in Procs : req'[q].pc = "txn" <=> lock' = q
    <3> TAKE q \in Procs
    <3>1. lock = p
      BY <2>0, <2>3
    <3> QED
      BY <2>2, <2>3, <2>4, <2>5, <3>1, ConstantsDistinct
  <2>8. \A e \in events' : EventOK(e)
    BY <2>0, <2>1, StampedOK DEF TypeOK, EventOK
  <2>9. nextId' \in Nat \ {0}
    BY SMTT(60), <2>2 DEF TypeOK
  <2> QED
    BY <2>0, <2>2, <2>5, <2>6, <2>7, <2>8, <2>9 DEF TypeOK, EventOK
\* A step that only moves one request along, and perhaps the lock, keeps the types.
<1>ReqStep. ASSUME TypeOK, NEW p \in Procs, NEW q,
                   row' = row, tags' = tags, events' = events, nextId' = nextId, past' = past,
                   horizon' = horizon, clock' = clock, ops' \in 0 .. MaxOps,
                   req' = [req EXCEPT ![p] = q],
                   ReqOK(p, q, clock, row),
                   lock' \in Procs \cup {NoProc},
                   q.pc = "txn" <=> lock' = p,
                   \A o \in Procs \ {p} : lock' = o <=> lock = o
            PROVE  TypeOK'
  <2> USE <1>ReqStep
  <2>1. /\ req = [o \in Procs |-> req[o]] /\ \A o \in Procs : ReqOK(o, req[o], clock, row)
        /\ \A o \in Procs : req[o].pc = "txn" <=> lock = o
    BY DEF TypeOK
  <2>2. /\ req' = [o \in Procs |-> req'[o]]
        /\ req'[p] = q
        /\ \A o \in Procs \ {p} : req'[o] = req[o]
    BY <2>1
  <2>3. \A o \in Procs : ReqOK(o, req'[o], clock', row')
    BY <2>1, <2>2
  <2>4. \A o \in Procs : req'[o].pc = "txn" <=> lock' = o
    BY <2>1, <2>2
  <2> QED
    BY <2>2, <2>3, <2>4 DEF TypeOK
\* A request arriving keeps the types.
<1>ArriveType. ASSUME TypeOK, NEW p \in Procs, NEW q, ReqOK(p, q, clock, row), q.pc = "read", Arrive(p, q)
               PROVE  TypeOK'
  <2> USE <1>ArriveType
  <2>1. /\ row' = row /\ tags' = tags /\ events' = events /\ nextId' = nextId /\ past' = past
        /\ horizon' = horizon /\ clock' = clock /\ lock' = lock /\ req' = [req EXCEPT ![p] = q]
        /\ ops < MaxOps /\ ops' = ops + 1 /\ req[p].pc = "idle"
    BY DEF Arrive, db, hist
  <2>2. ops' \in 0 .. MaxOps
    BY SMTT(60), <2>1, ConstantTypes DEF TypeOK
  <2>3. lock' \in Procs \cup {NoProc} /\ lock # p
    BY <2>1 DEF TypeOK
  <2> QED
    BY <2>1, <2>2, <2>3, <1>ReqStep
\* The parent CreateRun takes from its tags is a run id or empty.
<1>FirstParentType. ASSUME NEW batch \in Seq(Pairs)
                    PROVE  FirstParent(batch) \in Runs \cup {NoRun}
  <2> USE <1>FirstParentType
  <2> DEFINE at == {i \in 1 .. Len(batch) : batch[i][1] = ParentKey}
  <2>1. CASE at = {}
    BY <2>1 DEF FirstParent
  <2>2. CASE at # {}
    <3>1. \E i \in at : \A j \in at : i <= j
      <4>1. at \subseteq Nat
        BY SMTT(60)
      <4> HIDE DEF at
      <4> QED
        BY <2>2, <4>1, LeastNat
    <3>2. (CHOOSE i \in at : \A j \in at : i <= j) \in at
      BY <3>1
    <3> QED
      BY <2>2, <3>2, PairTypes DEF FirstParent
  <2> QED
    BY <2>1, <2>2
\* Every handler starts from a well-formed request.
<1>ArrivalType. ASSUME TypeOK, NEW p \in Writers, Arrival(p)
                PROVE  TypeOK'
  <2> USE <1>ArrivalType
  <2> USE DEF Procs
  <2>0. clock \in Nat /\ clock \in 0 .. MaxClock /\ <<>> \in Seq(Pairs) /\ p \in Procs
    BY SMTT(60), ConstantTypes DEF TypeOK
  <2>1. PICK r \in Runs :
          \/ \E b \in Batches \cup {<<>>} : \E start \in ClientStarts \cup {clock} : CreateRunArrives(p, r, start, b)
          \/ \E u \in Updates : UpdateRunArrives(p, r, u)
          \/ \E stage \in Lifecycles : SetRunLifecycleArrives(p, r, stage)
          \/ \E b \in Batches : SetTagsArrives(p, r, b)
          \/ \E k \in Deletes : DeleteTagArrives(p, r, k)
    BY DEF Arrival
  <2>2. ASSUME NEW b \in Batches \cup {<<>>}, NEW start \in ClientStarts \cup {clock}, CreateRunArrives(p, r, start, b)
        PROVE  TypeOK'
    <3> DEFINE arg == [start |-> start, parent |-> FirstParent(b)]
    <3>1. b \in Seq(Pairs) /\ start \in 0 .. MaxClock
      BY <2>0, ConstantTypes
    <3>2. ArgOK(p, "create", r, arg, clock, row)
      BY <3>1, <1>FirstParentType DEF ArgOK
    <3>3. Arrive(p, Request("create", r, arg, {}, b))
      BY <2>2 DEF CreateRunArrives
    <3>4. "create" \in Ops /\ {} \subseteq Cells /\ r \in Runs \cup {NoRun}
      BY DEF Ops
    <3> HIDE DEF arg
    <3>5. ReqOK(p, Request("create", r, arg, {}, b), clock, row) /\ Request("create", r, arg, {}, b).pc = "read"
      BY <2>0, <3>1, <3>2, <3>4, <1>RequestOK
    <3> QED
      BY <2>0, <3>3, <3>5, <1>ArriveType
  <2>3. ASSUME NEW u \in Updates, UpdateRunArrives(p, r, u)
        PROVE  TypeOK'
    <3>1. ArgOK(p, "update", r, u, clock, row)
      BY DEF ArgOK
    <3>2. "update" \in Ops /\ {RowCell(r)} \subseteq Cells /\ r \in Runs \cup {NoRun}
      BY SMTT(60) DEF Ops, Cells, RowCell
    <3>3. Arrive(p, Request("update", r, u, {RowCell(r)}, <<>>))
      BY <2>3 DEF UpdateRunArrives
    <3>4. /\ ReqOK(p, Request("update", r, u, {RowCell(r)}, <<>>), clock, row)
          /\ Request("update", r, u, {RowCell(r)}, <<>>).pc = "read"
      BY <2>0, <3>1, <3>2, <1>RequestOK
    <3> QED
      BY <2>0, <3>3, <3>4, <1>ArriveType
  <2>4. ASSUME NEW stage \in Lifecycles, SetRunLifecycleArrives(p, r, stage)
        PROVE  TypeOK'
    <3>1. ArgOK(p, "lifecycle", r, stage, clock, row)
      BY ConstantTypes DEF ArgOK
    <3>2. "lifecycle" \in Ops /\ {RowCell(r)} \subseteq Cells /\ r \in Runs \cup {NoRun}
      BY SMTT(60) DEF Ops, Cells, RowCell
    <3>3. Arrive(p, Request("lifecycle", r, stage, {RowCell(r)}, <<>>))
      BY <2>4 DEF SetRunLifecycleArrives
    <3>4. /\ ReqOK(p, Request("lifecycle", r, stage, {RowCell(r)}, <<>>), clock, row)
          /\ Request("lifecycle", r, stage, {RowCell(r)}, <<>>).pc = "read"
      BY <2>0, <3>1, <3>2, <1>RequestOK
    <3> QED
      BY <2>0, <3>3, <3>4, <1>ArriveType
  <2>5. ASSUME NEW b \in Batches, SetTagsArrives(p, r, b)
        PROVE  TypeOK'
    <3>1. ReqOK(p, SetRequest(r, b, <<>>), clock, row) /\ SetRequest(r, b, <<>>).pc = "read"
      BY <2>0, ConstantTypes, <1>SetRequestOK
    <3> QED
      BY <2>0, <2>5, <3>1, <1>ArriveType DEF SetTagsArrives
  <2>6. ASSUME NEW k \in Deletes, DeleteTagArrives(p, r, k)
        PROVE  TypeOK'
    <3>1. ArgOK(p, "delete", r, k, clock, row)
      BY ConstantTypes DEF ArgOK
    <3>2. "delete" \in Ops /\ {TagCell(r, k)} \subseteq Cells /\ r \in Runs \cup {NoRun}
      BY SMTT(60), ConstantTypes DEF Ops, Cells, TagCell
    <3>3. Arrive(p, Request("delete", r, k, {TagCell(r, k)}, <<>>))
      BY <2>6 DEF DeleteTagArrives
    <3>4. /\ ReqOK(p, Request("delete", r, k, {TagCell(r, k)}, <<>>), clock, row)
          /\ Request("delete", r, k, {TagCell(r, k)}, <<>>).pc = "read"
      BY <2>0, <3>1, <3>2, <1>RequestOK
    <3> QED
      BY <2>0, <3>3, <3>4, <1>ArriveType
  <2> QED
    BY <2>1, <2>2, <2>3, <2>4, <2>5, <2>6
\* A janitor tick selects existing runs only.
<1>JanitorTickType. ASSUME TypeOK, JanitorTick
                    PROVE  TypeOK'
  <2> USE <1>JanitorTickType
  <2> DEFINE ids == StaleRuns(clock - StaleAfter)
             cells == UNION {{RowCell(r), TagCell(r, ArchivedKey)} : r \in ids}
             arg == [ids |-> ids, now |-> clock]
             archive == Request("archive", NoRun, arg, cells, <<>>)
             q == IF ids = {} THEN AfterArchive(clock) ELSE archive
  <2>1. /\ row' = row /\ tags' = tags /\ events' = events /\ nextId' = nextId /\ past' = past
        /\ horizon' = horizon /\ clock' = clock /\ lock' = lock /\ ops' = ops
        /\ req' = [req EXCEPT ![Janitor] = q] /\ req[Janitor].pc = "idle"
    BY DEF JanitorTick, db, hist
  <2>2. Janitor \in Procs /\ clock \in 1 .. clock /\ clock \in Nat
    BY SMTT(60), ConstantTypes DEF Procs, TypeOK
  <2>3. ids \in SUBSET Runs /\ \A r \in ids : row[r] # NoRow
    BY DEF StaleRuns, Exists
  <2>4. ReqOK(Janitor, archive, clock, row) /\ archive.pc = "read"
    <3>1. cells \subseteq Cells
      BY SMTT(60), <2>3 DEF Cells, RowCell, TagCell, AllKeys
    <3>2. ArgOK(Janitor, "archive", NoRun, arg, clock, row)
      BY <2>2, <2>3 DEF ArgOK
    <3>2a. \A r \in ids : RowCell(r) \in cells
      BY SMTT(60)
    <3>3. "archive" \in Ops /\ NoRun \in Runs \cup {NoRun} /\ <<>> \in Seq(Pairs)
      BY SMTT(60) DEF Ops
    <3>4. arg.ids = ids
      OBVIOUS
    <3> HIDE DEF cells, arg
    <3> QED
      BY <2>2, <3>1, <3>2, <3>2a, <3>3, <3>4, <1>RequestOK
  <2>5. ReqOK(Janitor, AfterArchive(clock), clock, row) /\ AfterArchive(clock).pc # "txn"
    <3>1. ReqOK(Janitor, IdleReq, clock, row) /\ IdleReq.pc # "txn"
      BY <2>2, IdleOK DEF IdleReq
    <3>2. ReqOK(Janitor, PruneRequest(clock), clock, row) /\ PruneRequest(clock).pc # "txn"
      <4>1. ArgOK(Janitor, "prune", NoRun, clock, clock, row)
        BY <2>2 DEF ArgOK
      <4>2. NothingRead \in [row : [Runs -> Row \cup {NoRow}], tags : [Runs -> TagsOf]]
        BY DEF NothingRead, TagsOf
      <4>3. /\ NoRun \in Runs \cup {NoRun} /\ <<>> \in Seq(Pairs) /\ 0 \in 0 .. clock
            /\ {} \in SUBSET Cells
        BY SMTT(60), <2>2
      <4> QED
        BY <2>2, <4>1, <4>2, <4>3 DEF ReqOK, PruneRequest, Cells
    <3> QED
      BY <3>1, <3>2 DEF AfterArchive
  <2>6. ReqOK(Janitor, q, clock, row) /\ q.pc # "txn"
    <3> HIDE DEF ids, archive
    <3> QED
      BY <2>4, <2>5
  <2>7. lock' \in Procs \cup {NoProc} /\ lock # Janitor /\ ops' \in 0 .. MaxOps
    BY <2>1, <2>2 DEF TypeOK
  <2> HIDE DEF q
  <2> QED
    BY <2>1, <2>2, <2>6, <2>7, <1>ReqStep
\* captureRunBefore and readTagValue put a row or a tag value of the right cell into the request.
<1>PreReadType. ASSUME TypeOK, NEW p \in Procs, PreRead(p)
                PROVE  TypeOK'
  <2> USE <1>PreReadType
  <2>1. PICK c \in req[p].want :
          req' = [req EXCEPT ![p].want = @ \ {c},
                             ![p].got = IF c.key = "row" THEN [@ EXCEPT !.row[c.run] = row[c.run]]
                                        ELSE [@ EXCEPT !.tags[c.run][c.key] = tags[c.run][c.key]]]
    BY DEF PreRead
  <2> DEFINE got == IF c.key = "row" THEN [req[p].got EXCEPT !.row[c.run] = row[c.run]]
                    ELSE [req[p].got EXCEPT !.tags[c.run][c.key] = tags[c.run][c.key]]
             q == [req[p] EXCEPT !.want = @ \ {c}, !.got = got]
             Got == [row : [Runs -> Row \cup {NoRow}], tags : [Runs -> TagsOf]]
  <2>2. /\ row' = row /\ tags' = tags /\ events' = events /\ nextId' = nextId /\ past' = past
        /\ horizon' = horizon /\ clock' = clock /\ lock' = lock /\ ops' = ops
        /\ req[p].pc = "read"
    BY DEF PreRead, db, hist
  <2>3. /\ ReqOK(p, req[p], clock, row) /\ req = [o \in Procs |-> req[o]]
        /\ row \in [Runs -> Row \cup {NoRow}] /\ tags \in [Runs -> TagsOf]
        /\ lock' \in Procs \cup {NoProc} /\ lock # p /\ ops' \in 0 .. MaxOps
    BY <2>2 DEF TypeOK
  <2>4. /\ c.run \in Runs /\ c.key \in AllKeys \cup {"row"} /\ req[p].got \in Got
    BY <2>3 DEF ReqOK
  <2>5. got \in Got
    <3>1. CASE c.key = "row"
      BY <2>3, <2>4, <3>1
    <3>2. CASE c.key # "row"
      <4>1. c.key \in AllKeys /\ tags[c.run] \in TagsOf /\ req[p].got.tags[c.run] \in TagsOf
        BY <2>3, <2>4, <3>2
      <4>2. [req[p].got.tags[c.run] EXCEPT ![c.key] = tags[c.run][c.key]] \in TagsOf
        BY <4>1 DEF TagsOf
      <4> QED
        BY <2>3, <2>4, <3>2, <4>2
    <3> QED
      BY <3>1, <3>2
  <2>6. req' = [req EXCEPT ![p] = q]
    BY <2>1, <2>3
  <2> HIDE DEF got
  <2>6a. \A i \in Runs : RowCell(i) \in req[p].want \ {c} \/ got.row[i] # NoRow
                          \/ ~(RowCell(i) \in req[p].want \/ req[p].got.row[i] # NoRow)
                          \/ row[i] = NoRow
    <3> TAKE i \in Runs
    <3>1. CASE RowCell(i) = c
      <4>1. c.key = "row" /\ c.run = i
        BY <3>1 DEF RowCell
      <4> QED
        BY <2>4, <4>1 DEF got
    <3>2. CASE RowCell(i) # c
      BY <2>4, <3>2 DEF got, RowCell
    <3> QED
      BY <3>1, <3>2
  <2>7. ReqOK(p, q, clock, row) /\ q.pc = "read"
    <3>1. q.op = "archive" => \A i \in q.arg.ids : RowCell(i) \in q.want \/ q.got.row[i] # NoRow
      BY <2>3, <2>6a DEF ReqOK, ArgOK
    <3> QED
      BY <2>2, <2>3, <2>5, <3>1 DEF ReqOK
  <2> HIDE DEF q
  <2> QED
    BY <2>2, <2>3, <2>6, <2>7, <1>ReqStep
\* BeginTx takes the free lock for a request that has read all it wants.
<1>BeginTxType. ASSUME TypeOK, NEW p \in Procs, BeginTx(p)
                PROVE  TypeOK'
  <2> USE <1>BeginTxType
  <2> DEFINE q == [req[p] EXCEPT !.pc = "txn", !.t0 = clock]
  <2>1. /\ row' = row /\ tags' = tags /\ events' = events /\ nextId' = nextId /\ past' = past
        /\ horizon' = horizon /\ clock' = clock /\ lock = NoProc /\ lock' = p /\ ops' = ops
        /\ req[p].pc = "read" /\ req[p].want = {} /\ req' = [req EXCEPT ![p].pc = "txn", ![p].t0 = clock]
    BY DEF BeginTx, db, hist
  <2>2. /\ ReqOK(p, req[p], clock, row) /\ req = [o \in Procs |-> req[o]]
        /\ lock' \in Procs \cup {NoProc} /\ ops' \in 0 .. MaxOps
        /\ clock \in 1 .. MaxClock /\ MaxClock \in Nat
    BY <2>1, ConstantTypes DEF TypeOK
  <2>3. req' = [req EXCEPT ![p] = q]
    BY <2>1, <2>2
  <2>4. ReqOK(p, q, clock, row) /\ q.pc = "txn"
    BY SMTT(60), <2>1, <2>2 DEF ReqOK
  <2>5. \A o \in Procs \ {p} : lock' = o <=> lock = o
    BY <2>1, ConstantsDistinct
  <2> HIDE DEF q
  <2> QED
    BY <2>1, <2>2, <2>3, <2>4, <2>5, <1>ReqStep
\* An error return releases the lock its goroutine holds, and no other.
<1>FailType. ASSUME TypeOK, NEW p \in Procs, Fail(p)
             PROVE  TypeOK'
  <2> USE <1>FailType
  <2>1. /\ row' = row /\ tags' = tags /\ events' = events /\ nextId' = nextId /\ past' = past
        /\ horizon' = horizon /\ clock' = clock /\ lock' = (IF lock = p THEN NoProc ELSE lock)
        /\ ops' = ops /\ req' = [req EXCEPT ![p] = After(p, FALSE)]
    BY DEF Fail, db, hist
  <2>2. ReqOK(p, After(p, FALSE), clock, row) /\ After(p, FALSE).pc # "txn"
    BY <1>AfterOK
  <2>3. lock' \in Procs \cup {NoProc} /\ lock' # p /\ ops' \in 0 .. MaxOps
    BY <2>1, ConstantsDistinct DEF TypeOK
  <2>4. \A o \in Procs \ {p} : lock' = o <=> lock = o
    BY <2>1, ConstantsDistinct
  <2> QED
    BY <2>1, <2>2, <2>3, <2>4, <1>ReqStep
\* PruneEventsBefore only removes event rows.
<1>PruneType. ASSUME TypeOK, NEW p \in Procs, PruneEventsBefore(p)
              PROVE  TypeOK'
  <2> USE <1>PruneType
  <2> DEFINE cutoff == req[p].arg - Retention
  <2>1. /\ row' = row /\ tags' = tags /\ nextId' = nextId /\ past' = past
        /\ clock' = clock /\ lock = NoProc /\ lock' = lock /\ ops' = ops
        /\ req' = [req EXCEPT ![p] = IdleReq] /\ req[p].pc = "prune"
        /\ events' = {e \in events : e.ts >= cutoff}
        /\ horizon' = IF cutoff > horizon THEN cutoff ELSE horizon
    BY DEF PruneEventsBefore
  <2>2. /\ req = [o \in Procs |-> req[o]] /\ \A o \in Procs : ReqOK(o, req[o], clock, row)
        /\ \A o \in Procs : req[o].pc = "txn" <=> lock = o
        /\ horizon \in Int /\ clock \in Nat
    BY SMTT(60), ConstantTypes DEF TypeOK
  <2>3. cutoff \in Int
    BY SMTT(60), <2>1, <2>2, ConstantTypes DEF ReqOK, ArgOK
  <2>4. IdleReq.pc # "txn" /\ ReqOK(p, IdleReq, clock, row)
    BY <2>2, IdleOK DEF IdleReq
  <2>5. /\ req' = [o \in Procs |-> req'[o]]
        /\ \A o \in Procs : req'[o] = IF o = p THEN IdleReq ELSE req[o]
    BY <2>1, <2>2
  <2>6. /\ \A o \in Procs : ReqOK(o, req'[o], clock', row')
        /\ \A o \in Procs : req'[o].pc = "txn" <=> lock' = o
    BY <2>1, <2>2, <2>4, <2>5, ConstantsDistinct
  <2>7. horizon' \in Int
    BY <2>1, <2>2, <2>3
  <2>8. events' \subseteq events
    BY <2>1
  <2> QED
    BY <2>1, <2>5, <2>6, <2>7, <2>8 DEF TypeOK
\* The end of a millisecond keeps the types.
<1>TickType. ASSUME TypeOK, Tick
             PROVE  TypeOK'
  <2> USE <1>TickType
  <2>1. /\ row' = row /\ tags' = tags /\ events' = events /\ nextId' = nextId /\ ops' = ops
        /\ clock < MaxClock /\ clock' = clock + 1 /\ lock' = lock /\ req' = req /\ horizon' = horizon
        /\ past' = Append(past, [row |-> row, tags |-> tags, quiet |-> lock = NoProc])
    BY DEF Tick, db
  <2>2. clock \in Nat /\ clock' \in Nat /\ clock <= clock' /\ clock' \in 1 .. MaxClock
    BY SMTT(60), <2>1, ConstantTypes DEF TypeOK
  <2>3. \A p \in Procs : ReqOK(p, req'[p], clock', row')
    <3> TAKE p \in Procs
    <3>1. ReqOK(p, req[p], clock, row)
      BY DEF TypeOK
    <3>2. ReqOK(p, req[p], clock', row)
      BY <2>2, <3>1, <1>ReqMono
    <3> QED
      BY <2>1, <3>2
  <2>4. /\ past' \in Seq([row : [Runs -> Row \cup {NoRow}], tags : [Runs -> TagsOf], quiet : BOOLEAN])
        /\ Len(past') = clock' - 1
    <3> DEFINE now == [row |-> row, tags |-> tags, quiet |-> lock = NoProc]
               Snap == [row : [Runs -> Row \cup {NoRow}], tags : [Runs -> TagsOf], quiet : BOOLEAN]
    <3>1. now \in Snap
      BY DEF TypeOK
    <3>2. past \in Seq(Snap) /\ Len(past) = clock - 1
      BY DEF TypeOK
    <3> HIDE DEF now, Snap
    <3>3. Append(past, now) \in Seq(Snap) /\ Len(Append(past, now)) = Len(past) + 1
      BY SMTT(60), <3>1, <3>2
    <3> QED
      BY SMTT(60), <2>1, <2>2, <3>2, <3>3 DEF now, Snap
  <2> QED
    BY <2>1, <2>2, <2>3, <2>4 DEF TypeOK
\* A restart forgets requests and the lock, and keeps the database.
<1>CrashType. ASSUME TypeOK, Crash
              PROVE  TypeOK'
  <2> USE <1>CrashType
  <2>1. /\ row' = row /\ tags' = tags /\ events' = events /\ nextId' = nextId /\ ops' = ops
        /\ clock' = clock /\ lock' = NoProc /\ req' = [p \in Procs |-> IdleReq]
        /\ horizon' = horizon /\ past' = past
    BY DEF Crash, db, hist
  <2>2. \A p \in Procs : ReqOK(p, req'[p], clock', row') /\ req'[p].pc # "txn" /\ lock' # p
    <3>1. clock \in Nat
      BY SMTT(60), ConstantTypes DEF TypeOK
    <3>2. \A p \in Procs : ReqOK(p, IdleReq, clock, row) /\ IdleReq.pc # "txn"
      BY <3>1, IdleOK DEF IdleReq
    <3> QED
      BY <2>1, <3>2, ConstantsDistinct
  <2> QED
    BY <2>1, <2>2 DEF TypeOK
\* ?as_of= reads change nothing but the answer.
<1>ReadType. ASSUME TypeOK, NEW p \in Readers, Read(p)
             PROVE  TypeOK'
  <2> USE <1>ReadType
  <2>1. UNCHANGED <<row, tags, events, nextId, lock, req, clock, ops, past, log, horizon>>
    BY DEF Read, GetRunAsOf, ScanEvents, ReadTags, db, hist
  <2> QED
    BY <2>1 DEF TypeOK
<1> SUFFICES ASSUME TypeOK, [Next]_vars PROVE TypeOK'
  OBVIOUS
<1>1. CASE Tick
  BY <1>1, <1>TickType
<1>2. CASE Crash
  BY <1>2, <1>CrashType
<1>3. CASE JanitorTick
  BY <1>3, <1>JanitorTickType
<1>4. ASSUME NEW p \in Writers, Arrival(p) PROVE TypeOK'
  BY <1>4, <1>ArrivalType
<1>5. ASSUME NEW p \in Procs, Serve(p) PROVE TypeOK'
  <2>1. PreRead(p) \/ BeginTx(p) \/ Fail(p) \/ Committed(p) \/ PruneEventsBefore(p)
    BY <1>5, ServeCases
  <2> QED
    BY <2>1, <1>PreReadType, <1>BeginTxType, <1>FailType, <1>CommitType, <1>PruneType
<1>6. ASSUME NEW p \in Readers, Read(p) PROVE TypeOK'
  BY <1>6, <1>ReadType
<1>7. CASE UNCHANGED vars
  BY <1>7 DEF vars, TypeOK
<1> QED
  BY <1>1, <1>2, <1>3, <1>4, <1>5, <1>6, <1>7 DEF Next

\* The store starts well-typed.
LEMMA TypeInit ==
  ASSUME Init
  PROVE  TypeOK
<1>1. /\ row = [r \in Runs |-> IF r \in OldRuns THEN NewRow(0) ELSE NoRow]
      /\ tags = [r \in Runs |-> [k \in AllKeys |-> Absent]]
      /\ events = {} /\ nextId = 1 /\ lock = NoProc /\ req = [p \in Procs |-> IdleReq]
      /\ clock = 1 /\ ops = 0 /\ past = <<>> /\ horizon = 0
  BY DEF Init
<1>2. row \in [Runs -> Row \cup {NoRow}]
  <2>1. NewRow(0) \in Row
    BY SMTT(60), ConstantTypes, NewRowType
  <2> QED
    BY <1>1, <2>1
<1>3. tags \in [Runs -> TagsOf]
  BY <1>1 DEF TagsOf
<1>4. \A p \in Procs : ReqOK(p, req[p], clock, row) /\ req[p].pc # "txn" /\ lock # p
  <2>1. \A p \in Procs : ReqOK(p, IdleReq, 1, row) /\ IdleReq.pc # "txn"
    BY IdleOK DEF IdleReq
  <2> QED
    BY <1>1, <2>1, ConstantsDistinct
<1>5. /\ past \in Seq([row : [Runs -> Row \cup {NoRow}], tags : [Runs -> TagsOf], quiet : BOOLEAN])
      /\ Len(past) = clock - 1
  BY SMTT(60), <1>1
<1>6. req = [p \in Procs |-> req[p]]
  BY <1>1
<1>7. clock \in 1 .. MaxClock /\ ops \in 0 .. MaxOps /\ horizon \in Int /\ nextId \in Nat \ {0}
  BY SMTT(60), <1>1, ConstantTypes
<1> QED
  BY <1>1, <1>2, <1>3, <1>4, <1>5, <1>6, <1>7 DEF TypeOK

\* The tables, the requests in flight and the history keep their types in every
\* behaviour of the store, whatever the constants.
THEOREM TypeCorrect == Spec => []TypeOK
<1>1. Init => TypeOK
  BY TypeInit
<1>2. TypeOK /\ [Next]_vars => TypeOK'
  BY TypeStep
<1> QED
  BY <1>1, <1>2, PTL DEF Spec

\* Only commits touch runs and tags, and each leaves the parent tag empty, equal
\* to the column, or alone.
LEMMA MirrorStep ==
  ASSUME TypeOK, ParentTagMirrored, [Next]_vars
  PROVE  ParentTagMirrored'
<1>1. CASE UNCHANGED <<row, tags>>
  BY <1>1 DEF ParentTagMirrored, Exists
<1>2. ASSUME NEW p \in Procs, Committed(p) PROVE ParentTagMirrored'
  <2>1. PICK newRow \in [Runs -> Row \cup {NoRow}], newTags \in [Runs -> TagsOf],
             evs \in Seq(RunBodies \cup TagBodies) :
          /\ \A r \in Runs : Exists(r) => newRow[r] # NoRow
          /\ \A r \in Runs : ParentTagKept(r, newRow, newTags)
          /\ Commit(p, newRow, newTags, evs)
    BY <1>2 DEF Committed
  <2>2. row' = newRow /\ tags' = newTags
    BY <2>1 DEF Commit
  <2>3. ASSUME NEW r \in Runs, newTags[r][ParentKey] \notin {Absent, NoRun}
        PROVE  newRow[r] # NoRow /\ newRow[r].parent = newTags[r][ParentKey]
    BY <2>1, <2>3 DEF ParentTagKept, ParentTagMirrored
  <2> QED
    BY <2>2, <2>3 DEF ParentTagMirrored, Exists
<1>3. ASSUME NEW p \in Procs, Serve(p) PROVE ParentTagMirrored'
  <2>1. CASE PreRead(p) \/ BeginTx(p) \/ Fail(p) \/ PruneEventsBefore(p)
    BY <1>1, <2>1 DEF PreRead, BeginTx, Fail, PruneEventsBefore, db
  <2> QED
    BY <1>2, <1>3, <2>1, ServeCases
<1>4. CASE Tick \/ Crash \/ JanitorTick
  BY <1>1, <1>4 DEF Tick, Crash, JanitorTick, db
<1>5. ASSUME NEW p \in Writers, Arrival(p) PROVE UNCHANGED <<row, tags>>
  BY <1>5 DEF Arrival, CreateRunArrives, UpdateRunArrives, SetRunLifecycleArrives, SetTagsArrives,
              DeleteTagArrives, Arrive, db
<1>6. ASSUME NEW p \in Readers, Read(p) PROVE UNCHANGED <<row, tags>>
  BY <1>6 DEF Read, GetRunAsOf, ScanEvents, ReadTags, db
<1> QED
  BY <1>1, <1>3, <1>4, <1>5, <1>6 DEF Next, vars

\* A non-empty mlflow.parentRunId tag and the parent_run_id column agree in every
\* behaviour, for any number of goroutines setting, deleting and creating.
THEOREM ParentMirror == Spec => []ParentTagMirrored
<1>1. Init => ParentTagMirrored
  <2>1. ParentKey \in AllKeys
    BY DEF AllKeys
  <2> QED
    BY SMTT(60), <2>1 DEF Init, ParentTagMirrored
<1>2. TypeOK /\ ParentTagMirrored /\ [Next]_vars => ParentTagMirrored'
  BY MirrorStep
<1> QED
  BY <1>1, <1>2, TypeCorrect, PTL DEF Spec

-----------------------------------------------------------------------------
(* Why ?as_of= replay gets parent_run_id right under every interleaving.    *)
(* LogOrdered says that the rows of events are ordered by (ts_ms, id) as    *)
(* they were committed, and that what an open transaction will log comes    *)
(* after everything logged and after every settled millisecond.  A commit   *)
(* therefore never changes which event is the first one newer than T; and   *)
(* when it adds the first one, its `before` is the parent the row has.      *)

Ordered(E) ==
  \A e \in E : /\ e.id \in Nat /\ e.ts \in Nat
               /\ \A f \in E : (e.id = f.id => e = f) /\ (e.id < f.id => e.ts <= f.ts)

\* ORDER BY ts_ms, id has a first row when there is one.
LEMMA FirstExists ==
  ASSUME NEW E, E # {}, Ordered(E)
  PROVE  /\ FirstOf(E) \in E
         /\ \A f \in E : LET e == FirstOf(E) IN e.ts < f.ts \/ (e.ts = f.ts /\ e.id <= f.id)
<1> DEFINE ids == {e.id : e \in E}
<1>1. ids \subseteq Nat /\ ids # {}
  BY SMTT(60) DEF Ordered
<1>2. PICK n \in ids : \A m \in ids : n <= m
  <2> HIDE DEF ids
  <2> QED
    BY <1>1, LeastNat
<1>3. PICK e \in E : e.id = n
  BY <1>2
<1>4. ASSUME NEW f \in E
      PROVE  e.ts < f.ts \/ (e.ts = f.ts /\ e.id <= f.id)
  <2>1. e.id <= f.id
    BY <1>2, <1>3
  <2>2. e.id \in Nat /\ f.id \in Nat /\ e.ts \in Nat /\ f.ts \in Nat
    BY DEF Ordered
  <2>3. (e.id = f.id => e = f) /\ (e.id < f.id => e.ts <= f.ts)
    BY DEF Ordered
  <2> QED
    BY SMTT(60), <2>1, <2>2, <2>3
<1> QED
  BY <1>3, <1>4 DEF FirstOf

\* Rows with larger ids, added later, leave the first row what it was.
LEMMA FirstOfStable ==
  ASSUME NEW E, NEW N, E # {}, Ordered(E \cup N), \A e \in E, n \in N : e.id < n.id
  PROVE  FirstOf(E \cup N) = FirstOf(E)
<1> DEFINE m == FirstOf(E)
           x == FirstOf(E \cup N)
<1>1. Ordered(E) /\ E \cup N # {}
  BY DEF Ordered
<1>2. m \in E /\ \A f \in E : m.ts < f.ts \/ (m.ts = f.ts /\ m.id <= f.id)
  BY <1>1, FirstExists
<1>3. x \in E \cup N /\ \A f \in E \cup N : x.ts < f.ts \/ (x.ts = f.ts /\ x.id <= f.id)
  BY <1>1, FirstExists
<1> HIDE DEF m, x
<1>4. m.id \in Nat /\ x.id \in Nat /\ m.ts \in Nat /\ x.ts \in Nat
  BY <1>2, <1>3 DEF Ordered
<1>5. x \in E
  <2>1. SUFFICES ASSUME x \in N PROVE FALSE
    BY <1>3
  <2>2. m.id < x.id
    BY <1>2, <2>1
  <2>3. m.ts <= x.ts
    BY <1>2, <1>3, <2>2 DEF Ordered
  <2>4. x.ts < m.ts \/ (x.ts = m.ts /\ x.id <= m.id)
    BY <1>2, <1>3
  <2> QED
    BY SMTT(60), <1>4, <2>2, <2>3, <2>4
<1>6. m.id = x.id
  BY SMTT(60), <1>2, <1>3, <1>4, <1>5
<1>7. m = x
  BY <1>2, <1>3, <1>6 DEF Ordered
<1> QED
  BY <1>7 DEF m, x

Parents(r, T) == OfKind(Newer(r, T), "run_parent")

\* The event table is ordered in the sense FirstOf needs (ORDER BY ts_ms, id).
LEMMA EventsOrdered ==
  ASSUME TypeOK, LogOrdered
  PROVE  Ordered(events)
<1>1. \A e \in events : e.id \in Nat /\ e.ts \in 1 .. MaxClock
  <2> TAKE e \in events
  <2>1. e \in RunEventRows \/ e \in TagEventRows
    BY DEF TypeOK
  <2>2. CASE e \in RunEventRows
    BY <2>2 DEF RunEventRows
  <2>3. CASE e \in TagEventRows
    BY <2>3 DEF TagEventRows
  <2> QED
    BY <2>1, <2>2, <2>3
<1>2. \A e \in events : e.id \in Nat /\ e.ts \in Nat
  BY SMTT(60), <1>1, ConstantTypes
<1>3. \A e, f \in events : (e.id = f.id => e = f) /\ (e.id < f.id => e.ts <= f.ts)
  BY DEF LogOrdered
<1> QED
  BY <1>2, <1>3 DEF Ordered

\* The lock holder and the counters a commit uses.
LEMMA HolderFacts ==
  ASSUME TypeOK, NEW p \in Procs, req[p].pc = "txn"
  PROVE  lock = p /\ nextId \in Nat /\ clock \in Nat /\ req[p].t0 \in Nat /\ req[p].t0 <= clock
<1>1. lock = p /\ nextId \in Nat \ {0} /\ clock \in 1 .. MaxClock /\ ReqOK(p, req[p], clock, row)
  BY DEF TypeOK
<1>2. req[p].t0 \in 0 .. clock
  BY <1>1 DEF ReqOK
<1> QED
  BY SMTT(60), <1>1, <1>2, ConstantTypes

AsOfInv == TypeOK /\ LogOrdered /\ ParentAsOfExact

\* One step of any goroutine, the clock or a crash.
LEMMA AsOfStep ==
  AsOfInv /\ [Next]_vars => AsOfInv'
\* applyUndo takes the parent from the first newer run_parent event alone.
<1>UndoRowParent. ASSUME NEW current \in Row, NEW newer
                  PROVE  UndoRow(current, newer).parent = BeforeFirst(OfKind(newer, "run_parent"), current).parent
  BY <1>UndoRowParent DEF UndoRow, Row
\* The same, as the invariant states it.
<1>ParentView. ASSUME TypeOK, LogOrdered
               PROVE  ParentAsOfExact <=>
                        \A r \in Runs, T \in 1 .. Len(past) :
                          Settled(r, T) => BeforeFirst(Parents(r, T), row[r]).parent = past[T].row[r].parent
  <2> USE <1>ParentView
  <2>1. ASSUME NEW r \in Runs, NEW T \in 1 .. Len(past), Settled(r, T)
        PROVE  UndoRow(row[r], Newer(r, T)).parent = BeforeFirst(Parents(r, T), row[r]).parent
    <3>1. row[r] \in Row
      BY <2>1 DEF Settled, LogOrdered, TypeOK
    <3> QED
      BY <3>1, <1>UndoRowParent DEF Parents
  <2> QED
    BY <2>1 DEF ParentAsOfExact
\* The same in the state after a step.
<1>ParentViewPrimed. ASSUME TypeOK', LogOrdered',
                            \A r \in Runs, T \in 1 .. Len(past') :
                              Settled(r, T)' => BeforeFirst(Parents(r, T)', row'[r]).parent = past'[T].row[r].parent
                     PROVE  ParentAsOfExact'
  <2> USE <1>ParentViewPrimed
  <2>1. ASSUME NEW r \in Runs, NEW T \in 1 .. Len(past'), Settled(r, T)'
        PROVE  UndoRow(row'[r], Newer(r, T)').parent = BeforeFirst(Parents(r, T)', row'[r]).parent
    <3>1. row'[r] \in Row
      BY <2>1 DEF Settled, LogOrdered, TypeOK
    <3> DEFINE newer == Newer(r, T)'
    <3>2. Parents(r, T)' = OfKind(newer, "run_parent")
      BY DEF Parents, OfKind
    <3> HIDE DEF newer
    <3>3. UndoRow(row'[r], newer).parent = BeforeFirst(OfKind(newer, "run_parent"), row'[r]).parent
      BY <3>1, <1>UndoRowParent
    <3> QED
      BY <3>2, <3>3 DEF newer
  <2> QED
    BY <2>1 DEF ParentAsOfExact
\* A step that commits nothing keeps both: the rows are the same, and whoever
\* holds the lock held it before or has just taken it, now.
<1>FrameStep. ASSUME TypeOK, LogOrdered, ParentAsOfExact,
                     row' = row, events' = events, nextId' = nextId, past' = past, clock' = clock,
                     horizon' = horizon,
                     \A p \in Procs : lock' = p => (lock = p /\ req'[p].t0 = req[p].t0) \/ req'[p].t0 = clock
              PROVE  LogOrdered' /\ ParentAsOfExact'
  <2> USE <1>FrameStep
  <2>1. /\ clock \in Nat /\ Len(past) = clock - 1 /\ \A t \in 1 .. Len(past) : t < clock
    BY SMTT(60), ConstantTypes DEF TypeOK
  <2>2. LogOrdered'
    <3>1. ASSUME NEW p \in Procs, lock' = p
          PROVE  /\ \A e \in events' : e.ts <= req'[p].t0
                 /\ \A t \in 1 .. Len(past') : past'[t].quiet => t < req'[p].t0
      BY <2>1, <3>1 DEF LogOrdered
    <3> QED
      BY <3>1 DEF LogOrdered
  <2>3. ParentAsOfExact'
    BY DEF ParentAsOfExact, Settled, Newer
  <2> QED
    BY <2>2, <2>3
\* The end of a millisecond enters the history: nothing is newer than it yet, and it is
\* quiet only when nobody holds the lock (the wall clock against open transactions).
<1>TickStep. ASSUME TypeOK, LogOrdered, ParentAsOfExact, Tick, TypeOK'
             PROVE  LogOrdered' /\ ParentAsOfExact'
  <2> USE <1>TickStep
  <2> DEFINE now == [row |-> row, tags |-> tags, quiet |-> lock = NoProc]
             Entry == [row : [Runs -> Row \cup {NoRow}], tags : [Runs -> TagsOf], quiet : BOOLEAN]
  <2>1. /\ row' = row /\ events' = events /\ nextId' = nextId /\ past' = Append(past, now)
        /\ clock' = clock + 1 /\ lock' = lock /\ req' = req /\ horizon' = horizon
    BY DEF Tick, db, hist
  <2>2. /\ clock \in Nat /\ Len(past) = clock - 1 /\ past \in Seq(Entry)
        /\ row \in [Runs -> Row \cup {NoRow}] /\ nextId \in Nat
    <3>1. past \in Seq(Entry) /\ row \in [Runs -> Row \cup {NoRow}] /\ Len(past) = clock - 1
      BY DEF TypeOK
    <3>2. clock \in 1 .. MaxClock /\ nextId \in Nat \ {0}
      BY DEF TypeOK
    <3>3. clock \in Nat /\ nextId \in Nat
      BY SMTT(60), <3>2, ConstantTypes
    <3> QED
      BY <3>1, <3>3
  <2>2a. \A e \in events : e.id \in Nat /\ e.ts \in Nat
    BY EventsOrdered DEF Ordered
  <2>3. /\ Len(past') = clock /\ now.row = row /\ (now.quiet <=> lock = NoProc)
        /\ \A t \in 1 .. Len(past') : past'[t] = IF t <= Len(past) THEN past[t] ELSE now
    <3>1. past' = Append(past, now)
      BY <2>1
    <3>2. now.row = row /\ (now.quiet <=> lock = NoProc)
      OBVIOUS
    <3> HIDE DEF now, Entry
    <3> QED
      BY SMTT(60), <2>2, <3>1, <3>2
  <2> HIDE DEF now
  <2>4. LogOrdered'
    <3>1. \A e \in events' : e.id < nextId' /\ e.ts <= clock'
      BY SMTT(60), <2>1, <2>2, <2>2a DEF LogOrdered
    <3>2. \A e, f \in events' : (e.id = f.id => e = f) /\ (e.id < f.id => e.ts <= f.ts)
      BY <2>1 DEF LogOrdered
    <3>3. ASSUME NEW p \in Procs, lock' = p
          PROVE  /\ \A e \in events' : e.ts <= req'[p].t0
                 /\ \A t \in 1 .. Len(past') : past'[t].quiet => t < req'[p].t0
      <4>1. lock = p /\ lock # NoProc
        BY <2>1, <3>3, ConstantsDistinct
      <4> QED
        BY SMTT(60), <2>1, <2>2, <2>3, <4>1 DEF LogOrdered
    <3>4. \A t \in 1 .. Len(past'), r \in Runs : past'[t].row[r] # NoRow => row'[r] # NoRow
      BY SMTT(60), <2>1, <2>2, <2>3 DEF LogOrdered
    <3> QED
      BY <3>1, <3>2, <3>3, <3>4 DEF LogOrdered
  <2>5. ASSUME NEW r \in Runs, NEW T \in 1 .. Len(past'), Settled(r, T)'
        PROVE  BeforeFirst(Parents(r, T)', row'[r]).parent = past'[T].row[r].parent
    <3>1. Parents(r, T)' = Parents(r, T)
      BY <2>1 DEF Parents, OfKind, Newer
    <3>2. CASE T <= Len(past)
      <4>1. T \in 1 .. Len(past) /\ past'[T] = past[T]
        BY SMTT(60), <2>2, <2>3, <3>2
      <4>2. Settled(r, T)
        BY <2>1, <2>5, <4>1 DEF Settled
      <4>3. BeforeFirst(Parents(r, T), row[r]).parent = past[T].row[r].parent
        BY <4>1, <4>2, <1>ParentView
      <4> QED
        BY <2>1, <3>1, <4>1, <4>3
    <3>3. CASE ~(T <= Len(past))
      <4>1. T = clock /\ past'[T] = now
        BY SMTT(60), <2>2, <2>3, <3>3
      <4>2. Parents(r, T) = {}
        BY SMTT(60), <2>2, <2>2a, <4>1 DEF Parents, OfKind, Newer, LogOrdered
      <4> QED
        BY <2>1, <2>3, <3>1, <4>1, <4>2 DEF BeforeFirst
    <3> QED
      BY <3>2, <3>3
  <2>6. ParentAsOfExact'
    BY <2>4, <2>5, <1>ParentViewPrimed
  <2> QED
    BY <2>4, <2>6
\* The rows a commit inserts: new ids, stamped after everything there is, and
\* ordered among themselves.
<1>CommitOrder. ASSUME TypeOK, LogOrdered, NEW p \in Procs, Committed(p), TypeOK'
                PROVE  LogOrdered'
  <2> USE <1>CommitOrder
  <2>0. PICK newRow \in [Runs -> Row \cup {NoRow}], newTags \in [Runs -> TagsOf],
             evs \in Seq(RunBodies \cup TagBodies) :
          /\ req[p].pc = "txn" /\ \A r \in Runs : Exists(r) => newRow[r] # NoRow
          /\ Commit(p, newRow, newTags, evs)
    BY DEF Committed
  <2>1. PICK s \in Stamps(p, Len(evs)) : events' = events \cup Stamped(evs, s)
    BY <2>0 DEF Commit
  <2>2. /\ row' = newRow /\ lock' = NoProc /\ nextId' = nextId + Len(evs)
        /\ clock' = clock /\ past' = past
    BY <2>0 DEF Commit
  <2>3. lock = p /\ nextId \in Nat /\ clock \in Nat /\ req[p].t0 \in Nat /\ Len(evs) \in Nat
    <3>1. req[p].pc = "txn"
      BY <2>0
    <3>2. lock = p /\ nextId \in Nat /\ clock \in Nat /\ req[p].t0 \in Nat
      BY <3>1, HolderFacts
    <3>3. Len(evs) \in Nat
      BY SMTT(60)
    <3> QED
      BY <3>2, <3>3
  <2>4. \A e \in events : e.id \in Nat /\ e.ts \in Nat /\ e.id < nextId /\ e.ts <= req[p].t0
    <3>1. \A e \in events : e.id \in Nat /\ e.ts \in Nat
      BY EventsOrdered DEF Ordered
    <3> QED
      BY <2>3, <3>1 DEF LogOrdered
  <2>5. ASSUME NEW e \in Stamped(evs, s)
        PROVE  /\ e.id \in nextId .. nextId + Len(evs) - 1
               /\ e.ts \in req[p].t0 .. clock
    BY <2>0, <2>5, StampedOK
  <2>6. ASSUME NEW e \in Stamped(evs, s), NEW f \in Stamped(evs, s)
        PROVE  (e.id = f.id => e = f) /\ (e.id < f.id => e.ts <= f.ts)
    <3>1. PICK i \in 1 .. Len(evs) : e = EventRow(evs[i], nextId + i - 1, s[i])
      BY DEF Stamped
    <3>2. PICK j \in 1 .. Len(evs) : f = EventRow(evs[j], nextId + j - 1, s[j])
      BY DEF Stamped
    <3>3. e.id = nextId + i - 1 /\ f.id = nextId + j - 1 /\ e.ts = s[i] /\ f.ts = s[j]
      BY <3>1, <3>2 DEF EventRow
    <3>4. i \in Nat /\ j \in Nat
      BY SMTT(60), <2>3
    <3>5. e.id = f.id => i = j
      BY SMTT(60), <2>3, <3>3, <3>4
    <3>6. e.id < f.id => i < j
      BY SMTT(60), <2>3, <3>3, <3>4
    <3>7. i < j => s[i] <= s[j]
      BY DEF Stamps
    <3> QED
      BY <3>1, <3>2, <3>3, <3>5, <3>6, <3>7
  <2>7. \A e \in events' : e.id < nextId' /\ e.ts <= clock'
    <3>1. req[p].t0 <= clock
      BY <2>0, HolderFacts
    <3> QED
      BY SMTT(60), <2>1, <2>2, <2>3, <2>4, <2>5, <3>1
  <2>8. ASSUME NEW e \in events', NEW f \in events'
        PROVE  (e.id = f.id => e = f) /\ (e.id < f.id => e.ts <= f.ts)
    <3>1. CASE e \in events /\ f \in events
      BY <3>1 DEF LogOrdered
    <3>2. CASE e \in events /\ f \in Stamped(evs, s)
      BY SMTT(60), <2>3, <2>4, <2>5, <3>2
    <3>3. CASE e \in Stamped(evs, s) /\ f \in events
      BY SMTT(60), <2>3, <2>4, <2>5, <3>3
    <3>4. CASE e \in Stamped(evs, s) /\ f \in Stamped(evs, s)
      BY <2>6, <3>4
    <3> QED
      BY <2>1, <3>1, <3>2, <3>3, <3>4
  <2>9. \A t \in 1 .. Len(past'), r \in Runs : past'[t].row[r] # NoRow => row'[r] # NoRow
    BY <2>0, <2>2 DEF LogOrdered, Exists
  <2>10. \A q \in Procs : lock' # q
    BY <2>2, ConstantsDistinct
  <2> QED
    BY <2>7, <2>8, <2>9, <2>10 DEF LogOrdered
\* A commit leaves every as-of view of the parent what it was.
<1>CommitParent. ASSUME TypeOK, LogOrdered, ParentAsOfExact, NEW p \in Procs, Committed(p), TypeOK', LogOrdered'
                 PROVE  ParentAsOfExact'
  <2> USE <1>CommitParent
  <2>0. PICK newRow \in [Runs -> Row \cup {NoRow}], newTags \in [Runs -> TagsOf],
             evs \in Seq(RunBodies \cup TagBodies) :
          /\ req[p].pc = "txn"
          /\ \A r \in Runs : Exists(r) => newRow[r] # NoRow /\ ParentLogged(r, newRow, evs)
          /\ Commit(p, newRow, newTags, evs)
    BY DEF Committed
  <2>1. PICK s \in Stamps(p, Len(evs)) : events' = events \cup Stamped(evs, s)
    BY <2>0 DEF Commit
  <2>2. /\ row' = newRow /\ past' = past /\ horizon' = horizon
    BY <2>0 DEF Commit
  <2>3. lock = p /\ nextId \in Nat /\ clock \in Nat /\ req[p].t0 \in Nat /\ Len(evs) \in Nat
    <3>1. req[p].pc = "txn"
      BY <2>0
    <3>2. lock = p /\ nextId \in Nat /\ clock \in Nat /\ req[p].t0 \in Nat
      BY <3>1, HolderFacts
    <3>3. Len(evs) \in Nat
      BY SMTT(60)
    <3> QED
      BY <3>2, <3>3
  <2>4. Ordered(events')
    <3>1. \A e \in events' : e.id \in Nat /\ e.ts \in Nat
      <4>1. \A e \in events : e.id \in Nat /\ e.ts \in Nat
        BY EventsOrdered DEF Ordered
      <4>2. ASSUME NEW e \in Stamped(evs, s) PROVE e.id \in Nat /\ e.ts \in Nat
        <5>1. e.id \in nextId .. nextId + Len(evs) - 1 /\ e.ts \in req[p].t0 .. clock
          BY <2>0, <4>2, StampedOK
        <5> QED
          BY SMTT(60), <2>3, <5>1
      <4> QED
        BY <2>1, <4>1, <4>2
    <3>2. \A e, f \in events' : (e.id = f.id => e = f) /\ (e.id < f.id => e.ts <= f.ts)
      BY DEF LogOrdered
    <3> QED
      BY <3>1, <3>2 DEF Ordered
  <2>5. ASSUME NEW r \in Runs, NEW T \in 1 .. Len(past'), Settled(r, T)'
        PROVE  BeforeFirst(Parents(r, T)', row'[r]).parent = past'[T].row[r].parent
    <3> DEFINE E == Parents(r, T)
               N == {e \in Stamped(evs, s) : e.run = r /\ e.kind = "run_parent"}
               at == {i \in 1 .. Len(evs) : evs[i].run = r /\ evs[i].kind = "run_parent"}
    <3>1. T \in 1 .. Len(past) /\ Settled(r, T) /\ past[T].quiet /\ Exists(r)
      BY <2>2, <2>5 DEF Settled, LogOrdered, Exists
    <3>2. BeforeFirst(E, row[r]).parent = past[T].row[r].parent
      BY <3>1, <1>ParentView
    <3>3. T < req[p].t0 /\ T \in Nat
      <4>1. T \in Nat
        BY SMTT(60), <3>1
      <4>2. T < req[p].t0
        BY <2>3, <3>1 DEF LogOrdered
      <4> QED
        BY <4>1, <4>2
    <3>4. \A e \in Stamped(evs, s) : e.ts > T /\ e.id >= nextId /\ e.ts \in Nat
      <4> TAKE e \in Stamped(evs, s)
      <4>1. e.id \in nextId .. nextId + Len(evs) - 1 /\ e.ts \in req[p].t0 .. clock
        BY <2>0, StampedOK
      <4> QED
        BY SMTT(60), <2>3, <3>3, <4>1
    <3>5. Parents(r, T)' = E \cup N
      BY <2>1, <3>4 DEF Parents, OfKind, Newer
    <3>6. ParentLogged(r, newRow, evs)
      BY <2>0, <3>1
    <3>7. \A n \in N : n.before.parent = row[r].parent
      <4> TAKE n \in N
      <4>1. PICK i \in 1 .. Len(evs) : n = EventRow(evs[i], nextId + i - 1, s[i])
        BY DEF Stamped
      <4>2. n.run = evs[i].run /\ n.kind = evs[i].kind /\ n.before = evs[i].before
        BY <4>1 DEF EventRow
      <4>3. i \in at
        BY <4>2
      <4>4. \A a \in at : evs[a].before.parent = row[r].parent
        BY <3>6, <4>3 DEF ParentLogged
      <4> QED
        BY <4>2, <4>3, <4>4
    <3>8. N = {} => newRow[r].parent = row[r].parent
      <4> SUFFICES ASSUME N = {} PROVE newRow[r].parent = row[r].parent
        OBVIOUS
      <4>1. ASSUME NEW i \in at PROVE FALSE
        <5> DEFINE n == EventRow(evs[i], nextId + i - 1, s[i])
        <5>1. n \in Stamped(evs, s)
          BY DEF Stamped
        <5>2. n.run = evs[i].run /\ n.kind = evs[i].kind
          BY DEF EventRow
        <5> HIDE DEF n
        <5>3. n \in N
          BY <5>1, <5>2
        <5> QED
          BY <5>3
      <4>2. at = {}
        BY <4>1
      <4> QED
        BY <3>6, <4>2 DEF ParentLogged
    <3>9. E \subseteq events /\ N \subseteq Stamped(evs, s)
      BY DEF Parents, OfKind, Newer
    <3>10. Ordered(E \cup N)
      BY <2>1, <2>4, <3>9 DEF Ordered
    <3>11. \A e \in E, n \in N : e.id < n.id
      <4>1. \A e \in events : e.id \in Nat /\ e.id < nextId
        BY EventsOrdered DEF Ordered, LogOrdered
      <4>2. \A n \in N : n.id \in Nat /\ n.id >= nextId
        BY <3>4, <3>10 DEF Ordered
      <4> QED
        BY SMTT(60), <2>3, <3>9, <4>1, <4>2
    <3> HIDE DEF E, N
    <3>12. CASE E # {}
      <4>1. FirstOf(E \cup N) = FirstOf(E)
        BY <3>10, <3>11, <3>12, FirstOfStable
      <4> QED
        BY <2>2, <3>2, <3>5, <3>12, <4>1 DEF BeforeFirst
    <3>13. CASE E = {} /\ N = {}
      BY <2>2, <3>2, <3>5, <3>8, <3>13 DEF BeforeFirst
    <3>14. CASE E = {} /\ N # {}
      <4>1. FirstOf(E \cup N) \in E \cup N
        BY <3>10, <3>14, FirstExists
      <4>2. FirstOf(E \cup N).before.parent = row[r].parent
        BY <3>7, <3>14, <4>1
      <4> QED
        BY <2>2, <3>2, <3>5, <3>14, <4>2 DEF BeforeFirst
    <3> QED
      BY <3>12, <3>13, <3>14
  <2> QED
    BY <2>5, <1>ParentViewPrimed
\* Pruning moves the horizon past every millisecond it loses events of.
<1>PruneStep. ASSUME TypeOK, LogOrdered, ParentAsOfExact, NEW p \in Procs, PruneEventsBefore(p), TypeOK'
              PROVE  LogOrdered' /\ ParentAsOfExact'
  <2> USE <1>PruneStep
  <2> DEFINE cutoff == req[p].arg - Retention
  <2>1. /\ row' = row /\ nextId' = nextId /\ past' = past /\ clock' = clock
        /\ lock = NoProc /\ lock' = lock /\ req[p].pc = "prune"
        /\ events' = {e \in events : e.ts >= cutoff}
        /\ horizon' = IF cutoff > horizon THEN cutoff ELSE horizon
    BY DEF PruneEventsBefore
  <2>2. horizon \in Int /\ ReqOK(p, req[p], clock, row) /\ clock \in 1 .. MaxClock
    BY DEF TypeOK
  <2>3. cutoff \in Int
    <3>1. req[p].arg \in 1 .. clock
      BY <2>1, <2>2 DEF ReqOK, ArgOK
    <3> QED
      BY SMTT(60), <2>2, <3>1, ConstantTypes
  <2>4. \A e \in events : e.ts \in Nat
    BY EventsOrdered DEF Ordered
  <2> HIDE DEF cutoff
  <2>5. LogOrdered'
    <3>1. \A e \in events' : e.id < nextId' /\ e.ts <= clock'
      BY <2>1 DEF LogOrdered
    <3>2. \A e, f \in events' : (e.id = f.id => e = f) /\ (e.id < f.id => e.ts <= f.ts)
      BY <2>1 DEF LogOrdered
    <3>3. \A q \in Procs : lock' # q
      BY <2>1, ConstantsDistinct
    <3>4. \A t \in 1 .. Len(past'), r \in Runs : past'[t].row[r] # NoRow => row'[r] # NoRow
      BY <2>1 DEF LogOrdered
    <3> QED
      BY <3>1, <3>2, <3>3, <3>4 DEF LogOrdered
  <2>6. ASSUME NEW r \in Runs, NEW T \in 1 .. Len(past'), Settled(r, T)'
        PROVE  BeforeFirst(Parents(r, T)', row'[r]).parent = past'[T].row[r].parent
    <3>0. T \in 1 .. Len(past) /\ T + 1 >= horizon'
      BY <2>1, <2>6 DEF Settled
    <3>1. T \in 1 .. Len(past) /\ T \in Int /\ T + 1 >= horizon'
      BY SMTT(60), <3>0
    <3>2. T + 1 >= horizon /\ T + 1 >= cutoff
      BY SMTT(60), <2>1, <2>2, <2>3, <3>1
    <3>3. Settled(r, T)
      BY <2>1, <2>6, <3>2 DEF Settled
    <3>4. Parents(r, T)' = Parents(r, T)
      <4>1. \A e \in events : e.ts > T => e.ts >= cutoff
        BY SMTT(60), <2>3, <2>4, <3>1, <3>2
      <4> QED
        BY <2>1, <4>1 DEF Parents, OfKind, Newer
    <3> QED
      BY <2>1, <3>1, <3>3, <3>4, <1>ParentView
  <2>7. ParentAsOfExact'
    BY <2>5, <2>6, <1>ParentViewPrimed
  <2> QED
    BY <2>5, <2>7
<1> SUFFICES ASSUME AsOfInv, [Next]_vars PROVE AsOfInv'
  OBVIOUS
<1>0. TypeOK /\ LogOrdered /\ ParentAsOfExact /\ TypeOK'
  BY TypeStep DEF AsOfInv
<1>0a. req = [q \in Procs |-> req[q]] /\ \A q \in Procs : req[q].pc = "txn" <=> lock = q
  BY <1>0 DEF TypeOK
<1>1. CASE Tick
  BY <1>0, <1>1, <1>TickStep DEF AsOfInv
<1>2. CASE Crash
  <2>1. /\ row' = row /\ events' = events /\ nextId' = nextId /\ past' = past /\ clock' = clock
        /\ horizon' = horizon /\ lock' = NoProc
    BY <1>2 DEF Crash, db, hist
  <2>2. \A q \in Procs : lock' # q
    BY <2>1, ConstantsDistinct
  <2> QED
    BY <1>0, <2>1, <2>2, <1>FrameStep DEF AsOfInv
<1>3. CASE JanitorTick
  <2>1. /\ row' = row /\ events' = events /\ nextId' = nextId /\ past' = past /\ clock' = clock
        /\ horizon' = horizon /\ lock' = lock /\ req[Janitor].pc = "idle"
        /\ \E q : req' = [req EXCEPT ![Janitor] = q]
    BY <1>3 DEF JanitorTick, db, hist
  <2>2. \A q \in Procs : lock' = q => lock = q /\ req'[q] = req[q]
    BY <1>0a, <2>1 DEF Procs
  <2> QED
    BY <1>0, <2>1, <2>2, <1>FrameStep DEF AsOfInv
<1>4. ASSUME NEW p \in Writers, Arrival(p) PROVE AsOfInv'
  <2>1. PICK q : Arrive(p, q)
    BY <1>4 DEF Arrival, CreateRunArrives, UpdateRunArrives, SetRunLifecycleArrives, SetTagsArrives,
                DeleteTagArrives
  <2>2. /\ row' = row /\ events' = events /\ nextId' = nextId /\ past' = past /\ clock' = clock
        /\ horizon' = horizon /\ lock' = lock /\ req[p].pc = "idle" /\ req' = [req EXCEPT ![p] = q]
    BY <2>1 DEF Arrive, db, hist
  <2>3. \A o \in Procs : lock' = o => lock = o /\ req'[o] = req[o]
    BY <1>0a, <2>2 DEF Procs
  <2> QED
    BY <1>0, <2>2, <2>3, <1>FrameStep DEF AsOfInv
<1>5. ASSUME NEW p \in Procs, Serve(p) PROVE AsOfInv'
  <2>1. CASE PreRead(p)
    <3>1. /\ row' = row /\ events' = events /\ nextId' = nextId /\ past' = past /\ clock' = clock
          /\ horizon' = horizon /\ lock' = lock /\ req[p].pc = "read"
      BY <2>1 DEF PreRead, db, hist
    <3>2. \A o \in Procs : lock' = o => lock = o /\ req'[o] = req[o]
      BY <1>0a, <2>1, <3>1 DEF PreRead
    <3> QED
      BY <1>0, <3>1, <3>2, <1>FrameStep DEF AsOfInv
  <2>2. CASE BeginTx(p)
    <3>1. /\ row' = row /\ events' = events /\ nextId' = nextId /\ past' = past /\ clock' = clock
          /\ horizon' = horizon /\ lock' = p /\ req' = [req EXCEPT ![p].pc = "txn", ![p].t0 = clock]
      BY <2>2 DEF BeginTx, db, hist
    <3>2. ReqOK(p, req[p], clock, row)
      BY <1>0 DEF TypeOK
    <3>3. req'[p].t0 = clock
      BY <1>0a, <3>1, <3>2 DEF ReqOK
    <3> QED
      BY <1>0, <3>1, <3>3, <1>FrameStep DEF AsOfInv
  <2>3. CASE Fail(p)
    <3>1. /\ row' = row /\ events' = events /\ nextId' = nextId /\ past' = past /\ clock' = clock
          /\ horizon' = horizon /\ lock' = (IF lock = p THEN NoProc ELSE lock)
          /\ req' = [req EXCEPT ![p] = After(p, FALSE)]
      BY <2>3 DEF Fail, db, hist
    <3>2. \A o \in Procs : lock' = o => lock = o /\ req'[o] = req[o]
      BY <1>0a, <3>1, ConstantsDistinct
    <3> QED
      BY <1>0, <3>1, <3>2, <1>FrameStep DEF AsOfInv
  <2>4. CASE Committed(p)
    BY <1>0, <2>4, <1>CommitOrder, <1>CommitParent DEF AsOfInv
  <2>5. CASE PruneEventsBefore(p)
    BY <1>0, <2>5, <1>PruneStep DEF AsOfInv
  <2> QED
    BY <1>0, <1>5, <2>1, <2>2, <2>3, <2>4, <2>5, ServeCases
<1>6. CASE (\E p \in Readers : Read(p)) \/ UNCHANGED vars
  <2>1. /\ row' = row /\ events' = events /\ nextId' = nextId /\ past' = past /\ clock' = clock
        /\ horizon' = horizon /\ lock' = lock /\ req' = req
    BY <1>6 DEF Read, GetRunAsOf, ScanEvents, ReadTags, db, hist, vars
  <2> QED
    BY <1>0, <2>1, <1>FrameStep DEF AsOfInv
<1> QED
  BY <1>1, <1>2, <1>3, <1>4, <1>5, <1>6 DEF Next

\* The store starts with no events and no history.
LEMMA AsOfInit ==
  ASSUME Init
  PROVE  AsOfInv
<1>1. TypeOK
  BY TypeInit
<1>2. events = {} /\ lock = NoProc /\ past = <<>>
  BY DEF Init
<1>3. \A p \in Procs : lock # p
  BY <1>2, ConstantsDistinct
<1> QED
  BY SMTT(60), <1>1, <1>2, <1>3 DEF AsOfInv, LogOrdered, ParentAsOfExact

\* Replaying events in (ts_ms, id) order is replaying them as they committed, for
\* any number of runs, goroutines and requests.
THEOREM EventLogOrdered == Spec => []LogOrdered
<1>1. Init => AsOfInv
  BY AsOfInit
<1>2. AsOfInv /\ [Next]_vars => AsOfInv'
  BY AsOfStep
<1>3. AsOfInv => LogOrdered
  BY DEF AsOfInv
<1> QED
  BY <1>1, <1>2, <1>3, PTL DEF Spec

\* GetRunAsOf reports the parent_run_id the run had at the end of every settled
\* millisecond, whatever ran concurrently since, because the parent mutators read
\* `before` under the write lock.
THEOREM ParentReplayExact == Spec => []ParentAsOfExact
<1>1. Init => AsOfInv
  BY AsOfInit
<1>2. AsOfInv /\ [Next]_vars => AsOfInv'
  BY AsOfStep
<1>3. AsOfInv => ParentAsOfExact
  BY DEF AsOfInv
<1> QED
  BY <1>1, <1>2, <1>3, PTL DEF Spec
-----------------------------------------------------------------------------
(* The reverse loops.  The newer rows have the places 1 .. n of their order *)
(* (Places), so in each column the loop leaves the `before` of the least    *)
(* place that touches it (ReverseLoop), which is the first newer event.     *)

\* The columns that UpdateRun writes.
SameUpdated(x, y) == x.status = y.status /\ x.end = y.end /\ x.name = y.name

\* Undoing gives the row X when it gives each of its columns.
LEMMA UndoRowColumns ==
  ASSUME NEW cur \in Row, NEW X \in Row, NEW E
  PROVE  UndoRow(cur, E) = X <=> /\ SameUpdated(BeforeFirst(OfKind(E, "run_update"), cur), X)
                                 /\ BeforeFirst(OfKind(E, "run_lifecycle"), cur).stage = X.stage
                                 /\ BeforeFirst(OfKind(E, "run_parent"), cur).parent = X.parent
                                 /\ cur.start = X.start
<1> DEFINE u == BeforeFirst(OfKind(E, "run_update"), cur)
           l == BeforeFirst(OfKind(E, "run_lifecycle"), cur)
           q == BeforeFirst(OfKind(E, "run_parent"), cur)
<1>1. UndoRow(cur, E) = [cur EXCEPT !.status = u.status, !.end = u.end, !.name = u.name,
                                    !.stage = l.stage, !.parent = q.parent]
  BY DEF UndoRow
<1> HIDE DEF u, l, q
<1>2. cur = [status |-> cur.status, end |-> cur.end, name |-> cur.name, stage |-> cur.stage,
             parent |-> cur.parent, start |-> cur.start]
  BY DEF Row
<1>3. X = [status |-> X.status, end |-> X.end, name |-> X.name, stage |-> X.stage,
           parent |-> X.parent, start |-> X.start]
  BY DEF Row
<1>4. UndoRow(cur, E) = [status |-> u.status, end |-> u.end, name |-> u.name, stage |-> l.stage,
                         parent |-> q.parent, start |-> cur.start]
  BY <1>1, <1>2 DEF Row
<1> QED
  BY SMTT(60), <1>3, <1>4 DEF SameUpdated, u, l, q

\* Undoing gives the tags Y when it gives each of them.
LEMMA UndoTagsPoints ==
  ASSUME NEW cur, NEW Y \in TagsOf, NEW E
  PROVE  UndoTags(cur, E) = Y <=> \A k \in AllKeys : BeforeFirst(OnTag(E, k), cur[k]) = Y[k]
  BY DEF UndoTags, TagsOf

\* How many members come before x.
Place(S, R, x) == Cardinality({y \in S : <<y, x>> \in R})

\* In a total order the members have the places from 0 on, one each.
LEMMA Places ==
  ASSUME NEW S, IsFiniteSet(S), NEW R,
         \A x \in S : <<x, x>> \notin R,
         \A x, y, z \in S : <<x, y>> \in R /\ <<y, z>> \in R => <<x, z>> \in R,
         \A x, y \in S : x = y \/ <<x, y>> \in R \/ <<y, x>> \in R
  PROVE  /\ Cardinality(S) \in Nat
         /\ \A x \in S : Place(S, R, x) \in 0 .. Cardinality(S) - 1
         /\ \A x, y \in S : <<x, y>> \in R => Place(S, R, x) < Place(S, R, y)
         /\ \A i \in 0 .. Cardinality(S) - 1 : \E x \in S : Place(S, R, x) = i
<1> DEFINE P == [x \in S |-> {y \in S : <<y, x>> \in R}]
           f == [x \in S |-> Place(S, R, x)]
           n == Cardinality(S)
<1>1. \A x \in S : P[x] = {y \in S : <<y, x>> \in R} /\ P[x] \in SUBSET S /\ x \notin P[x]
  OBVIOUS
<1>1a. \A x \in S : f[x] = Place(S, R, x) /\ f[x] = Cardinality(P[x])
  BY DEF Place
<1> HIDE DEF P, f
<1>2. n \in Nat
  BY FS_CardinalityType
<1>3. ASSUME NEW x \in S PROVE f[x] \in 0 .. n - 1
  <2>1. IsFiniteSet(P[x]) /\ Cardinality(P[x]) <= n /\ (n = Cardinality(P[x]) => S = P[x])
    BY <1>1, FS_Subset
  <2>2. Cardinality(P[x]) \in Nat
    BY <2>1, FS_CardinalityType
  <2>3. P[x] # S
    BY <1>1
  <2> QED
    BY SMTT(60), <1>1a, <1>2, <2>1, <2>2, <2>3
<1>4. ASSUME NEW x \in S, NEW y \in S, <<x, y>> \in R PROVE f[x] < f[y]
  <2>1. ASSUME NEW z \in P[x] PROVE z \in P[y]
    <3>1. z \in S /\ <<z, x>> \in R
      BY SMTT(60), <1>1
    <3>2. <<z, y>> \in R
      BY <1>4, <3>1
    <3> QED
      BY SMTT(60), <1>1, <3>1, <3>2
  <2>2. x \in P[y] /\ x \notin P[x]
    BY SMTT(60), <1>1, <1>4
  <2>3. P[x] \in SUBSET P[y] /\ P[x] # P[y]
    BY <2>1, <2>2
  <2>4. IsFiniteSet(P[y]) /\ IsFiniteSet(P[x])
    BY <1>1, FS_Subset
  <2>5. Cardinality(P[x]) <= Cardinality(P[y]) /\ Cardinality(P[x]) # Cardinality(P[y])
    BY <2>3, <2>4, FS_Subset
  <2> QED
    BY SMTT(60), <1>1a, <1>2, <1>3, <2>5
<1>5. ASSUME NEW i \in 0 .. n - 1 PROVE \E x \in S : f[x] = i
  <2>1. f \in [S -> 0 .. n - 1]
    BY <1>3 DEF f
  <2>2. \A x, y \in S : f[x] = f[y] => x = y
    <3> SUFFICES ASSUME NEW x \in S, NEW y \in S, x # y PROVE f[x] # f[y]
      OBVIOUS
    <3>1. <<x, y>> \in R \/ <<y, x>> \in R
      OBVIOUS
    <3>2. f[x] < f[y] \/ f[y] < f[x]
      BY <1>4, <3>1
    <3>3. f[x] \in 0 .. n - 1 /\ f[y] \in 0 .. n - 1
      BY <1>3
    <3> QED
      BY SMTT(60), <1>2, <3>2, <3>3
  <2>3. f \in Injection(S, 0 .. n - 1)
    BY <2>1, <2>2 DEF Injection, IsInjective
  <2>4. n - 1 \in Int /\ IsFiniteSet(0 .. n - 1) /\ Cardinality(0 .. n - 1) = IF 0 > n - 1 THEN 0 ELSE n - 1 - 0 + 1
    <3>1. PICK m : m = n - 1
      OBVIOUS
    <3>2. m \in Int /\ 0 \in Int
      BY SMTT(60), <1>2, <3>1
    <3>3. IsFiniteSet(0 .. m) /\ Cardinality(0 .. m) = IF 0 > m THEN 0 ELSE m - 0 + 1
      BY <3>2, FS_Interval
    <3> QED
      BY <3>1, <3>2, <3>3
  <2>5. Cardinality(0 .. n - 1) = n
    BY SMTT(60), <1>2, <2>4
  <2>6. f \in Surjection(S, 0 .. n - 1)
    BY <2>3, <2>4, <2>5, FS_Injection
  <2> QED
    BY <2>6 DEF Surjection
<1> QED
  BY SMTT(60), <1>1a, <1>2, <1>3, <1>4, <1>5

\* newer[1], ..., newer[n] are the rows of E, from the first to the last.
LEMMA NthFacts ==
  ASSUME NEW E, IsFiniteSet(E), Ordered(E)
  PROVE  /\ Cardinality(E) \in Nat
         /\ \A i \in 1 .. Cardinality(E) : Nth(E, i) \in E
         /\ \A x \in E : \E i \in 1 .. Cardinality(E) : x = Nth(E, i)
         /\ \A i, j \in 1 .. Cardinality(E) : i < j => Older(Nth(E, i), Nth(E, j))
<1> DEFINE R == {z \in E \X E : Older(z[1], z[2])}
           n == Cardinality(E)
<1>1. \A x, y \in E : <<x, y>> \in R <=> Older(x, y)
  OBVIOUS
<1>2. \A x, y \in E : /\ x.id \in Nat /\ x.ts \in Nat /\ (x.id = y.id => x = y)
  BY DEF Ordered
<1>3. \A x \in E : Place(E, R, x) = Cardinality({y \in E : Older(y, x)})
  <2> TAKE x \in E
  <2>1. {y \in E : <<y, x>> \in R} = {y \in E : Older(y, x)}
    BY <1>1
  <2> QED
    BY <2>1 DEF Place
<1> HIDE DEF R
<1>4. \A x \in E : <<x, x>> \notin R
  BY SMTT(60), <1>1, <1>2 DEF Older
<1>5. \A x, y, z \in E : <<x, y>> \in R /\ <<y, z>> \in R => <<x, z>> \in R
  <2> TAKE x, y, z \in E
  <2>1. x.id \in Nat /\ x.ts \in Nat /\ y.id \in Nat /\ y.ts \in Nat /\ z.id \in Nat /\ z.ts \in Nat
    BY <1>2
  <2>2. Older(x, y) /\ Older(y, z) => Older(x, z)
    BY SMTT(60), <2>1 DEF Older
  <2> QED
    BY <1>1, <2>2
<1>6. \A x, y \in E : x = y \/ <<x, y>> \in R \/ <<y, x>> \in R
  <2> TAKE x, y \in E
  <2>1. x.id \in Nat /\ x.ts \in Nat /\ y.id \in Nat /\ y.ts \in Nat /\ (x.id = y.id => x = y)
    BY <1>2
  <2>2. x = y \/ Older(x, y) \/ Older(y, x)
    BY SMTT(60), <2>1 DEF Older
  <2> QED
    BY <1>1, <2>2
<1>7. /\ n \in Nat
      /\ \A x \in E : Place(E, R, x) \in 0 .. n - 1
      /\ \A x, y \in E : <<x, y>> \in R => Place(E, R, x) < Place(E, R, y)
      /\ \A i \in 0 .. n - 1 : \E x \in E : Place(E, R, x) = i
  BY <1>4, <1>5, <1>6, Places
<1> HIDE DEF n
<1>8. ASSUME NEW i \in 1 .. n PROVE Nth(E, i) \in E /\ Place(E, R, Nth(E, i)) = i - 1
  <2>1. i - 1 \in 0 .. n - 1
    BY SMTT(60), <1>7
  <2>2. \E x \in E : Cardinality({y \in E : Older(y, x)}) = i - 1
    BY <1>3, <1>7, <2>1
  <2>3. Nth(E, i) \in E /\ Cardinality({y \in E : Older(y, Nth(E, i))}) = i - 1
    BY <2>2 DEF Nth
  <2> QED
    BY <1>3, <2>3
<1>9. ASSUME NEW x \in E PROVE \E i \in 1 .. n : x = Nth(E, i)
  <2>1. PICK i : i = Place(E, R, x) + 1
    OBVIOUS
  <2>2. i \in 1 .. n /\ i - 1 = Place(E, R, x)
    BY SMTT(60), <1>7, <2>1
  <2>3. Nth(E, i) \in E /\ Place(E, R, Nth(E, i)) = Place(E, R, x)
    BY <1>8, <2>2
  <2>4. ~(Place(E, R, x) < Place(E, R, x))
    BY SMTT(60), <1>7
  <2>5. x = Nth(E, i)
    BY <1>6, <1>7, <2>3, <2>4
  <2> QED
    BY <2>2, <2>5
<1>10. ASSUME NEW i \in 1 .. n, NEW j \in 1 .. n, i < j PROVE Older(Nth(E, i), Nth(E, j))
  <2>1. Nth(E, i) \in E /\ Nth(E, j) \in E
    BY <1>8
  <2>2. PICK a, b : a = Place(E, R, Nth(E, i)) /\ b = Place(E, R, Nth(E, j))
    OBVIOUS
  <2>3. a = i - 1 /\ b = j - 1
    BY <1>8, <2>2
  <2>4. a # b /\ ~(b < a)
    BY SMTT(60), <1>7, <1>10, <2>3
  <2>5. Nth(E, i) # Nth(E, j) /\ <<Nth(E, j), Nth(E, i)>> \notin R
    BY <1>7, <2>1, <2>2, <2>4
  <2> QED
    BY <1>1, <1>6, <2>1, <2>5
<1> QED
  BY <1>7, <1>8, <1>9, <1>10 DEF n

\* A column c that the reverse loop sets to w[e] at each row e of Sub ends with the w of the first one.
LEMMA LoopEnds ==
  ASSUME NEW E, IsFiniteSet(E), Ordered(E), NEW Sub \in SUBSET E, NEW c, NEW w,
         \A i \in 1 .. Cardinality(E) :
           c[i] = IF Nth(E, Cardinality(E) + 1 - i) \in Sub THEN w[Nth(E, Cardinality(E) + 1 - i)] ELSE c[i - 1]
  PROVE  c[Cardinality(E)] = IF Sub = {} THEN c[0] ELSE w[FirstOf(Sub)]
<1> DEFINE Hit == {i \in 1 .. Cardinality(E) : Nth(E, i) \in Sub}
           v == [i \in 1 .. Cardinality(E) |-> w[Nth(E, i)]]
<1>1. PICK n : n = Cardinality(E)
  OBVIOUS
<1>2. /\ n \in Nat
      /\ \A x \in E : \E i \in 1 .. n : x = Nth(E, i)
      /\ \A i, j \in 1 .. n : i < j => Older(Nth(E, i), Nth(E, j))
  BY <1>1, NthFacts
<1>3. \A i \in 1 .. n : (i \in Hit <=> Nth(E, i) \in Sub) /\ v[i] = w[Nth(E, i)]
  BY <1>1
<1>4. Hit \in SUBSET (1 .. n)
  BY <1>1
<1> HIDE DEF Hit, v
<1>5. ASSUME NEW i \in 1 .. n PROVE c[i] = IF n + 1 - i \in Hit THEN v[n + 1 - i] ELSE c[i - 1]
  <2>1. n + 1 - i \in 1 .. n
    BY SMTT(60), <1>2
  <2>2. c[i] = IF Nth(E, n + 1 - i) \in Sub THEN w[Nth(E, n + 1 - i)] ELSE c[i - 1]
    BY <1>1
  <2> QED
    BY <1>3, <2>1, <2>2
<1>5a. CountsDown(n, Hit, c, v)
  BY <1>2, <1>4, <1>5 DEF CountsDown
<1>6. /\ Hit = {} => c[n] = c[0]
      /\ \A m \in Hit : (\A j \in Hit : m <= j) => c[n] = v[m]
  BY SMTT(60), <1>5a, ReverseLoop
<1>7. CASE Sub = {}
  <2>1. Hit = {}
    BY <1>3, <1>4, <1>7
  <2> QED
    BY <1>1, <1>6, <1>7, <2>1
<1>8. CASE Sub # {}
  <2>1. Ordered(Sub)
    BY DEF Ordered
  <2>2. /\ FirstOf(Sub) \in Sub
        /\ \A f \in Sub : FirstOf(Sub).ts < f.ts \/ (FirstOf(Sub).ts = f.ts /\ FirstOf(Sub).id <= f.id)
    BY <1>8, <2>1, FirstExists
  <2>3. PICK m \in 1 .. n : FirstOf(Sub) = Nth(E, m)
    BY <1>2, <2>2
  <2>4. m \in Hit /\ v[m] = w[FirstOf(Sub)]
    BY <1>3, <2>2, <2>3
  <2>5. ASSUME NEW j \in Hit PROVE m <= j
    <3>1. j \in 1 .. n /\ Nth(E, j) \in Sub
      BY <1>3, <1>4
    <3>2. PICK x, y : x = Nth(E, m) /\ y = Nth(E, j)
      OBVIOUS
    <3>3. x \in Sub /\ y \in Sub /\ (x.ts < y.ts \/ (x.ts = y.ts /\ x.id <= y.id))
      BY <2>2, <2>3, <3>1, <3>2
    <3>4. x.ts \in Nat /\ y.ts \in Nat /\ x.id \in Nat /\ y.id \in Nat
      BY <2>1, <3>3 DEF Ordered
    <3>5. ~Older(y, x)
      BY SMTT(60), <3>3, <3>4 DEF Older
    <3>6. ~(j < m)
      BY <1>2, <3>1, <3>2, <3>5
    <3> QED
      BY SMTT(60), <1>2, <3>1, <3>6
  <2>6. c[n] = v[m]
    BY <1>6, <2>4, <2>5
  <2> QED
    BY <1>1, <1>8, <2>4, <2>6
<1> QED
  BY <1>7, <1>8

\* There are finitely many rows in the event table: ids are unique and below nextId.
LEMMA EventsFinite ==
  ASSUME TypeOK, LogOrdered, NEW E \in SUBSET events
  PROVE  IsFiniteSet(E) /\ Ordered(E) /\ \A e \in E : EventOK(e)
<1>1. \A e \in events : EventOK(e)
  BY DEF TypeOK, EventOK
<1>2. \A e \in events : e.id \in Nat /\ e.ts \in Nat
  BY SMTT(60), <1>1, ConstantTypes DEF EventOK, RunEventRows, TagEventRows
<1>3. nextId \in Nat /\ \A e, f \in events : (e.id = f.id => e = f) /\ (e.id < f.id => e.ts <= f.ts)
  BY DEF TypeOK, LogOrdered
<1>4. Ordered(E)
  BY <1>2, <1>3 DEF Ordered
<1> DEFINE ids == {e.id : e \in E}
           f == [i \in ids |-> CHOOSE e \in E : e.id = i]
<1>5. ids \in SUBSET (0 .. nextId)
  BY SMTT(60), <1>2, <1>3 DEF LogOrdered
<1>6. \A i \in ids : f[i] \in E /\ f[i].id = i
  OBVIOUS
<1>7. \A e \in E : e.id \in ids /\ e = f[e.id]
  <2> TAKE e \in E
  <2>1. e.id \in ids
    OBVIOUS
  <2>2. f[e.id] \in E /\ f[e.id].id = e.id
    BY <1>6, <2>1
  <2> QED
    BY <1>3, <2>1, <2>2
<1>8. f \in Surjection(ids, E)
  <2>1. f \in [ids -> E]
    BY <1>6
  <2> HIDE DEF f, ids
  <2> QED
    BY <1>7, <2>1 DEF Surjection
<1> HIDE DEF f, ids
<1>9. IsFiniteSet(0 .. nextId)
  BY SMTT(60), <1>3, FS_Interval
<1>10. IsFiniteSet(ids)
  BY <1>5, <1>9, FS_Subset
<1>11. IsFiniteSet(E)
  BY <1>8, <1>10, FS_Surjection
<1> QED
  BY <1>1, <1>4, <1>11

\* What applyUndo does to the columns of a row.
LEMMA ApplyUndoIs ==
  ASSUME NEW c \in Row, NEW e, EventOK(e)
  PROVE  /\ ApplyUndo(c, e) \in Row /\ ApplyUndo(c, e).start = c.start
         /\ ApplyUndo(c, e).status = IF e.kind = "run_update" THEN e.before.status ELSE c.status
         /\ ApplyUndo(c, e).end = IF e.kind = "run_update" THEN e.before.end ELSE c.end
         /\ ApplyUndo(c, e).name = IF e.kind = "run_update" THEN e.before.name ELSE c.name
         /\ ApplyUndo(c, e).stage = IF e.kind = "run_lifecycle" THEN e.before.stage ELSE c.stage
         /\ ApplyUndo(c, e).parent = IF e.kind = "run_parent" THEN e.before.parent ELSE c.parent
<1>1. e.kind \in {"run_update", "run_lifecycle", "run_parent"} => e.before \in Row
  BY DEF EventOK, RunEventRows, TagEventRows
<1>2. CASE e.kind = "run_update"
  <2>1. ApplyUndo(c, e) = [c EXCEPT !.status = e.before.status, !.end = e.before.end, !.name = e.before.name]
    BY <1>2 DEF ApplyUndo
  <2>2. PICK x, y, z : x = e.before.status /\ y = e.before.end /\ z = e.before.name
    OBVIOUS
  <2>3. PICK d : d = [c EXCEPT !.status = x, !.end = y, !.name = z]
    OBVIOUS
  <2>4. c = [status |-> c.status, end |-> c.end, name |-> c.name, stage |-> c.stage,
             parent |-> c.parent, start |-> c.start]
    BY DEF Row
  <2>5. d = [status |-> x, end |-> y, name |-> z, stage |-> c.stage, parent |-> c.parent, start |-> c.start]
    BY <2>3, <2>4
  <2>6. d \in Row
    BY <1>1, <1>2, <2>2, <2>5 DEF Row
  <2>7. /\ d.status = x /\ d.end = y /\ d.name = z
        /\ d.stage = c.stage /\ d.parent = c.parent /\ d.start = c.start
    BY <2>5
  <2>8. ApplyUndo(c, e) = d
    BY <2>1, <2>2, <2>3
  <2> QED
    BY <1>2, <2>2, <2>6, <2>7, <2>8
<1>3. CASE e.kind = "run_lifecycle"
  <2>1. ApplyUndo(c, e) = [c EXCEPT !.stage = e.before.stage]
    BY <1>3 DEF ApplyUndo
  <2> QED
    BY <1>1, <1>3, <2>1 DEF Row
<1>4. CASE e.kind = "run_parent"
  <2>1. ApplyUndo(c, e) = [c EXCEPT !.parent = e.before.parent]
    BY <1>4 DEF ApplyUndo
  <2> QED
    BY <1>1, <1>4, <2>1 DEF Row
<1>5. CASE e.kind \notin {"run_update", "run_lifecycle", "run_parent"}
  <2>1. ApplyUndo(c, e) = c
    BY <1>5 DEF ApplyUndo
  <2> QED
    BY <1>5, <2>1
<1> QED
  BY <1>2, <1>3, <1>4, <1>5

\* What applyTagUndo does to the tags.
LEMMA ApplyTagUndoIs ==
  ASSUME NEW c \in TagsOf, NEW e, EventOK(e), e.kind = "tag_delete" => e.before # Absent
  PROVE  /\ ApplyTagUndo(c, e) \in TagsOf
         /\ \A k \in AllKeys :
              ApplyTagUndo(c, e)[k] = IF e.kind \in {"tag_set", "tag_delete"} /\ e.key = k THEN e.before ELSE c[k]
<1>1. e.kind \in {"tag_set", "tag_delete"} => e.key \in AllKeys /\ e.before \in TagVals \cup {Absent}
  BY DEF EventOK, RunEventRows, TagEventRows
<1>2. CASE e.kind \in {"tag_set", "tag_delete"}
  <2>1. ApplyTagUndo(c, e) = [c EXCEPT ![e.key] = e.before]
    BY <1>2 DEF ApplyTagUndo
  <2> QED
    BY <1>1, <1>2, <2>1 DEF TagsOf
<1>3. CASE e.kind \notin {"tag_set", "tag_delete"}
  <2>1. ApplyTagUndo(c, e) = c
    BY <1>3 DEF ApplyTagUndo
  <2> QED
    BY <1>3, <2>1
<1> QED
  BY <1>2, <1>3

\* newer[n], ..., newer[1], the rows in the order of the loops.
Backwards(E) == [i \in 1 .. Cardinality(E) |-> Nth(E, Cardinality(E) + 1 - i)]

LEMMA BackwardsIs ==
  ASSUME NEW E, IsFiniteSet(E), Ordered(E)
  PROVE  /\ Cardinality(E) \in Nat
         /\ \A i \in 1 .. Cardinality(E) : Backwards(E)[i] = Nth(E, Cardinality(E) + 1 - i) /\ Backwards(E)[i] \in E
<1>1. Cardinality(E) \in Nat /\ \A i \in 1 .. Cardinality(E) : Nth(E, i) \in E
  BY NthFacts
<1>2. \A i \in 1 .. Cardinality(E) : Cardinality(E) + 1 - i \in 1 .. Cardinality(E)
  BY SMTT(60), <1>1
<1>3. \A i \in 1 .. Cardinality(E) : Backwards(E)[i] = Nth(E, Cardinality(E) + 1 - i)
  BY DEF Backwards
<1> QED
  BY <1>1, <1>2, <1>3

\* The rows the loop of applyUndo goes through, and where it ends.
LEMMA RowLoop ==
  ASSUME NEW cur \in Row, NEW E, IsFiniteSet(E), Ordered(E), \A e \in E : EventOK(e)
  PROVE  \E g : /\ g[0] = cur /\ \A i \in 0 .. Cardinality(E) : g[i] \in Row
                /\ \A i \in 1 .. Cardinality(E) : g[i] = ApplyUndo(g[i - 1], Backwards(E)[i])
                /\ UndoRowLoop(cur, E) = g[Cardinality(E)]
<1> DEFINE step == [x \in Row \X E |-> ApplyUndo(x[1], x[2])]
<1>1. \A a \in Row, b \in E : ApplyUndo(a, b) \in Row
  BY ApplyUndoIs
<1>2. step \in [Row \X E -> Row] /\ \A a \in Row, b \in E : step[<<a, b>>] = ApplyUndo(a, b)
  BY <1>1
<1> HIDE DEF step
<1>3. PICK n : n = Cardinality(E)
  OBVIOUS
<1>4. n \in Nat /\ \A i \in 1 .. n : Backwards(E)[i] = Nth(E, n + 1 - i) /\ Backwards(E)[i] \in E
  BY <1>3, BackwardsIs
<1>5. PICK f : LoopStates(Row, step, cur, Backwards(E), n, f)
  BY <1>2, <1>4, LoopRuns
<1>6. f \in [0 .. n -> Row] /\ f[0] = cur /\ \A i \in 1 .. n : f[i] = step[<<f[i - 1], Backwards(E)[i]>>]
  BY <1>5 DEF LoopStates
<1>7. \A i \in 0 .. n : f[i] \in Row
  BY <1>6
<1>8. \A i \in 1 .. n : i \in 0 .. n /\ i - 1 \in 0 .. n /\ i # 0
  BY SMTT(60), <1>4
<1>9. \A i \in 1 .. n : f[i] = ApplyUndo(f[i - 1], Backwards(E)[i])
  BY <1>2, <1>4, <1>6, <1>7, <1>8
<1> DEFINE undone[i \in 0 .. n] == IF i = 0 THEN cur ELSE ApplyUndo(undone[i - 1], Nth(E, n + 1 - i))
<1>10. UndoRowLoop(cur, E) = undone[n]
  BY <1>3 DEF UndoRowLoop, undone
<1>11. f = [i \in 0 .. n |-> IF i = 0 THEN cur ELSE ApplyUndo(f[i - 1], Nth(E, n + 1 - i))]
  <2>1. \A i \in 0 .. n : i # 0 => i \in 1 .. n
    BY SMTT(60), <1>4
  <2>2. \A i \in 0 .. n : f[i] = IF i = 0 THEN cur ELSE ApplyUndo(f[i - 1], Nth(E, n + 1 - i))
    BY <1>4, <1>6, <1>9, <2>1
  <2> QED
    BY <1>6, <2>2
<1>12. undone = [i \in 0 .. n |-> IF i = 0 THEN cur ELSE ApplyUndo(undone[i - 1], Nth(E, n + 1 - i))]
  BY <1>11 DEF undone
<1> HIDE DEF undone
<1> DEFINE P == {i \in 0 .. n : undone[i] = f[i]}
<1>13. 0 \in P
  <2>1. 0 \in 0 .. n
    BY SMTT(60), <1>4
  <2> QED
    BY <1>6, <1>12, <2>1
<1>14. ASSUME NEW i \in 0 .. n - 1, i \in P PROVE i + 1 \in P
  <2>1. i + 1 \in 1 .. n /\ i + 1 \in 0 .. n /\ (i + 1) - 1 = i /\ i + 1 # 0
    BY SMTT(60), <1>4
  <2>2. PICK j : j = i + 1
    OBVIOUS
  <2>3. undone[j] = ApplyUndo(undone[i], Nth(E, n + 1 - j))
    BY <1>12, <2>1, <2>2
  <2>4. f[j] = ApplyUndo(f[i], Nth(E, n + 1 - j))
    BY <1>4, <1>9, <2>1, <2>2
  <2> QED
    BY <1>14, <2>1, <2>2, <2>3, <2>4
<1> HIDE DEF P
<1>15. n \in P
  <2>1. n \in 0 .. n
    BY SMTT(60), <1>4
  <2> QED
    BY <1>4, <1>13, <1>14, <2>1, UpTo
<1>16. UndoRowLoop(cur, E) = f[n]
  BY <1>10, <1>15 DEF P
<1> QED
  BY <1>3, <1>6, <1>7, <1>9, <1>16

\* The same for the tags and the loop of applyTagUndo.
LEMMA TagsLoop ==
  ASSUME NEW cur \in TagsOf, NEW E, IsFiniteSet(E), Ordered(E),
         \A e \in E : EventOK(e) /\ (e.kind = "tag_delete" => e.before # Absent)
  PROVE  \E g : /\ g[0] = cur /\ \A i \in 0 .. Cardinality(E) : g[i] \in TagsOf
                /\ \A i \in 1 .. Cardinality(E) : g[i] = ApplyTagUndo(g[i - 1], Backwards(E)[i])
                /\ UndoTagsLoop(cur, E) = g[Cardinality(E)]
<1> DEFINE step == [x \in TagsOf \X E |-> ApplyTagUndo(x[1], x[2])]
<1>1. \A a \in TagsOf, b \in E : ApplyTagUndo(a, b) \in TagsOf
  BY ApplyTagUndoIs
<1>2. step \in [TagsOf \X E -> TagsOf] /\ \A a \in TagsOf, b \in E : step[<<a, b>>] = ApplyTagUndo(a, b)
  BY <1>1
<1> HIDE DEF step
<1>3. PICK n : n = Cardinality(E)
  OBVIOUS
<1>4. n \in Nat /\ \A i \in 1 .. n : Backwards(E)[i] = Nth(E, n + 1 - i) /\ Backwards(E)[i] \in E
  BY <1>3, BackwardsIs
<1>5. PICK f : LoopStates(TagsOf, step, cur, Backwards(E), n, f)
  BY <1>2, <1>4, LoopRuns
<1>6. f \in [0 .. n -> TagsOf] /\ f[0] = cur /\ \A i \in 1 .. n : f[i] = step[<<f[i - 1], Backwards(E)[i]>>]
  BY <1>5 DEF LoopStates
<1>7. \A i \in 0 .. n : f[i] \in TagsOf
  BY <1>6
<1>8. \A i \in 1 .. n : i \in 0 .. n /\ i - 1 \in 0 .. n /\ i # 0
  BY SMTT(60), <1>4
<1>9. \A i \in 1 .. n : f[i] = ApplyTagUndo(f[i - 1], Backwards(E)[i])
  BY <1>2, <1>4, <1>6, <1>7, <1>8
<1> DEFINE undone[i \in 0 .. n] == IF i = 0 THEN cur ELSE ApplyTagUndo(undone[i - 1], Nth(E, n + 1 - i))
<1>10. UndoTagsLoop(cur, E) = undone[n]
  BY <1>3 DEF UndoTagsLoop, undone
<1>11. f = [i \in 0 .. n |-> IF i = 0 THEN cur ELSE ApplyTagUndo(f[i - 1], Nth(E, n + 1 - i))]
  <2>1. \A i \in 0 .. n : i # 0 => i \in 1 .. n
    BY SMTT(60), <1>4
  <2>2. \A i \in 0 .. n : f[i] = IF i = 0 THEN cur ELSE ApplyTagUndo(f[i - 1], Nth(E, n + 1 - i))
    BY <1>4, <1>6, <1>9, <2>1
  <2> QED
    BY <1>6, <2>2
<1>12. undone = [i \in 0 .. n |-> IF i = 0 THEN cur ELSE ApplyTagUndo(undone[i - 1], Nth(E, n + 1 - i))]
  BY <1>11 DEF undone
<1> HIDE DEF undone
<1> DEFINE P == {i \in 0 .. n : undone[i] = f[i]}
<1>13. 0 \in P
  <2>1. 0 \in 0 .. n
    BY SMTT(60), <1>4
  <2> QED
    BY <1>6, <1>12, <2>1
<1>14. ASSUME NEW i \in 0 .. n - 1, i \in P PROVE i + 1 \in P
  <2>1. i + 1 \in 1 .. n /\ i + 1 \in 0 .. n /\ (i + 1) - 1 = i /\ i + 1 # 0
    BY SMTT(60), <1>4
  <2>2. PICK j : j = i + 1
    OBVIOUS
  <2>3. undone[j] = ApplyTagUndo(undone[i], Nth(E, n + 1 - j))
    BY <1>12, <2>1, <2>2
  <2>4. f[j] = ApplyTagUndo(f[i], Nth(E, n + 1 - j))
    BY <1>4, <1>9, <2>1, <2>2
  <2> QED
    BY <1>14, <2>1, <2>2, <2>3, <2>4
<1> HIDE DEF P
<1>15. n \in P
  <2>1. n \in 0 .. n
    BY SMTT(60), <1>4
  <2> QED
    BY <1>4, <1>13, <1>14, <2>1, UpTo
<1>16. UndoTagsLoop(cur, E) = f[n]
  BY <1>10, <1>15 DEF P
<1> QED
  BY <1>3, <1>6, <1>7, <1>9, <1>16

\* The loop of applyUndo leaves in each column what UndoRow says.
LEMMA RowReplay ==
  ASSUME NEW cur \in Row, NEW E, IsFiniteSet(E), Ordered(E), \A e \in E : EventOK(e)
  PROVE  UndoRowLoop(cur, E) = UndoRow(cur, E)
<1>1. PICK n : n = Cardinality(E)
  OBVIOUS
<1>2. PICK g : /\ g[0] = cur /\ \A i \in 0 .. n : g[i] \in Row
               /\ \A i \in 1 .. n : g[i] = ApplyUndo(g[i - 1], Backwards(E)[i])
               /\ UndoRowLoop(cur, E) = g[n]
  BY SMTT(60), <1>1, RowLoop
<1>3. n \in Nat /\ \A i \in 1 .. n : Backwards(E)[i] = Nth(E, n + 1 - i) /\ Backwards(E)[i] \in E
  BY <1>1, BackwardsIs
<1>4. n \in 0 .. n /\ 0 \in 0 .. n /\ \A i \in 1 .. n : i \in 0 .. n /\ i - 1 \in 0 .. n
  BY SMTT(60), <1>3
\* Each step, column by column.
<1>5. ASSUME NEW i \in 1 .. n, NEW e, e = Nth(E, n + 1 - i)
      PROVE  /\ g[i].start = g[i - 1].start
             /\ g[i].status = IF e.kind = "run_update" THEN e.before.status ELSE g[i - 1].status
             /\ g[i].end = IF e.kind = "run_update" THEN e.before.end ELSE g[i - 1].end
             /\ g[i].name = IF e.kind = "run_update" THEN e.before.name ELSE g[i - 1].name
             /\ g[i].stage = IF e.kind = "run_lifecycle" THEN e.before.stage ELSE g[i - 1].stage
             /\ g[i].parent = IF e.kind = "run_parent" THEN e.before.parent ELSE g[i - 1].parent
  <2>1. g[i - 1] \in Row /\ e \in E /\ EventOK(e)
    BY <1>2, <1>3, <1>4, <1>5
  <2>2. g[i] = ApplyUndo(g[i - 1], e)
    BY <1>2, <1>3, <1>5
  <2> QED
    BY SMTT(60), <2>1, <2>2, ApplyUndoIs
<1>6. \A kind : \A e \in E : e \in OfKind(E, kind) <=> e.kind = kind
  BY DEF OfKind
<1>7. \A kind : OfKind(E, kind) \in SUBSET E
  BY DEF OfKind
<1>8. \A kind : OfKind(E, kind) # {} => FirstOf(OfKind(E, kind)) \in E
  <2> TAKE kind
  <2>1. Ordered(OfKind(E, kind))
    BY <1>7 DEF Ordered
  <2> QED
    BY <1>7, <2>1, FirstExists
\* A column that a kind of event restores.
<1>9. ASSUME NEW kind, NEW c, NEW w,
             \A i \in 1 .. n : c[i] = IF Nth(E, n + 1 - i).kind = kind THEN w[Nth(E, n + 1 - i)] ELSE c[i - 1]
      PROVE  c[n] = IF OfKind(E, kind) = {} THEN c[0] ELSE w[FirstOf(OfKind(E, kind))]
  <2>1. \A i \in 1 .. n : c[i] = IF Nth(E, n + 1 - i) \in OfKind(E, kind) THEN w[Nth(E, n + 1 - i)] ELSE c[i - 1]
    <3> TAKE i \in 1 .. n
    <3>1. Nth(E, n + 1 - i) \in E
      BY <1>3
    <3>2. Nth(E, n + 1 - i) \in OfKind(E, kind) <=> Nth(E, n + 1 - i).kind = kind
      BY <1>6, <3>1
    <3> QED
      BY <1>9, <3>2
  <2>2. PICK Sub : Sub = OfKind(E, kind)
    OBVIOUS
  <2>3. /\ Sub \in SUBSET E
        /\ \A i \in 1 .. Cardinality(E) :
             c[i] = IF Nth(E, Cardinality(E) + 1 - i) \in Sub THEN w[Nth(E, Cardinality(E) + 1 - i)] ELSE c[i - 1]
    BY <1>1, <1>7, <2>1, <2>2
  <2>4. c[Cardinality(E)] = IF Sub = {} THEN c[0] ELSE w[FirstOf(Sub)]
    BY SMTT(60), <2>3, LoopEnds
  <2> QED
    BY <1>1, <2>2, <2>4
<1>10. g[n].status = BeforeFirst(OfKind(E, "run_update"), cur).status
  <2> DEFINE c == [i \in 0 .. n |-> g[i].status]
             w == [e \in E |-> e.before.status]
  <2>1. \A i \in 1 .. n : c[i] = IF Nth(E, n + 1 - i).kind = "run_update" THEN w[Nth(E, n + 1 - i)] ELSE c[i - 1]
    BY <1>3, <1>4, <1>5
  <2>2. c[n] = g[n].status /\ c[0] = cur.status /\ \A e \in E : w[e] = e.before.status
    BY <1>2, <1>4
  <2> HIDE DEF c, w
  <2>3. c[n] = IF OfKind(E, "run_update") = {} THEN c[0] ELSE w[FirstOf(OfKind(E, "run_update"))]
    BY <1>9, <2>1
  <2> QED
    BY <1>8, <2>2, <2>3 DEF BeforeFirst
<1>11. g[n].end = BeforeFirst(OfKind(E, "run_update"), cur).end
  <2> DEFINE c == [i \in 0 .. n |-> g[i].end]
             w == [e \in E |-> e.before.end]
  <2>1. \A i \in 1 .. n : c[i] = IF Nth(E, n + 1 - i).kind = "run_update" THEN w[Nth(E, n + 1 - i)] ELSE c[i - 1]
    BY <1>3, <1>4, <1>5
  <2>2. c[n] = g[n].end /\ c[0] = cur.end /\ \A e \in E : w[e] = e.before.end
    BY <1>2, <1>4
  <2> HIDE DEF c, w
  <2>3. c[n] = IF OfKind(E, "run_update") = {} THEN c[0] ELSE w[FirstOf(OfKind(E, "run_update"))]
    BY <1>9, <2>1
  <2> QED
    BY <1>8, <2>2, <2>3 DEF BeforeFirst
<1>12. g[n].name = BeforeFirst(OfKind(E, "run_update"), cur).name
  <2> DEFINE c == [i \in 0 .. n |-> g[i].name]
             w == [e \in E |-> e.before.name]
  <2>1. \A i \in 1 .. n : c[i] = IF Nth(E, n + 1 - i).kind = "run_update" THEN w[Nth(E, n + 1 - i)] ELSE c[i - 1]
    BY <1>3, <1>4, <1>5
  <2>2. c[n] = g[n].name /\ c[0] = cur.name /\ \A e \in E : w[e] = e.before.name
    BY <1>2, <1>4
  <2> HIDE DEF c, w
  <2>3. c[n] = IF OfKind(E, "run_update") = {} THEN c[0] ELSE w[FirstOf(OfKind(E, "run_update"))]
    BY <1>9, <2>1
  <2> QED
    BY <1>8, <2>2, <2>3 DEF BeforeFirst
<1>13. g[n].stage = BeforeFirst(OfKind(E, "run_lifecycle"), cur).stage
  <2> DEFINE c == [i \in 0 .. n |-> g[i].stage]
             w == [e \in E |-> e.before.stage]
  <2>1. \A i \in 1 .. n : c[i] = IF Nth(E, n + 1 - i).kind = "run_lifecycle" THEN w[Nth(E, n + 1 - i)] ELSE c[i - 1]
    BY <1>3, <1>4, <1>5
  <2>2. c[n] = g[n].stage /\ c[0] = cur.stage /\ \A e \in E : w[e] = e.before.stage
    BY <1>2, <1>4
  <2> HIDE DEF c, w
  <2>3. c[n] = IF OfKind(E, "run_lifecycle") = {} THEN c[0] ELSE w[FirstOf(OfKind(E, "run_lifecycle"))]
    BY <1>9, <2>1
  <2> QED
    BY <1>8, <2>2, <2>3 DEF BeforeFirst
<1>14. g[n].parent = BeforeFirst(OfKind(E, "run_parent"), cur).parent
  <2> DEFINE c == [i \in 0 .. n |-> g[i].parent]
             w == [e \in E |-> e.before.parent]
  <2>1. \A i \in 1 .. n : c[i] = IF Nth(E, n + 1 - i).kind = "run_parent" THEN w[Nth(E, n + 1 - i)] ELSE c[i - 1]
    BY <1>3, <1>4, <1>5
  <2>2. c[n] = g[n].parent /\ c[0] = cur.parent /\ \A e \in E : w[e] = e.before.parent
    BY <1>2, <1>4
  <2> HIDE DEF c, w
  <2>3. c[n] = IF OfKind(E, "run_parent") = {} THEN c[0] ELSE w[FirstOf(OfKind(E, "run_parent"))]
    BY <1>9, <2>1
  <2> QED
    BY <1>8, <2>2, <2>3 DEF BeforeFirst
<1>15. g[n].start = cur.start
  <2>1. PICK none, w : none = {} /\ w = {}
    OBVIOUS
  <2> DEFINE c == [i \in 0 .. n |-> g[i].start]
  <2>2. c[n] = g[n].start /\ c[0] = cur.start
    BY <1>2, <1>4
  <2>3. \A i \in 1 .. n : c[i] = c[i - 1]
    BY <1>4, <1>5
  <2> HIDE DEF c
  <2>4. /\ none \in SUBSET E
        /\ \A i \in 1 .. Cardinality(E) :
             c[i] = IF Nth(E, Cardinality(E) + 1 - i) \in none THEN w[Nth(E, Cardinality(E) + 1 - i)] ELSE c[i - 1]
    BY <1>1, <2>1, <2>3
  <2>5. c[Cardinality(E)] = IF none = {} THEN c[0] ELSE w[FirstOf(none)]
    BY SMTT(60), <2>4, LoopEnds
  <2> QED
    BY <1>1, <2>1, <2>2, <2>5
<1>16. PICK X : X = g[n]
  OBVIOUS
<1>17. X \in Row /\ UndoRowLoop(cur, E) = X
  BY <1>2, <1>4, <1>16
<1>18. /\ SameUpdated(BeforeFirst(OfKind(E, "run_update"), cur), X)
       /\ BeforeFirst(OfKind(E, "run_lifecycle"), cur).stage = X.stage
       /\ BeforeFirst(OfKind(E, "run_parent"), cur).parent = X.parent
       /\ cur.start = X.start
  BY <1>10, <1>11, <1>12, <1>13, <1>14, <1>15, <1>16 DEF SameUpdated
<1>19. UndoRow(cur, E) = X
  BY <1>17, <1>18, UndoRowColumns
<1> QED
  BY <1>17, <1>19

\* The loop of applyTagUndo leaves in each tag what UndoTags says.
LEMMA TagsReplay ==
  ASSUME NEW cur \in TagsOf, NEW E, IsFiniteSet(E), Ordered(E),
         \A e \in E : EventOK(e) /\ (e.kind = "tag_delete" => e.before # Absent)
  PROVE  UndoTagsLoop(cur, E) = UndoTags(cur, E)
<1>1. PICK n : n = Cardinality(E)
  OBVIOUS
<1>2. PICK g : /\ g[0] = cur /\ \A i \in 0 .. n : g[i] \in TagsOf
               /\ \A i \in 1 .. n : g[i] = ApplyTagUndo(g[i - 1], Backwards(E)[i])
               /\ UndoTagsLoop(cur, E) = g[n]
  BY SMTT(60), <1>1, TagsLoop
<1>3. n \in Nat /\ \A i \in 1 .. n : Backwards(E)[i] = Nth(E, n + 1 - i) /\ Backwards(E)[i] \in E
  BY <1>1, BackwardsIs
<1>4. n \in 0 .. n /\ 0 \in 0 .. n /\ \A i \in 1 .. n : i \in 0 .. n /\ i - 1 \in 0 .. n
  BY SMTT(60), <1>3
<1>5. ASSUME NEW k \in AllKeys PROVE BeforeFirst(OnTag(E, k), cur[k]) = g[n][k]
  <2> DEFINE c == [i \in 0 .. n |-> g[i][k]]
             w == [e \in E |-> e.before]
  <2>1. PICK Sub : Sub = OnTag(E, k)
    OBVIOUS
  <2>2. Sub \in SUBSET E /\ \A e \in E : e \in Sub <=> e.kind \in {"tag_set", "tag_delete"} /\ e.key = k
    BY <2>1 DEF OnTag
  <2>3. ASSUME NEW i \in 1 .. n, NEW e, e = Nth(E, n + 1 - i)
        PROVE  g[i][k] = IF e \in Sub THEN e.before ELSE g[i - 1][k]
    <3>1. g[i - 1] \in TagsOf /\ e \in E /\ EventOK(e) /\ (e.kind = "tag_delete" => e.before # Absent)
      BY <1>2, <1>3, <1>4, <2>3
    <3>2. g[i] = ApplyTagUndo(g[i - 1], e)
      BY <1>2, <1>3, <2>3
    <3>3. g[i][k] = IF e.kind \in {"tag_set", "tag_delete"} /\ e.key = k THEN e.before ELSE g[i - 1][k]
      BY SMTT(60), <3>1, <3>2, ApplyTagUndoIs
    <3> QED
      BY <2>2, <3>1, <3>3
  <2>4. \A i \in 1 .. n : c[i] = IF Nth(E, n + 1 - i) \in Sub THEN w[Nth(E, n + 1 - i)] ELSE c[i - 1]
    BY <1>3, <1>4, <2>3
  <2>5. c[n] = g[n][k] /\ c[0] = cur[k] /\ \A e \in E : w[e] = e.before
    BY <1>2, <1>4
  <2> HIDE DEF c, w
  <2>6. c[n] = IF Sub = {} THEN c[0] ELSE w[FirstOf(Sub)]
    BY SMTT(60), <1>1, <2>2, <2>4, LoopEnds
  <2>7. Sub # {} => FirstOf(Sub) \in E
    <3>1. Ordered(Sub)
      BY <2>2 DEF Ordered
    <3> QED
      BY <2>2, <3>1, FirstExists
  <2> QED
    BY <2>1, <2>5, <2>6, <2>7 DEF BeforeFirst
<1>6. g[n] \in TagsOf
  BY <1>2, <1>4
<1>7. UndoTags(cur, E) = g[n]
  BY SMTT(60), <1>5, <1>6, UndoTagsPoints
<1> QED
  BY <1>2, <1>7

=============================================================================
