--------------------------- MODULE RegistryProofs ---------------------------
(***************************************************************************)
(* The registry for any names, tables, requests, goroutines and pool of    *)
(* connections: foreign keys hold although renames switch them off, no     *)
(* registration is lost, and a search paged to its end misses nothing.     *)
(***************************************************************************)
EXTENDS Registry, FiniteSetTheorems, TLAPS

USE ZenonT(60)

-----------------------------------------------------------------------------
(* Finite sets.                                                             *)

\* Finite sets stay finite.
LEMMA Finite ==
  ASSUME NEW S, IsFiniteSet(S), NEW X, NEW r
  PROVE  IsFiniteSet(S \cup {r}) /\ IsFiniteSet(S \ X) /\ IsFiniteSet((S \ X) \cup {r})
<1>1. IsFiniteSet(S \ X)
  BY FS_Subset, S \ X \in SUBSET S
<1> QED
  BY <1>1, FS_AddElement

\* The image of a finite set under a function on it.
LEMMA Image ==
  ASSUME NEW S, IsFiniteSet(S), NEW T, NEW f \in [S -> T], \A y \in T : \E x \in S : y = f[x]
  PROVE  IsFiniteSet(T)
<1>1. f \in Surjection(S, T)
  BY DEF Surjection
<1> QED
  BY <1>1, FS_Surjection

\* A function that maps no two members to one keeps their number.
LEMMA SameSize ==
  ASSUME NEW S, IsFiniteSet(S), NEW T, NEW f \in [S -> T], \A y \in T : \E x \in S : y = f[x],
         \A x, y \in S : f[x] = f[y] => x = y
  PROVE  IsFiniteSet(T) /\ Cardinality(T) = Cardinality(S)
<1>1. f \in Surjection(S, T)
  BY DEF Surjection
<1>2. f \in Injection(S, T)
  BY DEF Injection, IsInjective
<1> QED
  BY <1>1, <1>2, FS_Surjection

\* A non-empty set of naturals has a least member.
LEMMA LeastNat ==
  ASSUME NEW S \in SUBSET Nat, S # {}
  PROVE  \E m \in S : \A i \in S : m <= i
<1> DEFINE R == OpToRel(<, Nat)
<1>1. IsWellFoundedOn(R, Nat)
  BY NatLessThanWellFounded
<1>2. PICK m \in S : \A y \in S : ~(<<y, m>> \in R)
  <2> HIDE DEF R
  <2> QED
    BY <1>1, WFMin
<1>3. ASSUME NEW i \in S PROVE m <= i
  <2>1. ~(i < m)
    BY <1>2 DEF OpToRel
  <2> QED
    BY SMTT(60), <2>1
<1> QED
  BY <1>3

\* A strict order on a finite set has a maximal member: one with the most predecessors.
LEMMA Maximal ==
  ASSUME NEW S, IsFiniteSet(S), S # {}, NEW R,
         \A x \in S : <<x, x>> \notin R,
         \A x, y, z \in S : <<x, y>> \in R /\ <<y, z>> \in R => <<x, z>> \in R
  PROVE  \E m \in S : \A x \in S : <<m, x>> \notin R
<1> DEFINE P == [x \in S |-> {y \in S : <<y, x>> \in R}]
           D == {Cardinality(S) - Cardinality(P[x]) : x \in S}
<1>1. \A x \in S : P[x] = {y \in S : <<y, x>> \in R} /\ P[x] \in SUBSET S
  OBVIOUS
<1> HIDE DEF P
<1>2. \A x \in S : IsFiniteSet(P[x]) /\ Cardinality(P[x]) <= Cardinality(S)
  BY <1>1, FS_Subset
<1>3. Cardinality(S) \in Nat /\ \A x \in S : Cardinality(P[x]) \in Nat
  BY <1>2, FS_CardinalityType
<1>4. D \in SUBSET Nat /\ D # {}
  BY SMTT(60), <1>2, <1>3
<1>5. PICK d \in D : \A e \in D : d <= e
  <2> HIDE DEF D
  <2> QED
    BY <1>4, LeastNat
<1>6. PICK m \in S : d = Cardinality(S) - Cardinality(P[m])
  BY <1>5
<1>7. ASSUME NEW z \in S, <<m, z>> \in R PROVE FALSE
  <2>1. m \notin P[m] /\ P[m] \cup {m} \in SUBSET P[z]
    <3>1. m \notin P[m]
      <4>1. <<m, m>> \notin R
        OBVIOUS
      <4>2. P[m] = {y \in S : <<y, m>> \in R}
        BY <1>1
      <4> QED
        BY <4>1, <4>2
    <3>2. m \in P[z]
      BY SMTT(60), <1>1, <1>7
    <3>3. ASSUME NEW y \in P[m] PROVE y \in P[z]
      <4>1. y \in S /\ <<y, m>> \in R
        BY SMTT(60), <1>1
      <4>2. <<y, z>> \in R
        BY <1>7, <4>1
      <4> QED
        BY <1>1, <4>1, <4>2
    <3> QED
      BY <3>1, <3>2, <3>3
  <2>2. IsFiniteSet(P[m] \cup {m}) /\ Cardinality(P[m] \cup {m}) = Cardinality(P[m]) + 1
    BY <1>2, <2>1, FS_AddElement
  <2>3. Cardinality(P[m] \cup {m}) <= Cardinality(P[z])
    BY <1>2, <2>1, FS_Subset
  <2>4. d <= Cardinality(S) - Cardinality(P[z])
    BY SMTT(60), <1>5
  <2> QED
    BY SMTT(60), <1>3, <1>6, <2>2, <2>3, <2>4
<1> QED
  BY <1>7

-----------------------------------------------------------------------------


Whole(r) ==
  r = [pc |-> r.pc, call |-> r.call, ver |-> r.ver, tags |-> r.tags, tries |-> r.tries, conn |-> r.conn]

\* Inside RenameRegisteredModel, from the pragma to restoreForeignKeys.
Unguarded(r) == r.call.op = "renameModel" /\ r.pc \in {"tx", "reload", "restore"}

ReqInv ==
  /\ req = [p \in Procs |-> req[p]]
  /\ \A p \in Procs : Whole(req[p]) /\ (req[p].pc # "idle" => req[p].call \in Requests)

\* A connection has one holder, and lacks foreign keys only while an unguarded rename
\* holds it.
ConnInv ==
  /\ fk = [c \in Conns |-> fk[c]] /\ \A c \in Conns : fk[c] \in BOOLEAN
  /\ \A p \in Procs :
       /\ req[p].conn \in Conns \cup {NoConn}
       /\ req[p].pc = "insert" => req[p].conn \in Conns
  /\ \A p, q \in Procs : req[p].conn \in Conns /\ req[p].conn = req[q].conn => p = q
  /\ \A c \in Conns : ~fk[c] => \E p \in Procs : req[p].conn = c /\ Unguarded(req[p])

-----------------------------------------------------------------------------
(* Goroutines and their connections.                                        *)

\* A goroutine goes on with the connection it has, with none or with a free one; a
\* rename that is unguarded keeps its own.
LEMMA ReqMoves ==
  ASSUME ReqInv, ConnInv, NEW p \in Procs, NEW r, req' = [req EXCEPT ![p] = r], UNCHANGED fk,
         Whole(r), r.pc # "idle" => r.call \in Requests,
         r.conn \in {req[p].conn, NoConn} \cup Free, r.pc = "insert" => r.conn \in Conns,
         Unguarded(req[p]) => Unguarded(r) /\ r.conn = req[p].conn
  PROVE  ReqInv' /\ ConnInv'
<1>1. req'[p] = r /\ \A q \in Procs : q # p => req'[q] = req[q]
  BY DEF ReqInv
<1>2. ReqInv'
  BY <1>1 DEF ReqInv
<1>3. \A q \in Procs : q # p => req[q].conn \notin Free
  BY DEF Free
<1>4. \A q \in Procs : req'[q].conn \in Conns \cup {NoConn} /\ (req'[q].pc = "insert" => req'[q].conn \in Conns)
  BY <1>1 DEF ConnInv, Free
<1>5. ASSUME NEW a \in Procs, NEW b \in Procs, req'[a].conn \in Conns, req'[a].conn = req'[b].conn
      PROVE  a = b
  <2>1. \A q \in Procs : q # p => r.conn # req[q].conn \/ r.conn = NoConn
    BY SMTT(60), <1>3 DEF ConnInv
  <2>2. NoConn \notin Conns
    BY RegistryConstants
  <2> QED
    BY SMTT(60), <1>1, <1>5, <2>1, <2>2 DEF ConnInv
<1>6. ASSUME NEW c \in Conns, ~fk'[c]
      PROVE  \E q \in Procs : req'[q].conn = c /\ Unguarded(req'[q])
  <2>1. PICK q \in Procs : req[q].conn = c /\ Unguarded(req[q])
    BY <1>6 DEF ConnInv
  <2> QED
    BY <1>1, <2>1
<1> QED
  BY <1>2, <1>4, <1>5, <1>6 DEF ConnInv

\* Whoever is not unguarded runs its statements with foreign keys.
LEMMA Guarded ==
  ASSUME ConnInv
  PROVE  /\ \A c \in Free : fk[c] = TRUE
         /\ \A p \in Procs : req[p].conn \in Conns /\ ~Unguarded(req[p]) => fk[req[p].conn] = TRUE
<1>1. ASSUME NEW c \in Free PROVE fk[c] = TRUE
  <2>1. c \in Conns /\ \A p \in Procs : req[p].conn # c
    BY DEF Free
  <2> QED
    BY <2>1 DEF ConnInv
<1>2. ASSUME NEW p \in Procs, req[p].conn \in Conns, ~Unguarded(req[p]) PROVE fk[req[p].conn] = TRUE
  BY <1>2 DEF ConnInv
<1> QED
  BY <1>1, <1>2

\* A request that is over holds nothing.
LEMMA DoneMoves ==
  ASSUME ReqInv, ConnInv, NEW p \in Procs, Done(p), UNCHANGED fk, ~Unguarded(req[p])
  PROVE  ReqInv' /\ ConnInv'
<1> DEFINE r == IdleReq
<1>1. Whole(r) /\ r.pc = "idle" /\ r.conn = NoConn
  BY DEF IdleReq, Whole
<1>2. req' = [req EXCEPT ![p] = r]
  BY DEF Done
<1> HIDE DEF r
<1> QED
  BY <1>1, <1>2, ReqMoves

\* A step inside a request that keeps its connection.
LEMMA GotoMoves ==
  ASSUME ReqInv, ConnInv, NEW p \in Procs, NEW pc, Goto(p, pc), UNCHANGED fk,
         req[p].pc # "idle", pc # "insert", Unguarded(req[p]) => pc \in {"tx", "reload", "restore"}
  PROVE  ReqInv' /\ ConnInv'
<1> DEFINE r == [req[p] EXCEPT !.pc = pc]
<1>0. Whole(req[p]) /\ req[p].call \in Requests
  BY DEF ReqInv
<1>1. Whole(r) /\ r.pc = pc /\ r.conn = req[p].conn /\ r.call = req[p].call
  BY SMTT(60), <1>0 DEF Whole
<1>2. req' = [req EXCEPT ![p] = r]
  BY DEF Goto
<1> HIDE DEF r
<1> QED
  BY <1>0, <1>1, <1>2, ReqMoves DEF Unguarded

\* Going on at pc, or the end of the request.
LEMMA ContinueMoves ==
  ASSUME ReqInv, ConnInv, NEW p \in Procs, NEW pc, Continue(p, pc) \/ Done(p), UNCHANGED fk,
         req[p].pc # "idle", pc # "insert", ~Unguarded(req[p])
  PROVE  ReqInv' /\ ConnInv'
  BY DoneMoves, GotoMoves DEF Continue

\* The statement after which a tag is set, and the next tag of a create.
LEMMA AfterTagMoves ==
  ASSUME ReqInv, ConnInv, NEW p \in Procs, AfterTag(p), UNCHANGED fk,
         req[p].pc # "idle", ~Unguarded(req[p])
  PROVE  ReqInv' /\ ConnInv'
<1> DEFINE r == IF req[p].tags = <<>> THEN IdleReq
                ELSE [req[p] EXCEPT !.tags = Tail(req[p].tags),
                                    !.pc = IF Len(req[p].tags) = 1 THEN "reload" ELSE "tagCheck"]
<1>0. Whole(req[p]) /\ req[p].call \in Requests
  BY DEF ReqInv
<1>1. /\ Whole(r) /\ r.conn \in {req[p].conn, NoConn} /\ r.pc \in {"idle", "reload", "tagCheck"}
      /\ r.pc # "idle" => r.call = req[p].call
  BY <1>0 DEF Whole, IdleReq
<1>2. req' = [req EXCEPT ![p] = r]
  BY DEF AfterTag
<1> HIDE DEF r
<1> QED
  BY <1>0, <1>1, <1>2, ReqMoves

\* The read half of a transaction takes a connection.
LEMMA SnapshotMoves ==
  ASSUME ReqInv, ConnInv, NEW p \in Procs, NEW c \in Free, NEW v, UNCHANGED fk,
         req' = [req EXCEPT ![p].pc = "insert", ![p].conn = c, ![p].ver = v],
         req[p].pc # "idle", ~Unguarded(req[p])
  PROVE  ReqInv' /\ ConnInv'
<1>3. PICK r : r = [req[p] EXCEPT !.pc = "insert", !.conn = c, !.ver = v]
  OBVIOUS
<1>0. Whole(req[p]) /\ req[p].call \in Requests /\ req = [q \in Procs |-> req[q]]
  BY DEF ReqInv
<1>1. Whole(r) /\ r.conn = c /\ r.call = req[p].call /\ c \in Conns
  BY <1>0, <1>3 DEF Whole, Free
<1>2. req' = [req EXCEPT ![p] = r]
  BY <1>0, <1>3 DEF Whole
<1> QED
  BY <1>0, <1>1, <1>2, ReqMoves

\* Its write half fails, and retryWriteRace tries again or gives up.
LEMMA RaceMoves ==
  ASSUME ReqInv, ConnInv, NEW p \in Procs, Race(p), req[p].pc # "idle", ~Unguarded(req[p])
  PROVE  ReqInv' /\ ConnInv'
<1> DEFINE r == IF req[p].tries + 1 = MaxAttempts THEN IdleReq
                ELSE [req[p] EXCEPT !.pc = "snapshot", !.conn = NoConn, !.tries = req[p].tries + 1]
<1>0. Whole(req[p]) /\ req[p].call \in Requests
  BY DEF ReqInv
<1>1. /\ Whole(r) /\ r.conn = NoConn /\ r.pc \in {"idle", "snapshot"}
      /\ r.pc # "idle" => r.call = req[p].call
  BY <1>0 DEF Whole, IdleReq
<1>2. req' = [req EXCEPT ![p] = r] /\ UNCHANGED fk
  BY DEF Race
<1> HIDE DEF r
<1> QED
  BY <1>0, <1>1, <1>2, ReqMoves

\* A request arrives.
LEMMA BeginMoves ==
  ASSUME ReqInv, ConnInv, NEW p \in Procs, Arrival(p)
  PROVE  ReqInv' /\ ConnInv'
<1>1. PICK q \in Requests, pc \in {"exec", "check", "snapshot"} : Begin(p, q, pc)
  BY DEF Arrival, HandleUpdateRegisteredModel, HandleDeleteRegisteredModel, HandleDeleteRegisteredModelTag,
     HandleUpdateModelVersion, HandleDeleteModelVersion, HandleTransitionModelStage,
     HandleDeleteModelVersionTag, HandleDeleteModelAlias, HandleRenameRegisteredModel,
     HandleSetRegisteredModelTag, HandleSetModelVersionTag, HandleSetModelAlias, HandleSetPromptAlias,
     HandleCreatePrompt, HandleCreateRegisteredModel, HandleCreateModelVersion
<1> DEFINE tags == IF q.op \in {"createModel", "createVersion"} THEN q.tags ELSE <<>>
<1>4. PICK r : r = [IdleReq EXCEPT !.pc = pc, !.call = q, !.tags = tags]
  OBVIOUS
<1>2. req' = [req EXCEPT ![p] = r] /\ UNCHANGED fk /\ req[p].pc = "idle"
  BY <1>1, <1>4 DEF Begin
<1> HIDE DEF tags
<1>3. Whole(r) /\ r.pc = pc /\ r.call = q /\ r.conn = NoConn
  BY <1>4 DEF Whole, IdleReq
<1> QED
  BY <1>1, <1>2, <1>3, ReqMoves DEF Unguarded

\* A rename pins a connection.
LEMMA PinMoves ==
  ASSUME ReqInv, ConnInv, NEW p \in Procs, RenameCheckSource(p)
  PROVE  ReqInv' /\ ConnInv'
<1>0. Whole(req[p]) /\ req[p].call \in Requests /\ req = [q \in Procs |-> req[q]] /\ ~Unguarded(req[p])
  BY DEF ReqInv, RenameCheckSource, InCall, Unguarded
<1>1. CASE Done(p)
  BY <1>0, <1>1, DoneMoves DEF RenameCheckSource
<1>2. CASE \E c \in Free : req' = [req EXCEPT ![p].pc = "checkTarget", ![p].conn = c]
  <2>1. PICK c \in Free : req' = [req EXCEPT ![p].pc = "checkTarget", ![p].conn = c]
    BY <1>2
  <2>4. PICK r : r = [req[p] EXCEPT !.pc = "checkTarget", !.conn = c]
    OBVIOUS
  <2>2. Whole(r) /\ r.conn = c /\ r.call = req[p].call /\ r.pc = "checkTarget"
    BY <1>0, <2>4 DEF Whole
  <2>3. req' = [req EXCEPT ![p] = r] /\ UNCHANGED fk
    BY <1>0, <2>1, <2>4 DEF Whole, RenameCheckSource
  <2> QED
    BY <1>0, <2>2, <2>3, ReqMoves
<1> QED
  BY <1>1, <1>2 DEF RenameCheckSource

\* Foreign keys go off, on the connection the rename has pinned.
LEMMA PragmaMoves ==
  ASSUME ReqInv, ConnInv, NEW p \in Procs, RenamePragma(p)
  PROVE  ReqInv' /\ ConnInv'
<1>0. /\ Whole(req[p]) /\ req[p].call \in Requests /\ req[p].call.op = "renameModel" /\ ~Unguarded(req[p])
      /\ fk' = [fk EXCEPT ![req[p].conn] = FALSE] /\ req' = [req EXCEPT ![p].pc = "tx"]
  BY DEF ReqInv, RenamePragma, InCall, Goto, Unguarded
<1>1. /\ Whole(req'[p]) /\ req'[p].pc = "tx" /\ req'[p].call = req[p].call /\ req'[p].conn = req[p].conn
      /\ \A q \in Procs : q # p => req'[q] = req[q]
      /\ req' = [q \in Procs |-> req'[q]]
  BY <1>0 DEF ReqInv, Whole
<1>2. ReqInv'
  BY <1>0, <1>1 DEF ReqInv
<1>3. Unguarded(req'[p]) /\ \A q \in Procs : q # p => (Unguarded(req'[q]) <=> Unguarded(req[q]))
  BY <1>0, <1>1 DEF Unguarded
<1>4. fk' = [c \in Conns |-> fk'[c]] /\ \A c \in Conns : fk'[c] = IF c = req[p].conn THEN FALSE ELSE fk[c]
  BY <1>0 DEF ConnInv
<1>5. ASSUME NEW c \in Conns, ~fk'[c]
      PROVE  \E q \in Procs : req'[q].conn = c /\ Unguarded(req'[q])
  <2>1. CASE c = req[p].conn
    BY <1>1, <1>3, <2>1
  <2>2. CASE c # req[p].conn
    <3>1. PICK q \in Procs : req[q].conn = c /\ Unguarded(req[q])
      BY <1>4, <1>5, <2>2 DEF ConnInv
    <3> QED
      BY <1>1, <1>3, <2>2, <3>1
  <2> QED
    BY <2>1, <2>2
<1>6. \A q \in Procs : req'[q].conn = req[q].conn /\ (req'[q].pc = "insert" => req[q].pc = "insert")
  BY <1>1
<1>7. \A c \in Conns : fk'[c] \in BOOLEAN
  BY <1>4 DEF ConnInv
<1>8. \A q \in Procs : /\ req'[q].conn \in Conns \cup {NoConn}
                       /\ req'[q].pc = "insert" => req'[q].conn \in Conns
  BY <1>6 DEF ConnInv
<1>9. \A a, b \in Procs : req'[a].conn \in Conns /\ req'[a].conn = req'[b].conn => a = b
  BY SMTT(60), <1>6 DEF ConnInv
<1> QED
  BY <1>2, <1>4, <1>5, <1>7, <1>8, <1>9 DEF ConnInv

\* Foreign keys are back on before the connection returns to the pool.
LEMMA RestoreMoves ==
  ASSUME ReqInv, ConnInv, NEW p \in Procs, RestoreForeignKeys(p)
  PROVE  ReqInv' /\ ConnInv'
<1>0. fk' = [fk EXCEPT ![req[p].conn] = TRUE] /\ req' = [req EXCEPT ![p] = IdleReq]
  BY DEF RestoreForeignKeys, Done
<1>1. /\ req'[p] = IdleReq /\ \A q \in Procs : q # p => req'[q] = req[q]
      /\ req' = [q \in Procs |-> req'[q]]
  BY <1>0 DEF ReqInv
<1>2. Whole(IdleReq) /\ IdleReq.pc = "idle" /\ IdleReq.conn = NoConn
  BY DEF IdleReq, Whole
<1>3. ReqInv'
  BY <1>1, <1>2 DEF ReqInv
<1>4. fk' = [c \in Conns |-> fk'[c]] /\ \A c \in Conns : fk'[c] = IF c = req[p].conn THEN TRUE ELSE fk[c]
  BY <1>0 DEF ConnInv
<1>5. ASSUME NEW c \in Conns, ~fk'[c]
      PROVE  \E q \in Procs : req'[q].conn = c /\ Unguarded(req'[q])
  <2>1. c # req[p].conn /\ ~fk[c]
    BY <1>4, <1>5
  <2>2. PICK q \in Procs : req[q].conn = c /\ Unguarded(req[q])
    BY <2>1 DEF ConnInv
  <2> QED
    BY <1>1, <2>1, <2>2
<1>6. \A q \in Procs : /\ req'[q].conn \in Conns \cup {NoConn}
                       /\ req'[q].pc = "insert" => req'[q].conn \in Conns
  BY <1>1, <1>2 DEF ConnInv
<1>7. ASSUME NEW a \in Procs, NEW b \in Procs, req'[a].conn \in Conns, req'[a].conn = req'[b].conn
      PROVE  a = b
  BY SMTT(60), <1>1, <1>2, <1>7, RegistryConstants DEF ConnInv
<1> QED
  BY <1>3, <1>4, <1>5, <1>6, <1>7 DEF ConnInv

\* The end of the INSERT: the connection is given back.
LEMMA InsertedMoves ==
  ASSUME ReqInv, ConnInv, NEW p \in Procs, NEW pc, pc \in {"reload", "tagCheck"}, UNCHANGED fk,
         req' = [req EXCEPT ![p].pc = pc, ![p].conn = NoConn], req[p].pc # "idle", ~Unguarded(req[p])
  PROVE  ReqInv' /\ ConnInv'
<1>0. Whole(req[p]) /\ req[p].call \in Requests /\ req = [q \in Procs |-> req[q]]
  BY DEF ReqInv
<1>1. PICK r : r = [req[p] EXCEPT !.pc = pc, !.conn = NoConn]
  OBVIOUS
<1>2. Whole(r) /\ r.conn = NoConn /\ r.call = req[p].call /\ r.pc = pc
  BY <1>0, <1>1 DEF Whole
<1>3. req' = [req EXCEPT ![p] = r]
  BY <1>0, <1>1 DEF Whole
<1> QED
  BY <1>0, <1>2, <1>3, ReqMoves

\* Every step of a request.
LEMMA StepMoves ==
  ASSUME ReqInv, ConnInv, NEW p \in Procs, Step(p)
  PROVE  ReqInv' /\ ConnInv'
<1>1. ASSUME NEW ok, NEW T, NEW pc \in {"reload", "tagCheck", "idle"}, Exec(p, ok, T, pc),
             req[p].pc # "idle", req[p].pc # "tx", req[p].call.op # "renameModel"
      PROVE  ReqInv' /\ ConnInv'
  BY <1>1, ContinueMoves DEF Exec, Unguarded
<1>2. ASSUME NEW found, NEW pc \in {"tag", "idle", "snapshot"}, Query(p, found, pc),
             req[p].pc # "idle", req[p].call.op # "renameModel"
      PROVE  ReqInv' /\ ConnInv'
  BY <1>2, ContinueMoves DEF Query, Unguarded
<1>3. ASSUME NEW parent, NEW T, Upsert(p, parent, T), req[p].pc # "idle", req[p].call.op # "renameModel"
      PROVE  ReqInv' /\ ConnInv'
  BY <1>3, AfterTagMoves, DoneMoves DEF Upsert, Unguarded
<1>4. NextTag(p) \in {"reload", "tagCheck"}
  BY DEF NextTag
<1>5. CASE CreateRegisteredModel(p)
  BY <1>1, <1>4, <1>5 DEF CreateRegisteredModel, InCall
<1>6. CASE UpdateRegisteredModel(p)
  BY <1>1, <1>6 DEF UpdateRegisteredModel, InCall
<1>7. CASE DeleteRegisteredModel(p) \/ DeleteModelVersion(p)
  BY <1>7, DoneMoves DEF DeleteRegisteredModel, DeleteModelVersion, InCall, Unguarded
<1>8. CASE CheckModelForTag(p) \/ Reload(p) \/ CheckModelForVersion(p) \/ CheckVersion(p) \/ CheckPrompt(p)
  BY <1>2, <1>8 DEF CheckModelForTag, Reload, CheckModelForVersion, CheckVersion, CheckPrompt, InCall
<1>9. CASE SetRegisteredModelTag(p)
  BY <1>3, <1>9 DEF SetRegisteredModelTag, InCall
<1>10. CASE DeleteRegisteredModelTag(p)
  BY <1>1, <1>10 DEF DeleteRegisteredModelTag, InCall
<1>11. CASE RenameCheckSource(p)
  BY <1>11, PinMoves
<1>12. CASE RenameCheckTarget(p)
  BY <1>12, DoneMoves, GotoMoves DEF RenameCheckTarget, InCall, Unguarded
<1>13. CASE RenamePragma(p)
  BY <1>13, PragmaMoves
<1>14. CASE RenameTx(p) \/ RenameReload(p)
  BY <1>14, GotoMoves DEF RenameTx, RenameReload, InCall
<1>15. CASE RestoreForeignKeys(p)
  BY <1>15, RestoreMoves
<1>16. CASE SelectNextVersion(p)
  BY <1>16, SnapshotMoves DEF SelectNextVersion, InCall, Unguarded
<1>17. CASE InsertModelVersion(p)
  BY <1>4, <1>17, InsertedMoves, DoneMoves, RaceMoves DEF InsertModelVersion, InCall, Unguarded
<1>18. CASE UpdateModelVersion(p)
  BY <1>1, <1>18 DEF UpdateModelVersion, InCall
<1>19. CASE TransitionModelStage(p)
  BY <1>1, <1>19 DEF TransitionModelStage, InCall
<1>20. CASE SetModelVersionTag(p)
  BY <1>3, <1>20 DEF SetModelVersionTag, InCall
<1>21. CASE DeleteModelVersionTag(p)
  BY <1>1, <1>21 DEF DeleteModelVersionTag, InCall
<1>22. CASE SetModelAlias(p)
  BY <1>3, <1>22 DEF SetModelAlias, InCall
<1>23. CASE DeleteModelAlias(p)
  BY <1>1, <1>23 DEF DeleteModelAlias, InCall
<1>24. CASE SelectPromptVersion(p)
  BY <1>24, SnapshotMoves, DoneMoves DEF SelectPromptVersion, InCall, Unguarded
<1>25. CASE InsertPrompt(p)
  BY <1>25, DoneMoves, RaceMoves DEF InsertPrompt, InCall, Unguarded
<1>26. CASE SetPromptAlias(p)
  BY <1>3, <1>26 DEF SetPromptAlias, InCall
<1> QED
  BY <1>5, <1>6, <1>7, <1>8, <1>9, <1>10, <1>11, <1>12, <1>13, <1>14, <1>15, <1>16, <1>17, <1>18, <1>19,
     <1>20, <1>21, <1>22, <1>23, <1>24, <1>25, <1>26 DEF Step

\* And of everybody: arrivals, failures, a restart, searches.
LEMMA ConnStep == ReqInv /\ ConnInv /\ [Next]_vars => ReqInv' /\ ConnInv'
<1> SUFFICES ASSUME ReqInv, ConnInv, [Next]_vars PROVE ReqInv' /\ ConnInv'
  OBVIOUS
<1>1. CASE Crash
  <2>1. Whole(IdleReq) /\ IdleReq.pc = "idle" /\ IdleReq.conn = NoConn
    BY DEF IdleReq, Whole
  <2>2. req' = [p \in Procs |-> IdleReq] /\ fk' = [c \in Conns |-> TRUE]
    BY <1>1 DEF Crash
  <2> QED
    BY <2>1, <2>2, RegistryConstants DEF ReqInv, ConnInv
<1>2. ASSUME NEW p \in Procs, Fail(p) PROVE ReqInv' /\ ConnInv'
  <2>1. CASE InCall(p, "renameModel", "tx") \/ InCall(p, "renameModel", "reload")
    BY <1>2, <2>1, GotoMoves DEF Fail
  <2>2. CASE ~(InCall(p, "renameModel", "tx") \/ InCall(p, "renameModel", "reload"))
    BY <1>2, <2>2, DoneMoves DEF Fail, InCall, Unguarded
  <2> QED
    BY <2>1, <2>2
<1>3. CASE UNCHANGED <<req, fk>>
  BY <1>3 DEF ReqInv, ConnInv, vars
<1> QED
  BY <1>1, <1>2, <1>3, StepMoves, BeginMoves
     DEF Next, vars, SearchRegisteredModels, SearchModelVersions, SearchPage

-----------------------------------------------------------------------------
(* Tables.                                                                  *)

Good(tables) == Stored(tables) /\ Intact(tables)

\* A statement that changes one table leaves the others alone.
LEMMA OneTable ==
  ASSUME Good(reg), NEW t \in Tables, NEW S, IsFiniteSet(S), \A x \in S : x.name \in Names,
         NEW T, T = [reg EXCEPT ![t] = S]
  PROVE  /\ T = [u \in Tables |-> T[u]] /\ T[t] = S
         /\ \A u \in Tables : u # t => T[u] = reg[u]
         /\ \A u \in Tables : IsFiniteSet(T[u]) /\ \A x \in T[u] : x.name \in Names
<1>1. reg = [u \in Tables |-> reg[u]]
  BY DEF Good, Stored
<1>2. T = [u \in Tables |-> T[u]] /\ T[t] = S /\ \A u \in Tables : u # t => T[u] = reg[u]
  BY <1>1
<1> QED
  BY <1>2 DEF Good, Stored

\* Rows of registered_models are written: none that has children goes.
LEMMA ModelsWritten ==
  ASSUME Good(reg), NEW S, IsFiniteSet(S),
         \A x \in S : x.name \in Names /\ x = [name |-> x.name, desc |-> x.desc],
         \A x \in reg.models : \E y \in S : y.name = x.name,
         NEW T, T = [reg EXCEPT !.models = S]
  PROVE  Good(T) /\ T.versions = reg.versions /\ T.prompts = reg.prompts
<1>1. "models" \in Tables /\ T = [reg EXCEPT !["models"] = S]
  BY DEF Tables
<1>2. /\ T = [u \in Tables |-> T[u]] /\ T.models = S /\ T.versions = reg.versions /\ T.mtags = reg.mtags
      /\ T.vtags = reg.vtags /\ T.aliases = reg.aliases /\ T.prompts = reg.prompts /\ T.paliases = reg.paliases
      /\ \A u \in Tables : IsFiniteSet(T[u]) /\ \A x \in T[u] : x.name \in Names
  BY SMTT(60), <1>1, OneTable DEF Tables
<1>3. Intact(T)
  BY SMTT(60), <1>2 DEF Good, Intact
<1>4. Stored(T)
  BY <1>2 DEF Good, Stored
<1> QED
  BY <1>2, <1>3, <1>4 DEF Good

\* Rows of model_versions are written: they have their models, and none that has
\* children goes.
LEMMA VersionsWritten ==
  ASSUME Good(reg), NEW S, IsFiniteSet(S),
         \A x \in S : /\ x.name \in Names /\ x.v \in Nat
                      /\ x = [name |-> x.name, v |-> x.v, stage |-> x.stage, desc |-> x.desc]
                      /\ \E m \in reg.models : m.name = x.name,
         \A x, y \in S : x.name = y.name /\ x.v = y.v => x = y,
         \A x \in reg.versions : \E y \in S : y.name = x.name /\ y.v = x.v,
         NEW T, T = [reg EXCEPT !.versions = S]
  PROVE  Good(T) /\ T.versions = S /\ T.prompts = reg.prompts
<1>1. "versions" \in Tables /\ T = [reg EXCEPT !["versions"] = S]
  BY DEF Tables
<1>2. /\ T = [u \in Tables |-> T[u]] /\ T.models = reg.models /\ T.versions = S /\ T.mtags = reg.mtags
      /\ T.vtags = reg.vtags /\ T.aliases = reg.aliases /\ T.prompts = reg.prompts /\ T.paliases = reg.paliases
      /\ \A u \in Tables : IsFiniteSet(T[u]) /\ \A x \in T[u] : x.name \in Names
  BY SMTT(60), <1>1, OneTable DEF Tables
<1>3. Intact(T)
  BY SMTT(60), <1>2 DEF Good, Intact
<1>4. Stored(T)
  BY <1>2 DEF Good, Stored
<1> QED
  BY <1>2, <1>3, <1>4 DEF Good

\* Tags and aliases are written: each has its model, its version or its prompt.
LEMMA ModelTagsWritten ==
  ASSUME Good(reg), NEW S, IsFiniteSet(S),
         \A x \in S : /\ x.name \in Names /\ x = [name |-> x.name, key |-> x.key]
                      /\ \E m \in reg.models : m.name = x.name,
         NEW T, T = [reg EXCEPT !.mtags = S]
  PROVE  Good(T) /\ T.versions = reg.versions /\ T.prompts = reg.prompts
<1>1. "mtags" \in Tables /\ T = [reg EXCEPT !["mtags"] = S]
  BY DEF Tables
<1>2. /\ T = [u \in Tables |-> T[u]] /\ T.models = reg.models /\ T.versions = reg.versions /\ T.mtags = S
      /\ T.vtags = reg.vtags /\ T.aliases = reg.aliases /\ T.prompts = reg.prompts /\ T.paliases = reg.paliases
      /\ \A u \in Tables : IsFiniteSet(T[u]) /\ \A x \in T[u] : x.name \in Names
  BY SMTT(60), <1>1, OneTable DEF Tables
<1>3. Intact(T)
  BY SMTT(60), <1>2 DEF Good, Intact
<1>4. Stored(T)
  BY <1>2 DEF Good, Stored
<1> QED
  BY <1>2, <1>3, <1>4 DEF Good

\* A tag of a version.
LEMMA VersionTagsWritten ==
  ASSUME Good(reg), NEW S, IsFiniteSet(S),
         \A x \in S : /\ x.name \in Names /\ x = [name |-> x.name, v |-> x.v, key |-> x.key]
                      /\ HasVersion(x.name, x.v),
         NEW T, T = [reg EXCEPT !.vtags = S]
  PROVE  Good(T) /\ T.versions = reg.versions /\ T.prompts = reg.prompts
<1>1. "vtags" \in Tables /\ T = [reg EXCEPT !["vtags"] = S]
  BY DEF Tables
<1>2. /\ T = [u \in Tables |-> T[u]] /\ T.models = reg.models /\ T.versions = reg.versions /\ T.mtags = reg.mtags
      /\ T.vtags = S /\ T.aliases = reg.aliases /\ T.prompts = reg.prompts /\ T.paliases = reg.paliases
      /\ \A u \in Tables : IsFiniteSet(T[u]) /\ \A x \in T[u] : x.name \in Names
  BY SMTT(60), <1>1, OneTable DEF Tables
<1>3. Intact(T)
  BY SMTT(60), <1>2 DEF Good, Intact, HasVersion
<1>4. Stored(T)
  BY <1>2 DEF Good, Stored
<1> QED
  BY <1>2, <1>3, <1>4 DEF Good

\* An alias of a version.
LEMMA AliasesWritten ==
  ASSUME Good(reg), NEW S, IsFiniteSet(S),
         \A x \in S : /\ x.name \in Names /\ x = [name |-> x.name, alias |-> x.alias, v |-> x.v]
                      /\ HasVersion(x.name, x.v),
         NEW T, T = [reg EXCEPT !.aliases = S]
  PROVE  Good(T) /\ T.versions = reg.versions /\ T.prompts = reg.prompts
<1>1. "aliases" \in Tables /\ T = [reg EXCEPT !["aliases"] = S]
  BY DEF Tables
<1>2. /\ T = [u \in Tables |-> T[u]] /\ T.models = reg.models /\ T.versions = reg.versions /\ T.mtags = reg.mtags
      /\ T.vtags = reg.vtags /\ T.aliases = S /\ T.prompts = reg.prompts /\ T.paliases = reg.paliases
      /\ \A u \in Tables : IsFiniteSet(T[u]) /\ \A x \in T[u] : x.name \in Names
  BY SMTT(60), <1>1, OneTable DEF Tables
<1>3. Intact(T)
  BY SMTT(60), <1>2 DEF Good, Intact, HasVersion
<1>4. Stored(T)
  BY <1>2 DEF Good, Stored
<1> QED
  BY <1>2, <1>3, <1>4 DEF Good

\* A prompt, and an alias of one.
LEMMA PromptsWritten ==
  ASSUME Good(reg), NEW S, IsFiniteSet(S), reg.prompts \subseteq S,
         \A x \in S : x.name \in Names /\ x = [name |-> x.name, v |-> x.v, content |-> x.content],
         NEW T, T = [reg EXCEPT !.prompts = S]
  PROVE  Good(T) /\ T.versions = reg.versions /\ T.prompts = S
<1>1. "prompts" \in Tables /\ T = [reg EXCEPT !["prompts"] = S]
  BY DEF Tables
<1>2. /\ T = [u \in Tables |-> T[u]] /\ T.models = reg.models /\ T.versions = reg.versions /\ T.mtags = reg.mtags
      /\ T.vtags = reg.vtags /\ T.aliases = reg.aliases /\ T.prompts = S /\ T.paliases = reg.paliases
      /\ \A u \in Tables : IsFiniteSet(T[u]) /\ \A x \in T[u] : x.name \in Names
  BY SMTT(60), <1>1, OneTable DEF Tables
<1>3. Intact(T)
  BY SMTT(60), <1>2 DEF Good, Intact
<1>4. Stored(T)
  BY <1>2 DEF Good, Stored
<1> QED
  BY <1>2, <1>3, <1>4 DEF Good

\* An alias of a prompt.
LEMMA PromptAliasesWritten ==
  ASSUME Good(reg), NEW S, IsFiniteSet(S),
         \A x \in S : /\ x.name \in Names /\ x = [name |-> x.name, alias |-> x.alias, v |-> x.v]
                      /\ HasPrompt(x.name, x.v),
         NEW T, T = [reg EXCEPT !.paliases = S]
  PROVE  Good(T) /\ T.versions = reg.versions /\ T.prompts = reg.prompts
<1>1. "paliases" \in Tables /\ T = [reg EXCEPT !["paliases"] = S]
  BY DEF Tables
<1>2. /\ T = [u \in Tables |-> T[u]] /\ T.models = reg.models /\ T.versions = reg.versions /\ T.mtags = reg.mtags
      /\ T.vtags = reg.vtags /\ T.aliases = reg.aliases /\ T.prompts = reg.prompts /\ T.paliases = S
      /\ \A u \in Tables : IsFiniteSet(T[u]) /\ \A x \in T[u] : x.name \in Names
  BY SMTT(60), <1>1, OneTable DEF Tables
<1>3. Intact(T)
  BY SMTT(60), <1>2 DEF Good, Intact, HasPrompt
<1>4. Stored(T)
  BY <1>2 DEF Good, Stored
<1> QED
  BY <1>2, <1>3, <1>4 DEF Good

\* What a statement does to the rows that are counted, and what everybody sees of it.
Counted ==
  /\ deaths' \in Nat /\ births' \in Nat
  /\ Cardinality(reg'.versions) + deaths' + births = Cardinality(reg.versions) + deaths + births'
Result ==
  \/ UNCHANGED <<reg, scan, births, deaths>>
  \/ Write(reg') /\ Good(reg') /\ reg'.prompts = reg.prompts /\ Counted

RegInv ==
  /\ ReqInv /\ ConnInv /\ Good(reg)
  /\ births \in Nat /\ deaths \in Nat

\* Of the writes that leave the versions and the prompts alone.
LEMMA Unnumbered ==
  ASSUME RegInv, Write(reg'), Good(reg'), reg'.versions = reg.versions, reg'.prompts = reg.prompts,
         UNCHANGED <<births, deaths>>
  PROVE  Result
<1>1. Cardinality(reg.versions) \in Nat
  BY FS_CardinalityType DEF RegInv, Good, Stored, Tables
<1> QED
  BY <1>1 DEF Result, Counted, RegInv

VersionRow(x) == x = [name |-> x.name, v |-> x.v, stage |-> x.stage, desc |-> x.desc]

\* S is what f, which keeps the primary key, makes of the versions.
Remaps(f, S) ==
  /\ f \in [reg.versions -> S] /\ \A y \in S : \E x \in reg.versions : y = f[x]
  /\ \A x \in reg.versions : f[x].name = x.name /\ f[x].v = x.v /\ VersionRow(f[x])

\* Rows of model_versions change in place.
LEMMA VersionsMapped ==
  ASSUME RegInv, NEW S, NEW f, Remaps(f, S),
         reg' = [reg EXCEPT !.versions = S], fresh' = {}, scan' = Watch(reg'), UNCHANGED <<births, deaths>>
  PROVE  Result
<1>0. Good(reg) /\ IsFiniteSet(reg.versions)
  BY DEF RegInv, Good, Stored, Tables
<1>4. /\ f \in [reg.versions -> S] /\ \A y \in S : \E x \in reg.versions : y = f[x]
      /\ \A x \in reg.versions : f[x].name = x.name /\ f[x].v = x.v /\ VersionRow(f[x])
  BY DEF Remaps
<1>1. \A x \in reg.versions : x.name \in Names /\ x.v \in Nat /\ \E m \in reg.models : m.name = x.name
  BY <1>0 DEF Good, Stored, Intact, Tables
<1>2. \A x, y \in reg.versions : x.name = y.name /\ x.v = y.v => x = y
  BY <1>0 DEF Good, Stored
<1>3. IsFiniteSet(S) /\ Cardinality(S) = Cardinality(reg.versions)
  <2>1. ASSUME NEW x \in reg.versions, NEW y \in reg.versions, f[x] = f[y] PROVE x = y
    <3>1. x.name = f[x].name /\ x.v = f[x].v /\ y.name = f[y].name /\ y.v = f[y].v
      BY <1>4
    <3>2. x.name = y.name /\ x.v = y.v
      BY <2>1, <3>1
    <3> QED
      BY <1>2, <3>2
  <2> QED
    BY SMTT(60), <1>0, <1>4, <2>1, SameSize
<1>5. \A x \in S : /\ x.name \in Names /\ x.v \in Nat
                   /\ x = [name |-> x.name, v |-> x.v, stage |-> x.stage, desc |-> x.desc]
                   /\ \E m \in reg.models : m.name = x.name
  <2> SUFFICES ASSUME NEW x \in S
               PROVE  /\ x.name \in Names /\ x.v \in Nat
                      /\ x = [name |-> x.name, v |-> x.v, stage |-> x.stage, desc |-> x.desc]
                      /\ \E m \in reg.models : m.name = x.name
    OBVIOUS
  <2>1. PICK y \in reg.versions : x = f[y]
    BY <1>4
  <2>2. x.name = y.name /\ x.v = y.v /\ VersionRow(x)
    BY <1>4, <2>1
  <2> QED
    BY <1>1, <2>2 DEF VersionRow
<1>6. ASSUME NEW x \in S, NEW y \in S, x.name = y.name, x.v = y.v PROVE x = y
  <2>1. PICK a \in reg.versions, b \in reg.versions : x = f[a] /\ y = f[b]
    BY <1>4
  <2>2. a = b
    BY <1>2, <1>4, <1>6, <2>1
  <2> QED
    BY <2>1, <2>2
<1>7. \A x \in reg.versions : \E y \in S : y.name = x.name /\ y.v = x.v
  BY <1>4
<1>8. Good(reg') /\ reg'.versions = S /\ reg'.prompts = reg.prompts
  BY <1>0, <1>3, <1>5, <1>6, <1>7, VersionsWritten
<1>9. Cardinality(reg.versions) \in Nat
  BY <1>0, FS_CardinalityType
<1>10. Write(reg')
  BY DEF Write
<1> QED
  BY <1>3, <1>8, <1>9, <1>10 DEF Result, Counted, RegInv

-----------------------------------------------------------------------------
(* The statements.                                                          *)

\* Registered models.
LEMMA ModelStatements ==
  ASSUME RegInv, NEW p \in Procs, CreateRegisteredModel(p) \/ UpdateRegisteredModel(p)
  PROVE  Result
<1> DEFINE n == req[p].call.name
<1>0. Good(reg) /\ IsFiniteSet(reg.models) /\ n \in Names
      /\ \A x \in reg.models : x.name \in Names /\ x = [name |-> x.name, desc |-> x.desc]
  BY RegistryConstants DEF RegInv, Good, Stored, Tables, ReqInv, CreateRegisteredModel, UpdateRegisteredModel, InCall
<1>1. PICK d \in BOOLEAN :
        \/ NoWrite /\ UNCHANGED <<births, deaths>>
        \/ /\ \/ Write([reg EXCEPT !.models = @ \cup {[name |-> n, desc |-> d]}])
              \/ Write([reg EXCEPT !.models = (@ \ Named(@, n)) \cup {[name |-> n, desc |-> d]}])
           /\ UNCHANGED <<births, deaths>>
  BY DEF CreateRegisteredModel, UpdateRegisteredModel, Exec
<1>2. CASE NoWrite /\ UNCHANGED <<births, deaths>>
  BY <1>2 DEF NoWrite, Result
<1>3. ASSUME NEW S, S = reg.models \cup {[name |-> n, desc |-> d]}
                    \/ S = (reg.models \ Named(reg.models, n)) \cup {[name |-> n, desc |-> d]},
             Write([reg EXCEPT !.models = S]), UNCHANGED <<births, deaths>>
      PROVE  Result
  <2>0. PICK X, row : /\ X \subseteq Named(reg.models, n) /\ row = [name |-> n, desc |-> d]
                      /\ S = (reg.models \ X) \cup {row}
    <3>1. reg.models \ {} = reg.models
      OBVIOUS
    <3> QED
      BY <1>3, <3>1
  <2>1. IsFiniteSet(S)
    BY <1>0, <2>0, Finite
  <2>2. \A x \in S : x.name \in Names /\ x = [name |-> x.name, desc |-> x.desc]
    BY SMTT(60), <1>0, <2>0
  <2>3. \A x \in reg.models : \E y \in S : y.name = x.name
    BY <2>0 DEF Named
  <2>4. reg' = [reg EXCEPT !.models = S] /\ Write(reg')
    BY <1>3 DEF Write
  <2> QED
    BY <1>0, <1>3, <2>1, <2>2, <2>3, <2>4, ModelsWritten, Unnumbered
<1> QED
  BY <1>1, <1>2, <1>3

\* Deletions with their cascades: the connection comes from the pool.
LEMMA DeleteModelStatement ==
  ASSUME RegInv, NEW p \in Procs, DeleteRegisteredModel(p)
  PROVE  Result
<1> DEFINE n == req[p].call.name
           left == WithoutModel(n, TRUE)
<1>0. Good(reg) /\ IsFiniteSet(reg.versions) /\ deaths \in Nat /\ births \in Nat
  BY DEF RegInv, Good, Stored, Tables
<1>1. PICK c \in Free : /\ IF HasModel(n) THEN Write(WithoutModel(n, fk[c])) ELSE NoWrite
                        /\ deaths' = deaths + Cardinality(reg.versions) - Cardinality(WithoutModel(n, fk[c]).versions)
  BY DEF DeleteRegisteredModel
<1>2. fk[c] = TRUE
  BY Guarded DEF RegInv
<1>3. /\ left = [t \in Tables |-> left[t]]
      /\ left.models = reg.models \ Named(reg.models, n) /\ left.versions = reg.versions \ Named(reg.versions, n)
      /\ left.mtags = reg.mtags \ Named(reg.mtags, n) /\ left.vtags = reg.vtags \ Named(reg.vtags, n)
      /\ left.aliases = reg.aliases \ Named(reg.aliases, n)
      /\ left.prompts = reg.prompts /\ left.paliases = reg.paliases
      /\ \A t \in Tables : left[t] \subseteq reg[t]
  BY DEF WithoutModel, Tables
<1>4. /\ IF HasModel(n) THEN Write(left) ELSE NoWrite
      /\ deaths' = deaths + Cardinality(reg.versions) - Cardinality(left.versions)
  BY <1>1, <1>2
<1> HIDE DEF left
<1>5. IsFiniteSet(left.versions) /\ Cardinality(left.versions) <= Cardinality(reg.versions)
  <2>1. left.versions \in SUBSET reg.versions
    BY <1>3
  <2> QED
    BY <1>0, <2>1, FS_Subset
<1>6. Cardinality(left.versions) \in Nat /\ Cardinality(reg.versions) \in Nat
  BY <1>0, <1>5, FS_CardinalityType
<1>7. births' = births
  BY DEF DeleteRegisteredModel
<1>8. CASE HasModel(n)
  <2>1. Stored(left)
    <3>1. ASSUME NEW t \in Tables PROVE IsFiniteSet(left[t]) /\ \A x \in left[t] : x.name \in Names
      <4>1. left[t] \in SUBSET reg[t] /\ IsFiniteSet(reg[t])
        BY <1>0, <1>3 DEF Good, Stored
      <4>2. \A x \in reg[t] : x.name \in Names
        BY <1>0 DEF Good, Stored
      <4> QED
        BY <4>1, <4>2, FS_Subset
    <3> QED
      BY <1>0, <1>3, <3>1 DEF Good, Stored
  <2>2. Intact(left)
    BY ZenonT(60), <1>0, <1>3 DEF Good, Intact, Named
  <2>3. reg' = left /\ Write(reg')
    BY <1>4, <1>8 DEF Write
  <2> QED
    <3>1. deaths' \in Nat /\ births' \in Nat
      BY SMTT(60), <1>0, <1>4, <1>5, <1>6, <1>7
    <3>2. Cardinality(left.versions) + deaths' + births = Cardinality(reg.versions) + deaths + births'
      BY SMTT(60), <1>0, <1>4, <1>6, <1>7
    <3>3. Counted
      BY <2>3, <3>1, <3>2 DEF Counted
    <3> QED
      BY <1>3, <2>1, <2>2, <2>3, <3>3 DEF Result, Good
<1>9. CASE ~HasModel(n)
  <2>1. left.versions = reg.versions
    <3>1. ASSUME NEW x \in reg.versions PROVE x.name # n
      BY SMTT(60), <1>0, <1>9 DEF Good, Intact, HasModel
    <3> QED
      BY <1>3, <3>1 DEF Named
  <2> QED
    BY SMTT(60), <1>0, <1>4, <1>6, <1>7, <1>9, <2>1 DEF Result, NoWrite
<1> QED
  BY <1>8, <1>9

\* One version, with its tags and aliases.
LEMMA DeleteVersionStatement ==
  ASSUME RegInv, NEW p \in Procs, DeleteModelVersion(p)
  PROVE  Result
<1> DEFINE n == req[p].call.name
           v == req[p].call.v
           left == [t \in Tables |-> IF t = "versions" \/ (TRUE /\ t \in {"vtags", "aliases"})
                                     THEN reg[t] \ Version(reg[t], n, v) ELSE reg[t]]
<1>0. Good(reg) /\ IsFiniteSet(reg.versions) /\ deaths \in Nat /\ births \in Nat
  BY DEF RegInv, Good, Stored, Tables
<1>1. PICK c \in Free :
        IF HasVersion(n, v)
        THEN Write([t \in Tables |-> IF t = "versions" \/ (fk[c] /\ t \in {"vtags", "aliases"})
                                     THEN reg[t] \ Version(reg[t], n, v) ELSE reg[t]])
        ELSE NoWrite
  BY DEF DeleteModelVersion
<1>2. fk[c] = TRUE
  BY Guarded DEF RegInv
<1>3. /\ left = [t \in Tables |-> left[t]]
      /\ left.models = reg.models /\ left.versions = reg.versions \ Version(reg.versions, n, v)
      /\ left.mtags = reg.mtags /\ left.vtags = reg.vtags \ Version(reg.vtags, n, v)
      /\ left.aliases = reg.aliases \ Version(reg.aliases, n, v)
      /\ left.prompts = reg.prompts /\ left.paliases = reg.paliases
      /\ \A t \in Tables : left[t] \subseteq reg[t]
  BY DEF Tables
<1>4. IF HasVersion(n, v) THEN Write(left) ELSE NoWrite
  BY <1>1, <1>2
<1> HIDE DEF left
<1>5. deaths' = deaths + Cardinality(Version(reg.versions, n, v)) /\ births' = births
  BY DEF DeleteModelVersion
<1> DEFINE gone == Version(reg.versions, n, v)
<1>6. gone \in SUBSET reg.versions /\ gone \cap reg.versions = gone
  BY DEF Version
<1>7. IsFiniteSet(gone)
  BY <1>0, <1>6, FS_Subset
<1>8. Cardinality(left.versions) = Cardinality(reg.versions) - Cardinality(gone)
  <2>1. reg.versions \cap gone = gone
    BY <1>6
  <2> HIDE DEF gone
  <2>2. Cardinality(reg.versions \ gone) = Cardinality(reg.versions) - Cardinality(reg.versions \cap gone)
    BY <1>0, <1>7, FS_Difference
  <2> QED
    BY <1>3, <2>1, <2>2 DEF gone
<1>9. Cardinality(gone) \in Nat /\ Cardinality(reg.versions) \in Nat
  BY <1>0, <1>7, FS_CardinalityType
<1>10. CASE HasVersion(n, v)
  <2>1. Stored(left)
    <3>1. ASSUME NEW t \in Tables PROVE IsFiniteSet(left[t]) /\ \A x \in left[t] : x.name \in Names
      <4>1. left[t] \in SUBSET reg[t] /\ IsFiniteSet(reg[t])
        BY <1>0, <1>3 DEF Good, Stored
      <4>2. \A x \in reg[t] : x.name \in Names
        BY <1>0 DEF Good, Stored
      <4> QED
        BY <4>1, <4>2, FS_Subset
    <3> QED
      BY <1>0, <1>3, <3>1 DEF Good, Stored
  <2>2. Intact(left)
    BY ZenonT(60), <1>0, <1>3 DEF Good, Intact, Version
  <2>3. reg' = left /\ Write(reg')
    BY <1>4, <1>10 DEF Write
  <2> QED
    BY SMTT(60), <1>0, <1>3, <1>5, <1>8, <1>9, <2>1, <2>2, <2>3 DEF Result, Good, Counted
<1>11. CASE ~HasVersion(n, v)
  <2>1. gone = {}
    BY <1>11 DEF Version, HasVersion
  <2>2. Cardinality(gone) = 0
    BY <2>1, FS_EmptySet
  <2> QED
    BY SMTT(60), <1>0, <1>4, <1>5, <1>11, <2>2 DEF Result, NoWrite
<1> QED
  BY <1>10, <1>11

\* Tags and aliases: the foreign key is checked with the upsert.
LEMMA TagStatements ==
  ASSUME RegInv, NEW p \in Procs,
         \/ SetRegisteredModelTag(p) \/ DeleteRegisteredModelTag(p)
         \/ SetModelVersionTag(p) \/ DeleteModelVersionTag(p)
         \/ SetModelAlias(p) \/ DeleteModelAlias(p) \/ SetPromptAlias(p)
  PROVE  Result
<1> DEFINE n == req[p].call.name
<1>0. /\ Good(reg) /\ n \in Names
      /\ IsFiniteSet(reg.mtags) /\ IsFiniteSet(reg.vtags) /\ IsFiniteSet(reg.aliases) /\ IsFiniteSet(reg.paliases)
  <2>1. req[p].pc # "idle"
    BY DEF SetRegisteredModelTag, DeleteRegisteredModelTag, SetModelVersionTag, DeleteModelVersionTag,
       SetModelAlias, DeleteModelAlias, SetPromptAlias, InCall
  <2>2. n \in Names
    BY <2>1, RegistryConstants DEF RegInv, ReqInv
  <2> QED
    BY <2>2 DEF RegInv, Good, Stored, Tables
<1>1. ASSUME NEW parent, NEW T, Upsert(p, parent, T)
      PROVE  UNCHANGED <<births, deaths>> /\ (NoWrite \/ (parent /\ Write(T)))
  BY <1>1, Guarded DEF Upsert, RegInv
<1>2. ASSUME NEW ok, NEW T, NEW pc, Exec(p, ok, T, pc)
      PROVE  UNCHANGED <<births, deaths>> /\ (NoWrite \/ (ok /\ Write(T)))
  BY <1>2 DEF Exec
<1>3. ASSUME NoWrite, UNCHANGED <<births, deaths>> PROVE Result
  BY <1>3 DEF NoWrite, Result
<1>4. /\ \A x \in reg.mtags : /\ x.name \in Names /\ x = [name |-> x.name, key |-> x.key]
                              /\ \E m \in reg.models : m.name = x.name
      /\ \A x \in reg.vtags : /\ x.name \in Names /\ x = [name |-> x.name, v |-> x.v, key |-> x.key]
                              /\ HasVersion(x.name, x.v)
      /\ \A x \in reg.aliases : /\ x.name \in Names /\ x = [name |-> x.name, alias |-> x.alias, v |-> x.v]
                                /\ HasVersion(x.name, x.v)
      /\ \A x \in reg.paliases : /\ x.name \in Names /\ x = [name |-> x.name, alias |-> x.alias, v |-> x.v]
                                 /\ HasPrompt(x.name, x.v)
  BY <1>0 DEF Good, Stored, Intact, HasVersion, HasPrompt, Tables
<1>5. CASE SetRegisteredModelTag(p)
  <2> DEFINE row == [name |-> n, key |-> TagKey(p)]
             S == reg.mtags \cup {row}
  <2>1. CASE HasModel(n) /\ Write([reg EXCEPT !.mtags = S]) /\ UNCHANGED <<births, deaths>>
    <3>1. IsFiniteSet(S)
      BY <1>0, Finite
    <3>2. \A x \in S : /\ x.name \in Names /\ x = [name |-> x.name, key |-> x.key]
                       /\ \E m \in reg.models : m.name = x.name
      BY SMTT(60), <1>0, <1>4, <2>1 DEF HasModel
    <3> HIDE DEF S
    <3>3. reg' = [reg EXCEPT !.mtags = S] /\ Write(reg')
      BY <2>1 DEF Write
    <3> QED
      BY <1>0, <2>1, <3>1, <3>2, <3>3, ModelTagsWritten, Unnumbered
  <2> QED
    BY SMTT(60), <1>1, <1>3, <1>5, <2>1 DEF SetRegisteredModelTag
<1>6. CASE DeleteRegisteredModelTag(p)
  <2>1. ASSUME NEW S, S \subseteq reg.mtags, Write([reg EXCEPT !.mtags = S]), UNCHANGED <<births, deaths>>
        PROVE  Result
    <3>1. IsFiniteSet(S)
      BY <1>0, <2>1, FS_Subset
    <3>2. reg' = [reg EXCEPT !.mtags = S] /\ Write(reg')
      BY <2>1 DEF Write
    <3> QED
      BY <1>0, <1>4, <2>1, <3>1, <3>2, ModelTagsWritten, Unnumbered
  <2>2. PICK t : UNCHANGED <<births, deaths>> /\ (NoWrite \/ Write([reg EXCEPT !.mtags = @ \ {t}]))
    BY <1>2, <1>6 DEF DeleteRegisteredModelTag
  <2>3. reg.mtags \ {t} \subseteq reg.mtags
    OBVIOUS
  <2> QED
    BY <1>3, <2>1, <2>2, <2>3
<1>7. CASE SetModelVersionTag(p)
  <2> DEFINE v == TargetVersion(p)
             row == [name |-> n, v |-> v, key |-> TagKey(p)]
             S == reg.vtags \cup {row}
  <2>1. CASE HasVersion(n, v) /\ Write([reg EXCEPT !.vtags = S]) /\ UNCHANGED <<births, deaths>>
    <3>1. IsFiniteSet(S)
      BY <1>0, Finite
    <3>2. \A x \in S : /\ x.name \in Names /\ x = [name |-> x.name, v |-> x.v, key |-> x.key]
                       /\ HasVersion(x.name, x.v)
      BY SMTT(60), <1>0, <1>4, <2>1
    <3> HIDE DEF S
    <3>3. reg' = [reg EXCEPT !.vtags = S] /\ Write(reg')
      BY <2>1 DEF Write
    <3> QED
      BY <1>0, <2>1, <3>1, <3>2, <3>3, VersionTagsWritten, Unnumbered
  <2> QED
    BY SMTT(60), <1>1, <1>3, <1>7, <2>1 DEF SetModelVersionTag
<1>8. CASE DeleteModelVersionTag(p)
  <2>1. ASSUME NEW S, S \subseteq reg.vtags, Write([reg EXCEPT !.vtags = S]), UNCHANGED <<births, deaths>>
        PROVE  Result
    <3>1. IsFiniteSet(S)
      BY <1>0, <2>1, FS_Subset
    <3>2. reg' = [reg EXCEPT !.vtags = S] /\ Write(reg')
      BY <2>1 DEF Write
    <3> QED
      BY <1>0, <1>4, <2>1, <3>1, <3>2, VersionTagsWritten, Unnumbered
  <2>2. PICK t : UNCHANGED <<births, deaths>> /\ (NoWrite \/ Write([reg EXCEPT !.vtags = @ \ {t}]))
    BY <1>2, <1>8 DEF DeleteModelVersionTag
  <2>3. reg.vtags \ {t} \subseteq reg.vtags
    OBVIOUS
  <2> QED
    BY <1>3, <2>1, <2>2, <2>3
<1>9. CASE SetModelAlias(p)
  <2> DEFINE v == req[p].call.v
             a == req[p].call.alias
             row == [name |-> n, alias |-> a, v |-> v]
             S == (reg.aliases \ AliasRows(reg.aliases, n, a)) \cup {row}
  <2>1. CASE HasVersion(n, v) /\ Write([reg EXCEPT !.aliases = S]) /\ UNCHANGED <<births, deaths>>
    <3>1. IsFiniteSet(S)
      BY <1>0, Finite
    <3>2. \A x \in S : /\ x.name \in Names /\ x = [name |-> x.name, alias |-> x.alias, v |-> x.v]
                       /\ HasVersion(x.name, x.v)
      BY SMTT(60), <1>0, <1>4, <2>1
    <3> HIDE DEF S
    <3>3. reg' = [reg EXCEPT !.aliases = S] /\ Write(reg')
      BY <2>1 DEF Write
    <3> QED
      BY <1>0, <2>1, <3>1, <3>2, <3>3, AliasesWritten, Unnumbered
  <2> QED
    BY SMTT(60), <1>1, <1>3, <1>9, <2>1 DEF SetModelAlias
<1>10. CASE DeleteModelAlias(p)
  <2>1. ASSUME NEW S, S \subseteq reg.aliases, Write([reg EXCEPT !.aliases = S]), UNCHANGED <<births, deaths>>
        PROVE  Result
    <3>1. IsFiniteSet(S)
      BY <1>0, <2>1, FS_Subset
    <3>2. reg' = [reg EXCEPT !.aliases = S] /\ Write(reg')
      BY <2>1 DEF Write
    <3> QED
      BY <1>0, <1>4, <2>1, <3>1, <3>2, AliasesWritten, Unnumbered
  <2>2. PICK rows : UNCHANGED <<births, deaths>> /\ (NoWrite \/ Write([reg EXCEPT !.aliases = @ \ rows]))
    BY <1>2, <1>10 DEF DeleteModelAlias
  <2>3. reg.aliases \ rows \subseteq reg.aliases
    OBVIOUS
  <2> QED
    BY <1>3, <2>1, <2>2, <2>3
<1>11. CASE SetPromptAlias(p)
  <2> DEFINE v == req[p].call.v
             a == req[p].call.alias
             row == [name |-> n, alias |-> a, v |-> v]
             S == (reg.paliases \ AliasRows(reg.paliases, n, a)) \cup {row}
  <2>1. CASE HasPrompt(n, v) /\ Write([reg EXCEPT !.paliases = S]) /\ UNCHANGED <<births, deaths>>
    <3>1. IsFiniteSet(S)
      BY <1>0, Finite
    <3>2. \A x \in S : /\ x.name \in Names /\ x = [name |-> x.name, alias |-> x.alias, v |-> x.v]
                       /\ HasPrompt(x.name, x.v)
      BY SMTT(60), <1>0, <1>4, <2>1
    <3> HIDE DEF S
    <3>3. reg' = [reg EXCEPT !.paliases = S] /\ Write(reg')
      BY <2>1 DEF Write
    <3> QED
      BY <1>0, <2>1, <3>1, <3>2, <3>3, PromptAliasesWritten, Unnumbered
  <2> QED
    BY SMTT(60), <1>1, <1>3, <1>11, <2>1 DEF SetPromptAlias
<1> QED
  BY <1>5, <1>6, <1>7, <1>8, <1>9, <1>10, <1>11

-----------------------------------------------------------------------------
(* Version numbers.                                                         *)

\* SELECT MAX(version): the greatest version of a name, or 0.
LEMMA TopIs ==
  ASSUME NEW rows, IsFiniteSet(rows), NEW n, \A x \in Named(rows, n) : x.v \in Nat
  PROVE  /\ Top(rows, n) \in Nat
         /\ \A x \in Named(rows, n) : x.v <= Top(rows, n)
         /\ Top(rows, n) = 0 \/ \E x \in Named(rows, n) : x.v = Top(rows, n)
<1> DEFINE N == Named(rows, n)
           us == {x.v : x \in N}
           vs == us \cup {0}
           f == [x \in N |-> x.v]
           R == {e \in Nat \X Nat : e[1] < e[2]}
<1>1. IsFiniteSet(N)
  <2>1. N \in SUBSET rows
    BY DEF Named
  <2> HIDE DEF N
  <2> QED
    BY <2>1, FS_Subset
<1>2. IsFiniteSet(us)
  <2>1. f \in [N -> us] /\ \A y \in us : \E x \in N : y = f[x]
    OBVIOUS
  <2> HIDE DEF f, us, N
  <2> QED
    BY <1>1, <2>1, Image
<1>3. IsFiniteSet(vs) /\ vs # {} /\ vs \subseteq Nat
  <2>1. us \subseteq Nat
    OBVIOUS
  <2> HIDE DEF us
  <2> QED
    BY SMTT(60), <1>2, <2>1, FS_AddElement
<1>4. \E m \in vs : \A w \in vs : w <= m
  <2>1. \A x \in vs : <<x, x>> \notin R
    BY SMTT(60), <1>3
  <2>2. \A x, y, z \in vs : <<x, y>> \in R /\ <<y, z>> \in R => <<x, z>> \in R
    BY SMTT(60), <1>3
  <2>3. PICK m \in vs : \A x \in vs : <<m, x>> \notin R
    <3> HIDE DEF vs, R
    <3> QED
      BY <1>3, <2>1, <2>2, Maximal
  <2>4. ASSUME NEW w \in vs PROVE w <= m
    <3>1. m \in Nat /\ w \in Nat
      BY <1>3
    <3>2. ~(m < w)
      BY <2>3, <3>1
    <3> QED
      BY SMTT(60), <3>1, <3>2
  <2> QED
    BY <2>4
<1>5. Top(rows, n) = CHOOSE v \in vs : \A w \in vs : w <= v
  BY DEF Top
<1>6. Top(rows, n) \in vs /\ \A w \in vs : w <= Top(rows, n)
  BY <1>4, <1>5
<1> QED
  BY <1>3, <1>6

\* INSERT of the version that was read, in the same transaction.
LEMMA InsertVersionStatement ==
  ASSUME RegInv, NEW p \in Procs, InsertModelVersion(p), req[p].ver \in Nat
  PROVE  Result
<1> DEFINE n == req[p].call.name
           v == req[p].ver
           row == [name |-> n, v |-> v, stage |-> "None", desc |-> FALSE]
           S == reg.versions \cup {row}
<1>0. /\ Good(reg) /\ n \in Names /\ req[p].pc = "insert" /\ ~Unguarded(req[p])
      /\ IsFiniteSet(reg.versions) /\ births \in Nat /\ deaths \in Nat
  BY RegistryConstants DEF RegInv, Good, Stored, Tables, ReqInv, InsertModelVersion, InCall, Unguarded
<1>1. fk[req[p].conn] = TRUE
  <2>1. req[p].conn \in Conns
    BY <1>0 DEF RegInv, ConnInv
  <2> QED
    BY <1>0, <2>1, Guarded DEF RegInv
<1>2. CASE UNCHANGED <<reg, scan, births, deaths>>
  BY <1>2 DEF Result
<1>3. CASE /\ ~HasVersion(n, v) /\ HasModel(n)
           /\ Write([reg EXCEPT !.versions = S]) /\ births' = births + 1 /\ deaths' = deaths
  <2>1. row \notin reg.versions /\ \A x \in reg.versions : ~(x.name = n /\ x.v = v)
    BY <1>3 DEF HasVersion
  <2>2. IsFiniteSet(S) /\ Cardinality(S) = Cardinality(reg.versions) + 1
    <3> HIDE DEF row
    <3> QED
      BY <1>0, <2>1, FS_AddElement
  <2>3. /\ row.name = n /\ row.v = v /\ VersionRow(row)
    BY DEF VersionRow
  <2> HIDE DEF row
  <2>4. \A x \in reg.versions : x.name \in Names /\ x.v \in Nat /\ VersionRow(x) /\ \E m \in reg.models : m.name = x.name
    BY <1>0 DEF Good, Stored, Intact, Tables, VersionRow
  <2>5. \A x \in S : x.name \in Names /\ x.v \in Nat /\ VersionRow(x) /\ \E m \in reg.models : m.name = x.name
    BY <1>0, <1>3, <2>3, <2>4 DEF HasModel
  <2>6. \A x, y \in S : x.name = y.name /\ x.v = y.v => x = y
    BY <1>0, <2>1, <2>3 DEF Good, Stored
  <2>7. \A x \in reg.versions : \E y \in S : y.name = x.name /\ y.v = x.v
    OBVIOUS
  <2> HIDE DEF S
  <2>8. reg' = [reg EXCEPT !.versions = S] /\ Write(reg')
    BY <1>3 DEF Write
  <2>9. Good(reg') /\ reg'.versions = S /\ reg'.prompts = reg.prompts
    BY <1>0, <2>2, <2>5, <2>6, <2>7, <2>8, VersionsWritten DEF VersionRow
  <2>10. Cardinality(reg.versions) \in Nat
    BY <1>0, FS_CardinalityType
  <2>11. Counted
    BY SMTT(60), <1>0, <1>3, <2>2, <2>9, <2>10 DEF Counted
  <2> QED
    BY <2>8, <2>9, <2>11 DEF Result
<1> QED
  BY <1>1, <1>2, <1>3 DEF InsertModelVersion, Race

\* A version changes its description or its stage, and others may be archived.
LEMMA VersionStatements ==
  ASSUME RegInv, NEW p \in Procs, UpdateModelVersion(p) \/ TransitionModelStage(p)
  PROVE  Result
<1> DEFINE q == req[p].call
           upd == [x \in reg.versions |-> IF x.name = q.name /\ x.v = q.v THEN [x EXCEPT !.desc = TRUE] ELSE x]
           mov == [x \in reg.versions |->
                     CASE x.name = q.name /\ x.v = q.v -> [x EXCEPT !.stage = q.stage]
                       [] x.name = q.name /\ x.v # q.v /\ q.archive /\ q.stage = "Production" /\ x.stage = "Production"
                            -> [x EXCEPT !.stage = "Archived"]
                       [] OTHER -> x]
<1>0. \A x \in reg.versions : VersionRow(x)
  BY DEF RegInv, Good, Stored, VersionRow
<1>1. ASSUME NEW x, VersionRow(x), NEW y, NEW s, y = [x EXCEPT !.stage = s] \/ y = [x EXCEPT !.desc = s] \/ y = x
      PROVE  y.name = x.name /\ y.v = x.v /\ VersionRow(y)
  BY <1>1 DEF VersionRow
<1>2. ASSUME NEW x \in reg.versions PROVE upd[x].name = x.name /\ upd[x].v = x.v /\ VersionRow(upd[x])
  <2>1. upd[x] = [x EXCEPT !.desc = TRUE] \/ upd[x] = x
    OBVIOUS
  <2> HIDE DEF upd
  <2> QED
    BY <1>0, <1>1, <2>1
<1>3. ASSUME NEW x \in reg.versions PROVE mov[x].name = x.name /\ mov[x].v = x.v /\ VersionRow(mov[x])
  <2>1. mov[x] = [x EXCEPT !.stage = q.stage] \/ mov[x] = [x EXCEPT !.stage = "Archived"] \/ mov[x] = x
    OBVIOUS
  <2> HIDE DEF mov
  <2> QED
    BY <1>0, <1>1, <2>1
<1>4. ASSUME NEW S, NoWrite \/ (reg' = [reg EXCEPT !.versions = S] /\ fresh' = {} /\ scan' = Watch(reg')),
             UNCHANGED <<births, deaths>>, NEW f, Remaps(f, S)
      PROVE  Result
  <2> HIDE DEF upd, mov, q
  <2>1. CASE NoWrite
    BY <1>4, <2>1 DEF Result, NoWrite
  <2>2. CASE reg' = [reg EXCEPT !.versions = S] /\ fresh' = {} /\ scan' = Watch(reg')
    BY <1>4, <2>2, VersionsMapped
  <2> QED
    BY <1>4, <2>1, <2>2
<1>5. CASE UpdateModelVersion(p)
  <2> DEFINE S == {upd[x] : x \in reg.versions}
  <2>1. S = {IF x.name = q.name /\ x.v = q.v THEN [x EXCEPT !.desc = TRUE] ELSE x : x \in reg.versions}
    OBVIOUS
  <2>2. /\ NoWrite \/ (reg' = [reg EXCEPT !.versions = S] /\ fresh' = {} /\ scan' = Watch(reg'))
        /\ UNCHANGED <<births, deaths>>
    <3> HIDE DEF S
    <3> QED
      BY <1>5, <2>1 DEF UpdateModelVersion, Exec, Write
  <2>3. upd \in [reg.versions -> S] /\ \A y \in S : \E x \in reg.versions : y = upd[x]
    OBVIOUS
  <2> HIDE DEF upd, S
  <2>4. Remaps(upd, S)
    BY <1>2, <2>3 DEF Remaps
  <2> QED
    BY <1>4, <2>2, <2>4
<1>6. CASE TransitionModelStage(p)
  <2> DEFINE S == {mov[x] : x \in reg.versions}
  <2>1. S = Transitioned(q.name, q.v, q.stage, q.archive)
    BY DEF Transitioned
  <2>2. /\ NoWrite \/ (reg' = [reg EXCEPT !.versions = S] /\ fresh' = {} /\ scan' = Watch(reg'))
        /\ UNCHANGED <<births, deaths>>
    <3> HIDE DEF S
    <3> QED
      BY <1>6, <2>1 DEF TransitionModelStage, Exec, Write
  <2>3. mov \in [reg.versions -> S] /\ \A y \in S : \E x \in reg.versions : y = mov[x]
    OBVIOUS
  <2> HIDE DEF mov, S
  <2>4. Remaps(mov, S)
    BY <1>3, <2>3 DEF Remaps
  <2> QED
    BY <1>4, <2>2, <2>4
<1> QED
  BY <1>5, <1>6

\* A renamed table: its rows change the one name, and nothing else.
LEMMA RenamedRows ==
  ASSUME NEW rows, IsFiniteSet(rows), NEW n, NEW m \in Names,
         \A x \in rows : x.name \in Names /\ "name" \in DOMAIN x
  PROVE  /\ IsFiniteSet(Renamed(rows, n, m)) /\ \A y \in Renamed(rows, n, m) : y.name \in Names
         /\ (\A x, y \in rows : [x EXCEPT !.name = IF @ = n THEN m ELSE @] = [y EXCEPT !.name = IF @ = n THEN m ELSE @] => x = y)
              => Cardinality(Renamed(rows, n, m)) = Cardinality(rows)
<1> DEFINE f == [x \in rows |-> [x EXCEPT !.name = IF @ = n THEN m ELSE @]]
           T == Renamed(rows, n, m)
<1>1. f \in [rows -> T] /\ \A y \in T : \E x \in rows : y = f[x]
  BY DEF Renamed
<1>2. \A y \in T : y.name \in Names
  BY DEF Renamed
<1>3. (\A x, y \in rows : [x EXCEPT !.name = IF @ = n THEN m ELSE @] = [y EXCEPT !.name = IF @ = n THEN m ELSE @] => x = y)
        => \A x, y \in rows : f[x] = f[y] => x = y
  OBVIOUS
<1> HIDE DEF f, T
<1>4. IsFiniteSet(T)
  BY <1>1, Image
<1>5. (\A x, y \in rows : f[x] = f[y] => x = y) => Cardinality(T) = Cardinality(rows)
  BY <1>1, SameSize
<1> QED
  BY <1>2, <1>3, <1>4, <1>5 DEF T

Moved(a, n, m) == IF a = n THEN m ELSE a

\* What a rename makes of one row of a table.
LEMMA RenamedRow ==
  ASSUME NEW x, NEW y, NEW n, NEW m, y = [x EXCEPT !.name = IF @ = n THEN m ELSE @]
  PROVE  /\ x = [name |-> x.name, desc |-> x.desc]
              => y.name = Moved(x.name, n, m) /\ y = [name |-> y.name, desc |-> y.desc]
         /\ x = [name |-> x.name, key |-> x.key]
              => y.name = Moved(x.name, n, m) /\ y = [name |-> y.name, key |-> y.key]
         /\ x = [name |-> x.name, v |-> x.v, key |-> x.key]
              => y.name = Moved(x.name, n, m) /\ y.v = x.v /\ y = [name |-> y.name, v |-> y.v, key |-> y.key]
         /\ x = [name |-> x.name, alias |-> x.alias, v |-> x.v]
              => y.name = Moved(x.name, n, m) /\ y.v = x.v /\ y = [name |-> y.name, alias |-> y.alias, v |-> y.v]
<1>1. CASE x = [name |-> x.name, desc |-> x.desc]
  BY <1>1 DEF Moved
<1>2. CASE x = [name |-> x.name, key |-> x.key]
  BY <1>2 DEF Moved
<1>3. CASE x = [name |-> x.name, v |-> x.v, key |-> x.key]
  BY <1>3 DEF Moved
<1>4. CASE x = [name |-> x.name, alias |-> x.alias, v |-> x.v]
  BY <1>4 DEF Moved
<1> QED
  BY <1>1, <1>2, <1>3, <1>4

\* The transaction of a rename: parents and children move together, and nobody's keys
\* are taken.
LEMMA RenameStatement ==
  ASSUME RegInv, NEW p \in Procs, RenameTx(p)
  PROVE  Result
<1> DEFINE n == req[p].call.name
           m == req[p].call.to
           T == [t \in Tables |-> IF t \in {"prompts", "paliases"} THEN reg[t] ELSE Renamed(reg[t], n, m)]
<1>0. /\ Good(reg) /\ n \in Names /\ m \in Names /\ births \in Nat /\ deaths \in Nat
      /\ UNCHANGED <<births, deaths>>
  BY RegistryConstants DEF RegInv, ReqInv, RenameTx, InCall
<1>1. CASE NoWrite
  BY <1>0, <1>1 DEF NoWrite, Result
<1>2. CASE KeysOf(n) \cap KeysOf(m) = {} /\ reg' = T /\ Write(reg')
  <2> HIDE DEF n, m
  <2>1. /\ T = [t \in Tables |-> T[t]]
        /\ T.models = Renamed(reg.models, n, m) /\ T.versions = Renamed(reg.versions, n, m)
        /\ T.mtags = Renamed(reg.mtags, n, m) /\ T.vtags = Renamed(reg.vtags, n, m)
        /\ T.aliases = Renamed(reg.aliases, n, m) /\ T.prompts = reg.prompts /\ T.paliases = reg.paliases
        /\ \A t \in Tables : T[t] = reg[t] \/ T[t] = Renamed(reg[t], n, m)
    BY DEF Tables
  <2> HIDE DEF T
  <2>2. \A t \in Tables : IsFiniteSet(reg[t]) /\ \A x \in reg[t] : x.name \in Names /\ "name" \in DOMAIN x
    <3>1. \A t \in Tables : IsFiniteSet(reg[t]) /\ \A x \in reg[t] : x.name \in Names
      BY <1>0 DEF Good, Stored
    <3>2. \A x \in reg.models : "name" \in DOMAIN x
      BY SMTT(60), <1>0 DEF Good, Stored
    <3>3. \A x \in reg.versions : "name" \in DOMAIN x
      <4>1. \A x \in reg.versions : VersionRow(x)
        BY <1>0 DEF Good, Stored, VersionRow
      <4>2. ASSUME NEW x, VersionRow(x) PROVE "name" \in DOMAIN x
        BY SMTT(60), <4>2 DEF VersionRow
      <4> QED
        BY <4>1, <4>2
    <3>4. \A x \in reg.mtags : "name" \in DOMAIN x
      BY SMTT(60), <1>0 DEF Good, Stored
    <3>5. \A x \in reg.vtags : "name" \in DOMAIN x
      BY SMTT(60), <1>0 DEF Good, Stored
    <3>6. \A x \in reg.aliases : "name" \in DOMAIN x
      BY SMTT(60), <1>0 DEF Good, Stored
    <3>7. \A x \in reg.paliases : "name" \in DOMAIN x
      BY SMTT(60), <1>0 DEF Good, Stored
    <3>8. \A x \in reg.prompts : "name" \in DOMAIN x
      BY SMTT(60), <1>0 DEF Good, Stored
    <3> QED
      BY <3>1, <3>2, <3>3, <3>4, <3>5, <3>6, <3>7, <3>8 DEF Tables
  <2>3. \A t \in Tables : IsFiniteSet(T[t]) /\ \A x \in T[t] : x.name \in Names
    BY SMTT(60), <1>0, <2>1, <2>2, RenamedRows
  <2>4. \A y \in T.models : \E x \in reg.models :
          y.name = Moved(x.name, n, m) /\ y = [name |-> y.name, desc |-> y.desc]
    <3>1. ASSUME NEW y \in T.models PROVE \E x \in reg.models :
            y.name = Moved(x.name, n, m) /\ y = [name |-> y.name, desc |-> y.desc]
      <4>1. PICK x \in reg.models : y = [x EXCEPT !.name = IF @ = n THEN m ELSE @]
        BY <2>1 DEF Renamed
      <4>2. x = [name |-> x.name, desc |-> x.desc]
        BY <1>0 DEF Good, Stored
      <4> QED
        BY SMTT(60), <4>1, <4>2, RenamedRow
    <3> QED
      BY <3>1
  <2>5. \A y \in T.versions : \E x \in reg.versions :
          /\ y.name = Moved(x.name, n, m) /\ y.v = x.v /\ y.v \in Nat
          /\ VersionRow(y)
          /\ y.stage = x.stage /\ y.desc = x.desc
    <3>1. ASSUME NEW y \in T.versions PROVE \E x \in reg.versions :
            /\ y.name = Moved(x.name, n, m) /\ y.v = x.v /\ y.v \in Nat
            /\ VersionRow(y)
            /\ y.stage = x.stage /\ y.desc = x.desc
      <4>1. PICK x \in reg.versions : y = [x EXCEPT !.name = IF @ = n THEN m ELSE @]
        BY <2>1 DEF Renamed
      <4>2. VersionRow(x) /\ x.v \in Nat
        BY <1>0 DEF Good, Stored, VersionRow
      <4> QED
        <5>1. /\ VersionRow(y) /\ y.name = Moved(x.name, n, m) /\ y.v = x.v
              /\ y.stage = x.stage /\ y.desc = x.desc
          BY <4>1, <4>2 DEF VersionRow, Moved
        <5> QED
          BY <4>2, <5>1
    <3> QED
      BY <3>1
  <2>6. \A y \in T.mtags : \E x \in reg.mtags :
          y.name = Moved(x.name, n, m) /\ y = [name |-> y.name, key |-> y.key]
    <3>1. ASSUME NEW y \in T.mtags PROVE \E x \in reg.mtags :
            y.name = Moved(x.name, n, m) /\ y = [name |-> y.name, key |-> y.key]
      <4>1. PICK x \in reg.mtags : y = [x EXCEPT !.name = IF @ = n THEN m ELSE @]
        BY <2>1 DEF Renamed
      <4>2. x = [name |-> x.name, key |-> x.key]
        BY <1>0 DEF Good, Stored
      <4> QED
        BY SMTT(60), <4>1, <4>2, RenamedRow
    <3> QED
      BY <3>1
  <2>7. \A y \in T.vtags : \E x \in reg.vtags :
          y.name = Moved(x.name, n, m) /\ y.v = x.v /\ y = [name |-> y.name, v |-> y.v, key |-> y.key]
    <3>1. ASSUME NEW y \in T.vtags PROVE \E x \in reg.vtags :
            y.name = Moved(x.name, n, m) /\ y.v = x.v /\ y = [name |-> y.name, v |-> y.v, key |-> y.key]
      <4>1. PICK x \in reg.vtags : y = [x EXCEPT !.name = IF @ = n THEN m ELSE @]
        BY <2>1 DEF Renamed
      <4>2. x = [name |-> x.name, v |-> x.v, key |-> x.key]
        BY <1>0 DEF Good, Stored
      <4> QED
        BY SMTT(60), <4>1, <4>2, RenamedRow
    <3> QED
      BY <3>1
  <2>8. \A y \in T.aliases : \E x \in reg.aliases :
          y.name = Moved(x.name, n, m) /\ y.v = x.v /\ y = [name |-> y.name, alias |-> y.alias, v |-> y.v]
    <3>1. ASSUME NEW y \in T.aliases PROVE \E x \in reg.aliases :
            y.name = Moved(x.name, n, m) /\ y.v = x.v /\ y = [name |-> y.name, alias |-> y.alias, v |-> y.v]
      <4>1. PICK x \in reg.aliases : y = [x EXCEPT !.name = IF @ = n THEN m ELSE @]
        BY <2>1 DEF Renamed
      <4>2. x = [name |-> x.name, alias |-> x.alias, v |-> x.v]
        BY <1>0 DEF Good, Stored
      <4> QED
        BY SMTT(60), <4>1, <4>2, RenamedRow
    <3> QED
      BY <3>1
  <2>9. \A x \in reg.models : \E y \in T.models : y.name = Moved(x.name, n, m)
    <3>1. ASSUME NEW x \in reg.models PROVE \E y \in T.models : y.name = Moved(x.name, n, m)
      <4>1. PICK y \in T.models : y = [x EXCEPT !.name = IF @ = n THEN m ELSE @]
        <5>1. [x EXCEPT !.name = IF @ = n THEN m ELSE @] \in Renamed(reg.models, n, m)
          BY DEF Renamed
        <5> QED
          BY <2>1, <5>1
      <4>2. x = [name |-> x.name, desc |-> x.desc]
        BY <1>0 DEF Good, Stored
      <4> QED
        BY SMTT(60), <4>1, <4>2, RenamedRow
    <3> QED
      BY <3>1
  <2>10. \A x \in reg.versions : \E y \in T.versions : y.name = Moved(x.name, n, m) /\ y.v = x.v
    <3>1. ASSUME NEW x \in reg.versions PROVE \E y \in T.versions : y.name = Moved(x.name, n, m) /\ y.v = x.v
      <4>1. PICK y \in T.versions : y = [x EXCEPT !.name = IF @ = n THEN m ELSE @]
        <5>1. [x EXCEPT !.name = IF @ = n THEN m ELSE @] \in Renamed(reg.versions, n, m)
          BY DEF Renamed
        <5> QED
          BY <2>1, <5>1
      <4>2. VersionRow(x) /\ x.v \in Nat
        BY <1>0 DEF Good, Stored, VersionRow
      <4> QED
        <5>1. /\ VersionRow(y) /\ y.name = Moved(x.name, n, m) /\ y.v = x.v
              /\ y.stage = x.stage /\ y.desc = x.desc
          BY <4>1, <4>2 DEF VersionRow, Moved
        <5> QED
          BY <4>2, <5>1
    <3> QED
      BY <3>1
  <2>11. Intact(T)
    <3>1. \A x \in T.versions \cup T.mtags : \E y \in T.models : y.name = x.name
      <4>1. ASSUME NEW x \in T.versions \cup T.mtags PROVE \E y \in T.models : y.name = x.name
        <5>1. PICK z \in reg.versions \cup reg.mtags : x.name = Moved(z.name, n, m)
          BY <2>5, <2>6
        <5>2. PICK w \in reg.models : w.name = z.name
          BY <1>0 DEF Good, Intact
        <5> QED
          BY <2>9, <5>1, <5>2
      <4> QED
        BY <4>1
    <3>2. ASSUME NEW x \in T.vtags \cup T.aliases PROVE \E y \in T.versions : y.name = x.name /\ y.v = x.v
      <4>1. PICK z \in reg.vtags \cup reg.aliases : x.name = Moved(z.name, n, m) /\ x.v = z.v
        BY <2>7, <2>8
      <4>2. PICK w \in reg.versions : w.name = z.name /\ w.v = z.v
        BY <1>0 DEF Good, Intact
      <4> QED
        BY <2>10, <4>1, <4>2
    <3> QED
      BY <1>0, <2>1, <3>1, <3>2 DEF Good, Intact
  <2>12. ASSUME NEW x \in reg.versions, NEW y \in reg.versions,
                Moved(x.name, n, m) = Moved(y.name, n, m), x.v = y.v
         PROVE  x = y
    <3>1. ASSUME NEW a \in reg.versions, NEW b \in reg.versions, a.name = n, b.name = m, a.v = b.v PROVE FALSE
      <4>1. <<"versions", a.v>> \in KeysOf(n) /\ <<"versions", b.v>> \in KeysOf(m)
        BY <3>1 DEF KeysOf, Named
      <4> QED
        BY <1>2, <3>1, <4>1
    <3>2. x.name = y.name
      BY <2>12, <3>1 DEF Moved
    <3> QED
      BY <1>0, <2>12, <3>2 DEF Good, Stored
  <2>13. ASSUME NEW x \in T.versions, NEW y \in T.versions, x.name = y.name, x.v = y.v PROVE x = y
    <3>1. PICK a \in reg.versions : x.name = Moved(a.name, n, m) /\ x.v = a.v
            /\ VersionRow(x)
            /\ x.stage = a.stage /\ x.desc = a.desc
      BY <2>5
    <3>2. PICK b \in reg.versions : y.name = Moved(b.name, n, m) /\ y.v = b.v
            /\ VersionRow(y)
            /\ y.stage = b.stage /\ y.desc = b.desc
      BY <2>5
    <3>3. a = b
      BY <2>12, <2>13, <3>1, <3>2
    <3> QED
      BY <2>13, <3>1, <3>2, <3>3 DEF VersionRow
  <2>14. Stored(T)
    BY <1>0, <2>1, <2>3, <2>4, <2>5, <2>6, <2>7, <2>8, <2>13 DEF Stored, Good, VersionRow
  <2>15. Cardinality(T.versions) = Cardinality(reg.versions) /\ Cardinality(reg.versions) \in Nat
    <3>1. ASSUME NEW x \in reg.versions, NEW y \in reg.versions,
                 [x EXCEPT !.name = IF @ = n THEN m ELSE @] = [y EXCEPT !.name = IF @ = n THEN m ELSE @]
          PROVE  x = y
      <4>1. /\ [x EXCEPT !.name = IF @ = n THEN m ELSE @].name = Moved(x.name, n, m)
            /\ [x EXCEPT !.name = IF @ = n THEN m ELSE @].v = x.v
        BY SMTT(60), <1>0 DEF Good, Stored, Moved
      <4>2. /\ [y EXCEPT !.name = IF @ = n THEN m ELSE @].name = Moved(y.name, n, m)
            /\ [y EXCEPT !.name = IF @ = n THEN m ELSE @].v = y.v
        BY SMTT(60), <1>0 DEF Good, Stored, Moved
      <4> QED
        BY <2>12, <3>1, <4>1, <4>2
    <3>2. IsFiniteSet(reg.versions) /\ \A x \in reg.versions : x.name \in Names /\ "name" \in DOMAIN x
      BY <2>2 DEF Tables
    <3>3. Cardinality(reg.versions) \in Nat
      BY <3>2, FS_CardinalityType
    <3> QED
      BY SMTT(60), <1>0, <2>1, <3>1, <3>2, <3>3, RenamedRows
  <2>16. reg'.versions = T.versions /\ reg'.prompts = reg.prompts /\ Good(reg')
    BY <1>2, <2>1, <2>11, <2>14 DEF Good
  <2>17. Counted
    BY <1>0, <2>15, <2>16 DEF Counted
  <2> QED
    BY <1>2, <2>16, <2>17 DEF Result
<1> QED
  BY <1>1, <1>2 DEF RenameTx, Write

-----------------------------------------------------------------------------
(* Read snapshots.                                                          *)

\* What a goroutine about to insert a prompt has read still holds.
Promised(r) ==
  r.call.op = "createPrompt" =>
    /\ r.ver = Top(reg.prompts, r.call.name) + 1
    /\ \A x \in Named(reg.prompts, r.call.name) : x.content # r.call.content

FreshInv ==
  /\ fresh \subseteq Procs
  /\ \A p \in Procs : req[p].pc = "insert" => req[p].ver \in Nat
  /\ \A p \in fresh : req[p].pc = "insert" /\ Promised(req[p])

\* p goes anywhere but to an insert, and nobody else moves.
Leaves(p) == req'[p].pc # "insert" /\ \A q \in Procs : q # p => req'[q] = req[q]

\* A commit ends every snapshot, and whoever leaves gives its own up.
Outdates(p) ==
  \/ fresh' = {}
  \/ fresh' = fresh \ {p} /\ reg' = reg
  \/ fresh' = fresh /\ reg' = reg /\ req[p].pc # "insert"

\* The moves of a request that do not start a snapshot.
LEMMA Leaving ==
  ASSUME ReqInv, NEW p \in Procs, NEW pc, pc # "insert",
         Done(p) \/ Goto(p, pc) \/ Continue(p, pc) \/ AfterTag(p) \/ Race(p)
  PROVE  Leaves(p)
<1>0. Whole(req[p]) /\ req = [q \in Procs |-> req[q]] /\ IdleReq.pc = "idle"
  BY DEF ReqInv, IdleReq
<1>1. CASE Done(p)
  BY <1>0, <1>1 DEF Done, Leaves
<1>2. CASE Goto(p, pc)
  BY <1>0, <1>2 DEF Goto, Leaves, Whole
<1>3. CASE AfterTag(p)
  <2>1. PICK r : /\ r = IF req[p].tags = <<>> THEN IdleReq
                        ELSE [req[p] EXCEPT !.tags = Tail(req[p].tags),
                                            !.pc = IF Len(req[p].tags) = 1 THEN "reload" ELSE "tagCheck"]
                 /\ req' = [req EXCEPT ![p] = r]
    BY <1>3 DEF AfterTag
  <2>2. r.pc # "insert"
    BY <1>0, <2>1 DEF Whole
  <2> QED
    BY <1>0, <2>1, <2>2 DEF Leaves
<1>4. CASE Race(p)
  <2>1. PICK r : /\ r = IF req[p].tries + 1 = MaxAttempts THEN IdleReq
                        ELSE [req[p] EXCEPT !.pc = "snapshot", !.conn = NoConn, !.tries = req[p].tries + 1]
                 /\ req' = [req EXCEPT ![p] = r]
    BY <1>4 DEF Race
  <2>2. r.pc # "insert"
    BY <1>0, <2>1 DEF Whole
  <2> QED
    BY <1>0, <2>1, <2>2 DEF Leaves
<1> QED
  BY <1>1, <1>2, <1>3, <1>4 DEF Continue

\* Such a move keeps what the others have read.
LEMMA FreshKept ==
  ASSUME FreshInv, NEW p \in Procs, Leaves(p), Outdates(p)
  PROVE  FreshInv'
<1>1. p \notin fresh' /\ fresh' \subseteq fresh /\ (fresh' = {} \/ reg' = reg)
  BY DEF FreshInv, Outdates
<1>2. \A q \in Procs : req'[q].pc = "insert" => req'[q].ver \in Nat
  BY DEF FreshInv, Leaves
<1>3. ASSUME NEW q \in fresh' PROVE req'[q].pc = "insert" /\ Promised(req[q])' /\ q \in Procs
  <2>1. q \in Procs /\ q # p /\ req'[q] = req[q] /\ reg' = reg
    BY <1>1, <1>3 DEF FreshInv, Leaves
  <2>2. req[q].pc = "insert" /\ Promised(req[q])
    BY <1>1, <1>3 DEF FreshInv
  <2> QED
    BY <2>1, <2>2 DEF Promised
<1> QED
  BY <1>1, <1>2, <1>3 DEF FreshInv

\* A snapshot reads the next version, and for a prompt that its content is new.
LEMMA FreshSnapshot ==
  ASSUME RegInv, FreshInv, NEW p \in Procs, NEW c, NEW v \in Nat, reg' = reg, fresh' = fresh \cup {p},
         req' = [req EXCEPT ![p].pc = "insert", ![p].conn = c, ![p].ver = v],
         req[p].call.op = "createPrompt" =>
           /\ v = Top(reg.prompts, req[p].call.name) + 1
           /\ \A x \in Named(reg.prompts, req[p].call.name) : x.content # req[p].call.content
  PROVE  FreshInv'
<1>1. /\ req'[p].pc = "insert" /\ req'[p].ver = v /\ req'[p].call = req[p].call
      /\ \A q \in Procs : q # p => req'[q] = req[q]
  BY SMTT(60) DEF RegInv, ReqInv, Whole
<1>2. Promised(req[p])'
  BY <1>1 DEF Promised
<1>3. ASSUME NEW q \in fresh, q # p PROVE req'[q].pc = "insert" /\ Promised(req[q])'
  <2>1. q \in Procs /\ req'[q] = req[q] /\ req[q].pc = "insert" /\ Promised(req[q])
    BY <1>1, <1>3 DEF FreshInv
  <2> QED
    BY <2>1 DEF Promised
<1> QED
  BY <1>1, <1>2, <1>3 DEF FreshInv

\* Versions of models and of prompts are numbers.
LEMMA TopNat ==
  ASSUME RegInv, Numbered(reg.prompts), NEW n \in Names
  PROVE  Top(reg.versions, n) \in Nat /\ Top(reg.prompts, n) \in Nat
<1>1. IsFiniteSet(reg.versions) /\ IsFiniteSet(reg.prompts)
  BY DEF RegInv, Good, Stored, Tables
<1>2. \A x \in Named(reg.versions, n) : x.v \in Nat
  BY DEF RegInv, Good, Stored, Named
<1>3. \A x \in Named(reg.prompts, n) : x.v \in Nat
  <2>1. IsFiniteSet(Named(reg.prompts, n))
    <3>1. Named(reg.prompts, n) \in SUBSET reg.prompts
      BY DEF Named
    <3> QED
      BY <1>1, <3>1, FS_Subset
  <2>2. Cardinality(Named(reg.prompts, n)) \in Nat
    BY <2>1, FS_CardinalityType
  <2> QED
    BY SMTT(60), <2>2 DEF Numbered
<1> QED
  BY <1>1, <1>2, <1>3, TopIs

\* Every step of a request.
LEMMA FreshSteps ==
  ASSUME RegInv, Numbered(reg.prompts), FreshInv, NEW p \in Procs, Step(p)
  PROVE  FreshInv'
<1>0. ReqInv
  BY DEF RegInv
<1>1. ASSUME NEW ok, NEW T, NEW pc, Exec(p, ok, T, pc), pc # "insert", req[p].pc # "insert"
      PROVE  Leaves(p) /\ Outdates(p)
  BY <1>0, <1>1, Leaving DEF Exec, Write, NoWrite, Outdates
<1>2. ASSUME NEW found, NEW pc, Query(p, found, pc), pc # "insert", req[p].pc # "insert"
      PROVE  Leaves(p) /\ Outdates(p)
  BY <1>0, <1>2, Leaving DEF Query, NoWrite, Outdates
<1>3. ASSUME NEW parent, NEW T, Upsert(p, parent, T), req[p].pc # "insert"
      PROVE  Leaves(p) /\ Outdates(p)
  BY <1>0, <1>3, Leaving, "tag" # "insert" DEF Upsert, Write, NoWrite, Outdates
<1>4. NextTag(p) # "insert"
  BY DEF NextTag
<1>5. ASSUME CreateRegisteredModel(p) \/ UpdateRegisteredModel(p) \/ DeleteRegisteredModelTag(p)
             \/ UpdateModelVersion(p) \/ TransitionModelStage(p) \/ DeleteModelVersionTag(p) \/ DeleteModelAlias(p)
      PROVE  Leaves(p) /\ Outdates(p)
  <2>1. CASE CreateRegisteredModel(p)
    BY <1>1, <1>4, <2>1 DEF CreateRegisteredModel, InCall
  <2>2. CASE UpdateRegisteredModel(p)
    BY <1>1, <2>2 DEF UpdateRegisteredModel, InCall
  <2>3. CASE DeleteRegisteredModelTag(p)
    BY <1>1, <2>3 DEF DeleteRegisteredModelTag, InCall
  <2>4. CASE UpdateModelVersion(p)
    BY <1>1, <2>4 DEF UpdateModelVersion, InCall
  <2>5. CASE TransitionModelStage(p)
    BY <1>1, <2>5 DEF TransitionModelStage, InCall
  <2>6. CASE DeleteModelVersionTag(p)
    BY <1>1, <2>6 DEF DeleteModelVersionTag, InCall
  <2>7. CASE DeleteModelAlias(p)
    BY <1>1, <2>7 DEF DeleteModelAlias, InCall
  <2> QED
    BY <1>5, <2>1, <2>2, <2>3, <2>4, <2>5, <2>6, <2>7
<1>6. ASSUME CheckModelForTag(p) \/ Reload(p) \/ CheckModelForVersion(p) \/ CheckVersion(p) \/ CheckPrompt(p)
      PROVE  Leaves(p) /\ Outdates(p)
  BY <1>2, <1>6 DEF CheckModelForTag, Reload, CheckModelForVersion, CheckVersion, CheckPrompt, InCall
<1>7. ASSUME SetRegisteredModelTag(p) \/ SetModelVersionTag(p) \/ SetModelAlias(p) \/ SetPromptAlias(p)
      PROVE  Leaves(p) /\ Outdates(p)
  <2>1. CASE SetRegisteredModelTag(p)
    BY <1>3, <2>1 DEF SetRegisteredModelTag, InCall
  <2>2. CASE SetModelVersionTag(p)
    BY <1>3, <2>2 DEF SetModelVersionTag, InCall
  <2>3. CASE SetModelAlias(p)
    BY <1>3, <2>3 DEF SetModelAlias, InCall
  <2>4. CASE SetPromptAlias(p)
    BY <1>3, <2>4 DEF SetPromptAlias, InCall
  <2> QED
    BY <1>7, <2>1, <2>2, <2>3, <2>4
<1>8. ASSUME DeleteRegisteredModel(p) \/ DeleteModelVersion(p)
      PROVE  Leaves(p) /\ Outdates(p)
  <2>1. Done(p) /\ req[p].pc # "insert" /\ (fresh' = {} \/ NoWrite)
    BY <1>8 DEF DeleteRegisteredModel, DeleteModelVersion, InCall, Write
  <2> QED
    BY <1>0, <2>1, Leaving, "tag" # "insert" DEF NoWrite, Outdates
<1>9. ASSUME RenameCheckSource(p)
      PROVE  Leaves(p) /\ Outdates(p)
  <2>1. req[p].pc # "insert" /\ NoWrite
    BY <1>9 DEF RenameCheckSource, InCall
  <2>2. CASE Done(p)
    BY <1>0, <2>1, <2>2, Leaving, "tag" # "insert" DEF NoWrite, Outdates
  <2>3. CASE \E c \in Free : req' = [req EXCEPT ![p].pc = "checkTarget", ![p].conn = c]
    BY <1>0, <2>1, <2>3 DEF NoWrite, Outdates, Leaves, ReqInv, Whole
  <2> QED
    BY <1>9, <2>2, <2>3 DEF RenameCheckSource
<1>10. ASSUME RenameCheckTarget(p) \/ RenamePragma(p) \/ RenameTx(p) \/ RenameReload(p) \/ RestoreForeignKeys(p)
      PROVE  Leaves(p) /\ Outdates(p)
  <2>1. PICK pc \in {"pragma", "tx", "reload", "restore"} :
          (Done(p) \/ Goto(p, pc)) /\ req[p].pc # "insert" /\ (fresh' = {} \/ NoWrite)
    BY <1>10 DEF RenameCheckTarget, RenamePragma, RenameTx, RenameReload, RestoreForeignKeys, InCall, Write
  <2> QED
    BY <1>0, <2>1, Leaving DEF NoWrite, Outdates
<1>11. ASSUME InsertModelVersion(p)
       PROVE  Leaves(p) /\ Outdates(p)
  <2>1. CASE Done(p) /\ fresh' = fresh \ {p} /\ reg' = reg
    BY <1>0, <2>1, Leaving, "tag" # "insert" DEF Outdates
  <2>2. CASE Race(p)
    BY <1>0, <2>2, Leaving, "tag" # "insert" DEF Outdates, Race
  <2>3. CASE fresh' = {} /\ req' = [req EXCEPT ![p].pc = NextTag(p), ![p].conn = NoConn]
    <3>1. PICK pc : pc = NextTag(p)
      OBVIOUS
    <3> QED
      BY SMTT(60), <1>0, <1>4, <2>3, <3>1 DEF Outdates, Leaves, ReqInv, Whole
  <2> QED
    BY <1>11, <2>1, <2>2, <2>3 DEF InsertModelVersion, Write
<1>12. ASSUME InsertPrompt(p)
       PROVE  Leaves(p) /\ Outdates(p)
  <2>1. CASE Done(p) /\ fresh' = {}
    BY <1>0, <2>1, Leaving, "tag" # "insert" DEF Outdates
  <2>2. CASE Race(p)
    BY <1>0, <2>2, Leaving, "tag" # "insert" DEF Outdates, Race
  <2> QED
    BY <1>12, <2>1, <2>2 DEF InsertPrompt, Write
<1>13. CASE SelectNextVersion(p)
  <2>1. req[p].call.op = "createVersion" /\ req[p].call.name \in Names /\ reg' = reg /\ fresh' = fresh \cup {p}
    BY <1>0, <1>13, RegistryConstants DEF SelectNextVersion, InCall, ReqInv
  <2>2. PICK v : v = Top(reg.versions, req[p].call.name) + 1
    OBVIOUS
  <2>3. v \in Nat
    BY SMTT(60), <2>1, <2>2, TopNat
  <2>4. PICK c \in Free : req' = [req EXCEPT ![p].pc = "insert", ![p].conn = c, ![p].ver = v]
    BY <1>13, <2>2 DEF SelectNextVersion
  <2> QED
    BY <2>1, <2>3, <2>4, FreshSnapshot
<1>14. CASE SelectPromptVersion(p)
  <2> DEFINE q == req[p].call
             same == {x \in Named(reg.prompts, q.name) : x.content = q.content}
  <2>1. req[p].pc # "insert" /\ q.name \in Names /\ reg' = reg
    BY <1>0, <1>14, RegistryConstants DEF SelectPromptVersion, InCall, ReqInv
  <2>2. CASE same # {}
    BY <1>0, <1>14, <2>1, <2>2, Leaving, FreshKept, "tag" # "insert" DEF SelectPromptVersion, Outdates
  <2>3. CASE same = {}
    <3>2. PICK v : v = Top(reg.prompts, q.name) + 1
      OBVIOUS
    <3>3. v \in Nat
      BY SMTT(60), <2>1, <3>2, TopNat
    <3>4. PICK c \in Free : req' = [req EXCEPT ![p].pc = "insert", ![p].conn = c, ![p].ver = v]
      BY <1>14, <2>3, <3>2 DEF SelectPromptVersion
    <3>5. fresh' = fresh \cup {p} /\ \A x \in Named(reg.prompts, q.name) : x.content # q.content
      BY <1>14, <2>3 DEF SelectPromptVersion
    <3> QED
      BY <2>1, <3>2, <3>3, <3>4, <3>5, FreshSnapshot
  <2> QED
    BY <2>2, <2>3
<1> QED
  BY <1>5, <1>6, <1>7, <1>8, <1>9, <1>10, <1>11, <1>12, <1>13, <1>14, FreshKept DEF Step

-----------------------------------------------------------------------------
(* Prompts.                                                                 *)

\* The greatest version of a prompt is the number of its versions.
LEMMA TopOfPrompt ==
  ASSUME Good(reg), Numbered(reg.prompts), NEW n \in Names
  PROVE  /\ IsFiniteSet(Named(reg.prompts, n)) /\ Cardinality(Named(reg.prompts, n)) \in Nat
         /\ Top(reg.prompts, n) = Cardinality(Named(reg.prompts, n))
<1> DEFINE rows == Named(reg.prompts, n)
           k == Cardinality(rows)
<1>1. IsFiniteSet(reg.prompts)
  BY DEF Good, Stored, Tables
<1>2. rows \in SUBSET reg.prompts /\ {x.v : x \in rows} = 1 .. k
  BY DEF Named, Numbered
<1>3. IsFiniteSet(rows) /\ k \in Nat
  <2> HIDE DEF rows
  <2> QED
    BY <1>1, <1>2, FS_Subset, FS_CardinalityType
<1> HIDE DEF k
<1>4. \A x \in Named(reg.prompts, n) : x.v \in Nat /\ x.v <= k
  BY SMTT(60), <1>2, <1>3
<1>5. /\ Top(reg.prompts, n) \in Nat /\ \A x \in rows : x.v <= Top(reg.prompts, n)
      /\ Top(reg.prompts, n) = 0 \/ \E x \in rows : x.v = Top(reg.prompts, n)
  BY <1>1, <1>4, TopIs
<1>6. k # 0 => \E x \in rows : x.v = k
  <2>1. k # 0 => k \in 1 .. k
    BY SMTT(60), <1>3
  <2> QED
    BY <1>2, <2>1
<1> QED
  BY SMTT(60), <1>3, <1>4, <1>5, <1>6 DEF k

\* INSERT of a prompt version, in the transaction that read it.
LEMMA PromptStatement ==
  ASSUME RegInv, Numbered(reg.prompts), FreshInv, NEW p \in Procs, InsertPrompt(p)
  PROVE  /\ UNCHANGED <<births, deaths>>
         /\ \/ UNCHANGED <<reg, scan>>
            \/ Write(reg') /\ Good(reg') /\ reg'.versions = reg.versions /\ Numbered(reg'.prompts)
<1> DEFINE q == req[p].call
           row == [name |-> q.name, v |-> req[p].ver, content |-> q.content]
           S == reg.prompts \cup {row}
<1>0. Good(reg) /\ q.name \in Names /\ q.op = "createPrompt" /\ IsFiniteSet(reg.prompts)
  BY RegistryConstants DEF RegInv, Good, Stored, Tables, ReqInv, InsertPrompt, InCall
<1>1. CASE Race(p)
  BY <1>1 DEF Race
<1>2. CASE /\ p \in fresh /\ Write([reg EXCEPT !.prompts = S]) /\ UNCHANGED <<births, deaths>>
  <2> DEFINE rows == Named(reg.prompts, q.name)
             k == Cardinality(rows)
  <2>1. row.name = q.name /\ row.v = k + 1 /\ row.content = q.content /\ \A x \in rows : x.content # q.content
    BY <1>0, <1>2, TopOfPrompt DEF FreshInv, Promised
  <2>2. row = [name |-> row.name, v |-> row.v, content |-> row.content]
    OBVIOUS
  <2> HIDE DEF row
  <2>3. IsFiniteSet(rows) /\ k \in Nat /\ {x.v : x \in rows} = 1 .. k
    BY <1>0, TopOfPrompt DEF Numbered
  <2>4. Named(S, q.name) = rows \cup {row} /\ \A n \in Names : n # q.name => Named(S, n) = Named(reg.prompts, n)
    BY <2>1 DEF Named
  <2>5. row \notin rows
    BY <2>1
  <2>6. Cardinality(rows \cup {row}) = k + 1
    <3> HIDE DEF rows
    <3> QED
      BY <2>3, <2>5, FS_AddElement
  <2>7. {x.v : x \in rows \cup {row}} = 1 .. (k + 1)
    <3> HIDE DEF rows, k
    <3>1. {x.v : x \in rows \cup {row}} = {x.v : x \in rows} \cup {row.v}
      OBVIOUS
    <3>2. 1 .. (k + 1) = (1 .. k) \cup {k + 1}
      BY SMTT(60), <2>3
    <3> QED
      BY <2>1, <2>3, <3>1, <3>2
  <2>8. \A x, y \in rows \cup {row} : x.v = y.v \/ x.content = y.content => x = y
    <3>1. \A x, y \in rows : x.v = y.v \/ x.content = y.content => x = y
      BY <1>0 DEF Numbered
    <3>2. \A x \in rows : x.v # row.v /\ x.content # row.content
      <4> HIDE DEF rows, k
      <4>1. \A x \in rows : x.v \in 1 .. k
        BY <2>3
      <4> QED
        BY SMTT(60), <2>1, <2>3, <4>1
    <3> HIDE DEF rows
    <3> QED
      BY <3>1, <3>2
  <2>9. Numbered(S)
    <3>1. ASSUME NEW n \in Names
          PROVE  /\ {x.v : x \in Named(S, n)} = 1 .. Cardinality(Named(S, n))
                 /\ \A x, y \in Named(S, n) : x.v = y.v \/ x.content = y.content => x = y
      <4>1. CASE n = q.name
        <5>1. Named(S, n) = rows \cup {row}
          BY <2>4, <4>1
        <5> HIDE DEF rows, S
        <5> QED
          BY <2>6, <2>7, <2>8, <5>1
      <4>2. CASE n # q.name
        <5>1. Named(S, n) = Named(reg.prompts, n)
          BY <2>4, <4>2
        <5> HIDE DEF S
        <5> QED
          BY <5>1 DEF Numbered
      <4> QED
        BY <4>1, <4>2
    <3> HIDE DEF S
    <3> QED
      BY <3>1 DEF Numbered
  <2>10. IsFiniteSet(S)
    BY <1>0, FS_AddElement
  <2>11. \A x \in S : x.name \in Names /\ x = [name |-> x.name, v |-> x.v, content |-> x.content]
    BY <1>0, <2>1, <2>2 DEF Good, Stored, Tables
  <2>12. reg.prompts \subseteq S
    OBVIOUS
  <2> HIDE DEF S
  <2>13. reg' = [reg EXCEPT !.prompts = S] /\ Write(reg')
    BY <1>2 DEF Write
  <2>14. Good(reg') /\ reg'.versions = reg.versions /\ reg'.prompts = S
    BY <1>0, <2>10, <2>11, <2>12, <2>13, PromptsWritten
  <2> QED
    BY <1>2, <2>9, <2>13, <2>14
<1> QED
  BY <1>1, <1>2 DEF InsertPrompt

-----------------------------------------------------------------------------
(* The invariants.                                                          *)

\* What holds in every reachable state.
RegistryInv ==
  /\ RegInv /\ FreshInv
  /\ Cardinality(reg.versions) + deaths = births
  /\ Numbered(reg.prompts)

\* Initially.
LEMMA RegistryInit == Init => RegistryInv
<1> SUFFICES ASSUME Init PROVE RegistryInv
  OBVIOUS
<1>1. /\ Stored(reg) /\ Intact(reg) /\ Numbered(reg.prompts)
      /\ Cardinality(reg.versions) = births /\ IsFiniteSet(reg.versions)
  BY RegistryConstants DEF Init, Stored, Tables
<1>2. births \in Nat /\ deaths = 0
  BY <1>1, FS_CardinalityType DEF Init
<1>3. Whole(IdleReq) /\ IdleReq.pc = "idle" /\ IdleReq.conn = NoConn
  BY DEF IdleReq, Whole
<1>4. ReqInv /\ ConnInv
  BY <1>3, RegistryConstants DEF Init, ReqInv, ConnInv
<1>5. FreshInv
  BY <1>3 DEF Init, FreshInv
<1> QED
  BY SMTT(60), <1>1, <1>2, <1>4, <1>5 DEF RegistryInv, RegInv, Good

\* What a statement leaves behind.
LEMMA ResultKeeps ==
  ASSUME RegistryInv, Result
  PROVE  /\ Good(reg') /\ births' \in Nat /\ deaths' \in Nat
         /\ Cardinality(reg'.versions) + deaths' = births' /\ Numbered(reg'.prompts)
<1>1. CASE UNCHANGED <<reg, scan, births, deaths>>
  BY <1>1 DEF RegistryInv, RegInv
<1>2. CASE Good(reg') /\ reg'.prompts = reg.prompts /\ Counted
  <2>1. IsFiniteSet(reg.versions) /\ IsFiniteSet(reg'.versions)
    BY <1>2 DEF RegistryInv, RegInv, Good, Stored, Tables
  <2>2. Cardinality(reg.versions) \in Nat /\ Cardinality(reg'.versions) \in Nat
    BY <2>1, FS_CardinalityType
  <2> QED
    BY SMTT(60), <1>2, <2>2 DEF RegistryInv, RegInv, Counted
<1> QED
  BY <1>1, <1>2 DEF Result

\* A step of a request is one of its statements.
LEMMA StepResult ==
  ASSUME RegistryInv, NEW p \in Procs, Step(p), ~InsertPrompt(p)
  PROVE  Result
<1>0. RegInv /\ (req[p].pc = "insert" => req[p].ver \in Nat)
  BY DEF RegistryInv, FreshInv
<1>1. CASE CheckModelForTag(p) \/ Reload(p) \/ CheckModelForVersion(p) \/ CheckVersion(p) \/ CheckPrompt(p)
  BY <1>1 DEF CheckModelForTag, Reload, CheckModelForVersion, CheckVersion, CheckPrompt, Query, NoWrite, Result
<1>2. CASE RenameCheckSource(p) \/ RenameCheckTarget(p) \/ RenamePragma(p) \/ RenameReload(p) \/ RestoreForeignKeys(p)
  BY <1>2 DEF RenameCheckSource, RenameCheckTarget, RenamePragma, RenameReload, RestoreForeignKeys, NoWrite, Result
<1>3. CASE SelectNextVersion(p) \/ SelectPromptVersion(p)
  BY <1>3 DEF SelectNextVersion, SelectPromptVersion, Result
<1>4. CASE InsertModelVersion(p)
  BY <1>0, <1>4, InsertVersionStatement DEF InsertModelVersion, InCall
<1> QED
  BY <1>0, <1>1, <1>2, <1>3, <1>4, ModelStatements, DeleteModelStatement, DeleteVersionStatement, TagStatements,
     VersionStatements, RenameStatement DEF Step

\* Every step keeps the invariant.
LEMMA RegistryStep == RegistryInv /\ [Next]_vars => RegistryInv'
<1> SUFFICES ASSUME RegistryInv, [Next]_vars PROVE RegistryInv'
  OBVIOUS
<1>0. RegInv /\ FreshInv /\ ReqInv /\ ConnInv /\ Numbered(reg.prompts)
  BY DEF RegistryInv, RegInv
<1>1. ReqInv' /\ ConnInv'
  BY <1>0, ConnStep
<1>2. ASSUME Result, FreshInv' PROVE RegistryInv'
  BY <1>1, <1>2, ResultKeeps DEF RegistryInv, RegInv
<1>3. CASE Crash
  <2>1. FreshInv'
    BY <1>3 DEF Crash, FreshInv, IdleReq
  <2> QED
    BY <1>2, <1>3, <2>1 DEF Crash, Result
<1>4. ASSUME NEW p \in Procs, Arrival(p) PROVE RegistryInv'
  <2>1. PICK q \in Requests, pc \in {"exec", "check", "snapshot"} : Begin(p, q, pc)
    BY <1>4 DEF Arrival, HandleUpdateRegisteredModel, HandleDeleteRegisteredModel, HandleDeleteRegisteredModelTag,
       HandleUpdateModelVersion, HandleDeleteModelVersion, HandleTransitionModelStage,
       HandleDeleteModelVersionTag, HandleDeleteModelAlias, HandleRenameRegisteredModel,
       HandleSetRegisteredModelTag, HandleSetModelVersionTag, HandleSetModelAlias, HandleSetPromptAlias,
       HandleCreatePrompt, HandleCreateRegisteredModel, HandleCreateModelVersion
  <2>2. req[p].pc = "idle" /\ UNCHANGED <<reg, fresh, scan, births, deaths>>
    BY <2>1 DEF Begin
  <2>3. PICK r : /\ r.pc = pc
                 /\ req' = [req EXCEPT ![p] = r]
    <3>1. PICK tags : req' = [req EXCEPT ![p] = [IdleReq EXCEPT !.pc = pc, !.call = q, !.tags = tags]]
      BY <2>1 DEF Begin
    <3> QED
      BY <3>1 DEF IdleReq
  <2>4. Leaves(p)
    BY <1>0, <2>3 DEF Leaves, ReqInv
  <2>5. FreshInv'
    BY <1>0, <2>2, <2>4, FreshKept DEF Outdates
  <2> QED
    BY <1>2, <2>2, <2>5 DEF Result
<1>5. ASSUME NEW p \in Procs, Fail(p) PROVE RegistryInv'
  <2>1. Leaves(p)
    BY <1>0, <1>5, Leaving, "restore" # "insert" DEF Fail
  <2>2. FreshInv'
    BY <1>0, <1>5, <2>1, FreshKept DEF Fail, Outdates
  <2> QED
    BY <1>2, <1>5, <2>2 DEF Fail, Result
<1>6. ASSUME NEW p \in Procs, Step(p), ~InsertPrompt(p) PROVE RegistryInv'
  BY <1>0, <1>2, <1>6, StepResult, FreshSteps
<1>7. ASSUME NEW p \in Procs, InsertPrompt(p) PROVE RegistryInv'
  <2>1. FreshInv'
    BY <1>0, <1>7, FreshSteps DEF Step
  <2>2. CASE UNCHANGED <<reg, scan, births, deaths>>
    BY <1>2, <2>1, <2>2 DEF Result
  <2>3. CASE Good(reg') /\ reg'.versions = reg.versions /\ Numbered(reg'.prompts) /\ UNCHANGED <<births, deaths>>
    BY <1>1, <2>1, <2>3 DEF RegistryInv, RegInv
  <2> QED
    BY <1>0, <1>7, <2>2, <2>3, PromptStatement
<1>8. ASSUME NEW s \in Scanners, SearchRegisteredModels(s) \/ SearchModelVersions(s) PROVE RegistryInv'
  <2>1. UNCHANGED <<reg, fk, req, fresh, ops, births, deaths>>
    BY <1>8 DEF SearchRegisteredModels, SearchModelVersions, SearchPage
  <2>2. FreshInv'
    BY <1>0, <2>1 DEF FreshInv, Promised
  <2> QED
    BY <1>1, <2>1, <2>2 DEF RegistryInv, RegInv
<1>9. CASE UNCHANGED vars
  <2>2. FreshInv'
    BY <1>0, <1>9 DEF FreshInv, Promised, vars
  <2> QED
    BY <1>1, <1>9, <2>2 DEF RegistryInv, RegInv, vars
<1> QED
  BY <1>3, <1>4, <1>5, <1>6, <1>7, <1>8, <1>9 DEF Next

\* The tables, the snapshots and the counts stay consistent in every behaviour of the
\* registry.
THEOREM RegistryInvariant == Spec => []RegistryInv
  BY RegistryInit, RegistryStep, PTL DEF Spec

\* No version, tag or alias outlives the row it belongs to, and foreign keys are off only
\* on a connection that a rename holds, for any number of goroutines and connections.
THEOREM TablesIntact == Spec => []NoOrphans
<1>1. RegistryInv => NoOrphans
  BY SMTT(60) DEF RegistryInv, RegInv, Good, ConnInv, Unguarded, NoOrphans
<1> QED
  BY <1>1, RegistryInvariant, PTL

\* Every registration that committed keeps a row of its own until that row is deleted,
\* and the versions of a prompt are numbered without gaps, each content once.
THEOREM RegistrationsNumbered == Spec => []RegistrationsKept
<1>1. RegistryInv => RegistrationsKept
  BY DEF RegistryInv, RegistrationsKept
<1> QED
  BY <1>1, RegistryInvariant, PTL

-----------------------------------------------------------------------------
(* Searches.                                                                *)

WholeScan(c) ==
  c = [pc |-> c.pc, table |-> c.table, token |-> c.token, pages |-> c.pages, steady |-> c.steady]

\* A search c over these tables: what it has returned lies up to its token, and the rows
\* up to there that were there all the time have been returned.
Scanned(c, tables) ==
  /\ WholeScan(c) /\ c.table \in {"models", "versions"} /\ c.token \in Nat \X Nat
  /\ c.pages \in Seq(SUBSET (Nat \X Nat))
  /\ c.steady \subseteq Keys(tables, c.table)
  /\ c.pc \in {"idle", "next", "done"} /\ (c.pc = "idle" => c.token = <<0, 0>> /\ c.pages = <<>>)
  /\ \A i, j \in 1 .. Len(c.pages) : i # j => c.pages[i] \cap c.pages[j] = {}
  /\ c.pc # "done" => \A i \in 1 .. Len(c.pages) : \A k \in c.pages[i] : ~Before(c.token, k)
  /\ \A k \in c.steady :
       c.pc = "done" \/ (c.pc = "next" /\ ~Before(c.token, k)) => \E i \in 1 .. Len(c.pages) : k \in c.pages[i]

ScanInv ==
  /\ scan = [s \in Scanners |-> scan[s]]
  /\ \A s \in Scanners : Scanned(scan[s], reg)

\* A commit only takes rows away from what a search must find.
LEMMA Watched ==
  ASSUME NEW c, NEW T, NEW U, Scanned(c, T), NEW d, d = [c EXCEPT !.steady = c.steady \cap Keys(U, c.table)]
  PROVE  Scanned(d, U)
<1>1. /\ WholeScan(d) /\ d.pc = c.pc /\ d.table = c.table /\ d.token = c.token /\ d.pages = c.pages
      /\ d.steady = c.steady \cap Keys(U, c.table)
  BY DEF Scanned, WholeScan
<1> QED
  BY <1>1 DEF Scanned

\* The keys of a page are pairs of numbers, greater than the token a search starts from.
LEMMA KeysAre ==
  ASSUME Good(reg), NEW t \in {"models", "versions"}
  PROVE  /\ IsFiniteSet(Keys(reg, t)) /\ Keys(reg, t) \subseteq Nat \X Nat
         /\ \A k \in Keys(reg, t) : Before(<<0, 0>>, k)
<1> DEFINE K == Keys(reg, t)
           f == [x \in reg[t] |-> <<x.name, IF t = "versions" THEN x.v ELSE 0>>]
<1>1. IsFiniteSet(reg[t]) /\ \A x \in reg[t] : x.name \in Names
  BY DEF Good, Stored, Tables
<1>2. t = "versions" => \A x \in reg[t] : x.v \in Nat
  BY DEF Good, Stored
<1>3. f \in [reg[t] -> K] /\ \A y \in K : \E x \in reg[t] : y = f[x]
  BY DEF Keys
<1>4. IsFiniteSet(K)
  <2> HIDE DEF f, K
  <2> QED
    BY SMTT(60), <1>1, <1>3, Image
<1>5. ASSUME NEW k \in K PROVE k \in Nat \X Nat /\ Before(<<0, 0>>, k)
  <2>1. PICK x \in reg[t] : k = <<x.name, IF t = "versions" THEN x.v ELSE 0>>
    BY DEF Keys
  <2>2. x.name \in Nat /\ x.name > 0
    <3>1. x.name \in Nat \ {0}
      BY <1>1, RegistryConstants
    <3> QED
      BY SMTT(60), <3>1
  <2> QED
    BY <1>2, <2>1, <2>2 DEF Before
<1> QED
  BY <1>4, <1>5

\* ORDER BY key is a strict total order.
LEMMA Ordered ==
  /\ \A j \in Nat \X Nat : ~Before(j, j)
  /\ \A j, k, l \in Nat \X Nat : Before(j, k) /\ Before(k, l) => Before(j, l)
  /\ \A j, k \in Nat \X Nat : Before(j, k) \/ Before(k, j) \/ j = k
<1>1. \A j \in Nat \X Nat : ~Before(j, j)
  BY SMTT(60) DEF Before
<1>2. \A j, k, l \in Nat \X Nat : Before(j, k) /\ Before(k, l) => Before(j, l)
  BY SMTT(60) DEF Before
<1>3. \A j, k \in Nat \X Nat : Before(j, k) \/ Before(k, j) \/ j = k
  BY SMTT(60) DEF Before
<1> QED
  BY <1>1, <1>2, <1>3

\* A finite set of keys has a first and a last one.
LEMMA FirstAndLast ==
  ASSUME NEW S, IsFiniteSet(S), S # {}, S \subseteq Nat \X Nat
  PROVE  /\ \E k \in S : \A j \in S : ~Before(k, j)
         /\ \E k \in S : \A j \in S : ~Before(j, k)
<1> DEFINE R == {e \in S \X S : Before(e[1], e[2])}
           Q == {e \in S \X S : Before(e[2], e[1])}
<1>1. /\ \A x, y \in S : <<x, y>> \in R <=> Before(x, y)
      /\ \A x, y \in S : <<x, y>> \in Q <=> Before(y, x)
  OBVIOUS
<1>2. /\ \A x \in S : ~Before(x, x)
      /\ \A x, y, z \in S : Before(x, y) /\ Before(y, z) => Before(x, z)
  BY Ordered
<1> HIDE DEF R, Q
<1>3. \E k \in S : \A j \in S : <<k, j>> \notin R
  <2>1. /\ \A x \in S : <<x, x>> \notin R
        /\ \A x, y, z \in S : <<x, y>> \in R /\ <<y, z>> \in R => <<x, z>> \in R
    BY <1>1, <1>2
  <2> QED
    BY <2>1, Maximal
<1>4. \E k \in S : \A j \in S : <<k, j>> \notin Q
  <2>1. /\ \A x \in S : <<x, x>> \notin Q
        /\ \A x, y, z \in S : <<x, y>> \in Q /\ <<y, z>> \in Q => <<x, z>> \in Q
    BY <1>1, <1>2
  <2> QED
    BY <2>1, Maximal
<1> QED
  BY <1>1, <1>3, <1>4

\* A page is an initial segment of what lies beyond the token, and empty only at the end.
LEMMA ScanPageIs ==
  ASSUME Good(reg), NEW t \in {"models", "versions"}, NEW token
  PROVE  /\ Page(t, token) \subseteq Remaining(t, token) /\ Remaining(t, token) \subseteq Keys(reg, t)
         /\ \A k \in Remaining(t, token) : Before(token, k)
         /\ \A k \in Keys(reg, t) : Before(token, k) => k \in Remaining(t, token)
         /\ \A l \in Page(t, token), k \in Remaining(t, token) : ~Before(l, k) => k \in Page(t, token)
         /\ Page(t, token) # Remaining(t, token) =>
              \E k \in Page(t, token) : \A j \in Page(t, token) : ~Before(k, j)
<1> DEFINE B == Remaining(t, token)
           P == Page(t, token)
           f == [k \in B |-> {j \in B : Before(j, k)}]
<1>1. B \in SUBSET Keys(reg, t) /\ P \in SUBSET B
  BY DEF Remaining, Page
<1>2. (\A k \in B : Before(token, k)) /\ \A k \in Keys(reg, t) : Before(token, k) => k \in B
  BY DEF Remaining
<1>3. \A k \in B : k \in P <=> Cardinality(f[k]) < PageSize
  BY DEF Page
<1>4. \A k \in B : f[k] = {j \in B : Before(j, k)} /\ f[k] \in SUBSET B
  OBVIOUS
<1> HIDE DEF B, P, f
<1>5. IsFiniteSet(B) /\ B \subseteq Nat \X Nat
  BY <1>1, KeysAre, FS_Subset
<1>6. \A k \in B : IsFiniteSet(f[k])
  BY <1>4, <1>5, FS_Subset
<1>7. \A k \in B : Cardinality(f[k]) \in Nat
  BY <1>6, FS_CardinalityType
<1>8. ASSUME NEW l \in P, NEW k \in B, ~Before(l, k) PROVE k \in P
  <2>1. l \in B /\ k \in Nat \X Nat /\ l \in Nat \X Nat
    BY <1>1, <1>5
  <2>2. Before(k, l) \/ k = l
    BY <1>8, <2>1, Ordered
  <2>3. f[k] \in SUBSET f[l]
    <3>1. ASSUME NEW j \in f[k] PROVE j \in f[l]
      <4>1. j \in B /\ Before(j, k) /\ j \in Nat \X Nat
        BY <1>4, <1>5
      <4>2. Before(j, l)
        BY <2>1, <2>2, <4>1, Ordered
      <4> QED
        BY <1>4, <2>1, <4>1, <4>2
    <3> QED
      BY <3>1
  <2>4. Cardinality(f[k]) <= Cardinality(f[l])
    BY <1>6, <2>1, <2>3, FS_Subset
  <2> QED
    BY SMTT(60), <1>3, <1>7, <2>1, <2>4, RegistryConstants
<1>9. ASSUME P # B PROVE \E k \in P : \A j \in P : ~Before(k, j)
  <2>1. B # {}
    BY <1>1, <1>9
  <2>2. PICK m \in B : \A j \in B : ~Before(j, m)
    BY <1>5, <2>1, FirstAndLast
  <2>3. f[m] = {}
    BY <1>4, <2>2
  <2>4. m \in P
    BY SMTT(60), <1>3, <2>3, FS_EmptySet, RegistryConstants
  <2>5. IsFiniteSet(P) /\ P \subseteq Nat \X Nat /\ P # {}
    BY <1>1, <1>5, <2>4, FS_Subset
  <2> QED
    BY <2>5, FirstAndLast
<1> QED
  BY <1>1, <1>2, <1>8, <1>9 DEF B, P

\* What SearchPage makes of a search.
NextScan(c, t) ==
  LET page == Page(t, c.token)
      more == page # Remaining(t, c.token)
  IN [pc |-> IF more THEN "next" ELSE "done", table |-> t,
      token |-> IF more THEN CHOOSE k \in page : \A j \in page : ~Before(k, j) ELSE c.token,
      pages |-> Append(c.pages, page),
      steady |-> IF c.pc = "idle" THEN Keys(reg, t) ELSE c.steady]

\* One more page.
LEMMA Paged ==
  ASSUME Good(reg), NEW t \in {"models", "versions"}, NEW c, Scanned(c, reg),
         c.pc = "idle" \/ (c.pc = "next" /\ c.table = t),
         NEW d, d = NextScan(c, t)
  PROVE  Scanned(d, reg)
<1>a. PICK P, B : P = Page(t, c.token) /\ B = Remaining(t, c.token)
  OBVIOUS
<1>b. PICK T : T = CHOOSE k \in P : \A j \in P : ~Before(k, j)
  OBVIOUS
<1>c. d = [pc |-> IF P # B THEN "next" ELSE "done", table |-> t,
           token |-> IF P # B THEN T ELSE c.token,
           pages |-> Append(c.pages, P),
           steady |-> IF c.pc = "idle" THEN Keys(reg, t) ELSE c.steady]
  BY SMTT(60), <1>a, <1>b DEF NextScan
<1> DEFINE K == Keys(reg, t)
           n == Len(c.pages)
           U == SUBSET (Nat \X Nat)
<1>1. /\ WholeScan(d) /\ d.pc = (IF P # B THEN "next" ELSE "done") /\ d.table = t
      /\ d.token = (IF P # B THEN T ELSE c.token) /\ d.pages = Append(c.pages, P)
      /\ d.steady = (IF c.pc = "idle" THEN Keys(reg, t) ELSE c.steady)
  BY SMTT(60), <1>c DEF WholeScan
<1>2. /\ P \subseteq B /\ B \subseteq K /\ (\A k \in B : Before(c.token, k))
      /\ (\A k \in K : Before(c.token, k) => k \in B)
      /\ (\A l \in P, k \in B : ~Before(l, k) => k \in P)
      /\ (P # B => \E k \in P : \A j \in P : ~Before(k, j))
  BY SMTT(60), <1>a, ScanPageIs
<1>3. K \subseteq Nat \X Nat /\ \A k \in K : Before(<<0, 0>>, k)
  BY KeysAre
<1>4. /\ c.token \in Nat \X Nat /\ c.pages \in Seq(U)
      /\ (c.pc = "idle" => c.token = <<0, 0>> /\ c.pages = <<>>)
      /\ (\A i, j \in 1 .. n : i # j => c.pages[i] \cap c.pages[j] = {})
      /\ (\A i \in 1 .. n : \A k \in c.pages[i] : ~Before(c.token, k))
      /\ (c.pc = "next" => c.steady \subseteq K)
      /\ (c.pc = "next" => \A k \in c.steady : ~Before(c.token, k) => \E i \in 1 .. n : k \in c.pages[i])
  BY DEF Scanned
<1>5. P \in U
  BY <1>2, <1>3
<1> HIDE DEF K, U
<1>6. /\ n \in Nat /\ Append(c.pages, P) \in Seq(U) /\ Len(Append(c.pages, P)) = n + 1
      /\ (\A i \in 1 .. n : Append(c.pages, P)[i] = c.pages[i]) /\ Append(c.pages, P)[n + 1] = P
  BY SMTT(60), <1>4, <1>5
<1>7. P # B => T \in P /\ \A j \in P : ~Before(T, j)
  BY <1>2, <1>b
<1>8. \A i \in 1 .. n : c.pages[i] \in U
  BY SMTT(60), <1>4
<1> HIDE DEF n
<1>9. Len(d.pages) = n + 1 /\ d.pages \in Seq(U) /\ d.pages[n + 1] = P /\ \A i \in 1 .. n : d.pages[i] = c.pages[i]
  BY <1>1, <1>6
<1>10. \A i \in 1 .. (n + 1) : i = n + 1 \/ i \in 1 .. n
  BY SMTT(60), <1>6
<1>11. \A i \in 1 .. n : c.pages[i] \cap P = {}
  BY <1>2, <1>4
<1>12. \A i, j \in 1 .. Len(d.pages) : i # j => d.pages[i] \cap d.pages[j] = {}
  <2>1. ASSUME NEW i \in 1 .. (n + 1), NEW j \in 1 .. (n + 1), i # j PROVE d.pages[i] \cap d.pages[j] = {}
    <3>1. CASE i \in 1 .. n /\ j \in 1 .. n
      BY <1>4, <1>9, <2>1, <3>1
    <3>2. CASE i = n + 1 \/ j = n + 1
      BY <1>9, <1>10, <1>11, <2>1, <3>2
    <3> QED
      BY <1>10, <3>1, <3>2
  <2> QED
    BY <1>9, <2>1
<1>13. d.token \in Nat \X Nat
  BY <1>1, <1>2, <1>3, <1>4, <1>7
<1>14. ASSUME d.pc # "done", NEW i \in 1 .. Len(d.pages), NEW k \in d.pages[i] PROVE ~Before(d.token, k)
  <2>1. P # B /\ d.token = T /\ T \in P /\ Before(c.token, T) /\ T \in Nat \X Nat
    BY <1>1, <1>2, <1>3, <1>7, <1>14
  <2>2. CASE i = n + 1
    BY <1>7, <1>9, <1>14, <2>1, <2>2
  <2>3. CASE i \in 1 .. n
    <3>1. k \in c.pages[i] /\ ~Before(c.token, k) /\ k \in Nat \X Nat
      BY <1>4, <1>8, <1>9, <1>14, <2>3 DEF U
    <3> QED
      BY <1>4, <2>1, <3>1, Ordered
  <2> QED
    BY <1>9, <1>10, <1>14, <2>2, <2>3
<1>15. d.steady \subseteq K
  BY <1>1, <1>4 DEF K
<1>16. ASSUME NEW k \in d.steady, d.pc = "done" \/ ~Before(d.token, k)
       PROVE  \E i \in 1 .. (n + 1) : k \in d.pages[i]
  <2>1. CASE Before(c.token, k)
    <3>1. k \in B
      BY <1>2, <1>15, <2>1
    <3>2. k \in P
      BY <1>1, <1>2, <1>7, <1>16, <3>1
    <3>3. n + 1 \in 1 .. (n + 1)
      BY SMTT(60), <1>6
    <3> QED
      BY <1>9, <3>2, <3>3
  <2>2. CASE ~Before(c.token, k)
    <3>1. c.pc = "next" /\ d.steady = c.steady
      BY <1>1, <1>3, <1>4, <1>15, <2>2
    <3>2. PICK i \in 1 .. n : k \in c.pages[i]
      BY <1>4, <2>2, <3>1
    <3>3. i \in 1 .. (n + 1)
      BY SMTT(60), <1>6
    <3> QED
      BY <1>9, <3>2, <3>3
  <2> QED
    BY <2>1, <2>2
<1>17. d.pc \in {"next", "done"}
  BY <1>1
<1>18. /\ WholeScan(d) /\ d.table \in {"models", "versions"} /\ d.pages \in Seq(SUBSET (Nat \X Nat))
       /\ d.steady \subseteq Keys(reg, d.table)
  BY <1>1, <1>9, <1>15 DEF K, U
<1> HIDE DEF Before, Keys
<1> QED
  BY <1>9, <1>12, <1>13, <1>14, <1>16, <1>17, <1>18 DEF Scanned

\* What a step of a request, or of anything but a search, means to the searches.
LEMMA SearchesWatch ==
  ASSUME ScanInv, UNCHANGED <<reg, scan>> \/ Write(reg')
  PROVE  ScanInv'
<1>1. CASE UNCHANGED <<reg, scan>>
  BY <1>1 DEF ScanInv
<1>2. CASE scan' = Watch(reg')
  <2>1. /\ scan' = [s \in Scanners |-> scan'[s]]
        /\ \A s \in Scanners : scan'[s] = [scan[s] EXCEPT !.steady = @ \cap Keys(reg', scan[s].table)]
    BY <1>2 DEF Watch
  <2>2. ASSUME NEW s \in Scanners PROVE Scanned(scan'[s], reg')
    <3>1. Scanned(scan[s], reg)
      BY DEF ScanInv
    <3>2. scan'[s] = [scan[s] EXCEPT !.steady = scan[s].steady \cap Keys(reg', scan[s].table)]
      BY <2>1
    <3> QED
      BY <3>1, <3>2, Watched
  <2>3. (\A s \in Scanners : Scanned(scan[s], reg))'
    BY <2>2
  <2> QED
    BY <2>1, <2>3 DEF ScanInv
<1> QED
  BY <1>1, <1>2 DEF Write

\* A page of a search.
LEMMA SearchStep ==
  ASSUME Good(reg), ScanInv, NEW s \in Scanners, NEW t \in {"models", "versions"}, SearchPage(s, t)
  PROVE  ScanInv'
<1>1. PICK d : d = NextScan(scan[s], t)
  OBVIOUS
<1>2. /\ reg' = reg /\ (scan[s].pc = "idle" \/ (scan[s].pc = "next" /\ scan[s].table = t))
      /\ scan' = [scan EXCEPT ![s] = d]
  BY <1>1 DEF SearchPage, NextScan
<1>3. Scanned(scan[s], reg)
  BY DEF ScanInv
<1>4. Scanned(d, reg)
  BY <1>1, <1>2, <1>3, Paged
<1>5. scan' = [r \in Scanners |-> scan'[r]] /\ \A r \in Scanners : Scanned(scan'[r], reg)
  BY <1>2, <1>4 DEF ScanInv
<1>6. (\A r \in Scanners : Scanned(scan[r], reg))'
  BY <1>2, <1>5
<1> QED
  BY <1>5, <1>6 DEF ScanInv

\* The searches of every behaviour.
LEMMA ScanStep == RegistryInv /\ ScanInv /\ [Next]_vars => ScanInv'
<1> SUFFICES ASSUME RegistryInv, ScanInv, [Next]_vars PROVE ScanInv'
  OBVIOUS
<1>0. RegInv /\ FreshInv /\ Good(reg) /\ Numbered(reg.prompts)
  BY DEF RegistryInv, RegInv
<1>1. CASE Crash \/ UNCHANGED vars
  BY <1>1, SearchesWatch DEF Crash, vars
<1>2. ASSUME NEW p \in Procs, Arrival(p) PROVE ScanInv'
  <2>1. UNCHANGED <<reg, scan>>
    BY <1>2 DEF Arrival, Begin, HandleUpdateRegisteredModel, HandleDeleteRegisteredModel, HandleDeleteRegisteredModelTag,
       HandleUpdateModelVersion, HandleDeleteModelVersion, HandleTransitionModelStage,
       HandleDeleteModelVersionTag, HandleDeleteModelAlias, HandleRenameRegisteredModel,
       HandleSetRegisteredModelTag, HandleSetModelVersionTag, HandleSetModelAlias, HandleSetPromptAlias,
       HandleCreatePrompt, HandleCreateRegisteredModel, HandleCreateModelVersion
  <2> QED
    BY <2>1, SearchesWatch
<1>3. ASSUME NEW p \in Procs, Fail(p) PROVE ScanInv'
  BY <1>3, SearchesWatch DEF Fail
<1>4. ASSUME NEW p \in Procs, Step(p) PROVE ScanInv'
  <2>1. CASE InsertPrompt(p)
    BY <1>0, <2>1, PromptStatement, SearchesWatch
  <2>2. CASE ~InsertPrompt(p)
    BY <1>4, <2>2, StepResult, SearchesWatch DEF Result
  <2> QED
    BY <2>1, <2>2
<1>5. ASSUME NEW s \in Scanners, SearchRegisteredModels(s) \/ SearchModelVersions(s) PROVE ScanInv'
  BY <1>0, <1>5, SearchStep DEF SearchRegisteredModels, SearchModelVersions
<1> QED
  BY <1>1, <1>2, <1>3, <1>4, <1>5 DEF Next

\* A search that is paged to its end has returned every row that was there all the time,
\* and none twice, whatever is created, renamed or deleted between its pages, for any
\* page size and any tables.
THEOREM SearchesComplete == Spec => []ScanComplete
<1>1. Init => ScanInv
  <2>1. Scanned(IdleScan, reg)
    <3>1. /\ IdleScan.pc = "idle" /\ IdleScan.table = "models" /\ IdleScan.token = <<0, 0>>
          /\ IdleScan.pages = <<>> /\ IdleScan.steady = {} /\ WholeScan(IdleScan)
      BY DEF IdleScan, WholeScan
    <3>2. Len(<<>>) = 0 /\ <<>> \in Seq(SUBSET (Nat \X Nat)) /\ <<0, 0>> \in Nat \X Nat
      BY SMTT(60)
    <3>3. 1 .. Len(<<>>) = {}
      BY SMTT(60), <3>2
    <3> QED
      BY <3>1, <3>2, <3>3 DEF Scanned
  <2> QED
    BY <2>1 DEF Init, ScanInv
<1>2. ScanInv => ScanComplete
  <2> SUFFICES ASSUME ScanInv, NEW s \in Scanners
               PROVE  /\ \A i, j \in 1 .. Len(scan[s].pages) : i # j => scan[s].pages[i] \cap scan[s].pages[j] = {}
                      /\ scan[s].pc = "done"
                           => scan[s].steady \subseteq UNION {scan[s].pages[i] : i \in 1 .. Len(scan[s].pages)}
    BY DEF ScanComplete
  <2>1. Scanned(scan[s], reg)
    BY DEF ScanInv
  <2> QED
    BY SMTT(60), <2>1 DEF Scanned
<1> QED
  BY <1>1, <1>2, RegistryInvariant, ScanStep, PTL DEF Spec

=============================================================================
