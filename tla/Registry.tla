------------------------------ MODULE Registry ------------------------------
(***************************************************************************)
(* The model registry and the prompt store: internal/store/registry.go,    *)
(* the prompt methods of internal/store/sqlite.go, and their handlers in   *)
(* internal/api/mlflow/registry.go and internal/api/native/handlers.go.    *)
(*                                                                         *)
(* A handler makes several store calls and a store call several SQL        *)
(* statements, each on whatever pooled connection is free.  A statement    *)
(* outside a transaction is a step.  A transaction that writes first holds *)
(* SQLite's write lock throughout and is a step.  One that reads first     *)
(* (MAX(version) and then INSERT) is two: in WAL mode the write fails when *)
(* anybody has committed since the read.  Foreign keys, with their ON      *)
(* DELETE CASCADE, are enforced per connection, and a rename switches them *)
(* off on the connection it has pinned.  One workspace is modelled: every  *)
(* statement here is confined to the workspace of its request.             *)
(***************************************************************************)
EXTENDS Naturals, Sequences, FiniteSets

CONSTANTS
  Names,        \* model and prompt names, numbered in the order of ORDER BY name
  OldTables,    \* the rows that are there when the behaviour starts
  Requests,     \* the calls clients may make, see Ops
  Procs,        \* request goroutines
  Scanners,     \* clients paging through a search
  Conns,        \* the connection pool (SetMaxOpenConns)
  NoConn,
  MaxAttempts,  \* of retryWriteRace
  PageSize,     \* max_results of a search
  MaxOps        \* bound: requests issued in a behaviour

Stages == {"None", "Staging", "Production", "Archived"}
Ops == {"createModel", "renameModel", "updateModel", "deleteModel", "setModelTag", "deleteModelTag",
        "createVersion", "updateVersion", "deleteVersion", "transition", "setVersionTag",
        "deleteVersionTag", "setAlias", "deleteAlias", "createPrompt", "setPromptAlias"}

Tables == {"models", "versions", "mtags", "vtags", "aliases", "prompts", "paliases"}

\* No version, tag or alias outlives the row it belongs to.
Intact(tables) ==
  /\ \A x \in tables.versions \cup tables.mtags : \E m \in tables.models : m.name = x.name
  /\ \A x \in tables.vtags \cup tables.aliases : \E y \in tables.versions : y.name = x.name /\ y.v = x.v
  /\ \A x \in tables.paliases : \E y \in tables.prompts : y.name = x.name /\ y.v = x.v

Named(rows, n) == {x \in rows : x.name = n}
Version(rows, n, v) == {x \in rows : x.name = n /\ x.v = v}

\* The columns of the tables, and the primary key of model_versions.
Stored(tables) ==
  /\ tables = [t \in Tables |-> tables[t]]
  /\ \A t \in Tables : IsFiniteSet(tables[t]) /\ \A x \in tables[t] : x.name \in Names
  /\ \A x \in tables.models : x = [name |-> x.name, desc |-> x.desc]
  /\ \A x \in tables.versions : x = [name |-> x.name, v |-> x.v, stage |-> x.stage, desc |-> x.desc] /\ x.v \in Nat
  /\ \A x \in tables.mtags : x = [name |-> x.name, key |-> x.key]
  /\ \A x \in tables.vtags : x = [name |-> x.name, v |-> x.v, key |-> x.key]
  /\ \A x \in tables.aliases \cup tables.paliases : x = [name |-> x.name, alias |-> x.alias, v |-> x.v]
  /\ \A x \in tables.prompts : x = [name |-> x.name, v |-> x.v, content |-> x.content]
  /\ \A x, y \in tables.versions : x.name = y.name /\ x.v = y.v => x = y

\* A prompt has each content once, and its versions are numbered without gaps.
Numbered(prompts) ==
  \A n \in Names :
    LET rows == Named(prompts, n)
    IN /\ {x.v : x \in rows} = 1 .. Cardinality(rows)
       /\ \A x, y \in rows : x.v = y.v \/ x.content = y.content => x = y

ASSUME RegistryConstants ==
  /\ Names \subseteq Nat \ {0}
  /\ Stored(OldTables) /\ Intact(OldTables) /\ Numbered(OldTables.prompts)
  /\ \A q \in Requests : q.op \in Ops /\ q.name \in Names /\ (q.op = "renameModel" => q.to \in Names)
  /\ NoConn \notin Conns
  /\ MaxAttempts \in Nat \ {0} /\ PageSize \in Nat \ {0} /\ MaxOps \in Nat

VARIABLES
  reg,      \* the tables, each a set of rows
  fk,       \* whether each connection enforces foreign keys
  req,      \* the request each goroutine is serving
  fresh,    \* the goroutines whose read snapshot is still the newest
  scan,     \* the search each client is paging through
  ops,      \* requests issued so far
  births,   \* history: model versions inserted
  deaths    \* history: model versions deleted

vars == <<reg, fk, req, fresh, scan, ops, births, deaths>>

NoCall == [op |-> "none"]
IdleReq == [pc |-> "idle", call |-> NoCall, ver |-> 0, tags |-> <<>>, tries |-> 0, conn |-> NoConn]
IdleScan == [pc |-> "idle", table |-> "models", token |-> <<0, 0>>, pages |-> <<>>, steady |-> {}]

Init ==
  /\ reg = OldTables
  /\ fk = [c \in Conns |-> TRUE]       \* the DSN of OpenSQLite: foreign_keys(1)
  /\ req = [p \in Procs |-> IdleReq]
  /\ fresh = {}
  /\ scan = [s \in Scanners |-> IdleScan]
  /\ ops = 0 /\ births = Cardinality(OldTables.versions) /\ deaths = 0

HasModel(n) == \E m \in reg.models : m.name = n
HasVersion(n, v) == \E x \in reg.versions : x.name = n /\ x.v = v
HasPrompt(n, v) == \E x \in reg.prompts : x.name = n /\ x.v = v

-----------------------------------------------------------------------------
(* Connections, statements and commits.                                     *)

Free == Conns \ {req[p].conn : p \in Procs}

\* What a search that is being paged through has found all the time.
Keys(tables, t) == {<<x.name, IF t = "versions" THEN x.v ELSE 0>> : x \in tables[t]}
Watch(tables) == [s \in Scanners |->
                    [scan[s] EXCEPT !.steady = @ \cap Keys(tables, scan[s].table)]]

\* A commit becomes visible to everybody, and outdates every open read snapshot.
Write(tables) ==
  /\ reg' = tables
  /\ fresh' = {}
  /\ scan' = Watch(tables)
NoWrite == UNCHANGED <<reg, fresh, scan>>

Goto(p, pc) == req' = [req EXCEPT ![p].pc = pc]
Done(p) == req' = [req EXCEPT ![p] = IdleReq]

InCall(p, op, pc) == req[p].call.op = op /\ req[p].pc = pc

Continue(p, pc) == IF pc = "idle" THEN Done(p) ELSE Goto(p, pc)

\* A write statement of p, after which p goes on at pc; p returns an error when it
\* changes no row (ErrNotFound) or a constraint refuses it.
Exec(p, ok, tables, pc) ==
  /\ Free # {}
  /\ \/ ok /\ Write(tables) /\ Continue(p, pc)
     \/ ~ok /\ NoWrite /\ Done(p)
  /\ UNCHANGED <<fk, ops, births, deaths>>

\* A read of p: go on at pc when it finds something, ErrNotFound when it does not.
Query(p, found, pc) ==
  /\ Free # {}
  /\ IF found THEN Continue(p, pc) ELSE Done(p)
  /\ NoWrite
  /\ UNCHANGED <<fk, ops, births, deaths>>

-----------------------------------------------------------------------------
(* Handlers.                                                                *)

Begin(p, q, pc) ==
  /\ req[p].pc = "idle"
  /\ ops < MaxOps
  /\ ops' = ops + 1
  /\ req' = [req EXCEPT ![p] = [IdleReq EXCEPT !.pc = pc, !.call = q,
                                !.tags = IF q.op \in {"createModel", "createVersion"} THEN q.tags ELSE <<>>]]
  /\ UNCHANGED <<reg, fk, fresh, scan, births, deaths>>

\* One store call, which is one statement or one transaction.
HandleUpdateRegisteredModel(p, q) == q.op = "updateModel" /\ Begin(p, q, "exec")
HandleDeleteRegisteredModel(p, q) == q.op = "deleteModel" /\ Begin(p, q, "exec")
HandleDeleteRegisteredModelTag(p, q) == q.op = "deleteModelTag" /\ Begin(p, q, "exec")
HandleUpdateModelVersion(p, q) == q.op = "updateVersion" /\ Begin(p, q, "exec")
HandleDeleteModelVersion(p, q) == q.op = "deleteVersion" /\ Begin(p, q, "exec")
HandleTransitionModelStage(p, q) == q.op = "transition" /\ Begin(p, q, "exec")
HandleDeleteModelVersionTag(p, q) == q.op = "deleteVersionTag" /\ Begin(p, q, "exec")
HandleDeleteModelAlias(p, q) == q.op = "deleteAlias" /\ Begin(p, q, "exec")
\* One store call, which starts by looking for the row it refers to.
HandleRenameRegisteredModel(p, q) == q.op = "renameModel" /\ Begin(p, q, "check")
HandleSetRegisteredModelTag(p, q) == q.op = "setModelTag" /\ Begin(p, q, "check")
HandleSetModelVersionTag(p, q) == q.op = "setVersionTag" /\ Begin(p, q, "check")
HandleSetModelAlias(p, q) == q.op = "setAlias" /\ Begin(p, q, "check")
HandleSetPromptAlias(p, q) == q.op = "setPromptAlias" /\ Begin(p, q, "check")
HandleCreatePrompt(p, q) == q.op = "createPrompt" /\ Begin(p, q, "snapshot")
\* The row first, then its tags by one store call each, then a reload.
HandleCreateRegisteredModel(p, q) == q.op = "createModel" /\ Begin(p, q, "exec")
HandleCreateModelVersion(p, q) == q.op = "createVersion" /\ Begin(p, q, "check")

Arrival(p) ==
  \E q \in Requests :
    \/ HandleUpdateRegisteredModel(p, q) \/ HandleDeleteRegisteredModel(p, q)
    \/ HandleDeleteRegisteredModelTag(p, q) \/ HandleUpdateModelVersion(p, q)
    \/ HandleDeleteModelVersion(p, q) \/ HandleTransitionModelStage(p, q)
    \/ HandleDeleteModelVersionTag(p, q) \/ HandleDeleteModelAlias(p, q)
    \/ HandleRenameRegisteredModel(p, q) \/ HandleSetRegisteredModelTag(p, q)
    \/ HandleSetModelVersionTag(p, q) \/ HandleSetModelAlias(p, q)
    \/ HandleSetPromptAlias(p, q) \/ HandleCreatePrompt(p, q)
    \/ HandleCreateRegisteredModel(p, q) \/ HandleCreateModelVersion(p, q)

\* Any other error return: a cancelled request, a busy timeout.  A rename that has
\* switched foreign keys off still runs its deferred restoreForeignKeys.
Fail(p) ==
  /\ req[p].pc # "idle"
  /\ req[p].pc # "restore"
  /\ IF InCall(p, "renameModel", "tx") \/ InCall(p, "renameModel", "reload")
     THEN Goto(p, "restore") ELSE Done(p)
  /\ fresh' = fresh \ {p}
  /\ UNCHANGED <<reg, fk, scan, ops, births, deaths>>

\* The process restarts: its connections and requests are gone.
Crash ==
  /\ req' = [p \in Procs |-> IdleReq]
  /\ fk' = [c \in Conns |-> TRUE]
  /\ fresh' = {}
  /\ UNCHANGED <<reg, scan, ops, births, deaths>>

-----------------------------------------------------------------------------
(* Registered models.                                                       *)

\* Where a create goes once its row is there: to its first tag, or to the reload.
NextTag(p) == IF req[p].tags = <<>> THEN "reload" ELSE "tagCheck"

\* A unique violation is ErrAlreadyExists.
CreateRegisteredModel(p) ==
  LET n == req[p].call.name
  IN /\ InCall(p, "createModel", "exec")
     /\ Exec(p, ~HasModel(n), [reg EXCEPT !.models = @ \cup {[name |-> n, desc |-> FALSE]}], NextTag(p))

UpdateRegisteredModel(p) ==
  LET n == req[p].call.name
  IN /\ InCall(p, "updateModel", "exec")
     /\ Exec(p, HasModel(n),
             [reg EXCEPT !.models = (@ \ Named(@, n)) \cup {[name |-> n, desc |-> TRUE]}], "idle")

\* DELETE with ON DELETE CASCADE, if the connection enforces foreign keys.
WithoutModel(n, cascade) ==
  [t \in Tables |-> IF t = "models" \/ (cascade /\ t \in {"versions", "mtags", "vtags", "aliases"})
                    THEN reg[t] \ Named(reg[t], n) ELSE reg[t]]

DeleteRegisteredModel(p) ==
  LET n == req[p].call.name
  IN /\ InCall(p, "deleteModel", "exec")
     /\ \E c \in Free :
          LET left == WithoutModel(n, fk[c])
          IN /\ IF HasModel(n) THEN Write(left) ELSE NoWrite
             /\ deaths' = deaths + Cardinality(reg.versions) - Cardinality(left.versions)
     /\ Done(p)
     /\ UNCHANGED <<fk, ops, births>>

\* SetRegisteredModelTag: GetRegisteredModel, then the upsert, which the foreign key
\* refuses when the model has gone in between.
CheckModelForTag(p) ==
  /\ InCall(p, "setModelTag", "check") \/ InCall(p, "createModel", "tagCheck")
  /\ Query(p, HasModel(req[p].call.name), "tag")

\* The tag a request sets now, and where it goes afterwards.
TagKey(p) == IF req[p].tags # <<>> THEN Head(req[p].tags) ELSE req[p].call.key
AfterTag(p) ==
  req' = [req EXCEPT ![p] =
            IF req[p].tags = <<>> THEN IdleReq
            ELSE [req[p] EXCEPT !.tags = Tail(req[p].tags),
                                !.pc = IF Len(req[p].tags) = 1 THEN "reload" ELSE "tagCheck"]]

\* The upsert of a child row of parent on a connection of the pool.
Upsert(p, parent, tables) ==
  /\ \E c \in Free :
       \/ (fk[c] => parent) /\ Write(tables) /\ AfterTag(p)
       \/ fk[c] /\ ~parent /\ NoWrite /\ Done(p)
  /\ UNCHANGED <<fk, ops, births, deaths>>

SetRegisteredModelTag(p) ==
  LET n == req[p].call.name
  IN /\ InCall(p, "setModelTag", "tag") \/ InCall(p, "createModel", "tag")
     /\ Upsert(p, HasModel(n), [reg EXCEPT !.mtags = @ \cup {[name |-> n, key |-> TagKey(p)]}])

DeleteRegisteredModelTag(p) ==
  LET t == [name |-> req[p].call.name, key |-> req[p].call.key]
  IN /\ InCall(p, "deleteModelTag", "exec")
     /\ Exec(p, t \in reg.mtags, [reg EXCEPT !.mtags = @ \ {t}], "idle")

\* The reload at the end of a create: GetRegisteredModel, GetModelVersion.
Reload(p) ==
  /\ InCall(p, "createModel", "reload") \/ InCall(p, "createVersion", "reload")
  /\ Query(p, TRUE, "idle")

-----------------------------------------------------------------------------
(* RenameRegisteredModel: a connection is pinned, the two checks run on it, *)
(* foreign keys go off, one transaction renames the rows of five tables.    *)

RenameCheckSource(p) ==
  /\ InCall(p, "renameModel", "check")
  /\ \E c \in Free :
       IF HasModel(req[p].call.name)
       THEN req' = [req EXCEPT ![p].pc = "checkTarget", ![p].conn = c]
       ELSE Done(p)
  /\ NoWrite
  /\ UNCHANGED <<fk, ops, births, deaths>>

RenameCheckTarget(p) ==
  /\ InCall(p, "renameModel", "checkTarget")
  /\ IF HasModel(req[p].call.to) THEN Done(p) ELSE Goto(p, "pragma")
  /\ NoWrite
  /\ UNCHANGED <<fk, ops, births, deaths>>

\* An error here is Fail: a PRAGMA that reports one is taken not to have had an effect.
RenamePragma(p) ==
  /\ InCall(p, "renameModel", "pragma")
  /\ fk' = [fk EXCEPT ![req[p].conn] = FALSE]
  /\ Goto(p, "tx")
  /\ NoWrite
  /\ UNCHANGED <<ops, births, deaths>>

\* What is left of the primary keys of the rows of n when the name is dropped.
KeysOf(n) ==
  {<<"models">> : x \in Named(reg.models, n)} \cup
  {<<"versions", x.v>> : x \in Named(reg.versions, n)} \cup
  {<<"vtags", x.v, x.key>> : x \in Named(reg.vtags, n)} \cup
  {<<"mtags", x.key>> : x \in Named(reg.mtags, n)} \cup
  {<<"aliases", x.alias>> : x \in Named(reg.aliases, n)}

Renamed(rows, n, m) == {[x EXCEPT !.name = IF @ = n THEN m ELSE @] : x \in rows}

\* A rename that forgets one of the five tables.
RenameTxSkipsAliases(p) ==
  LET n == req[p].call.name
      m == req[p].call.to
  IN /\ InCall(p, "renameModel", "tx")
     /\ IF KeysOf(n) \cap KeysOf(m) = {}
        THEN /\ Write([t \in Tables |-> IF t \in {"prompts", "paliases", "aliases"} THEN reg[t]
                                        ELSE Renamed(reg[t], n, m)])
             /\ Goto(p, "reload")
        ELSE NoWrite /\ Goto(p, "restore")
     /\ UNCHANGED <<fk, ops, births, deaths>>

\* A primary key that is taken fails the transaction, and so ErrAlreadyExists.
RenameTx(p) ==
  LET n == req[p].call.name
      m == req[p].call.to
  IN /\ InCall(p, "renameModel", "tx")
     /\ \/ /\ KeysOf(n) \cap KeysOf(m) = {}
           /\ Write([t \in Tables |-> IF t \in {"prompts", "paliases"} THEN reg[t]
                                      ELSE Renamed(reg[t], n, m)])
           /\ Goto(p, "reload")
        \/ /\ KeysOf(n) \cap KeysOf(m) # {}
           /\ NoWrite
           /\ Goto(p, "restore")
     /\ UNCHANGED <<fk, ops, births, deaths>>

\* GetRegisteredModel(newName) runs on the pool while the pinned connection is held:
\* the deferred calls come after it.
RenameReload(p) ==
  /\ InCall(p, "renameModel", "reload")
  /\ Free # {}
  /\ Goto(p, "restore")
  /\ NoWrite
  /\ UNCHANGED <<fk, ops, births, deaths>>

\* restoreForeignKeys with a context nobody cancels; a connection on which even
\* that fails is dropped, and the pool opens another.  Then conn.Close.
RestoreForeignKeys(p) ==
  /\ InCall(p, "renameModel", "restore")
  /\ fk' = [fk EXCEPT ![req[p].conn] = TRUE]
  /\ Done(p)
  /\ NoWrite
  /\ UNCHANGED <<ops, births, deaths>>

-----------------------------------------------------------------------------
(* Model versions and aliases.                                              *)

\* CreateModelVersion: GetRegisteredModel.
CheckModelForVersion(p) ==
  /\ InCall(p, "createVersion", "check")
  /\ Query(p, HasModel(req[p].call.name), "snapshot")

Top(rows, n) == LET vs == {x.v : x \in Named(rows, n)} \cup {0}
                IN CHOOSE v \in vs : \A w \in vs : w <= v

\* One attempt of retryWriteRace: BeginTx and SELECT MAX(version) + 1.
SelectNextVersion(p) ==
  /\ InCall(p, "createVersion", "snapshot")
  /\ \E c \in Free :
       req' = [req EXCEPT ![p].pc = "insert", ![p].conn = c,
                          ![p].ver = Top(reg.versions, req[p].call.name) + 1]
  /\ fresh' = fresh \cup {p}
  /\ UNCHANGED <<reg, fk, scan, ops, births, deaths>>

RaceSameSnapshot(p) ==
  /\ fresh' = fresh \ {p}
  /\ UNCHANGED <<reg, fk, req, scan, ops, births, deaths>>

\* The INSERT meets a newer commit (of any table), a taken key or a busy database
\* (isSnapshotRaceErr): roll back, and
\* try again unless that was the last attempt.
Race(p) ==
  /\ req' = [req EXCEPT ![p] =
               IF req[p].tries + 1 = MaxAttempts THEN IdleReq
               ELSE [req[p] EXCEPT !.pc = "snapshot", !.conn = NoConn, !.tries = req[p].tries + 1]]
  /\ fresh' = fresh \ {p}
  /\ UNCHANGED <<reg, fk, scan, ops, births, deaths>>

\* INSERT OR REPLACE outside the transaction of the SELECT.
InsertOrReplace(p) ==
  LET n == req[p].call.name
      v == req[p].ver
      row == [name |-> n, v |-> v, stage |-> "None", desc |-> FALSE]
  IN /\ InCall(p, "createVersion", "insert")
     /\ IF fk[req[p].conn] => HasModel(n)
        THEN /\ Write([reg EXCEPT !.versions = (@ \ Version(@, n, v)) \cup {row}])
             /\ births' = births + 1
             /\ req' = [req EXCEPT ![p].pc = NextTag(p), ![p].conn = NoConn]
        ELSE /\ Done(p)
             /\ fresh' = fresh \ {p}
             /\ UNCHANGED <<reg, scan, births>>
     /\ UNCHANGED <<fk, ops, deaths>>

InsertModelVersion(p) ==
  LET n == req[p].call.name
      v == req[p].ver
      row == [name |-> n, v |-> v, stage |-> "None", desc |-> FALSE]
      parent == fk[req[p].conn] => HasModel(n)
  IN /\ InCall(p, "createVersion", "insert")
     /\ \/ /\ p \in fresh /\ ~HasVersion(n, v) /\ parent
           /\ Write([reg EXCEPT !.versions = @ \cup {row}])
           /\ births' = births + 1
           /\ req' = [req EXCEPT ![p].pc = NextTag(p), ![p].conn = NoConn]
           /\ UNCHANGED <<fk, ops, deaths>>
        \/ /\ p \in fresh /\ ~parent
           /\ Done(p)
           /\ fresh' = fresh \ {p}
           /\ UNCHANGED <<reg, fk, scan, ops, births, deaths>>
        \/ Race(p)

UpdateModelVersion(p) ==
  LET n == req[p].call.name
      v == req[p].call.v
  IN /\ InCall(p, "updateVersion", "exec")
     /\ Exec(p, HasVersion(n, v),
             [reg EXCEPT !.versions = {IF x.name = n /\ x.v = v THEN [x EXCEPT !.desc = TRUE] ELSE x : x \in @}],
             "idle")

DeleteModelVersion(p) ==
  LET n == req[p].call.name
      v == req[p].call.v
  IN /\ InCall(p, "deleteVersion", "exec")
     /\ \E c \in Free :
          IF HasVersion(n, v)
          THEN Write([t \in Tables |-> IF t = "versions" \/ (fk[c] /\ t \in {"vtags", "aliases"})
                                       THEN reg[t] \ Version(reg[t], n, v) ELSE reg[t]])
          ELSE NoWrite
     /\ deaths' = deaths + Cardinality(Version(reg.versions, n, v))
     /\ Done(p)
     /\ UNCHANGED <<fk, ops, births>>

\* One transaction: archive the other Production versions, then move this one; no
\* such version rolls both back.
Transitioned(n, v, stage, archive) ==
  {CASE x.name = n /\ x.v = v -> [x EXCEPT !.stage = stage]
     [] x.name = n /\ x.v # v /\ archive /\ stage = "Production" /\ x.stage = "Production"
          -> [x EXCEPT !.stage = "Archived"]
     [] OTHER -> x : x \in reg.versions}

TransitionModelStage(p) ==
  LET q == req[p].call
  IN /\ InCall(p, "transition", "exec")
     /\ Exec(p, q.stage \in Stages /\ HasVersion(q.name, q.v),
             [reg EXCEPT !.versions = Transitioned(q.name, q.v, q.stage, q.archive)], "idle")

\* The version a tag or an alias is for: of the request, or the one just created.
TargetVersion(p) == IF req[p].call.op = "createVersion" THEN req[p].ver ELSE req[p].call.v

\* SetModelVersionTag and SetModelAlias: GetModelVersion, then the upsert.
CheckVersion(p) ==
  /\ \/ InCall(p, "setVersionTag", "check") \/ InCall(p, "createVersion", "tagCheck")
     \/ InCall(p, "setAlias", "check")
  /\ Query(p, HasVersion(req[p].call.name, TargetVersion(p)), "tag")

SetModelVersionTag(p) ==
  LET n == req[p].call.name
      v == TargetVersion(p)
  IN /\ InCall(p, "setVersionTag", "tag") \/ InCall(p, "createVersion", "tag")
     /\ Upsert(p, HasVersion(n, v),
               [reg EXCEPT !.vtags = @ \cup {[name |-> n, v |-> v, key |-> TagKey(p)]}])

DeleteModelVersionTag(p) ==
  LET t == [name |-> req[p].call.name, v |-> req[p].call.v, key |-> req[p].call.key]
  IN /\ InCall(p, "deleteVersionTag", "exec")
     /\ Exec(p, t \in reg.vtags, [reg EXCEPT !.vtags = @ \ {t}], "idle")

AliasRows(rows, n, a) == {x \in rows : x.name = n /\ x.alias = a}

SetModelAlias(p) ==
  LET q == req[p].call
  IN /\ InCall(p, "setAlias", "tag")
     /\ Upsert(p, HasVersion(q.name, q.v),
               [reg EXCEPT !.aliases = (@ \ AliasRows(@, q.name, q.alias))
                                         \cup {[name |-> q.name, alias |-> q.alias, v |-> q.v]}])

DeleteModelAlias(p) ==
  LET rows == AliasRows(reg.aliases, req[p].call.name, req[p].call.alias)
  IN /\ InCall(p, "deleteAlias", "exec")
     /\ Exec(p, rows # {}, [reg EXCEPT !.aliases = @ \ rows], "idle")

-----------------------------------------------------------------------------
(* Prompts: never deleted, and no two versions with the same content.       *)

\* One attempt: the version that has this content, or MAX(version) + 1, read in
\* the transaction of the INSERT.
SelectPromptVersion(p) ==
  LET q == req[p].call
      same == {x \in Named(reg.prompts, q.name) : x.content = q.content}
  IN /\ InCall(p, "createPrompt", "snapshot")
     /\ \E c \in Free :
          IF same # {} THEN Done(p)
          ELSE req' = [req EXCEPT ![p].pc = "insert", ![p].conn = c,
                                  ![p].ver = Top(reg.prompts, q.name) + 1]
     /\ fresh' = IF same # {} THEN fresh ELSE fresh \cup {p}
     /\ UNCHANGED <<reg, fk, scan, ops, births, deaths>>

InsertPrompt(p) ==
  LET q == req[p].call
      row == [name |-> q.name, v |-> req[p].ver, content |-> q.content]
  IN /\ InCall(p, "createPrompt", "insert")
     /\ \/ /\ p \in fresh /\ ~HasPrompt(q.name, req[p].ver)
           /\ Write([reg EXCEPT !.prompts = @ \cup {row}])
           /\ Done(p)
           /\ UNCHANGED <<fk, ops, births, deaths>>
        \/ Race(p)

CheckPrompt(p) ==
  /\ InCall(p, "setPromptAlias", "check")
  /\ Query(p, HasPrompt(req[p].call.name, req[p].call.v), "tag")

SetPromptAlias(p) ==
  LET q == req[p].call
  IN /\ InCall(p, "setPromptAlias", "tag")
     /\ Upsert(p, HasPrompt(q.name, q.v),
               [reg EXCEPT !.paliases = (@ \ AliasRows(@, q.name, q.alias))
                                          \cup {[name |-> q.name, alias |-> q.alias, v |-> q.v]}])

-----------------------------------------------------------------------------
(* Searches: keyset pages, each a query of its own.                         *)

Before(j, k) == j[1] < k[1] \/ (j[1] = k[1] /\ j[2] < k[2])

\* A page that starts with the last row of the page before.
RemainingInclusive(t, token) == {k \in Keys(reg, t) : ~Before(k, token)}

\* WHERE key > token ORDER BY key LIMIT PageSize + 1, less the extra row.
Remaining(t, token) == {k \in Keys(reg, t) : Before(token, k)}
Page(t, token) == {k \in Remaining(t, token) : Cardinality({j \in Remaining(t, token) : Before(j, k)}) < PageSize}

SearchPage(s, t) ==
  LET page == Page(t, scan[s].token)
      more == page # Remaining(t, scan[s].token)
  IN /\ \/ scan[s].pc = "idle"
        \/ scan[s].pc = "next" /\ scan[s].table = t
     /\ Free # {}
     /\ scan' = [scan EXCEPT ![s] =
          [pc |-> IF more THEN "next" ELSE "done", table |-> t,
           token |-> IF more THEN CHOOSE k \in page : \A j \in page : ~Before(k, j) ELSE scan[s].token,
           pages |-> Append(scan[s].pages, page),
           steady |-> IF scan[s].pc = "idle" THEN Keys(reg, t) ELSE scan[s].steady]]
     /\ UNCHANGED <<reg, fk, req, fresh, ops, births, deaths>>

SearchRegisteredModels(s) == SearchPage(s, "models")
SearchModelVersions(s) == SearchPage(s, "versions")

-----------------------------------------------------------------------------
Step(p) ==
  \/ CreateRegisteredModel(p) \/ UpdateRegisteredModel(p) \/ DeleteRegisteredModel(p)
  \/ CheckModelForTag(p) \/ SetRegisteredModelTag(p) \/ DeleteRegisteredModelTag(p) \/ Reload(p)
  \/ RenameCheckSource(p) \/ RenameCheckTarget(p) \/ RenamePragma(p) \/ RenameTx(p)
  \/ RenameReload(p) \/ RestoreForeignKeys(p)
  \/ CheckModelForVersion(p) \/ SelectNextVersion(p) \/ InsertModelVersion(p)
  \/ UpdateModelVersion(p) \/ DeleteModelVersion(p) \/ TransitionModelStage(p)
  \/ CheckVersion(p) \/ SetModelVersionTag(p) \/ DeleteModelVersionTag(p)
  \/ SetModelAlias(p) \/ DeleteModelAlias(p)
  \/ SelectPromptVersion(p) \/ InsertPrompt(p) \/ CheckPrompt(p) \/ SetPromptAlias(p)

Next ==
  \/ Crash
  \/ \E p \in Procs : Arrival(p) \/ Step(p) \/ Fail(p)
  \/ \E s \in Scanners : SearchRegisteredModels(s) \/ SearchModelVersions(s)

Spec == Init /\ [][Next]_vars

\* Goroutines are scheduled and statements return; nobody is assumed to cancel.
FairSpec == Spec /\ \A p \in Procs : WF_vars(Step(p))

-----------------------------------------------------------------------------
(* Properties.                                                              *)

\* No version, tag or alias outlives the row it belongs to, although renames run
\* without foreign keys, crash, fail halfway and race with creates and deletes; and
\* foreign keys are off only on a connection that a rename holds ("always re-enable FK
\* enforcement before the connection returns to the pool").
NoOrphans ==
  /\ Intact(reg)
  /\ \A c \in Conns : ~fk[c] => \E p \in Procs : req[p].conn = c /\ req[p].call.op = "renameModel"

\* Every CreateModelVersion that committed has a row of its own until that row is deleted:
\* of two registrations that read the same MAX(version), one starts again.  (A number
\* comes again once the highest version is deleted, so this counts rows.)  A prompt has
\* each content once and its versions are numbered without gaps (the dedup lookup is in
\* the retried transaction).
RegistrationsKept ==
  /\ Cardinality(reg.versions) + deaths = births
  /\ Numbered(reg.prompts)

\* A search that is paged to its end has returned every row that was there all the
\* time, and none twice, whatever was created, renamed or deleted between its pages.
ScanComplete ==
  \A s \in Scanners :
    /\ \A i, j \in 1 .. Len(scan[s].pages) : i # j => scan[s].pages[i] \cap scan[s].pages[j] = {}
    /\ scan[s].pc = "done" => scan[s].steady \subseteq UNION {scan[s].pages[i] : i \in 1 .. Len(scan[s].pages)}

\* With a connection to spare every request ends: retries are bounded, and a rename
\* gets the second connection its reload needs.
RequestsFinish == \A p \in Procs : req[p].pc # "idle" ~> req[p].pc = "idle"

=============================================================================
