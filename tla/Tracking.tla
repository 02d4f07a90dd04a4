------------------------------ MODULE Tracking ------------------------------
(***************************************************************************)
(* What clients log to runs, and how they page through it: LogMetrics,     *)
(* LogParam, InsertSpans, SearchRuns and GetMetricHistory of               *)
(* internal/store/sqlite.go with the trigger of migration 010, the         *)
(* logging and search handlers of api/mlflow, and the trace receivers of   *)
(* api/native and grpcotlp.                                                *)
(*                                                                         *)
(* A batch is not one transaction: its metrics are, then every param is    *)
(* written by itself, then the tags.  Between any two of these the request *)
(* may fail, other requests run, and clients send the same batch again.    *)
(* Run rows and tags are the subject of RunStore; here they are what the   *)
(* searches sort and select by.                                            *)
(***************************************************************************)
EXTENDS Keyset

CONSTANTS
  Procs,     \* request goroutines
  Requests,  \* what clients send
  Runs,      \* run ids, as numbers: their order is the tie-break's
  OldRuns,   \* start times of the runs there from the beginning
  Keys,      \* param keys
  Values,    \* param values
  SpanIds, Traces,
  Times,     \* timestamps the server may assign
  PageSize,  \* MaxResults of the searches
  MaxOps,    \* bound: requests served in a behaviour
  Nothing,   \* NULL, or no row
  NaN        \* any value that is not finite

(* What the requests carry.                                                *)
Point(ts, step, val) == [ts |-> ts, step |-> step, val |-> val]
LogReq(op, r, ms, ps) == [op |-> op, run |-> r, metrics |-> ms, params |-> ps]
Span(id, trace, r, ended) == [id |-> id, trace |-> trace, run |-> r, ended |-> ended]
SpansReq(op, batch) == [op |-> op, spans |-> batch]
SearchRunsReq(order) == [op |-> "searchRuns", order |-> order]
HistoryReq(r, asOf) == [op |-> "history", run |-> r, asOf |-> asOf]

VARIABLES
  runs,     \* table runs: start_time and lifecycle_stage, or Nothing
  metrics,  \* table metrics, one key: the points of each run
  latest,   \* table metrics_latest
  params,   \* table params
  spans,    \* table traces
  req,      \* the request each goroutine serves
  ops,      \* requests begun
  acked,    \* history: requests answered with success
  refused,  \* history: params refused as already set
  steady    \* history: the rows a search matched ever since it began

db == <<runs, metrics, latest, params, spans>>
hist == <<acked, refused>>
vars == <<runs, metrics, latest, params, spans, req, ops, acked, refused, steady>>

Idle == [pc |-> "idle", q |-> [op |-> "none"], rest |-> <<>>,
         cursor |-> Start, out |-> {}, twice |-> {}]

(* Their types, and those of what is stored.                               *)
PointReq == [ts : Int, step : Int, val : Int \cup {NaN}]
PointRow == [ts : Int, step : Int, val : Int]
SpanReq == [id : SpanIds, trace : Traces, run : Runs \cup {Nothing}, ended : Nat]
SpanRow == [trace : Traces, run : Runs \cup {Nothing}, ended : Nat]
LogReqs == [op : {"logMetric", "logParameter", "logBatch"}, run : Runs,
            metrics : Seq(PointReq), params : Seq(Keys \X Values)]
SpanReqs == [op : {"ingestTraces", "ingestOTLP", "export"}, spans : Seq(SpanReq)]
SearchReqs == [op : {"searchRuns"}, order : {"start", "metricAsc", "metricDesc"}]
HistoryReqs == [op : {"history"}, run : Runs, asOf : Int]
RunReqs == [op : {"createRun"}, run : Runs, start : Int]
           \cup [op : {"setStage"}, run : Runs, stage : {"active", "deleted"}]

ASSUME TrackingConstants ==
  /\ Runs \subseteq Nat /\ IsFiniteSet(Runs)
  /\ DOMAIN OldRuns \subseteq Runs /\ \A r \in DOMAIN OldRuns : OldRuns[r] \in Int
  /\ PageSize \in Nat \ {0} /\ MaxOps \in Nat /\ Times \subseteq Nat \ {0}
  /\ Requests \subseteq LogReqs \cup SpanReqs \cup SearchReqs \cup HistoryReqs \cup RunReqs
  /\ Nothing \notin Values /\ Nothing \notin PointRow /\ Nothing \notin SpanRow

Init ==
  /\ runs = [r \in Runs |-> IF r \in DOMAIN OldRuns
                            THEN [start |-> OldRuns[r], stage |-> "active"] ELSE Nothing]
  /\ metrics = [r \in Runs |-> {}] /\ latest = [r \in Runs |-> Nothing]
  /\ params = [r \in Runs |-> [k \in Keys |-> Nothing]]
  /\ spans = [s \in SpanIds |-> Nothing]
  /\ req = [p \in Procs |-> Idle] /\ ops = 0
  /\ acked = {} /\ refused = {} /\ steady = [p \in Procs |-> {}]

Exists(r) == runs[r] # Nothing

-----------------------------------------------------------------------------
(* Requests.  The workspace of the caller and of the run are the subject of *)
(* Access: here every run that exists is the caller's.                      *)

Arrive(p) ==
  /\ req[p].pc = "idle" /\ ops < MaxOps
  /\ \E q \in Requests : req' = [req EXCEPT ![p] = [Idle EXCEPT !.pc = "serve", !.q = q]]
  /\ ops' = ops + 1
  /\ UNCHANGED <<db, hist>>

At(p, pc) == req[p].pc = pc
Serving(p, op) == At(p, "serve") /\ req[p].q.op = op
Goto(p, pc) == req' = [req EXCEPT ![p].pc = pc]
End(p) == req' = [req EXCEPT ![p] = Idle]
Ack(p) == End(p) /\ acked' = acked \cup {req[p].q}

CreateRun(p) ==
  LET q == req[p].q IN
  /\ Serving(p, "createRun")
  /\ runs' = IF Exists(q.run) THEN runs
             ELSE [runs EXCEPT ![q.run] = [start |-> q.start, stage |-> "active"]]
  /\ End(p)
  /\ UNCHANGED <<metrics, latest, params, spans, ops, hist>>

\* DeleteRun and RestoreRun.
SetRunLifecycle(p) ==
  LET q == req[p].q IN
  /\ Serving(p, "setStage")
  /\ runs' = IF Exists(q.run) THEN [runs EXCEPT ![q.run].stage = q.stage] ELSE runs
  /\ End(p)
  /\ UNCHANGED <<metrics, latest, params, spans, ops, hist>>

-----------------------------------------------------------------------------
(* LogMetric, LogParameter and LogBatch.                                    *)

\* ensureRunInWorkspace, for every handler that names a run.
FindRun(p) ==
  /\ IF Exists(req[p].q.run)
     THEN req' = [req EXCEPT ![p].pc = "metrics", ![p].rest = req[p].q.params]
     ELSE End(p)
  /\ UNCHANGED <<db, ops, hist>>

\* One metric, one param, or both and tags.
LogMetric(p) == Serving(p, "logMetric") /\ FindRun(p)
LogParameter(p) == Serving(p, "logParameter") /\ FindRun(p)
LogBatch(p) == Serving(p, "logBatch") /\ FindRun(p)

\* The trigger without its WHERE: the last writer wins.
TriggerOverwrites(old, pt) == pt

\* trg_metrics_latest_ai.
Trigger(old, pt) ==
  IF \/ old = Nothing
     \/ pt.ts > old.ts
     \/ pt.ts = old.ts /\ pt.step >= old.step
  THEN pt ELSE old

\* INSERT ... ON CONFLICT (run, key, timestamp, step) DO NOTHING; the trigger fires
\* for a row that was inserted.
InsertPoint(table, pt) ==
  IF \E m \in table.points : m.ts = pt.ts /\ m.step = pt.step THEN table
  ELSE [points |-> table.points \cup {pt}, last |-> Trigger(table.last, pt)]

\* The loop over the points of a batch.
InsertPoints(table, points) ==
  LET done[i \in 0 .. Len(points)] == IF i = 0 THEN table ELSE InsertPoint(done[i - 1], points[i])
  IN done[Len(points)]

\* A point without a timestamp gets the time of its insertion, now[i].
Stamped(batch, now) ==
  [i \in DOMAIN batch |-> IF batch[i].ts = 0 THEN [batch[i] EXCEPT !.ts = now[i]] ELSE batch[i]]

\* One transaction: a value that is not finite rolls it back.
LogMetrics(p) ==
  LET q == req[p].q
      batch == q.metrics
      table == [points |-> metrics[q.run], last |-> latest[q.run]] IN
  /\ At(p, "metrics")
  /\ IF \E i \in DOMAIN batch : batch[i].val = NaN
     THEN End(p) /\ UNCHANGED <<metrics, latest>>
     ELSE \E now \in [DOMAIN batch -> Times] :
            LET done == InsertPoints(table, Stamped(batch, now)) IN
            /\ metrics' = [metrics EXCEPT ![q.run] = done.points]
            /\ latest' = [latest EXCEPT ![q.run] = done.last]
            /\ Goto(p, "params")
  /\ UNCHANGED <<runs, params, spans, ops, hist>>

\* An upsert.
LogParamUpserts(p) ==
  LET q == req[p].q
      kv == Head(req[p].rest) IN
  /\ At(p, "params") /\ req[p].rest # <<>>
  /\ params' = [params EXCEPT ![q.run][kv[1]] = kv[2]]
  /\ req' = [req EXCEPT ![p].rest = Tail(req[p].rest)]
  /\ UNCHANGED <<runs, metrics, latest, spans, ops, hist>>

\* The INSERT; a param that is set already is read back next.
LogParam(p) ==
  LET q == req[p].q
      kv == Head(req[p].rest) IN
  /\ At(p, "params") /\ req[p].rest # <<>>
  /\ IF params[q.run][kv[1]] = Nothing
     THEN /\ params' = [params EXCEPT ![q.run][kv[1]] = kv[2]]
          /\ req' = [req EXCEPT ![p].rest = Tail(req[p].rest)]
     ELSE Goto(p, "compare") /\ UNCHANGED params
  /\ UNCHANGED <<runs, metrics, latest, spans, ops, hist>>

\* Any row in the way is a conflict.
CompareNever(p) ==
  /\ At(p, "compare")
  /\ End(p)
  /\ refused' = refused \cup {[run |-> req[p].q.run, param |-> Head(req[p].rest)]}
  /\ UNCHANGED <<db, ops, acked>>

\* The same value is a success, another one ends the batch where it stands.
CompareParam(p) ==
  LET q == req[p].q
      kv == Head(req[p].rest) IN
  /\ At(p, "compare")
  /\ IF params[q.run][kv[1]] = kv[2]
     THEN req' = [req EXCEPT ![p].pc = "params", ![p].rest = Tail(req[p].rest)] /\ UNCHANGED refused
     ELSE End(p) /\ refused' = refused \cup {[run |-> q.run, param |-> kv]}
  /\ UNCHANGED <<db, ops, acked>>

\* SetTags for the tags of a batch, and the answer.
LogTags(p) ==
  /\ At(p, "params") /\ req[p].rest = <<>>
  /\ Ack(p)
  /\ UNCHANGED <<db, ops, refused>>

-----------------------------------------------------------------------------
(* IngestTraces, IngestOTLP and Export.                                     *)

\* Every run that the spans name has to be there.  Rows of runs are never
\* removed, so the lookups are one step.
FindSpanRuns(p) ==
  LET batch == req[p].q.spans IN
  /\ IF \A i \in DOMAIN batch : batch[i].run = Nothing \/ Exists(batch[i].run)
     THEN Goto(p, "insert") ELSE End(p)
  /\ UNCHANGED <<db, ops, hist>>

\* Three ways in, which differ in how they decode.
IngestTraces(p) == Serving(p, "ingestTraces") /\ FindSpanRuns(p)
IngestOTLP(p) == Serving(p, "ingestOTLP") /\ FindSpanRuns(p)
Export(p) == Serving(p, "export") /\ FindSpanRuns(p)

Conflict == <<>>   \* in place of the table

\* The upsert updates a span of the same trace and the same run, or of no run yet;
\* no row affected is a conflict, which the rest of the batch inherits.
UpsertSpan(table, sp) ==
  IF table = Conflict THEN Conflict
  ELSE LET old == table[sp.id] IN
       IF old = Nothing
       THEN [table EXCEPT ![sp.id] = [trace |-> sp.trace, run |-> sp.run, ended |-> sp.ended]]
       ELSE IF old.trace = sp.trace /\ old.run \in {Nothing, sp.run}
       THEN [table EXCEPT ![sp.id].run = sp.run, ![sp.id].ended = sp.ended]
       ELSE Conflict

\* The loop over the spans of a batch.
UpsertSpans(table, batch) ==
  LET done[i \in 0 .. Len(batch)] == IF i = 0 THEN table ELSE UpsertSpan(done[i - 1], batch[i])
  IN done[Len(batch)]

InsertSpans(p) ==
  LET done == UpsertSpans(spans, req[p].q.spans) IN
  /\ At(p, "insert")
  /\ IF done = Conflict THEN End(p) /\ UNCHANGED <<spans, acked>>
     ELSE Ack(p) /\ spans' = done
  /\ UNCHANGED <<runs, metrics, latest, params, ops, refused>>

-----------------------------------------------------------------------------
(* SearchRuns and GetMetricHistory, called until there is no next page.     *)

\* The latest point of a run, as getLatestMetricsAsOf and metricOrderProj reduce
\* the history to it.
Latest(points) ==
  IF points = {} THEN Nothing
  ELSE CHOOSE m \in points :
         \A n \in points : n.ts < m.ts \/ (n.ts = m.ts /\ n.step <= m.step)

\* The ORDER BY of a search: start_time DESC, or the metric in either direction
\* with the runs that miss it last, and the id.
RunKey(r, order) ==
  LET m == Latest(metrics[r]) IN
  CASE order = "start" -> <<-runs[r].start, r>>
    [] order = "metricAsc" -> IF m = Nothing THEN <<1, 0, r>> ELSE <<0, m.val, r>>
    [] order = "metricDesc" -> IF m = Nothing THEN <<1, 0, r>> ELSE <<0, -m.val, r>>

\* The rows a search ranges over.
Matching(q) ==
  IF q.op = "history"
  THEN {[id |-> <<m.ts, m.step>>, key |-> <<m.ts, m.step>>] : m \in metrics[q.run]}
  ELSE {[id |-> r, key |-> RunKey(r, q.order)] :
          r \in {r \in Runs : Exists(r) /\ runs[r].stage = "active"}}

\* The history handler drops the points after as_of, once the page is made up.
Shown(q, rows) ==
  {r.id : r \in IF q.op = "history" /\ q.asOf > 0 THEN {r \in rows : r.id[1] <= q.asOf} ELSE rows}

SearchPage(p) ==
  LET q == req[p].q
      left == Rest(Matching(q), req[p].cursor)
      page == Shown(q, First(left, PageSize))
      token == Token(left, PageSize) IN
  req' = [req EXCEPT ![p].pc = IF token = Start THEN "searched" ELSE "page",
                     ![p].cursor = token,
                     ![p].out = req[p].out \cup page,
                     ![p].twice = req[p].twice \cup (req[p].out \cap page)]

Paging(p, op) == At(p, "page") /\ req[p].q.op = op

SearchRuns(p) ==
  /\ Serving(p, "searchRuns") \/ Paging(p, "searchRuns")
  /\ SearchPage(p)
  /\ UNCHANGED <<db, ops, hist>>

GetMetricHistory(p) ==
  /\ Serving(p, "history") \/ Paging(p, "history")
  /\ IF Exists(req[p].q.run) THEN SearchPage(p) ELSE End(p)
  /\ UNCHANGED <<db, ops, hist>>

EndSearch(p) == At(p, "searched") /\ End(p) /\ UNCHANGED <<db, ops, hist>>

\* A store call returns an error, a context that was cancelled included.
Fail(p) ==
  /\ req[p].pc \notin {"idle", "searched"}
  /\ End(p)
  /\ UNCHANGED <<db, ops, hist>>

-----------------------------------------------------------------------------

IsSearch(q) == q.op \in {"searchRuns", "history"}

\* A search begins when its request arrives.
Observe ==
  steady' = [p \in Procs |->
               IF ~IsSearch(req'[p].q) THEN {}
               ELSE IF req[p].pc = "idle" THEN Matching(req[p].q)'
               ELSE steady[p] \cap Matching(req[p].q)']

Serve(p) ==
  \/ CreateRun(p) \/ SetRunLifecycle(p)
  \/ LogMetric(p) \/ LogParameter(p) \/ LogBatch(p)
  \/ LogMetrics(p) \/ LogParam(p) \/ CompareParam(p) \/ LogTags(p)
  \/ IngestTraces(p) \/ IngestOTLP(p) \/ Export(p) \/ InsertSpans(p)
  \/ SearchRuns(p) \/ GetMetricHistory(p) \/ EndSearch(p)

Next == (\E p \in Procs : Arrive(p) \/ Serve(p) \/ Fail(p)) /\ Observe

Spec == Init /\ [][Next]_vars

-----------------------------------------------------------------------------
(* What was answered with success stays logged: whatever other clients send, *)
(* every param of the batch keeps its value and every point it timed itself  *)
(* has its row (LogBatch, LogParam's immutability); every span stays in the  *)
(* trace and the run it was sent for, though exports reuse ids (InsertSpans). *)
AckedLogged ==
  \A q \in acked :
    /\ "metrics" \in DOMAIN q =>
         /\ \A i \in DOMAIN q.params : params[q.run][q.params[i][1]] = q.params[i][2]
         /\ \A i \in DOMAIN q.metrics :
              \E m \in metrics[q.run] : q.metrics[i].ts \in {0, m.ts} /\ m.step = q.metrics[i].step
    /\ "spans" \in DOMAIN q =>
         \A i \in DOMAIN q.spans :
           LET sp == q.spans[i] IN
           /\ spans[sp.id] # Nothing
           /\ spans[sp.id].trace = sp.trace
           /\ sp.run # Nothing => spans[sp.id].run = sp.run

(* A param is refused as already set only against another value: a client that *)
(* sends a batch again, after a failure half-way through it or at the same time *)
(* as its first attempt, is never refused by its own writes (LogParam).         *)
RetrySafe ==
  \A f \in refused : params[f.run][f.param[1]] \notin {Nothing, f.param[2]}

(* metrics_latest, which the analytics queries read, is what the reduction of *)
(* the whole history would give, in whichever order the points arrived        *)
(* (trg_metrics_latest_ai against metricOrderProj and getLatestMetricsAsOf).  *)
LatestExact == \A r \in Runs : latest[r] = Latest(metrics[r])

(* The pages of a search hold every row that matched all along with the same *)
(* sort key exactly once, whatever is created, deleted or logged between two *)
(* pages; a history as of T shows those up to T (SearchRuns on both of its   *)
(* paths, GetMetricHistory).                                                 *)
SearchExact ==
  \A p \in Procs :
    LET kept == Shown(req[p].q, steady[p]) IN
    /\ req[p].twice \cap kept = {}
    /\ At(p, "searched") => kept \subseteq req[p].out
=============================================================================
