----------------------------- MODULE MCTracking -----------------------------
(* Two request goroutines over three runs, two of them started at the same  *)
(* time, and one more that is created; one metric key, two param keys, two  *)
(* span ids.                                                                *)
EXTENDS Tracking, TLC

MCOldRuns == 1 :> 2 @@ 2 :> 2 @@ 3 :> 1

ProcSymmetry == Permutations(Procs)

MCRequests == {
  [op |-> "createRun", run |-> 4, start |-> 2],
  [op |-> "setStage", run |-> 1, stage |-> "deleted"],
  LogReq("logBatch", 1, <<Point(2, 1, 5), Point(1, 2, 6)>>, <<<<"k", "a">>, <<"l", "a">>>>),
  LogReq("logBatch", 1, <<Point(0, 1, 6), Point(0, 1, 5)>>, <<<<"k", "b">>>>),
  LogReq("logBatch", 2, <<Point(2, 0, 5), Point(3, 0, NaN)>>, <<>>),
  LogReq("logMetric", 2, <<Point(2, 0, -5)>>, <<>>),
  LogReq("logParameter", 1, <<>>, <<<<"l", "b">>>>),
  SpansReq("ingestTraces", <<Span("s", "t", Nothing, 0)>>),
  SpansReq("ingestOTLP", <<Span("s", "t", 1, 1), Span("c", "t", 1, 1)>>),
  SpansReq("export", <<Span("c", "u", Nothing, 0), Span("s", "t", 4, 1)>>),
  SearchRunsReq("start"), SearchRunsReq("metricAsc"), SearchRunsReq("metricDesc"),
  HistoryReq(1, 0), HistoryReq(1, 1) }
=============================================================================
