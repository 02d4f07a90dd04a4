----------------------------- MODULE MCDatasets -----------------------------
(* Datasets for TLC: a server with a small history and two requests at once. *)
EXTENDS Datasets, TLC

ProcSymmetry == Permutations(Procs)

Old(ds, v, hash) == [ds |-> ds, v |-> v, hash |-> hash, active |-> TRUE, mirrored |-> FALSE]

\* Three versions in a diamond: the third has both others for parents.
MCRows == <<Old(<<"w", "a">>, 1, "x"), Old(<<"w", "a">>, 2, "x"), Old(<<"w", "b">>, 1, "x")>>
MCEdges == {<<2, 1>>, <<3, 1>>, <<3, 2>>}
\* An input logged before dataset_inputs_v2 existed.
MCInputs == << <<<<"w", "r">>, <<"a", "y">>>> >>

Upload(ds, c, parents) == [op |-> "upload", ds |-> ds, content |-> c, parents |-> parents]
Inputs(run, inputs) == [op |-> "logInputs", run |-> run, inputs |-> inputs]

MCRequests ==
  {Upload(<<"w", "a">>, "y", {1, 2, 3}), Upload(<<"v", "a">>, "x", {1}),
   [op |-> "delete", ds |-> <<"w", "a">>, v |-> 3],
   Inputs(<<"w", "r">>, << <<"a", "y">> >>), Inputs(<<"w", "q">>, << <<"a", "y">>, <<"a", "y">> >>)}
=============================================================================
