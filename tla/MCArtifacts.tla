---------------------------- MODULE MCArtifacts ----------------------------
(* Instances of Artifacts for TLC: two runs, one with a name that begins    *)
(* like the other's, and in the first a file with such a sibling and a      *)
(* directory.                                                               *)
EXTENDS Artifacts

Run == <<"r">>
A == <<"r", "/", "a">>
ABak == <<"r", "/", "a", ".bak">>
D == <<"r", "/", "d">>
F == <<"r", "/", "d", "/", "f">>
OtherA == <<"r", "2", "/", "a">>

MCOrder == <<A, ABak, F, OtherA>>
MCOld == {A, ABak, OtherA}

Call(op, path, size) == [op |-> op, path |-> path, size |-> size]
MCRequests ==
  {Call("upload", A, n) : n \in {2, 3}} \cup
  {Call("upload", F, 1), Call("upload", Run, 1), Call("get", A, 0), Call("list", Run, 0)} \cup
  {Call("delete", x, 0) : x \in {A, D, Run}}

Config(backend, threshold, max) == [backend |-> backend, threshold |-> threshold, max |-> max]
MCConfigs == {Config("fs", 1, 2), Config("s3", 1, 2), Config("s3", 2, 3), Config("s3", 3, 2)}
=============================================================================
