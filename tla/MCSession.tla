----------------------------- MODULE MCSession -----------------------------
(* An instance of Session for TLC: two processes, each with a worker of the *)
(* model's own and one that may report twice.                              *)
EXTENDS Session

SomePaths == {"home", "work", "net"}
SomeLocalPaths == {"home", "work"}
TwoProcesses == {1, 2}
SomeWorkers == {"listing", "preview"}
OutsideWorkers == {"preview"}
=============================================================================
