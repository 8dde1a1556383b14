--------------------------- MODULE MCTaskManager ---------------------------
(* An instance of TaskManager and its refinement for TLC. *)
EXTENDS TaskManagerRefinement

\* Copy and Move differ only in the operation called: one kind stands for both.
OneKind == {"copy"}
=============================================================================
