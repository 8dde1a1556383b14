--------------------------- MODULE MCFileTransfer ---------------------------
(* Instances of FileTransfer for TLC: a directory that holds a file and a   *)
(* directory, which holds a file.                                          *)
EXTENDS FileTransfer

TreeNodes == {"top", "file", "sub", "leaf"}
TreeParent(n) == IF n = "leaf" THEN "sub" ELSE "top"
=============================================================================
