----------------------------- MODULE MCCommands -----------------------------
(* An instance of Commands for TLC: one key of every kind, and a directory, a  *)
(* file and a hidden file to list.                                            *)
EXTENDS Commands

ThreeNames == 1 .. 3
OneFolder == {2}
OneHidden == {1}
AllKeys ==
  {"y", "d", "f", "c", "p", "D"} \cup {"j", "h", ".", "v", "i", "o", "O", "s", "r", "/", " ", "Return", "Escape", "?"}
=============================================================================
