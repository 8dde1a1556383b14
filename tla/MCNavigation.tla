---------------------------- MODULE MCNavigation ----------------------------
(* Instances of Navigation for TLC: a root, a home in it, and a disk.      *)
EXTENDS Navigation

SomePaths == {"root", "home", "disk"}
SomeParents == [p \in SomePaths |-> IF p = "home" THEN "root" ELSE "none"]
SomeNamesOf == [p \in SomePaths |-> IF p = "home" THEN 2 ELSE 0]
SomeNames == {1, 2}

\* For the late answers two empty directories are enough.
TwoPaths == {"home", "disk"}
TwoParents == [p \in TwoPaths |-> "none"]
TwoNamesOf == [p \in TwoPaths |-> 0]
EmptyDirectories == {}
NoBookmarks == {}
OneBookmark == {"bookmark"}
NoPaths == [b \in {} |-> "disk"]
OnePath == [b \in {"bookmark"} |-> "disk"]
=============================================================================
