------------------------------ MODULE MCTrash ------------------------------
(* An instance of Trash for TLC: a path on the device of the home trash where *)
(* an item may follow another, and a path of the same name on another      *)
(* device.                                                                 *)
EXTENDS Trash, TLC

CONSTANTS p1, p2, a1, a2, c1
SomeProcesses == {p1, p2}
SomePaths == {"home/a", "media/a"}
SomeItems == {a1, a2, c1}
SomePathOf == a1 :> "home/a" @@ a2 :> "home/a" @@ c1 :> "media/a"
SomeBaseName == [p \in SomePaths |-> "a"]
SomeHomePaths == {"home/a"}
SomeTopTrashes == {".Trash-1000"}
ProcessSymmetry == Permutations(SomeProcesses)
=============================================================================
