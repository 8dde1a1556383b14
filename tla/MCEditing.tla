----------------------------- MODULE MCEditing -----------------------------
(* Instances of Editing for TLC: two entries in all modes, and three in     *)
(* Visual mode alone.                                                      *)
EXTENDS Editing

TwoNames == {1, 2}
SomeQueries == {11, 12}
SomeMatch == [q \in SomeQueries |-> {q - 10}]

ThreeNames == {1, 2, 3}
NoQueries == {}
NoMatch == [q \in {} |-> {}]
=============================================================================
