-------------------------- MODULE MCDirectoryModel --------------------------
(* Instances of DirectoryModel for TLC. *)
EXTENDS DirectoryModel, TLC

CONSTANTS p, q, a, b

OnePath == {p}
NoPaths == {}
TwoPaths == {p, q}
TwoNames == {a, b}
OneVersion == {1}
TwoVersions == {1, 2}

\* What is there at first has version 1: the numbers mean nothing.
ListingInit == Init /\ \A d \in Paths : Range(fs[d]) \subseteq {0, 1}
ListingSpec == ListingInit /\ [][Next]_vars

\* All entries are there at first, enough for a worker to wait for a batch slot.
EndsInit == Init /\ \A d \in Paths : 0 \notin Range(fs[d])
EndsSpec == EndsInit /\ [][Next]_vars /\ Fairness

\* Nothing tells the entries apart.
NameSymmetry == Permutations(Names)

\* The rows do not change once the model is stopping; the other run looks at that.
\* The GUI thread is a few reports behind.
MaxReports == 6
Explored == ~stopping /\ Len(events) <= MaxReports
=============================================================================
