----------------------------- MODULE Compaction -----------------------------
(***************************************************************************)
(* Entries that go from a list while the others keep their order:          *)
(* finishDiff of browsing/directory_model.cpp, recordVisit and traverse of *)
(* browsing/jump_list.cpp.                                                 *)
(***************************************************************************)
EXTENDS Integers, FiniteSets, Sequences

\* Where an entry is once others have been dropped: those before it shift it down.
Position(i, dropped) == i - Cardinality({j \in dropped : j < i})

Without(list, dropped) ==
  [k \in 1 .. Len(list) - Cardinality(dropped) |->
     list[CHOOSE i \in DOMAIN list \ dropped : Position(i, dropped) = k]]
=============================================================================
