---------------------------- MODULE JumpHistory ----------------------------
(***************************************************************************)
(* What the jump list promises (docs/sdd/navigation-history), without a    *)
(* position: the directory the user is in, those behind him and those      *)
(* before him.  Nothing is forgotten but what has gone and is passed, and  *)
(* the oldest; nothing changes places but what is visited anew.            *)
(***************************************************************************)
EXTENDS Compaction, SequencesExt

CONSTANTS Paths, NoPath, Capacity
VARIABLES back, here, ahead

history == <<back, here, ahead>>

Init == back = <<>> /\ here = NoPath /\ ahead = <<>>

Only(list, kept) == Without(list, {i \in DOMAIN list : list[i] \notin kept})
Newest(list, n) == IF Len(list) > n THEN SubSeq(list, Len(list) - n + 1, Len(list)) ELSE list
Current == IF here = NoPath THEN <<>> ELSE <<here>>

\* REQ-F-003, REQ-F-005.
Visit(path) ==
  /\ path # here
  /\ back' = Newest(Only(back \o Current \o ahead, Paths \ {path}), Capacity - 1)
  /\ here' = path
  /\ ahead' = <<>>

\* REQ-F-006, REQ-F-025, REQ-F-027: going back passes some of what is behind.
\* Of these some have gone; the furthest of the others is where the user comes
\* to.  If all have gone he stays.
Back ==
  \E n \in 1 .. Len(back), gone \in SUBSET Paths :
    LET rest == SubSeq(back, 1, Len(back) - n)
        passed == Only(SubSeq(back, Len(back) - n + 1, Len(back)), Paths \ gone) IN
    IF passed = <<>>
    THEN rest = <<>> /\ back' = <<>> /\ UNCHANGED <<here, ahead>>
    ELSE /\ back' = rest /\ here' = Head(passed)
         /\ ahead' = Tail(passed) \o <<here>> \o ahead
         /\ rest = <<>> \/ back[Len(back) - n + 1] \notin gone

\* REQ-F-010: and so forth.
Forward ==
  \E n \in 1 .. Len(ahead), gone \in SUBSET Paths :
    LET rest == SubSeq(ahead, n + 1, Len(ahead))
        passed == Only(SubSeq(ahead, 1, n), Paths \ gone) IN
    IF passed = <<>>
    THEN rest = <<>> /\ ahead' = <<>> /\ UNCHANGED <<here, back>>
    ELSE /\ ahead' = rest /\ here' = Last(passed)
         /\ back' = back \o <<here>> \o Front(passed)
         /\ rest = <<>> \/ ahead[n] \notin gone

Next == Back \/ Forward \/ \E path \in Paths : Visit(path)

Spec == Init /\ [][Next]_history
=============================================================================
