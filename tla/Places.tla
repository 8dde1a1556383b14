------------------------------- MODULE Places -------------------------------
(***************************************************************************)
(* The rows of the sidebar and whether their directories can be reached:   *)
(* PlacesModel of apps/files/browsing/places_model.cpp.  Every check is a  *)
(* detached thread that may take any time, or for ever, and posts what it  *)
(* found to the GUI thread; activating a bookmark starts another one while *)
(* earlier ones are still under way.                                       *)
(***************************************************************************)
EXTENDS Integers, FiniteSets

CONSTANTS
  Home, Standard, Bookmarks,   \* ids of the rows, by origin (Home is not in Standard)
  MaxRechecks                  \* bound on the activations of one bookmark

Rows == {Home} \cup Standard \cup Bookmarks

ASSUME PlacesAssumption ==
  /\ Home \notin Standard \cup Bookmarks /\ Standard \cap Bookmarks = {}
  /\ MaxRechecks \in Nat

VARIABLES
  status,       \* of the rows that are there
  recheck,      \* recheck_generation of each row
  checks,       \* the threads, and the answers they have posted
  reachable,    \* the places whose directory is there now
  answer        \* history: what the newest check of each row has found

sidebar == <<status, recheck, checks, reachable, answer>>

Startup(r) == [row |-> r, generation |-> 0, found |-> "pending"]

\* buildPlaces and dispatchStartupChecks
PlacesInit ==
  /\ status = [r \in Rows |-> "checking"] /\ recheck = [r \in Rows |-> 0]
  /\ checks = {Startup(r) : r \in Rows}
  /\ reachable \in SUBSET Rows
  /\ answer = [r \in Rows |-> "pending"]

\* Directories come and go, as removable disks and network mounts do.
Change(r) ==
  /\ reachable' = IF r \in reachable THEN reachable \ {r} ELSE reachable \cup {r}
  /\ UNCHANGED <<status, recheck, checks, answer>>

\* A thread of dispatchCheck stats its directory, and posts the answer.
Found(r) == IF r \in reachable THEN "yes" ELSE "no"
Answer(c) ==
  /\ c.found = "pending"
  /\ checks' = (checks \ {c}) \cup {[c EXCEPT !.found = Found(c.row)]}
  /\ answer' = IF c.generation = recheck[c.row]
               THEN [answer EXCEPT ![c.row] = Found(c.row)] ELSE answer
  /\ UNCHANGED <<status, recheck, reachable>>

-----------------------------------------------------------------------------
(* The GUI thread.                                                         *)

Status(c) == IF c.found = "yes" THEN "available" ELSE "unavailable"

\* Is the answer still the one waited for?  (Mutant: one of the check at startup
\* always is.)
StartupCounts(c) == c.generation \in {0, recheck[c.row]}
Awaited(c) == c.generation = recheck[c.row]

\* What a startup check makes of a row: Home stays whatever is found, a standard
\* directory that is missing goes.
Removed(c) == c.row \in Standard /\ c.found = "no"

Applied(c) ==
  IF Removed(c) THEN [r \in DOMAIN status \ {c.row} |-> status[r]]
  ELSE [status EXCEPT ![c.row] = IF c.row = Home THEN "available" ELSE Status(c)]

\* Has a bookmark that was activated been found out about (bookmarkRecheckResolved)?
Resolves(c) == c.row \in DOMAIN status /\ Awaited(c) /\ c.generation # 0

DeliverResult(c) ==
  /\ c.found # "pending"
  /\ checks' = checks \ {c}
  /\ status' = IF c.row \in DOMAIN status /\ Awaited(c) THEN Applied(c) ELSE status
  /\ UNCHANGED <<recheck, reachable, answer>>

RecheckBookmark(r) ==
  /\ r \in Bookmarks /\ recheck[r] < MaxRechecks
  /\ recheck' = [recheck EXCEPT ![r] = @ + 1]
  /\ checks' = checks \cup {[row |-> r, generation |-> recheck[r] + 1, found |-> "pending"]}
  /\ answer' = [answer EXCEPT ![r] = "pending"]
  /\ UNCHANGED <<status, reachable>>

PlacesNext ==
  \/ \E r \in Rows : Change(r) \/ RecheckBookmark(r)
  \/ \E c \in checks : Answer(c) \/ DeliverResult(c)

PlacesSpec == PlacesInit /\ [][PlacesNext]_sidebar

-----------------------------------------------------------------------------
(* Properties.                                                             *)

PlacesTypeOK ==
  /\ DOMAIN status \subseteq Rows /\ status \in [DOMAIN status -> {"checking", "available", "unavailable"}]
  /\ recheck \in [Rows -> 0 .. MaxRechecks]
  /\ checks \subseteq [row : Rows, generation : 0 .. MaxRechecks, found : {"pending", "yes", "no"}]
  /\ reachable \subseteq Rows /\ answer \in [Rows -> {"pending", "yes", "no"}]

Waiting(r) == \E c \in checks : c.row = r /\ c.generation = recheck[r]

\* However the answers of several checks of one row overtake each other, what a
\* bookmark shows when the newest has been delivered is what that one found.
NewestDecides ==
  \A r \in Bookmarks :
    ~Waiting(r) => status[r] = IF answer[r] = "yes" THEN "available" ELSE "unavailable"

\* REQ-F-018, REQ-F-020, REQ-C-005: Home and the bookmarks are always there, and
\* only bookmarks are ever shown as unavailable.
OriginsKept ==
  /\ {Home} \cup Bookmarks \subseteq DOMAIN status
  /\ \A r \in DOMAIN status \ Bookmarks : status[r] # "unavailable"

\* "afterwards they change between Available and Unavailable only as a result of
\* an activation re-check": no row is being checked again, and what is known of a
\* bookmark changes only with the answer to its newest recheck.
SettledByRecheck ==
  [][\A r \in DOMAIN status \cap DOMAIN status' :
       status[r] # "checking" /\ status'[r] # status[r] =>
         r \in Bookmarks /\ recheck[r] > 0 /\ answer[r] # "pending"]_sidebar
=============================================================================
