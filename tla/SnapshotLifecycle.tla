--------------------------- MODULE SnapshotLifecycle ---------------------------
(***************************************************************************)
(* What the publication pipeline promises to the runtime that reads the    *)
(* travel_read views: every change of the database is one indivisible      *)
(* step, whatever the importers that run concurrently do.  No locks, no    *)
(* transactions and no clients here; Publication.tla implements it.        *)
(***************************************************************************)
EXTENDS CoverageRules

VARIABLES
  status,        \* acquisition.status, "ABSENT" before the row exists
  publications,  \* the acquisitions that have a publication row
  active,        \* active_snapshot: the publication the views show, per source
  events,        \* activation_event rows of a source, in commit order
  coverage       \* source_coverage rows of a publication

vars == <<status, publications, active, events, coverage>>

Init ==
  /\ status = [a \in Acqs |-> "ABSENT"]
  /\ publications = {}
  /\ active = [s \in Sources |-> NoPub]
  /\ events = [s \in Sources |-> <<>>]
  /\ coverage = [a \in Acqs |-> {}]

Twins(a) == {p \in publications :
               SourceOf[p] = SourceOf[a] /\ VersionOf[p] = VersionOf[a]}

\* Only the status of the acquisition moves.
Move(a, from, to) ==
  /\ status[a] = from
  /\ status' = [status EXCEPT ![a] = to]
  /\ UNCHANGED <<publications, active, events, coverage>>

Collect(a) == Move(a, "ABSENT", "ACQUIRED") \/ Move(a, "ABSENT", "INCOMPLETE")
Reject(a) == Move(a, "ACQUIRED", "QUALITY_FAILED")
Validate(a) == Move(a, "ACQUIRED", "VALIDATED")

\* The same data set is already published for this source: nothing new.
Reuse(a) == Twins(a) # {} /\ Move(a, "VALIDATED", "NO_CHANGE")

\* A publication row and its projection appear together with STAGED.
Stage(a) ==
  /\ status[a] = "VALIDATED" /\ Twins(a) = {}
  /\ status' = [status EXCEPT ![a] = "STAGED"]
  /\ publications' = publications \cup {a}
  /\ UNCHANGED <<active, events, coverage>>

\* The pointer of source s moves to p and the move is recorded with the
\* publication it replaced.
Point(s, p) ==
  /\ active' = [active EXCEPT ![s] = p]
  /\ events' = [events EXCEPT ![s] = Append(@, [prev |-> active[s], pub |-> p])]

\* Coverage, pointer, event and status change together.
Activate(p, rows) ==
  /\ p \in publications /\ status[p] = "STAGED"
  /\ ReadyToActivate(SourceOf[p], rows) /\ ~Clashes(rows, coverage[p])
  /\ coverage' = [coverage EXCEPT ![p] = @ \cup rows]
  /\ Point(SourceOf[p], p)
  /\ status' = [status EXCEPT ![p] = "PUBLISHED"]
  /\ UNCHANGED publications

\* The publication was active when the importer looked, not necessarily now.
Extend(p, rows) ==
  /\ p \in publications /\ status[p] = "PUBLISHED"
  /\ ReadyToAppend(SourceOf[p], rows) /\ ~Clashes(rows, coverage[p])
  /\ coverage' = [coverage EXCEPT ![p] = @ \cup rows]
  /\ UNCHANGED <<status, publications, active, events>>

Rollback(p) ==
  /\ p \in publications /\ active[SourceOf[p]] # NoPub
  /\ Point(SourceOf[p], p)
  /\ UNCHANGED <<status, publications, coverage>>

Next ==
  \E a \in Acqs :
    \/ Collect(a)
    \/ Reject(a)
    \/ Validate(a)
    \/ Reuse(a)
    \/ Stage(a)
    \/ Rollback(a)
    \/ \E rows \in Batches : Activate(a, rows) \/ Extend(a, rows)

Spec == Init /\ [][Next]_vars
================================================================================
