------------------------------ MODULE Publication ------------------------------
(***************************************************************************)
(* The importers that carry raw data to the active snapshot of a source.   *)
(* A client is one run of the command line (refresh, import, coverage,     *)
(* rollback); several run at once against one PostgreSQL database at       *)
(* READ COMMITTED.  Each step is one statement that another client can     *)
(* observe: a committed one-statement transaction, a lock acquisition, or  *)
(* the commit of a transaction whose writes were invisible until then.     *)
(* rowOwner is SELECT ... FOR UPDATE on an acquisition, sourceOwner is     *)
(* pg_advisory_xact_lock on the source; both end with the transaction.     *)
(***************************************************************************)
EXTENDS CoverageRules

CONSTANTS
  Clients,         \* concurrent command line runs
  NoClient,        \* nobody holds the lock
  GoodAcqs,        \* those within the fixed row, rejection and position limits
  ManualSources,   \* sources imported from files (ManualCsvImportService)
  BusStopSources,  \* sources published by PostgresBusStopPublisher
  ExpansionsOf,    \* Acqs -> values of scope_expansion_from_rows it runs with
  NoExpansion,     \* scope_expansion_from_rows is None
  MaxRowChange,    \* maximum_row_change_ratio, in percent
  MaxEvents,       \* bound: no rollback starts with this many activations
  MaxCrashes       \* bound: clients that die in the middle of a command

ASSUME ClientAssumption ==
  /\ NoClient \notin Clients
  /\ ExpansionsOf \in [Acqs -> SUBSET (Nat \cup {NoExpansion})]

VARIABLES
  status, publications, active, events, coverage,  \* as in SnapshotLifecycle
  rowOwner,     \* client with the row lock of an acquisition
  sourceOwner,  \* client with the advisory lock of a source
  pc,           \* what the client does next
  job,          \* what it does it to
  crashes       \* clients that died so far

db == <<status, publications, active, events, coverage>>
locks == <<rowOwner, sourceOwner>>
vars == <<db, locks, pc, job, crashes>>

NoJob == [acq |-> NoPub, rows |-> {}, exp |-> NoExpansion]

Init ==
  /\ status = [a \in Acqs |-> "ABSENT"]
  /\ publications = {}
  /\ active = [s \in Sources |-> NoPub]
  /\ events = [s \in Sources |-> <<>>]
  /\ coverage = [a \in Acqs |-> {}]
  /\ rowOwner = [a \in Acqs |-> NoClient]
  /\ sourceOwner = [s \in Sources |-> NoClient]
  /\ pc = [c \in Clients |-> "idle"]
  /\ job = [c \in Clients |-> NoJob]
  /\ crashes = 0

--------------------------------------------------------------------------------
Acq(c) == job[c].acq
Src(c) == SourceOf[Acq(c)]

Begin(c, label, j) ==
  /\ pc[c] = "idle"
  /\ pc' = [pc EXCEPT ![c] = label]
  /\ job' = [job EXCEPT ![c] = j]
  /\ UNCHANGED <<locks, crashes>>

Goto(c, label) == pc' = [pc EXCEPT ![c] = label] /\ UNCHANGED <<job, crashes>>

\* Mutant: a path that leaves the row lock behind.
FinishKeepsRow(c) ==
  /\ pc' = [pc EXCEPT ![c] = "idle"]
  /\ job' = [job EXCEPT ![c] = NoJob]
  /\ sourceOwner' =
       [s \in Sources |-> IF sourceOwner[s] = c THEN NoClient ELSE sourceOwner[s]]
  /\ UNCHANGED rowOwner

\* Commit or abort: the locks go and the command ends.
Finish(c) ==
  /\ pc' = [pc EXCEPT ![c] = "idle"]
  /\ job' = [job EXCEPT ![c] = NoJob]
  /\ rowOwner' = [a \in Acqs |-> IF rowOwner[a] = c THEN NoClient ELSE rowOwner[a]]
  /\ sourceOwner' =
       [s \in Sources |-> IF sourceOwner[s] = c THEN NoClient ELSE sourceOwner[s]]

\* The command fails and its transaction is rolled back.
Raise(c) == Finish(c) /\ UNCHANGED <<db, crashes>>

SetStatus(a, st) == status' = [status EXCEPT ![a] = st]

Twins(a) == {p \in publications :
               SourceOf[p] = SourceOf[a] /\ VersionOf[p] = VersionOf[a]}

\* Mutant: the two publication columns of the event are swapped.
PointSwapped(s, p) ==
  /\ active' = [active EXCEPT ![s] = p]
  /\ events' = [events EXCEPT ![s] = Append(@, [prev |-> p, pub |-> active[s]])]

\* The pointer moves and the event names the publication it replaced.
Point(s, p) ==
  /\ active' = [active EXCEPT ![s] = p]
  /\ events' = [events EXCEPT ![s] = Append(@, [prev |-> active[s], pub |-> p])]

--------------------------------------------------------------------------------
\* register_verified_raw inserted the row; the raw object is stored already.
RegisterNew(c, a, exp) ==
  /\ status[a] = "ABSENT"
  /\ Begin(c, "registered", [NoJob EXCEPT !.acq = a, !.exp = exp])
  /\ SetStatus(a, "ACQUIRED")
  /\ UNCHANGED <<publications, active, events, coverage>>

\* A collection that stopped early keeps its raw pages and ends there.
RegisterIncomplete(c, a) ==
  /\ pc[c] = "idle" /\ status[a] = "ABSENT"
  /\ SourceOf[a] \notin ManualSources
  /\ SetStatus(a, "INCOMPLETE")
  /\ UNCHANGED <<publications, active, events, coverage, locks, pc, job, crashes>>

\* Mutant: ON CONFLICT DO UPDATE opens a rejected acquisition again.
RegisterAgainReopens(c, a, exp) ==
  /\ status[a] \in {"ACQUIRED", "QUALITY_FAILED"}
  /\ Begin(c, "registered", [NoJob EXCEPT !.acq = a, !.exp = exp])
  /\ SetStatus(a, "ACQUIRED")
  /\ UNCHANGED <<publications, active, events, coverage>>

\* Mutant: a refresh reports NO_CHANGE for VALIDATED, as a manual import does.
RegisterAgainDone(c, a, exp) ==
  /\ status[a] \in {"INCOMPLETE", "ACQUIRED", "QUALITY_FAILED"}
  /\ Begin(c, "registered", [NoJob EXCEPT !.acq = a, !.exp = exp])
  /\ UNCHANGED db

\* ON CONFLICT DO NOTHING: the same raw data again.  A refresh resumes one that
\* is VALIDATED; a manual import reports NO_CHANGE for it, as both do once the
\* acquisition is STAGED, PUBLISHED or NO_CHANGE (nothing happens, no step).
RegisterAgain(c, a, exp) ==
  /\ status[a] \in {"INCOMPLETE", "ACQUIRED", "QUALITY_FAILED", "VALIDATED"}
  /\ status[a] = "VALIDATED" => SourceOf[a] \notin ManualSources
  /\ Begin(c, IF status[a] = "VALIDATED" THEN "resuming" ELSE "registered",
           [NoJob EXCEPT !.acq = a, !.exp = exp])
  /\ UNCHANGED db

\* previous_published_row_count: rows of the active publication, if any.
HasBaseline(s) == active[s] # NoPub
Baseline(s) == RowsOf[active[s]]

RowChangeExceeded(a, base) ==
  LET difference == IF RowsOf[a] > base THEN RowsOf[a] - base ELSE base - RowsOf[a]
  IN base > 0 /\ difference * 100 > MaxRowChange * base

\* The quality gate, against the snapshot that is active now.
Passes(a, exp) ==
  LET s == SourceOf[a]
      expansion == HasBaseline(s) /\ exp = Baseline(s)
  IN /\ a \in GoodAcqs
     /\ exp # NoExpansion => expansion
     /\ HasBaseline(s) /\ RowChangeExceeded(a, Baseline(s)) =>
          exp # NoExpansion /\ RowsOf[a] > Baseline(s)

\* Only the verdict survives this read: the snapshot may move before it is used.
Judge(c) ==
  /\ pc[c] \in {"registered", "resuming"}
  /\ Goto(c, IF ~Passes(Acq(c), job[c].exp) THEN "failed"
             ELSE IF pc[c] = "resuming" THEN "publishLockRow" ELSE "passed")
  /\ UNCHANGED <<db, locks>>

MarkQualityFailed(c) ==
  /\ pc[c] = "failed" /\ status[Acq(c)] = "ACQUIRED"
  /\ rowOwner[Acq(c)] = NoClient
  /\ SetStatus(Acq(c), "QUALITY_FAILED")
  /\ Finish(c)
  /\ UNCHANGED <<publications, active, events, coverage, crashes>>

\* Mutant: the update does not ask for ACQUIRED.
MarkValidatedAlways(c) ==
  /\ pc[c] = "passed" /\ rowOwner[Acq(c)] = NoClient
  /\ SetStatus(Acq(c), "VALIDATED")
  /\ Goto(c, "publishLockRow")
  /\ UNCHANGED <<publications, active, events, coverage, locks>>

MarkValidated(c) ==
  /\ pc[c] = "passed" /\ status[Acq(c)] = "ACQUIRED"
  /\ rowOwner[Acq(c)] = NoClient
  /\ SetStatus(Acq(c), "VALIDATED")
  /\ Goto(c, "publishLockRow")
  /\ UNCHANGED <<publications, active, events, coverage, locks>>

\* ACQUISITION_STATE_TRANSITION_REJECTED: the conditional update found no row.
MarkRejected(c) ==
  pc[c] \in {"passed", "failed"} /\ status[Acq(c)] # "ACQUIRED" /\ Raise(c)

--------------------------------------------------------------------------------
\* Publishing locks the acquisition, then the source; activation the reverse.
AfterLock ==
  [publishLockRow |-> "publishLockSource", publishLockSource |-> "publish",
   coverLockSource |-> "coverLockRow", coverLockRow |-> "cover",
   appendLock |-> "append", rollbackLock |-> "rollback"]
RowWaits == {"publishLockRow", "coverLockRow"}
SourceWaits == DOMAIN AfterLock \ RowWaits

LockRow(c) ==
  /\ pc[c] \in RowWaits /\ rowOwner[Acq(c)] = NoClient
  /\ rowOwner' = [rowOwner EXCEPT ![Acq(c)] = c]
  /\ Goto(c, AfterLock[pc[c]])
  /\ UNCHANGED <<db, sourceOwner>>

LockSource(c) ==
  /\ pc[c] \in SourceWaits /\ sourceOwner[Src(c)] = NoClient
  /\ sourceOwner' = [sourceOwner EXCEPT ![Src(c)] = c]
  /\ Goto(c, AfterLock[pc[c]])
  /\ UNCHANGED <<db, rowOwner>>

\* The same data set is published: the acquisition adds nothing.
PublishReuse(c) ==
  /\ pc[c] = "publish" /\ status[Acq(c)] = "VALIDATED"
  /\ Twins(Acq(c)) # {} /\ Src(c) \notin BusStopSources
  /\ SetStatus(Acq(c), "NO_CHANGE")
  /\ Finish(c)
  /\ UNCHANGED <<publications, active, events, coverage, crashes>>

\* Mutant: no look for a twin and no unique key.
PublishStageBlind(c) ==
  /\ pc[c] = "publish" /\ status[Acq(c)] = "VALIDATED"
  /\ publications' = publications \cup {Acq(c)}
  /\ SetStatus(Acq(c), "STAGED")
  /\ Finish(c)
  /\ UNCHANGED <<active, events, coverage, crashes>>

\* The publication row, its projection and the status commit together.
PublishStage(c) ==
  /\ pc[c] = "publish" /\ status[Acq(c)] = "VALIDATED"
  /\ Twins(Acq(c)) = {}
  /\ publications' = publications \cup {Acq(c)}
  /\ SetStatus(Acq(c), "STAGED")
  /\ Finish(c)
  /\ UNCHANGED <<active, events, coverage, crashes>>

\* Already staged: the existing publication is returned.
PublishExisting(c) ==
  pc[c] = "publish" /\ status[Acq(c)] \in {"STAGED", "PUBLISHED"} /\ Raise(c)

\* ACQUISITION_NOT_VALIDATED, or the unique key (source_id, dataset_version):
\* the bus stop publisher inserts without looking for a twin.
CannotPublish(c) ==
  \/ status[Acq(c)] \notin {"VALIDATED", "STAGED", "PUBLISHED"}
  \/ status[Acq(c)] = "VALIDATED" /\ Twins(Acq(c)) # {} /\ Src(c) \in BusStopSources

PublishRefuse(c) == pc[c] = "publish" /\ CannotPublish(c) /\ Raise(c)

--------------------------------------------------------------------------------
\* publish_coverage reads STAGED before it holds any lock.
CoverBegin(c, p, rows) ==
  /\ p \in publications /\ status[p] = "STAGED"
  /\ Begin(c, "coverLockSource", [NoJob EXCEPT !.acq = p, !.rows = rows])
  /\ UNCHANGED db

\* Mutant: validate_activation_coverage is not called.
CanCoverUnchecked(c) ==
  ~Clashes(job[c].rows, coverage[Acq(c)]) /\ status[Acq(c)] = "STAGED"

CanCover(c) ==
  /\ ReadyToActivate(Src(c), job[c].rows)
  /\ ~Clashes(job[c].rows, coverage[Acq(c)])
  /\ status[Acq(c)] = "STAGED"

CoverCommit(c) ==
  /\ pc[c] = "cover" /\ CanCover(c)
  /\ coverage' = [coverage EXCEPT ![Acq(c)] = @ \cup job[c].rows]
  /\ Point(Src(c), Acq(c))
  /\ SetStatus(Acq(c), "PUBLISHED")
  /\ Finish(c)
  /\ UNCHANGED <<publications, crashes>>

\* The last statement matches no row and undoes the inserts before it.
CoverRefuse(c) == pc[c] = "cover" /\ ~CanCover(c) /\ Raise(c)

\* append_active_coverage checks that p is active, then waits for the lock.
AppendBegin(c, p, rows) ==
  /\ active[SourceOf[p]] = p /\ status[p] = "PUBLISHED"
  /\ Begin(c, "appendLock", [NoJob EXCEPT !.acq = p, !.rows = rows])
  /\ UNCHANGED db

CanAppend(c) ==
  ReadyToAppend(Src(c), job[c].rows) /\ ~Clashes(job[c].rows, coverage[Acq(c)])

AppendCommit(c) ==
  /\ pc[c] = "append" /\ CanAppend(c)
  /\ coverage' = [coverage EXCEPT ![Acq(c)] = @ \cup job[c].rows]
  /\ Finish(c)
  /\ UNCHANGED <<status, publications, active, events, crashes>>

AppendRefuse(c) == pc[c] = "append" /\ ~CanAppend(c) /\ Raise(c)

--------------------------------------------------------------------------------
RollbackBegin(c, p) ==
  /\ Len(events[SourceOf[p]]) < MaxEvents
  /\ Begin(c, "rollbackLock", [NoJob EXCEPT !.acq = p])
  /\ UNCHANGED db

\* Any publication row of the source will do, and some snapshot must be active.
CanRollback(c) == Acq(c) \in publications /\ active[Src(c)] # NoPub

\* Mutant: the pointer moves without its event.
RollbackSilent(c) ==
  /\ pc[c] = "rollback" /\ CanRollback(c)
  /\ active' = [active EXCEPT ![Src(c)] = Acq(c)]
  /\ Finish(c)
  /\ UNCHANGED <<status, publications, events, coverage, crashes>>

RollbackCommit(c) ==
  /\ pc[c] = "rollback" /\ CanRollback(c)
  /\ Point(Src(c), Acq(c))
  /\ Finish(c)
  /\ UNCHANGED <<status, publications, coverage, crashes>>

RollbackRefuse(c) == pc[c] = "rollback" /\ ~CanRollback(c) /\ Raise(c)

--------------------------------------------------------------------------------
\* The process dies; the server aborts what it had open.
Crash(c) ==
  /\ pc[c] # "idle" /\ crashes < MaxCrashes
  /\ crashes' = crashes + 1
  /\ Finish(c)
  /\ UNCHANGED db

\* PostgreSQL breaks a wait cycle by aborting one of its transactions.
Waits(c, d) ==
  \/ pc[c] \in RowWaits /\ rowOwner[Acq(c)] = d
  \/ pc[c] \in SourceWaits /\ sourceOwner[Src(c)] = d

DeadlockVictim(c) ==
  (\E d \in Clients : Waits(c, d) /\ Waits(d, c)) /\ Raise(c)

\* What a running command does without anyone asking.
Step(c) ==
  \/ Judge(c)
  \/ MarkQualityFailed(c)
  \/ MarkValidated(c)
  \/ MarkRejected(c)
  \/ PublishReuse(c)
  \/ PublishStage(c)
  \/ PublishExisting(c)
  \/ PublishRefuse(c)
  \/ CoverCommit(c)
  \/ CoverRefuse(c)
  \/ AppendCommit(c)
  \/ AppendRefuse(c)
  \/ RollbackCommit(c)
  \/ RollbackRefuse(c)
  \/ DeadlockVictim(c)

Next ==
  \E c \in Clients :
    \/ Step(c)
    \/ LockRow(c)
    \/ LockSource(c)
    \/ Crash(c)
    \/ \E a \in Acqs :
         \/ RegisterIncomplete(c, a)
         \/ RollbackBegin(c, a)
         \/ \E exp \in ExpansionsOf[a] : RegisterNew(c, a, exp) \/ RegisterAgain(c, a, exp)
         \/ \E rows \in Batches : CoverBegin(c, a, rows) \/ AppendBegin(c, a, rows)

Spec == Init /\ [][Next]_vars

\* A command keeps running, PostgreSQL grants a lock in the order it was asked
\* for (a waiter cannot starve) and its detector breaks every cycle.
Fairness ==
  \A c \in Clients : WF_vars(Step(c)) /\ SF_vars(LockRow(c)) /\ SF_vars(LockSource(c))

\* The operator repeats a refresh whose acquisition is not settled.
Retries ==
  \A a \in Acqs : SF_vars(\E c \in Clients, exp \in ExpansionsOf[a] : RegisterAgain(c, a, exp))

FairSpec == Spec /\ Fairness /\ Retries

--------------------------------------------------------------------------------
Labels == DOMAIN AfterLock \cup
  {"idle", "registered", "resuming", "passed", "failed",
   "publish", "cover", "append", "rollback"}

Job == [acq : Acqs \cup {NoPub}, rows : Batches \cup {{}},
        exp : Nat \cup {NoExpansion}]

\* Every variable has its type, and only an idle client has no acquisition.
TypeOK ==
  /\ status \in [Acqs -> AcqStatus]
  /\ publications \subseteq Acqs
  /\ active \in [Sources -> Acqs \cup {NoPub}]
  /\ events \in [Sources -> Seq(ActivationEvent)]
  /\ coverage \in [Acqs -> SUBSET CoverageRow]
  /\ rowOwner \in [Acqs -> Clients \cup {NoClient}]
  /\ sourceOwner \in [Sources -> Clients \cup {NoClient}]
  /\ pc \in [Clients -> Labels]
  /\ job \in [Clients -> Job]
  /\ crashes \in Nat
  /\ \A c \in Clients : pc[c] # "idle" => Acq(c) \in Acqs

HoldsRow(c) == pc[c] \in {"publishLockSource", "publish", "cover"}
HoldsSource(c) == pc[c] \in {"publish", "coverLockRow", "cover", "append", "rollback"}

\* A lock is held exactly by the client whose transaction took it: none outlives
\* its transaction, whatever path the command left by (every return, raise and
\* crash), and no two transactions hold the same one.
LocksMatchTransactions ==
  /\ \A a \in Acqs, c \in Clients : rowOwner[a] = c <=> HoldsRow(c) /\ Acq(c) = a
  /\ \A s \in Sources, c \in Clients : sourceOwner[s] = c <=> HoldsSource(c) /\ Src(c) = s

\* A publication row exists exactly for the acquisitions that say so, through
\* races of two publishers and crashes between the database steps (_publish).
PublicationMatchesStatus ==
  \A a \in Acqs : a \in publications <=> status[a] \in {"STAGED", "PUBLISHED"}

\* One data set is published once per source, and an acquisition is NO_CHANGE
\* only beside the publication it repeats (the twin lookup of _publish).
DatasetsAreDistinct ==
  /\ \A p \in publications : Twins(p) = {p}
  /\ \A a \in Acqs : status[a] = "NO_CHANGE" => Twins(a) # {}

\* Coverage is there exactly once a publication was activated, and what
\* activation demanded of it still holds after later appends: the complete
\* snapshot record of a place-intro publication, every record of the others.
PublishedCoverageIsReady ==
  \A a \in Acqs :
    /\ coverage[a] # {} <=> status[a] = "PUBLISHED"
    /\ \A q, r \in coverage[a] : SameIdentity(q, r) => q = r
    /\ IF SourceOf[a] \in IntroSources
       THEN status[a] = "PUBLISHED" =>
              [cap |-> SnapshotCap, scope |-> WholeScope, ready |-> TRUE] \in coverage[a]
       ELSE \A r \in coverage[a] : r.ready

\* The activation events of a source are an unbroken chain that starts with no
\* snapshot and ends at the active one, so every pointer move can be undone.
ActivationHistory ==
  \A s \in Sources :
    LET log == events[s] IN
      /\ active[s] = IF log = <<>> THEN NoPub ELSE log[Len(log)].pub
      /\ \A i \in 1..Len(log) :
           /\ log[i].prev = IF i = 1 THEN NoPub ELSE log[i - 1].pub
           /\ log[i].pub \in publications /\ SourceOf[log[i].pub] = s

\* What append_active_coverage checked without a lock and still relies on after:
\* PUBLISHED is final, although being active is not.
AppendingIsPublished ==
  \A c \in Clients : pc[c] \in {"appendLock", "append"} => status[Acq(c)] = "PUBLISHED"

\* The locks make the importers indistinguishable from one-step operations.
Lifecycle == INSTANCE SnapshotLifecycle
ImplementsLifecycle == Lifecycle!Spec

\* Every command ends, also when two of them wait for each other's lock.
CommandsEnd == \A c \in Clients : pc[c] # "idle" ~> pc[c] = "idle"

\* An acquisition that passed validation is not stuck there: repeating the
\* refresh stages it or finds its data set published (refresh_batch resumes a
\* VALIDATED acquisition after a failed publication).
ValidatedIsResolved == \A a \in Acqs : status[a] = "VALIDATED" ~> status[a] # "VALIDATED"
================================================================================
