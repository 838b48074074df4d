--------------------------- MODULE PublicationProofs ---------------------------
(***************************************************************************)
(* Theorems about the importers for any number of clients, sources,        *)
(* acquisitions and batches, and any bounds.                               *)
(***************************************************************************)
EXTENDS Publication, TLAPS

USE DEF Acq, Src, db, locks

\* The label a granted lock leads to.
LEMMA LockLabels ==
  /\ RowWaits \subseteq DOMAIN AfterLock
  /\ SourceWaits \subseteq DOMAIN AfterLock
  /\ \A l \in DOMAIN AfterLock : AfterLock[l] \in Labels
BY DEF RowWaits, SourceWaits, AfterLock, Labels

LEMMA FinishType ==
  ASSUME NEW c \in Clients, TypeOK, Finish(c)
  PROVE  /\ rowOwner' \in [Acqs -> Clients \cup {NoClient}]
         /\ sourceOwner' \in [Sources -> Clients \cup {NoClient}]
         /\ pc' \in [Clients -> Labels]
         /\ job' \in [Clients -> Job]
         /\ \A d \in Clients : pc'[d] # "idle" => job'[d].acq \in Acqs
BY DEF TypeOK, Finish, NoJob, Job, Labels

LEMMA BeginType ==
  ASSUME NEW c \in Clients, TypeOK, NEW label \in Labels, NEW j \in Job,
         j.acq \in Acqs, Begin(c, label, j)
  PROVE  /\ pc' \in [Clients -> Labels]
         /\ job' \in [Clients -> Job]
         /\ \A d \in Clients : pc'[d] # "idle" => job'[d].acq \in Acqs
BY DEF TypeOK, Begin

LEMMA GotoType ==
  ASSUME NEW c \in Clients, TypeOK, NEW label \in Labels, pc[c] # "idle", Goto(c, label)
  PROVE  /\ pc' \in [Clients -> Labels]
         /\ \A d \in Clients : pc'[d] # "idle" => job'[d].acq \in Acqs
BY DEF TypeOK, Goto

LEMMA PointType ==
  ASSUME NEW s \in Sources, NEW p \in Acqs, TypeOK, Point(s, p)
  PROVE  /\ active' \in [Sources -> Acqs \cup {NoPub}]
         /\ events' \in [Sources -> Seq(ActivationEvent)]
<1>1. [prev |-> active[s], pub |-> p] \in ActivationEvent
  BY DEF TypeOK, ActivationEvent
<1>2. events[s] \in Seq(ActivationEvent)
  BY DEF TypeOK
<1>3. Append(events[s], [prev |-> active[s], pub |-> p]) \in Seq(ActivationEvent)
  BY <1>1, <1>2
<1> QED
  BY <1>3 DEF TypeOK, Point

\* Every variable keeps its type (the tables, the locks and the commands).
THEOREM TypeCorrect == Spec => []TypeOK
<1>1. Init => TypeOK
  BY CatalogAssumption, ClientAssumption
     DEF Init, TypeOK, NoJob, Job, Labels, AcqStatus, Caps
<1>2. TypeOK /\ [Next]_vars => TypeOK'
  <2> SUFFICES ASSUME TypeOK, [Next]_vars PROVE TypeOK'
    OBVIOUS
  <2>1. CASE UNCHANGED vars
    BY <2>1 DEF vars, TypeOK
  <2>2. ASSUME NEW c \in Clients, Step(c) PROVE TypeOK'
    <3>1. CASE Raise(c)
      BY <3>1, FinishType DEF Raise, TypeOK
    <3>2. CASE Judge(c)
      <4>1. pc[c] # "idle"
        BY <3>2 DEF Judge
      <4>2. PICK label \in {"failed", "publishLockRow", "passed"} : Goto(c, label)
        BY <3>2 DEF Judge
      <4>3. label \in Labels
        BY DEF Labels, AfterLock
      <4> QED
        BY <3>2, <4>1, <4>2, <4>3, GotoType DEF Judge, Goto, TypeOK
    <3>3. CASE MarkQualityFailed(c)
      BY <3>3, FinishType DEF MarkQualityFailed, SetStatus, TypeOK, AcqStatus
    <3>4. CASE MarkValidated(c)
      <4>1. "publishLockRow" \in Labels
        BY DEF Labels, AfterLock
      <4> QED
        BY <3>4, <4>1, GotoType DEF MarkValidated, Goto, SetStatus, TypeOK, AcqStatus
    <3>5. CASE PublishReuse(c)
      BY <3>5, FinishType DEF PublishReuse, SetStatus, TypeOK, AcqStatus
    <3>6. CASE PublishStage(c)
      <4>1. Acq(c) \in Acqs
        BY <3>6 DEF PublishStage, TypeOK
      <4> QED
        BY <3>6, <4>1, FinishType DEF PublishStage, SetStatus, TypeOK, AcqStatus
    <3>7. CASE CoverCommit(c)
      <4>1. Acq(c) \in Acqs /\ Src(c) \in Sources
        BY <3>7, CatalogAssumption DEF CoverCommit, TypeOK
      <4>2. job[c].rows \in SUBSET CoverageRow
        BY CatalogAssumption, ZenonT(60) DEF TypeOK, Job
      <4> QED
        BY <3>7, <4>1, <4>2, FinishType, PointType
           DEF CoverCommit, SetStatus, TypeOK, AcqStatus
    <3>8. CASE AppendCommit(c)
      <4>1. job[c].rows \in SUBSET CoverageRow
        BY CatalogAssumption DEF TypeOK, Job
      <4> QED
        BY <3>8, <4>1, FinishType DEF AppendCommit, TypeOK
    <3>9. CASE RollbackCommit(c)
      <4>1. Acq(c) \in Acqs /\ Src(c) \in Sources
        BY <3>9, CatalogAssumption DEF RollbackCommit, TypeOK
      <4> QED
        BY <3>9, <4>1, FinishType, PointType DEF RollbackCommit, TypeOK
    <3> QED
      BY <2>2, <3>1, <3>2, <3>3, <3>4, <3>5, <3>6, <3>7, <3>8, <3>9
         DEF Step, MarkRejected, PublishExisting, PublishRefuse, CoverRefuse,
             AppendRefuse, RollbackRefuse, DeadlockVictim
  <2>3. ASSUME NEW c \in Clients, LockRow(c) PROVE TypeOK'
    <3>1. pc[c] # "idle" /\ AfterLock[pc[c]] \in Labels
      BY <2>3, LockLabels DEF LockRow, RowWaits
    <3> QED
      BY <2>3, <3>1, GotoType DEF LockRow, Goto, TypeOK
  <2>4. ASSUME NEW c \in Clients, LockSource(c) PROVE TypeOK'
    <3>1. pc[c] # "idle" /\ AfterLock[pc[c]] \in Labels
      BY <2>4, LockLabels DEF LockSource, SourceWaits, AfterLock
    <3> QED
      BY <2>4, <3>1, GotoType DEF LockSource, Goto, TypeOK
  <2>5. ASSUME NEW c \in Clients, Crash(c) PROVE TypeOK'
    <3>1. crashes' \in Nat /\ Finish(c) /\ UNCHANGED db
      BY <2>5 DEF Crash, TypeOK
    <3> QED
      BY <3>1, FinishType DEF TypeOK
  <2>6. ASSUME NEW c \in Clients, NEW a \in Acqs, RegisterIncomplete(c, a)
        PROVE  TypeOK'
    BY <2>6 DEF RegisterIncomplete, SetStatus, TypeOK, AcqStatus
  <2>7. ASSUME NEW c \in Clients, NEW a \in Acqs, RollbackBegin(c, a) PROVE TypeOK'
    <3>1. "rollbackLock" \in Labels
      BY DEF Labels, AfterLock
    <3>2. /\ [NoJob EXCEPT !.acq = a] \in Job
          /\ [NoJob EXCEPT !.acq = a].acq = a
      BY DEF NoJob, Job
    <3> QED
      BY <2>7, <3>1, <3>2, BeginType DEF RollbackBegin, Begin, TypeOK
  <2>8. ASSUME NEW c \in Clients, NEW a \in Acqs, NEW exp \in ExpansionsOf[a],
               RegisterNew(c, a, exp) \/ RegisterAgain(c, a, exp)
        PROVE  TypeOK'
    <3>1. {"registered", "resuming"} \subseteq Labels
      BY DEF Labels
    <3>2. exp \in Nat \cup {NoExpansion}
      BY ClientAssumption
    <3> DEFINE j == [NoJob EXCEPT !.acq = a, !.exp = exp]
    <3>3. PICK label \in {"registered", "resuming"} : Begin(c, label, j)
      BY <2>8 DEF RegisterNew, RegisterAgain
    <3>j. j \in Job /\ j.acq = a
      BY <3>2 DEF NoJob, Job
    <3>4. /\ pc' \in [Clients -> Labels]
          /\ job' \in [Clients -> Job]
          /\ \A d \in Clients : pc'[d] # "idle" => job'[d].acq \in Acqs
      <4> HIDE DEF j
      <4> QED
        BY <3>1, <3>3, <3>j, BeginType
    <3>5. /\ status' \in [Acqs -> AcqStatus]
          /\ UNCHANGED <<publications, active, events, coverage, locks, crashes>>
      BY <2>8, <3>3 DEF RegisterNew, RegisterAgain, Begin, SetStatus, TypeOK, AcqStatus
    <3> QED
      BY <3>4, <3>5 DEF TypeOK
  <2>9. ASSUME NEW c \in Clients, NEW a \in Acqs, NEW rows \in Batches,
               CoverBegin(c, a, rows) \/ AppendBegin(c, a, rows)
        PROVE  TypeOK'
    <3>1. {"coverLockSource", "appendLock"} \subseteq Labels
      BY DEF Labels, AfterLock
    <3> DEFINE j == [NoJob EXCEPT !.acq = a, !.rows = rows]
    <3>2. PICK label \in {"coverLockSource", "appendLock"} : Begin(c, label, j)
      BY <2>9 DEF CoverBegin, AppendBegin
    <3>j. j \in Job /\ j.acq = a
      BY DEF NoJob, Job
    <3>3. /\ pc' \in [Clients -> Labels]
          /\ job' \in [Clients -> Job]
          /\ \A d \in Clients : pc'[d] # "idle" => job'[d].acq \in Acqs
      <4> HIDE DEF j
      <4> QED
        BY <3>1, <3>2, <3>j, BeginType
    <3> QED
      BY <2>9, <3>2, <3>3 DEF CoverBegin, AppendBegin, Begin, TypeOK
  <2> QED
    BY <2>1, <2>2, <2>3, <2>4, <2>5, <2>6, <2>7, <2>8, <2>9 DEF Next
<1> QED
  BY <1>1, <1>2, PTL DEF Spec

--------------------------------------------------------------------------------
LEMMA FinishLocks ==
  ASSUME NEW c \in Clients, TypeOK, LocksMatchTransactions, Finish(c)
  PROVE  LocksMatchTransactions'
<1>1. ~HoldsRow(c)' /\ ~HoldsSource(c)'
  BY DEF Finish, HoldsRow, HoldsSource, TypeOK
<1>2. \A d \in Clients \ {c} :
        /\ job'[d] = job[d]
        /\ HoldsRow(d)' <=> HoldsRow(d)
        /\ HoldsSource(d)' <=> HoldsSource(d)
  BY DEF Finish, HoldsRow, HoldsSource, TypeOK
<1>3. \A a \in Acqs, d \in Clients : rowOwner'[a] = d <=> rowOwner[a] = d /\ d # c
  BY ClientAssumption DEF Finish, TypeOK
<1>4. \A s \in Sources, d \in Clients :
        sourceOwner'[s] = d <=> sourceOwner[s] = d /\ d # c
  BY ClientAssumption DEF Finish, TypeOK
<1> QED
  BY <1>1, <1>2, <1>3, <1>4 DEF LocksMatchTransactions

\* A step of one client that takes no lock and ends no transaction.
LEMMA QuietLocks ==
  ASSUME NEW c \in Clients, TypeOK, LocksMatchTransactions, UNCHANGED locks,
         \A d \in Clients \ {c} : pc'[d] = pc[d] /\ job'[d] = job[d],
         ~HoldsRow(c), ~HoldsSource(c), ~HoldsRow(c)', ~HoldsSource(c)'
  PROVE  LocksMatchTransactions'
<1>1. \A d \in Clients \ {c} :
        /\ job'[d] = job[d]
        /\ HoldsRow(d)' <=> HoldsRow(d)
        /\ HoldsSource(d)' <=> HoldsSource(d)
  BY DEF HoldsRow, HoldsSource
<1> QED
  BY <1>1 DEF LocksMatchTransactions

LEMMA BeginLocks ==
  ASSUME NEW c \in Clients, TypeOK, LocksMatchTransactions,
         NEW label \in {"registered", "resuming", "coverLockSource", "appendLock",
                        "rollbackLock"},
         NEW j, Begin(c, label, j)
  PROVE  LocksMatchTransactions'
BY QuietLocks DEF Begin, HoldsRow, HoldsSource, TypeOK

LEMMA GotoLocks ==
  ASSUME NEW c \in Clients, TypeOK, LocksMatchTransactions,
         pc[c] \in {"registered", "resuming", "passed"},
         NEW label \in {"failed", "publishLockRow", "passed"},
         Goto(c, label), UNCHANGED locks
  PROVE  LocksMatchTransactions'
BY QuietLocks DEF Goto, HoldsRow, HoldsSource, TypeOK

\* Locks are held exactly by the transactions that took them, so two commands
\* never work on one acquisition row or one source at a time.
THEOREM LocksFollowTransactions == Spec => []LocksMatchTransactions
<1>1. Init => LocksMatchTransactions
  BY ClientAssumption DEF Init, LocksMatchTransactions, HoldsRow, HoldsSource
<1>2. TypeOK /\ LocksMatchTransactions /\ [Next]_vars => LocksMatchTransactions'
  <2> SUFFICES ASSUME TypeOK, LocksMatchTransactions, [Next]_vars
               PROVE  LocksMatchTransactions'
    OBVIOUS
  <2>1. CASE UNCHANGED vars
    BY <2>1 DEF vars, LocksMatchTransactions, HoldsRow, HoldsSource
  <2>2. ASSUME NEW c \in Clients, Step(c) \/ Crash(c) PROVE LocksMatchTransactions'
    <3>1. CASE Finish(c)
      BY <3>1, FinishLocks
    <3>2. CASE Judge(c)
      BY <3>2, GotoLocks DEF Judge
    <3>3. CASE MarkValidated(c)
      BY <3>3, GotoLocks DEF MarkValidated
    <3> QED
      BY <2>2, <3>1, <3>2, <3>3
         DEF Step, Crash, Raise, MarkQualityFailed, MarkRejected, PublishReuse,
             PublishStage, PublishExisting, PublishRefuse, CoverCommit, CoverRefuse,
             AppendCommit, AppendRefuse, RollbackCommit, RollbackRefuse,
             DeadlockVictim
  <2>3. ASSUME NEW c \in Clients, LockRow(c) PROVE LocksMatchTransactions'
    <3>1. /\ Acq(c) \in Acqs /\ job' = job /\ sourceOwner' = sourceOwner
          /\ rowOwner[Acq(c)] = NoClient
          /\ rowOwner' = [rowOwner EXCEPT ![Acq(c)] = c]
          /\ ~HoldsRow(c) /\ HoldsRow(c)' /\ (HoldsSource(c)' <=> HoldsSource(c))
          /\ \A d \in Clients \ {c} : pc'[d] = pc[d]
      BY <2>3 DEF LockRow, RowWaits, AfterLock, Goto, HoldsRow, HoldsSource, TypeOK
    <3>2. \A d \in Clients \ {c} :
            (HoldsRow(d)' <=> HoldsRow(d)) /\ (HoldsSource(d)' <=> HoldsSource(d))
      BY <3>1 DEF HoldsRow, HoldsSource
    <3>3. \A d \in Clients : ~(HoldsRow(d) /\ Acq(d) = Acq(c))
      BY <3>1, ClientAssumption DEF LocksMatchTransactions
    <3> QED
      BY <3>1, <3>2, <3>3 DEF LocksMatchTransactions, TypeOK
  <2>4. ASSUME NEW c \in Clients, LockSource(c) PROVE LocksMatchTransactions'
    <3>1. /\ Src(c) \in Sources /\ job' = job /\ rowOwner' = rowOwner
          /\ sourceOwner[Src(c)] = NoClient
          /\ sourceOwner' = [sourceOwner EXCEPT ![Src(c)] = c]
          /\ ~HoldsSource(c) /\ HoldsSource(c)' /\ (HoldsRow(c)' <=> HoldsRow(c))
          /\ \A d \in Clients \ {c} : pc'[d] = pc[d]
      BY <2>4, CatalogAssumption
         DEF LockSource, SourceWaits, RowWaits, AfterLock, Goto, HoldsRow, HoldsSource,
             TypeOK
    <3>2. \A d \in Clients \ {c} :
            (HoldsRow(d)' <=> HoldsRow(d)) /\ (HoldsSource(d)' <=> HoldsSource(d))
      BY <3>1 DEF HoldsRow, HoldsSource
    <3>3. \A d \in Clients : ~(HoldsSource(d) /\ Src(d) = Src(c))
      BY <3>1, ClientAssumption DEF LocksMatchTransactions
    <3> QED
      BY <3>1, <3>2, <3>3 DEF LocksMatchTransactions, TypeOK
  <2>5. ASSUME NEW c \in Clients, NEW a \in Acqs, RegisterIncomplete(c, a)
        PROVE  LocksMatchTransactions'
    BY <2>5 DEF RegisterIncomplete, LocksMatchTransactions, HoldsRow, HoldsSource
  <2>6. ASSUME NEW c \in Clients, NEW a \in Acqs, RollbackBegin(c, a)
        PROVE  LocksMatchTransactions'
    BY <2>6, BeginLocks DEF RollbackBegin
  <2>7. ASSUME NEW c \in Clients, NEW a \in Acqs, NEW exp \in ExpansionsOf[a],
               RegisterNew(c, a, exp) \/ RegisterAgain(c, a, exp)
        PROVE  LocksMatchTransactions'
    BY <2>7, BeginLocks DEF RegisterNew, RegisterAgain
  <2>8. ASSUME NEW c \in Clients, NEW a \in Acqs, NEW rows \in Batches,
               CoverBegin(c, a, rows) \/ AppendBegin(c, a, rows)
        PROVE  LocksMatchTransactions'
    BY <2>8, BeginLocks DEF CoverBegin, AppendBegin
  <2> QED
    BY <2>1, <2>2, <2>3, <2>4, <2>5, <2>6, <2>7, <2>8 DEF Next
<1> QED
  BY <1>1, <1>2, TypeCorrect, PTL DEF Spec

--------------------------------------------------------------------------------
\* What the importers know about the tables between two of their statements.
CoveringHasBatch ==
  \A c \in Clients :
    pc[c] \in {"coverLockSource", "coverLockRow", "cover", "appendLock", "append"} =>
      job[c].rows \in Batches

TableInv == PublicationMatchesStatus /\ AppendingIsPublished /\ CoveringHasBatch

\* No step takes PUBLISHED back, so what a waiting append saw remains true.
LEMMA TableStep == TypeOK /\ TableInv /\ [Next]_vars => TableInv'
<1> SUFFICES ASSUME TypeOK, TableInv, [Next]_vars PROVE TableInv'
  OBVIOUS
<1> USE DEF TableInv, PublicationMatchesStatus, AppendingIsPublished, CoveringHasBatch
<1>1. CASE UNCHANGED vars
  BY <1>1 DEF vars
<1>2. ASSUME NEW c \in Clients, Step(c) \/ Crash(c) PROVE TableInv'
  <2>1. CASE Finish(c) /\ UNCHANGED <<status, publications>>
    BY <2>1 DEF Finish, TypeOK
  <2>2. CASE Judge(c)
    BY <2>2 DEF Judge, Goto, TypeOK
  <2>3. CASE MarkQualityFailed(c)
    BY <2>3 DEF MarkQualityFailed, SetStatus, Finish, TypeOK
  <2>4. CASE MarkValidated(c)
    BY <2>4 DEF MarkValidated, SetStatus, Goto, TypeOK
  <2>5. CASE PublishReuse(c)
    BY <2>5 DEF PublishReuse, SetStatus, Finish, TypeOK
  <2>6. CASE PublishStage(c)
    BY <2>6 DEF PublishStage, SetStatus, Finish, TypeOK
  <2>7. CASE CoverCommit(c)
    BY <2>7 DEF CoverCommit, CanCover, SetStatus, Finish, TypeOK
  <2> QED
    BY <1>2, <2>1, <2>2, <2>3, <2>4, <2>5, <2>6, <2>7
       DEF Step, Crash, Raise, MarkRejected, PublishExisting, PublishRefuse, CoverRefuse,
           AppendCommit, AppendRefuse, RollbackCommit, RollbackRefuse, DeadlockVictim
<1>3. ASSUME NEW c \in Clients, LockRow(c) \/ LockSource(c) PROVE TableInv'
  <2>1. /\ pc[c] \in DOMAIN AfterLock /\ pc' = [pc EXCEPT ![c] = AfterLock[pc[c]]]
        /\ UNCHANGED <<status, publications, job>>
    BY <1>3 DEF LockRow, LockSource, RowWaits, SourceWaits, AfterLock, Goto
  <2>2. /\ AfterLock[pc[c]] \in {"coverLockRow", "cover"} =>
             pc[c] \in {"coverLockSource", "coverLockRow"}
        /\ AfterLock[pc[c]] = "append" => pc[c] = "appendLock"
        /\ AfterLock[pc[c]] \notin {"coverLockSource", "appendLock"}
    BY <2>1 DEF AfterLock
  <2>3. \A d \in Clients \ {c} : pc'[d] = pc[d]
    BY <2>1 DEF TypeOK
  <2>4. pc'[c] = AfterLock[pc[c]]
    BY <2>1 DEF TypeOK
  <2> QED
    BY <2>1, <2>2, <2>3, <2>4
<1>4. ASSUME NEW c \in Clients, NEW a \in Acqs, RegisterIncomplete(c, a)
      PROVE  TableInv'
  BY <1>4 DEF RegisterIncomplete, SetStatus, TypeOK
<1>5. ASSUME NEW c \in Clients, NEW a \in Acqs, RollbackBegin(c, a) PROVE TableInv'
  BY <1>5 DEF RollbackBegin, Begin, TypeOK
<1>6. ASSUME NEW c \in Clients, NEW a \in Acqs, NEW exp \in ExpansionsOf[a],
             RegisterNew(c, a, exp) \/ RegisterAgain(c, a, exp)
      PROVE  TableInv'
  <2>1. PICK label \in {"registered", "resuming"} : pc' = [pc EXCEPT ![c] = label]
    BY <1>6 DEF RegisterNew, RegisterAgain, Begin
  <2>2. pc'[c] \notin {"coverLockSource", "coverLockRow", "cover", "appendLock", "append"}
    BY <2>1 DEF TypeOK
  <2>3. \A d \in Clients \ {c} : pc'[d] = pc[d] /\ job'[d] = job[d]
    BY <1>6, <2>1 DEF RegisterNew, RegisterAgain, Begin, TypeOK
  <2>4. /\ publications' = publications
        /\ \A b \in Acqs :
             status'[b] # status[b] => status[b] = "ABSENT" /\ status'[b] = "ACQUIRED"
    BY <1>6 DEF RegisterNew, RegisterAgain, SetStatus, TypeOK
  <2>5. \A d \in Clients : pc[d] # "idle" => job[d].acq \in Acqs
    BY DEF TypeOK
  <2> QED
    BY <2>2, <2>3, <2>4, <2>5
<1>7. ASSUME NEW c \in Clients, NEW a \in Acqs, NEW rows \in Batches,
             CoverBegin(c, a, rows) \/ AppendBegin(c, a, rows)
      PROVE  TableInv'
  <2>1. PICK label \in {"coverLockSource", "appendLock"} :
          /\ pc' = [pc EXCEPT ![c] = label]
          /\ label = "appendLock" => status[a] = "PUBLISHED"
    BY <1>7 DEF CoverBegin, AppendBegin, Begin
  <2>2. job' = [job EXCEPT ![c] = [NoJob EXCEPT !.acq = a, !.rows = rows]]
    BY <1>7 DEF CoverBegin, AppendBegin, Begin
  <2>3. UNCHANGED <<status, publications>>
    BY <1>7 DEF CoverBegin, AppendBegin
  <2>4. job'[c].acq = a /\ job'[c].rows = rows
    BY <2>2 DEF NoJob, TypeOK
  <2>5. \A d \in Clients \ {c} : pc'[d] = pc[d] /\ job'[d] = job[d]
    BY <2>1, <2>2 DEF TypeOK
  <2>6. pc'[c] = label
    BY <2>1 DEF TypeOK
  <2> QED
    BY <2>1, <2>3, <2>4, <2>5, <2>6
<1> QED
  BY <1>1, <1>2, <1>3, <1>4, <1>5, <1>6, <1>7 DEF Next

THEOREM TablesAgree == Spec => []TableInv
<1>1. Init => TableInv
  BY DEF Init, TableInv, PublicationMatchesStatus, AppendingIsPublished, CoveringHasBatch
<1> QED
  BY <1>1, TableStep, TypeCorrect, PTL DEF Spec

\* Publication rows and acquisition states never disagree, however publishers,
\* operators and crashes interleave.
THEOREM PublicationsMatch == Spec => []PublicationMatchesStatus
<1>1. TableInv => PublicationMatchesStatus
  BY SMTT(30) DEF TableInv
<1> QED
  BY <1>1, TablesAgree, PTL

--------------------------------------------------------------------------------
\* Every step of an importer is one operation of the abstract life cycle on the
\* tables, or leaves them alone.
LEMMA LifecycleStep ==
  TypeOK /\ TableInv /\ [Next]_vars => [Lifecycle!Next]_(Lifecycle!vars)
<1> SUFFICES ASSUME TypeOK, TableInv, [Next]_vars, ~UNCHANGED db
             PROVE  Lifecycle!Next
  BY DEF Lifecycle!vars
<1>1. ASSUME NEW c \in Clients, Step(c) \/ Crash(c) PROVE Lifecycle!Next
  <2>1. pc[c] # "idle" => Acq(c) \in Acqs
    BY DEF TypeOK
  <2>2. CASE MarkQualityFailed(c)
    <3>1. Lifecycle!Reject(Acq(c))
      BY <2>2 DEF MarkQualityFailed, SetStatus, Lifecycle!Reject, Lifecycle!Move
    <3> QED
      BY <2>1, <2>2, <3>1 DEF Lifecycle!Next, MarkQualityFailed
  <2>3. CASE MarkValidated(c)
    <3>1. Lifecycle!Validate(Acq(c))
      BY <2>3 DEF MarkValidated, SetStatus, Lifecycle!Validate, Lifecycle!Move
    <3> QED
      BY <2>1, <2>3, <3>1 DEF Lifecycle!Next, MarkValidated
  <2>4. CASE PublishReuse(c)
    <3>1. Lifecycle!Reuse(Acq(c))
      BY <2>4 DEF PublishReuse, SetStatus, Twins, Lifecycle!Reuse, Lifecycle!Move,
                  Lifecycle!Twins
    <3> QED
      BY <2>1, <2>4, <3>1 DEF Lifecycle!Next, PublishReuse
  <2>5. CASE PublishStage(c)
    <3>1. Lifecycle!Stage(Acq(c))
      BY <2>5 DEF PublishStage, SetStatus, Twins, Lifecycle!Stage, Lifecycle!Twins
    <3> QED
      BY <2>1, <2>5, <3>1 DEF Lifecycle!Next, PublishStage
  <2>6. CASE CoverCommit(c)
    <3>1. Acq(c) \in publications /\ status[Acq(c)] = "STAGED"
      BY <2>1, <2>6 DEF CoverCommit, CanCover, TableInv, PublicationMatchesStatus
    <3>2. Lifecycle!Activate(Acq(c), job[c].rows)
      BY <2>6, <3>1 DEF CoverCommit, CanCover, Point, SetStatus, Lifecycle!Activate,
           Lifecycle!Point, ReadyToActivate, Lifecycle!ReadyToActivate, Clashes,
           Lifecycle!Clashes, SameIdentity, Lifecycle!SameIdentity, BoundToSource, Lifecycle!BoundToSource
    <3>3. job[c].rows \in Batches
      BY <2>6 DEF CoverCommit, TableInv, CoveringHasBatch
    <3> QED
      BY <2>1, <2>6, <3>2, <3>3 DEF Lifecycle!Next, CoverCommit
  <2>7. CASE AppendCommit(c)
    <3>1. Acq(c) \in publications /\ status[Acq(c)] = "PUBLISHED"
      BY <2>1, <2>7
         DEF AppendCommit, TableInv, PublicationMatchesStatus, AppendingIsPublished
    <3>2. Lifecycle!Extend(Acq(c), job[c].rows)
      BY <2>7, <3>1 DEF AppendCommit, CanAppend, Lifecycle!Extend, ReadyToAppend,
           Lifecycle!ReadyToAppend, Clashes, Lifecycle!Clashes, SameIdentity,
           Lifecycle!SameIdentity, BoundToSource,
           Lifecycle!BoundToSource
    <3>3. job[c].rows \in Batches
      BY <2>7 DEF AppendCommit, TableInv, CoveringHasBatch
    <3> QED
      BY <2>1, <2>7, <3>2, <3>3 DEF Lifecycle!Next, AppendCommit
  <2>8. CASE RollbackCommit(c)
    <3>1. Lifecycle!Rollback(Acq(c))
      BY <2>8 DEF RollbackCommit, CanRollback, Point, Lifecycle!Rollback, Lifecycle!Point
    <3> QED
      BY <2>1, <2>8, <3>1, SMTT(30) DEF Lifecycle!Next, RollbackCommit
  <2> QED
    BY <1>1, <2>2, <2>3, <2>4, <2>5, <2>6, <2>7, <2>8
       DEF Step, Crash, Raise, Judge, MarkRejected, PublishExisting, PublishRefuse,
           CoverRefuse, AppendRefuse, RollbackRefuse, DeadlockVictim
<1>2. ASSUME NEW c \in Clients, NEW a \in Acqs, RegisterIncomplete(c, a)
      PROVE  Lifecycle!Next
  <2>1. Lifecycle!Collect(a)
    BY <1>2 DEF RegisterIncomplete, SetStatus, Lifecycle!Collect, Lifecycle!Move
  <2> QED
    BY <2>1 DEF Lifecycle!Next
<1>3. ASSUME NEW c \in Clients, NEW a \in Acqs, NEW exp \in ExpansionsOf[a],
             RegisterNew(c, a, exp)
      PROVE  Lifecycle!Next
  <2>1. Lifecycle!Collect(a)
    BY <1>3 DEF RegisterNew, SetStatus, Lifecycle!Collect, Lifecycle!Move
  <2> QED
    BY <2>1 DEF Lifecycle!Next
<1> QED
  BY <1>1, <1>2, <1>3, ZenonT(60)
     DEF Next, vars, LockRow, LockSource, RollbackBegin, RegisterAgain, CoverBegin,
         AppendBegin

\* The locks and the conditional updates make concurrent importers look like
\* one-step operations on the tables.
THEOREM Implementation == Spec => ImplementsLifecycle
<1>1. Init => Lifecycle!Init
  BY DEF Init, Lifecycle!Init
<1> QED
  BY <1>1, LifecycleStep, TypeCorrect, TablesAgree, PTL
     DEF Spec, ImplementsLifecycle, Lifecycle!Spec

--------------------------------------------------------------------------------
\* The remaining invariants speak of the tables only, so they are proved from
\* the operations of the life cycle, whatever the importers do in between.
LifecycleChange == Lifecycle!Next \/ UNCHANGED db

LEMMA TableChange == TypeOK /\ TableInv /\ [Next]_vars => LifecycleChange
BY LifecycleStep DEF LifecycleChange, Lifecycle!vars

LEMMA DistinctStep ==
  TypeOK /\ DatasetsAreDistinct /\ LifecycleChange => DatasetsAreDistinct'
<1> SUFFICES ASSUME TypeOK, DatasetsAreDistinct, LifecycleChange
             PROVE  DatasetsAreDistinct'
  OBVIOUS
<1> USE DEF DatasetsAreDistinct, Twins
<1>1. CASE UNCHANGED <<status, publications>>
  BY <1>1
<1>2. ASSUME NEW a \in Acqs, NEW from, NEW to \in AcqStatus \ {"NO_CHANGE"},
             Lifecycle!Move(a, from, to)
      PROVE  DatasetsAreDistinct'
  BY <1>2 DEF Lifecycle!Move, TypeOK
<1>3. ASSUME NEW a \in Acqs, Lifecycle!Reuse(a) PROVE DatasetsAreDistinct'
  BY <1>3 DEF Lifecycle!Reuse, Lifecycle!Move, Lifecycle!Twins, TypeOK
<1>4. ASSUME NEW a \in Acqs, Lifecycle!Stage(a) PROVE DatasetsAreDistinct'
  <2>1. Twins(a) = {} /\ publications' = publications \cup {a}
    BY <1>4 DEF Lifecycle!Stage, Lifecycle!Twins
  <2>2. \A p \in publications' : Twins(p)' = {p}
    BY <2>1 DEF TypeOK
  <2>3. \A b \in Acqs : status'[b] = "NO_CHANGE" => status[b] = "NO_CHANGE"
    BY <1>4 DEF Lifecycle!Stage, TypeOK
  <2> QED
    BY <2>1, <2>2, <2>3
<1>5. ASSUME NEW p \in Acqs, NEW rows, Lifecycle!Activate(p, rows)
      PROVE  DatasetsAreDistinct'
  BY <1>5 DEF Lifecycle!Activate, TypeOK
<1> QED
  BY <1>1, <1>2, <1>3, <1>4, <1>5
     DEF LifecycleChange, Lifecycle!Next, Lifecycle!Collect, Lifecycle!Reject,
         Lifecycle!Validate, Lifecycle!Extend, Lifecycle!Rollback, AcqStatus

\* No data set is published twice for a source, and every NO_CHANGE has a twin.
THEOREM DatasetsDistinct == Spec => []DatasetsAreDistinct
<1>1. Init => DatasetsAreDistinct
  BY DEF Init, DatasetsAreDistinct
<1> QED
  BY <1>1, DistinctStep, TableChange, TypeCorrect, TablesAgree, PTL DEF Spec

LEMMA CoverageStep ==
  TypeOK /\ PublishedCoverageIsReady /\ LifecycleChange => PublishedCoverageIsReady'
<1> SUFFICES ASSUME TypeOK, PublishedCoverageIsReady, LifecycleChange
             PROVE  PublishedCoverageIsReady'
  OBVIOUS
<1> USE DEF PublishedCoverageIsReady
<1>1. CASE UNCHANGED <<status, coverage>>
  BY <1>1
<1>2. ASSUME NEW a \in Acqs, NEW from \in AcqStatus \ {"PUBLISHED"},
             NEW to \in AcqStatus \ {"PUBLISHED"}, Lifecycle!Move(a, from, to)
      PROVE  PublishedCoverageIsReady'
  BY <1>2 DEF Lifecycle!Move, TypeOK
<1>3. ASSUME NEW a \in Acqs, Lifecycle!Stage(a) PROVE PublishedCoverageIsReady'
  BY <1>3 DEF Lifecycle!Stage, TypeOK
<1>4. ASSUME NEW p \in Acqs, NEW rows \in Batches, Lifecycle!Activate(p, rows)
      PROVE  PublishedCoverageIsReady'
  <2>1. coverage[p] = {} /\ coverage'[p] = rows /\ status'[p] = "PUBLISHED"
    BY <1>4 DEF Lifecycle!Activate, TypeOK
  <2>2. \A a \in Acqs \ {p} : coverage'[a] = coverage[a] /\ status'[a] = status[a]
    BY <1>4 DEF Lifecycle!Activate, TypeOK
  <2>3. rows # {} /\ rows \subseteq CoverageRow
    BY CatalogAssumption
  <2>4. \A q, r \in rows : SameIdentity(q, r) => q = r
    BY <1>4 DEF Lifecycle!Activate, Lifecycle!Clashes, Lifecycle!SameIdentity, SameIdentity
  <2>5. CASE SourceOf[p] \in IntroSources
    <3>1. PICK r \in rows : r.cap = SnapshotCap /\ r.ready /\ r.scope = WholeScope
      BY <1>4, <2>5 DEF Lifecycle!Activate, Lifecycle!ReadyToActivate
    <3>2. r = [cap |-> SnapshotCap, scope |-> WholeScope, ready |-> TRUE]
      BY <3>1, <2>3 DEF CoverageRow
    <3> QED
      BY <2>1, <2>2, <2>3, <2>4, <2>5, <3>2
  <2>6. CASE SourceOf[p] \notin IntroSources
    <3>1. \A r \in rows : r.ready
      BY <1>4, <2>6 DEF Lifecycle!Activate, Lifecycle!ReadyToActivate
    <3> QED
      BY <2>1, <2>2, <2>3, <2>4, <2>6, <3>1
  <2> QED
    BY <2>5, <2>6
<1>5. ASSUME NEW p \in Acqs, NEW rows \in Batches, Lifecycle!Extend(p, rows)
      PROVE  PublishedCoverageIsReady'
  <2>1. coverage'[p] = coverage[p] \cup rows /\ status[p] = "PUBLISHED"
    BY <1>5 DEF Lifecycle!Extend, TypeOK
  <2>2. /\ status' = status
        /\ \A a \in Acqs \ {p} : coverage'[a] = coverage[a]
    BY <1>5 DEF Lifecycle!Extend, TypeOK
  <2>3. \A q, r \in coverage'[p] : SameIdentity(q, r) => q = r
    BY <1>5, <2>1 DEF Lifecycle!Extend, Lifecycle!Clashes, Lifecycle!SameIdentity,
                      SameIdentity
  <2>4. SourceOf[p] \notin IntroSources => \A r \in rows : r.ready
    BY <1>5 DEF Lifecycle!Extend, Lifecycle!ReadyToAppend
  <2> QED
    BY <2>1, <2>2, <2>3, <2>4
<1> QED
  BY <1>1, <1>2, <1>3, <1>4, <1>5
     DEF LifecycleChange, Lifecycle!Next, Lifecycle!Collect, Lifecycle!Reject,
         Lifecycle!Validate, Lifecycle!Reuse, Lifecycle!Rollback, AcqStatus

\* What activation demanded of the coverage of a publication survives appends.
THEOREM CoverageReady == Spec => []PublishedCoverageIsReady
<1>1. Init => PublishedCoverageIsReady
  BY DEF Init, PublishedCoverageIsReady
<1> QED
  BY <1>1, CoverageStep, TableChange, TypeCorrect, TablesAgree, PTL DEF Spec

LEMMA PointHistory ==
  ASSUME NEW p \in publications, publications \subseteq Acqs,
         TypeOK, ActivationHistory, Lifecycle!Point(SourceOf[p], p),
         publications' = publications
  PROVE  ActivationHistory'
<1> DEFINE s == SourceOf[p]
           new == [prev |-> active[s], pub |-> p]
<1>1. /\ s \in Sources /\ events[s] \in Seq(ActivationEvent)
      /\ new \in ActivationEvent
  BY CatalogAssumption DEF TypeOK, ActivationEvent
<1>2. /\ active' = [active EXCEPT ![s] = p]
      /\ events' = [events EXCEPT ![s] = Append(events[s], new)]
  BY DEF Lifecycle!Point
<1>3. \A t \in Sources \ {s} : active'[t] = active[t] /\ events'[t] = events[t]
  BY <1>2 DEF TypeOK
<1>4. active'[s] = p /\ events'[s] = Append(events[s], new)
  BY <1>1, <1>2 DEF TypeOK
<1> DEFINE old == events[s]
           log == events'[s]
<1>5. /\ Len(old) \in Nat /\ Len(log) = Len(old) + 1 /\ log # <<>>
      /\ \A i \in 1..Len(old) : log[i] = old[i]
      /\ log[Len(log)] = new
  BY <1>1, <1>4
<1>6. /\ active[s] = IF old = <<>> THEN NoPub ELSE old[Len(old)].pub
      /\ \A i \in 1..Len(old) :
           /\ old[i].prev = IF i = 1 THEN NoPub ELSE old[i - 1].pub
           /\ old[i].pub \in publications /\ SourceOf[old[i].pub] = s
  BY <1>1 DEF ActivationHistory
<1>7. old = <<>> <=> Len(old) = 0
  BY <1>1
<1>8. ASSUME NEW i \in 1..Len(log)
      PROVE  /\ log[i].prev = IF i = 1 THEN NoPub ELSE log[i - 1].pub
             /\ log[i].pub \in publications /\ SourceOf[log[i].pub] = s
  <2>1. CASE i \in 1..Len(old)
    <3> HIDE DEF old, log, s
    <3>1. log[i] = old[i]
      BY <2>1, <1>5
    <3>2. i # 1 => i - 1 \in 1..Len(old)
      BY <2>1, <1>5
    <3>3. i # 1 => log[i - 1] = old[i - 1]
      BY <3>2, <1>5
    <3> QED
      BY <2>1, <3>1, <3>3, <1>6
  <2>2. CASE i = Len(log)
    <3>1. log[i].prev = active[s] /\ log[i].pub = p
      BY <2>2, <1>5
    <3>2. CASE Len(old) = 0
      BY <2>2, <3>1, <3>2, <1>5, <1>6, <1>7
    <3>3. CASE Len(old) # 0
      <4>1. i # 1 /\ log[i - 1] = old[Len(old)]
        BY <2>2, <3>3, <1>5
      <4>2. active[s] = old[Len(old)].pub
        BY <3>3, <1>6, <1>7
      <4> QED
        BY <3>1, <4>1, <4>2
    <3> QED
      BY <3>2, <3>3
  <2> HIDE DEF old, log
  <2> QED
    BY <2>1, <2>2, <1>5
<1>9. active'[s] = IF log = <<>> THEN NoPub ELSE log[Len(log)].pub
  BY <1>4, <1>5
<1> HIDE DEF s, log
<1> QED
  BY <1>3, <1>8, <1>9 DEF ActivationHistory, log

LEMMA HistoryStep ==
  TypeOK /\ ActivationHistory /\ LifecycleChange => ActivationHistory'
<1> SUFFICES ASSUME TypeOK, ActivationHistory, LifecycleChange
             PROVE  ActivationHistory'
  OBVIOUS
<1>1. CASE UNCHANGED <<publications, active, events>>
  BY <1>1 DEF ActivationHistory
<1>2. ASSUME NEW a \in Acqs, Lifecycle!Stage(a) PROVE ActivationHistory'
  BY <1>2 DEF Lifecycle!Stage, ActivationHistory
<1>3. ASSUME NEW p \in Acqs, NEW rows, Lifecycle!Activate(p, rows)
      PROVE  ActivationHistory'
  BY <1>3, PointHistory DEF Lifecycle!Activate, TypeOK
<1>4. ASSUME NEW p \in Acqs, Lifecycle!Rollback(p) PROVE ActivationHistory'
  BY <1>4, PointHistory DEF Lifecycle!Rollback, TypeOK
<1> QED
  BY <1>1, <1>2, <1>3, <1>4
     DEF LifecycleChange, Lifecycle!Next, Lifecycle!Move, Lifecycle!Collect,
         Lifecycle!Reject, Lifecycle!Validate, Lifecycle!Reuse, Lifecycle!Extend

\* The activation events of a source stay an unbroken chain to its active snapshot.
THEOREM HistoryUnbroken == Spec => []ActivationHistory
<1>1. Init => ActivationHistory
  BY DEF Init, ActivationHistory
<1> QED
  BY <1>1, HistoryStep, TableChange, TypeCorrect, TablesAgree, PTL DEF Spec
================================================================================
