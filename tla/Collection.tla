------------------------------- MODULE Collection ------------------------------
(***************************************************************************)
(* PublicDataRefreshService.refresh_batch up to the registration: the      *)
(* pages of several queries, each tried up to three times, kept as they    *)
(* arrive in one archive, and the archive stored and registered.  A run    *)
(* that failed early leaves an INCOMPLETE acquisition, and a later run may *)
(* resume from its archive.  The source may change while it is read.       *)
(* Days pass between runs only: a run is short against days of freshness.  *)
(***************************************************************************)
EXTENDS Integers, Sequences, FiniteSets

CONSTANTS
  NumQueries,      \* queries of the manifest, 1..NumQueries
  Versions,        \* states the data of a query can be in
  VersionsOf,      \* Queries -> those that the data of the query goes through
  NoVersion,       \* no data was read
  Total,           \* Versions -> rows (totalCount)
  RowsPerPage,     \* rows_per_page of the profile
  MaximumPages,    \* maximum_pages of collect_paginated
  MaxPage,         \* bound: page numbers an answer may state
  FreshnessDays,   \* freshness_days of the source contract
  MaxDay,          \* bound: days that pass
  MaxRuns,         \* bound: runs of the command
  MaxFaults,       \* bound: answers that are not the page asked for
  MaxEdits         \* bound: changes at the source

Queries == 1..NumQueries
PageNumbers == 1..MaxPage
Attempts == 3                     \* range(3) of fetch_page

ASSUME CollectionAssumption ==
  /\ NumQueries \in Nat \ {0} /\ RowsPerPage \in Nat \ {0} /\ MaxPage \in Nat \ {0}
  /\ MaximumPages \in 1..MaxPage
  /\ FreshnessDays \in Nat /\ MaxDay \in Nat /\ MaxRuns \in Nat
  /\ VersionsOf \in [Queries -> SUBSET Versions]
  /\ Total \in [Versions -> Nat] /\ NoVersion \notin Versions

Pages == [num : PageNumbers, total : {Total[v] : v \in Versions}, ver : Versions]
\* An answer that was archived but is not a page of the contract.
Rejected == [num |-> 0, total |-> 0, ver |-> NoVersion]

VARIABLES
  source,     \* Queries -> version of its data
  today,
  archives,   \* stored raw objects with their acquisitions, oldest first
  run,        \* the refresh_batch in progress
  runs, faults, edits  \* counters of the bounds

vars == <<source, today, archives, run, runs, faults, edits>>
bounds == <<runs, faults, edits>>

PageCount(total) == LET n == (total + RowsPerPage - 1) \div RowsPerPage
                    IN IF n < 1 THEN 1 ELSE n

NoTries == [qp \in Queries \X PageNumbers |-> 0]

Idle == [pc |-> "idle", stop |-> FALSE, members |-> {}, tries |-> NoTries,
         reused |-> {}, q |-> 1, attempt |-> 0, pages |-> [q \in Queries |-> <<>>],
         done |-> {}, observed |-> -1]

Init ==
  /\ source \in [Queries -> Versions] /\ \A q \in Queries : source[q] \in VersionsOf[q]
  /\ today = 0 /\ archives = <<>> /\ run = Idle
  /\ runs = 0 /\ faults = 0 /\ edits = 0

--------------------------------------------------------------------------------
\* _load_resumed_raw_batch: what can be taken over from an archive.

Readable(ms, q, p) ==
  {m \in ms : m.q = q /\ m.p = p /\ m.body.num = p}

\* Mutant: the first answer of a page counts, not its last.
EarliestPage(ms, q, p) ==
  (CHOOSE m \in Readable(ms, q, p) : \A n \in Readable(ms, q, p) : m.a <= n.a).body

LatestPage(ms, q, p) ==
  (CHOOSE m \in Readable(ms, q, p) : \A n \in Readable(ms, q, p) : n.a <= m.a).body

HasAllPages(ms, q) ==
  /\ Readable(ms, q, 1) # {}
  /\ LET total == LatestPage(ms, q, 1).total
     IN \A p \in 1..PageCount(total) :
          Readable(ms, q, p) # {} /\ LatestPage(ms, q, p).total = total

CompletedPages(ms, q) ==
  [p \in 1..PageCount(LatestPage(ms, q, 1).total) |-> LatestPage(ms, q, p)]

\* Mutant: the attempts of the resumed archive are not counted.
TriesForgotten(ms) == NoTries

\* maximum_attempts, rejected answers included.
TriesOf(ms) ==
  [qp \in Queries \X PageNumbers |->
     LET made == {m.a : m \in {n \in ms : <<n.q, n.p>> = qp}}
     IN IF made = {} THEN 0 ELSE CHOOSE a \in made : \A b \in made : b <= a]

--------------------------------------------------------------------------------
\* refresh_batch

StartFresh ==
  /\ run.pc = "idle" /\ runs < MaxRuns
  /\ runs' = runs + 1
  /\ \E stop \in BOOLEAN : run' = [Idle EXCEPT !.pc = "collect", !.stop = stop]
  /\ UNCHANGED <<source, today, archives, faults, edits>>

Resumable(i) ==
  /\ archives[i].status = "INCOMPLETE"
  /\ today - archives[i].observed <= FreshnessDays

StartResumed(i) ==
  /\ run.pc = "idle" /\ runs < MaxRuns /\ Resumable(i)
  /\ runs' = runs + 1
  /\ LET ms == archives[i].members
     IN \E stop \in BOOLEAN :
          run' = [Idle EXCEPT !.pc = "collect", !.stop = stop, !.members = ms,
                    !.tries = TriesOf(ms), !.observed = archives[i].observed,
                    !.reused = {q \in Queries : HasAllPages(ms, q)},
                    !.pages = [q \in Queries |-> IF HasAllPages(ms, q)
                                                 THEN CompletedPages(ms, q) ELSE <<>>]]
  /\ UNCHANGED <<source, today, archives, faults, edits>>

\* A run whose pagination of its query ended, and with what.
NextQuery(r) == [r EXCEPT !.q = @ + 1, !.attempt = 0]
Completed(r) == NextQuery([r EXCEPT !.done = @ \cup {r.q}])
Stopped(r) == IF r.stop THEN [r EXCEPT !.pc = "put"] ELSE NextQuery(r)

Collecting == run.pc = "collect" /\ run.q \in Queries
Fetching == Collecting /\ run.q \notin run.reused
Asked == Len(run.pages[run.q]) + 1

TakeOver ==
  /\ Collecting /\ run.q \in run.reused
  /\ run' = Completed(run)
  /\ UNCHANGED <<source, today, archives, bounds>>

Archived(r, p, body) ==
  LET a == r.tries[<<r.q, p>>] + 1
  IN [r EXCEPT !.members = @ \cup {[q |-> r.q, p |-> p, a |-> a, body |-> body,
                                    day |-> today]},
               !.tries = [@ EXCEPT ![<<r.q, p>>] = a]]

WithPage(r, page) == [r EXCEPT !.pages[r.q] = Append(@, page), !.attempt = 0]

\* Mutant: the total of a later page is not compared with the first.
AcceptedByNumber(r, p, page) ==
  LET first == IF p = 1 THEN page ELSE r.pages[r.q][1]
      n == PageCount(first.total)
  IN IF p = 1 /\ n > MaximumPages THEN Stopped(WithPage(r, page))
     ELSE IF p > 1 /\ page.num # p THEN Stopped(r)
     ELSE IF p = n THEN Completed(WithPage(r, page))
     ELSE WithPage(r, page)

\* collect_paginated looks at a page that was parsed.
Accepted(r, p, page) ==
  LET first == IF p = 1 THEN page ELSE r.pages[r.q][1]
      n == PageCount(first.total)
  IN IF p = 1 /\ n > MaximumPages THEN Stopped(WithPage(r, page))
     ELSE IF p > 1 /\ (page.num # p \/ page.total # first.total) THEN Stopped(r)
     ELSE IF p = n THEN Completed(WithPage(r, page))
     ELSE WithPage(r, page)

\* The source answers with a page; a page other than the one asked is a fault.
AnswerPage(num) ==
  /\ Fetching
  /\ num = Asked \/ faults < MaxFaults
  /\ faults' = IF num = Asked THEN faults ELSE faults + 1
  /\ LET v == source[run.q]
         page == [num |-> num, total |-> Total[v], ver |-> v]
     IN run' = Accepted(Archived(run, Asked, page), Asked, page)
  /\ UNCHANGED <<source, today, archives, runs, edits>>

\* Another attempt, unless this was the last.
Retried(r) == IF r.attempt + 1 = Attempts THEN Stopped(r)
              ELSE [r EXCEPT !.attempt = @ + 1]

Fault(r) ==
  /\ Fetching /\ faults < MaxFaults
  /\ faults' = faults + 1
  /\ run' = r
  /\ UNCHANGED <<source, today, archives, runs, edits>>

\* The envelope is not that of the contract: kept, then PublicDataPayloadInvalid.
AnswerRejected == Fault(Retried(Archived(run, Asked, Rejected)))

\* A timeout, a status other than 200 or 429, or a body that is no JSON or XML.
AnswerLost == Fault(Retried(run))

\* HTTP_STATUS_429, a redirect, a body too large or any other error: no retry.
AnswerRefused == Fault(Stopped(run))

--------------------------------------------------------------------------------
\* store_verified and register_verified_raw

Unregistered == [members |-> run.members, done |-> run.done,
                 observed |-> run.observed, status |-> "stored"]

PutObject ==
  /\ run.pc = "put" \/ (run.pc = "collect" /\ run.q > NumQueries)
  /\ archives' = Append(archives, Unregistered)
  /\ run' = [run EXCEPT !.pc = "register"]
  /\ UNCHANGED <<source, today, bounds>>

\* Mutant: a resumed acquisition counts as observed today.
ObservedToday(r) == today

ObservedOf(r) == IF r.observed >= 0 THEN r.observed ELSE today

\* Mutant: every query has some pagination, complete or not.
StatusTried(r) == IF r.q > NumQueries THEN "ACQUIRED" ELSE "INCOMPLETE"

StatusOf(r) == IF r.done = Queries THEN "ACQUIRED" ELSE "INCOMPLETE"

Register ==
  /\ run.pc = "register"
  /\ archives' = [archives EXCEPT ![Len(archives)].status = StatusOf(run),
                                  ![Len(archives)].observed = ObservedOf(run)]
  /\ run' = Idle
  /\ UNCHANGED <<source, today, bounds>>

\* The process dies, or the object client or the check of the head raises.
Die ==
  /\ run.pc # "idle"
  /\ run' = Idle
  /\ UNCHANGED <<source, today, archives, bounds>>

--------------------------------------------------------------------------------
EditSource(q, v) ==
  /\ edits < MaxEdits /\ v # source[q]
  /\ edits' = edits + 1
  /\ source' = [source EXCEPT ![q] = v]
  /\ UNCHANGED <<today, archives, run, runs, faults>>

Tick ==
  /\ run.pc = "idle" /\ today < MaxDay
  /\ today' = today + 1
  /\ UNCHANGED <<source, archives, run, bounds>>

Next ==
  \/ StartFresh
  \/ \E i \in DOMAIN archives : StartResumed(i)
  \/ TakeOver
  \/ \E num \in PageNumbers : AnswerPage(num)
  \/ AnswerRejected \/ AnswerLost \/ AnswerRefused
  \/ PutObject \/ Register \/ Die
  \/ \E q \in Queries : \E v \in VersionsOf[q] : EditSource(q, v)
  \/ Tick

Spec == Init /\ [][Next]_vars

--------------------------------------------------------------------------------
\* An acquisition that is ACQUIRED reads, for every query, the pages 2..n of
\* one version of its data behind a first page of that version, n as the total
\* of the version demands, whichever runs they come from (refresh_batch,
\* collect_paginated, _load_resumed_raw_batch; totals tell versions apart here).
AcquiredIsOneVersion ==
  \A i \in DOMAIN archives : archives[i].status = "ACQUIRED" =>
    \A q \in Queries : \E v \in Versions : \A p \in 1..PageCount(Total[v]) :
      \E m \in archives[i].members :
        /\ m.q = q /\ m.p = p /\ m.body # Rejected /\ m.body.ver = v
        /\ p > 1 => m.body.num = p

\* No run works with a page that is older than the contract's freshness, however
\* many resumes lie between (observed_at is that of the first run).
StalePagesAreNotReused ==
  run.pc # "idle" => \A m \in run.members : today - m.day <= FreshnessDays

\* An attempt number is used once for a page, over all the runs that an archive
\* has gone through, so RAW_PAGE_DUPLICATED never ends a pagination.
AttemptsNeverCollide ==
  \A m, n \in run.members :
    m.q = n.q /\ m.p = n.p /\ m.a = n.a => m = n

\* A query some run completed is not asked again by a resume of its archive,
\* if its first page was numbered 1 (only the resume looks at that number).
CompletedIsReused ==
  \A i \in DOMAIN archives : \A q \in archives[i].done :
    \/ HasAllPages(archives[i].members, q)
    \/ \E m \in archives[i].members :
         m.q = q /\ m.p = 1 /\ m.body # Rejected /\ m.body.num # 1

\* The stored bytes alone hold every page of the query.
IsWhole(ms) ==
  \A q \in Queries : \E t \in {Total[v] : v \in Versions} :
    \A p \in 1..PageCount(t) : \E m \in ms :
      /\ m.q = q /\ m.p = p /\ m.body # Rejected
      /\ m.body.total = t /\ (p > 1 => m.body.num = p)

Intake == INSTANCE RawIntake WITH
  Objects <- 1..MaxRuns,
  held <- DOMAIN archives,
  whole <- {i \in DOMAIN archives : IsWhole(archives[i].members)},
  book <- [i \in 1..MaxRuns |-> IF i \in DOMAIN archives /\ archives[i].status # "stored"
                                THEN archives[i].status ELSE "none"]

\* A collection keeps the promises of RawIntake.
ImplementsRawIntake == Intake!Spec
================================================================================
