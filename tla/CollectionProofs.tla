---------------------------- MODULE CollectionProofs ----------------------------
(***************************************************************************)
(* Proofs about Collection for any number of queries, pages, runs, days,   *)
(* faults and edits: attempt numbers never collide, no stale page is       *)
(* reused, what was completed is, an ACQUIRED acquisition holds one        *)
(* version of every query, and a collection implements RawIntake.          *)
(***************************************************************************)
EXTENDS Collection, TLAPS

Bodies == Pages \cup {Rejected}
Member == [q : Queries, p : PageNumbers, a : Nat, body : Bodies, day : Nat]
Archive == [members : SUBSET Member, done : SUBSET Queries, observed : Int,
            status : {"stored", "INCOMPLETE", "ACQUIRED"}]
Run == [pc : {"idle", "collect", "put", "register"}, stop : BOOLEAN,
        members : SUBSET Member, tries : [Queries \X PageNumbers -> Nat],
        reused : SUBSET Queries, q : Nat, attempt : Nat,
        pages : [Queries -> Seq(Pages)], done : SUBSET Queries, observed : Int]

TypeOK ==
  /\ source \in [Queries -> Versions] /\ today \in Nat
  /\ archives \in Seq(Archive) /\ run \in Run
  /\ runs \in Nat /\ faults \in Nat /\ edits \in Nat

\* One of the members is the last attempt.
HasLast(ms) == ms = {} \/ \E m \in ms : \A n \in ms : n.a <= m.a
OfPage(ms, q, p) == {m \in ms : m.q = q /\ m.p = p}
Ordered(ms) ==
  \A q \in Queries, p \in PageNumbers :
    HasLast(OfPage(ms, q, p)) /\ HasLast(Readable(ms, q, p))

Distinct(ms) ==
  \A m, n \in ms : m.q = n.q /\ m.p = n.p /\ m.a = n.a => m = n

\* One of the totals is that of a set of stored pages of the query.
WholeWith(ms, q, t) ==
  \A p \in 1..PageCount(t) : \E m \in ms :
    /\ m.q = q /\ m.p = p /\ m.body # Rejected
    /\ m.body.total = t /\ (p > 1 => m.body.num = p)
Whole(ms, q) == \E t \in {Total[v] : v \in Versions} : WholeWith(ms, q, t)

\* The pages read so far of a query are in the archive and agree on the total.
Kept(ms, q, pages) ==
  \A p \in DOMAIN pages :
    /\ pages[p].total = pages[1].total /\ (p > 1 => pages[p].num = p)
    /\ \E m \in ms : m.q = q /\ m.p = p /\ m.body = pages[p]

\* What holds of a run at every moment of it.
Counted(r) == \A m \in r.members : m.a <= r.tries[<<m.q, m.p>>]
Dated(r, d) ==
  /\ r.observed <= d
  /\ \A m \in r.members :
       /\ d - m.day <= FreshnessDays
       /\ IF r.observed >= 0 THEN r.observed <= m.day ELSE m.day = d
Backed(r) ==
  /\ \A q \in r.done \cup r.reused : Whole(r.members, q)
  /\ \A q \in Queries \ r.reused : Kept(r.members, q, r.pages[q])
Core(r, d) ==
  /\ r \in Run
  /\ Counted(r) /\ Distinct(r.members) /\ Ordered(r.members)
  /\ Dated(r, d) /\ Backed(r)

\* There is a page left to ask for, within the pages that are allowed.
Room(pages) ==
  pages = <<>> \/ (/\ Len(pages) < PageCount(pages[1].total)
                   /\ PageCount(pages[1].total) <= MaximumPages)
Later(r) == \A q \in Queries \ r.reused : q > r.q => r.pages[q] = <<>>
Ahead(r) ==
  /\ Later(r)
  /\ r.pc = "collect" /\ r.q \in Queries \ r.reused => Room(r.pages[r.q])

\* What holds of an archive.
Sound(a, d) ==
  /\ Distinct(a.members) /\ Ordered(a.members)
  /\ a.status # "stored" =>
       /\ a.observed \in Nat /\ a.observed <= d
       /\ \A m \in a.members : a.observed <= m.day

Stored ==
  run.pc = "register" =>
    /\ archives # <<>>
    /\ archives[Len(archives)] = Unregistered

Spent ==
  /\ runs <= MaxRuns
  /\ Len(archives) + (IF run.pc \in {"collect", "put"} THEN 1 ELSE 0) <= runs

IInv ==
  /\ TypeOK /\ Core(run, today) /\ Ahead(run) /\ Stored /\ Spent
  /\ run.pc = "idle" => run = Idle
  /\ \A i \in DOMAIN archives : Sound(archives[i], today)

--------------------------------------------------------------------------------
LEMMA PageCountPositive ==
  ASSUME NEW t \in Nat
  PROVE  PageCount(t) \in Nat \ {0}
BY CollectionAssumption DEF PageCount

LEMMA PagesTyped ==
  /\ Rejected \notin Pages
  /\ \A page \in Pages : page.total \in Nat /\ page.num \in PageNumbers
  /\ \A page \in Pages : page.total \in {Total[v] : v \in Versions}
BY CollectionAssumption DEF Pages, Rejected, PageNumbers

LEMMA WholeGrows ==
  ASSUME NEW ms, NEW more, ms \subseteq more, NEW q, Whole(ms, q)
  PROVE  Whole(more, q)
BY DEF Whole, WholeWith

LEMMA KeptGrows ==
  ASSUME NEW ms, NEW more, ms \subseteq more, NEW q, NEW pages, Kept(ms, q, pages)
  PROVE  Kept(more, q, pages)
BY DEF Kept

LEMMA IdleIsSound ==
  ASSUME NEW d \in Nat
  PROVE  Core(Idle, d) /\ Ahead(Idle)
<1>1. Idle \in Run
  BY CollectionAssumption DEF Idle, Run, NoTries, Queries
<1>2. Idle.members = {} /\ Idle.done = {} /\ Idle.reused = {} /\ Idle.observed = -1
      /\ Idle.pc = "idle" /\ \A q \in Queries : Idle.pages[q] = <<>>
  BY DEF Idle
<1>3. Counted(Idle) /\ Distinct(Idle.members) /\ Dated(Idle, d)
  BY <1>2 DEF Counted, Distinct, Dated
<1>4. Ordered(Idle.members)
  BY <1>2 DEF Ordered, HasLast, OfPage, Readable
<1>5. Backed(Idle)
  BY <1>2 DEF Backed, Kept
<1>6. Ahead(Idle)
  BY <1>2 DEF Ahead, Later
<1> QED BY <1>1, <1>3, <1>4, <1>5, <1>6 DEF Core

--------------------------------------------------------------------------------
\* An archived answer: one more member, of an attempt later than all others.
LEMMA ArchivedIsSound ==
  ASSUME NEW d \in Nat, d = today, NEW r, Core(r, d), r.q \in Queries, NEW p \in PageNumbers, NEW body \in Bodies
  PROVE  LET s == Archived(r, p, body)
         IN /\ Core(s, d)
            /\ s.pages = r.pages /\ s.pc = r.pc /\ s.q = r.q /\ s.reused = r.reused
            /\ s.done = r.done /\ s.observed = r.observed /\ s.stop = r.stop
            /\ s.attempt = r.attempt
            /\ \E m \in s.members : m.q = r.q /\ m.p = p /\ m.body = body
<1> DEFINE a == r.tries[<<r.q, p>>] + 1
           new == [q |-> r.q, p |-> p, a |-> a, body |-> body, day |-> d]
           s == Archived(r, p, body)
<1>1. r \in Run /\ a \in Nat
  BY DEF Core, Run
<1>2. /\ s = [r EXCEPT !.members = @ \cup {new}, !.tries = [@ EXCEPT ![<<r.q, p>>] = a]]
      /\ s.members = r.members \cup {new}
      /\ s.tries = [r.tries EXCEPT ![<<r.q, p>>] = a]
      /\ s.pages = r.pages /\ s.pc = r.pc /\ s.q = r.q /\ s.reused = r.reused
      /\ s.done = r.done /\ s.observed = r.observed /\ s.stop = r.stop
      /\ s.attempt = r.attempt
  BY <1>1 DEF Archived, Run
<1>3. new \in Member /\ new.q = r.q /\ new.p = p /\ new.a = a /\ new.body = body /\ new.day = d
  BY <1>1 DEF Member
<1>4. s \in Run
  <2>1. s.tries \in [Queries \X PageNumbers -> Nat]
    BY <1>1, <1>2 DEF Run
  <2>2. s.members \in SUBSET Member
    BY <1>1, <1>2, <1>3 DEF Run
  <2> HIDE DEF new, a, s
  <2> QED
    BY <1>1, <1>2, <2>1, <2>2 DEF Run
<1> HIDE DEF new, s
<1>5. \A m \in r.members : m \in Member
  BY <1>1 DEF Run
<1>6. \A m \in r.members : m.q = r.q /\ m.p = p => m.a < a
  BY <1>1, <1>5 DEF Core, Counted, Run, Member
<1>7. Counted(s)
  <2>1. ASSUME NEW m \in r.members
        PROVE  m.a <= s.tries[<<m.q, m.p>>]
    <3>1. m.a \in Nat /\ m.q \in Queries /\ m.p \in PageNumbers
          /\ m.a <= r.tries[<<m.q, m.p>>]
      BY <1>5 DEF Core, Counted, Member
    <3>2. CASE m.q = r.q /\ m.p = p
      <4>1. s.tries[<<m.q, m.p>>] = a
        BY <1>1, <1>2, <3>2 DEF Run
      <4> QED
        BY <1>1, <1>6, <3>1, <3>2, <4>1
    <3>3. CASE ~ (m.q = r.q /\ m.p = p)
      <4>1. s.tries[<<m.q, m.p>>] = r.tries[<<m.q, m.p>>]
        BY <1>1, <1>2, <3>1, <3>3 DEF Run
      <4> QED
        BY <3>1, <4>1
    <3> QED
      BY <3>2, <3>3
  <2>2. new.a <= s.tries[<<new.q, new.p>>]
    BY <1>1, <1>2, <1>3 DEF Run
  <2> QED
    BY <1>2, <2>1, <2>2 DEF Counted
<1>8. Distinct(s.members)
  BY <1>1, <1>2, <1>3, <1>5, <1>6 DEF Core, Distinct, Member
<1>9. Ordered(s.members)
  <2> SUFFICES ASSUME NEW qq \in Queries, NEW pp \in PageNumbers
               PROVE  /\ HasLast(OfPage(s.members, qq, pp))
                      /\ HasLast(Readable(s.members, qq, pp))
    BY DEF Ordered
  <2>1. HasLast(OfPage(r.members, qq, pp)) /\ HasLast(Readable(r.members, qq, pp))
    BY DEF Core, Ordered
  <2>2. CASE ~ (qq = r.q /\ pp = p)
    <3>1. OfPage(s.members, qq, pp) = OfPage(r.members, qq, pp)
      BY <1>2, <1>3, <2>2 DEF OfPage
    <3>2. Readable(s.members, qq, pp) = Readable(r.members, qq, pp)
      BY <1>2, <1>3, <2>2 DEF Readable
    <3> QED
      BY <2>1, <3>1, <3>2
  <2>3. CASE qq = r.q /\ pp = p
    <3>1. \A m \in OfPage(s.members, qq, pp) : m.a <= new.a
      BY <1>1, <1>2, <1>3, <1>5, <1>6, <2>3 DEF OfPage, Member
    <3>2. new \in OfPage(s.members, qq, pp)
      BY <1>2, <1>3, <2>3 DEF OfPage
    <3>3. HasLast(OfPage(s.members, qq, pp))
      BY <3>1, <3>2 DEF HasLast
    <3>4. CASE body.num = p
      <4>1. new \in Readable(s.members, qq, pp)
        BY <1>2, <1>3, <2>3, <3>4 DEF Readable
      <4>2. Readable(s.members, qq, pp) \subseteq OfPage(s.members, qq, pp)
        BY DEF Readable, OfPage
      <4> QED
        BY <3>1, <3>3, <4>1, <4>2 DEF HasLast
    <3>5. CASE body.num # p
      <4>1. Readable(s.members, qq, pp) = Readable(r.members, qq, pp)
        BY <1>2, <1>3, <2>3, <3>5 DEF Readable
      <4> QED
        BY <2>1, <3>3, <4>1
    <3> QED
      BY <3>4, <3>5
  <2> QED
    BY <2>2, <2>3
<1>10. Dated(s, d)
  BY <1>1, <1>2, <1>3, CollectionAssumption, SMTT(30) DEF Core, Dated, Run
<1>11. Backed(s)
  <2>1. r.members \subseteq s.members
    BY <1>2
  <2>2. \A q \in r.done \cup r.reused : Whole(s.members, q)
    BY <2>1, WholeGrows DEF Core, Backed
  <2>3. \A q \in Queries \ r.reused : Kept(s.members, q, r.pages[q])
    BY <2>1, KeptGrows DEF Core, Backed
  <2> QED
    BY <1>2, <2>2, <2>3 DEF Backed
<1>12. Core(s, d)
  BY <1>4, <1>7, <1>8, <1>9, <1>10, <1>11 DEF Core
<1>13. \E m \in s.members : m.q = r.q /\ m.p = p /\ m.body = body
  BY <1>2, <1>3
<1> QED
  BY <1>2, <1>12, <1>13 DEF s

\* Core says nothing of where a run is.
LEMMA CoreMoves ==
  ASSUME NEW d \in Nat, NEW r, Core(r, d), NEW s, s \in Run, s.members = r.members, s.tries = r.tries,
         s.reused = r.reused, s.pages = r.pages, s.done = r.done,
         s.observed = r.observed
  PROVE  Core(s, d)
BY DEF Core, Counted, Dated, Backed

\* No query is entered before its turn: moving on leaves an empty page list ahead.
LEMMA NextQueryIsSound ==
  ASSUME NEW d \in Nat, NEW r, Core(r, d), Later(r)
  PROVE  /\ Core(NextQuery(r), d) /\ Ahead(NextQuery(r))
         /\ NextQuery(r).pc = r.pc
<1> DEFINE s == NextQuery(r)
           next == r.q + 1
<1>1. r \in Run /\ next \in Nat /\ NextQuery(r) = [r EXCEPT !.q = next, !.attempt = 0]
  BY DEF Core, Run, NextQuery
<1> HIDE DEF next
<1>2. /\ s \in Run /\ s.q = next /\ s.members = r.members /\ s.tries = r.tries
      /\ s.reused = r.reused /\ s.pages = r.pages /\ s.done = r.done
      /\ s.observed = r.observed /\ s.pc = r.pc
  <2>1. [r EXCEPT !.q = next] \in Run
    BY <1>1 DEF Run
  <2>2. [[r EXCEPT !.q = next] EXCEPT !.attempt = 0] \in Run
    BY <2>1 DEF Run
  <2>3. [r EXCEPT !.q = next, !.attempt = 0] = [[r EXCEPT !.q = next] EXCEPT !.attempt = 0]
    OBVIOUS
  <2> QED
    BY <1>1, <2>2, <2>3 DEF Run
<1> HIDE DEF s
<1>3. Core(s, d)
  BY <1>2, CoreMoves
<1>4. Ahead(s)
  <2>1. r.q \in Nat /\ s.q = r.q + 1
    BY <1>1, <1>2 DEF Run, next
  <2>2. \A q \in Queries \ s.reused : q >= s.q => s.pages[q] = <<>>
    BY <1>2, <2>1 DEF Later, Queries
  <2> QED
    BY <2>1, <2>2 DEF Ahead, Later, Room, Queries
<1> QED
  BY <1>2, <1>3, <1>4 DEF s

LEMMA StoppedIsSound ==
  ASSUME NEW d \in Nat, NEW r, Core(r, d), Later(r),
         r.pc = "collect"
  PROVE  /\ Core(Stopped(r), d) /\ Ahead(Stopped(r))
         /\ Stopped(r).pc \in {"collect", "put"}
<1>1. CASE ~ r.stop
  BY <1>1, NextQueryIsSound DEF Stopped
<1>2. CASE r.stop
  <2> DEFINE s == [r EXCEPT !.pc = "put"]
  <2>1. r \in Run
    BY DEF Core
  <2>2. /\ s \in Run /\ s.q = r.q /\ s.members = r.members /\ s.tries = r.tries
        /\ s.reused = r.reused /\ s.pages = r.pages /\ s.done = r.done
        /\ s.observed = r.observed /\ s.pc = "put"
    BY <2>1 DEF Run
  <2>3. Stopped(r) = s
    BY <1>2 DEF Stopped
  <2> HIDE DEF s
  <2>4. Core(s, d)
    BY <2>2, CoreMoves
  <2>5. Ahead(s)
    BY <2>2 DEF Ahead, Later
  <2> QED
    BY <2>2, <2>3, <2>4, <2>5
<1> QED
  BY <1>1, <1>2

LEMMA RetriedIsSound ==
  ASSUME NEW d \in Nat, NEW r, Core(r, d), Ahead(r), r.pc = "collect"
  PROVE  /\ Core(Retried(r), d) /\ Ahead(Retried(r))
         /\ Retried(r).pc \in {"collect", "put"}
<1>1. CASE r.attempt + 1 = Attempts
  BY <1>1, StoppedIsSound DEF Retried, Ahead
<1>2. CASE r.attempt + 1 # Attempts
  <2> DEFINE n == r.attempt + 1
             s == [r EXCEPT !.attempt = n]
  <2>1. r \in Run /\ n \in Nat
    BY DEF Core, Run
  <2> HIDE DEF n
  <2>2. /\ s \in Run /\ s.q = r.q /\ s.members = r.members /\ s.tries = r.tries
        /\ s.reused = r.reused /\ s.pages = r.pages /\ s.done = r.done
        /\ s.observed = r.observed /\ s.pc = r.pc
    BY <2>1 DEF Run
  <2>3. Retried(r) = s
    BY <1>2 DEF Retried, n
  <2> HIDE DEF s
  <2>4. Core(s, d)
    BY <2>2, CoreMoves
  <2>5. Ahead(s)
    BY <2>2 DEF Ahead, Later
  <2> QED
    BY <2>2, <2>3, <2>4, <2>5
<1> QED
  BY <1>1, <1>2

LEMMA CompletedIsSound ==
  ASSUME NEW d \in Nat, NEW r, Core(r, d), Later(r), r.pc = "collect", r.q \in Queries,
         Whole(r.members, r.q)
  PROVE  /\ Core(Completed(r), d) /\ Ahead(Completed(r))
         /\ Completed(r).pc = "collect"
<1> DEFINE new == r.done \cup {r.q}
           s == [r EXCEPT !.done = new]
<1>1. r \in Run /\ new \in SUBSET Queries
  BY DEF Core, Run
<1>2. \A q \in new \cup r.reused : Whole(r.members, q)
  BY DEF Core, Backed
<1> HIDE DEF new
<1>3. /\ s \in Run /\ s.q = r.q /\ s.members = r.members /\ s.tries = r.tries
      /\ s.reused = r.reused /\ s.pages = r.pages /\ s.done = new
      /\ s.observed = r.observed /\ s.pc = r.pc
  BY <1>1 DEF Run
<1>4. Completed(r) = NextQuery(s)
  BY DEF Completed, new
<1> HIDE DEF s
<1>5. Backed(s)
  BY <1>2, <1>3 DEF Core, Backed
<1>6. Core(s, d) /\ Later(s)
  BY <1>3, <1>5 DEF Core, Counted, Dated, Later
<1> QED
  BY <1>3, <1>4, <1>6, NextQueryIsSound

LEMMA WithPageIsSound ==
  ASSUME NEW d \in Nat, NEW r, Core(r, d), Later(r), r.q \in Queries \ r.reused,
         NEW page \in Pages, NEW p, p = Len(r.pages[r.q]) + 1,
         p > 1 => page.num = p /\ page.total = r.pages[r.q][1].total,
         \E m \in r.members : m.q = r.q /\ m.p = p /\ m.body = page
  PROVE  LET s == WithPage(r, page)
         IN /\ Core(s, d) /\ Later(s)
            /\ s.pc = r.pc /\ s.q = r.q /\ s.reused = r.reused /\ s.members = r.members
            /\ s.pages[r.q] = Append(r.pages[r.q], page)
<1> DEFINE new == Append(r.pages[r.q], page)
           pages == [r.pages EXCEPT ![r.q] = new]
           s == WithPage(r, page)
<1>1. r \in Run /\ r.pages[r.q] \in Seq(Pages) /\ new \in Seq(Pages)
      /\ pages \in [Queries -> Seq(Pages)]
  BY DEF Core, Run
<1>2. pages[r.q] = new /\ \A q \in Queries \ {r.q} : pages[q] = r.pages[q]
  BY <1>1 DEF Run
<1>3. Kept(r.members, r.q, new)
  <2>1. Kept(r.members, r.q, r.pages[r.q])
    BY DEF Core, Backed
  <2> SUFFICES ASSUME NEW i \in DOMAIN new
               PROVE  /\ new[i].total = new[1].total /\ (i > 1 => new[i].num = i)
                      /\ \E m \in r.members : m.q = r.q /\ m.p = i /\ m.body = new[i]
    BY DEF Kept
  <2>2. Len(new) = p /\ new[p] = page /\ p \in Nat \ {0} /\ i \in 1..p
        /\ \A j \in 1..(p - 1) : new[j] = r.pages[r.q][j]
    BY <1>1
  <2> HIDE DEF new
  <2>3. CASE i = p
    BY <2>2, <2>3, SMTT(30)
  <2>4. CASE i # p
    <3>1. i \in DOMAIN r.pages[r.q] /\ new[i] = r.pages[r.q][i] /\ new[1] = r.pages[r.q][1]
      BY <1>1, <2>2, <2>4, SMTT(30)
    <3> QED
      BY <2>1, <3>1 DEF Kept
  <2> QED
    BY <2>3, <2>4
<1>4. WithPage(r, page) = [r EXCEPT !.pages = pages, !.attempt = 0]
  BY DEF WithPage
<1> HIDE DEF new, pages
<1>5. /\ s \in Run /\ s.q = r.q /\ s.members = r.members /\ s.tries = r.tries
      /\ s.reused = r.reused /\ s.pages = pages /\ s.done = r.done
      /\ s.observed = r.observed /\ s.pc = r.pc
  <2>1. [r EXCEPT !.pages = pages] \in Run
    BY <1>1 DEF Run
  <2>2. [[r EXCEPT !.pages = pages] EXCEPT !.attempt = 0] \in Run
    BY <2>1 DEF Run
  <2>3. [r EXCEPT !.pages = pages, !.attempt = 0]
          = [[r EXCEPT !.pages = pages] EXCEPT !.attempt = 0]
    OBVIOUS
  <2> QED
    BY <1>1, <1>4, <2>2, <2>3 DEF Run
<1> HIDE DEF s
<1>6. Backed(s)
  BY <1>2, <1>3, <1>5 DEF Core, Backed
<1>7. Core(s, d)
  BY <1>5, <1>6 DEF Core, Counted, Dated
<1>8. Later(s)
  BY <1>1, <1>2, <1>5 DEF Later, Queries
<1> QED
  BY <1>2, <1>5, <1>7, <1>8 DEF s, new

LEMMA AskedIsInRange ==
  ASSUME NEW pages \in Seq(Pages), Room(pages)
  PROVE  Len(pages) + 1 \in PageNumbers
<1>1. CASE pages = <<>>
  BY <1>1, CollectionAssumption DEF PageNumbers
<1>2. CASE pages # <<>>
  <2>1. pages[1].total \in Nat
    BY <1>2, PagesTyped
  <2>2. PageCount(pages[1].total) \in Nat
    BY <2>1, PageCountPositive
  <2>3. Len(pages) < PageCount(pages[1].total) /\ PageCount(pages[1].total) <= MaximumPages
    BY <1>2 DEF Room
  <2> QED
    BY <2>2, <2>3, CollectionAssumption DEF PageNumbers
<1> QED
  BY <1>1, <1>2

LEMMA AcceptedIsSound ==
  ASSUME NEW d \in Nat, NEW r, Core(r, d), Ahead(r), r.pc = "collect",
         r.q \in Queries \ r.reused, NEW page \in Pages,
         NEW p, p = Len(r.pages[r.q]) + 1,
         \E m \in r.members : m.q = r.q /\ m.p = p /\ m.body = page
  PROVE  /\ Core(Accepted(r, p, page), d) /\ Ahead(Accepted(r, p, page))
         /\ Accepted(r, p, page).pc \in {"collect", "put"}
<1>0. ASSUME p > 1 => page.num = p /\ page.total = r.pages[r.q][1].total
      PROVE  /\ Core(WithPage(r, page), d) /\ Later(WithPage(r, page))
             /\ WithPage(r, page).pc = "collect" /\ WithPage(r, page).q = r.q
             /\ WithPage(r, page).reused = r.reused
             /\ WithPage(r, page).members = r.members
             /\ WithPage(r, page).pages[r.q] = Append(r.pages[r.q], page)
  BY <1>0, WithPageIsSound DEF Ahead
<1> DEFINE pages == r.pages[r.q]
           first == IF p = 1 THEN page ELSE pages[1]
           n == PageCount(first.total)
           s == WithPage(r, page)
<1>1. pages \in Seq(Pages) /\ p \in Nat \ {0} /\ first \in Pages /\ Later(r) /\ Room(pages)
  <2>1. pages \in Seq(Pages)
    BY DEF Core, Run
  <2> QED
    BY <2>1 DEF Ahead
<1>2. n \in Nat \ {0} /\ first.total \in Nat
  BY <1>1, PagesTyped, PageCountPositive
<1>3. Accepted(r, p, page) =
        IF p = 1 /\ n > MaximumPages THEN Stopped(s)
        ELSE IF p > 1 /\ (page.num # p \/ page.total # first.total) THEN Stopped(r)
        ELSE IF p = n THEN Completed(s) ELSE s
  BY DEF Accepted
<1>4. ASSUME p > 1 => page.num = p /\ page.total = first.total
      PROVE  /\ Core(s, d) /\ Later(s) /\ s.pc = "collect" /\ s.q = r.q
             /\ s.reused = r.reused /\ s.members = r.members
             /\ s.pages[r.q] = Append(pages, page)
  <2>1. p > 1 => page.num = p /\ page.total = r.pages[r.q][1].total
    BY <1>1, <1>4
  <2> QED
    BY <1>0, <2>1
<1>5. CASE p = 1 /\ n > MaximumPages
  BY <1>3, <1>4, <1>5, StoppedIsSound
<1>6. CASE p > 1 /\ (page.num # p \/ page.total # first.total)
  BY <1>1, <1>3, <1>6, StoppedIsSound
<1>7. CASE ~ (p = 1 /\ n > MaximumPages)
           /\ ~ (p > 1 /\ (page.num # p \/ page.total # first.total))
  <2>1. /\ Core(s, d) /\ Later(s) /\ s.pc = "collect" /\ s.q = r.q
        /\ s.reused = r.reused /\ s.members = r.members
        /\ s.pages[r.q] = Append(pages, page)
    BY <1>1, <1>4, <1>7
  <2>2. s.pages[r.q][1] = first /\ Len(s.pages[r.q]) = p
    BY <1>1, <2>1
  <2>3. CASE p = n
    <3>1. Accepted(r, p, page) = Completed(s)
      BY <1>3, <1>7, <2>3
    <3>2. Kept(s.members, s.q, s.pages[r.q])
      BY <2>1 DEF Core, Backed
    <3>3. \A i \in 1..n : s.pages[r.q][i] \in Pages
      BY <1>1, <2>1, <2>2, <2>3, SMTT(30)
    <3>4. WholeWith(s.members, s.q, first.total)
      <4> DEFINE read == s.pages[r.q]
      <4>1. \A i \in 1..n : i \in DOMAIN read /\ read[i] \in Pages /\ read[1] = first
        BY <1>1, <1>2, <2>1, <2>2, <2>3, <3>3
      <4> HIDE DEF read, s, first
      <4>2. Kept(s.members, s.q, read)
        BY <3>2 DEF read
      <4>3. ASSUME NEW i \in 1..n
            PROVE  \E m \in s.members :
                     /\ m.q = s.q /\ m.p = i /\ m.body # Rejected
                     /\ m.body.total = first.total /\ (i > 1 => m.body.num = i)
        <5>1. read[i].total = first.total /\ (i > 1 => read[i].num = i) /\ read[i] # Rejected
          BY <4>1, <4>2, PagesTyped DEF Kept
        <5> QED
          BY <4>1, <4>2, <5>1 DEF Kept
      <4> QED
        BY <4>3 DEF WholeWith
    <3>5. Whole(s.members, s.q)
      BY <1>1, <3>4, PagesTyped DEF Whole
    <3> HIDE DEF s
    <3> QED
      BY <2>1, <3>1, <3>5, CompletedIsSound
  <2>4. CASE p # n
    <3>1. Accepted(r, p, page) = s
      BY <1>3, <1>7, <2>4
    <3>2. p < n /\ n <= MaximumPages
      BY <1>1, <1>2, <1>7, <2>4, CollectionAssumption, SMTT(30) DEF Room, PageNumbers
    <3>3. Room(s.pages[r.q])
      BY <2>2, <3>2 DEF Room
    <3>4. Ahead(s)
      BY <2>1, <3>3 DEF Ahead
    <3> QED
      BY <2>1, <3>1, <3>4
  <2> QED
    BY <2>3, <2>4
<1> QED
  BY <1>5, <1>6, <1>7

--------------------------------------------------------------------------------
\* What a resume takes over from a sound archive.

LEMMA LatestPageIsStored ==
  ASSUME NEW ms \in SUBSET Member, NEW q, NEW p \in Nat \ {0},
         HasLast(Readable(ms, q, p)), Readable(ms, q, p) # {}
  PROVE  /\ LatestPage(ms, q, p) \in Pages /\ LatestPage(ms, q, p).num = p
         /\ p \in PageNumbers
         /\ \E m \in ms : m.q = q /\ m.p = p /\ m.body = LatestPage(ms, q, p)
<1> DEFINE last == CHOOSE m \in Readable(ms, q, p) : \A n \in Readable(ms, q, p) : n.a <= m.a
<1>1. last \in Readable(ms, q, p)
  BY DEF HasLast
<1>2. LatestPage(ms, q, p) = last.body
  BY DEF LatestPage
<1> HIDE DEF last
<1>3. last \in ms /\ last.q = q /\ last.p = p /\ last.body.num = p
  BY <1>1 DEF Readable
<1>4. last.body \in Pages
  BY <1>3 DEF Member, Bodies, Rejected
<1>5. p \in PageNumbers
  BY <1>3 DEF Member
<1> QED
  BY <1>2, <1>3, <1>4, <1>5

LEMMA LatestPagesAreStored ==
  ASSUME NEW ms \in SUBSET Member, Ordered(ms), NEW q \in Queries, HasAllPages(ms, q)
  PROVE  /\ Whole(ms, q)
         /\ CompletedPages(ms, q) \in Seq(Pages)
<1> DEFINE total == LatestPage(ms, q, 1).total
<1>1. 1 \in PageNumbers
  BY CollectionAssumption DEF PageNumbers
<1>2. LatestPage(ms, q, 1) \in Pages
  BY <1>1, LatestPageIsStored DEF Ordered, HasAllPages
<1>3. total \in Nat /\ PageCount(total) \in Nat \ {0}
  BY <1>2, PagesTyped, PageCountPositive
<1>4. ASSUME NEW p \in 1..PageCount(total)
      PROVE  /\ LatestPage(ms, q, p) \in Pages /\ LatestPage(ms, q, p).num = p
             /\ LatestPage(ms, q, p).total = total
             /\ \E m \in ms : m.q = q /\ m.p = p /\ m.body = LatestPage(ms, q, p)
  <2>1. Readable(ms, q, p) # {} /\ LatestPage(ms, q, p).total = total
    BY <1>4 DEF HasAllPages
  <2>2. p \in PageNumbers
    <3>1. PICK m \in Readable(ms, q, p) : TRUE
      BY <2>1
    <3> QED
      BY <3>1 DEF Readable, Member
  <2>3. HasLast(Readable(ms, q, p)) /\ p \in Nat \ {0}
    BY <1>3, <2>2 DEF Ordered
  <2> QED
    BY <2>1, <2>3, LatestPageIsStored
<1>5. WholeWith(ms, q, total)
  BY <1>4, PagesTyped DEF WholeWith
<1>6. Whole(ms, q)
  BY <1>2, <1>5, PagesTyped DEF Whole
<1>7. CompletedPages(ms, q) = [p \in 1..PageCount(total) |-> LatestPage(ms, q, p)]
  BY DEF CompletedPages
<1> HIDE DEF total
<1>8. CompletedPages(ms, q) \in Seq(Pages)
  BY <1>3, <1>4, <1>7
<1> QED
  BY <1>6, <1>8

LEMMA TriesAreCounted ==
  ASSUME NEW ms \in SUBSET Member, Ordered(ms)
  PROVE  /\ TriesOf(ms) \in [Queries \X PageNumbers -> Nat]
         /\ \A m \in ms : m.a <= TriesOf(ms)[<<m.q, m.p>>]
<1> DEFINE made(qp) == {m.a : m \in {n \in ms : <<n.q, n.p>> = qp}}
           tries(qp) == IF made(qp) = {} THEN 0
                        ELSE CHOOSE a \in made(qp) : \A b \in made(qp) : b <= a
<1>1. TriesOf(ms) = [qp \in Queries \X PageNumbers |-> tries(qp)]
  BY DEF TriesOf
<1>2. ASSUME NEW q \in Queries, NEW p \in PageNumbers
      PROVE  /\ tries(<<q, p>>) \in Nat
             /\ \A a \in made(<<q, p>>) : a <= tries(<<q, p>>)
  <2>1. CASE made(<<q, p>>) = {}
    BY <2>1
  <2>2. CASE made(<<q, p>>) # {}
    <3>1. \A m \in ms : <<m.q, m.p>> = <<q, p>> <=> m \in OfPage(ms, q, p)
      BY DEF OfPage
    <3>2. made(<<q, p>>) = {m.a : m \in OfPage(ms, q, p)}
      BY <3>1 DEF OfPage
    <3>3. \E m \in OfPage(ms, q, p) : \A n \in OfPage(ms, q, p) : n.a <= m.a
      BY <2>2, <3>2 DEF Ordered, HasLast
    <3>4. \E a \in made(<<q, p>>) : \A b \in made(<<q, p>>) : b <= a
      BY <3>2, <3>3
    <3>5. made(<<q, p>>) \subseteq Nat
      BY DEF Member
    <3> HIDE DEF made
    <3> QED
      BY <2>2, <3>4, <3>5
  <2> QED
    BY <2>1, <2>2
<1>3. ASSUME NEW m \in ms
      PROVE  m.q \in Queries /\ m.p \in PageNumbers /\ m.a \in made(<<m.q, m.p>>)
  BY DEF Member
<1> HIDE DEF made, tries
<1>4. TriesOf(ms) \in [Queries \X PageNumbers -> Nat]
  BY <1>1, <1>2
<1> QED
  BY <1>1, <1>2, <1>3, <1>4

LEMMA ResumedIsSound ==
  ASSUME TypeOK, NEW i \in DOMAIN archives, Sound(archives[i], today), Resumable(i),
         StartResumed(i)
  PROVE  Core(run', today) /\ Ahead(run') /\ run'.pc = "collect"
<1> DEFINE ms == archives[i].members
           reused == {q \in Queries : HasAllPages(ms, q)}
           pages == [q \in Queries |-> IF HasAllPages(ms, q) THEN CompletedPages(ms, q) ELSE <<>>]
           tries == TriesOf(ms)
           observed == archives[i].observed
<1>1. archives[i] \in Archive /\ ms \in SUBSET Member /\ today \in Nat
  <2>1. archives[i] \in Archive /\ today \in Nat
    BY DEF TypeOK
  <2> QED
    BY <2>1 DEF Archive
<1>2. /\ Distinct(ms) /\ Ordered(ms) /\ observed \in Nat /\ observed <= today
      /\ \A m \in ms : observed <= m.day
      /\ today - observed <= FreshnessDays
  BY DEF Sound, Resumable
<1>3. tries \in [Queries \X PageNumbers -> Nat] /\ \A m \in ms : m.a <= tries[<<m.q, m.p>>]
  BY <1>1, <1>2, TriesAreCounted
<1>4. reused \in SUBSET Queries /\ \A q \in reused : Whole(ms, q)
  BY <1>1, <1>2, LatestPagesAreStored
<1>5. pages \in [Queries -> Seq(Pages)] /\ \A q \in Queries \ reused : pages[q] = <<>>
  BY <1>1, <1>2, LatestPagesAreStored
<1>6. PICK stop \in BOOLEAN :
        run' = [Idle EXCEPT !.pc = "collect", !.stop = stop, !.members = ms, !.tries = tries,
                  !.observed = observed, !.reused = reused, !.pages = pages]
  BY DEF StartResumed
<1> HIDE DEF ms, reused, pages, tries, observed
<1>7. /\ run'.pc = "collect" /\ run'.stop = stop /\ run'.members = ms
      /\ run'.tries = tries /\ run'.observed = observed /\ run'.reused = reused
      /\ run'.pages = pages /\ run'.q = 1 /\ run'.attempt = 0 /\ run'.done = {}
      /\ run' = [pc |-> "collect", stop |-> stop, members |-> ms, tries |-> tries,
                 reused |-> reused, q |-> 1, attempt |-> 0, pages |-> pages, done |-> {},
                 observed |-> observed]
  BY <1>6 DEF Idle
<1>8. run' \in Run
  BY <1>1, <1>2, <1>3, <1>4, <1>5, <1>7 DEF Run
<1>9. Counted(run') /\ Distinct(run'.members) /\ Ordered(run'.members)
  BY <1>2, <1>3, <1>7 DEF Counted
<1>10. Dated(run', today)
  <2>1. ASSUME NEW m \in ms
        PROVE  today - m.day <= FreshnessDays
    BY <1>1, <1>2, CollectionAssumption DEF Member
  <2> QED
    BY <1>1, <1>2, <1>7, <2>1 DEF Dated
<1>11. Backed(run')
  BY <1>4, <1>5, <1>7 DEF Backed, Kept
<1>12. Ahead(run')
  BY <1>5, <1>7 DEF Ahead, Later, Room
<1> QED
  BY <1>7, <1>8, <1>9, <1>10, <1>11, <1>12 DEF Core

--------------------------------------------------------------------------------
\* The invariant.

LEMMA InitIInv == Init => IInv
<1> SUFFICES ASSUME Init PROVE IInv
  OBVIOUS
<1>1. today \in Nat /\ run = Idle /\ archives = <<>> /\ runs = 0 /\ faults = 0 /\ edits = 0
      /\ source \in [Queries -> Versions]
  BY DEF Init
<1>2. Core(run, today) /\ Ahead(run) /\ run.pc = "idle"
  BY <1>1, IdleIsSound DEF Idle
<1>3. TypeOK
  BY <1>1, <1>2 DEF TypeOK, Core
<1>4. Stored /\ Spent
  BY <1>1, <1>2, CollectionAssumption DEF Stored, Spent
<1> QED
  BY <1>1, <1>2, <1>3, <1>4 DEF IInv

\* A step of a run that goes on collecting, or is about to store its archive.
LEMMA CollectingStep ==
  ASSUME IInv, run.pc = "collect", run'.pc \in {"collect", "put"},
         Core(run', today), Ahead(run'), faults' \in Nat,
         UNCHANGED <<source, today, archives, runs, edits>>
  PROVE  IInv'
<1>1. TypeOK'
  BY DEF IInv, TypeOK, Core
<1>2. Core(run, today)' /\ Ahead(run)'
  <2>1. Core(run', today')
    OBVIOUS
  <2> QED
    BY <2>1
<1>3. Stored' /\ Spent'
  BY DEF IInv, Stored, Spent
<1>4. (\A i \in DOMAIN archives : Sound(archives[i], today))'
  BY DEF IInv
<1> QED
  BY <1>1, <1>2, <1>3, <1>4 DEF IInv

\* A run that starts, fresh or resumed.
LEMMA StartingStep ==
  ASSUME IInv, run.pc = "idle", run'.pc = "collect", runs < MaxRuns, runs' = runs + 1,
         Core(run', today), Ahead(run'), UNCHANGED <<source, today, archives, faults, edits>>
  PROVE  IInv'
<1>1. TypeOK'
  BY DEF IInv, TypeOK, Core
<1>2. Core(run, today)' /\ Ahead(run)'
  <2>1. Core(run', today')
    OBVIOUS
  <2> QED
    BY <2>1
<1>3. Stored' /\ Spent'
  BY CollectionAssumption DEF IInv, Stored, Spent, TypeOK
<1>4. (\A i \in DOMAIN archives : Sound(archives[i], today))'
  BY DEF IInv
<1> QED
  BY <1>1, <1>2, <1>3, <1>4 DEF IInv

LEMMA StartFreshKeeps == IInv /\ StartFresh => IInv'
<1> SUFFICES ASSUME IInv, StartFresh PROVE IInv'
  OBVIOUS
<1>1. PICK stop \in BOOLEAN : run' = [Idle EXCEPT !.pc = "collect", !.stop = stop]
  BY DEF StartFresh
<1>2. /\ run'.pc = "collect" /\ run'.members = {} /\ run'.tries = Idle.tries
      /\ run'.reused = {} /\ run'.q = 1 /\ run'.pages = Idle.pages /\ run'.done = {}
      /\ run'.observed = -1
      /\ Idle.members = {} /\ Idle.reused = {} /\ Idle.done = {} /\ Idle.observed = -1
      /\ \A q \in Queries : Idle.pages[q] = <<>>
  BY <1>1 DEF Idle
<1>3. Core(Idle, today) /\ today \in Nat
  BY IdleIsSound DEF IInv, TypeOK
<1>4. run' \in Run
  <2>1. Idle \in Run
    BY <1>3 DEF Core
  <2>2. [Idle EXCEPT !.pc = "collect"] \in Run
    BY <2>1 DEF Run
  <2>3. [[Idle EXCEPT !.pc = "collect"] EXCEPT !.stop = stop] \in Run
    BY <2>2 DEF Run
  <2> QED
    BY <1>1, <2>3
<1>5. Core(run', today)
  <2>1. /\ run'.members = Idle.members /\ run'.tries = Idle.tries
        /\ run'.reused = Idle.reused /\ run'.pages = Idle.pages
        /\ run'.done = Idle.done /\ run'.observed = Idle.observed
    BY <1>2, ZenonT(60)
  <2> DEFINE new == run'
             was == Idle
  <2> HIDE DEF new, was
  <2>2. Core(was, today) /\ new \in Run
    BY <1>3, <1>4 DEF new, was
  <2>3. /\ new.members = was.members /\ new.tries = was.tries /\ new.reused = was.reused
        /\ new.pages = was.pages /\ new.done = was.done /\ new.observed = was.observed
    BY <2>1 DEF new, was
  <2>4. Core(new, today)
    BY <1>3, <2>2, <2>3, CoreMoves, ZenonT(60)
  <2> QED
    BY <2>4 DEF new
<1>6. Ahead(run')
  <2> DEFINE new == run'
  <2>1. /\ new.pc = "collect" /\ new.members = {} /\ new.reused = {} /\ new.q = 1
        /\ \A q \in Queries : new.pages[q] = <<>>
    BY <1>2, ZenonT(60)
  <2> HIDE DEF new
  <2>2. Ahead(new)
    BY <2>1, SMTT(30) DEF Ahead, Later, Room
  <2> QED
    BY <2>2 DEF new
<1>7. /\ run.pc = "idle" /\ runs < MaxRuns /\ runs' = runs + 1
      /\ UNCHANGED <<source, today, archives, faults, edits>>
  BY DEF StartFresh
<1> QED
  BY <1>2, <1>5, <1>6, <1>7, StartingStep, ZenonT(60)

LEMMA StartResumedKeeps ==
  ASSUME IInv, NEW i \in DOMAIN archives, StartResumed(i)
  PROVE  IInv'
<1>1. Core(run', today) /\ Ahead(run') /\ run'.pc = "collect"
  BY ResumedIsSound DEF IInv, StartResumed
<1>2. /\ run.pc = "idle" /\ runs < MaxRuns /\ runs' = runs + 1
      /\ UNCHANGED <<source, today, archives, faults, edits>>
  BY DEF StartResumed
<1> QED
  BY <1>1, <1>2, StartingStep, ZenonT(60)

LEMMA TakeOverKeeps == IInv /\ TakeOver => IInv'
<1> SUFFICES ASSUME IInv, TakeOver PROVE IInv'
  OBVIOUS
<1>1. /\ run.pc = "collect" /\ run.q \in Queries /\ run.q \in run.reused
      /\ run' = Completed(run) /\ UNCHANGED <<source, today, archives, runs, faults, edits>>
  BY DEF TakeOver, Collecting, bounds
<1>2. Core(run, today) /\ Later(run) /\ today \in Nat /\ faults \in Nat
  BY DEF IInv, Ahead, TypeOK
<1>3. Whole(run.members, run.q)
  BY <1>1, <1>2 DEF Core, Backed
<1>4. Core(run', today) /\ Ahead(run') /\ run'.pc = "collect"
  BY <1>1, <1>2, <1>3, CompletedIsSound
<1> QED
  BY <1>1, <1>2, <1>4, CollectingStep

\* What holds when a page is asked for.
LEMMA FetchingFacts ==
  ASSUME IInv, Fetching
  PROVE  /\ run.pc = "collect" /\ run.q \in Queries \ run.reused
         /\ Core(run, today) /\ Ahead(run) /\ today \in Nat
         /\ Asked \in PageNumbers /\ Asked = Len(run.pages[run.q]) + 1
<1>1. run.pc = "collect" /\ run.q \in Queries \ run.reused
  BY DEF Fetching, Collecting
<1>2. run.pages[run.q] \in Seq(Pages) /\ Room(run.pages[run.q])
  BY <1>1 DEF IInv, Core, Run, Ahead
<1> QED
  BY <1>1, <1>2, AskedIsInRange DEF IInv, TypeOK, Asked

LEMMA AnswerPageKeeps ==
  ASSUME IInv, NEW num \in PageNumbers, AnswerPage(num)
  PROVE  IInv'
<1> DEFINE v == source[run.q]
           page == [num |-> num, total |-> Total[v], ver |-> v]
           r == Archived(run, Asked, page)
<1>1. Fetching
  BY DEF AnswerPage
<1>2. page \in Pages
  BY <1>1, FetchingFacts DEF IInv, TypeOK, Pages
<1>3. run' = Accepted(r, Asked, page) /\ faults' \in {faults, faults + 1}
      /\ UNCHANGED <<source, today, archives, runs, edits>>
  BY DEF AnswerPage
<1> HIDE DEF page
<1>4. /\ Core(r, today) /\ r.pages = run.pages /\ r.pc = "collect" /\ r.q = run.q
      /\ r.reused = run.reused
      /\ \E m \in r.members : m.q = r.q /\ m.p = Asked /\ m.body = page
  BY <1>1, <1>2, FetchingFacts, ArchivedIsSound DEF Bodies
<1> HIDE DEF r
<1>5. Ahead(r)
  BY <1>1, <1>4, FetchingFacts DEF Ahead, Later
<1>6. Core(run', today) /\ Ahead(run') /\ run'.pc \in {"collect", "put"}
  BY <1>1, <1>2, <1>3, <1>4, <1>5, FetchingFacts, AcceptedIsSound
<1>7. faults' \in Nat
  BY <1>3 DEF IInv, TypeOK
<1> QED
  BY <1>1, <1>3, <1>6, <1>7, FetchingFacts, CollectingStep

LEMMA FaultKeeps ==
  ASSUME IInv, AnswerRejected \/ AnswerLost \/ AnswerRefused
  PROVE  IInv'
<1>1. Fetching /\ faults' = faults + 1 /\ UNCHANGED <<source, today, archives, runs, edits>>
  BY DEF AnswerRejected, AnswerLost, AnswerRefused, Fault
<1>2. faults' \in Nat
  BY <1>1 DEF IInv, TypeOK
<1>3. Core(run', today) /\ Ahead(run') /\ run'.pc \in {"collect", "put"}
  <2>1. CASE AnswerRejected
    <3> DEFINE r == Archived(run, Asked, Rejected)
    <3>1. /\ Core(r, today) /\ r.pages = run.pages /\ r.pc = "collect" /\ r.q = run.q
          /\ r.reused = run.reused
      BY <1>1, FetchingFacts, ArchivedIsSound DEF Bodies
    <3>2. run' = Retried(r)
      BY <2>1 DEF AnswerRejected, Fault
    <3> HIDE DEF r
    <3>3. Ahead(r)
      BY <1>1, <3>1, FetchingFacts DEF Ahead, Later
    <3> QED
      BY <1>1, <3>1, <3>2, <3>3, FetchingFacts, RetriedIsSound
  <2>2. CASE AnswerLost
    BY <1>1, <2>2, FetchingFacts, RetriedIsSound DEF AnswerLost, Fault
  <2>3. CASE AnswerRefused
    <3>1. Later(run)
      BY <1>1, FetchingFacts DEF Ahead
    <3> QED
      BY <1>1, <2>3, <3>1, FetchingFacts, StoppedIsSound DEF AnswerRefused, Fault
  <2> QED
    BY <2>1, <2>2, <2>3
<1> QED
  BY <1>1, <1>2, <1>3, FetchingFacts, CollectingStep

LEMMA PutObjectKeeps == IInv /\ PutObject => IInv'
<1> SUFFICES ASSUME IInv, PutObject PROVE IInv'
  OBVIOUS
<1> DEFINE r == [run EXCEPT !.pc = "register"]
<1>1. /\ run.pc \in {"collect", "put"} /\ archives' = Append(archives, Unregistered)
      /\ run' = r /\ UNCHANGED <<source, today, runs, faults, edits>>
  BY DEF PutObject, bounds
<1>2. run \in Run /\ Core(run, today) /\ Ahead(run) /\ today \in Nat /\ archives \in Seq(Archive)
  BY DEF IInv, Core, TypeOK
<1>3. /\ r \in Run /\ r.q = run.q /\ r.members = run.members /\ r.tries = run.tries
      /\ r.reused = run.reused /\ r.pages = run.pages /\ r.done = run.done
      /\ r.observed = run.observed /\ r.pc = "register"
  BY <1>2 DEF Run
<1> HIDE DEF r
<1>4. Core(r, today) /\ Ahead(r)
  BY <1>2, <1>3, CoreMoves DEF Ahead, Later
<1>5. Unregistered \in Archive /\ Unregistered.members = run.members
      /\ Unregistered.status = "stored"
  BY <1>2 DEF Unregistered, Archive, Run
<1>6. /\ archives' \in Seq(Archive) /\ Len(archives') = Len(archives) + 1
      /\ archives'[Len(archives')] = Unregistered
      /\ \A i \in DOMAIN archives : archives'[i] = archives[i]
      /\ DOMAIN archives' = DOMAIN archives \cup {Len(archives')}
  BY <1>1, <1>2, <1>5
<1>7. Sound(Unregistered, today)
  BY <1>2, <1>5 DEF Core, Sound
<1>8. TypeOK'
  BY <1>1, <1>3, <1>6 DEF IInv, TypeOK
<1>9. Core(run, today)' /\ Ahead(run)'
  <2>1. Core(run', today') /\ Ahead(run')
    BY <1>1, <1>4
  <2> QED
    BY <2>1
<1>10. Unregistered' = Unregistered
  BY <1>1, <1>3 DEF Unregistered
<1>11. Stored'
  BY <1>2, <1>6, <1>10 DEF Stored
<1>12. Spent'
  BY <1>1, <1>2, <1>3, <1>6 DEF IInv, Spent
<1>13. (\A i \in DOMAIN archives : Sound(archives[i], today))'
  <2>1. \A i \in DOMAIN archives' : Sound(archives'[i], today')
    BY <1>1, <1>6, <1>7 DEF IInv
  <2> QED
    BY <2>1
<1> QED
  BY <1>1, <1>3, <1>8, <1>9, <1>11, <1>12, <1>13 DEF IInv

LEMMA EntersArchive ==
  ASSUME NEW b \in Archive, NEW s \in {"ACQUIRED", "INCOMPLETE"}, NEW d \in Int
  PROVE  [b EXCEPT !.status = s, !.observed = d] \in Archive
  BY DEF Archive

LEMMA RegisterKeeps == IInv /\ Register => IInv'
<1> SUFFICES ASSUME IInv, Register PROVE IInv'
  OBVIOUS
<1> DEFINE o == Len(archives)
           status == StatusOf(run)
           observed == ObservedOf(run)
           a == [archives[o] EXCEPT !.status = status, !.observed = observed]
<1>1. /\ run.pc = "register" /\ run' = Idle /\ UNCHANGED <<source, today, runs, faults, edits>>
      /\ archives' = [archives EXCEPT ![o].status = status, ![o].observed = observed]
  BY DEF Register, bounds
<1>2. run \in Run /\ Core(run, today) /\ today \in Nat /\ archives \in Seq(Archive)
      /\ archives # <<>> /\ archives[o] = Unregistered
  BY <1>1 DEF IInv, Core, TypeOK, Stored
<1>3. o \in DOMAIN archives /\ o \in Nat \ {0} /\ Sound(archives[o], today)
      /\ archives[o] \in Archive
  BY <1>2 DEF IInv
<1>4. status \in {"ACQUIRED", "INCOMPLETE"} /\ observed \in Nat
      /\ observed <= today
      /\ \A m \in run.members : observed <= m.day
  BY <1>2 DEF StatusOf, ObservedOf, Core, Dated, Run
<1> HIDE DEF status, observed
<1>5. /\ a \in Archive /\ a.members = run.members /\ a.status = status
      /\ a.observed = observed
  <2>1. observed \in Int
    BY <1>4
  <2>2. [archives[o] EXCEPT !.status = status, !.observed = observed] \in Archive
    BY <1>3, <1>4, <2>1, EntersArchive
  <2>4. archives[o].members = run.members
    BY <1>2 DEF Unregistered
  <2> QED
    BY <1>3, <2>2, <2>4 DEF Archive
<1>6. archives' = [archives EXCEPT ![o] = a]
  BY <1>1, <1>3
<1> HIDE DEF a
<1>7. Sound(a, today)
  BY <1>2, <1>4, <1>5 DEF Core, Sound
<1>8. /\ archives' \in Seq(Archive) /\ Len(archives') = o /\ DOMAIN archives' = DOMAIN archives
      /\ \A i \in DOMAIN archives : archives'[i] \in {archives[i], a}
  BY <1>2, <1>3, <1>5, <1>6
<1>9. Core(Idle, today) /\ Ahead(Idle) /\ Idle.pc = "idle"
  BY <1>2, IdleIsSound DEF Idle
<1>10. TypeOK'
  BY <1>1, <1>8, <1>9 DEF IInv, TypeOK, Core
<1>11. Core(run, today)' /\ Ahead(run)'
  <2>1. Core(run', today') /\ Ahead(run')
    BY <1>1, <1>9
  <2> QED
    BY <2>1
<1>12. Stored' /\ Spent'
  BY <1>1, <1>8, <1>9 DEF IInv, Stored, Spent
<1>13. (\A i \in DOMAIN archives : Sound(archives[i], today))'
  <2>1. \A i \in DOMAIN archives' : Sound(archives'[i], today')
    BY <1>1, <1>7, <1>8 DEF IInv
  <2> QED
    BY <2>1
<1> QED
  BY <1>1, <1>10, <1>11, <1>12, <1>13 DEF IInv

LEMMA DieKeeps == IInv /\ Die => IInv'
<1> SUFFICES ASSUME IInv, Die PROVE IInv'
  OBVIOUS
<1>1. run' = Idle /\ UNCHANGED <<source, today, archives, runs, faults, edits>>
  BY DEF Die, bounds
<1>2. Core(Idle, today) /\ Ahead(Idle) /\ Idle.pc = "idle"
  BY IdleIsSound DEF IInv, TypeOK, Idle
<1>3. TypeOK'
  BY <1>1, <1>2 DEF IInv, TypeOK, Core
<1>4. Core(run, today)' /\ Ahead(run)'
  <2>1. Core(run', today') /\ Ahead(run')
    BY <1>1, <1>2
  <2> QED
    BY <2>1
<1>5. Stored' /\ Spent'
  BY <1>1, <1>2 DEF IInv, Stored, Spent, TypeOK
<1>6. (\A i \in DOMAIN archives : Sound(archives[i], today))'
  BY <1>1 DEF IInv
<1> QED
  BY <1>1, <1>3, <1>4, <1>5, <1>6 DEF IInv

LEMMA EditSourceKeeps ==
  ASSUME IInv, NEW q \in Queries, NEW v \in VersionsOf[q], EditSource(q, v)
  PROVE  IInv'
<1>1. source' = [source EXCEPT ![q] = v] /\ edits' = edits + 1
      /\ UNCHANGED <<today, archives, run, runs, faults>>
  BY DEF EditSource
<1>2. v \in Versions
  BY CollectionAssumption
<1>3. TypeOK'
  BY <1>1, <1>2 DEF IInv, TypeOK
<1>4. Core(run, today)' /\ Ahead(run)'
  <2>1. Core(run', today') /\ Ahead(run')
    BY <1>1 DEF IInv
  <2> QED
    BY <2>1
<1>5. Stored' /\ Spent'
  BY <1>1 DEF IInv, Stored, Spent, Unregistered
<1>6. (\A i \in DOMAIN archives : Sound(archives[i], today))'
  BY <1>1 DEF IInv
<1> QED
  BY <1>1, <1>3, <1>4, <1>5, <1>6 DEF IInv

LEMMA TickKeeps == IInv /\ Tick => IInv'
<1> SUFFICES ASSUME IInv, Tick PROVE IInv'
  OBVIOUS
<1>1. run = Idle /\ run' = Idle /\ today' = today + 1 /\ today \in Nat
      /\ UNCHANGED <<source, archives, runs, faults, edits>>
  BY DEF IInv, TypeOK, Tick, bounds
<1>2. Core(Idle, today') /\ Ahead(Idle) /\ Idle.pc = "idle"
  <2>1. today' \in Nat
    BY <1>1
  <2>2. Core(Idle, today') /\ Ahead(Idle)
    BY <2>1, IdleIsSound
  <2> QED
    BY <2>2 DEF Idle
<1>3. TypeOK'
  BY <1>1 DEF IInv, TypeOK
<1>4. Core(run, today)' /\ Ahead(run)'
  <2>1. Core(run', today') /\ Ahead(run')
    BY <1>1, <1>2
  <2> QED
    BY <2>1
<1>5. Stored' /\ Spent'
  BY <1>1, <1>2 DEF IInv, Stored, Spent
<1>6. (\A i \in DOMAIN archives : Sound(archives[i], today))'
  <2>1. ASSUME NEW i \in DOMAIN archives
        PROVE  Sound(archives[i], today')
    BY <1>1 DEF IInv, Sound
  <2>2. \A i \in DOMAIN archives' : Sound(archives'[i], today')
    BY <1>1, <2>1
  <2> QED
    BY <2>2
<1> QED
  BY <1>1, <1>3, <1>4, <1>5, <1>6 DEF IInv

LEMMA StepKeeps == IInv /\ [Next]_vars => IInv'
<1> SUFFICES ASSUME IInv, [Next]_vars PROVE IInv'
  OBVIOUS
<1>1. CASE StartFresh
  BY <1>1, StartFreshKeeps
<1>2. CASE \E i \in DOMAIN archives : StartResumed(i)
  BY <1>2, StartResumedKeeps
<1>3. CASE TakeOver
  BY <1>3, TakeOverKeeps
<1>4. CASE \E num \in PageNumbers : AnswerPage(num)
  BY <1>4, AnswerPageKeeps
<1>5. CASE AnswerRejected \/ AnswerLost \/ AnswerRefused
  BY <1>5, FaultKeeps
<1>6. CASE PutObject
  BY <1>6, PutObjectKeeps
<1>7. CASE Register
  BY <1>7, RegisterKeeps
<1>8. CASE Die
  BY <1>8, DieKeeps
<1>9. CASE \E q \in Queries : \E v \in VersionsOf[q] : EditSource(q, v)
  BY <1>9, EditSourceKeeps
<1>10. CASE Tick
  BY <1>10, TickKeeps
<1>11. CASE UNCHANGED vars
  <2>1. UNCHANGED <<source, today, archives, run, runs, faults, edits>>
    BY <1>11 DEF vars
  <2>2. Core(run', today') /\ Ahead(run')
    BY <2>1 DEF IInv
  <2>3. Core(run, today)' /\ Ahead(run)'
    BY <2>2
  <2>4. (\A i \in DOMAIN archives : Sound(archives[i], today))'
    BY <2>1 DEF IInv
  <2>5. TypeOK' /\ Stored' /\ Spent'
    BY <2>1 DEF IInv, TypeOK, Stored, Spent, Unregistered
  <2> QED
    BY <2>1, <2>3, <2>4, <2>5 DEF IInv
<1> QED
  BY <1>1, <1>2, <1>3, <1>4, <1>5, <1>6, <1>7, <1>8, <1>9, <1>10, <1>11 DEF Next

\* Runs, resumes, faults and days keep what the results below need: every page
\* that was read is in the archive, attempts are counted, and no member is older
\* than the freshness allows (refresh_batch, _load_resumed_raw_batch).
THEOREM Invariance == Spec => []IInv
BY InitIInv, StepKeeps, PTL DEF Spec

--------------------------------------------------------------------------------
\* An attempt number is used once for a page, over all the runs an archive has
\* gone through (fetch_page, maximum_attempts), so a member of the archive is
\* never written twice.
THEOREM CollisionFree == Spec => []AttemptsNeverCollide
<1>1. IInv => AttemptsNeverCollide
  BY DEF IInv, Core, Distinct, AttemptsNeverCollide
<1> QED
  BY <1>1, Invariance, PTL

\* No run works with a page older than the freshness of the contract, however
\* many resumes lie between (_load_resumed_raw_batch, observed_at).
THEOREM FreshPages == Spec => []StalePagesAreNotReused
<1>1. IInv => StalePagesAreNotReused
  BY DEF IInv, Core, Dated, StalePagesAreNotReused
<1> QED
  BY <1>1, Invariance, PTL

--------------------------------------------------------------------------------
\* One version of the data of every query.

\* Totals tell the versions of the data of a query apart.
TotalsDiffer == \A v, w \in Versions : Total[v] = Total[w] => v = w

\* A page states the total of the version it was read from.
Truthful(ms) == \A m \in ms : m.body \in Pages => m.body.total = Total[m.body.ver]
TruthInv ==
  /\ Truthful(run.members)
  /\ \A i \in DOMAIN archives :
       /\ Truthful(archives[i].members)
       /\ archives[i].status = "ACQUIRED" => IsWhole(archives[i].members)

LEMMA MembersStay ==
  ASSUME NEW r \in Run, NEW page, NEW p
  PROVE  /\ NextQuery(r).members = r.members /\ Completed(r).members = r.members
         /\ Stopped(r).members = r.members /\ Retried(r).members = r.members
         /\ Accepted(r, p, page).members = r.members
<1>1. \A s : "members" \in DOMAIN s =>
        /\ NextQuery(s).members = s.members /\ "members" \in DOMAIN NextQuery(s)
  BY DEF NextQuery
<1>2. \A s : "members" \in DOMAIN s => Completed(s).members = s.members
  BY <1>1 DEF Completed
<1>3. \A s : "members" \in DOMAIN s => Stopped(s).members = s.members
  BY <1>1 DEF Stopped
<1>4. "members" \in DOMAIN r
  BY DEF Run
<1>5. Retried(r).members = r.members
  BY <1>3, <1>4 DEF Retried
<1>6. WithPage(r, page).members = r.members /\ "members" \in DOMAIN WithPage(r, page)
  BY <1>4 DEF WithPage
<1>7. Accepted(r, p, page).members = r.members
  BY <1>2, <1>3, <1>4, <1>6 DEF Accepted
<1> QED
  BY <1>1, <1>2, <1>3, <1>4, <1>5, <1>7

LEMMA ArchivedIsTruthful ==
  ASSUME IInv, Fetching, Truthful(run.members), NEW body \in Bodies,
         body \in Pages => body.total = Total[body.ver]
  PROVE  /\ Archived(run, Asked, body) \in Run
         /\ Truthful(Archived(run, Asked, body).members)
<1>1. Archived(run, Asked, body) \in Run
  BY FetchingFacts, ArchivedIsSound DEF Core
<1>2. \E a : Archived(run, Asked, body).members =
        run.members \cup {[q |-> run.q, p |-> Asked, a |-> a, body |-> body, day |-> today]}
  BY DEF IInv, Core, Run, Archived
<1> QED
  BY <1>1, <1>2 DEF Truthful

LEMMA TruthStep ==
  ASSUME IInv, TruthInv, [Next]_vars
  PROVE  TruthInv'
<1>1. ASSUME UNCHANGED archives, Truthful(run'.members) PROVE TruthInv'
  BY <1>1 DEF TruthInv, IsWhole, Truthful
<1>2. Truthful(Idle.members)
  BY DEF Idle, Truthful
<1>3. CASE StartFresh
  BY <1>1, <1>2, <1>3 DEF StartFresh, Idle
<1>4. CASE \E i \in DOMAIN archives : StartResumed(i)
  <2>1. PICK i \in DOMAIN archives : run'.members = archives[i].members
    BY <1>4 DEF StartResumed, Idle
  <2> QED
    BY <1>1, <1>4, <2>1 DEF StartResumed, TruthInv
<1>5. CASE TakeOver
  BY <1>1, <1>5, MembersStay DEF TakeOver, IInv, Core, TruthInv
<1>6. CASE \E num \in PageNumbers : AnswerPage(num)
  <2>1. PICK num \in PageNumbers : AnswerPage(num)
    BY <1>6
  <2> DEFINE v == source[run.q]
             page == [num |-> num, total |-> Total[v], ver |-> v]
  <2>2. Fetching /\ run' = Accepted(Archived(run, Asked, page), Asked, page) /\ UNCHANGED archives
    BY <2>1 DEF AnswerPage
  <2>3. v \in Versions
    BY <2>2, FetchingFacts DEF IInv, TypeOK
  <2>4. page \in Pages /\ page.total = Total[page.ver]
    BY <2>3 DEF Pages
  <2> HIDE DEF page
  <2>5. /\ Archived(run, Asked, page) \in Run
        /\ Truthful(Archived(run, Asked, page).members)
    BY <2>2, <2>4, ArchivedIsTruthful DEF TruthInv, Bodies
  <2> QED
    BY <1>1, <2>2, <2>5, MembersStay
<1>7. CASE AnswerRejected
  <2>1. Fetching /\ run' = Retried(Archived(run, Asked, Rejected)) /\ UNCHANGED archives
    BY <1>7 DEF AnswerRejected, Fault
  <2>2. /\ Archived(run, Asked, Rejected) \in Run
        /\ Truthful(Archived(run, Asked, Rejected).members)
    BY <2>1, PagesTyped, ArchivedIsTruthful DEF TruthInv, Bodies
  <2> QED
    BY <1>1, <2>1, <2>2, MembersStay
<1>8. CASE AnswerLost \/ AnswerRefused
  <2>1. (run' = Retried(run) \/ run' = Stopped(run)) /\ UNCHANGED archives
    BY <1>8 DEF AnswerLost, AnswerRefused, Fault
  <2> QED
    BY <1>1, <2>1, MembersStay DEF IInv, Core, TruthInv
<1>9. CASE PutObject
  <2>1. /\ archives' = Append(archives, Unregistered) /\ archives \in Seq(Archive)
        /\ run'.members = run.members
    BY <1>9 DEF PutObject, IInv, TypeOK, Core, Run
  <2>2. /\ DOMAIN archives' = DOMAIN archives \cup {Len(archives) + 1}
        /\ \A i \in DOMAIN archives : archives'[i] = archives[i]
        /\ archives'[Len(archives) + 1] = Unregistered
    BY <2>1
  <2>3. Unregistered.members = run.members /\ Unregistered.status = "stored"
    BY DEF Unregistered
  <2> QED
    BY <2>1, <2>2, <2>3 DEF TruthInv, IsWhole, Truthful
<1>10. CASE Register
  <2> DEFINE o == Len(archives)
  <2>1. /\ o \in DOMAIN archives /\ archives[o] = Unregistered /\ DOMAIN archives' = DOMAIN archives
        /\ archives' = [archives EXCEPT ![o].status = StatusOf(run), ![o].observed = ObservedOf(run)]
        /\ run' = Idle
    BY <1>10 DEF Register, IInv, TypeOK, Stored
  <2>2. Unregistered = [members |-> run.members, done |-> run.done,
                        observed |-> run.observed, status |-> "stored"]
    BY DEF Unregistered
  <2>3. archives'[o].members = run.members /\ archives'[o].status = StatusOf(run)
    BY <2>1, <2>2
  <2>4. \A i \in DOMAIN archives \ {o} : archives'[i] = archives[i]
    BY <2>1
  <2>5. StatusOf(run) = "ACQUIRED" => IsWhole(run.members)
    <3> SUFFICES ASSUME StatusOf(run) = "ACQUIRED" PROVE IsWhole(run.members)
      OBVIOUS
    <3>1. run.done = Queries
      BY DEF StatusOf
    <3>2. \A q \in Queries : Whole(run.members, q)
      BY <3>1 DEF IInv, Core, Backed
    <3> QED
      BY <3>2 DEF IsWhole, Whole, WholeWith
  <2> HIDE DEF o
  <2>6. Truthful(run'.members) /\ \A i \in DOMAIN archives' : Truthful(archives'[i].members)
    BY <1>2, <2>1, <2>2, <2>3, <2>4 DEF TruthInv
  <2>7. \A i \in DOMAIN archives' :
          archives'[i].status = "ACQUIRED" => IsWhole(archives'[i].members)
    BY <2>1, <2>3, <2>4, <2>5 DEF TruthInv
  <2>8. TruthInv' = (/\ Truthful(run'.members)
                     /\ \A i \in DOMAIN archives' :
                          /\ Truthful(archives'[i].members)
                          /\ archives'[i].status = "ACQUIRED" => IsWhole(archives'[i].members))
    BY DEF TruthInv, IsWhole, Truthful
  <2> QED
    BY <2>6, <2>7, <2>8
<1>11. CASE Die
  BY <1>1, <1>2, <1>11 DEF Die
<1>12. CASE \E q \in Queries : \E v \in VersionsOf[q] : EditSource(q, v)
  BY <1>1, <1>12 DEF EditSource, TruthInv
<1>13. CASE Tick
  BY <1>1, <1>13 DEF Tick, bounds, TruthInv
<1>14. CASE UNCHANGED vars
  BY <1>1, <1>14 DEF vars, TruthInv
<1> QED
  BY <1>3, <1>4, <1>5, <1>6, <1>7, <1>8, <1>9, <1>10, <1>11, <1>12, <1>13, <1>14 DEF Next

\* Where totals tell versions apart, an ACQUIRED acquisition holds every page of
\* one version per query, whichever runs and resumes they come from
\* (collect_paginated, _load_resumed_raw_batch, register_verified_raw).
THEOREM OneVersion ==
  ASSUME TotalsDiffer
  PROVE  Spec => []AcquiredIsOneVersion
<1>1. Init => TruthInv
  BY DEF Init, TruthInv, Truthful, Idle
<1>2. IInv /\ TruthInv => AcquiredIsOneVersion
  <2> SUFFICES ASSUME IInv, TruthInv, NEW i \in DOMAIN archives, archives[i].status = "ACQUIRED",
                      NEW q \in Queries
               PROVE  \E v \in Versions : \A p \in 1..PageCount(Total[v]) :
                        \E m \in archives[i].members :
                          /\ m.q = q /\ m.p = p /\ m.body # Rejected /\ m.body.ver = v
                          /\ p > 1 => m.body.num = p
    BY DEF AcquiredIsOneVersion
  <2>1. PICK v \in Versions : \A p \in 1..PageCount(Total[v]) :
          \E m \in archives[i].members :
            /\ m.q = q /\ m.p = p /\ m.body # Rejected
            /\ m.body.total = Total[v] /\ (p > 1 => m.body.num = p)
    BY DEF TruthInv, IsWhole
  <2>2. \A m \in archives[i].members :
          m.body # Rejected => m.body.ver \in Versions /\ m.body.total = Total[m.body.ver]
    <3>1. archives[i] \in Archive
      BY DEF IInv, TypeOK
    <3>2. \A m \in archives[i].members : m.body # Rejected => m.body \in Pages
      BY <3>1 DEF Archive, Member, Bodies
    <3>3. \A page \in Pages : page.ver \in Versions
      BY DEF Pages
    <3> QED
      BY <3>2, <3>3 DEF TruthInv, Truthful
  <2>3. \A m \in archives[i].members :
          m.body # Rejected /\ m.body.total = Total[v] => m.body.ver = v
    BY <2>2, TotalsDiffer DEF TotalsDiffer
  <2> QED
    BY <2>1, <2>3
<1> QED
  BY <1>1, <1>2, TruthStep, Invariance, PTL DEF Spec

--------------------------------------------------------------------------------
\* What was completed is reused.

\* The page a run accepted is its last attempt for that page.
Newest(r) ==
  \A q \in Queries \ r.reused : \A p \in DOMAIN r.pages[q] :
    \E m \in r.members :
      m.q = q /\ m.p = p /\ m.a = r.tries[<<q, p>>] /\ m.body = r.pages[q][p]
Finished(pages) == pages # <<>> /\ Len(pages) = PageCount(pages[1].total)
Settled(r) ==
  /\ \A q \in r.reused : HasAllPages(r.members, q)
  /\ Newest(r)
  /\ \A q \in r.done : q < r.q
  /\ \A q \in r.done \ r.reused : Finished(r.pages[q])

\* CompletedIsReused, of one query of one archive.
Reusable(ms, q) ==
  \/ HasAllPages(ms, q)
  \/ \E m \in ms : m.q = q /\ m.p = 1 /\ m.body # Rejected /\ m.body.num # 1
ReuseInv ==
  /\ Settled(run)
  /\ \A i \in DOMAIN archives : \A q \in archives[i].done : Reusable(archives[i].members, q)

LEMMA SamePagesReused ==
  ASSUME NEW ms, NEW more, NEW q, \A p : Readable(more, q, p) = Readable(ms, q, p),
         HasAllPages(ms, q)
  PROVE  HasAllPages(more, q)
<1> DEFINE Last(set) == (CHOOSE m \in set : \A n \in set : n.a <= m.a).body
<1>1. \A p : LatestPage(more, q, p) = LatestPage(ms, q, p)
  <2>1. \A p : /\ LatestPage(more, q, p) = Last(Readable(more, q, p))
               /\ LatestPage(ms, q, p) = Last(Readable(ms, q, p))
    BY DEF LatestPage
  <2> HIDE DEF Last
  <2> QED
    BY <2>1
<1> QED
  BY <1>1 DEF HasAllPages

\* A page that was accepted is the one a resume takes.
LEMMA NewestIsLatest ==
  ASSUME NEW r, r \in Run, Counted(r), Distinct(r.members), NEW q \in Queries, NEW p \in PageNumbers,
         NEW m \in r.members, m.q = q, m.p = p, m.a = r.tries[<<q, p>>], m.body.num = p
  PROVE  m \in Readable(r.members, q, p) /\ LatestPage(r.members, q, p) = m.body
<1> DEFINE last == CHOOSE l \in Readable(r.members, q, p) :
                     \A n \in Readable(r.members, q, p) : n.a <= l.a
<1>1. m \in Readable(r.members, q, p)
  BY DEF Readable
<1>2. \A n \in Readable(r.members, q, p) : n.a <= m.a
  BY DEF Readable, Counted
<1>3. last \in Readable(r.members, q, p) /\ m.a <= last.a
  BY <1>1, <1>2
<1>4. last.a <= m.a
  BY <1>2, <1>3
<1>5. LatestPage(r.members, q, p) = last.body
  BY DEF LatestPage
<1> HIDE DEF last
<1>6. m.a \in Nat /\ last.a \in Nat
  BY <1>3 DEF Readable, Run, Member
<1>7. last = m
  BY <1>3, <1>4, <1>6 DEF Readable, Distinct
<1> QED
  BY <1>1, <1>5, <1>7

LEMMA FinishedIsReusable ==
  ASSUME NEW d, NEW r, Core(r, d), Settled(r), NEW q \in r.done
  PROVE  Reusable(r.members, q)
<1>1. CASE q \in r.reused
  BY <1>1 DEF Settled, Reusable
<1>2. CASE q \notin r.reused
  <2> DEFINE pages == r.pages[q]
             total == pages[1].total
  <2>1. r \in Run /\ q \in Queries /\ pages \in Seq(Pages) /\ Finished(pages)
        /\ Kept(r.members, q, pages)
    BY <1>2 DEF Core, Run, Settled, Backed
  <2> HIDE DEF pages
  <2>2. /\ Len(pages) \in Nat \ {0} /\ DOMAIN pages = 1..Len(pages)
        /\ 1 \in DOMAIN pages /\ Len(pages) = PageCount(total)
        /\ \A p \in DOMAIN pages : pages[p] \in Pages
    BY <2>1 DEF Finished
  <2>3. \A p \in DOMAIN pages : \E m \in r.members :
          m.q = q /\ m.p = p /\ m.a = r.tries[<<q, p>>] /\ m.body = pages[p]
    BY <1>2, <2>1 DEF Settled, Newest, pages
  <2>4. CASE pages[1].num # 1
    <3>1. PICK m \in r.members : m.q = q /\ m.p = 1 /\ m.body = pages[1]
      BY <2>2, <2>3
    <3>2. pages[1] # Rejected
      BY <2>2, PagesTyped
    <3> QED
      BY <2>4, <3>1, <3>2 DEF Reusable
  <2>5. CASE pages[1].num = 1
    <3>1. \A p \in DOMAIN pages : pages[p].num = p /\ pages[p].total = total
      BY <2>1, <2>2, <2>5 DEF Kept
    <3>2. \A p \in DOMAIN pages : p \in PageNumbers
      BY <2>2, <3>1, PagesTyped
    <3>3. ASSUME NEW p \in DOMAIN pages
          PROVE  Readable(r.members, q, p) # {} /\ LatestPage(r.members, q, p) = pages[p]
      <4>1. PICK m \in r.members :
              m.q = q /\ m.p = p /\ m.a = r.tries[<<q, p>>] /\ m.body = pages[p]
        BY <2>3
      <4> QED
        BY <2>1, <3>1, <3>2, <4>1, NewestIsLatest DEF Core
    <3>4. LatestPage(r.members, q, 1).total = total
      BY <2>2, <3>3
    <3>5. HasAllPages(r.members, q)
      BY <2>2, <3>1, <3>3, <3>4 DEF HasAllPages
    <3> QED
      BY <3>5 DEF Reusable
  <2> QED
    BY <2>4, <2>5
<1> QED
  BY <1>1, <1>2

LEMMA ArchivedSettles ==
  ASSUME IInv, Fetching, Settled(run), NEW body \in Bodies
  PROVE  LET s == Archived(run, Asked, body)
         IN /\ s \in Run /\ Settled(s) /\ s.pages = run.pages /\ s.q = run.q
            /\ s.reused = run.reused /\ s.done = run.done
            /\ \E m \in s.members : /\ m.q = s.q /\ m.p = Asked /\ m.body = body
                                    /\ m.a = s.tries[<<s.q, Asked>>]
<1> DEFINE s == Archived(run, Asked, body)
           a == run.tries[<<run.q, Asked>>] + 1
           new == [q |-> run.q, p |-> Asked, a |-> a, body |-> body, day |-> today]
<1>1. /\ run \in Run /\ run.q \in Queries \ run.reused /\ Asked \in PageNumbers
      /\ Asked = Len(run.pages[run.q]) + 1 /\ Core(run, today) /\ today \in Nat
  BY FetchingFacts DEF Core
<1>2. /\ s \in Run /\ s.pages = run.pages /\ s.q = run.q
      /\ s.reused = run.reused /\ s.done = run.done
  BY <1>1, ArchivedIsSound DEF Core
<1>3. /\ s.members = run.members \cup {new}
      /\ s.tries = [run.tries EXCEPT ![<<run.q, Asked>>] = a]
  BY <1>1 DEF Archived, Run
<1>4. new.q = run.q /\ new.p = Asked /\ new.a = a /\ new.body = body
  OBVIOUS
<1>5. s.tries[<<run.q, Asked>>] = a
      /\ \A q \in Queries, p \in PageNumbers :
           q # run.q \/ p # Asked => s.tries[<<q, p>>] = run.tries[<<q, p>>]
  BY <1>1, <1>3 DEF Run
<1> HIDE DEF s, new, a
<1>6. ASSUME NEW q \in s.reused PROVE HasAllPages(s.members, q)
  <2>1. \A p : Readable(s.members, q, p) = Readable(run.members, q, p)
    BY <1>1, <1>2, <1>3, <1>4 DEF Readable
  <2> QED
    BY <1>2, <2>1, SamePagesReused DEF Settled
<1>7. Newest(s)
  <2> SUFFICES ASSUME NEW q \in Queries \ s.reused, NEW p \in DOMAIN s.pages[q]
               PROVE  \E m \in s.members : /\ m.q = q /\ m.p = p
                        /\ m.a = s.tries[<<q, p>>] /\ m.body = s.pages[q][p]
    BY DEF Newest
  <2>1. PICK m \in run.members :
          m.q = q /\ m.p = p /\ m.a = run.tries[<<q, p>>] /\ m.body = run.pages[q][p]
    BY <1>2 DEF Settled, Newest
  <2>2. p \in PageNumbers
    BY <1>1, <2>1 DEF Run, Member
  <2>3. q # run.q \/ p # Asked
    BY <1>1, <1>2 DEF Run
  <2> QED
    BY <1>2, <1>3, <1>5, <2>1, <2>2, <2>3
<1>8. Settled(s)
  BY <1>2, <1>6, <1>7 DEF Settled
<1> QED
  BY <1>2, <1>3, <1>4, <1>5, <1>8 DEF s

LEMMA NextQuerySettles ==
  ASSUME NEW r \in Run, Settled(r)
  PROVE  Settled(NextQuery(r)) /\ Settled(Stopped(r)) /\ Settled(Retried(r))
<1>1. ASSUME NEW s, s.members = r.members, s.tries = r.tries, s.pages = r.pages,
             s.reused = r.reused, s.done = r.done, s.q \in {r.q, r.q + 1}
      PROVE  Settled(s)
  BY <1>1 DEF Settled, Newest, Run, Queries
<1>2. Settled(NextQuery(r))
  BY <1>1 DEF NextQuery, Run
<1>3. Settled([r EXCEPT !.pc = "put"])
  BY <1>1 DEF Run
<1>4. Settled([r EXCEPT !.attempt = @ + 1])
  BY <1>1 DEF Run
<1> QED
  BY <1>2, <1>3, <1>4 DEF Stopped, Retried

LEMMA CompletedSettles ==
  ASSUME NEW r \in Run, Settled(r), r.q \in Queries,
         r.q \in r.reused \/ Finished(r.pages[r.q])
  PROVE  Settled(Completed(r))
<1> DEFINE new == r.done \cup {r.q}
           s == Completed(r)
<1>1. /\ s.members = r.members /\ s.tries = r.tries /\ s.pages = r.pages
      /\ s.reused = r.reused /\ s.done = new /\ s.q = r.q + 1
  BY DEF Completed, NextQuery, Run
<1> HIDE DEF s
<1>2. \A q \in s.done : q < s.q
  BY <1>1 DEF Settled, Run, Queries
<1> QED
  BY <1>1, <1>2 DEF s, Settled, Newest

LEMMA WithPageSettles ==
  ASSUME NEW d \in Nat, NEW r, Core(r, d), Later(r), Settled(r), r.q \in Queries \ r.reused,
         NEW page \in Pages, NEW p, p = Len(r.pages[r.q]) + 1,
         p > 1 => page.num = p /\ page.total = r.pages[r.q][1].total,
         \E m \in r.members : /\ m.q = r.q /\ m.p = p /\ m.body = page
                              /\ m.a = r.tries[<<r.q, p>>]
  PROVE  Settled(WithPage(r, page)) /\ WithPage(r, page) \in Run
         /\ WithPage(r, page).q = r.q
<1> DEFINE s == WithPage(r, page)
           new == Append(r.pages[r.q], page)
<1>1. /\ s \in Run /\ s.q = r.q /\ s.reused = r.reused /\ s.members = r.members
      /\ s.pages[r.q] = new
  BY WithPageIsSound, SMTT(30) DEF Core
<1>2. r \in Run /\ r.pages \in [Queries -> Seq(Pages)]
  BY DEF Core, Run
<1>3. s.tries = r.tries /\ s.done = r.done /\ s.pages = [r.pages EXCEPT ![r.q] = new]
  BY <1>2 DEF WithPage, Run
<1>4. \A q \in Queries \ {r.q} : s.pages[q] = r.pages[q]
  BY <1>2, <1>3
<1>5. /\ DOMAIN new = 1..p /\ new[p] = page
      /\ \A i \in 1..(p - 1) : i \in DOMAIN r.pages[r.q] /\ new[i] = r.pages[r.q][i]
  BY <1>2
<1> HIDE DEF s, new
<1>6. Newest(s)
  <2> SUFFICES ASSUME NEW q \in Queries \ s.reused, NEW i \in DOMAIN s.pages[q]
               PROVE  \E m \in s.members : /\ m.q = q /\ m.p = i
                        /\ m.a = s.tries[<<q, i>>] /\ m.body = s.pages[q][i]
    BY DEF Newest
  <2>1. CASE q # r.q
    BY <1>1, <1>3, <1>4, <2>1 DEF Settled, Newest
  <2>2. CASE q = r.q /\ i = p
    BY <1>1, <1>3, <1>5, <2>2
  <2>3. CASE q = r.q /\ i # p
    <3>1. i \in DOMAIN r.pages[r.q] /\ s.pages[q][i] = r.pages[r.q][i]
      BY <1>1, <1>2, <1>5, <2>3
    <3> QED
      BY <1>1, <1>3, <2>3, <3>1 DEF Settled, Newest
  <2> QED
    BY <2>1, <2>2, <2>3
<1>7. \A q \in s.done : q # r.q /\ q \in Queries
  BY <1>2, <1>3 DEF Settled, Run, Queries
<1>8. Settled(s)
  BY <1>1, <1>3, <1>4, <1>6, <1>7 DEF Settled
<1> QED
  BY <1>1, <1>8 DEF s

LEMMA AcceptedSettles ==
  ASSUME NEW d \in Nat, NEW r, Core(r, d), Ahead(r), Settled(r), r.pc = "collect",
         r.q \in Queries \ r.reused, NEW page \in Pages,
         NEW p, p = Len(r.pages[r.q]) + 1,
         \E m \in r.members : /\ m.q = r.q /\ m.p = p /\ m.body = page
                              /\ m.a = r.tries[<<r.q, p>>]
  PROVE  Settled(Accepted(r, p, page))
<1> DEFINE first == IF p = 1 THEN page ELSE r.pages[r.q][1]
           n == PageCount(first.total)
           w == WithPage(r, page)
<1>1. r \in Run /\ r.pages[r.q] \in Seq(Pages) /\ p \in Nat \ {0} /\ Later(r)
  BY DEF Core, Run, Ahead
<1>2. Settled(Stopped(r))
  BY <1>1, NextQuerySettles
<1>3. CASE p > 1 /\ (page.num # p \/ page.total # first.total)
  BY <1>1, <1>2, <1>3 DEF Accepted
<1>4. CASE ~ (p > 1 /\ (page.num # p \/ page.total # first.total))
  <2>1. p > 1 => page.num = p /\ page.total = r.pages[r.q][1].total
    BY <1>1, <1>4
  <2>2. Settled(w) /\ w \in Run /\ w.q = r.q
    BY <1>1, <2>1, WithPageSettles
  <2>3. w.pages[r.q] = Append(r.pages[r.q], page)
    <3>1. \E m \in r.members : m.q = r.q /\ m.p = p /\ m.body = page
      OBVIOUS
    <3> QED
      BY <1>1, <2>1, <3>1, WithPageIsSound, SMTT(30)
  <2>4. /\ w.pages[r.q][1] = first /\ Len(w.pages[r.q]) = p /\ w.pages[r.q] # <<>>
    BY <1>1, <2>3, SMTT(30)
  <2> HIDE DEF w, first
  <2>5. p = n => Finished(w.pages[w.q])
    BY <2>2, <2>4 DEF Finished
  <2>6. p = n => Settled(Completed(w))
    BY <2>2, <2>5, CompletedSettles
  <2>7. Settled(Stopped(w))
    BY <2>2, NextQuerySettles
  <2>8. Accepted(r, p, page) \in {Stopped(w), w} \/ (p = n /\ Accepted(r, p, page) = Completed(w))
    BY <1>4 DEF Accepted, w, first
  <2> QED
    BY <2>2, <2>6, <2>7, <2>8
<1> QED
  BY <1>3, <1>4

LEMMA ReuseStep ==
  ASSUME IInv, ReuseInv, [Next]_vars
  PROVE  ReuseInv'
<1>1. ASSUME UNCHANGED archives, Settled(run') PROVE ReuseInv'
  <2>1. Settled(run)'
    BY <1>1
  <2> QED
    BY <1>1, <2>1 DEF ReuseInv
<1>2. Settled(Idle)
  BY DEF Idle, Settled, Newest
<1>3. CASE StartFresh
  <2>1. PICK stop \in BOOLEAN : run' = [Idle EXCEPT !.pc = "collect", !.stop = stop]
    BY <1>3 DEF StartFresh
  <2>2. run'.reused = {} /\ run'.done = {} /\ \A q \in Queries : run'.pages[q] = <<>>
    BY <2>1 DEF Idle
  <2>3. Settled(run')
    BY <2>2 DEF Settled, Newest
  <2> QED
    BY <1>1, <1>3, <2>3 DEF StartFresh
<1>4. CASE \E i \in DOMAIN archives : StartResumed(i)
  <2>1. PICK i \in DOMAIN archives : StartResumed(i)
    BY <1>4
  <2> DEFINE ms == archives[i].members
  <2>2. /\ run'.members = ms /\ run'.done = {}
        /\ run'.reused = {q \in Queries : HasAllPages(ms, q)}
        /\ \A q \in Queries \ run'.reused : run'.pages[q] = <<>>
    BY <2>1 DEF StartResumed, Idle
  <2> HIDE DEF ms
  <2>3. Settled(run')
    BY <2>2 DEF Settled, Newest
  <2> QED
    BY <1>1, <2>1, <2>3 DEF StartResumed
<1>5. CASE TakeOver
  <2>1. Collecting /\ run.q \in run.reused /\ run' = Completed(run) /\ UNCHANGED archives
    BY <1>5 DEF TakeOver
  <2>2. Settled(run')
    BY <2>1, CompletedSettles DEF IInv, Core, ReuseInv, Collecting
  <2> QED
    BY <1>1, <2>1, <2>2
<1>6. CASE \E num \in PageNumbers : AnswerPage(num)
  <2>1. PICK num \in PageNumbers : AnswerPage(num)
    BY <1>6
  <2> DEFINE v == source[run.q]
             page == [num |-> num, total |-> Total[v], ver |-> v]
             r == Archived(run, Asked, page)
  <2>2. Fetching /\ run' = Accepted(r, Asked, page) /\ UNCHANGED archives
    BY <2>1 DEF AnswerPage
  <2>3. page \in Pages
    BY <2>2, FetchingFacts DEF IInv, TypeOK, Pages
  <2> HIDE DEF page
  <2>4. /\ Settled(r) /\ r.q = run.q /\ r.pages = run.pages /\ r.reused = run.reused
        /\ \E m \in r.members : /\ m.q = r.q /\ m.p = Asked /\ m.body = page
                                /\ m.a = r.tries[<<r.q, Asked>>]
    BY <2>2, <2>3, ArchivedSettles DEF ReuseInv, Bodies
  <2>5. Core(r, today) /\ r.pc = "collect"
    BY <2>2, <2>3, FetchingFacts, ArchivedIsSound DEF Bodies
  <2> HIDE DEF r
  <2>6. Ahead(r)
    BY <2>2, <2>4, <2>5, FetchingFacts DEF Ahead, Later
  <2>7. Settled(run')
    BY <2>2, <2>3, <2>4, <2>5, <2>6, FetchingFacts, AcceptedSettles
  <2> QED
    BY <1>1, <2>2, <2>7
<1>7. CASE AnswerRejected
  <2>1. Fetching /\ run' = Retried(Archived(run, Asked, Rejected)) /\ UNCHANGED archives
    BY <1>7 DEF AnswerRejected, Fault
  <2>2. Archived(run, Asked, Rejected) \in Run /\ Settled(Archived(run, Asked, Rejected))
    BY <2>1, ArchivedSettles DEF ReuseInv, Bodies
  <2> QED
    BY <1>1, <2>1, <2>2, NextQuerySettles
<1>8. CASE AnswerLost \/ AnswerRefused
  <2>1. (run' = Retried(run) \/ run' = Stopped(run)) /\ UNCHANGED archives
    BY <1>8 DEF AnswerLost, AnswerRefused, Fault
  <2> QED
    BY <1>1, <2>1, NextQuerySettles DEF IInv, Core, ReuseInv
<1>9. CASE PutObject
  <2>1. /\ archives' = Append(archives, Unregistered) /\ archives \in Seq(Archive)
        /\ run' = [run EXCEPT !.pc = "register"] /\ run \in Run
    BY <1>9 DEF PutObject, IInv, TypeOK, Core
  <2>2. /\ DOMAIN archives' = DOMAIN archives \cup {Len(archives) + 1}
        /\ \A i \in DOMAIN archives : archives'[i] = archives[i]
        /\ archives'[Len(archives) + 1] = Unregistered
    BY <2>1
  <2>3. Unregistered.members = run.members /\ Unregistered.done = run.done
    BY DEF Unregistered
  <2>4. /\ run'.members = run.members /\ run'.tries = run.tries /\ run'.pages = run.pages
        /\ run'.reused = run.reused /\ run'.done = run.done /\ run'.q = run.q
    BY <2>1 DEF Run
  <2>5. Settled(run')
    BY <2>4 DEF ReuseInv, Settled, Newest
  <2>6. \A q \in run.done : Reusable(run.members, q)
    BY FinishedIsReusable DEF IInv, ReuseInv
  <2>7. \A i \in DOMAIN archives' : \A q \in archives'[i].done : Reusable(archives'[i].members, q)
    BY <2>2, <2>3, <2>6 DEF ReuseInv
  <2>8. ReuseInv' = (/\ Settled(run')
                     /\ \A i \in DOMAIN archives' : \A q \in archives'[i].done :
                          Reusable(archives'[i].members, q))
    BY DEF ReuseInv, Settled, Newest, Reusable, HasAllPages, LatestPage, Readable
  <2> QED
    BY <2>5, <2>7, <2>8
<1>10. CASE Register
  <2> DEFINE o == Len(archives)
  <2>1. /\ o \in DOMAIN archives /\ archives[o] = Unregistered /\ DOMAIN archives' = DOMAIN archives
        /\ archives' = [archives EXCEPT ![o].status = StatusOf(run), ![o].observed = ObservedOf(run)]
        /\ run' = Idle
    BY <1>10 DEF Register, IInv, TypeOK, Stored
  <2>2. Unregistered = [members |-> run.members, done |-> run.done,
                        observed |-> run.observed, status |-> "stored"]
    BY DEF Unregistered
  <2>3. \A i \in DOMAIN archives : archives'[i].members = archives[i].members
                                   /\ archives'[i].done = archives[i].done
    BY <2>1, <2>2
  <2> HIDE DEF o
  <2>4. \A i \in DOMAIN archives' : \A q \in archives'[i].done : Reusable(archives'[i].members, q)
    BY <2>1, <2>3 DEF ReuseInv
  <2>5. ReuseInv' = (/\ Settled(run')
                     /\ \A i \in DOMAIN archives' : \A q \in archives'[i].done :
                          Reusable(archives'[i].members, q))
    BY DEF ReuseInv, Settled, Newest, Reusable, HasAllPages, LatestPage, Readable
  <2> QED
    BY <1>2, <2>1, <2>4, <2>5
<1>11. CASE Die
  BY <1>1, <1>2, <1>11 DEF Die
<1>12. CASE \E q \in Queries : \E v \in VersionsOf[q] : EditSource(q, v)
  BY <1>1, <1>12 DEF EditSource, ReuseInv
<1>13. CASE Tick
  BY <1>1, <1>13 DEF Tick, bounds, ReuseInv
<1>14. CASE UNCHANGED vars
  BY <1>1, <1>14 DEF vars, ReuseInv
<1> QED
  BY <1>3, <1>4, <1>5, <1>6, <1>7, <1>8, <1>9, <1>10, <1>11, <1>12, <1>13, <1>14 DEF Next

\* What a run completed, a resume of its archive does not ask for again, unless
\* its first page was not numbered 1 (_load_resumed_raw_batch, collect_paginated).
THEOREM Reuse == Spec => []CompletedIsReused
<1>1. Init => ReuseInv
  BY DEF Init, ReuseInv, Settled, Newest, Idle
<1>2. ReuseInv => CompletedIsReused
  BY DEF ReuseInv, Reusable, CompletedIsReused
<1> QED
  BY <1>1, <1>2, ReuseStep, Invariance, PTL DEF Spec

--------------------------------------------------------------------------------
\* RawIntake.

Whole_ == {i \in DOMAIN archives : IsWhole(archives[i].members)}
Book_ == [i \in 1..MaxRuns |-> IF i \in DOMAIN archives /\ archives[i].status # "stored"
                                THEN archives[i].status ELSE "none"]

LEMMA QuietIsStutter ==
  ASSUME UNCHANGED archives
  PROVE  UNCHANGED Intake!vars
BY DEF Intake!vars

LEMMA PutObjectHolds ==
  ASSUME IInv, PutObject
  PROVE  Intake!Next
<1> DEFINE o == Len(archives) + 1
<1>1. /\ archives' = Append(archives, Unregistered) /\ archives \in Seq(Archive)
      /\ Unregistered.status = "stored" /\ o <= MaxRuns
  BY CollectionAssumption DEF IInv, TypeOK, PutObject, Spent, Unregistered
<1>2. /\ o \in 1..MaxRuns /\ o \notin DOMAIN archives
      /\ DOMAIN archives' = DOMAIN archives \cup {o}
      /\ archives'[o] = Unregistered
      /\ \A i \in DOMAIN archives : archives'[i] = archives[i]
  BY <1>1, CollectionAssumption
<1> HIDE DEF o
<1>3. Whole_' \in {Whole_, Whole_ \cup {o}}
  <2>1. \A i \in DOMAIN archives : i \in Whole_' <=> i \in Whole_
    BY <1>2 DEF Whole_, IsWhole
  <2> QED
    BY <1>2, <2>1 DEF Whole_
<1>4. Book_' = Book_
  BY <1>1, <1>2 DEF Book_
<1>5. Intake!Hold(o)
  BY <1>2, <1>3, <1>4 DEF Intake!Hold, Whole_, Book_
<1> QED
  BY <1>2, <1>5 DEF Intake!Next

LEMMA RegisterEnters ==
  ASSUME IInv, Register
  PROVE  Intake!Next
<1> DEFINE o == Len(archives)
           status == StatusOf(run)
<1>1. /\ archives \in Seq(Archive) /\ archives # <<>> /\ archives[o] = Unregistered
      /\ run \in Run /\ o <= MaxRuns
      /\ archives' = [archives EXCEPT ![o].status = status, ![o].observed = ObservedOf(run)]
  BY CollectionAssumption DEF IInv, TypeOK, Register, Stored, Spent
<1>2. /\ o \in DOMAIN archives /\ o \in 1..MaxRuns /\ DOMAIN archives' = DOMAIN archives
      /\ archives[o].status = "stored" /\ archives[o].members = run.members
      /\ \A i \in DOMAIN archives \ {o} : archives'[i] = archives[i]
  BY <1>1 DEF Unregistered
<1>3. archives'[o].status = status /\ archives'[o].members = run.members
  <2>1. archives[o] = [members |-> run.members, done |-> run.done,
                       observed |-> run.observed, status |-> "stored"]
    BY <1>1 DEF Unregistered
  <2> QED
    BY <1>1, <1>2, <2>1
<1>4. status \in {"INCOMPLETE", "ACQUIRED"}
  BY DEF StatusOf
<1>5. status = "ACQUIRED" => o \in Whole_
  <2> SUFFICES ASSUME status = "ACQUIRED" PROVE o \in Whole_
    OBVIOUS
  <2>1. run.done = Queries
    BY DEF StatusOf
  <2>2. \A q \in Queries : Whole(run.members, q)
    BY <2>1 DEF IInv, Core, Backed
  <2>3. IsWhole(run.members)
    BY <2>2 DEF IsWhole, Whole, WholeWith
  <2> QED
    BY <1>2, <2>3 DEF Whole_
<1> HIDE DEF o, status
<1>6. Whole_' = Whole_
  <2>1. \A i \in DOMAIN archives : archives'[i].members = archives[i].members
    BY <1>2, <1>3
  <2>2. \A i \in DOMAIN archives : IsWhole(archives'[i].members) <=> IsWhole(archives[i].members)
    BY <2>1
  <2>3. Whole_' = {i \in DOMAIN archives' : IsWhole(archives'[i].members)}
    BY DEF Whole_, IsWhole
  <2> QED
    BY <1>2, <2>2, <2>3 DEF Whole_
<1>7. Book_[o] = "none" /\ Book_' = [Book_ EXCEPT ![o] = status]
  <2>1. Book_[o] = "none"
    BY <1>2 DEF Book_
  <2>2. \A i \in 1..MaxRuns : Book_'[i] = IF i = o THEN status ELSE Book_[i]
    BY <1>2, <1>3, <1>4 DEF Book_
  <2> QED
    BY <1>2, <2>1, <2>2 DEF Book_
<1>8. Intake!Enter(o, status)
  BY <1>2, <1>5, <1>6, <1>7 DEF Intake!Enter, Whole_, Book_
<1>9. \E s \in {"INCOMPLETE", "ACQUIRED"} : Intake!Enter(o, s)
  BY <1>4, <1>8 DEF Intake!Enter
<1> QED
  BY <1>2, <1>9 DEF Intake!Next

\* A raw object is stored before the acquisition that names it, and only one
\* that holds every page becomes ACQUIRED (store_verified, register_verified_raw).
THEOREM Implementation == Spec => ImplementsRawIntake
<1>1. Init => Intake!Init
  BY DEF Init, Intake!Init
<1>2. IInv /\ [Next]_vars => [Intake!Next]_(Intake!vars)
  <2> SUFFICES ASSUME IInv, [Next]_vars PROVE [Intake!Next]_(Intake!vars)
    OBVIOUS
  <2>1. CASE PutObject
    BY <2>1, PutObjectHolds
  <2>2. CASE Register
    BY <2>2, RegisterEnters
  <2>3. CASE ~ PutObject /\ ~ Register
    <3>1. UNCHANGED archives
      BY <2>3 DEF Next, vars, StartFresh, StartResumed, TakeOver, AnswerPage, AnswerRejected,
                  AnswerLost, AnswerRefused, Fault, Die, EditSource, Tick
    <3> QED
      BY <3>1, QuietIsStutter
  <2> QED
    BY <2>1, <2>2, <2>3
<1> QED
  BY <1>1, <1>2, Invariance, PTL DEF Spec, ImplementsRawIntake, Intake!Spec
================================================================================
