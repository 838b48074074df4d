----------------------------- MODULE DayPlanProofs -----------------------------
(***************************************************************************)
(* Theorems about the planning of a day for any places, routes, windows,   *)
(* stays and requests.                                                     *)
(***************************************************************************)
EXTENDS DayPlan, SequenceTheorems, FiniteSetTheorems, TLAPS

LEMMA MaxOfTwo ==
  ASSUME NEW a \in Nat, NEW b \in Nat
  PROVE  Max({a, b}) \in Nat /\ Max({a, b}) >= a /\ Max({a, b}) >= b
<1>1. \E x \in {a, b} : \A y \in {a, b} : x >= y
  <2>1. CASE a >= b
    BY <2>1
  <2>2. CASE b >= a
    BY <2>2
  <2> QED
    BY <2>1, <2>2
<1> QED
  BY <1>1 DEF Max

LEMMA MinOfTwo ==
  ASSUME NEW a \in Nat, NEW b \in Nat
  PROVE  Min({a, b}) \in Nat /\ Min({a, b}) <= a /\ Min({a, b}) <= b
<1>1. \E x \in {a, b} : \A y \in {a, b} : x <= y
  <2>1. CASE a <= b
    BY <2>1
  <2>2. CASE b <= a
    BY <2>2
  <2> QED
    BY <2>1, <2>2
<1> QED
  BY <1>1 DEF Min

LEMMA PlannedType ==
  ASSUME NEW q \in Request, NEW s, NEW expected \in Nat
  PROVE  Planned(q, s, expected) \in Nat
<1>1. Multiplier(q, s) \in Nat
  <2>1. q.pace \in {"normal", "slow", "support"}
    BY DEF Request
  <2> QED
    BY <2>1 DEF Multiplier
<1>2. expected * Multiplier(q, s) + 99 \in Nat
  BY <1>1
<1> QED
  BY <1>2 DEF Planned

\* What a route is: a mode that the request allows and a number of minutes.
IsRoute(q, r) ==
  /\ r.mode \in q.modes /\ r.minutes \in Nat /\ r.walked \in Nat /\ r.ride \in Ride

LEMMA RouteType ==
  ASSUME NEW q \in Request, NEW s, NEW leg \in Legs, NEW t \in Nat, NEW m \in Modes,
         NEW r \in RoutesBy(q, s, leg, t, m)
  PROVE  IsRoute(q, r)
<1>1. m \in q.modes
  BY DEF RoutesBy
<1>2. CASE m = "walk"
  <2>1. r \in WalkRoutes(q, s, leg)
    BY <1>1, <1>2 DEF RoutesBy
  <2>2. WalkOf[leg] \in Nat /\ r = Route("walk", Planned(q, s, WalkOf[leg]), WalkOf[leg],
                                         Planned(q, s, WalkOf[leg]), NoRide)
    BY <2>1, TimelineAssumption DEF WalkRoutes
  <2> QED
    BY <1>1, <1>2, <2>2, PlannedType DEF IsRoute, Route, NoRide, Ride
<1>3. CASE m = "taxi"
  <2>1. r \in TaxiRoutes(q, leg)
    BY <1>1, <1>3 DEF RoutesBy
  <2>2. DriveOf[leg] \in Nat /\ r = Route("taxi", DriveOf[leg], 0, 0, NoRide)
    BY <2>1, TimelineAssumption DEF TaxiRoutes
  <2> QED
    BY <1>1, <1>3, <2>2 DEF IsRoute, Route, NoRide, Ride
<1>4. CASE m = "bus"
  <2>1. r \in BusRoutes(q, s, leg, t)
    BY <1>1, <1>4 DEF RoutesBy
  <2>2. PICK b \in Catchable(q, s, leg, t) :
          r = Route("bus", b.arrives + Planned(q, s, b.egress) - t, b.access + b.egress,
                    Planned(q, s, b.access) + Planned(q, s, b.egress),
                    [departs |-> b.departs, arrives |-> b.arrives])
    BY <2>1 DEF BusRoutes, FirstTried, FirstRides
  <2>3. b \in BusRide
    BY TimelineAssumption DEF Catchable
  <2>4. b.access \in Nat /\ b.egress \in Nat /\ b.departs \in Nat /\ b.arrives \in Nat
        /\ b.departs <= b.arrives
    BY <2>3 DEF BusRide
  <2>5. Planned(q, s, b.egress) \in Nat /\ Planned(q, s, b.access) \in Nat
    BY <2>4, PlannedType
  <2>6. b.departs >= t + Planned(q, s, b.access) + BoardingBuffer
    BY DEF Catchable
  <2>7. b.arrives + Planned(q, s, b.egress) - t \in Nat
    BY <2>4, <2>5, <2>6 DEF BoardingBuffer
  <2> QED
    BY <1>1, <1>4, <2>2, <2>4, <2>7 DEF IsRoute, Route, Ride
<1> QED
  BY <1>2, <1>3, <1>4 DEF Modes

LEMMA PlanType ==
  ASSUME NEW q \in Request, NEW s, NEW leg \in Legs, NEW t \in Nat, NEW r \in Plan(q, s, leg, t)
  PROVE  IsRoute(q, r)
<1> DEFINE found == Candidates(q, s, leg, t)
<1>1. Balanced(q, leg, Compared(q, leg, found)) \subseteq found
  <2>1. Compared(q, leg, found) \subseteq found
    BY DEF Compared
  <2>2. ASSUME NEW some PROVE Balanced(q, leg, some) \subseteq some
    BY DEF Balanced
  <2> QED
    BY <2>1, <2>2
<1>2. FirstPreferred(q, found) \subseteq found /\ Lightest(q, leg, found) \subseteq found
  BY DEF FirstPreferred, Lightest
<1>3. r \in found
  BY <1>1, <1>2 DEF Plan
<1>4. PICK m \in Modes : r \in RoutesBy(q, s, leg, t, m)
  BY <1>3 DEF Candidates
<1> QED
  BY <1>4, RouteType

LEMMA BufferType ==
  ASSUME NEW reason \in {"pickup", "slack", "wait"}, NEW s \in Nat, NEW e \in Nat,
         NEW p \in Places \cup {Start, End}
  PROVE  /\ Buffer(reason, s, e, p) \in TimelineEvent
         /\ Buffer(reason, s, e, p).type = "buffer" /\ Buffer(reason, s, e, p).place = p
         /\ Buffer(reason, s, e, p).start = s /\ Buffer(reason, s, e, p).end = e
BY DEF Buffer, Event, TimelineEvent, NoRide, Ride

LEMMA TransferType ==
  ASSUME NEW q \in Request, NEW r, IsRoute(q, r), NEW s \in Nat, NEW e \in Nat,
         NEW k \in Nat \cup {NoTime}
  PROVE  /\ Transfer(s, e, r, k) \in TimelineEvent
         /\ Transfer(s, e, r, k).type = "transfer" /\ Transfer(s, e, r, k).place = NoPlace
         /\ Transfer(s, e, r, k).start = s /\ Transfer(s, e, r, k).end = e
<1>1. r.mode \in Modes
  BY DEF IsRoute, Request
<1> QED
  BY <1>1 DEF IsRoute, Transfer, Event, TimelineEvent, NoRide, Ride

LEMMA ActivityType ==
  ASSUME NEW p \in Places, NEW s \in Nat, NEW e \in Nat
  PROVE  /\ Event(KindOf[p], s, e, p) \in TimelineEvent
         /\ Event(KindOf[p], s, e, p).type \in Kinds /\ Event(KindOf[p], s, e, p).place = p
         /\ Event(KindOf[p], s, e, p).start = s /\ Event(KindOf[p], s, e, p).end = e
<1>1. KindOf[p] \in Kinds
  BY TimelineAssumption
<1> QED
  BY <1>1 DEF Event, TimelineEvent, NoRide, Ride

--------------------------------------------------------------------------------
LEMMA HereType ==
  ASSUME TypeOK
  PROVE  Here \in {Start} \cup Places
BY DEF TypeOK, Here

LEMMA OfferType ==
  ASSUME TypeOK, NEW to \in {End} \cup Places, NEW r \in Offers(to)
  PROVE  /\ IsRoute(request, r) /\ Pickup(r) \in Nat
         /\ TransferBy(r) \in TimelineEvent
         /\ TransferBy(r).type = "transfer" /\ TransferBy(r).place = NoPlace
         /\ TransferBy(r).start = at + Pickup(r) /\ TransferBy(r).end = at + Pickup(r) + r.minutes
<1>1. request \in Request /\ at \in Nat
  BY PlanAssumption DEF TypeOK
<1>2. <<Here, to>> \in Legs
  BY HereType DEF Legs
<1>3. IsRoute(request, r)
  BY <1>1, <1>2, PlanType DEF Offers
<1>4. request.pickup \in Nat
  BY <1>1 DEF Request
<1>5. Pickup(r) \in Nat
  BY <1>4 DEF Pickup
<1>6. at + Pickup(r) \in Nat /\ at + Pickup(r) + r.minutes \in Nat
  BY <1>1, <1>3, <1>5 DEF IsRoute
<1> DEFINE k == IF r.mode = "taxi" /\ Balances THEN request.pickup ELSE NoTime
<1>7. k \in Nat \cup {NoTime}
  BY <1>4
<1>8. TransferBy(r) = Transfer(at + Pickup(r), at + Pickup(r) + r.minutes, r, k)
  BY DEF TransferBy
<1> HIDE DEF k
<1> QED
  BY <1>1, <1>3, <1>5, <1>6, <1>7, <1>8, TransferType, SMTT(30)

LEMMA ReadyType ==
  ASSUME NEW p \in Places, NEW arrival \in Nat, NEW ready \in ReadyAt(p, arrival)
  PROVE  ready \in Nat /\ ready >= arrival
<1> DEFINE earliest == IF KindOf[p] = "meal" THEN Max({arrival, LunchStart}) ELSE arrival
<1>1. earliest \in Nat /\ earliest >= arrival
  BY MaxOfTwo DEF LunchStart
<1>2. CASE WindowsOf[p] = {}
  BY <1>1, <1>2 DEF ReadyAt
<1>3. CASE WindowsOf[p] # {}
  <2>1. PICK w \in WindowsOf[p] : ready = ReadyIn(w, earliest)
    BY <1>3 DEF ReadyAt, Admitting
  <2>2. w.opens \in Nat
    BY TimelineAssumption DEF Window
  <2> HIDE DEF earliest
  <2>3. Max({earliest, w.opens}) \in Nat /\ Max({earliest, w.opens}) >= earliest
    BY <1>1, <2>2, MaxOfTwo
  <2>4. ready = Max({earliest, w.opens})
    BY <2>1 DEF ReadyIn
  <2>5. ready \in Nat /\ ready >= earliest
    BY <2>3, <2>4, Zenon
  <2> QED
    BY <1>1, <2>5, SMTT(30)
<1> QED
  BY <1>2, <1>3

--------------------------------------------------------------------------------
LEMMA LengthenedType ==
  ASSUME NEW o
  PROVE  Lengthened(o) \in [Places -> Nat]
BY PlanAssumption DEF Lengthened

LEMMA InitType ==
  ASSUME Init
  PROVE  TypeOK
<1>1. request \in Request
  BY PlanAssumption DEF Init
<1>2. request.proposals \in Seq(Seq(Places))
  BY <1>1 DEF Request
<1>3. Len(request.proposals) \in Nat /\ 2 \in Nat
  BY <1>2
<1>4. /\ Min({2, Len(request.proposals)}) \in Nat
      /\ Min({2, Len(request.proposals)}) <= Len(request.proposals)
  BY <1>3, MinOfTwo
<1> DEFINE n == Min({2, Len(request.proposals)})
<1>5. n \in Nat /\ \A i \in 1..n : request.proposals[i] \in Seq(Places)
  <2>1. n \in Nat /\ n <= Len(request.proposals)
    BY <1>4
  <2> HIDE DEF n
  <2> QED
    BY <1>2, <2>1
<1>6. orders = SubSeq(request.proposals, 1, n)
  BY DEF Init
<1>7. orders \in Seq(Seq(Places))
  <2> HIDE DEF n
  <2> QED
    BY <1>5, <1>6, SubSeqProperties
<1>8. order = <<>> /\ visited = 0 /\ timeline = <<>> /\ at = Open /\ streak = 0
      /\ stays = StayOf /\ phase = "order" /\ strategy \in Strategies /\ request \in Requests
  BY DEF Init
<1>9. order \in Seq(Places) /\ timeline \in Seq(TimelineEvent) /\ visited \in 0..Len(order)
  BY <1>8
<1> QED
  BY <1>7, <1>8, <1>9, PlanAssumption DEF TypeOK, Phases

\* An attempt keeps its type, at the beginning of the day.
LEMMA AttemptType ==
  ASSUME NEW o \in Seq(Places), NEW s \in [Places -> Nat], Attempt(o, s)
  PROVE  /\ order' \in Seq(Places) /\ stays' \in [Places -> Nat] /\ phase' \in Phases
         /\ visited' \in 0..Len(order)' /\ at' \in Nat /\ streak' \in Nat
         /\ timeline' \in Seq(TimelineEvent)
BY PlanAssumption DEF Attempt, Phases

\* What one leg adds to the timeline, for a place to stay at.
LEMMA VisitEvents ==
  ASSUME TypeOK, phase = "travel", visited < Len(order),
         NEW r \in Offers(order[visited + 1]),
         NEW ready \in ReadyAt(order[visited + 1], Arrival(r))
  PROVE  /\ order[visited + 1] \in Places /\ stays[order[visited + 1]] \in Nat
         /\ IsRoute(request, r) /\ Pickup(r) \in Nat
         /\ Arrival(r) \in Nat /\ Arrival(r) >= at + Pickup(r) + r.minutes
         /\ ready \in Nat /\ ready >= Arrival(r)
<1>1. order[visited + 1] \in Places /\ stays[order[visited + 1]] \in Nat
  BY DEF TypeOK
<1>2. IsRoute(request, r) /\ Pickup(r) \in Nat
  BY <1>1, OfferType
<1>3. SafetyBuffer[strategy] \in Nat
  BY DEF TypeOK, Strategies, SafetyBuffer
<1>4. at \in Nat /\ r.minutes \in Nat
  BY <1>2 DEF TypeOK, IsRoute
<1>5. Arrival(r) \in Nat /\ Arrival(r) >= at + Pickup(r) + r.minutes
  BY <1>2, <1>3, <1>4 DEF Arrival
<1> QED
  BY <1>1, <1>2, <1>5, ReadyType

LEMMA RemovedType ==
  ASSUME NEW o \in Seq(Places), NEW i \in DOMAIN o
  PROVE  RemoveAt(o, i) \in Seq(Places)
<1>1. SubSeq(o, 1, i - 1) \in Seq(Places) /\ SubSeq(o, i + 1, Len(o)) \in Seq(Places)
  BY SubSeqProperties
<1> QED
  BY <1>1 DEF RemoveAt

LEMMA NonEmptyType ==
  ASSUME NEW tl \in Seq(TimelineEvent), NEW e \in TimelineEvent
  PROVE  tl \o NonEmpty(e) \in Seq(TimelineEvent) /\ tl \o <<e>> \in Seq(TimelineEvent)
BY DEF NonEmpty

LEMMA HomeEvents ==
  ASSUME TypeOK, NEW to \in {End} \cup Places, NEW r \in Offers(to)
  PROVE  timeline \o PickupBuffer(r) \o <<TransferBy(r)>> \in Seq(TimelineEvent)
<1>1. Pickup(r) \in Nat /\ TransferBy(r) \in TimelineEvent
  BY OfferType
<1>2. Here \in Places \cup {Start, End} /\ at \in Nat /\ at + Pickup(r) \in Nat
  BY <1>1, HereType DEF TypeOK
<1>3. Buffer("pickup", at, at + Pickup(r), Here) \in TimelineEvent
  BY <1>2, BufferType
<1>4. timeline \o PickupBuffer(r) \in Seq(TimelineEvent)
  BY <1>3, NonEmptyType DEF PickupBuffer, TypeOK
<1> QED
  BY <1>1, <1>4, NonEmptyType

LEMMA VisitType ==
  ASSUME TypeOK, VisitNext
  PROVE  /\ timeline' \in Seq(TimelineEvent) /\ at' \in Nat /\ streak' \in Nat
         /\ visited' \in 0..Len(order)'
<1> DEFINE p == order[visited + 1]
<1>1. phase = "travel" /\ visited < Len(order)
  BY SMTT(30) DEF VisitNext
<1>2. PICK r \in Offers(p) : \E ready \in ReadyAt(p, Arrival(r)) :
        /\ timeline' = timeline \o PickupBuffer(r) \o <<TransferBy(r)>>
                        \o NonEmpty(Buffer("slack", at + Pickup(r) + r.minutes, Arrival(r), p))
                        \o NonEmpty(Buffer("wait", Arrival(r), ready, p))
                        \o <<Event(KindOf[p], ready, ready + stays[p], p)>>
        /\ at' = ready + stays[p]
  BY DEF VisitNext, StayAt
<1>3. PICK ready \in ReadyAt(p, Arrival(r)) :
        /\ timeline' = timeline \o PickupBuffer(r) \o <<TransferBy(r)>>
                        \o NonEmpty(Buffer("slack", at + Pickup(r) + r.minutes, Arrival(r), p))
                        \o NonEmpty(Buffer("wait", Arrival(r), ready, p))
                        \o <<Event(KindOf[p], ready, ready + stays[p], p)>>
        /\ at' = ready + stays[p]
  BY <1>2
<1>4. /\ p \in Places /\ stays[p] \in Nat /\ r.minutes \in Nat /\ Pickup(r) \in Nat
      /\ Arrival(r) \in Nat /\ ready \in Nat
  BY <1>1, VisitEvents DEF IsRoute
<1>5. at' \in Nat
  BY <1>3, <1>4
<1>6. timeline' \in Seq(TimelineEvent)
  <2> DEFINE left == at + Pickup(r) + r.minutes
             t1 == timeline \o PickupBuffer(r) \o <<TransferBy(r)>>
             t2 == t1 \o NonEmpty(Buffer("slack", left, Arrival(r), p))
             t3 == t2 \o NonEmpty(Buffer("wait", Arrival(r), ready, p))
  <2>1. t1 \in Seq(TimelineEvent)
    BY <1>4, HomeEvents
  <2>2. left \in Nat
    BY <1>4, SMTT(30) DEF TypeOK
  <2> HIDE DEF t1, p, left
  <2>3. t2 \in Seq(TimelineEvent)
    BY <1>4, <2>1, <2>2, BufferType, NonEmptyType
  <2> HIDE DEF t2
  <2>4. t3 \in Seq(TimelineEvent)
    BY <1>4, <2>3, BufferType, NonEmptyType
  <2> HIDE DEF t3
  <2>5. t3 \o <<Event(KindOf[p], ready, ready + stays[p], p)>> \in Seq(TimelineEvent)
    <3>1. ready + stays[p] \in Nat
      BY <1>4
    <3> QED
      BY <1>4, <2>4, <3>1, ActivityType, NonEmptyType
  <2> QED
    BY <1>3, <2>5 DEF t1, t2, t3, left
<1>7. streak' \in Nat
  <2>1. PICK q \in Offers(p) : streak' = IF KindOf[p] = "visit"
                THEN streak + Pickup(q) + q.minutes + stays[p] ELSE 0
    BY DEF VisitNext, StreakAfter
  <2>2. Pickup(q) \in Nat /\ q.minutes \in Nat
    BY <1>4, OfferType DEF IsRoute
  <2>3. streak \in Nat
    BY DEF TypeOK
  <2> HIDE DEF p
  <2> QED
    BY <1>4, <2>1, <2>2, <2>3, SMTT(30)
<1>8. visited' \in 0..Len(order)'
  BY <1>1 DEF VisitNext, TypeOK
<1> QED
  BY <1>5, <1>6, <1>7, <1>8

LEMMA TypeStep ==
  ASSUME TypeOK, [Next]_vars
  PROVE  TypeOK'
<1>1. CASE TakeOrder
  <2>1. Head(orders) \in Seq(Places) /\ Tail(orders) \in Seq(Seq(Places))
    BY <1>1, HeadTailProperties DEF TakeOrder, TypeOK
  <2>2. Lengthened(Head(orders)) \in [Places -> Nat]
    BY LengthenedType
  <2> QED
    BY <1>1, <2>1, <2>2, AttemptType, SMTT(30) DEF TakeOrder, TypeOK
<1>2. CASE RefuseDay
  BY <1>2 DEF RefuseDay, TypeOK, Phases
<1>3. CASE VisitNext
  BY <1>3, VisitType DEF VisitNext, TypeOK
<1>4. CASE MissNext
  BY <1>4 DEF MissNext, Infeasible, TypeOK, Phases
<1>5. CASE CannotReturn
  BY <1>5 DEF CannotReturn, Infeasible, TypeOK, Phases
<1>6. CASE ReturnLate
  BY <1>6 DEF ReturnLate, TypeOK, Phases
<1>7. CASE ReturnHome
  <2>1. PICK r \in Offers(End) : timeline' = timeline \o PickupBuffer(r) \o <<TransferBy(r)>>
                                /\ at' = ReturnAt(r)
    BY <1>7 DEF ReturnHome
  <2>2. timeline' \in Seq(TimelineEvent)
    BY <2>1, HomeEvents
  <2>3. at' \in Nat
    BY <2>1, OfferType DEF ReturnAt, TypeOK, IsRoute
  <2>4. phase' \in Phases
    BY <1>7 DEF ReturnHome, Recommended, Phases
  <2> QED
    BY <1>7, <2>2, <2>3, <2>4 DEF ReturnHome, TypeOK
<1>8. CASE ShortenVisit
  <2>1. PICK i \in DOMAIN order : Attempt(order, [stays EXCEPT ![order[i]] = MinStayOf[order[i]]])
    BY <1>8 DEF ShortenVisit
  <2>2. [stays EXCEPT ![order[i]] = MinStayOf[order[i]]] \in [Places -> Nat]
    BY PlanAssumption DEF TypeOK
  <2>3. order \in Seq(Places)
    BY DEF TypeOK
  <2> QED
    BY <1>8, <2>1, <2>2, <2>3, AttemptType DEF ShortenVisit, TypeOK
<1>9. CASE RemoveVisit
  <2>1. PICK i \in DOMAIN order : Attempt(RemoveAt(order, i), stays)
    BY <1>9 DEF RemoveVisit
  <2>2. RemoveAt(order, i) \in Seq(Places) /\ stays \in [Places -> Nat]
    BY RemovedType DEF TypeOK
  <2> QED
    BY <1>9, <2>1, <2>2, AttemptType DEF RemoveVisit, TypeOK
<1>10. CASE GiveUp
  BY <1>10 DEF GiveUp, Infeasible, TypeOK, Phases
<1>11. CASE UNCHANGED vars
  BY <1>11 DEF vars, TypeOK
<1> QED
  BY <1>1, <1>2, <1>3, <1>4, <1>5, <1>6, <1>7, <1>8, <1>9, <1>10, <1>11 DEF Next

\* Every variable keeps its type and the cursor stays inside the order, however
\* often the day is scheduled again.
THEOREM TypeCorrect == Spec => []TypeOK
<1>1. Init => TypeOK
  BY InitType
<1>2. TypeOK /\ [Next]_vars => TypeOK'
  BY TypeStep
<1> QED
  BY <1>1, <1>2, PTL DEF Spec

--------------------------------------------------------------------------------
\* Whole days.  The events of a timeline under construction hang together one by
\* one, which is what makes the places that the conversion looks for easy to find.

Moving(e) == e.type = "transfer"

Link(d, e) ==
  /\ d.end = e.start
  /\ Moving(d) => ~Moving(e)
  /\ ~Moving(d) => Moving(e) \/ e.place = d.place

Placed(e) == Moving(e) <=> e.place = NoPlace

\* The day begins at the start when the window opens, and is left for a place by
\* the first or the second event.
Chain(tl) ==
  /\ tl \in Seq(TimelineEvent)
  /\ \A i \in 1..Len(tl) : Placed(tl[i])
  /\ \A i \in 1..(Len(tl) - 1) : Link(tl[i], tl[i + 1])
  /\ tl # <<>> => tl[1].start = Open /\ (~Moving(tl[1]) => tl[1].place = Start)
  /\ Len(tl) >= 2 => Moving(tl[1]) \/ Moving(tl[2])

\* The traveller is at p at time t and can leave, or has just arrived there.
CanLeave(tl, t, p) ==
  /\ Chain(tl)
  /\ tl = <<>> => t = Open /\ p = Start
  /\ tl # <<>> => /\ Len(tl) >= 2 /\ ~Moving(tl[Len(tl)])
                  /\ tl[Len(tl)].end = t /\ tl[Len(tl)].place = p

Arrived(tl, t, p) ==
  /\ Chain(tl) /\ tl # <<>> /\ tl[Len(tl)].end = t
  /\ Moving(tl[Len(tl)]) \/ (Len(tl) >= 2 /\ tl[Len(tl)].place = p)

WholeInv ==
  TypeOK /\ PlansAreWhole /\ (phase = "travel" => CanLeave(timeline, at, Here))

LEMMA MaxIs ==
  ASSUME NEW S \in SUBSET Int, NEW m \in S, \A x \in S : m >= x
  PROVE  Max(S) = m
<1>1. \E x \in S : \A y \in S : x >= y
  OBVIOUS
<1>2. Max(S) \in S /\ Max(S) >= m
  BY <1>1 DEF Max
<1>3. m >= Max(S) /\ m \in Int /\ Max(S) \in Int
  BY <1>2
<1> QED
  BY <1>2, <1>3

LEMMA MinIs ==
  ASSUME NEW S \in SUBSET Int, NEW m \in S, \A x \in S : m <= x
  PROVE  Min(S) = m
<1>1. \E x \in S : \A y \in S : x <= y
  OBVIOUS
<1>2. Min(S) \in S /\ Min(S) <= m
  BY <1>1 DEF Min
<1>3. m <= Min(S) /\ m \in Int /\ Min(S) \in Int
  BY <1>2
<1> QED
  BY <1>2, <1>3

LEMMA OneMore ==
  ASSUME NEW S, NEW tl \in Seq(S), NEW e \in S
  PROVE  /\ tl \o <<e>> \in Seq(S) /\ tl \o <<e>> # <<>>
         /\ Len(tl \o <<e>>) = Len(tl) + 1 /\ (tl \o <<e>>)[Len(tl) + 1] = e
         /\ \A i \in 1..Len(tl) : (tl \o <<e>>)[i] = tl[i]
OBVIOUS

LEMMA ChainGrows ==
  ASSUME NEW tl, Chain(tl), NEW e \in TimelineEvent, Placed(e),
         tl = <<>> => e.start = Open /\ (~Moving(e) => e.place = Start),
         tl # <<>> => Link(tl[Len(tl)], e),
         Len(tl) = 1 => Moving(tl[1]) \/ Moving(e)
  PROVE  Chain(tl \o <<e>>)
<1> DEFINE new == tl \o <<e>>
<1>1. /\ tl \in Seq(TimelineEvent) /\ Len(tl) \in Nat
      /\ new \in Seq(TimelineEvent) /\ new # <<>> /\ Len(new) = Len(tl) + 1
      /\ new[Len(tl) + 1] = e /\ \A i \in 1..Len(tl) : new[i] = tl[i]
  BY OneMore DEF Chain
<1> HIDE DEF new
<1>2. \A i \in 1..Len(new) : Placed(new[i])
  BY <1>1 DEF Chain
<1>3. ASSUME NEW i \in 1..(Len(new) - 1)
      PROVE  Link(new[i], new[i + 1])
  <2>1. CASE i = Len(tl)
    BY <1>1, <2>1 DEF Chain
  <2>2. CASE i < Len(tl)
    BY <1>1, <2>2 DEF Chain
  <2> QED
    BY <1>1, <2>1, <2>2
<1>4. new[1].start = Open /\ (~Moving(new[1]) => new[1].place = Start)
  <2>1. CASE tl = <<>>
    BY <1>1, <2>1
  <2>2. CASE tl # <<>>
    <3>1. Len(tl) >= 1
      BY <1>1, <2>2
    <3>2. new[1] = tl[1]
      BY <1>1, <3>1
    <3> QED
      BY <2>2, <3>2 DEF Chain
  <2> QED
    BY <2>1, <2>2
<1>5. Len(new) >= 2 => Moving(new[1]) \/ Moving(new[2])
  <2>1. CASE Len(tl) = 1
    BY <1>1, <2>1
  <2>2. CASE Len(tl) >= 2
    <3>1. new[1] = tl[1] /\ new[2] = tl[2]
      BY <1>1, <2>2
    <3> QED
      BY <2>2, <3>1 DEF Chain
  <2>3. Len(tl) \in Nat /\ Len(new) = Len(tl) + 1
    BY <1>1
  <2> HIDE DEF new
  <2>4. Len(new) >= 2 => Len(tl) = 1 \/ Len(tl) >= 2
    BY <2>3, SMTT(30)
  <2> QED
    BY <2>1, <2>2, <2>4, ZenonT(60)
<1>6. Chain(new)
  BY <1>1, <1>2, <1>3, <1>4, <1>5 DEF Chain
<1> QED
  BY <1>6 DEF new

LEMMA StayAppended ==
  ASSUME NEW tl, NEW e \in TimelineEvent, ~Moving(e), e.place # NoPlace,
         Arrived(tl, e.start, e.place)
  PROVE  /\ Arrived(tl \o <<e>>, e.end, e.place)
         /\ CanLeave(tl \o <<e>>, e.end, e.place)
<1>1. /\ tl \in Seq(TimelineEvent) /\ Len(tl) \in Nat /\ Len(tl) >= 1
      /\ tl \o <<e>> # <<>> /\ Len(tl \o <<e>>) = Len(tl) + 1
      /\ (tl \o <<e>>)[Len(tl) + 1] = e
  BY OneMore DEF Arrived, Chain
<1>2. Link(tl[Len(tl)], e)
  BY DEF Arrived, Link
<1>3. Chain(tl \o <<e>>)
  BY <1>1, <1>2, ChainGrows DEF Arrived, Placed
<1> QED
  BY <1>1, <1>3 DEF Arrived, CanLeave

LEMMA WaitAppended ==
  ASSUME NEW tl, NEW e \in TimelineEvent, ~Moving(e), e.place # NoPlace, e.end >= e.start,
         Arrived(tl, e.start, e.place)
  PROVE  Arrived(tl \o NonEmpty(e), e.end, e.place)
<1>1. CASE e.end > e.start
  BY <1>1, StayAppended DEF NonEmpty
<1>2. CASE e.end = e.start
  <2>1. NonEmpty(e) = <<>> /\ tl \in Seq(TimelineEvent)
    BY <1>2 DEF NonEmpty, TimelineEvent, Arrived, Chain
  <2>2. tl \o NonEmpty(e) = tl
    BY <2>1
  <2> QED
    BY <1>2, <2>2
<1> QED
  BY <1>1, <1>2 DEF TimelineEvent

\* The pickup, if there is one, and the transfer.
LEMMA TransferAppended ==
  ASSUME TypeOK, CanLeave(timeline, at, Here), NEW to \in {End} \cup Places,
         NEW r \in Offers(to)
  PROVE  LET tl == timeline \o PickupBuffer(r) \o <<TransferBy(r)>>
         IN /\ Chain(tl) /\ tl # <<>> /\ Moving(tl[Len(tl)])
            /\ tl[Len(tl)].end = at + Pickup(r) + r.minutes
<1> DEFINE b == Buffer("pickup", at, at + Pickup(r), Here)
           tl == timeline \o PickupBuffer(r)
           t == TransferBy(r)
<1>1. /\ Pickup(r) \in Nat /\ at \in Nat /\ at + Pickup(r) \in Nat
      /\ t \in TimelineEvent /\ Moving(t) /\ Placed(t)
      /\ t.start = at + Pickup(r) /\ t.end = at + Pickup(r) + r.minutes
  BY OfferType DEF TypeOK, Moving, Placed
<1>2. Here \in Places \cup {Start, End} /\ Here # NoPlace
  BY HereType, TimelineAssumption
<1>3. /\ b \in TimelineEvent /\ ~Moving(b) /\ b.place = Here /\ Placed(b)
      /\ b.start = at /\ b.end = at + Pickup(r)
  BY <1>1, <1>2, BufferType DEF Moving, Placed
<1> HIDE DEF b, t
<1>4. timeline \in Seq(TimelineEvent) /\ Len(timeline) \in Nat
  BY DEF TypeOK
<1>5. /\ Chain(tl)
      /\ tl = <<>> => t.start = Open
      /\ tl # <<>> => tl[Len(tl)].end = t.start /\ ~Moving(tl[Len(tl)])
  <2>1. CASE Pickup(r) = 0
    <3>1. PickupBuffer(r) = <<>>
      BY <1>1, <1>3, <2>1 DEF PickupBuffer, NonEmpty, b
    <3>2. tl = timeline
      BY <1>4, <3>1
    <3> QED
      BY <1>1, <2>1, <3>2 DEF CanLeave
  <2>2. CASE Pickup(r) > 0
    <3>1. PickupBuffer(r) = <<b>>
      BY <1>1, <1>3, <2>2 DEF PickupBuffer, NonEmpty, b
    <3>2. Chain(timeline \o <<b>>)
      <4>1. timeline # <<>> => Link(timeline[Len(timeline)], b)
        BY <1>3 DEF CanLeave, Link
      <4>2. timeline = <<>> => b.start = Open /\ b.place = Start
        BY <1>3 DEF CanLeave
      <4>3. Len(timeline) # 1
        BY <1>4 DEF CanLeave
      <4> QED
        BY <1>3, <4>1, <4>2, <4>3, ChainGrows DEF CanLeave
    <3>3. /\ Len(timeline \o <<b>>) = Len(timeline) + 1
          /\ (timeline \o <<b>>)[Len(timeline) + 1] = b
      BY <1>3, <1>4, OneMore
    <3> QED
      BY <1>1, <1>3, <3>1, <3>2, <3>3
  <2> QED
    BY <1>1, <2>1, <2>2
<1> HIDE DEF tl
<1>6. Chain(tl \o <<t>>)
  BY <1>1, <1>5, ChainGrows DEF Link
<1>7. /\ tl \o <<t>> # <<>> /\ Len(tl \o <<t>>) = Len(tl) + 1
      /\ (tl \o <<t>>)[Len(tl) + 1] = t
  BY <1>1, <1>5, OneMore DEF Chain
<1>8. Moving((tl \o <<t>>)[Len(tl \o <<t>>)])
      /\ (tl \o <<t>>)[Len(tl \o <<t>>)].end = at + Pickup(r) + r.minutes
  BY <1>1, <1>7
<1> QED
  BY <1>6, <1>7, <1>8 DEF tl, t

LEMMA VisitAppended ==
  ASSUME TypeOK, phase = "travel", CanLeave(timeline, at, Here), VisitNext
  PROVE  CanLeave(timeline', at', order[visited + 1])
<1> DEFINE p == order[visited + 1]
<1>1. visited < Len(order)
  BY SMTT(30) DEF VisitNext
<1>2. PICK r \in Offers(p) : \E ready \in ReadyAt(p, Arrival(r)) :
        /\ timeline' = timeline \o PickupBuffer(r) \o <<TransferBy(r)>>
                        \o NonEmpty(Buffer("slack", at + Pickup(r) + r.minutes, Arrival(r), p))
                        \o NonEmpty(Buffer("wait", Arrival(r), ready, p))
                        \o <<Event(KindOf[p], ready, ready + stays[p], p)>>
        /\ at' = ready + stays[p]
  BY DEF VisitNext, StayAt
<1>3. PICK ready \in ReadyAt(p, Arrival(r)) :
        /\ timeline' = timeline \o PickupBuffer(r) \o <<TransferBy(r)>>
                        \o NonEmpty(Buffer("slack", at + Pickup(r) + r.minutes, Arrival(r), p))
                        \o NonEmpty(Buffer("wait", Arrival(r), ready, p))
                        \o <<Event(KindOf[p], ready, ready + stays[p], p)>>
        /\ at' = ready + stays[p]
  BY <1>2
<1> DEFINE left == at + Pickup(r) + r.minutes
           t1 == timeline \o PickupBuffer(r) \o <<TransferBy(r)>>
           slack == Buffer("slack", left, Arrival(r), p)
           t2 == t1 \o NonEmpty(slack)
           wait == Buffer("wait", Arrival(r), ready, p)
           t3 == t2 \o NonEmpty(wait)
           stay == Event(KindOf[p], ready, ready + stays[p], p)
<1>4. /\ p \in Places /\ stays[p] \in Nat /\ left \in Nat
      /\ Arrival(r) \in Nat /\ Arrival(r) >= left /\ ready \in Nat /\ ready >= Arrival(r)
      /\ ready + stays[p] \in Nat
  <2>1. /\ p \in Places /\ stays[p] \in Nat /\ r.minutes \in Nat /\ Pickup(r) \in Nat
        /\ Arrival(r) \in Nat /\ Arrival(r) >= at + Pickup(r) + r.minutes
        /\ ready \in Nat /\ ready >= Arrival(r)
    BY <1>1, VisitEvents DEF IsRoute
  <2>2. at \in Nat
    BY DEF TypeOK
  <2> QED
    BY <2>1, <2>2
<1>5. Arrived(t1, left, p)
  <2>1. /\ Chain(t1) /\ t1 # <<>> /\ Moving(t1[Len(t1)])
        /\ t1[Len(t1)].end = left
    BY <1>4, TransferAppended
  <2> HIDE DEF t1, left
  <2> QED
    BY <2>1 DEF Arrived
<1>6. p # NoPlace
  BY <1>4, TimelineAssumption
<1>7. /\ slack \in TimelineEvent /\ ~Moving(slack) /\ slack.place = p
      /\ slack.start = left /\ slack.end = Arrival(r)
  BY <1>4, BufferType DEF Moving
<1>8. /\ wait \in TimelineEvent /\ ~Moving(wait) /\ wait.place = p
      /\ wait.start = Arrival(r) /\ wait.end = ready
  BY <1>4, BufferType DEF Moving
<1>9. /\ stay \in TimelineEvent /\ ~Moving(stay) /\ stay.place = p
      /\ stay.start = ready /\ stay.end = ready + stays[p]
  BY <1>4, ActivityType DEF Moving, Kinds
<1>10. timeline' = t3 \o <<stay>> /\ at' = ready + stays[p]
  BY <1>3
<1> HIDE DEF left, t1, slack, wait, stay, p
<1>11. Arrived(t2, Arrival(r), p)
  BY <1>4, <1>5, <1>6, <1>7, WaitAppended
<1> HIDE DEF t2
<1>12. Arrived(t3, ready, p)
  BY <1>4, <1>6, <1>8, <1>11, WaitAppended
<1> HIDE DEF t3
<1>13. CanLeave(t3 \o <<stay>>, ready + stays[p], p)
  BY <1>6, <1>9, <1>12, StayAppended
<1> QED
  BY <1>10, <1>13 DEF p

\* The event before or after a transfer says where it begins or ends.
LeavesFrom(tl, i) == IF i = 1 THEN Start ELSE tl[i - 1].place
Reaches(tl, i, to) == IF i = Len(tl) THEN to ELSE tl[i + 1].place

LEMMA Neighbours ==
  ASSUME NEW tl, Chain(tl), NEW i \in 1..Len(tl), Moving(tl[i])
  PROVE  FromOf(tl, i) = LeavesFrom(tl, i) /\ ToOf(tl, i) = Reaches(tl, i, End)
<1>1. tl \in Seq(TimelineEvent) /\ Len(tl) \in Nat
  BY DEF Chain
<1>2. FromOf(tl, i) = LeavesFrom(tl, i)
  <2> DEFINE named == {j \in 1..(i - 1) : tl[j].place # NoPlace}
  <2>1. CASE i = 1
    BY <2>1 DEF FromOf, LeavesFrom
  <2>2. CASE i # 1
    <3>1. i - 1 \in 1..(Len(tl) - 1) /\ i - 1 + 1 = i
      BY <1>1, <2>2
    <3>2. ~Moving(tl[i - 1])
      BY <3>1 DEF Chain, Link
    <3>3. i - 1 \in named
      BY <1>1, <3>1, <3>2 DEF Chain, Placed
    <3>4. Max(named) = i - 1
      <4>1. named \in SUBSET Int /\ \A x \in named : i - 1 >= x
        BY <3>1
      <4> HIDE DEF named
      <4> QED
        BY <3>3, <4>1, MaxIs
    <3> QED
      BY <2>2, <3>3, <3>4 DEF FromOf, LeavesFrom
  <2> QED
    BY <2>1, <2>2
<1>3. ToOf(tl, i) = Reaches(tl, i, End)
  <2> DEFINE named == {j \in (i + 1)..Len(tl) : tl[j].place # NoPlace}
  <2>1. CASE i = Len(tl)
    <3>1. named = {}
      BY <1>1, <2>1
    <3> QED
      BY <2>1, <3>1 DEF ToOf, Reaches
  <2>2. CASE i # Len(tl)
    <3>1. i \in 1..(Len(tl) - 1) /\ i + 1 \in 1..Len(tl)
      BY <1>1, <2>2
    <3>2. ~Moving(tl[i + 1])
      BY <3>1 DEF Chain, Link
    <3>3. i + 1 \in named
      BY <1>1, <3>1, <3>2 DEF Chain, Placed
    <3>4. Min(named) = i + 1
      <4>1. named \in SUBSET Int /\ \A x \in named : i + 1 <= x
        BY <3>1
      <4> HIDE DEF named
      <4> QED
        BY <3>3, <4>1, MinIs
    <3> QED
      BY <2>2, <3>3, <3>4 DEF ToOf, Reaches
  <2> QED
    BY <2>1, <2>2
<1> QED
  BY <1>2, <1>3

\* A chain that ends with a transfer is a day of the evaluator from boundary to
\* boundary, without gaps.
LEMMA ChainIsWhole ==
  ASSUME NEW tl, Chain(tl), tl # <<>>, Moving(tl[Len(tl)])
  PROVE  /\ Gapless(tl) /\ Continuous(tl)
         /\ Transfers(tl) # {} /\ tl[1].start = Open
         /\ FromOf(tl, Min(Transfers(tl))) = Start /\ ToOf(tl, Max(Transfers(tl))) = End
<1>1. /\ tl \in Seq(TimelineEvent) /\ Len(tl) \in Nat /\ Len(tl) >= 1
      /\ DOMAIN tl = 1..Len(tl)
  BY DEF Chain
<1>2. Len(tl) \in Nat /\ Len(tl) >= 1
  BY <1>1
<1>3. Transfers(tl) = {i \in 1..Len(tl) : Moving(tl[i])}
  BY <1>1 DEF Transfers, Moving
<1>4. Gapless(tl)
  BY <1>1 DEF Gapless, Chain, Link
<1>5. \A i \in 1..Len(tl) : Moving(tl[i]) => FromOf(tl, i) = LeavesFrom(tl, i)
  BY Neighbours
<1>6. \A i \in 1..Len(tl) : Moving(tl[i]) => ToOf(tl, i) = Reaches(tl, i, End)
  BY Neighbours
<1>7. Continuous(tl)
  <2>1. SUFFICES ASSUME NEW i \in 1..(Len(tl) - 1)
                 PROVE  PlaceAfter(tl, i) = PlaceBefore(tl, i + 1)
    BY DEF Continuous
  <2>2. i \in 1..Len(tl) /\ i + 1 \in 1..Len(tl) /\ i # Len(tl) /\ i + 1 # 1 /\ i + 1 - 1 = i
    BY <1>2
  <2>3. CASE Moving(tl[i])
    <3>1. ~Moving(tl[i + 1])
      BY <2>1, <2>3 DEF Chain, Link
    <3> QED
      BY <1>6, <2>2, <2>3, <3>1 DEF PlaceAfter, PlaceBefore, Moving, Reaches
  <2>4. CASE ~Moving(tl[i]) /\ Moving(tl[i + 1])
    BY <1>5, <2>2, <2>4 DEF PlaceAfter, PlaceBefore, Moving, LeavesFrom
  <2>5. CASE ~Moving(tl[i]) /\ ~Moving(tl[i + 1])
    BY <2>1, <2>5 DEF PlaceAfter, PlaceBefore, Moving, Chain, Link
  <2> QED
    BY <2>3, <2>4, <2>5
<1>8. FromOf(tl, Min(Transfers(tl))) = Start
  <2>1. CASE Moving(tl[1])
    <3>1. 1 \in Transfers(tl) /\ Transfers(tl) \in SUBSET Int /\ \A x \in Transfers(tl) : 1 <= x
      BY <1>1, <1>3, <2>1
    <3>2. Min(Transfers(tl)) = 1
      BY <3>1, MinIs
    <3> QED
      BY <1>1, <1>5, <2>1, <3>2 DEF LeavesFrom
  <2>2. CASE ~Moving(tl[1])
    <3>1. Len(tl) >= 2
      BY <1>1, <2>2
    <3>2. Moving(tl[2]) /\ tl[1].place = Start
      BY <2>2, <3>1 DEF Chain
    <3>3. 2 \in Transfers(tl) /\ Transfers(tl) \in SUBSET Int /\ \A x \in Transfers(tl) : 2 <= x
      BY <1>1, <1>3, <2>2, <3>1, <3>2
    <3>4. Min(Transfers(tl)) = 2
      BY <3>3, MinIs
    <3> QED
      BY <1>1, <1>5, <3>1, <3>2, <3>4 DEF LeavesFrom
  <2> QED
    BY <2>1, <2>2
<1>9. ToOf(tl, Max(Transfers(tl))) = End
  <2>1. /\ Len(tl) \in Transfers(tl) /\ Transfers(tl) \in SUBSET Int
        /\ \A x \in Transfers(tl) : Len(tl) >= x
    BY <1>1, <1>3
  <2>2. Max(Transfers(tl)) = Len(tl)
    BY <2>1, MaxIs
  <2>3. Len(tl) \in 1..Len(tl)
    BY <1>2
  <2> QED
    BY <1>6, <2>2, <2>3 DEF Reaches
<1> QED
  BY <1>1, <1>3, <1>4, <1>7, <1>8, <1>9 DEF Chain

LEMMA WholeStep ==
  ASSUME WholeInv, [Next]_vars
  PROVE  WholeInv'
<1>1. TypeOK /\ TypeOK'
  BY TypeStep DEF WholeInv
<1>2. ASSUME NEW o, NEW s, Attempt(o, s)
      PROVE  /\ phase' # "recommended"
             /\ phase' = "travel" => CanLeave(timeline', at', Here')
  <2>1. timeline' = <<>> /\ at' = Open /\ visited' = 0 /\ phase' # "recommended"
    BY <1>2 DEF Attempt
  <2>2. Chain(<<>>)
    BY DEF Chain
  <2> QED
    BY <2>1, <2>2 DEF CanLeave, Here
<1>3. CASE TakeOrder
  BY <1>1, <1>2, <1>3 DEF TakeOrder, WholeInv, PlansAreWhole
<1>4. CASE VisitNext
  <2>1. phase = "travel" /\ phase' = phase /\ order' = order /\ visited' = visited + 1
    BY <1>4 DEF VisitNext
  <2>2. CanLeave(timeline', at', order[visited + 1])
    BY <1>1, <1>4, <2>1, VisitAppended DEF WholeInv
  <2>3. Here' = order[visited + 1]
    <3>1. visited \in Nat
      BY <1>1 DEF TypeOK
    <3>2. visited + 1 # 0
      BY <3>1
    <3> QED
      BY <2>1, <3>2 DEF Here
  <2> QED
    BY <1>1, <2>1, <2>2, <2>3 DEF WholeInv, PlansAreWhole
<1>5. CASE ReturnHome
  <2>1. PICK r \in Offers(End) :
          /\ ~IsLate(r) /\ at' = ReturnAt(r)
          /\ timeline' = timeline \o PickupBuffer(r) \o <<TransferBy(r)>>
    BY <1>5 DEF ReturnHome
  <2>2. phase = "travel" /\ phase' # "travel" /\ request' = request
    BY <1>5 DEF ReturnHome, Recommended, Returning
  <2>3. /\ Chain(timeline') /\ timeline' # <<>> /\ Moving(timeline'[Len(timeline')])
        /\ timeline'[Len(timeline')].end = ReturnAt(r)
    BY <1>1, <2>1, <2>2, TransferAppended DEF WholeInv, ReturnAt
  <2>4. ReturnAt(r) \in Nat /\ request.close \in Nat /\ ReturnAt(r) + ReturnBuffer <= request.close
    <3>1. request.close \in Nat
      BY <1>1, PlanAssumption DEF TypeOK, Request
    <3>2. ReturnAt(r) \in Nat
      BY <1>1, <2>1 DEF TypeOK
    <3> QED
      BY <2>1, <3>1, <3>2 DEF IsLate, ReturnBuffer
  <2>5. ReturnAt(r) <= request.close
    BY <2>4 DEF ReturnBuffer
  <2>6. PlansAreWhole'
    BY <2>1, <2>2, <2>3, <2>4, <2>5, ChainIsWhole DEF PlansAreWhole, BoundaryComplete
  <2> QED
    BY <1>1, <2>2, <2>6 DEF WholeInv
<1>6. CASE ShortenVisit
  BY <1>1, <1>2, <1>6 DEF ShortenVisit, WholeInv, PlansAreWhole
<1>7. CASE RemoveVisit
  BY <1>1, <1>2, <1>7 DEF RemoveVisit, WholeInv, PlansAreWhole
<1>8. CASE RefuseDay \/ MissNext \/ CannotReturn \/ ReturnLate \/ GiveUp
  <2>1. phase' \in {"refused", "order", "late"}
    BY <1>8 DEF RefuseDay, MissNext, CannotReturn, ReturnLate, GiveUp, Infeasible
  <2> QED
    BY <1>1, <2>1 DEF WholeInv, PlansAreWhole
<1>9. CASE UNCHANGED vars
  BY <1>1, <1>9, ZenonT(60) DEF vars, WholeInv, PlansAreWhole, Here, BoundaryComplete, Gapless,
    Continuous, Transfers, FromOf, ToOf, PlaceAfter, PlaceBefore
<1> QED
  BY <1>3, <1>4, <1>5, <1>6, <1>7, <1>8, <1>9 DEF Next

\* A recommended day runs from boundary to boundary without gaps in time or
\* place and leaves 20 minutes, whatever attempts and repairs came before it.
THEOREM PlansAreWholeAlways == Spec => []PlansAreWhole
<1>1. Init => WholeInv
  BY InitType DEF Init, WholeInv, PlansAreWhole
<1>2. WholeInv /\ [Next]_vars => WholeInv'
  BY WholeStep
<1>3. WholeInv => PlansAreWhole
  BY DEF WholeInv
<1> QED
  BY <1>1, <1>2, <1>3, PTL DEF Spec

--------------------------------------------------------------------------------
\* Kept promises and feasible days.  What is said of a finished day is kept event
\* by event while it is built.

\* Every stay is as long as it was when it was scheduled, within the hours of the
\* place and the time for lunch.
StayOk(s, e) ==
  /\ e.place \in Places /\ e.type = KindOf[e.place] /\ e.end - e.start = s[e.place]
  /\ WindowsOf[e.place] # {} =>
       \E w \in WindowsOf[e.place] :
         /\ w.opens <= e.start /\ e.end <= w.closes
         /\ w.lastIn # NoTime => e.start <= w.lastIn
  /\ e.type = "meal" => e.start >= LunchStart /\ e.end <= LunchEnd

\* A transfer takes the time of the route that was found for it, and a taxi comes
\* after its pickup.
Called(q, tl, i) ==
  /\ i > 1 /\ tl[i - 1].reason = "pickup" /\ tl[i - 1].end = tl[i].start
  /\ tl[i - 1].end - tl[i - 1].start = q.pickup /\ tl[i].pickup = q.pickup

LegOk(q, s, tl, i, to) ==
  /\ <<LeavesFrom(tl, i), to>> \in Legs
  /\ \E r \in RoutesBy(q, s, <<LeavesFrom(tl, i), to>>, tl[i].start, tl[i].mode) :
       tl[i].end - tl[i].start = r.minutes /\ tl[i].ride = r.ride
  /\ tl[i].mode = "taxi" /\ q.policy = "cost_time_balance" /\ q.pickup > 0 => Called(q, tl, i)

\* A timeline whose last transfer goes to the place to.
Sound(q, s, st, tl, to) ==
  /\ \A i, j \in 1..Len(tl) : i <= j => tl[i].end <= tl[j].end
  /\ \A i \in 1..Len(tl) : Activity(tl[i]) => StayOk(st, tl[i])
  /\ \A i \in 1..Len(tl) : Moving(tl[i]) => LegOk(q, s, tl, i, Reaches(tl, i, to))

StayedAt(tl, p) == \E i \in 1..Len(tl) : Activity(tl[i]) /\ tl[i].place = p

\* The stays that no repair touches, and how short the others may become.
Protected(q, p) == p \in q.required \/ KindOf[p] # "visit"
Firm(q, s) ==
  \A p \in Places :
    /\ s[p] >= Min({StayOf[p], MinStayOf[p]})
    /\ p \in q.fixed => s[p] = StayOf[p]
    /\ Protected(q, p) => s[p] >= StayOf[p]

Keeps(q, o) ==
  /\ q.required \subseteq ToSet(o)
  /\ \E a \in ToSet(q.proposals) : \A p \in ToSet(a) : KindOf[p] # "visit" => p \in ToSet(o)

SoundInv ==
  /\ \A i \in 1..Len(orders) : orders[i] \in ToSet(request.proposals)
  /\ Firm(request, stays)
  /\ phase \in {"travel", "late", "recommended"} => Keeps(request, order)
  /\ phase \in {"travel", "recommended"} =>
       /\ Sound(request, strategy, stays, timeline, End)
       /\ \A k \in 1..visited : StayedAt(timeline, order[k])
  /\ phase = "recommended" =>
       /\ visited = Len(order) /\ Moderate(timeline)
       /\ Chain(timeline) /\ timeline # <<>> /\ Moving(timeline[Len(timeline)])
       /\ timeline[Len(timeline)].end <= request.close

--------------------------------------------------------------------------------
\* A set of naturals that is not empty has a least element.
LEMMA MinOfNaturals ==
  ASSUME NEW S \in SUBSET Nat, S # {}
  PROVE  Min(S) \in S /\ \A x \in S : Min(S) <= x
<1>1. IsWellFoundedOn(OpToRel(<, Nat), Nat)
  BY NatLessThanWellFounded
<1>2. PICK x \in S : \A y \in S : <<y, x>> \notin OpToRel(<, Nat)
  BY <1>1, WFMin
<1>3. \A y \in S : x <= y
  <2> SUFFICES ASSUME NEW y \in S PROVE x <= y
    OBVIOUS
  <2>1. ~(y < x)
    BY <1>2 DEF OpToRel
  <2> QED
    BY <2>1
<1> QED
  BY <1>3 DEF Min

\* Of finitely many windows one opens last.
LEMMA LastOpens ==
  ASSUME NEW W \in SUBSET Window, IsFiniteSet(W), W # {}
  PROVE  \E w \in W : \A v \in W : w.opens >= v.opens
<1> DEFINE later(w) == {v \in W : v.opens > w.opens}
           counts == {Cardinality(later(w)) : w \in W}
<1>1. \A w \in W : w.opens \in Nat
  BY DEF Window
<1>2. \A w \in W : IsFiniteSet(later(w)) /\ Cardinality(later(w)) \in Nat
  <2> SUFFICES ASSUME NEW w \in W
               PROVE  IsFiniteSet(later(w)) /\ Cardinality(later(w)) \in Nat
    OBVIOUS
  <2>1. later(w) \in SUBSET W
    OBVIOUS
  <2> HIDE DEF later
  <2> QED
    BY <2>1, FS_Subset, FS_CardinalityType
<1>3. counts \in SUBSET Nat /\ counts # {}
  BY <1>2
<1>4. PICK w \in W : \A v \in W : Cardinality(later(w)) <= Cardinality(later(v))
  <2>1. Min(counts) \in counts /\ \A x \in counts : Min(counts) <= x
    <3> HIDE DEF counts
    <3> QED
      BY <1>3, MinOfNaturals
  <2> HIDE DEF later
  <2> QED
    BY <2>1
<1>5. ASSUME NEW v \in W, v.opens > w.opens
      PROVE  FALSE
  <2>1. later(v) \in SUBSET later(w) /\ v \in later(w) /\ v \notin later(v)
    BY <1>1, <1>5
  <2> HIDE DEF later
  <2>2. Cardinality(later(v)) <= Cardinality(later(w))
    BY <1>2, <2>1, FS_Subset
  <2>3. Cardinality(later(v)) = Cardinality(later(w))
    BY <1>2, <1>4, <2>2
  <2> QED
    BY <1>2, <2>1, <2>3, FS_Subset
<1> QED
  BY <1>1, <1>5

LEMMA AdmissionType ==
  ASSUME NEW p \in Places
  PROVE  LastAdmission(p) \in Nat \cup {NoTime}
<1> DEFINE stated == {w \in WindowsOf[p] : w.lastIn # NoTime}
           last == CHOOSE w \in stated : \A v \in stated : w.opens >= v.opens
<1>1. WindowsOf[p] \in SUBSET Window /\ IsFiniteSet(WindowsOf[p])
  BY TimelineAssumption
<1>2. stated \in SUBSET WindowsOf[p]
  OBVIOUS
<1>3. CASE stated = {}
  BY <1>3 DEF LastAdmission
<1>4. CASE stated # {}
  <2>1. \E w \in stated : \A v \in stated : w.opens >= v.opens
    <3> HIDE DEF stated
    <3>1. IsFiniteSet(stated) /\ stated \in SUBSET Window
      BY <1>1, <1>2, FS_Subset
    <3> QED
      BY <1>4, <3>1, LastOpens
  <2>2. last \in stated
    <3> HIDE DEF stated
    <3> QED
      BY <2>1
  <2>3. last \in Window
    BY <1>1, <2>2
  <2>4. LastAdmission(p) = last.lastIn
    BY <1>4 DEF LastAdmission
  <2> HIDE DEF last
  <2> QED
    BY <2>3, <2>4 DEF Window
<1> QED
  BY <1>3, <1>4

--------------------------------------------------------------------------------
\* Nobody plans to walk faster than in a balanced day.
LEMMA BalancedIsQuickest ==
  ASSUME NEW q \in Request, NEW s, NEW e \in Nat
  PROVE  Planned(q, "balanced", e) <= Planned(q, s, e)
<1>1. q.pace \in {"normal", "slow", "support"}
  BY DEF Request
<1>2. \/ Multiplier(q, s) = Multiplier(q, "balanced")
      \/ Multiplier(q, s) = 125 /\ Multiplier(q, "balanced") = 115
  <2>1. CASE q.pace = "support" \/ q.pace = "slow"
    BY <2>1 DEF Multiplier
  <2>2. CASE q.pace = "normal"
    BY <2>2 DEF Multiplier
  <2> QED
    BY <1>1, <2>1, <2>2
<1>3. CASE Multiplier(q, s) = Multiplier(q, "balanced")
  <2>1. Planned(q, s, e) = Planned(q, "balanced", e)
    BY <1>3 DEF Planned
  <2> QED
    BY <2>1, PlannedType
<1>4. CASE Multiplier(q, s) = 125 /\ Multiplier(q, "balanced") = 115
  <2>1. (e * 115 + 99) \div 100 <= (e * 125 + 99) \div 100
    OBVIOUS
  <2> QED
    BY <1>4, <2>1 DEF Planned
<1> QED
  BY <1>2, <1>3, <1>4

\* Whoever plans to walk at the same speed finds the same routes.
LEMMA SameRoutes ==
  ASSUME NEW q, NEW s, Multiplier(q, s) = Multiplier(q, "balanced"),
         NEW leg, NEW t, NEW m
  PROVE  RoutesBy(q, s, leg, t, m) = RoutesBy(q, "balanced", leg, t, m)
<1>1. \A e : Planned(q, s, e) = Planned(q, "balanced", e)
  BY DEF Planned
<1>2. WalkRoutes(q, s, leg) = WalkRoutes(q, "balanced", leg)
  BY <1>1 DEF WalkRoutes
<1>3. Catchable(q, s, leg, t) = Catchable(q, "balanced", leg, t)
  BY <1>1 DEF Catchable
<1>4. FirstRides(q, s, leg, t) = FirstRides(q, "balanced", leg, t)
  BY <1>3 DEF FirstRides
<1>5. BusRoutes(q, s, leg, t) = BusRoutes(q, "balanced", leg, t)
  BY <1>1, <1>4 DEF BusRoutes
<1> QED
  BY <1>2, <1>5 DEF RoutesBy

\* The route that is taken is the one found for its mode, whenever a route that
\* is no ride is asked for again.
LEMMA ChosenRoute ==
  ASSUME NEW q, NEW s, NEW leg, NEW t, NEW r \in Plan(q, s, leg, t)
  PROVE  /\ r.mode \in Modes
         /\ r \in RoutesBy(q, s, leg, t, r.mode)
         /\ r.mode # "bus" => \A u : r \in RoutesBy(q, s, leg, u, r.mode)
<1> DEFINE found == Candidates(q, s, leg, t)
<1>1. Balanced(q, leg, Compared(q, leg, found)) \subseteq found
  <2>1. Compared(q, leg, found) \subseteq found
    BY DEF Compared
  <2>2. ASSUME NEW some PROVE Balanced(q, leg, some) \subseteq some
    BY DEF Balanced
  <2> QED
    BY <2>1, <2>2
<1>2. FirstPreferred(q, found) \subseteq found /\ Lightest(q, leg, found) \subseteq found
  BY DEF FirstPreferred, Lightest
<1>3. r \in found
  BY <1>1, <1>2 DEF Plan
<1>4. PICK m \in Modes : r \in RoutesBy(q, s, leg, t, m)
  BY <1>3 DEF Candidates
<1>5. r.mode = m
  <2>1. CASE m = "walk"
    BY <1>4, <2>1 DEF RoutesBy, WalkRoutes, Route
  <2>2. CASE m = "taxi"
    BY <1>4, <2>2 DEF RoutesBy, TaxiRoutes, Route
  <2>3. CASE m = "bus"
    BY <1>4, <2>3 DEF RoutesBy, BusRoutes, Route
  <2> QED
    BY <2>1, <2>2, <2>3 DEF Modes
<1>6. m # "bus" => \A u : r \in RoutesBy(q, s, leg, u, m)
  <2>1. CASE m = "walk"
    BY <1>4, <2>1 DEF RoutesBy
  <2>2. CASE m = "taxi"
    BY <1>4, <2>2 DEF RoutesBy
  <2> QED
    BY <2>1, <2>2 DEF Modes
<1> QED
  BY <1>4, <1>5, <1>6

LEMMA LegStays ==
  ASSUME NEW q, NEW s, NEW tl, NEW new, NEW i \in Nat \ {0}, NEW to,
         new[i] = tl[i], i > 1 => new[i - 1] = tl[i - 1], LegOk(q, s, tl, i, to)
  PROVE  LegOk(q, s, new, i, to)
<1>1. LeavesFrom(new, i) = LeavesFrom(tl, i)
  BY DEF LeavesFrom
<1>2. Called(q, tl, i) => Called(q, new, i)
  BY DEF Called
<1> QED
  BY <1>1, <1>2 DEF LegOk

LEMMA SoundGrows ==
  ASSUME NEW q, NEW s, NEW st, NEW to, NEW next,
         NEW tl \in Seq(TimelineEvent), Sound(q, s, st, tl, to),
         NEW e \in TimelineEvent, e.end >= e.start,
         tl # <<>> => tl[Len(tl)].end = e.start /\ (Moving(tl[Len(tl)]) => e.place = to),
         Activity(e) => StayOk(st, e),
         Moving(e) => LegOk(q, s, tl \o <<e>>, Len(tl) + 1, next)
  PROVE  Sound(q, s, st, tl \o <<e>>, next)
<1> DEFINE new == tl \o <<e>>
           n == Len(tl)
<1>1. /\ n \in Nat /\ new \in Seq(TimelineEvent) /\ Len(new) = n + 1
      /\ new[n + 1] = e /\ \A i \in 1..n : new[i] = tl[i]
  BY OneMore
<1>2. \A i \in 1..n : tl[i] \in TimelineEvent /\ tl[i].end \in Nat
  <2>1. \A i \in 1..n : tl[i] \in TimelineEvent
    OBVIOUS
  <2> QED
    BY <2>1 DEF TimelineEvent
<1>3. e.start \in Nat /\ e.end \in Nat
  BY DEF TimelineEvent
<1>4. n > 0 => tl # <<>>
  BY <1>1
<1>5. Moving(e) => LegOk(q, s, new, n + 1, next)
  OBVIOUS
<1> HIDE DEF new, n
<1>6. ASSUME NEW i \in 1..Len(new), NEW j \in 1..Len(new), i <= j
      PROVE  new[i].end <= new[j].end
  <2>1. CASE j <= n
    <3>1. i \in 1..n /\ j \in 1..n
      BY <1>1, <1>6, <2>1
    <3> QED
      BY <1>1, <1>6, <3>1 DEF Sound, n
  <2>2. CASE j = n + 1 /\ i <= n
    <3>1. i \in 1..n /\ n \in 1..n /\ i <= n /\ n > 0
      BY <1>1, <2>2
    <3>2. tl[i].end <= tl[n].end
      BY <3>1 DEF Sound, n
    <3>3. tl[n].end = e.start
      BY <1>4, <3>1 DEF n
    <3> QED
      BY <1>1, <1>2, <1>3, <2>2, <3>1, <3>2, <3>3
  <2>3. CASE j = n + 1 /\ i = n + 1
    BY <1>1, <1>3, <2>3
  <2> QED
    BY <1>1, <1>6, <2>1, <2>2, <2>3
<1>7. ASSUME NEW i \in 1..Len(new), Activity(new[i])
      PROVE  StayOk(st, new[i])
  <2>1. CASE i \in 1..n
    BY <1>1, <1>7, <2>1 DEF Sound, n
  <2>2. CASE i = n + 1
    BY <1>1, <1>7, <2>2
  <2> QED
    BY <1>1, <2>1, <2>2
<1>8. ASSUME NEW i \in 1..Len(new), Moving(new[i])
      PROVE  LegOk(q, s, new, i, Reaches(new, i, next))
  <2>1. CASE i \in 1..n
    <3>1. i \in Nat \ {0} /\ new[i] = tl[i] /\ (i > 1 => new[i - 1] = tl[i - 1])
      BY <1>1, <2>1
    <3>2. LegOk(q, s, tl, i, Reaches(tl, i, to))
      BY <1>8, <2>1, <3>1 DEF Sound, n
    <3>3. Reaches(new, i, next) = Reaches(tl, i, to)
      <4>1. CASE i = n
        <5>1. Reaches(new, i, next) = e.place
          BY <1>1, <4>1 DEF Reaches
        <5>2. tl[n] = new[i] /\ n > 0
          BY <1>1, <2>1, <4>1
        <5> QED
          BY <1>4, <1>8, <4>1, <5>1, <5>2 DEF Reaches, n
      <4>2. CASE i # n
        <5>1. i + 1 \in 1..n /\ i # Len(new)
          BY <1>1, <2>1, <4>2
        <5> QED
          BY <1>1, <4>2, <5>1 DEF Reaches, n
      <4> QED
        BY <4>1, <4>2
    <3> QED
      BY <3>1, <3>2, <3>3, LegStays
  <2>2. CASE i = n + 1
    BY <1>1, <1>5, <1>8, <2>2 DEF Reaches
  <2> QED
    BY <1>1, <2>1, <2>2
<1>9. Sound(q, s, st, new, next)
  BY <1>6, <1>7, <1>8 DEF Sound
<1> QED
  BY <1>9 DEF new

\* What comes after does not take a stay back.
LEMMA StillStayed ==
  ASSUME NEW tl \in Seq(TimelineEvent), NEW e \in TimelineEvent, NEW p
  PROVE  /\ StayedAt(tl, p) => StayedAt(tl \o <<e>>, p)
         /\ Activity(e) /\ e.place = p => StayedAt(tl \o <<e>>, p)
<1>1. /\ Len(tl) \in Nat /\ Len(tl \o <<e>>) = Len(tl) + 1
      /\ (tl \o <<e>>)[Len(tl) + 1] = e /\ \A i \in 1..Len(tl) : (tl \o <<e>>)[i] = tl[i]
  BY OneMore
<1> QED
  BY <1>1 DEF StayedAt

LEMMA BufferSound ==
  ASSUME NEW q, NEW s, NEW st, NEW to,
         NEW tl \in Seq(TimelineEvent), tl # <<>>, Sound(q, s, st, tl, to),
         NEW e \in TimelineEvent, e.type = "buffer", e.place = to,
         e.end >= e.start, tl[Len(tl)].end = e.start
  PROVE  /\ Sound(q, s, st, tl \o NonEmpty(e), to)
         /\ \A p : StayedAt(tl, p) => StayedAt(tl \o NonEmpty(e), p)
<1>1. ~Activity(e) /\ ~Moving(e)
  BY DEF Activity, Moving, Kinds
<1>2. CASE e.end > e.start
  <2>1. NonEmpty(e) = <<e>>
    BY <1>2 DEF NonEmpty
  <2>2. Sound(q, s, st, tl \o <<e>>, to)
    BY <1>1, SoundGrows
  <2> QED
    BY <2>1, <2>2, StillStayed
<1>3. CASE e.end = e.start
  <2>1. NonEmpty(e) = <<>>
    BY <1>3 DEF NonEmpty, TimelineEvent
  <2>2. tl \o NonEmpty(e) = tl
    BY <2>1
  <2> QED
    BY <2>2
<1> QED
  BY <1>2, <1>3 DEF TimelineEvent

LEMMA TransferSound ==
  ASSUME TypeOK, CanLeave(timeline, at, Here),
         Sound(request, strategy, stays, timeline, End),
         NEW to \in {End} \cup Places, NEW r \in Offers(to)
  PROVE  LET tl == timeline \o PickupBuffer(r) \o <<TransferBy(r)>>
         IN /\ Sound(request, strategy, stays, tl, to)
            /\ \A p : StayedAt(timeline, p) => StayedAt(tl, p)
<1> DEFINE b == Buffer("pickup", at, at + Pickup(r), Here)
           tl == timeline \o PickupBuffer(r)
           t == TransferBy(r)
<1>1. /\ IsRoute(request, r)
      /\ Pickup(r) \in Nat /\ at \in Nat /\ at + Pickup(r) \in Nat /\ r.minutes \in Nat
      /\ t \in TimelineEvent /\ Moving(t) /\ ~Activity(t)
      /\ t.start = at + Pickup(r) /\ t.end = at + Pickup(r) + r.minutes
  BY OfferType DEF TypeOK, Moving, Activity, Kinds, IsRoute
<1>2. /\ t.mode = r.mode /\ t.ride = r.ride
      /\ r.mode = "taxi" /\ Balances => t.pickup = request.pickup
  BY DEF TransferBy, Transfer, Event
<1>3. Here \in Places \cup {Start, End}
  BY HereType
<1>4. /\ b \in TimelineEvent /\ b.type = "buffer" /\ ~Moving(b) /\ ~Activity(b)
      /\ b.place = Here /\ b.start = at /\ b.end = at + Pickup(r)
  BY <1>1, <1>3, BufferType, SMTT(30) DEF Moving, Activity, Kinds
<1>5. b.reason = "pickup"
  BY DEF Buffer, Event
<1>6. PickupBuffer(r) = NonEmpty(b)
  BY DEF PickupBuffer
<1>7. r \in RoutesBy(request, strategy, <<Here, to>>, t.start, t.mode)
  <2>1. r \in Plan(request, strategy, <<Here, to>>, at)
    BY DEF Offers
  <2>2. CASE r.mode = "bus"
    <3>1. t.start = at
      BY <1>1, <2>2 DEF Pickup
    <3> QED
      BY <1>2, <2>1, <3>1, ChosenRoute
  <2>3. CASE r.mode # "bus"
    BY <1>2, <2>1, <2>3, ChosenRoute
  <2> QED
    BY <2>2, <2>3
<1> HIDE DEF b, t
<1>8. /\ timeline \in Seq(TimelineEvent) /\ Len(timeline) \in Nat
      /\ timeline = <<>> => at = Open /\ Here = Start
      /\ timeline # <<>> => /\ ~Moving(timeline[Len(timeline)])
                            /\ timeline[Len(timeline)].end = at
                            /\ timeline[Len(timeline)].place = Here
  BY DEF TypeOK, CanLeave
<1>9. /\ tl \in Seq(TimelineEvent) /\ Sound(request, strategy, stays, tl, End)
      /\ \A p : StayedAt(timeline, p) => StayedAt(tl, p)
      /\ tl # <<>> => tl[Len(tl)].end = t.start /\ ~Moving(tl[Len(tl)])
      /\ (IF tl = <<>> THEN Start ELSE tl[Len(tl)].place) = Here
      /\ Pickup(r) > 0 => tl # <<>> /\ tl[Len(tl)] = b
  <2>1. CASE Pickup(r) = 0
    <3>1. PickupBuffer(r) = <<>>
      BY <1>1, <1>4, <1>6, <2>1 DEF NonEmpty
    <3>2. tl = timeline
      BY <1>8, <3>1
    <3> QED
      BY <1>1, <1>8, <2>1, <3>2
  <2>2. CASE Pickup(r) > 0
    <3>1. PickupBuffer(r) = <<b>>
      BY <1>1, <1>4, <1>6, <2>2 DEF NonEmpty
    <3>2. b.end >= b.start
      BY <1>1, <1>4
    <3>3. Sound(request, strategy, stays, timeline \o <<b>>, End)
      BY <1>4, <1>8, <3>2, SoundGrows
    <3>4. /\ timeline \o <<b>> \in Seq(TimelineEvent) /\ timeline \o <<b>> # <<>>
          /\ Len(timeline \o <<b>>) = Len(timeline) + 1
          /\ (timeline \o <<b>>)[Len(timeline) + 1] = b
      BY <1>4, <1>8, OneMore
    <3>5. \A p : StayedAt(timeline, p) => StayedAt(timeline \o <<b>>, p)
      BY <1>4, <1>8, StillStayed
    <3> QED
      BY <1>1, <1>4, <3>1, <3>3, <3>4, <3>5
  <2>3. Pickup(r) = 0 \/ Pickup(r) > 0
    BY <1>1
  <2> HIDE DEF tl
  <2> QED
    BY <2>1, <2>2, <2>3
<1> HIDE DEF tl
<1> DEFINE new == tl \o <<t>>
           n == Len(tl)
<1>10. /\ n \in Nat /\ new[n + 1] = t /\ \A i \in 1..n : new[i] = tl[i]
       /\ n = 0 <=> tl = <<>>
  BY <1>1, <1>9, OneMore
<1> HIDE DEF new
<1>11. LeavesFrom(new, n + 1) = Here
  <2>1. CASE n = 0
    BY <1>9, <1>10, <2>1 DEF LeavesFrom
  <2>2. CASE n > 0
    <3>1. n + 1 # 1 /\ n + 1 - 1 = n /\ new[n] = tl[n] /\ tl # <<>>
      BY <1>10, <2>2
    <3> QED
      BY <1>9, <3>1 DEF LeavesFrom
  <2> QED
    BY <1>10, <2>1, <2>2
<1>12. ASSUME t.mode = "taxi", request.policy = "cost_time_balance", request.pickup > 0
       PROVE  Called(request, new, n + 1)
  <2>1. Pickup(r) = request.pickup /\ t.pickup = request.pickup
    BY <1>2, <1>12 DEF Pickup, Balances
  <2>2. tl # <<>> /\ tl[n] = b
    BY <1>9, <1>12, <2>1
  <2>3. n > 0 /\ n + 1 > 1 /\ n + 1 - 1 = n /\ new[n] = b
    BY <1>10, <2>2
  <2>4. b.end - b.start = Pickup(r) /\ b.end = t.start
    BY <1>1, <1>4
  <2> QED
    BY <1>5, <1>10, <2>1, <2>3, <2>4 DEF Called
<1>13. LegOk(request, strategy, new, n + 1, to)
  <2>1. t.end - t.start = r.minutes
    BY <1>1
  <2>2. <<Here, to>> \in Legs
    BY HereType DEF Legs
  <2> QED
    BY <1>2, <1>7, <1>10, <1>11, <1>12, <2>1, <2>2 DEF LegOk
<1>14. Sound(request, strategy, stays, tl \o <<t>>, to)
  <2>1. t.end >= t.start
    BY <1>1
  <2> QED
    BY <1>1, <1>9, <1>13, <2>1, SoundGrows DEF new
<1>15. \A p : StayedAt(timeline, p) => StayedAt(tl \o <<t>>, p)
  BY <1>1, <1>9, StillStayed
<1> QED
  BY <1>14, <1>15 DEF tl, t

LEMMA ReadyInHours ==
  ASSUME NEW p \in Places, NEW arrival \in Nat, NEW ready \in ReadyAt(p, arrival)
  PROVE  /\ WindowsOf[p] # {} =>
              \E w \in WindowsOf[p] :
                /\ w.opens <= ready /\ ready + stays[p] <= w.closes
                /\ w.lastIn # NoTime => ready <= w.lastIn
         /\ KindOf[p] = "meal" => ready >= LunchStart
<1> DEFINE earliest == IF KindOf[p] = "meal" THEN Max({arrival, LunchStart}) ELSE arrival
<1>1. earliest \in Nat /\ (KindOf[p] = "meal" => earliest >= LunchStart)
  BY MaxOfTwo DEF LunchStart
<1>2. CASE WindowsOf[p] = {}
  BY <1>1, <1>2 DEF ReadyAt
<1>3. CASE WindowsOf[p] # {}
  <2>1. PICK w \in WindowsOf[p] : Admits(p, w, earliest) /\ ready = ReadyIn(w, earliest)
    BY <1>3 DEF ReadyAt, Admitting
  <2>2. w.opens \in Nat
    BY TimelineAssumption DEF Window
  <2> HIDE DEF earliest
  <2>3. ready \in Nat /\ ready >= w.opens /\ ready >= earliest
    BY <1>1, <2>1, <2>2, MaxOfTwo DEF ReadyIn
  <2>4. w.opens <= ready /\ (KindOf[p] = "meal" => ready >= LunchStart)
    BY <1>1, <2>2, <2>3 DEF LunchStart
  <2> QED
    BY <2>1, <2>4 DEF Admits
<1> QED
  BY <1>2, <1>3

LEMMA VisitSound ==
  ASSUME TypeOK, CanLeave(timeline, at, Here),
         Sound(request, strategy, stays, timeline, End), VisitNext
  PROVE  /\ Sound(request, strategy, stays, timeline', End)
         /\ \A p : StayedAt(timeline, p) => StayedAt(timeline', p)
         /\ StayedAt(timeline', order[visited + 1])
<1> DEFINE p == order[visited + 1]
<1>1. phase = "travel" /\ visited < Len(order)
  BY SMTT(30) DEF VisitNext
<1>2. PICK r \in Offers(p) : \E ready \in ReadyAt(p, Arrival(r)) :
        /\ CanStay(p, r, ready)
        /\ timeline' = timeline \o PickupBuffer(r) \o <<TransferBy(r)>>
                        \o NonEmpty(Buffer("slack", at + Pickup(r) + r.minutes, Arrival(r), p))
                        \o NonEmpty(Buffer("wait", Arrival(r), ready, p))
                        \o <<Event(KindOf[p], ready, ready + stays[p], p)>>
  BY DEF VisitNext, StayAt
<1>3. PICK ready \in ReadyAt(p, Arrival(r)) :
        /\ CanStay(p, r, ready)
        /\ timeline' = timeline \o PickupBuffer(r) \o <<TransferBy(r)>>
                        \o NonEmpty(Buffer("slack", at + Pickup(r) + r.minutes, Arrival(r), p))
                        \o NonEmpty(Buffer("wait", Arrival(r), ready, p))
                        \o <<Event(KindOf[p], ready, ready + stays[p], p)>>
  BY <1>2
<1> DEFINE left == at + Pickup(r) + r.minutes
           t1 == timeline \o PickupBuffer(r) \o <<TransferBy(r)>>
           slack == Buffer("slack", left, Arrival(r), p)
           t2 == t1 \o NonEmpty(slack)
           wait == Buffer("wait", Arrival(r), ready, p)
           t3 == t2 \o NonEmpty(wait)
           stay == Event(KindOf[p], ready, ready + stays[p], p)
<1>4. /\ p \in Places /\ stays[p] \in Nat /\ left \in Nat
      /\ Arrival(r) \in Nat /\ Arrival(r) >= left /\ ready \in Nat /\ ready >= Arrival(r)
      /\ ready + stays[p] \in Nat /\ ready + stays[p] >= ready
  <2>1. /\ p \in Places /\ stays[p] \in Nat /\ r.minutes \in Nat /\ Pickup(r) \in Nat
        /\ Arrival(r) \in Nat /\ Arrival(r) >= at + Pickup(r) + r.minutes
        /\ ready \in Nat /\ ready >= Arrival(r)
    BY <1>1, VisitEvents DEF IsRoute
  <2>2. at \in Nat
    BY DEF TypeOK
  <2> QED
    BY <2>1, <2>2
<1>5. /\ Arrived(t1, left, p) /\ Sound(request, strategy, stays, t1, p)
      /\ \A x : StayedAt(timeline, x) => StayedAt(t1, x)
  <2>1. /\ Chain(t1) /\ t1 # <<>> /\ Moving(t1[Len(t1)])
        /\ t1[Len(t1)].end = left
    BY <1>4, TransferAppended
  <2>2. /\ Sound(request, strategy, stays, t1, p)
        /\ \A x : StayedAt(timeline, x) => StayedAt(t1, x)
    BY <1>4, TransferSound
  <2> HIDE DEF t1, left
  <2> QED
    BY <2>1, <2>2 DEF Arrived
<1>6. p # NoPlace
  BY <1>4, TimelineAssumption
<1>7. /\ slack \in TimelineEvent /\ slack.type = "buffer" /\ ~Moving(slack)
      /\ slack.place = p /\ slack.start = left /\ slack.end = Arrival(r)
  BY <1>4, BufferType DEF Moving
<1>8. /\ wait \in TimelineEvent /\ wait.type = "buffer" /\ ~Moving(wait)
      /\ wait.place = p /\ wait.start = Arrival(r) /\ wait.end = ready
  BY <1>4, BufferType DEF Moving
<1>9. /\ stay \in TimelineEvent /\ ~Moving(stay) /\ Activity(stay)
      /\ stay.place = p /\ stay.start = ready /\ stay.end = ready + stays[p]
  BY <1>4, ActivityType DEF Moving, Activity, Kinds
<1>10. StayOk(stays, stay)
  <2>1. stay.type = KindOf[p]
    BY DEF Event
  <2>2. stay.end - stay.start = stays[p]
    BY <1>4, <1>9
  <2>3. /\ WindowsOf[p] # {} =>
             \E w \in WindowsOf[p] :
               /\ w.opens <= ready /\ ready + stays[p] <= w.closes
               /\ w.lastIn # NoTime => ready <= w.lastIn
        /\ KindOf[p] = "meal" => ready >= LunchStart
    BY <1>4, ReadyInHours
  <2>4. KindOf[p] = "meal" => ready + stays[p] <= LunchEnd
    BY <1>3 DEF CanStay
  <2> HIDE DEF stay, p
  <2> QED
    BY <1>4, <1>9, <2>1, <2>2, <2>3, <2>4 DEF StayOk
<1>11. timeline' = t3 \o <<stay>>
  BY <1>3
<1> HIDE DEF left, t1, slack, wait, stay, p
<1>12. /\ Arrived(t2, Arrival(r), p) /\ Sound(request, strategy, stays, t2, p)
       /\ \A x : StayedAt(t1, x) => StayedAt(t2, x)
  <2>1. Arrived(t2, Arrival(r), p)
    BY <1>4, <1>5, <1>6, <1>7, WaitAppended
  <2>2. t1 \in Seq(TimelineEvent) /\ t1 # <<>> /\ t1[Len(t1)].end = slack.start
        /\ slack.end >= slack.start
    BY <1>4, <1>5, <1>7 DEF Arrived, Chain
  <2> QED
    BY <1>5, <1>7, <2>1, <2>2, BufferSound
<1> HIDE DEF t2
<1>13. /\ Arrived(t3, ready, p) /\ Sound(request, strategy, stays, t3, p)
       /\ \A x : StayedAt(t2, x) => StayedAt(t3, x)
  <2>1. Arrived(t3, ready, p)
    BY <1>4, <1>6, <1>8, <1>12, WaitAppended
  <2>2. t2 \in Seq(TimelineEvent) /\ t2 # <<>> /\ t2[Len(t2)].end = wait.start
        /\ wait.end >= wait.start
    BY <1>4, <1>8, <1>12 DEF Arrived, Chain
  <2> QED
    BY <1>8, <1>12, <2>1, <2>2, BufferSound
<1> HIDE DEF t3
<1>14. t3 \in Seq(TimelineEvent) /\ t3 # <<>> /\ t3[Len(t3)].end = stay.start
  BY <1>9, <1>13 DEF Arrived, Chain
<1>15. Sound(request, strategy, stays, t3 \o <<stay>>, End)
  <2>1. stay.end >= stay.start
    BY <1>4, <1>9
  <2> QED
    BY <1>9, <1>10, <1>13, <1>14, <2>1, SoundGrows
<1>16. /\ \A x : StayedAt(t3, x) => StayedAt(t3 \o <<stay>>, x)
       /\ StayedAt(t3 \o <<stay>>, p)
  BY <1>9, <1>14, StillStayed
<1> QED
  BY <1>5, <1>11, <1>12, <1>13, <1>15, <1>16 DEF p

--------------------------------------------------------------------------------
\* experience_max only lengthens.
LEMMA LengthenedFirm ==
  ASSUME NEW o
  PROVE  Firm(request, Lengthened(o))
<1> DEFINE least(p) == Min({StayOf[p], MinStayOf[p]})
<1>0. \A p \in Places : least(p) \in Nat /\ StayOf[p] >= least(p)
  BY PlanAssumption, MinOfTwo
<1>1. \A p \in Places : StayOf[p] \in Nat /\ MaxStayOf[p] \in Nat
  BY PlanAssumption
<1>2. Firm(request, StayOf)
  BY <1>0, <1>1 DEF Firm
<1>3. CASE Lengthened(o) = StayOf
  BY <1>2, <1>3
<1>4. CASE Lengthened(o) # StayOf
  <2> DEFINE rests == {i \in DOMAIN o : KindOf[o[i]] = "rest"}
             choices == IF rests # {} THEN rests ELSE {i \in DOMAIN o : Optional(o[i])}
             p == o[Max(choices)]
             longer == [StayOf EXCEPT ![p] = MaxStayOf[p]]
  <2>1. /\ p \notin request.fixed /\ ~(MaxStayOf[p] <= StayOf[p])
        /\ Lengthened(o) = longer
    BY <1>4 DEF Lengthened
  <2> HIDE DEF p
  <2>2. \A x \in Places : Lengthened(o)[x] = IF x = p THEN MaxStayOf[p] ELSE StayOf[x]
    <3>1. \A x \in Places : longer[x] = IF x = p THEN MaxStayOf[p] ELSE StayOf[x]
      BY PlanAssumption
    <3> QED
      BY <2>1, <3>1
  <2>3. p \in Places => MaxStayOf[p] > StayOf[p]
    BY <1>1, <2>1
  <2>4. \A x \in Places : /\ Lengthened(o)[x] \in Nat /\ Lengthened(o)[x] >= StayOf[x]
                          /\ x \in request.fixed => Lengthened(o)[x] = StayOf[x]
    BY <1>1, <2>1, <2>2, <2>3
  <2>5. \A x \in Places : Lengthened(o)[x] >= least(x)
    <3> HIDE DEF least
    <3> QED
      BY <1>0, <1>1, <2>4
  <2> QED
    BY <2>4, <2>5, SMTT(30) DEF Firm
<1> QED
  BY <1>3, <1>4

\* A visit is not made shorter than its minimum.
LEMMA ShortenedFirm ==
  ASSUME TypeOK, Firm(request, stays), NEW p \in Places, Shortenable(p)
  PROVE  Firm(request, [stays EXCEPT ![p] = MinStayOf[p]])
<1> DEFINE new == [stays EXCEPT ![p] = MinStayOf[p]]
<1>1. \A x \in Places : new[x] = IF x = p THEN MinStayOf[p] ELSE stays[x]
  BY DEF TypeOK
<1>2. MinStayOf[p] >= Min({StayOf[p], MinStayOf[p]})
  BY PlanAssumption, MinOfTwo
<1>3. p \notin request.fixed /\ ~Protected(request, p)
  BY DEF Shortenable, Optional, Protected
<1> HIDE DEF new
<1>4. Firm(request, new)
  BY <1>1, <1>2, <1>3 DEF Firm
<1> QED
  BY <1>4 DEF new

\* Without an optional visit an order keeps all that is not optional.
LEMMA RemovedKeeps ==
  ASSUME TypeOK, Keeps(request, order), NEW i \in DOMAIN order, Optional(order[i])
  PROVE  Keeps(request, RemoveAt(order, i))
<1> DEFINE left == RemoveAt(order, i)
<1>1. order \in Seq(Places) /\ Len(order) \in Nat /\ i \in 1..Len(order)
      /\ DOMAIN order = 1..Len(order)
  BY DEF TypeOK
<1>2. ASSUME NEW p \in ToSet(order), p # order[i]
      PROVE  p \in ToSet(left)
  <2>1. PICK j \in 1..Len(order) : p = order[j]
    BY <1>1, <1>2 DEF ToSet
  <2> DEFINE before == SubSeq(order, 1, i - 1)
             after == SubSeq(order, i + 1, Len(order))
  <2>3. /\ before \in Seq(Places) /\ Len(before) = i - 1
        /\ after \in Seq(Places) /\ Len(after) = Len(order) - i
        /\ \A k \in 1..(i - 1) : before[k] = order[k]
        /\ \A k \in 1..(Len(order) - i) : after[k] = order[i + k]
    <3>1. before \in Seq(Places) /\ Len(before) = i - 1
      BY <1>1
    <3>2. after \in Seq(Places) /\ Len(after) = Len(order) - i
      BY <1>1
    <3>3. \A k \in 1..(i - 1) : before[k] = order[k]
      BY <1>1
    <3>4. \A k \in 1..(Len(order) - i) : after[k] = order[i + k]
      BY <1>1
    <3> QED
      BY <3>1, <3>2, <3>3, <3>4
  <2>2. left = before \o after
    BY DEF RemoveAt
  <2> HIDE DEF before, after, left
  <2>4. /\ DOMAIN left = 1..(Len(order) - 1)
        /\ \A k \in 1..(i - 1) : left[k] = before[k]
        /\ \A k \in 1..(Len(order) - i) : left[k + (i - 1)] = after[k]
    <3>1. /\ before \in Seq(Places) /\ after \in Seq(Places)
          /\ Len(before) = i - 1 /\ Len(after) = Len(order) - i
      BY <2>3
    <3>2. /\ left \in Seq(Places) /\ Len(left) = (i - 1) + (Len(order) - i)
          /\ \A k \in 1..((i - 1) + (Len(order) - i)) :
               left[k] = IF k <= i - 1 THEN before[k] ELSE after[k - (i - 1)]
      <4>1. /\ before \o after \in Seq(Places)
            /\ Len(before \o after) = Len(before) + Len(after)
            /\ \A k \in 1..Len(before) + Len(after) :
                 (before \o after)[k] = IF k <= Len(before) THEN before[k]
                                        ELSE after[k - Len(before)]
        BY <3>1, ConcatProperties
      <4> QED
        BY <2>2, <3>1, <4>1
    <3>3. (i - 1) + (Len(order) - i) = Len(order) - 1 /\ Len(order) - 1 \in Nat
      BY <1>1
    <3>4. DOMAIN left = 1..(Len(order) - 1)
      BY <3>2, <3>3
    <3>5. \A k \in 1..(i - 1) : left[k] = before[k]
      BY <1>1, <3>2
    <3>6. \A k \in 1..(Len(order) - i) : left[k + (i - 1)] = after[k]
      BY <1>1, <3>2
    <3> QED
      BY <3>4, <3>5, <3>6
  <2>5. \E k \in DOMAIN left : left[k] = p
    <3>1. CASE j < i
      <4>1. j \in 1..(i - 1) /\ j \in DOMAIN left
        BY <1>1, <2>4, <3>1
      <4>2. left[j] = before[j] /\ before[j] = order[j]
        BY <2>3, <2>4, <4>1
      <4> QED
        BY <2>1, <4>1, <4>2
    <3>2. CASE j > i
      <4>1. /\ j - i \in 1..(Len(order) - i) /\ i + (j - i) = j
            /\ (j - i) + (i - 1) = j - 1 /\ j - 1 \in DOMAIN left
        BY <1>1, <2>4, <3>2
      <4>2. left[j - 1] = after[j - i] /\ after[j - i] = order[j]
        BY <2>3, <2>4, <4>1
      <4> QED
        BY <2>1, <4>1, <4>2
    <3>3. j # i
      BY <1>2, <2>1
    <3> QED
      BY <1>1, <3>1, <3>2, <3>3
  <2> QED
    BY <2>5 DEF ToSet
<1>3. order[i] \notin request.required /\ KindOf[order[i]] = "visit"
  BY DEF Optional
<1> HIDE DEF left
<1>4. Keeps(request, left)
  BY <1>2, <1>3 DEF Keeps
<1> QED
  BY <1>4 DEF left

LEMMA AttemptSound ==
  ASSUME TypeOK, SoundInv, request' = request, strategy' = strategy,
         \A i \in 1..Len(orders)' : orders'[i] \in ToSet(request.proposals),
         NEW o, NEW s, Attempt(o, s), Firm(request, s), Proper(o) => Keeps(request, o)
  PROVE  SoundInv'
<1>1. /\ timeline' = <<>> /\ visited' = 0 /\ order' = o /\ stays' = s
      /\ phase' = IF Proper(o) THEN "travel" ELSE "order"
  BY DEF Attempt
<1>2. \A q, t, st : Sound(q, t, st, <<>>, End)
  BY DEF Sound
<1> QED
  BY <1>1, <1>2 DEF SoundInv

LEMMA SoundStep ==
  ASSUME WholeInv, SoundInv, [Next]_vars
  PROVE  SoundInv'
<1>1. TypeOK /\ (phase = "travel" => CanLeave(timeline, at, Here))
  BY DEF WholeInv
<1>2. request' = request /\ strategy' = strategy
  BY DEF Next, vars, TakeOrder, RefuseDay, VisitNext, MissNext, CannotReturn, ReturnLate,
    ReturnHome, ShortenVisit, RemoveVisit, GiveUp, Infeasible
<1>3. CASE TakeOrder
  <2>1. orders # <<>> /\ Attempt(Head(orders), Lengthened(Head(orders)))
        /\ orders' = Tail(orders)
    BY <1>3 DEF TakeOrder
  <2>2. orders \in Seq(Seq(Places))
    BY <1>1 DEF TypeOK
  <2>3. Len(orders) >= 1 /\ Head(orders) = orders[1]
    BY <2>1, <2>2
  <2>4. Head(orders) \in ToSet(request.proposals)
    BY <2>3, <2>2 DEF SoundInv
  <2>5. \A i \in 1..Len(orders)' : orders'[i] \in ToSet(request.proposals)
    <3>1. \A i \in 1..Len(Tail(orders)) : i + 1 \in 1..Len(orders)
                                          /\ Tail(orders)[i] = orders[i + 1]
      BY <2>1, <2>2
    <3> QED
      BY <2>1, <3>1 DEF SoundInv
  <2>6. Proper(Head(orders)) => Keeps(request, Head(orders))
    <3> SUFFICES ASSUME Proper(Head(orders))
                 PROVE  Keeps(request, Head(orders))
      OBVIOUS
    <3>1. request.required \subseteq ToSet(Head(orders))
      BY DEF Proper, ToSet
    <3> QED
      BY <2>4, <3>1 DEF Keeps
  <2> QED
    BY <1>1, <1>2, <2>1, <2>5, <2>6, LengthenedFirm, AttemptSound
<1>4. CASE VisitNext
  <2>1. /\ phase = "travel" /\ phase' = phase /\ visited < Len(order) /\ visited' = visited + 1
        /\ orders' = orders /\ order' = order /\ stays' = stays
    BY <1>4 DEF VisitNext
  <2>2. /\ Sound(request, strategy, stays, timeline, End)
        /\ \A k \in 1..visited : StayedAt(timeline, order[k])
    BY <2>1 DEF SoundInv
  <2>3. /\ Sound(request, strategy, stays, timeline', End)
        /\ \A p : StayedAt(timeline, p) => StayedAt(timeline', p)
        /\ StayedAt(timeline', order[visited + 1])
    BY <1>1, <1>4, <2>1, <2>2, VisitSound
  <2>4. \A k \in 1..visited' : StayedAt(timeline', order'[k])
    <3> SUFFICES ASSUME NEW k \in 1..(visited + 1)
                 PROVE  StayedAt(timeline', order[k])
      BY <2>1
    <3>1. visited \in Nat
      BY <1>1 DEF TypeOK
    <3>2. k \in 1..visited \/ k = visited + 1
      BY <3>1
    <3> QED
      BY <2>2, <2>3, <3>2
  <2> QED
    BY <1>2, <2>1, <2>3, <2>4 DEF SoundInv
<1>5. CASE ReturnHome
  <2>1. PICK r \in Offers(End) :
          /\ ~IsLate(r)
          /\ Moderate(timeline \o PickupBuffer(r) \o <<TransferBy(r)>>)
          /\ timeline' = timeline \o PickupBuffer(r) \o <<TransferBy(r)>>
    BY <1>5 DEF ReturnHome
  <2>2. /\ phase = "travel" /\ phase' # "travel" /\ phase' # "late" /\ visited = Len(order)
        /\ orders' = orders /\ order' = order /\ stays' = stays /\ visited' = visited
    BY <1>5 DEF ReturnHome, Recommended, Returning
  <2>3. /\ Sound(request, strategy, stays, timeline, End)
        /\ \A k \in 1..visited : StayedAt(timeline, order[k])
    BY <2>2 DEF SoundInv
  <2>4. /\ Sound(request, strategy, stays, timeline', End)
        /\ \A p : StayedAt(timeline, p) => StayedAt(timeline', p)
    BY <1>1, <2>1, <2>2, <2>3, TransferSound
  <2>5. /\ Chain(timeline') /\ timeline' # <<>> /\ Moving(timeline'[Len(timeline')])
        /\ timeline'[Len(timeline')].end = ReturnAt(r)
    BY <1>1, <2>1, <2>2, TransferAppended DEF ReturnAt
  <2>6. ReturnAt(r) <= request.close
    <3>1. request.close \in Nat
      BY <1>1, PlanAssumption DEF TypeOK, Request
    <3>2. ReturnAt(r) \in Nat
      <4>1. Pickup(r) \in Nat /\ r.minutes \in Nat
        BY <1>1, OfferType DEF IsRoute
      <4> QED
        BY <1>1, <4>1 DEF TypeOK, ReturnAt
    <3> QED
      BY <2>1, <3>1, <3>2 DEF IsLate, ReturnBuffer
  <2>7. Moderate(timeline)'
    BY <1>2, <2>1 DEF Moderate
  <2> QED
    BY <1>2, <2>2, <2>3, <2>4, <2>5, <2>6, <2>7 DEF SoundInv
<1>6. CASE ShortenVisit
  <2>1. PICK i \in DOMAIN order :
          /\ Shortenable(order[i])
          /\ Attempt(order, [stays EXCEPT ![order[i]] = MinStayOf[order[i]]])
    BY <1>6 DEF ShortenVisit, LastWhere
  <2>2. phase = "late" /\ orders' = orders
    BY <1>6 DEF ShortenVisit
  <2>3. order[i] \in Places
    BY <1>1 DEF TypeOK
  <2>4. Firm(request, [stays EXCEPT ![order[i]] = MinStayOf[order[i]]]) /\ Keeps(request, order)
    BY <1>1, <2>1, <2>2, <2>3, ShortenedFirm DEF SoundInv
  <2>5. \A j \in 1..Len(orders)' : orders'[j] \in ToSet(request.proposals)
    BY <2>2 DEF SoundInv
  <2> QED
    BY <1>1, <1>2, <2>1, <2>4, <2>5, AttemptSound
<1>7. CASE RemoveVisit
  <2>1. PICK i \in DOMAIN order : Optional(order[i]) /\ Attempt(RemoveAt(order, i), stays)
    BY <1>7 DEF RemoveVisit, LastWhere
  <2>2. phase = "late" /\ orders' = orders
    BY <1>7 DEF RemoveVisit
  <2>3. Firm(request, stays) /\ Keeps(request, order)
    BY <2>2 DEF SoundInv
  <2>4. Keeps(request, RemoveAt(order, i))
    BY <1>1, <2>1, <2>3, RemovedKeeps
  <2>5. \A j \in 1..Len(orders)' : orders'[j] \in ToSet(request.proposals)
    BY <2>2 DEF SoundInv
  <2> QED
    BY <1>1, <1>2, <2>1, <2>3, <2>4, <2>5, AttemptSound
<1>8. CASE RefuseDay \/ MissNext \/ CannotReturn \/ ReturnLate \/ GiveUp
  <2>1. /\ phase' \in {"refused", "order", "late"} /\ orders' = orders /\ stays' = stays
        /\ order' = order /\ (phase' = "late" => phase = "travel")
    BY <1>8 DEF RefuseDay, MissNext, CannotReturn, ReturnLate, GiveUp, Infeasible, Returning
  <2> QED
    BY <1>2, <2>1 DEF SoundInv
<1>9. CASE UNCHANGED vars
  BY <1>9 DEF vars, SoundInv, Moderate
<1> QED
  BY <1>3, <1>4, <1>5, <1>6, <1>7, <1>8, <1>9 DEF Next

LEMMA SoundInit ==
  ASSUME Init
  PROVE  SoundInv
<1>1. request \in Request
  BY PlanAssumption DEF Init
<1>2. request.proposals \in Seq(Seq(Places))
  BY <1>1 DEF Request
<1>3. Len(request.proposals) \in Nat /\ 2 \in Nat
  BY <1>2
<1> DEFINE n == Min({2, Len(request.proposals)})
<1>4. n \in Nat /\ n <= Len(request.proposals)
  BY <1>3, MinOfTwo
<1>5. orders = SubSeq(request.proposals, 1, n)
  BY DEF Init
<1> HIDE DEF n
<1>6. \A i \in 1..Len(orders) : orders[i] \in ToSet(request.proposals)
  <2>1. /\ Len(orders) = n
        /\ \A i \in 1..n : orders[i] = request.proposals[i] /\ i \in DOMAIN request.proposals
    BY <1>2, <1>4, <1>5
  <2> QED
    BY <2>1 DEF ToSet
<1>7. Firm(request, StayOf)
  <2>1. \A p \in Places : StayOf[p] >= Min({StayOf[p], MinStayOf[p]}) /\ StayOf[p] \in Nat
    BY PlanAssumption, MinOfTwo
  <2> QED
    BY <2>1 DEF Firm
<1> QED
  BY <1>6, <1>7 DEF Init, SoundInv

LEMMA SoundAlways == Spec => [](WholeInv /\ SoundInv)
<1>1. Init => WholeInv /\ SoundInv
  BY InitType, SoundInit DEF Init, WholeInv, PlansAreWhole
<1>2. WholeInv /\ SoundInv /\ [Next]_vars => (WholeInv /\ SoundInv)'
  BY WholeStep, SoundStep
<1> QED
  BY <1>1, <1>2, PTL DEF Spec

--------------------------------------------------------------------------------
\* The invariant says what it is for.
LEMMA SoundKeepsPromises ==
  ASSUME TypeOK, SoundInv
  PROVE  PromisesAreKept
<1> SUFFICES ASSUME phase = "recommended"
             PROVE  /\ \E o \in ToSet(request.proposals) :
                         \A p \in ToSet(o) : KindOf[p] # "visit" => Stays(p) # {}
                    /\ \A p \in request.required : Stays(p) # {}
                    /\ \A p \in Places : \A i \in Stays(p) :
                         /\ Minutes(i) >= Min({StayOf[p], MinStayOf[p]})
                         /\ p \in request.fixed => Minutes(i) = StayOf[p]
                         /\ p \in request.required \/ KindOf[p] # "visit" =>
                              Minutes(i) >= StayOf[p]
  BY DEF PromisesAreKept
<1>1. /\ Firm(request, stays) /\ Keeps(request, order)
      /\ Sound(request, strategy, stays, timeline, End)
      /\ \A k \in 1..Len(order) : StayedAt(timeline, order[k])
  BY DEF SoundInv
<1>2. DOMAIN timeline = 1..Len(timeline) /\ DOMAIN order = 1..Len(order)
  BY DEF TypeOK
<1>3. \A p \in ToSet(order) : Stays(p) # {}
  BY <1>1, <1>2 DEF ToSet, StayedAt, Stays
<1>4. ASSUME NEW p \in Places, NEW i \in Stays(p)
      PROVE  Minutes(i) = stays[p]
  <2>1. i \in 1..Len(timeline) /\ Activity(timeline[i]) /\ timeline[i].place = p
    BY <1>2, <1>4 DEF Stays
  <2>2. StayOk(stays, timeline[i])
    BY <1>1, <2>1 DEF Sound
  <2> QED
    BY <2>1, <2>2 DEF StayOk, Minutes
<1>5. \A p \in Places : \A i \in Stays(p) :
        /\ Minutes(i) >= Min({StayOf[p], MinStayOf[p]})
        /\ p \in request.fixed => Minutes(i) = StayOf[p]
        /\ p \in request.required \/ KindOf[p] # "visit" => Minutes(i) >= StayOf[p]
  BY <1>1, <1>4 DEF Firm, Protected
<1>6. \E o \in ToSet(request.proposals) :
        \A p \in ToSet(o) : KindOf[p] # "visit" => Stays(p) # {}
  BY <1>1, <1>3 DEF Keeps
<1>7. \A p \in request.required : Stays(p) # {}
  BY <1>1, <1>3 DEF Keeps
<1> QED
  BY <1>5, <1>6, <1>7

\* However often it was repaired, a recommended day keeps what was promised: the
\* required places, the meals and rests of its order, the stays fixed by the user
\* and the minimum of the others.
THEOREM PromisesKept == Spec => []PromisesAreKept
<1>1. WholeInv /\ SoundInv => PromisesAreKept
  BY SoundKeepsPromises DEF WholeInv
<1> QED
  BY <1>1, SoundAlways, PTL

--------------------------------------------------------------------------------
\* The buffers after a transfer are no negative time.
LEMMA BuffersType ==
  ASSUME NEW q, q.close \in Nat, NEW tl \in Seq(TimelineEvent),
         \A i, j \in 1..Len(tl) : i <= j => tl[i].end <= tl[j].end,
         tl # <<>>, tl[Len(tl)].end <= q.close, NEW i \in 1..Len(tl)
  PROVE  BuffersAfter(q, tl, i) \in Nat
<1>1. Len(tl) \in Nat
  OBVIOUS
<1>2. ASSUME NEW j \in 1..Len(tl)
      PROVE  tl[j].end \in Nat
  <2>1. tl[j] \in TimelineEvent
    OBVIOUS
  <2> QED
    BY <2>1 DEF TimelineEvent
<1> DEFINE stops == {j \in (i + 1)..Len(tl) : tl[j].type # "buffer"}
           next == IF stops = {} THEN Len(tl) + 1 ELSE Min(stops)
<1>3. next \in (i + 1)..(Len(tl) + 1)
  <2>1. CASE stops = {}
    BY <1>1, <2>1
  <2>2. CASE stops # {}
    <3>1. stops \in SUBSET Nat /\ stops \subseteq (i + 1)..Len(tl)
      BY <1>1
    <3>2. Min(stops) \in stops
      <4> HIDE DEF stops
      <4> QED
        BY <2>2, <3>1, MinOfNaturals
    <3>3. Min(stops) \in (i + 1)..Len(tl)
      BY <3>1, <3>2
    <3> HIDE DEF stops
    <3> QED
      BY <1>1, <2>2, <3>3
  <2> QED
    BY <2>1, <2>2
<1>4. BuffersAfter(q, tl, i) = IF i = Len(tl) THEN q.close - tl[i].end
                               ELSE tl[next - 1].end - tl[i].end
  BY DEF BuffersAfter
<1> HIDE DEF next
<1>5. next - 1 \in i..Len(tl) /\ next - 1 \in 1..Len(tl)
  BY <1>1, <1>3
<1>6. tl[i].end <= tl[next - 1].end /\ tl[next - 1].end \in Nat /\ tl[i].end \in Nat
  BY <1>2, <1>5
<1>7. CASE i = Len(tl)
  BY <1>4, <1>6, <1>7
<1>8. CASE i # Len(tl)
  BY <1>4, <1>6, <1>8
<1> QED
  BY <1>7, <1>8

\* Asked for again, a walk or a taxi takes at most the time that was planned for
\* it, and exactly that long when the evaluator walks at the planned speed; a ride
\* is then found again as well.
LEMMA FoundAgain ==
  ASSUME NEW q \in Request, NEW s, NEW leg \in Legs, NEW t \in Nat, NEW m \in Modes,
         NEW r \in RoutesBy(q, s, leg, t, m),
         m # "bus" \/ Multiplier(q, s) = Multiplier(q, "balanced")
  PROVE  /\ \E e \in RoutesBy(q, "balanced", leg, t, m) :
              e.ride = r.ride /\ e.minutes \in Nat /\ e.minutes <= r.minutes
         /\ m # "bus" => \A e \in RoutesBy(q, "balanced", leg, t, m) :
              /\ e.minutes \in Nat /\ e.minutes <= r.minutes
              /\ Multiplier(q, s) = Multiplier(q, "balanced") => e.minutes = r.minutes
<1>1. CASE m = "walk"
  <2> DEFINE w == WalkOf[leg]
             again == Planned(q, "balanced", w)
             first == Planned(q, s, w)
  <2>1. /\ m \in q.modes /\ w # NoTime /\ first <= MaxSingleWalk
        /\ r = Route("walk", first, w, first, NoRide)
    BY <1>1 DEF RoutesBy, WalkRoutes
  <2>2. w \in Nat
    BY <2>1, TimelineAssumption
  <2>3. first \in Nat /\ again \in Nat /\ again <= first
    BY <2>2, PlannedType, BalancedIsQuickest
  <2>4. Multiplier(q, s) = Multiplier(q, "balanced") => again = first
    BY DEF Planned
  <2>5. RoutesBy(q, "balanced", leg, t, m) =
          IF w # NoTime /\ again <= MaxSingleWalk
          THEN {Route("walk", again, w, again, NoRide)} ELSE {}
    BY <1>1, <2>1 DEF RoutesBy, WalkRoutes
  <2> HIDE DEF w, again, first
  <2>6. again <= MaxSingleWalk
    BY <2>1, <2>3 DEF MaxSingleWalk
  <2>7. RoutesBy(q, "balanced", leg, t, m) = {Route("walk", again, w, again, NoRide)}
    BY <2>1, <2>5, <2>6
  <2>8. /\ Route("walk", again, w, again, NoRide).minutes = again
        /\ Route("walk", again, w, again, NoRide).ride = NoRide
        /\ r.minutes = first /\ r.ride = NoRide
    BY <2>1 DEF Route
  <2> QED
    BY <2>3, <2>4, <2>7, <2>8
<1>2. r.minutes \in Nat
  BY RouteType DEF IsRoute
<1>3. CASE m = "taxi"
  <2>1. /\ RoutesBy(q, "balanced", leg, t, m) = RoutesBy(q, s, leg, t, m)
        /\ RoutesBy(q, s, leg, t, m) = TaxiRoutes(q, leg)
    BY <1>3 DEF RoutesBy
  <2>2. \A e \in TaxiRoutes(q, leg) : e = Route("taxi", DriveOf[leg], 0, 0, NoRide)
    BY DEF TaxiRoutes
  <2>3. \A e \in RoutesBy(q, "balanced", leg, t, m) : e = r
    BY <2>1, <2>2
  <2> QED
    BY <1>2, <2>1, <2>3
<1>4. CASE m = "bus"
  <2>1. r \in RoutesBy(q, "balanced", leg, t, m)
    BY <1>4, SameRoutes
  <2> QED
    BY <1>2, <1>4, <2>1
<1> QED
  BY <1>1, <1>3, <1>4 DEF Modes

\* The transfers of a recommended day, as the evaluator sees them.
LEMMA SegmentsAgree ==
  ASSUME TypeOK, SoundInv, phase = "recommended",
         NEW i \in Transfers(timeline), timeline[i].mode # "bus" \/ SameSpeed
  PROVE  /\ BuffersAfter(request, timeline, i) \in Nat
         /\ timeline[i].mode \in request.modes
         /\ timeline[i].start \in Nat /\ timeline[i].end \in Nat
         /\ \E e \in Evidence(request, timeline, i) :
              /\ e.ride = timeline[i].ride /\ e.minutes \in Nat
              /\ e.minutes <= timeline[i].end - timeline[i].start
         /\ timeline[i].mode # "bus" => \A e \in Evidence(request, timeline, i) :
              /\ e.minutes \in Nat /\ e.minutes <= timeline[i].end - timeline[i].start
              /\ SameSpeed => e.minutes = timeline[i].end - timeline[i].start
<1> DEFINE leg == <<LeavesFrom(timeline, i), Reaches(timeline, i, End)>>
           t == timeline[i].start
           m == timeline[i].mode
<1>1. /\ timeline \in Seq(TimelineEvent) /\ request \in Request
      /\ request.close \in Nat /\ request.modes \subseteq Modes
  BY PlanAssumption DEF TypeOK, Request
<1>2. i \in 1..Len(timeline) /\ Moving(timeline[i]) /\ timeline[i] \in TimelineEvent
  BY <1>1 DEF Transfers, Moving
<1>3. t \in Nat /\ timeline[i].end \in Nat
  BY <1>2 DEF TimelineEvent
<1>4. /\ Sound(request, strategy, stays, timeline, End) /\ Chain(timeline) /\ timeline # <<>>
      /\ timeline[Len(timeline)].end <= request.close
  BY DEF SoundInv
<1>5. leg \in Legs
      /\ \E r \in RoutesBy(request, strategy, leg, t, m) :
           timeline[i].end - t = r.minutes /\ timeline[i].ride = r.ride
  BY <1>2, <1>4 DEF Sound, LegOk
<1>6. FromOf(timeline, i) = LeavesFrom(timeline, i) /\ ToOf(timeline, i) = Reaches(timeline, i, End)
  BY <1>2, <1>4, Neighbours
<1>7. Evidence(request, timeline, i) = RoutesBy(request, "balanced", leg, t, m)
  BY <1>6 DEF Evidence
<1>8. PICK r \in RoutesBy(request, strategy, leg, t, m) :
        timeline[i].end - t = r.minutes /\ timeline[i].ride = r.ride
  BY <1>5
<1>9. m \in request.modes
  BY <1>8 DEF RoutesBy
<1>10. SameSpeed => Multiplier(request, strategy) = Multiplier(request, "balanced")
  BY DEF SameSpeed, Multiplier
<1>11. BuffersAfter(request, timeline, i) \in Nat
  BY <1>1, <1>2, <1>4, BuffersType DEF Sound
<1> HIDE DEF leg, t
<1>12. /\ \E e \in RoutesBy(request, "balanced", leg, t, m) :
            e.ride = r.ride /\ e.minutes \in Nat /\ e.minutes <= r.minutes
       /\ m # "bus" => \A e \in RoutesBy(request, "balanced", leg, t, m) :
            /\ e.minutes \in Nat /\ e.minutes <= r.minutes
            /\ SameSpeed => e.minutes = r.minutes
  <2>1. m \in Modes
    BY <1>1, <1>9
  <2> HIDE DEF m
  <2>2. m # "bus" \/ Multiplier(request, strategy) = Multiplier(request, "balanced")
    BY <1>10 DEF m
  <2> QED
    BY <1>1, <1>3, <1>5, <1>8, <1>10, <2>1, <2>2, FoundAgain
<1> HIDE DEF m
<1> QED
  BY <1>3, <1>7, <1>8, <1>9, <1>11, <1>12 DEF t, m

LEMMA SlackFollows ==
  ASSUME TypeOK, SoundInv
  PROVE  SlackAgrees
<1> SUFFICES ASSUME phase = "recommended",
                    NEW i \in Transfers(timeline) \ Rides,
                    NEW r \in Evidence(request, timeline, i)
             PROVE  /\ EvaluatedSlack(request, timeline, i, r) >= BuffersAfter(request, timeline, i)
                    /\ SameSpeed => EvaluatedSlack(request, timeline, i, r)
                                      = BuffersAfter(request, timeline, i)
  BY DEF SlackAgrees
<1> DEFINE planned == BuffersAfter(request, timeline, i)
<1>1. timeline[i].mode # "bus"
  BY DEF Rides
<1>2. /\ planned \in Nat /\ timeline[i].start \in Nat /\ timeline[i].end \in Nat
      /\ r.minutes \in Nat /\ r.minutes <= timeline[i].end - timeline[i].start
      /\ SameSpeed => r.minutes = timeline[i].end - timeline[i].start
  BY <1>1, SegmentsAgree
<1>3. EvaluatedSlack(request, timeline, i, r)
        = timeline[i].end - timeline[i].start + planned - r.minutes
  BY DEF EvaluatedSlack
<1> HIDE DEF planned
<1>4. EvaluatedSlack(request, timeline, i, r) >= planned
  BY <1>2, <1>3
<1>5. SameSpeed => EvaluatedSlack(request, timeline, i, r) = planned
  BY <1>2, <1>3
<1> QED
  BY <1>4, <1>5 DEF planned

LEMMA FeasibleFollows ==
  ASSUME TypeOK, SoundInv
  PROVE  PlansAreFeasible
<1> SUFFICES ASSUME phase = "recommended", SameRules, SameSpeed \/ Rides = {}
             PROVE  Feasible(request, timeline, Open)
  BY DEF PlansAreFeasible
<1>1. /\ timeline \in Seq(TimelineEvent) /\ DOMAIN timeline = 1..Len(timeline)
      /\ request \in Request /\ request.close \in Nat
  BY PlanAssumption, SMTT(30) DEF TypeOK, Request
<1>2. /\ Sound(request, strategy, stays, timeline, End) /\ Moderate(timeline)
      /\ Chain(timeline) /\ timeline # <<>> /\ Moving(timeline[Len(timeline)])
      /\ timeline[Len(timeline)].end <= request.close
  BY DEF SoundInv
<1>3. \A i \in Transfers(timeline) : timeline[i].mode # "bus" \/ SameSpeed
  BY DEF Rides
<1>4. /\ BoundaryComplete(request, timeline, Open)
      /\ Gapless(timeline) /\ Continuous(timeline)
  BY <1>2, ChainIsWhole DEF BoundaryComplete
<1>5. PickupsPlanned(request, timeline)
  <2> SUFFICES ASSUME NEW i \in Transfers(timeline), timeline[i].mode = "taxi"
               PROVE  /\ i > 1 /\ timeline[i - 1].reason = "pickup"
                      /\ timeline[i - 1].end = timeline[i].start
                      /\ timeline[i - 1].end - timeline[i - 1].start =
                           IF timeline[i].pickup = NoTime THEN request.pickup
                           ELSE timeline[i].pickup
    BY DEF PickupsPlanned
  <2>1. "taxi" \in request.modes
    BY <1>3, SegmentsAgree
  <2>2. request.policy = "cost_time_balance" /\ request.pickup > 0
    BY <2>1 DEF SameRules, Balances
  <2>3. i \in 1..Len(timeline) /\ Moving(timeline[i])
    BY <1>1 DEF Transfers, Moving
  <2>4. Called(request, timeline, i)
    BY <1>2, <2>2, <2>3 DEF Sound, LegOk
  <2> QED
    BY <2>4 DEF Called
<1>6. LegsHold(request, timeline)
  <2> SUFFICES ASSUME NEW i \in Transfers(timeline)
               PROVE  \E r \in Evidence(request, timeline, i) :
                        /\ r.ride = timeline[i].ride
                        /\ EvaluatedSlack(request, timeline, i, r) >= 0
    BY DEF LegsHold
  <2> DEFINE planned == BuffersAfter(request, timeline, i)
  <2>1. /\ planned \in Nat /\ timeline[i].start \in Nat /\ timeline[i].end \in Nat
        /\ \E r \in Evidence(request, timeline, i) :
             /\ r.ride = timeline[i].ride /\ r.minutes \in Nat
             /\ r.minutes <= timeline[i].end - timeline[i].start
    BY <1>3, SegmentsAgree
  <2>2. PICK r \in Evidence(request, timeline, i) :
          /\ r.ride = timeline[i].ride /\ r.minutes \in Nat
          /\ r.minutes <= timeline[i].end - timeline[i].start
    BY <2>1
  <2>3. EvaluatedSlack(request, timeline, i, r)
          = timeline[i].end - timeline[i].start + planned - r.minutes
    BY DEF EvaluatedSlack
  <2> HIDE DEF planned
  <2>4. EvaluatedSlack(request, timeline, i, r) >= 0
    BY <2>1, <2>2, <2>3
  <2> QED
    BY <2>2, <2>4
<1>7. ASSUME NEW i \in 1..Len(timeline), Activity(timeline[i])
      PROVE  StayOk(stays, timeline[i]) /\ timeline[i].start \in Nat /\ timeline[i].end \in Nat
  <2>1. timeline[i] \in TimelineEvent
    BY <1>1
  <2> QED
    BY <1>2, <1>7, <2>1 DEF Sound, TimelineEvent
<1>8. HoursHold(timeline)
  <2> SUFFICES ASSUME NEW i \in 1..Len(timeline), Activity(timeline[i]),
                      WindowsOf[timeline[i].place] # {}
               PROVE  /\ \E w \in WindowsOf[timeline[i].place] :
                           w.opens <= timeline[i].start /\ timeline[i].end <= w.closes
                      /\ LastAdmission(timeline[i].place) # NoTime =>
                           timeline[i].start <= LastAdmission(timeline[i].place)
    BY <1>1 DEF HoursHold
  <2> DEFINE p == timeline[i].place
             last == LastAdmission(p)
  <2>1. PICK w \in WindowsOf[p] :
          /\ w.opens <= timeline[i].start /\ timeline[i].end <= w.closes
          /\ w.lastIn # NoTime => timeline[i].start <= w.lastIn
    BY <1>7 DEF StayOk
  <2>2. p \in Places /\ timeline[i].end - timeline[i].start = stays[p]
    BY <1>7 DEF StayOk
  <2>3. last \in Nat \cup {NoTime} /\ stays[p] \in Nat
    BY <2>2, AdmissionType DEF TypeOK
  <2>4. w.closes \in Nat /\ w.lastIn \in Nat \cup {NoTime}
    BY <2>2, TimelineAssumption DEF Window
  <2>5. last # NoTime => IF w.lastIn = NoTime THEN w.closes <= last ELSE w.lastIn <= last
    BY <1>1 DEF SameRules
  <2>6. timeline[i].start \in Nat /\ timeline[i].end \in Nat
    BY <1>7
  <2> HIDE DEF p, last
  <2>7. last # NoTime => timeline[i].start <= last
    BY <2>1, <2>2, <2>3, <2>4, <2>5, <2>6, SMTT(30)
  <2> QED
    BY <2>1, <2>7 DEF p, last
<1>9. MealsHold(timeline)
  <2> SUFFICES ASSUME NEW i \in 1..Len(timeline), timeline[i].type = "meal"
               PROVE  timeline[i].start >= LunchStart /\ timeline[i].end <= LunchEnd
    BY <1>1 DEF MealsHold
  <2> QED
    BY <1>7 DEF Activity, Kinds, StayOk
<1>10. LimitsHold(request, timeline)
  BY <1>2 DEF SameRules, Moderate, LimitsHold
<1>11. RestHolds(request, timeline)
  BY DEF SameRules, RestHolds
<1> QED
  BY <1>4, <1>5, <1>6, <1>8, <1>9, <1>10, <1>11 DEF Feasible

\* A recommended day is feasible for the evaluator, where both have the same
\* rules, for any places, hours, routes and rides.
THEOREM PlansAreFeasibleAlways == Spec => []PlansAreFeasible
<1>1. WholeInv /\ SoundInv => PlansAreFeasible
  BY FeasibleFollows DEF WholeInv
<1> QED
  BY <1>1, SoundAlways, PTL

\* Both compute the same slack for every walk and taxi of a recommended day, or
\* the evaluator more of it when it walks faster.
THEOREM SlackAgreesAlways == Spec => []SlackAgrees
<1>1. WholeInv /\ SoundInv => SlackAgrees
  BY SlackFollows DEF WholeInv
<1> QED
  BY <1>1, SoundAlways, PTL
================================================================================
