-------------------------------- MODULE DayPlan --------------------------------
(***************************************************************************)
(* DeterministicDayTripGenerator planning the day of one strategy: it      *)
(* schedules a proposed order leg by leg, repairs a day that would return  *)
(* too late by shortening and then removing optional visits, and falls     *)
(* back to a second order.  The threads of the three strategies share only *)
(* the route caches and the call budget, which RouteFetch models.          *)
(***************************************************************************)
EXTENDS ModeChoice, SequencesExt

CONSTANTS
  Requests,   \* the requests a behaviour may begin with
  Open,       \* activity_window.start_at
  StayOf,     \* Places -> stay_minutes, the requested ones of a fixed place
  MinStayOf,  \* Places -> minimum stay of the policy for the kind of place
  MaxStayOf   \* Places -> maximum stay of the policy for the kind of place

ASSUME PlanAssumption ==
  /\ Requests \subseteq Request /\ Open \in Nat
  /\ StayOf \in [Places -> Nat] /\ MinStayOf \in [Places -> Nat]
  /\ MaxStayOf \in [Places -> Nat]

VARIABLES
  request, strategy,
  orders,    \* orders not tried yet
  order,     \* the order of the current attempt
  stays,     \* stay_minutes of the places in it
  phase,     \* "order", "travel", "late", or how the planning ended
  visited,   \* how many places of the order are scheduled
  at,        \* current_at
  timeline,
  streak     \* continuous_minutes

vars == <<request, strategy, orders, order, stays, phase, visited, at, timeline, streak>>

Init ==
  /\ request \in Requests
  /\ strategy \in Strategies
  /\ orders = SubSeq(request.proposals, 1, Min({2, Len(request.proposals)}))
  /\ order = <<>> /\ stays = StayOf
  /\ phase = "order"
  /\ visited = 0 /\ at = Open /\ timeline = <<>> /\ streak = 0

--------------------------------------------------------------------------------
\* Mutant: a repair does not spare the required places.
AnyVisit(p) == KindOf[p] = "visit"

\* Visits that a repair may shorten or remove.
Optional(p) == p \notin request.required /\ KindOf[p] = "visit"

\* experience_max lengthens the last rest, or else the last optional visit.
Lengthened(o) ==
  LET rests == {i \in DOMAIN o : KindOf[o[i]] = "rest"}
      choices == IF rests # {} THEN rests ELSE {i \in DOMAIN o : Optional(o[i])}
  IN IF strategy # "experience_max" \/ choices = {} THEN StayOf
     ELSE LET p == o[Max(choices)] IN
          IF p \in request.fixed \/ MaxStayOf[p] <= StayOf[p] THEN StayOf
          ELSE [StayOf EXCEPT ![p] = MaxStayOf[p]]

\* REQUIRED_PLACE_MISSING is not raised.
Proper(o) ==
  /\ o # <<>> /\ IsInjective(o)
  /\ \A p \in request.required : \E i \in DOMAIN o : o[i] = p

\* Mutant: the repaired day is appended to the late one.
AttemptAppends(o, s) ==
  /\ order' = o /\ stays' = s
  /\ phase' = IF Proper(o) THEN "travel" ELSE "order"
  /\ visited' = 0 /\ at' = Open /\ streak' = 0
  /\ UNCHANGED timeline

\* Mutant: a repaired day goes on where the last attempt stopped.
AttemptGoesOn(o, s) ==
  /\ order' = o /\ stays' = s
  /\ phase' = IF Proper(o) THEN "travel" ELSE "order"
  /\ UNCHANGED <<visited, at, timeline, streak>>

\* _schedule_once: the whole day again, with every leg asked for again.
Attempt(o, s) ==
  /\ order' = o /\ stays' = s
  /\ phase' = IF Proper(o) THEN "travel" ELSE "order"
  /\ visited' = 0 /\ at' = Open /\ timeline' = <<>> /\ streak' = 0

\* CandidateInfeasible: this order is given up.
Infeasible ==
  /\ phase' = "order"
  /\ UNCHANGED <<request, strategy, orders, order, stays, visited, at, timeline, streak>>

TakeOrder ==
  /\ phase = "order" /\ orders # <<>>
  /\ Attempt(Head(orders), Lengthened(Head(orders)))
  /\ orders' = Tail(orders)
  /\ UNCHANGED <<request, strategy>>

RefuseDay ==
  /\ phase = "order" /\ orders = <<>>
  /\ phase' = "refused"
  /\ UNCHANGED <<request, strategy, orders, order, stays, visited, at, timeline, streak>>

--------------------------------------------------------------------------------
Here == IF visited = 0 THEN Start ELSE order[visited]

\* The route to the next place; only cost_time_balance adds the pickup to a taxi.
Balances == request.policy = "cost_time_balance"
Pickup(r) == IF r.mode = "taxi" /\ Balances THEN request.pickup ELSE 0
Offers(to) == Plan(request, strategy, <<Here, to>>, at)

\* Mutant: the taxi drives while its pickup is waited for.
TransferAtOnce(r) == Transfer(at, at + Pickup(r) + r.minutes, r,
  IF r.mode = "taxi" /\ Balances THEN request.pickup ELSE NoTime)

\* The pickup buffer, unless it has no minutes, and the transfer after it.
NonEmpty(e) == IF e.end > e.start THEN <<e>> ELSE <<>>
PickupBuffer(r) == NonEmpty(Buffer("pickup", at, at + Pickup(r), Here))
TransferBy(r) ==
  Transfer(at + Pickup(r), at + Pickup(r) + r.minutes, r,
           IF r.mode = "taxi" /\ Balances THEN request.pickup ELSE NoTime)

SafetyBuffer == [balanced |-> 10, relaxed |-> 20, experience_max |-> 0]

\* _select_opening_window: when the stay can begin in a window, if it can at all.
ReadyIn(w, earliest) == Max({earliest, w.opens})
Admits(p, w, earliest) ==
  /\ w.lastIn # NoTime => ReadyIn(w, earliest) <= w.lastIn
  /\ KindOf[p] = "meal" /\ w.lastOrder # NoTime => ReadyIn(w, earliest) <= w.lastOrder
  /\ ReadyIn(w, earliest) + stays[p] <= w.closes
Admitting(p, earliest) == {w \in WindowsOf[p] : Admits(p, w, earliest)}

\* When the stay at p begins after an arrival: in the first window that admits it.
ReadyAt(p, arrival) ==
  LET earliest == IF KindOf[p] = "meal" THEN Max({arrival, LunchStart}) ELSE arrival
      windows == Admitting(p, earliest)
  IN IF WindowsOf[p] = {} THEN {earliest}
     ELSE {ReadyIn(w, earliest) : w \in {v \in windows : \A u \in windows : v.opens <= u.opens}}

\* Mutant: lunch may end at any time.
CanStayLong(p, r, ready) == r.minutes > 0

\* Neither OPENING_HOURS_CONFLICT, LAST_ORDER_MISSED, MEAL_WINDOW_MISSED nor
\* TAXI_DRIVING_DURATION_INVALID.
CanStay(p, r, ready) ==
  /\ r.minutes > 0
  /\ KindOf[p] = "meal" => ready + stays[p] <= LunchEnd

Arrival(r) == at + Pickup(r) + r.minutes + SafetyBuffer[strategy]

\* The stay itself, and the activity since the last meal or rest after it.
StayAt(p, ready) == Event(KindOf[p], ready, ready + stays[p], p)
StreakAfter(p, r) ==
  IF KindOf[p] = "visit" THEN streak + Pickup(r) + r.minutes + stays[p] ELSE 0

\* One turn of the loop over the order.
VisitNext ==
  /\ phase = "travel" /\ visited < Len(order)
  /\ LET p == order[visited + 1] IN
     \E r \in Offers(p) : \E ready \in ReadyAt(p, Arrival(r)) :
       /\ CanStay(p, r, ready)
       /\ LET left == at + Pickup(r) + r.minutes IN
          timeline' = timeline \o PickupBuffer(r) \o <<TransferBy(r)>>
                      \o NonEmpty(Buffer("slack", left, Arrival(r), p))
                      \o NonEmpty(Buffer("wait", Arrival(r), ready, p))
                      \o <<StayAt(p, ready)>>
       /\ at' = ready + stays[p]
       /\ streak' = StreakAfter(p, r)
  /\ visited' = visited + 1
  /\ UNCHANGED <<request, strategy, orders, order, stays, phase>>

MissNext ==
  /\ phase = "travel" /\ visited < Len(order)
  /\ LET p == order[visited + 1] IN
     \/ Offers(p) = {}
     \/ \E r \in Offers(p) : \A ready \in ReadyAt(p, Arrival(r)) : ~CanStay(p, r, ready)
  /\ Infeasible

--------------------------------------------------------------------------------
\* MEAL_VENUE_UNAVAILABLE or REST_VENUE_UNAVAILABLE.
Lacking ==
  \/ \E k \in request.wants : \A i \in DOMAIN timeline : timeline[i].type # k
  \/ request.restRequired /\ streak > MaxContinuous

ReturnBuffer == 20
ReturnAt(r) == at + Pickup(r) + r.minutes
IsLate(r) == ReturnAt(r) + ReturnBuffer > request.close

\* Neither TOTAL_WALKING_LIMIT_EXCEEDED nor TOTAL_BUDGET_EXCEEDED (a budget of 0
\* is no budget) nor TRIP_TRANSPORT_BUDGET_EXCEEDED.
Moderate(tl) ==
  /\ Walked(tl) <= MaxWalked
  /\ request.budget \notin {NoTime, 0} => Cost(tl) <= request.budget
  /\ request.tripLeft # NoTime => Cost(tl) <= request.tripLeft

Returning == phase = "travel" /\ visited = Len(order)

CannotReturn ==
  /\ Returning
  /\ \/ Lacking
     \/ Offers(End) = {}
     \/ \E r \in Offers(End) :
          \/ r.minutes = 0
          \/ r.minutes > 0 /\ ~IsLate(r) /\ ~Moderate(timeline \o PickupBuffer(r) \o <<TransferBy(r)>>)
  /\ Infeasible

\* HOTEL_RETURN_BUFFER_INSUFFICIENT
ReturnLate ==
  /\ Returning /\ ~Lacking
  /\ \E r \in Offers(End) : r.minutes > 0 /\ IsLate(r)
  /\ phase' = "late"
  /\ UNCHANGED <<request, strategy, orders, order, stays, visited, at, timeline, streak>>

\* The Recommendation model rejects a timeline without a visit: nobody catches
\* that error.
HasVisit == \E i \in DOMAIN timeline : timeline[i].type = "visit"
Recommended == phase' = IF HasVisit THEN "recommended" ELSE "crashed"

ReturnHome ==
  /\ Returning /\ ~Lacking
  /\ \E r \in Offers(End) :
       /\ r.minutes > 0 /\ ~IsLate(r) /\ Moderate(timeline \o PickupBuffer(r) \o <<TransferBy(r)>>)
       /\ timeline' = timeline \o PickupBuffer(r) \o <<TransferBy(r)>>
       /\ at' = ReturnAt(r)
  /\ Recommended
  /\ UNCHANGED <<request, strategy, orders, order, stays, visited, streak>>

--------------------------------------------------------------------------------
\* Repair of a late day, from the last place of the order to the first.

\* Mutant: a stay at its minimum is shortened again.
ShortenableStill(p) == Optional(p) /\ p \notin request.fixed /\ MinStayOf[p] <= stays[p]

Shortenable(p) == Optional(p) /\ p \notin request.fixed /\ MinStayOf[p] < stays[p]

LastWhere(P(_), i) ==
  /\ i \in DOMAIN order /\ P(order[i])
  /\ \A j \in DOMAIN order : j > i => ~P(order[j])

ShortenVisit ==
  /\ phase = "late"
  /\ \E i \in DOMAIN order :
       /\ LastWhere(Shortenable, i)
       /\ Attempt(order, [stays EXCEPT ![order[i]] = MinStayOf[order[i]]])
  /\ UNCHANGED <<request, strategy, orders>>

RemoveVisit ==
  /\ phase = "late" /\ ~\E i \in DOMAIN order : Shortenable(order[i])
  /\ \E i \in DOMAIN order :
       LastWhere(Optional, i) /\ Attempt(RemoveAt(order, i), stays)
  /\ UNCHANGED <<request, strategy, orders>>

GiveUp ==
  /\ phase = "late" /\ ~\E i \in DOMAIN order : Optional(order[i])
  /\ Infeasible

Next ==
  \/ TakeOrder
  \/ RefuseDay
  \/ VisitNext
  \/ MissNext
  \/ CannotReturn
  \/ ReturnLate
  \/ ReturnHome
  \/ ShortenVisit
  \/ RemoveVisit
  \/ GiveUp

Spec == Init /\ [][Next]_vars

\* The thread of the strategy runs; its provider calls end (RouteFetch).
FairSpec == Spec /\ WF_vars(Next)

--------------------------------------------------------------------------------
Phases == {"order", "travel", "late", "recommended", "refused", "crashed"}
Ended == phase \in {"recommended", "refused", "crashed"}

\* Every variable has its type, and the cursor stays inside the order.
TypeOK ==
  /\ request \in Requests /\ strategy \in Strategies
  /\ orders \in Seq(Seq(Places)) /\ order \in Seq(Places)
  /\ stays \in [Places -> Nat]
  /\ phase \in Phases
  /\ visited \in 0..Len(order)
  /\ at \in Nat /\ streak \in Nat
  /\ timeline \in Seq(TimelineEvent)

\* A recommended day is whole: it starts at the start boundary when the window
\* opens, has no gap in time or place although repairs built it again from other
\* stays and fewer places, and is back 20 minutes before the window closes.
PlansAreWhole ==
  phase = "recommended" =>
    /\ BoundaryComplete(request, timeline, Open)
    /\ Gapless(timeline) /\ Continuous(timeline)
    /\ at + ReturnBuffer <= request.close /\ timeline[Len(timeline)].end = at

\* However often it was repaired, a recommended day keeps every required place,
\* every meal and rest of its order, the stays that the user fixed or that
\* belong to a required place, and the minimum stay of the others.
Stays(p) == {i \in DOMAIN timeline : Activity(timeline[i]) /\ timeline[i].place = p}
Minutes(i) == timeline[i].end - timeline[i].start

PromisesAreKept ==
  phase = "recommended" =>
    /\ \E o \in ToSet(request.proposals) :
         \A p \in ToSet(o) : KindOf[p] # "visit" => Stays(p) # {}
    /\ \A p \in request.required : Stays(p) # {}
    /\ \A p \in Places : \A i \in Stays(p) :
         /\ Minutes(i) >= Min({StayOf[p], MinStayOf[p]})
         /\ p \in request.fixed => Minutes(i) = StayOf[p]
         /\ p \in request.required \/ KindOf[p] # "visit" => Minutes(i) >= StayOf[p]

\* Requests on which generator and evaluator apply the same rules: an evaluator
\* always wants a pickup buffer before a taxi, takes a budget of 0 at its word,
\* counts every stretch between two breaks, and holds one last admission against
\* all the windows of a place.
SameRules ==
  /\ "taxi" \in request.modes => Balances /\ request.pickup > 0
  /\ request.budget # 0 /\ ~request.restRequired
  /\ \A i \in DOMAIN timeline : Activity(timeline[i]) =>
       LET last == LastAdmission(timeline[i].place) IN
       last # NoTime => \A w \in WindowsOf[timeline[i].place] :
         IF w.lastIn = NoTime THEN w.closes <= last ELSE w.lastIn <= last

\* The evaluator walks as a balanced plan does.
SameSpeed == strategy # "relaxed" \/ request.pace # "normal"
Rides == {i \in Transfers(timeline) : timeline[i].mode = "bus"}

\* What the live acceptance demands of a generated day: evaluated on the same
\* evidence it is not infeasible.  The buses of a relaxed day are left out.
PlansAreFeasible ==
  phase = "recommended" /\ SameRules /\ (SameSpeed \/ Rides = {}) =>
    Feasible(request, timeline, Open)

\* Generation and evaluation compute the same slack for a segment, from the
\* buffers here and from the route asked for again there; walking slower than
\* balanced, the plan can only be better than what it claims.
SlackAgrees ==
  phase = "recommended" =>
    \A i \in Transfers(timeline) \ Rides : \A r \in Evidence(request, timeline, i) :
      LET planned == BuffersAfter(request, timeline, i)
          evaluated == EvaluatedSlack(request, timeline, i, r)
      IN evaluated >= planned /\ (SameSpeed => evaluated = planned)

\* Planning ends, whatever the repairs do.
PlanningEnds == <>Ended

\* Stated by the JSON contract: what cannot be planned is a failure response and
\* never an error of the protocol.
PlanningAnswers == phase # "crashed"
================================================================================
