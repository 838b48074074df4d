------------------------------ MODULE DayTimeline ------------------------------
(***************************************************************************)
(* What generation and evaluation of one day have in common: door to door  *)
(* routes between the places of the day, and the timeline of events.  The  *)
(* second half is the verdict of ItineraryEvaluationEngine on a full       *)
(* timeline, that is on a recommendation converted by                      *)
(* recommendation_to_full_timeline and looked up again in the same         *)
(* evidence.  Times are minutes of the day.                                *)
(***************************************************************************)
EXTENDS Integers, Sequences, FiniteSets, FiniteSetsExt

CONSTANTS
  Places,    \* the places an order may name
  Start,     \* start_boundary.place_id
  End,       \* end_boundary.place_id
  NoPlace,   \* an event that names no place: a transfer
  NoTime,    \* None
  KindOf,    \* Places -> activity_type
  WindowsOf, \* Places -> verified opening windows; none when UNVERIFIED
  WalkOf,    \* legs -> expected_minutes of the pedestrian route, or NoTime
  DriveOf,   \* legs -> minutes of the driving route, or NoTime
  FareOf,    \* legs -> modes -> cost_max_krw, in thousands
  BusesOf    \* legs -> scheduled direct rides between stops near its ends

Kinds == {"visit", "meal", "rest"}
Modes == {"walk", "bus", "taxi"}
Strategies == {"balanced", "relaxed", "experience_max"}
Legs == ({Start} \cup Places) \X ({End} \cup Places)

Window == [opens : Nat, closes : Nat, lastIn : Nat \cup {NoTime},
           lastOrder : Nat \cup {NoTime}]
BusRide == {b \in [access : Nat, departs : Nat, arrives : Nat, egress : Nat] :
              b.departs <= b.arrives}

ASSUME TimelineAssumption ==
  /\ NoPlace \notin Places \cup {Start, End} /\ NoTime \notin Nat
  /\ KindOf \in [Places -> Kinds]
  /\ WindowsOf \in [Places -> SUBSET Window] /\ \A p \in Places : IsFiniteSet(WindowsOf[p])
  /\ WalkOf \in [Legs -> Nat \cup {NoTime}] /\ DriveOf \in [Legs -> (Nat \ {0}) \cup {NoTime}]
  /\ FareOf \in [Legs -> [Modes -> Nat]] /\ BusesOf \in [Legs -> SUBSET BusRide]

\* planning_policy_v1.toml; the evaluator has 11:30 and 14:00 in its own code.
LunchStart == 11 * 60 + 30
LunchEnd == 14 * 60

Policies == {"prefer_selected", "fastest", "lowest_cost", "least_walking", "fewest_transfers",
             "balanced", "service_priority", "cost_time_balance"}

\* A request as far as a plan depends on it.
Request ==
  [close : Nat,             \* activity_window.end_at
   proposals : Seq(Seq(Places)), \* the orders proposed for the strategy
   required : SUBSET Places, \* required_places
   fixed : SUBSET Places,   \* places with a requested_stay_minutes
   modes : SUBSET Modes,    \* transport.allowed_modes, no walk without allow_direct_walk
   policy : Policies,       \* transport.selection_policy
   order : Seq(Modes),      \* preferred_mode, fallback_order and the other modes
   walkLimit : Nat,         \* transport.direct_walk_limit_minutes
   maxExtra : Nat,          \* transport.max_bus_extra_minutes
   minSavings : Nat,        \* transport.min_bus_savings_krw, in thousands
   pickup : Nat,            \* transport.taxi_pickup_buffer_minutes
   pace : {"normal", "slow", "support"}, \* seniors or children, mobility support
   budget : Nat \cup {NoTime}, \* total_budget_krw
   tripLeft : Nat \cup {NoTime}, \* what earlier days left of the trip budget
   wants : SUBSET {"meal", "rest"}, \* auto_schedule_meals, auto_schedule_cafe
   restRequired : BOOLEAN]  \* a seat or an indoor rest is "required"

--------------------------------------------------------------------------------
\* Routes of TmapDoorRoutePlanner.

Multiplier(q, strategy) ==
  CASE q.pace = "support" -> 140
    [] q.pace = "slow" -> 130
    [] q.pace = "normal" -> IF strategy = "relaxed" THEN 125 ELSE 115

\* planned_minutes: the expected minutes scaled, rounded up, plus 3.
Planned(q, strategy, expected) ==
  (expected * Multiplier(q, strategy) + 99) \div 100 + 3

\* The buffer of the policy; the limits are the defaults of a request.
BoardingBuffer == 7
MaxAccessWalk == 20
MaxSingleWalk == 25
MaxBusWait == 30

\* The distance walked is measured by the minutes that it is expected to take;
\* afoot are the walking_minutes that are planned.
Route(mode, minutes, walked, afoot, ride) ==
  [mode |-> mode, minutes |-> minutes, walked |-> walked, afoot |-> afoot, ride |-> ride]
NoRide == [departs |-> NoTime, arrives |-> NoTime]

WalkRoutes(q, strategy, leg) ==
  LET m == Planned(q, strategy, WalkOf[leg])
  IN IF WalkOf[leg] # NoTime /\ m <= MaxSingleWalk
     THEN {Route("walk", m, WalkOf[leg], m, NoRide)} ELSE {}

\* A fare above the whole budget is not offered; here a budget of 0 counts.
Affordable(q, leg, mode) == q.budget # NoTime => FareOf[leg][mode] <= q.budget

TaxiRoutes(q, leg) ==
  IF DriveOf[leg] # NoTime /\ Affordable(q, leg, "taxi")
  THEN {Route("taxi", DriveOf[leg], 0, 0, NoRide)} ELSE {}

\* Rides that can still be boarded, after the walk to the stop and a buffer.
Catchable(q, strategy, leg, at) ==
  {b \in BusesOf[leg] :
     LET access == Planned(q, strategy, b.access) IN
     /\ access <= MaxAccessWalk /\ Planned(q, strategy, b.egress) <= MaxAccessWalk
     /\ b.departs >= at + access + BoardingBuffer
     /\ b.departs - (at + access) <= MaxBusWait}

\* The first ride between each pair of stops, which the walks tell apart.
FirstRides(q, strategy, leg, at) ==
  LET rides == Catchable(q, strategy, leg, at)
  IN {b \in rides : \A c \in rides :
        c.access = b.access /\ c.egress = b.egress => b.departs <= c.departs}

\* Pairs of stops are tried in the order of their distance ranks at both ends,
\* then of the first arrival, a boarding stop with all of its pairs.  A place
\* has at most two stops a side here; BusSearch has the caps of longer lists.
Day == 1440
Signature(b) == <<b.access, b.egress>>
\* The place of a pair in that order: rank by distance, then its first arrival.
OrderOf(leg, at, s, pairs) ==
  LET nearer == Cardinality({p[1] : p \in {o \in pairs : o[1] < s[1]}})
                + Cardinality({p[2] : p \in {o \in pairs : o[2] < s[2]}})
  IN nearer * 2 * Day + Min({b.arrives : b \in {d \in BusesOf[leg] :
                               Signature(d) = s /\ d.departs >= at + BoardingBuffer}})

PairOrder(leg, at) ==
  LET pairs == {Signature(b) : b \in {d \in BusesOf[leg] : d.departs >= at + BoardingBuffer}}
  IN [s \in pairs |-> OrderOf(leg, at, s, pairs)]

\* Ride c is tried before d, or is of the same pair.
TriedBefore(order, c, d) ==
  LET OfStop(b) == Min({order[s] : s \in {p \in DOMAIN order : p[1] = b.access}})
  IN \/ Signature(c) = Signature(d)
     \/ OfStop(c) < OfStop(d)
     \/ OfStop(c) = OfStop(d) /\ order[Signature(c)] <= order[Signature(d)]

FirstTried(order, rides) == {c \in rides : \A d \in rides : TriedBefore(order, c, d)}

\* The first pair whose ride can be taken, which need not be the one that is there first.
BusRoutes(q, strategy, leg, at) ==
  {Route("bus", b.arrives + Planned(q, strategy, b.egress) - at, b.access + b.egress,
         Planned(q, strategy, b.access) + Planned(q, strategy, b.egress),
         [departs |-> b.departs, arrives |-> b.arrives]) :
     b \in {c \in FirstTried(PairOrder(leg, at), FirstRides(q, strategy, leg, at)) :
              Affordable(q, leg, "bus")}}

\* The route of one mode: what the planner finds, and what the evaluator asks for.
RoutesBy(q, strategy, leg, at, mode) ==
  IF mode \notin q.modes THEN {}
  ELSE CASE mode = "walk" -> WalkRoutes(q, strategy, leg)
         [] mode = "taxi" -> TaxiRoutes(q, leg)
         [] mode = "bus" -> BusRoutes(q, strategy, leg, at)

--------------------------------------------------------------------------------
\* Events of a timeline.  pickup is mode_decision.taxi_pickup_buffer_minutes of a taxi.
Event(type, start, end, place) ==
  [type |-> type, start |-> start, end |-> end, place |-> place, reason |-> "none",
   mode |-> "none", ride |-> NoRide, pickup |-> NoTime, walked |-> 0]

Buffer(reason, start, end, place) ==
  [Event("buffer", start, end, place) EXCEPT !.reason = reason]

Transfer(start, end, route, pickup) ==
  [Event("transfer", start, end, NoPlace) EXCEPT
     !.mode = route.mode, !.ride = route.ride, !.pickup = pickup, !.walked = route.walked]

Ride == [departs : Nat \cup {NoTime}, arrives : Nat \cup {NoTime}]
TimelineEvent ==
  [type : Kinds \cup {"buffer", "transfer"}, start : Nat, end : Nat,
   place : Places \cup {Start, End, NoPlace}, reason : {"none", "pickup", "slack", "wait"},
   mode : Modes \cup {"none"}, ride : Ride, pickup : Nat \cup {NoTime}, walked : Nat]

Activity(e) == e.type \in Kinds
Transfers(tl) == {i \in DOMAIN tl : tl[i].type = "transfer"}

\* _neighbor_place_id: the conversion names the ends of a transfer by the
\* nearest events that name a place, or by the boundary of the day.
FromOf(tl, i) ==
  LET named == {j \in 1..(i - 1) : tl[j].place # NoPlace}
  IN IF named = {} THEN Start ELSE tl[Max(named)].place
ToOf(tl, i) ==
  LET named == {j \in (i + 1)..Len(tl) : tl[j].place # NoPlace}
  IN IF named = {} THEN End ELSE tl[Min(named)].place

\* Where the traveller is when an event ends, and when it begins.
PlaceAfter(tl, i) == IF tl[i].type = "transfer" THEN ToOf(tl, i) ELSE tl[i].place
PlaceBefore(tl, i) == IF tl[i].type = "transfer" THEN FromOf(tl, i) ELSE tl[i].place

\* slack_minutes of a generated segment: the buffers that follow it, and after
\* the last event the rest of the activity window.
BuffersAfter(q, tl, i) ==
  LET stops == {j \in (i + 1)..Len(tl) : tl[j].type # "buffer"}
      next == IF stops = {} THEN Len(tl) + 1 ELSE Min(stops)
  IN IF i = Len(tl) THEN q.close - tl[i].end ELSE tl[next - 1].end - tl[i].end

--------------------------------------------------------------------------------
\* ItineraryEvaluationEngine._evaluate_full_timeline and _response.

\* The route of the planned mode at the planned departure, planned as balanced.
Evidence(q, tl, i) ==
  RoutesBy(q, "balanced", <<FromOf(tl, i), ToOf(tl, i)>>, tl[i].start, tl[i].mode)

\* TIMELINE_BOUNDARY_INCOMPLETE is not raised.
BoundaryComplete(q, tl, open) ==
  /\ Transfers(tl) # {}
  /\ FromOf(tl, Min(Transfers(tl))) = Start /\ tl[1].start = open
  /\ ToOf(tl, Max(Transfers(tl))) = End /\ tl[Len(tl)].end <= q.close

\* Neither EVENT_OVERLAP nor EVENT_GAP.
Gapless(tl) == \A i \in 1..(Len(tl) - 1) : tl[i].end = tl[i + 1].start

\* No LOCATION_DISCONTINUITY.
Continuous(tl) == \A i \in 1..(Len(tl) - 1) : PlaceAfter(tl, i) = PlaceBefore(tl, i + 1)

\* Neither TAXI_PICKUP_BUFFER_MISSING nor TAXI_PICKUP_BUFFER_MISMATCH.
PickupsPlanned(q, tl) ==
  \A i \in Transfers(tl) : tl[i].mode = "taxi" =>
    /\ i > 1 /\ tl[i - 1].reason = "pickup" /\ tl[i - 1].end = tl[i].start
    /\ tl[i - 1].end - tl[i - 1].start =
         IF tl[i].pickup = NoTime THEN q.pickup ELSE tl[i].pickup

\* slack_minutes of a SegmentEvaluation.
EvaluatedSlack(q, tl, i, route) ==
  tl[i].end - tl[i].start + BuffersAfter(q, tl, i) - route.minutes

\* Neither USER_ROUTE_FACT_MISMATCH nor NEGATIVE_TRANSFER_SLACK, nor a missing route.
LegsHold(q, tl) ==
  \A i \in Transfers(tl) :
    \E r \in Evidence(q, tl, i) : r.ride = tl[i].ride /\ EvaluatedSlack(q, tl, i, r) >= 0

\* The last opening rule that states a last admission is the one remembered.
LastAdmission(p) ==
  LET stated == {w \in WindowsOf[p] : w.lastIn # NoTime}
  IN IF stated = {} THEN NoTime
     ELSE (CHOOSE w \in stated : \A v \in stated : w.opens >= v.opens).lastIn

\* Neither PLACE_CLOSED nor LAST_ADMISSION_MISSED.
HoursHold(tl) ==
  \A i \in DOMAIN tl : Activity(tl[i]) /\ WindowsOf[tl[i].place] # {} =>
    /\ \E w \in WindowsOf[tl[i].place] : w.opens <= tl[i].start /\ tl[i].end <= w.closes
    /\ LastAdmission(tl[i].place) # NoTime => tl[i].start <= LastAdmission(tl[i].place)

\* No MEAL_WINDOW_MISSED.
MealsHold(tl) ==
  \A i \in DOMAIN tl : tl[i].type = "meal" => tl[i].start >= LunchStart /\ tl[i].end <= LunchEnd

Cost(tl) ==
  MapThenSumSet(LAMBDA i : FareOf[<<FromOf(tl, i), ToOf(tl, i)>>][tl[i].mode], Transfers(tl))
Walked(tl) == MapThenSumSet(LAMBDA i : tl[i].walked, Transfers(tl))
MaxWalked == 80

\* Neither TOTAL_WALKING_LIMIT_EXCEEDED nor TOTAL_BUDGET_EXCEEDED.
LimitsHold(q, tl) ==
  /\ Walked(tl) <= MaxWalked
  /\ q.budget # NoTime => Cost(tl) <= q.budget

MaxContinuous == 120

\* No MISSING_REQUIRED_REST: everything between two breaks counts as activity.
RestHolds(q, tl) ==
  q.restRequired =>
    \A i \in DOMAIN tl : \A j \in i..Len(tl) :
      (\A k \in i..j : tl[k].type \notin {"meal", "rest"}) =>
        tl[j].end - tl[i].start <= MaxContinuous

\* The status is feasible or feasible_with_caution: no critical issue, no route missing.
Feasible(q, tl, open) ==
  /\ BoundaryComplete(q, tl, open)
  /\ Gapless(tl)
  /\ Continuous(tl)
  /\ PickupsPlanned(q, tl)
  /\ LegsHold(q, tl)
  /\ HoursHold(tl)
  /\ MealsHold(tl)
  /\ LimitsHold(q, tl)
  /\ RestHolds(q, tl)
================================================================================
