------------------------------ MODULE ModeChoice -------------------------------
(***************************************************************************)
(* TmapDoorRoutePlanner.plan: the routes of all modes for one leg and the  *)
(* one that selection_policy takes.  The three modes of cost_time_balance  *)
(* are asked for by threads that share nothing but what RouteFetch models; *)
(* their results are read in the order of the modes.                       *)
(***************************************************************************)
EXTENDS DayTimeline

CONSTANTS
  BeelineOf,   \* legs -> minutes of the beeline at maximum_planning_speed_kph
  LeastFareOf  \* legs -> modes -> cost_min_krw, in thousands

ASSUME ChoiceAssumption ==
  /\ BeelineOf \in [Legs -> Nat]
  /\ LeastFareOf \in [Legs -> [Modes -> Nat]]

Candidates(q, strategy, leg, at) == UNION {RoutesBy(q, strategy, leg, at, m) : m \in Modes}

\* prefer_selected: the first of the ordered modes that has a route.
FirstPreferred(q, found) ==
  {r \in found : \E i \in DOMAIN q.order :
     /\ q.order[i] = r.mode
     /\ \A j \in 1..(i - 1) : \A s \in found : s.mode # q.order[j]}

\* What the other policies minimise; a direct ride has no change.
WeightOf(q, leg, r) ==
  CASE q.policy = "fastest" -> r.minutes
    [] q.policy = "lowest_cost" -> FareOf[leg][r.mode]
    [] q.policy = "least_walking" -> r.afoot
    [] q.policy = "fewest_transfers" -> 0
    [] OTHER -> r.minutes + r.afoot + FareOf[leg][r.mode]

\* The modes are asked in alphabetical order, and the first minimum is taken.
Alphabetical == [bus |-> 1, taxi |-> 2, walk |-> 3]
Lightest(q, leg, found) ==
  {r \in found : \A s \in found :
     \/ WeightOf(q, leg, r) < WeightOf(q, leg, s)
     \/ /\ WeightOf(q, leg, r) = WeightOf(q, leg, s)
        /\ Alphabetical[r.mode] <= Alphabetical[s.mode]}

--------------------------------------------------------------------------------
\* cost_time_balance

\* _prefilter_direct_walk: even at the highest speed the walk would be too long.
TooFar(q, leg) == BeelineOf[leg] > q.walkLimit

\* A walk that is too far is not asked for unless nothing else is found.
Compared(q, leg, found) ==
  LET asked == {r \in found : r.mode = "walk" => ~TooFar(q, leg)}
  IN IF asked = {} THEN found ELSE asked

DoorToDoor(q, r) == r.minutes + (IF r.mode = "taxi" THEN q.pickup ELSE 0)
Midpoint(leg, mode) == (LeastFareOf[leg][mode] + FareOf[leg][mode]) \div 2

BusIsWorthIt(q, leg, bus, taxi) ==
  LET extra == DoorToDoor(q, bus) - DoorToDoor(q, taxi)
      savings == Midpoint(leg, "taxi") - Midpoint(leg, "bus")
  IN \/ extra <= 0 /\ savings > 0
     \/ extra <= q.maxExtra /\ savings >= q.minSavings

\* A near walk; else what is worth it of bus and taxi; else taxi, walk, bus.
Balanced(q, leg, found) ==
  LET of(mode) == {r \in found : r.mode = mode}
      near == {r \in of("walk") : r.minutes <= q.walkLimit}
      worth == {b \in of("bus") : \E t \in of("taxi") : BusIsWorthIt(q, leg, b, t)}
  IN CASE near # {} -> near
       [] near = {} /\ worth # {} -> worth
       [] near = {} /\ worth = {} /\ of("taxi") # {} -> of("taxi")
       [] near = {} /\ of("taxi") = {} -> IF of("walk") # {} THEN of("walk") ELSE of("bus")

\* At most one route: what the generator gets for a leg.
Plan(q, strategy, leg, at) ==
  LET found == Candidates(q, strategy, leg, at)
  IN CASE q.policy = "prefer_selected" -> FirstPreferred(q, found)
       [] q.policy = "cost_time_balance" -> Balanced(q, leg, Compared(q, leg, found))
       [] OTHER -> Lightest(q, leg, found)
================================================================================
