----------------------------- MODULE MCRevalidation ----------------------------
(***************************************************************************)
(* A hotel, two sights, a restaurant and a cafe along one road, and some   *)
(* days on it: one that is easy, one that is tight and has a rest, and     *)
(* days of a user with a leg that does not fit.                            *)
(***************************************************************************)
EXTENDS Revalidation

CONSTANTS hotel, fort, falls, grill, cafe, wayside

MCPlaces == {fort, falls, grill, cafe, wayside}
MCKindOf == (fort :> "visit") @@ (falls :> "visit") @@ (grill :> "meal")
            @@ (cafe :> "rest") @@ (wayside :> "visit")

Hours(opens, closes, lastIn) ==
  [opens |-> opens, closes |-> closes, lastIn |-> lastIn, lastOrder |-> NoTime]
MCWindowsOf ==
  (fort :> {Hours(540, 720, NoTime), Hours(780, 1080, 1020)}) @@
  (falls :> {Hours(0, 1440, 1000)}) @@ (grill :> {Hours(660, 900, NoTime)}) @@
  (cafe :> {}) @@ (wayside :> {})

\* Tenths of a mile.
MileOf == (hotel :> 0) @@ (fort :> 10) @@ (wayside :> 15) @@ (grill :> 20)
          @@ (falls :> 30) @@ (cafe :> 40)
Tenths(leg) == LET d == MileOf[leg[1]] - MileOf[leg[2]] IN IF d < 0 THEN -d ELSE d

MCWalkOf == [leg \in Legs |-> IF Tenths(leg) <= 10 /\ leg # <<wayside, grill>>
                              THEN 1 + (15 * Tenths(leg)) \div 10 ELSE NoTime]
MCDriveOf == [leg \in Legs |-> IF Tenths(leg) > 5 THEN 4 + (3 * Tenths(leg)) \div 10 ELSE NoTime]
MCFareOf == [leg \in Legs |-> [walk |-> 0, bus |-> 1, taxi |-> 5]]

\* A bus every 20 minutes; the wayside shares the stop of the fort.
MCBusesOf ==
  [leg \in Legs |-> IF Tenths(leg) < 10 THEN {} ELSE
     {[access |-> IF leg[1] = wayside THEN 2 ELSE 10, departs |-> t,
       arrives |-> t + Tenths(leg) \div 2, egress |-> 4] : t \in {590 + 20 * k : k \in 1..18}}]
MCStopOf ==
  [b \in Boardings |-> IF b = <<wayside, 2>> THEN <<fort, 10>> ELSE b]

MCStairsKnown == {<<hotel, fort>>, <<fort, grill>>}
MCMealSafety == [p \in MCPlaces |-> IF p = grill THEN "unknown" ELSE "safe"]

Base ==
  [close |-> 900, required |-> {falls}, modes |-> Modes, pickup |-> 10, pace |-> "normal",
   budget |-> NoTime, restRequired |-> FALSE, order |-> <<"bus", "walk", "taxi">>,
   policy |-> "fastest", avoidStairs |-> FALSE, diet |-> FALSE]

Walk(start, end) == Transfer(start, end, Route("walk", 0, 16, 0, NoRide), NoTime)
Taxi(start, end, pickup) == Transfer(start, end, Route("taxi", 0, 0, 0, NoRide), pickup)
Bus(start, end, departs, arrives, walked) ==
  Transfer(start, end, Route("bus", 0, walked, 0, [departs |-> departs, arrives |-> arrives]), NoTime)

\* Walk to the fort, bus to the falls, taxi home.
Easy == <<Walk(600, 622), Buffer("slack", 622, 640, fort), Event("visit", 640, 700, fort),
          Bus(700, 748, 730, 740, 14), Buffer("slack", 748, 770, falls),
          Event("visit", 770, 820, falls), Buffer("pickup", 820, 830, falls),
          Taxi(830, 843, 10)>>

\* The plan names another bus than the first that can be caught.
Other == [Easy EXCEPT ![4] = Bus(700, 763, 750, 760, 14), ![5] = Buffer("slack", 763, 770, falls)]

\* The bus comes too late for what follows it.
Late == <<Walk(600, 622), Event("visit", 622, 700, fort),
          Bus(700, 740, 730, 740, 14), Event("visit", 740, 820, falls),
          Buffer("pickup", 820, 830, falls), Taxi(830, 843, 10)>>

\* The bus to lunch is slower than the walk, and the walk needs a shorter stay.
Lunch(open, leg) ==
  <<Walk(open, open + 22), Event("visit", open + 22, 700, fort), leg,
    Event("meal", leg.end, 770, grill), Buffer("pickup", 770, 780, grill), Taxi(780, 790, 10)>>
LateLunch == Lunch(600, Bus(700, 725, 730, 735, 14))
LateWalk(open) == Lunch(open, Walk(700, 715))

\* Lunch and a cafe with a rest that is required; no minute to spare.
Tight == <<Walk(690, 712), Event("visit", 712, 715, fort), Walk(715, 737),
           Event("meal", 737, 780, grill), Bus(780, 828, 810, 820, 14),
           Event("rest", 828, 856, cafe), Buffer("pickup", 856, 866, cafe), Taxi(866, 882, NoTime)>>

\* The last admission passes during the second stay.
Evening == <<Walk(900, 922), Event("visit", 922, 930, fort), Buffer("pickup", 930, 940, fort),
             Taxi(940, 950, 10), Buffer("slack", 950, 970, falls), Event("visit", 970, 1050, falls),
             Buffer("pickup", 1050, 1060, falls), Taxi(1060, 1073, 10)>>

EasyDay == <<Act(3, fort, 640, 700), Act(6, falls, 770, 820)>>
LateDay == <<Act(4, falls, 740, 820), Act(2, fort, 622, 700)>>
LunchDay == <<Act(2, fort, 622, 700), Act(4, grill, 715, 770)>>
TightDay == <<Act(2, fort, 712, 715), Act(4, grill, 737, 780), Act(6, cafe, 828, 856)>>

\* Each day as activities: in time, too late for the first leg, not in order.
EasyDrafts ==
  {[q |-> Base, day |-> Draft(Start, at, EasyDay, <<>>)] : at \in {600, 625}} \cup
  {[q |-> [Base EXCEPT !.modes = {"walk", "taxi"}],
    day |-> Draft(Start, 620, EasyDay, <<Lock(0, 3, "walk")>>)]}
LateDrafts ==
  {[q |-> [Base EXCEPT !.policy = p], day |-> Draft(Start, 600, LateDay, <<Lock(2, 4, "bus")>>)] :
     p \in {"lowest_cost", "prefer_selected"}}
LunchDrafts ==
  {[q |-> [Base EXCEPT !.policy = "least_walking", !.modes = {"walk", "bus"}],
    day |-> Draft(Start, at, LunchDay, <<Lock(0, 2, "walk"), Lock(2, 4, "walk")>>)] : at \in {600, 610}}
TightDrafts ==
  {[q |-> [Base EXCEPT !.avoidStairs = TRUE, !.diet = TRUE, !.restRequired = TRUE],
    day |-> Draft(Start, at, TightDay, <<>>)] : at \in {690, 700}}

Trip(q, tl, alts, drafts) ==
  [q |-> q, open |-> tl[1].start, tl |-> tl, drafts |-> drafts,
   alts |-> [i \in DOMAIN tl |-> IF tl[i].type = "transfer" THEN alts ELSE <<>>]]
MCTrips ==
  {Trip([Base EXCEPT !.policy = "lowest_cost", !.close = 850], Easy, <<"taxi", "bus">>, EasyDrafts),
   Trip(Base, Other, <<"taxi">>, {}),
   Trip(Base, Late, <<"taxi">>, LateDrafts),
   Trip([Base EXCEPT !.policy = "lowest_cost"], LateLunch, <<"walk">>, LunchDrafts),
   Trip([Base EXCEPT !.required = {fort}], LateWalk(600), <<"bus">>, {}),
   Trip(Base, LateWalk(600), <<>>, {}),
   Trip(Base, LateWalk(672), <<"taxi">>, {}),
   Trip([Base EXCEPT !.close = 1100], Evening, <<>>, {}),
   Trip([Base EXCEPT !.restRequired = TRUE], Tight, <<>>, TightDrafts)}
================================================================================
