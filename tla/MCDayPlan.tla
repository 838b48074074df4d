------------------------------- MODULE MCDayPlan -------------------------------
(***************************************************************************)
(* A hotel, two sights, a restaurant and a cafe along one road.            *)
(***************************************************************************)
EXTENDS DayPlan

CONSTANTS hotel, fort, falls, grill, cafe

MCPlaces == {fort, falls, grill, cafe}
MCKindOf == (fort :> "visit") @@ (falls :> "visit") @@ (grill :> "meal") @@ (cafe :> "rest")

Hours(opens, closes, lastIn, lastOrder) ==
  [opens |-> opens, closes |-> closes, lastIn |-> lastIn, lastOrder |-> lastOrder]

\* The fort closes for lunch, the falls are always open, the grill takes orders
\* until 13:30 and the hours of the cafe are not verified.
MCWindowsOf ==
  (fort :> {Hours(540, 720, NoTime, NoTime), Hours(780, 1080, 1020, NoTime)}) @@
  (falls :> {Hours(0, 1440, 1000, NoTime)}) @@
  (grill :> {Hours(660, 900, NoTime, 810)}) @@ (cafe :> {})

MileOf == (hotel :> 0) @@ (fort :> 1) @@ (grill :> 2) @@ (falls :> 3) @@ (cafe :> 4)
Miles(leg) == LET d == MileOf[leg[1]] - MileOf[leg[2]] IN IF d < 0 THEN -d ELSE d

MCWalkOf == [leg \in Legs |-> IF Miles(leg) <= 1 THEN 16 * Miles(leg) ELSE NoTime]
MCDriveOf == [leg \in Legs |-> IF Miles(leg) >= 1 THEN 4 + 3 * Miles(leg) ELSE NoTime]
MCFareOf == [leg \in Legs |-> [walk |-> 0, bus |-> 2, taxi |-> 5 + 2 * Miles(leg)]]
MCLeastFareOf == [leg \in Legs |-> [walk |-> 0, bus |-> 1, taxi |-> 4 + Miles(leg)]]
MCBeelineOf == [leg \in Legs |-> 14 * Miles(leg)]

\* A bus every 40 minutes with stops close by, and an express from farther stops.
MCBusesOf ==
  [leg \in Legs |-> IF Miles(leg) = 0 THEN {} ELSE
     {[access |-> 10, departs |-> t, arrives |-> t + 5 * Miles(leg), egress |-> 4] :
        t \in {590 + 40 * k : k \in 1..10}} \cup
     {[access |-> 13, departs |-> t, arrives |-> t + 3 * Miles(leg), egress |-> 6] :
        t \in {625 + 60 * k : k \in 0..6}}]

MCStayOf == (fort :> 60) @@ (falls :> 60) @@ (grill :> 60) @@ (cafe :> 30)
MCMinStayOf == (fort :> 45) @@ (falls :> 45) @@ (grill :> 45) @@ (cafe :> 20)
MCMaxStayOf == (fort :> 90) @@ (falls :> 90) @@ (grill :> 90) @@ (cafe :> 60)

Tour == <<fort, grill, falls, cafe>>
Base ==
  [close |-> 900, proposals |-> <<Tour>>, required |-> {}, fixed |-> {}, modes |-> Modes,
   policy |-> "cost_time_balance", order |-> <<"bus", "taxi", "walk">>,
   walkLimit |-> 15, maxExtra |-> 30, minSavings |-> 5,
   pickup |-> 10, pace |-> "normal", budget |-> NoTime, tripLeft |-> NoTime, wants |-> {"meal", "rest"}, restRequired |-> FALSE]

Variants ==
  {Base,
   [Base EXCEPT !.required = {fort}, !.pace = "slow"],
   [Base EXCEPT !.required = {falls, cafe}, !.fixed = {fort}, !.pickup = 5, !.pace = "support"],
   [Base EXCEPT !.fixed = {falls, cafe}, !.budget = 40,
                !.proposals = <<<<fort, falls, grill, cafe>>, Tour>>],
   [Base EXCEPT !.tripLeft = 16, !.modes = {"walk", "taxi"}],
   [Base EXCEPT !.proposals = <<<<falls, fort>>, <<fort>>>>, !.wants = {}],
   [Base EXCEPT !.modes = {"bus"}, !.required = {falls},
                !.proposals = <<<<grill, falls, cafe>>, <<falls, grill, cafe>>>>]}

\* Days that are too short, just right after repair, and long enough.
Closing == {720, 800, 840, 900, 1020}

\* Ways to choose: the default, a long walk before all, no walk while there is
\* another way, a bus for little savings, and the policies that weigh one thing.
OtherWays(q) ==
  {[q EXCEPT !.walkLimit = 25], [q EXCEPT !.walkLimit = 10, !.maxExtra = 60, !.modes = @ \ {"taxi"}],
   [q EXCEPT !.minSavings = 3]} \cup
  {[q EXCEPT !.policy = p] : p \in {"fastest", "lowest_cost", "least_walking", "balanced"}} \cup
  {[q EXCEPT !.policy = "prefer_selected", !.order = o] :
     o \in {<<"walk", "bus", "taxi">>, <<"bus", "taxi", "walk">>}}
MCRequests ==
  {[q EXCEPT !.close = c] : q \in Variants, c \in Closing} \cup
  {[v EXCEPT !.close = c] : v \in UNION {OtherWays(q) : q \in Variants}, c \in {800, 900}}

\* Half a day with lunch is all there is.
ShortDays == {[Base EXCEPT !.close = 800, !.wants = {"meal"},
                           !.proposals = <<<<fort, grill, falls>>>>]}
================================================================================
