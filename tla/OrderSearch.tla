------------------------------ MODULE OrderSearch ------------------------------
(***************************************************************************)
(* PostgresGenerationGateway.bus_only_candidate_orders: which orders of     *)
(* places a day by bus may try, found on the timetable alone before any    *)
(* walking route is paid for.  For each strategy orders grow role by role, *)
(* one partial order is kept for each set of places and last place, and of *)
(* the whole orders one triple and its fallbacks are proposed.  Times are  *)
(* minutes of the day, distances metres.                                   *)
(***************************************************************************)
EXTENDS Timetable

CONSTANTS
  Places,    \* fact ids, which are compared where everything else is equal
  Hotel,     \* start_boundary and end_boundary
  NoTime,    \* None
  RoleOf,    \* Places -> activity_type
  StayOf,    \* Places -> recommended stay of the policy
  LeastOf,   \* Places -> minimum stay of the policy
  RadiusOf,  \* Places -> distance from the hotel
  StopsNear, \* places -> stops at most 2500 m away -> distance
  Neighbors  \* pairs of confirmed stops at most 300 m apart -> distance

Roles == {"visit", "meal", "rest"}
Strategies == <<"relaxed", "balanced", "experience_max">>

ASSUME OrderSearchAssumption ==
  /\ Places \subseteq Nat /\ Hotel \in Nat \ Places /\ NoTime \notin Nat
  /\ RoleOf \in [Places -> Roles] /\ StayOf \in [Places -> Nat]
  /\ LeastOf \in [Places -> Nat] /\ RadiusOf \in [Places -> Nat]
  /\ DOMAIN StopsNear = Places \cup {Hotel}
  /\ \A p \in DOMAIN StopsNear :
       DOMAIN StopsNear[p] \subseteq Stops /\ Range(StopsNear[p]) \subseteq 0..2500
  /\ Neighbors \in [DOMAIN Neighbors -> 0..300]

\* planning_policy_v1.toml.
BoardingBuffer == 7
RouteUncertainty == 3
LunchStart == 690
LunchEnd == 840
Slack == [relaxed |-> 20, balanced |-> 10, experience_max |-> 0]
VisitsOf == [relaxed |-> 2, balanced |-> 3, experience_max |-> 3]
MinutesToWalk(metres) == (metres * 60 + 6999) \div 7000

VARIABLES
  day,       \* the request, and the hours of the places that were loaded
  stage,     \* "idle", "legs", "search" or "found"
  legs,      \* rides between two of the places
  todo,      \* strategies not searched yet
  short,     \* optional visits have their minimum stay
  partial,   \* partial orders of the first strategy of todo
  solutions, \* strategies -> whole orders with the time of return
  orders     \* strategies -> orders proposed, none if a strategy has none

searchVars == <<day, stage, legs, todo, short, partial, solutions, orders>>

NoDay == [loaded |-> <<>>]
Nothing == [order |-> <<>>, ends |-> 0, streak |-> 0]
NoOrders == [s \in Range(Strategies) |-> <<>>]

SearchInit ==
  /\ day = NoDay /\ stage = "idle" /\ legs = {} /\ todo = Strategies /\ short = FALSE
  /\ partial = {} /\ solutions = [s \in Range(Strategies) |-> {}] /\ orders = NoOrders

--------------------------------------------------------------------------------
\* _bus_candidate_legs.

Loaded == DOMAIN day.loaded
EndpointStops == UNION {DOMAIN StopsNear[p] : p \in Loaded \cup {Hotel}}
Latest == day.until + 240

Row(signature, from, to, departs, arrives, transfers) ==
  [signature |-> signature, from |-> from, to |-> to, departs |-> departs,
   arrives |-> arrives, transfers |-> transfers]

\* Rides between stops of two sets, of the trips whose service runs that day.
RidesBetween(A, B) == UNION {AllRides(a, b) : a \in A, b \in B}

\* A trip is left out if it is suspended when it leaves.
DirectRows ==
  {Row(<<r.trip>>, r.from, r.to, r.departs, r.arrives, 0) :
     r \in {x \in RidesBetween(EndpointStops, EndpointStops) :
              /\ x.departs >= day.from /\ x.arrives <= Latest
              /\ ~Suspended(x.trip, x.departs)}}

\* _one_transfer_candidate_rows: the three first of each hour.  Suspensions are
\* not looked at.
TransferRows ==
  LET first == {r \in RidesBetween(EndpointStops, {n[1] : n \in DOMAIN Neighbors}) :
                  r.departs \in day.from..Latest}
      second == RidesBetween({n[2] : n \in DOMAIN Neighbors}, EndpointStops)
      Ready(r, n) == r.arrives + MinutesToWalk(Neighbors[n]) + TransferBuffer
      rows == {Row(<<x[1].trip, x[2].trip>>, x[1].from, x[2].to, x[1].departs, x[2].arrives, 1) :
                 x \in {y \in first \X second :
                          /\ <<y[1].to, y[2].from>> \in DOMAIN Neighbors
                          /\ y[2].departs - Ready(y[1], <<y[1].to, y[2].from>>) \in 0..day.maxWait
                          /\ y[1].trip # y[2].trip
                          /\ NumberOf[y[1].trip] # NumberOf[y[2].trip]
                          /\ y[2].arrives <= Latest}}
      Bucket(r) == {o \in rows : /\ o.from = r.from /\ o.to = r.to
                                 /\ o.departs \div 60 = r.departs \div 60}
      Better(o, r) == o.arrives < r.arrives \/ (o.arrives = r.arrives /\ o.departs < r.departs)
      best == {r \in rows : \A o \in Bucket(r) : o.signature = r.signature => ~Better(o, r)}
  IN {r \in best : Cardinality({o \in best \cap Bucket(r) : Better(o, r)}) < 3}

\* Of one trip between two places the stops with the shortest walks.
LegsFound ==
  LET rows == DirectRows \cup (IF day.transfers >= 1 THEN TransferRows ELSE {})
      Leg(p, r) == [origin |-> p[1], destination |-> p[2], row |-> r,
                    access |-> StopsNear[p[1]][r.from], egress |-> StopsNear[p[2]][r.to]]
      all == {Leg(y[1], y[2]) :
                y \in {x \in ((Loaded \cup {Hotel}) \X (Loaded \cup {Hotel})) \X rows :
                                /\ x[1][1] # x[1][2]
                                /\ x[2].from \in DOMAIN StopsNear[x[1][1]]
                                /\ x[2].to \in DOMAIN StopsNear[x[1][2]]}}
      Walked(l) == <<l.access + l.egress, l.row.departs, l.row.arrives>>
      Same(l) == {o \in all : /\ o.origin = l.origin /\ o.destination = l.destination
                              /\ o.row.signature = l.row.signature}
  IN {l \in all : \A o \in Same(l) : ~Precedes(Walked(o), Walked(l))}

ReadLegs ==
  /\ stage = "legs"
  /\ legs' = LegsFound
  /\ partial' = {[Nothing EXCEPT !.ends = day.from]}
  /\ stage' = "search"
  /\ UNCHANGED <<day, todo, short, solutions, orders>>

--------------------------------------------------------------------------------
\* _bus_only_strategy_solutions.

Access(l) == MinutesToWalk(l.access) + RouteUncertainty
Egress(l) == MinutesToWalk(l.egress) + RouteUncertainty

Catches(l, at) ==
  /\ Access(l) <= day.maxWalk /\ Egress(l) <= day.maxWalk
  /\ l.row.departs >= at + Access(l) + BoardingBuffer
  /\ l.row.departs - at - Access(l) <= day.maxWait

\* _next_bus_arrival
Arrivals(from, to, at) ==
  {l.row.arrives + Egress(l) :
     l \in {x \in legs : x.origin = from /\ x.destination = to /\ Catches(x, at)}}
NextArrival(from, to, at) ==
  LET a == Arrivals(from, to, at) IN IF a = {} THEN NoTime ELSE Min(a)

LastPlace(order) == IF order = <<>> THEN Hotel ELSE order[Len(order)]
RequiredVisits == {p \in day.required \cap Loaded : RoleOf[p] = "visit"}
Wanted(strategy, role) ==
  IF role = "visit" THEN Max({VisitsOf[strategy], Cardinality(RequiredVisits)})
  ELSE IF role \in day.wants THEN 1 ELSE 0
Whole(strategy) ==
  Wanted(strategy, "visit") + Wanted(strategy, "meal") + Wanted(strategy, "rest")

Stay(p) ==
  IF short /\ RoleOf[p] = "visit" /\ p \notin day.required THEN LeastOf[p] ELSE StayOf[p]

\* A stay begins after its slack, the opening and the beginning of lunch.
Begins(strategy, p, arrival) ==
  LET h == day.loaded[p] IN
  Max({arrival + Slack[strategy]} \cup (IF h.opens = NoTime THEN {} ELSE {h.opens})
        \cup (IF RoleOf[p] = "meal" THEN {LunchStart} ELSE {}))

\* Mutant: a stay may end after closing time.
AdmitsUntilClosing(p, begins, ends) ==
  LET h == day.loaded[p] IN
  /\ h.lastIn # NoTime => begins <= h.lastIn
  /\ h.closes # NoTime => begins <= h.closes
  /\ RoleOf[p] = "meal" => ends <= LunchEnd /\ (h.lastOrder # NoTime => begins <= h.lastOrder)

Admits(p, begins, ends) ==
  LET h == day.loaded[p] IN
  /\ h.lastIn # NoTime => begins <= h.lastIn
  /\ h.closes # NoTime => ends <= h.closes
  /\ RoleOf[p] = "meal" => ends <= LunchEnd /\ (h.lastOrder # NoTime => begins <= h.lastOrder)

\* The place after a partial order, if it can be reached and visited.
Extended(strategy, x, p) ==
  LET arrival == NextArrival(LastPlace(x.order), p, x.ends)
      begins == Begins(strategy, p, arrival)
  IN IF arrival = NoTime THEN {}
     ELSE IF ~Admits(p, begins, begins + Stay(p)) THEN {}
     ELSE {[order |-> Append(x.order, p), ends |-> begins + Stay(p),
            streak |-> IF RoleOf[p] = "visit" THEN x.streak + arrival - x.ends + Stay(p) ELSE 0]}

RolesIn(order) == [i \in DOMAIN order |-> RoleOf[order[i]]]
Count(order, role) == Cardinality({i \in DOMAIN order : RoleOf[order[i]] = role})

\* Of the partial orders with the same roles, places and last place the one
\* that ends first is kept.  The limit of 12000 is not reached.
Kept(S) ==
  LET Same(x) == {y \in S : /\ RolesIn(y.order) = RolesIn(x.order)
                            /\ Range(y.order) = Range(x.order)
                            /\ LastPlace(y.order) = LastPlace(x.order)}
      Key(x) == <<x.ends, x.streak>> \o x.order
  IN {x \in S : \A y \in Same(x) : ~Precedes(Key(y), Key(x))}

Extend ==
  /\ stage = "search" /\ todo # <<>>
  /\ \E x \in partial : Len(x.order) < Whole(Head(todo))
  /\ LET s == Head(todo) IN
     partial' = Kept(UNION {Extended(s, x[1], x[2]) :
                  x \in {y \in partial \X Loaded :
                    /\ y[2] \notin Range(y[1].order)
                    /\ Count(y[1].order, RoleOf[y[2]]) < Wanted(s, RoleOf[y[2]])}})
  /\ UNCHANGED <<day, stage, legs, todo, short, solutions, orders>>

\* Whole orders, of which 80 at most are kept, that visit what is required and return in time.
Returns(x) ==
  LET back == NextArrival(LastPlace(x.order), Hotel, x.ends) IN
  IF \/ ~(day.required \subseteq Range(x.order))
     \/ day.rest # NoTime /\ x.streak > day.rest
     \/ back = NoTime \/ back > day.until
  THEN {} ELSE {[order |-> x.order, returns |-> back]}

Collected == UNION {Returns(x) : x \in partial}

Again ==
  /\ partial' = {[Nothing EXCEPT !.ends = day.from]}
  /\ UNCHANGED <<day, stage, legs, orders>>

\* Minimum stays are tried when nothing is found with the recommended ones.
CloseStrategy ==
  /\ stage = "search" /\ todo # <<>>
  /\ \A x \in partial : Len(x.order) = Whole(Head(todo))
  /\ IF Collected = {} /\ ~short
     THEN short' = TRUE /\ UNCHANGED <<todo, solutions>>
     ELSE /\ solutions' = [solutions EXCEPT ![Head(todo)] = Collected]
          /\ todo' = Tail(todo) /\ short' = FALSE
  /\ Again

--------------------------------------------------------------------------------
\* Which orders are proposed.

Edges(order) ==
  {<<Hotel, order[1]>>, <<LastPlace(order), Hotel>>} \cup
  {<<order[i], order[i + 1]>> : i \in 1..(Len(order) - 1)}
Unverified(order) == Cardinality({i \in DOMAIN order : ~day.loaded[order[i]].verified})
MealPosition(order) ==
  Min({i - 1 : i \in {j \in DOMAIN order : RoleOf[order[j]] = "meal"}} \cup {Len(order)})
Radius(order) == Max({RadiusOf[order[i]] : i \in DOMAIN order})

\* _orders_are_materially_different: jaccard at most 0.8, or at most 0.7 of the
\* places at the same position.
Different(o, p) ==
  LET both == Cardinality(Range(o) \cap Range(p))
      either == Cardinality(Range(o) \cup Range(p))
      same == Cardinality({i \in DOMAIN o \cap DOMAIN p : o[i] = p[i]})
  IN 10 * both <= 8 * either \/ 10 * same <= 7 * Max({Len(o), Len(p)})

\* _relaxed_prefix_order: the balanced order with fewer visits.

\* Mutant: the first visits are kept, required or not.
FirstVisits(order) ==
  LET visits == SelectSeq(order, LAMBDA p : RoleOf[p] = "visit")
      target == Max({2, Cardinality(RequiredVisits)})
  IN SelectSeq(order, LAMBDA p : RoleOf[p] # "visit" \/
       \E i \in 1..target : i \in DOMAIN visits /\ visits[i] = p)

RelaxedPrefix(order) ==
  LET Optional(i) == RoleOf[order[i]] = "visit" /\ order[i] \notin RequiredVisits
      more == Max({2, Cardinality(RequiredVisits)}) - Cardinality(RequiredVisits)
      left == {i \in DOMAIN order :
                 Optional(i) => Cardinality({j \in 1..(i - 1) : Optional(j)}) < more}
      at == Ordered([i \in left |-> <<i>>])
  IN [k \in DOMAIN at |-> order[at[k]]]

\* The balanced, the relaxed and the longest order are chosen together.
Triples ==
  {c \in solutions["balanced"] \X solutions["relaxed"] \X solutions["experience_max"] :
     /\ Different(c[1].order, c[2].order) /\ Different(c[2].order, c[3].order)
     /\ c[1].order = c[3].order \/ Different(c[1].order, c[3].order)}

Chosen ==
  LET Total(c, Of(_)) == Of(c[1].order) + Of(c[2].order) + Of(c[3].order)
      Key(c) == <<Total(c, Unverified),
                  Max({MealPosition(c[i].order) : i \in 1..3}), Total(c, MealPosition),
                  Cardinality(UNION {Edges(c[i].order) : i \in 1..3}),
                  Max({c[i].returns : i \in 1..3}), c[1].returns, c[2].returns, c[3].returns>>
                \o c[1].order \o c[2].order \o c[3].order
  IN {c \in Triples : \A o \in Triples : ~Precedes(Key(o), Key(c))}

\* Another order of the strategy, to be tried if the first one fails.
Fallback(strategy, primary) ==
  LET others == {x \in solutions[strategy] : x.order # primary}
      Key(x) == <<Unverified(x.order), MealPosition(x.order),
                  Cardinality(Edges(x.order) \cap Edges(primary)), x.returns, Radius(x.order)>>
                \o x.order
  IN {x.order : x \in {y \in others : \A o \in others : ~Precedes(Key(o), Key(y))}}

Proposed(strategy, primary) ==
  IF Fallback(strategy, primary) = {} THEN <<primary>>
  ELSE <<primary, CHOOSE o \in Fallback(strategy, primary) : TRUE>>

\* One strategy without an order, or no triple, and none is served.
ChooseOrders ==
  /\ stage = "search" /\ todo = <<>>
  /\ stage' = "found"
  /\ IF (\E s \in Range(Strategies) : solutions[s] = {}) \/ Chosen = {} THEN orders' = NoOrders
     ELSE LET c == CHOOSE x \in Chosen : TRUE IN
          orders' = [balanced |-> Proposed("balanced", c[1].order),
                     relaxed |-> Proposed("relaxed", RelaxedPrefix(c[1].order)),
                     experience_max |-> Proposed("experience_max", c[3].order)]
  /\ UNCHANGED <<day, legs, todo, short, partial, solutions>>

SearchNext == ReadLegs \/ Extend \/ CloseStrategy \/ ChooseOrders
================================================================================
