--------------------------- MODULE GenerationGateway ---------------------------
(***************************************************************************)
(* PostgresGenerationGateway for one request: it reads the places a day may *)
(* go to from the active publications, keeps a ledger of the facts it      *)
(* relied on, and searches orders of the places (OrderSearch).  Every      *)
(* statement sees the publications active at that moment, and an operator  *)
(* may activate another one between two statements.                        *)
(***************************************************************************)
EXTENDS OrderSearch

CONSTANTS
  Requests,
  Switches,        \* bound: publications activated during a request
  AreaEditions,    \* publications of the service area: how many there are
  PlaceEditions,   \* publications of places: [fresh, has]
  HourEditions,    \* of opening rules: [fresh, rules, closed, observed]
  ExceptionEditions, \* of schedule exceptions: [fresh, closed, special]
  EntranceEditions,  \* of the entrance map: [has], the hotel too
  DietEditions,    \* of dietary facts: [fresh, safe]
  Festivals,       \* places of category 15
  Firsts           \* publications a request may begin with

Sources == {"area", "place", "hours", "exception", "entrance", "diet"}
Editions == [area |-> 1..AreaEditions, place |-> DOMAIN PlaceEditions, hours |-> DOMAIN HourEditions,
             exception |-> DOMAIN ExceptionEditions, entrance |-> DOMAIN EntranceEditions,
             diet |-> DOMAIN DietEditions]

Request ==
  [from : Nat, until : Nat, required : SUBSET Places, wants : SUBSET {"meal", "rest"},
   rest : Nat \cup {NoTime}, maxWait : Nat, maxWalk : Nat, transfers : 0..4,
   support : BOOLEAN, \* mobility support is required, or stairs are avoided
   diet : BOOLEAN]    \* food.allergens or food.excluded_foods

Rule == [kind : {"OPEN", "BREAK"}, opens : Nat, closes : Nat,
         lastIn : Nat \cup {NoTime}, lastOrder : Nat \cup {NoTime}]

ASSUME GatewayAssumption ==
  /\ Requests \subseteq Request /\ Switches \in Nat
  /\ IsFiniteSet(Places) /\ Festivals \subseteq Places
  /\ \A i \in DOMAIN PlaceEditions : PlaceEditions[i].has \subseteq Places \cup {Hotel}
  /\ \A i \in DOMAIN HourEditions :
       /\ HourEditions[i].rules \in [Places -> SUBSET Rule]
       /\ \A p \in Places : IsFiniteSet(HourEditions[i].rules[p])
  /\ \A i \in DOMAIN ExceptionEditions : \A p \in DOMAIN ExceptionEditions[i].special :
       ExceptionEditions[i].special[p] \in Nat \X Nat
  /\ Firsts \subseteq [Sources -> Nat] /\ \A f \in Firsts, s \in Sources : f[s] \in Editions[s]

VARIABLES
  request,
  active,    \* sources -> the publication that is active
  switched,  \* sources of which another one was activated
  step,      \* the statement that is next
  rows,      \* statement -> the publication whose rows it has read
  queue,     \* references not resolved, then candidates not loaded yet
  loading,   \* the place whose facts are added
  kept,      \* places -> verified opening windows of those loaded
  pending,   \* facts read but not added yet: [source, place, edition]
  facts,     \* the evidence of the answer
  known      \* sources with metadata in the answer

gatewayVars == <<request, active, switched, step, rows, queue, loading, kept, pending, facts, known>>
vars == <<gatewayVars, searchVars>>

NoEdition == 0
Statements == {"place", "observation", "rules", "exception", "closure", "entrance"}

Init ==
  /\ request \in Requests /\ active \in Firsts /\ switched = {} /\ step = "resolve"
  /\ queue = <<Hotel>> \o Ordered([p \in request.required |-> <<p>>])
  /\ rows = [s \in Statements |-> NoEdition] /\ loading = Hotel /\ kept = <<>>
  /\ pending = <<>> /\ facts = {} /\ known = {}
  /\ SearchInit

--------------------------------------------------------------------------------
\* The environment: activate_publication of another process.
Activate(s) ==
  /\ step # "answered" /\ stage = "idle" /\ Cardinality(switched) < Switches
  /\ \E e \in Editions[s] \ {active[s]} : active' = [active EXCEPT ![s] = e]
  /\ switched' = switched \cup {s}
  /\ UNCHANGED <<request, step, rows, queue, loading, kept, pending, facts, known, searchVars>>

--------------------------------------------------------------------------------
\* Opening windows.

\* Mutant: of a window with a break in the middle only the morning is left.
CutMorning(w, b) ==
  IF b.closes <= w.opens \/ b.opens >= w.closes THEN {w}
  ELSE IF w.opens < b.opens THEN {[w EXCEPT !.closes = b.opens]}
  ELSE IF b.closes < w.closes THEN {[w EXCEPT !.opens = b.closes]} ELSE {}

Cut(w, b) ==
  IF b.closes <= w.opens \/ b.opens >= w.closes THEN {w}
  ELSE (IF w.opens < b.opens THEN {[w EXCEPT !.closes = b.opens]} ELSE {})
       \cup (IF b.closes < w.closes THEN {[w EXCEPT !.opens = b.closes]} ELSE {})

\* _subtract_verified_breaks
Subtract(windows, breaks) ==
  FoldSet(LAMBDA b, ws : UNION {Cut(w, b) : w \in ws}, windows, breaks)

WindowOf(r) == [opens |-> r.opens, closes |-> r.closes, lastIn |-> r.lastIn,
                lastOrder |-> r.lastOrder]
FreshRules(p) ==
  LET e == HourEditions[rows["rules"]] IN IF e.fresh THEN e.rules[p] ELSE {}
Breaks(p) == {r \in FreshRules(p) : r.kind = "BREAK"}
Opens(p) == {r \in FreshRules(p) : r.kind = "OPEN"}

Exceptions == ExceptionEditions[rows["exception"]]
\* The exception of the day goes before the closure of the week.
Special(p) == p \in DOMAIN Exceptions.special
SpecialIsFresh(p) == Special(p) /\ Exceptions.fresh
Closed(p) ==
  p \in Exceptions.closed \/ (~Special(p) /\ p \in HourEditions[rows["closure"]].closed)

\* _verified_opening_windows, or the special hours of the day.
Windows(p) ==
  IF SpecialIsFresh(p)
  THEN Subtract({[opens |-> Exceptions.special[p][1], closes |-> Exceptions.special[p][2],
                  lastIn |-> NoTime, lastOrder |-> NoTime]}, Breaks(p))
  ELSE Subtract({WindowOf(r) : r \in Opens(p)}, Breaks(p))

\* What the evaluator of a plan reads from the same publications: an exception
\* of the day or else a closure of the week, of those that are fresh.
EvaluatedWindows(p) ==
  LET weekly == HourEditions[rows["closure"]]
      exact == Exceptions.fresh /\ (Special(p) \/ p \in Exceptions.closed)
      closed == IF exact THEN p \in Exceptions.closed ELSE weekly.fresh /\ p \in weekly.closed
      hours == IF exact THEN {[opens |-> Exceptions.special[p][1], closes |-> Exceptions.special[p][2]]}
               ELSE {[opens |-> r.opens, closes |-> r.closes] : r \in Opens(p)}
  IN IF closed THEN {} ELSE Subtract(hours, Breaks(p))

\* The search knows the first window of a place only.
HoursOf(p) ==
  LET w == kept[p] IN
  IF w = {} THEN [opens |-> NoTime, closes |-> NoTime, lastIn |-> NoTime,
                  lastOrder |-> NoTime, verified |-> FALSE]
  ELSE LET f == CHOOSE x \in w : \A o \in w : ~Precedes(<<o.opens, o.closes>>, <<x.opens, x.closes>>)
       IN [opens |-> f.opens, closes |-> f.closes, lastIn |-> f.lastIn,
           lastOrder |-> f.lastOrder, verified |-> TRUE]

--------------------------------------------------------------------------------
\* resolve_request: every reference must name a place that is active and
\* fresh.  After the first one the service area is added to the ledger.
FactOf(source, place, edition) == [source |-> source, place |-> place, edition |-> edition]

\* _record_active_boundary_fact
AreaFact == IF \E f \in facts : f.source = "area" THEN <<>>
            ELSE <<FactOf("area", Hotel, active["area"])>>

Resolve ==
  /\ step = "resolve" /\ pending = <<>> /\ queue # <<>>
  /\ LET e == PlaceEditions[active["place"]] IN
     IF Head(queue) \in e.has /\ e.fresh
     THEN /\ pending' = AreaFact
          /\ queue' = Tail(queue) /\ UNCHANGED step
     ELSE step' = "answered" /\ UNCHANGED <<queue, pending>>
  /\ UNCHANGED <<request, active, switched, rows, loading, kept, facts, known, searchVars>>

--------------------------------------------------------------------------------
\* The statements of places().

\* The candidates of the clusters: places that are not closed for the day, and
\* festivals only if the rules of the day are known.  All are near the hotel.
Candidates ==
  LET h == HourEditions[active["hours"]]  x == ExceptionEditions[active["exception"]]
      announced == {p \in Places : h.fresh /\ \E r \in h.rules[p] : r.kind = "OPEN"}
  IN ((PlaceEditions[active["place"]].has \ {Hotel}) \ (h.closed \cup x.closed))
     \ (Festivals \ announced)

\* The required places go before the others.
Discover ==
  /\ step = "resolve" /\ pending = <<>> /\ queue = <<>>
  /\ queue' = Ordered([p \in Candidates \cup request.required |->
                         <<IF p \in request.required THEN 0 ELSE 1, p>>])
  /\ step' = "place"
  /\ UNCHANGED <<request, active, switched, rows, loading, kept, pending, facts, known, searchVars>>

\* _prime_place_candidates: four statements of one connection.
Read(now, reads, then) ==
  /\ step = now /\ step' = then
  /\ rows' = [s \in Statements |-> IF s \in DOMAIN reads THEN active[reads[s]] ELSE rows[s]]
  /\ UNCHANGED <<request, active, switched, queue, loading, kept, pending, facts, known, searchVars>>

ReadPlaces == Read("place", [place |-> "place", observation |-> "hours"], "rules")
ReadRules == Read("rules", [rules |-> "hours"], "exceptions")
ReadExceptions == Read("exceptions", [exception |-> "exception", closure |-> "hours"], "entrances")
ReadEntrances == Read("entrances", [entrance |-> "entrance"], "load")

--------------------------------------------------------------------------------
\* _load_place

HasEntrance(p) == p \in EntranceEditions[rows["entrance"]].has

\* _load_route_endpoints: a place without an entrance is reached at its
\* representative point, unless somebody needs to be sure of the way.
HasEndpoint(p) == HasEntrance(p) \/ ~request.support

\* The facts of a place in the order in which they are added.  The entrance is
\* added again, without the publication that it is from.
FactsOf(p) ==
  LET When(condition, source, edition) ==
        IF condition THEN <<FactOf(source, p, edition)>> ELSE <<>>
      rules == IF SpecialIsFresh(p) THEN Breaks(p) ELSE FreshRules(p)
      o == HourEditions[rows["observation"]]
  IN When(HasEntrance(p), "entrance", rows["entrance"])
     \o When(TRUE, "place", rows["place"])
     \o When(Windows(p) # {} /\ SpecialIsFresh(p), "exception", rows["exception"])
     \o When(Windows(p) # {} /\ rules # {}, "hours", rows["rules"])
     \o When(Windows(p) = {} /\ p \in o.observed /\ o.fresh, "hours", rows["observation"])
     \o When(HasEntrance(p), "entrance", NoEdition)

Unsuitable(p) ==
  \/ Closed(p)
  \/ (SpecialIsFresh(p) \/ Opens(p) # {}) /\ Windows(p) = {}

\* _active_place_is_fresh: the place may have gone since its row was read.
StillActive(p) ==
  LET now == PlaceEditions[active["place"]] IN p \in now.has /\ now.fresh

LoadPlace ==
  /\ step = "load" /\ pending = <<>> /\ queue # <<>>
  /\ LET p == Head(queue)  row == PlaceEditions[rows["place"]]
     IN IF \/ p \notin row.has \/ ~row.fresh \/ Unsuitable(p)
           \/ ~StillActive(p) \/ ~HasEndpoint(p)
        THEN UNCHANGED <<kept, pending>>
        ELSE /\ kept' = [x \in DOMAIN kept \cup {p} |-> IF x = p THEN Windows(p) ELSE kept[x]]
             /\ pending' = FactsOf(p)
  /\ loading' = Head(queue)
  /\ step' = IF pending' # <<>> /\ request.diet /\ RoleOf[Head(queue)] = "meal" THEN "diet" ELSE step
  /\ queue' = Tail(queue)
  /\ UNCHANGED <<request, active, switched, rows, facts, known, searchVars>>

\* Mutant: the metadata are looked up under the edition of the place.
RecordedAsPlace(f) ==
  known' = IF active[f.source] = rows["place"] THEN known \cup {f.source} ELSE known

\* _add_source_metadata: the first metadata of a source are kept, and there are
\* none once the publication has been replaced.
Recorded(f) ==
  known' = IF f.edition \in {active[f.source], NoEdition} THEN known \cup {f.source} ELSE known

\* _add_source_fact
AddFact ==
  /\ pending # <<>>
  /\ LET f == Head(pending) IN
     /\ facts' = {g \in facts : g.source # f.source \/ g.place # f.place} \cup {f}
     /\ Recorded(f)
  /\ pending' = Tail(pending)
  /\ UNCHANGED <<request, active, switched, step, rows, queue, loading, kept, searchVars>>

\* dietary_safety: a restaurant without a menu that is known to be safe is out,
\* although its facts stay in the ledger.
CheckDiet ==
  /\ step = "diet" /\ pending = <<>>
  /\ LET e == DietEditions[active["diet"]] IN
     IF loading \in e.safe /\ e.fresh
     THEN pending' = <<FactOf("diet", loading, active["diet"])>> /\ UNCHANGED kept
     ELSE kept' = [x \in DOMAIN kept \ {loading} |-> kept[x]] /\ UNCHANGED pending
  /\ step' = "load"
  /\ UNCHANGED <<request, active, switched, rows, queue, loading, facts, known, searchVars>>

\* The entrance of the hotel, which no place has added.
LoadEnds ==
  /\ step = "load" /\ pending = <<>> /\ queue = <<>>
  /\ pending' = IF HasEntrance(Hotel) THEN <<FactOf("entrance", Hotel, rows["entrance"])>> ELSE <<>>
  /\ step' = "ends"
  /\ UNCHANGED <<request, active, switched, rows, queue, loading, kept, facts, known, searchVars>>

\* bus_only_candidate_orders begins with what was loaded.
StartSearch ==
  /\ step = "ends" /\ pending = <<>> /\ stage = "idle"
  /\ stage' = "legs"
  /\ day' = [loaded |-> [p \in DOMAIN kept |-> HoursOf(p)], from |-> request.from,
             until |-> request.until, required |-> request.required, wants |-> request.wants,
             rest |-> request.rest, maxWait |-> request.maxWait, maxWalk |-> request.maxWalk,
             transfers |-> request.transfers]
  /\ UNCHANGED <<gatewayVars, legs, todo, short, partial, solutions, orders>>

\* The answer, which _validate_source_lineage accepts if it can.
Answer ==
  /\ stage = "found" /\ step = "ends"
  /\ step' = "answered"
  /\ UNCHANGED <<request, active, switched, rows, queue, loading, kept, pending, facts, known, searchVars>>

Search == SearchNext /\ UNCHANGED gatewayVars

Next ==
  \/ \E s \in Sources : Activate(s)
  \/ Resolve \/ Discover \/ ReadPlaces \/ ReadRules \/ ReadExceptions \/ ReadEntrances
  \/ LoadPlace \/ AddFact \/ CheckDiet \/ LoadEnds
  \/ StartSearch \/ Search \/ Answer

Spec == Init /\ [][Next]_vars

--------------------------------------------------------------------------------
\* What the publications that were read say of a minute.
HasHours(p) == SpecialIsFresh(p) \/ Opens(p) # {}
OpenAt(p, m) ==
  /\ IF SpecialIsFresh(p)
     THEN Exceptions.special[p][1] <= m /\ m < Exceptions.special[p][2]
     ELSE \E r \in Opens(p) : r.opens <= m /\ m < r.closes
  /\ \A b \in Breaks(p) : m < b.opens \/ b.closes <= m
Turns(p) ==
  (UNION {{r.opens, r.closes} : r \in FreshRules(p)}) \cup
  (IF Special(p) THEN {Exceptions.special[p][1], Exceptions.special[p][2]} ELSE {})

\* A stale exception hides a closure of the week from generation alone.
Hidden(p) ==
  /\ Special(p) /\ ~Exceptions.fresh
  /\ p \in HourEditions[rows["closure"]].closed /\ HourEditions[rows["closure"]].fresh

\* The windows of a place cover the minutes at which its publications say that
\* it is open and no others, and a place that they close for the day is not
\* served, not even as one with unknown hours (_load_place, _prime_place_candidates).
\* Between two turns of the published hours nothing changes.  The evaluator of
\* the plan finds the same windows in these publications (opening_windows).
HoursAreAsPublished ==
  \A p \in DOMAIN kept :
    /\ p \notin Exceptions.closed
    /\ p \in HourEditions[rows["closure"]].closed => Special(p)
    /\ HasHours(p) => kept[p] # {}
    /\ \A m \in Turns(p) :
         (\E w \in kept[p] : w.opens <= m /\ m < w.closes) <=> HasHours(p) /\ OpenAt(p, m)
    /\ Hidden(p) \/ EvaluatedWindows(p) =
         {[opens |-> w.opens, closes |-> w.closes] : w \in kept[p]}

\* An answer is refused for a fact of an unknown source only if the publication
\* of that source was replaced while the request was served
\* (_add_source_metadata, _validate_source_lineage).
LedgerIsClosed ==
  step = "answered" => \A f \in facts : f.source \in known \cup switched

\* Somebody who waits, walks and rides as planned can follow the orders that
\* were searched, in the recommended stays or else the shorter ones: every stay
\* is within published hours and lunch at lunch time, and the last bus is back
\* in time (_bus_only_strategy_solutions).  The relaxed order is cut out of the
\* balanced one and has not been searched.
CanStay(p, begins, ends) ==
  /\ kept[p] # {} => \E w \in kept[p] :
       /\ w.opens <= begins /\ ends <= w.closes
       /\ w.lastIn # NoTime => begins <= w.lastIn
       /\ (w.lastOrder # NoTime /\ RoleOf[p] = "meal") => begins <= w.lastOrder
  /\ RoleOf[p] = "meal" => LunchStart <= begins /\ ends <= LunchEnd
\* The times at which a stay can end that follows one that ends at one of times.
EndsOfStay(strategy, from, p, times, minutes) ==
  {e \in {Begins(strategy, p, a) + minutes[p] :
            a \in UNION {Arrivals(from, p, t) : t \in times}} : CanStay(p, e - minutes[p], e)}
EndsOfOrder(strategy, order, minutes) ==
  LET ends[i \in 0..Len(order)] ==
        IF i = 0 THEN {day.from}
        ELSE EndsOfStay(strategy, IF i = 1 THEN Hotel ELSE order[i - 1], order[i],
                        ends[i - 1], minutes)
  IN ends[Len(order)]
CanBeRidden(strategy, order, minutes) ==
  \E t \in EndsOfOrder(strategy, order, minutes) :
    \E back \in Arrivals(LastPlace(order), Hotel, t) : back <= day.until
Shorter == [p \in Places |-> IF RoleOf[p] = "visit" /\ p \notin day.required
                             THEN LeastOf[p] ELSE StayOf[p]]
OrdersCanBeRidden ==
  \A s \in Range(Strategies) : \A i \in DOMAIN orders[s] :
    \/ s = "relaxed" /\ i = 1
    \/ \E minutes \in {StayOf, Shorter} : CanBeRidden(s, orders[s][i], minutes)

\* Every order goes to all required places and to none twice, has the meal and
\* the rest that were asked for, and no strategy is served without the others
\* (bus_only_candidate_orders).  With less than three required visits the
\* relaxed day is not the balanced one.
ProposalsKeepTheRequest ==
  /\ \A s \in Range(Strategies) :
       /\ \A o \in Range(orders[s]) :
            /\ request.required \subseteq Range(o) /\ IsInjective(o)
            /\ \A role \in request.wants : Count(o, role) = 1
       /\ orders[s] = <<>> => orders = NoOrders
  /\ (orders # NoOrders /\ Cardinality(RequiredVisits) < 3) =>
       orders["relaxed"][1] # orders["balanced"][1]
================================================================================
