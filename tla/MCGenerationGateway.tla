-------------------------- MODULE MCGenerationGateway --------------------------
(***************************************************************************)
(* A hotel, four sights and a grill on a line that runs round both ways,   *)
(* and a short line that meets it.  Publications differ in what is closed, *)
(* in hours that split, and in what they no longer have.                   *)
(***************************************************************************)
EXTENDS GenerationGateway

MCPlaces == 1..5
MCRoleOf == <<"visit", "visit", "visit", "meal", "visit">>
MCStayOf == <<60, 60, 60, 60, 60>>
MCLeastOf == <<30, 40, 30, 40, 30>>
MCRadiusOf == <<900, 2000, 3000, 2500, 1500>>

\* Stop 10 + p is near place p, and the grill has another one.
MCStopsNear ==
  [p \in 0..5 |-> IF p = 4 THEN (14 :> 300) @@ (16 :> 200) ELSE 10 + p :> 100 * p]
MCNeighbors == [n \in {<<s, s>> : s \in 10..16} \cup {<<14, 16>>, <<16, 14>>} |->
                  IF n[1] = n[2] THEN 0 ELSE 250]

Trip(stops, from, minutes) ==
  [i \in DOMAIN stops |-> [stop |-> stops[i], arrives |-> from + minutes * (i - 1),
                           departs |-> from + minutes * (i - 1) + 1]]
Around == <<10, 11, 12, 13, 14, 15, 10>>
Back == <<10, 15, 14, 13, 12, 11, 10>>
MCCallsOf ==
  [i \in 1..8 |-> Trip(Around, 510 + 50 * i, 6)] \o [i \in 1..5 |-> Trip(Back, 550 + 70 * i, 5)]
  \o <<Trip(<<16, 12>>, 800, 10)>>
MCTrips == DOMAIN MCCallsOf
MCNumberOf == [t \in MCTrips |-> IF t <= 8 THEN 201 ELSE IF t <= 13 THEN 202 ELSE 310]
MCSuspendedOf == [t \in MCTrips |-> IF t = 11 THEN {<<780, 800>>} ELSE {}]

Period(kind, opens, closes) ==
  [kind |-> kind, opens |-> opens, closes |-> closes, lastIn |-> NoTime, lastOrder |-> NoTime]
DayLong == {[Period("OPEN", 540, 1080) EXCEPT !.lastIn = 1020]}
Split == {Period("OPEN", 540, 1080), Period("BREAK", 720, 780)}
Evening == {Period("OPEN", 1020, 1200), Period("BREAK", 1000, 1200)}
Grill == {[Period("OPEN", 660, 900) EXCEPT !.lastOrder = 780]}

MCPlaceEditions ==
  <<[fresh |-> TRUE, has |-> 0..5], [fresh |-> TRUE, has |-> 0..4], [fresh |-> FALSE, has |-> 0..5]>>
MCHourEditions ==
  <<[fresh |-> TRUE, rules |-> <<DayLong, Split, {}, Grill, {}>>, closed |-> {}, observed |-> {3}],
    [fresh |-> TRUE, rules |-> <<DayLong, Evening, {}, Grill, Split>>, closed |-> {1}, observed |-> {}],
    [fresh |-> FALSE, rules |-> <<Split, {}, {}, Grill, {}>>, closed |-> {3}, observed |-> {2}]>>
MCExceptionEditions ==
  <<[fresh |-> TRUE, closed |-> {}, special |-> 1 :> <<600, 960>>],
    [fresh |-> FALSE, closed |-> {5}, special |-> 1 :> <<600, 700>>]>>
MCEntranceEditions == <<[has |-> {0, 1, 2}], [has |-> {0, 1, 2, 3, 4, 5}]>>
MCFestivals == {5}
MCDietEditions == <<[fresh |-> TRUE, safe |-> {4}], [fresh |-> TRUE, safe |-> {}]>>

MCFirsts ==
  {[area |-> 1, place |-> 1, hours |-> 1, exception |-> 1, entrance |-> 2, diet |-> 1],
   [area |-> 2, place |-> 1, hours |-> 2, exception |-> 2, entrance |-> 1, diet |-> 1],
   [area |-> 1, place |-> 1, hours |-> 3, exception |-> 1, entrance |-> 2, diet |-> 2]}

Base ==
  [from |-> 540, until |-> 960, required |-> {}, wants |-> {}, rest |-> NoTime, maxWait |-> 60,
   maxWalk |-> 20, transfers |-> 0, support |-> FALSE, diet |-> FALSE]
MCRequests ==
  {Base,
   [Base EXCEPT !.wants = {"meal"}, !.diet = TRUE, !.maxWait = 70],
   [Base EXCEPT !.required = {3}, !.until = 900, !.transfers = 1],
   [Base EXCEPT !.required = {2, 5}, !.support = TRUE, !.maxWait = 30],
   [Base EXCEPT !.rest = 300, !.until = 930, !.required = {1}]}
================================================================================
