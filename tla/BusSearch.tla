------------------------------- MODULE BusSearch -------------------------------
(***************************************************************************)
(* TmapDoorRoutePlanner._bus and _one_transfer_bus: the search for one bus *)
(* itinerary between two places.  The timetable says which pairs of stops  *)
(* are worth a try; every try asks for walking routes, each a paid call,   *)
(* so few pairs are tried and the first one that fits is taken.  Times are *)
(* minutes of the day, walks are planned minutes.                          *)
(***************************************************************************)
EXTENDS Timetable

CONSTANTS
  Asks,        \* what a search may be asked for
  Origin, Destination, \* the entrances at its ends
  Boarding,    \* stops near the origin, the nearest first
  Alighting,   \* stops near the destination, the nearest first
  PatternOf,   \* Trips -> provider_route_id
  FareOf,      \* Trips -> fare_max
  Nearby,      \* pairs of confirmed stops at most 300 m apart
  AnswersOf,   \* walks -> what a call may answer
  NoWalk       \* the call fails, or the walk is longer than is allowed

Ask == [leave : Nat, maxWait : Nat, transfers : 0..4, busOnly : BOOLEAN,
        budget : Nat \cup {NoWalk}]
Walks == DOMAIN AnswersOf

ASSUME BusSearchAssumption ==
  /\ Asks \subseteq Ask
  /\ Boarding \in Seq(Stops) /\ IsInjective(Boarding)
  /\ Alighting \in Seq(Stops) /\ IsInjective(Alighting)
  /\ {Origin, Destination} \cap (Range(Boarding) \cup Range(Alighting)) = {}
  /\ PatternOf \in [Trips -> Nat] /\ FareOf \in [Trips -> Nat]
  /\ Nearby \subseteq Stops \X Stops /\ IsFiniteSet(Nearby)
  /\ NoWalk \notin Nat /\ AnswersOf \in [Walks -> SUBSET (Nat \cup {NoWalk})]
  /\ {Origin} \X Range(Boarding) \subseteq Walks
  /\ Range(Alighting) \X {Destination} \subseteq Walks
  /\ {n \in Nearby : n[1] # n[2]} \subseteq Walks

BoardingBuffer == 7
MaxAccessWalk == 20
MaxPairs == 6

VARIABLES
  ask,
  phase,    \* "start", "direct", "transfer" or "done"
  queue,    \* the pairs, or with a transfer the fours, of stops left to try
  here,     \* the boarding stop and the planned minutes to it
  counted,  \* walks of this phase to, between and from stops
  walks,    \* the answers so far: a second call for a walk is never made
  found     \* the itinerary, or None

vars == <<ask, phase, queue, here, counted, walks, found>>

None == [rides |-> <<>>, walks |-> <<>>, ends |-> 0]
Nowhere == [stop |-> 0, access |-> 0]
NotCounted == [access |-> 0, change |-> 0, egress |-> 0]

Init ==
  /\ ask \in Asks /\ phase = "start" /\ queue = <<>> /\ here = Nowhere
  /\ counted = NotCounted /\ walks = <<>> /\ found = None

--------------------------------------------------------------------------------
\* Rides from ready on; a suspension counts if it holds at that moment.
Rides(from, to, ready) ==
  {r \in AllRides(from, to) : r.departs >= ready /\ ~Suspended(r.trip, ready)}

\* _scheduled_direct_bus: the ride that leaves first.
Scheduled(from, to, ready) ==
  {r \in Rides(from, to, ready) : \A o \in Rides(from, to, ready) : r.departs <= o.departs}

Different(r, s) ==
  PatternOf[r.trip] # PatternOf[s.trip] /\ NumberOf[r.trip] # NumberOf[s.trip]

FirstPairs(s) == SubSeq(s, 1, IF Len(s) < MaxPairs THEN Len(s) ELSE MaxPairs)

--------------------------------------------------------------------------------
\* Which pairs are tried, and in which order.

RankOf(stops, s) == CHOOSE i \in DOMAIN stops : stops[i] = s

\* _direct_stop_signatures: the pairs with the earliest arrivals.
Signatures(ready) ==
  LET pairs == {p \in Range(Boarding) \X Range(Alighting) : Rides(p[1], p[2], ready) # {}}
      key == [p \in pairs |->
                <<Min({r.arrives : r \in Rides(p[1], p[2], ready)}), p[1], p[2]>>]
  IN FirstPairs(Ordered(key))

\* _rank_direct_stop_signatures: of these the ones with near stops first.
RankedSignatures(ready) ==
  LET s == Signatures(ready)
  IN Ordered([p \in Range(s) |->
                <<RankOf(Boarding, p[1]) + RankOf(Alighting, p[2]), RankOf(s, p)>>])

\* Boarding stops in the order of their best pairs, the others after them.
BoardingOrder(ranked) ==
  LET Best(b) == Min({i \in DOMAIN ranked : ranked[i][1] = b} \cup {Len(ranked) + 1})
  IN Ordered([b \in Range(Boarding) |-> <<Best(b), RankOf(Boarding, b)>>])

DirectQueue(ready) ==
  LET ranked == RankedSignatures(ready)
      boards == BoardingOrder(ranked)
  IN Ordered([p \in Range(ranked) |-> <<RankOf(boards, p[1]), RankOf(ranked, p)>>])

\* Two rides with a change between them, as the batch of pairs sees it.
Changes(ready, p) ==
  {c \in Rides(p[1], p[2], ready) \X AllRides(p[3], p[4]) :
     /\ c[2].departs >= c[1].arrives + TransferBuffer
     /\ Different(c[1], c[2]) /\ ~Suspended(c[2].trip, ready)}

\* _transfer_stop_pairs_batch and the loops of _one_transfer_bus over it.
TransferQueue(ready, before) ==
  LET fours == {<<b, n[1], n[2], a>> : b \in Range(Boarding), n \in Nearby, a \in Range(Alighting)}
      arrival == [p \in {f \in fours : Changes(ready, f) # {}} |->
                    Min({c[2].arrives : c \in Changes(ready, p)})]
      inTime == {p \in DOMAIN arrival : before = NoWalk \/ arrival[p] < before}
      best == FirstPairs(Ordered([p \in inTime |-> <<arrival[p], p[1], p[4], p[2], p[3]>>]))
      boards == BoardingOrder(RankedSignatures(ready))
  IN Ordered([p \in Range(best) |->
                <<RankOf(boards, p[1]), RankOf(Alighting, p[4]), RankOf(best, p)>>])

--------------------------------------------------------------------------------
\* One try.

\* _bus_walking_leg.  Who changes at one stop does not walk.
Answers(w) ==
  IF w[1] = w[2] THEN {0} ELSE IF w \in DOMAIN walks THEN {walks[w]} ELSE AnswersOf[w]
Known(asked, w, minutes) ==
  IF w[1] = w[2] THEN asked
  ELSE [x \in DOMAIN asked \cup {w} |-> IF x \in DOMAIN asked THEN asked[x] ELSE minutes]

Ready == ask.leave + BoardingBuffer
Waits(r, from) == r.departs - from
Affordable(rides) ==
  ask.budget = NoWalk \/ FareOf[rides[1].trip] + (IF Len(rides) = 2 THEN FareOf[rides[2].trip] ELSE 0)
                           <= ask.budget

\* The itinerary of these rides and walks: it ends with the last walk.
Itinerary(rides, w) ==
  [rides |-> rides, walks |-> w, ends |-> rides[Len(rides)].arrives + w[Len(w)]]

\* The pairs of a boarding stop follow each other.
Others(b) == {i \in DOMAIN queue : queue[i][1] # b}
WithoutStop(b) ==
  IF Others(b) = {} THEN <<>> ELSE SubSeq(queue, Min(Others(b)), Len(queue))

\* The pairs by arrival are read and ranked, and the search begins with them.
Rank ==
  /\ phase = "start"
  /\ phase' = "direct" /\ queue' = DirectQueue(Ready)
  /\ UNCHANGED <<ask, here, counted, walks, found>>

MayWalk == counted.access < 2

\* A third boarding stop is not walked to.
SkipStop ==
  /\ queue # <<>> /\ Head(queue)[1] # here.stop /\ ~MayWalk
  /\ queue' = WithoutStop(Head(queue)[1])
  /\ UNCHANGED <<ask, phase, here, counted, walks, found>>

\* The walk to the next boarding stop; without it the stop is given up.
WalkToStop ==
  /\ queue # <<>> /\ Head(queue)[1] # here.stop /\ MayWalk
  /\ LET b == Head(queue)[1] IN
     \E w \in Answers(<<Origin, b>>) :
       /\ walks' = Known(walks, <<Origin, b>>, w)
       /\ IF w = NoWalk THEN queue' = WithoutStop(b) /\ UNCHANGED here
          ELSE here' = [stop |-> b, access |-> w] /\ UNCHANGED queue
  /\ counted' = [counted EXCEPT !.access = @ + 1]
  /\ UNCHANGED <<ask, phase, found>>

AtStop == ask.leave + here.access

\* The wait at the first stop is short enough.
CatchableFirst(r) == Waits(r, AtStop) <= ask.maxWait

\* Mutant: with a pair of stops its boarding stop is given up.
NextPairElsewhere == WithoutStop(Head(queue)[1])
NextPair == Tail(queue)

\* A pair that cannot be ridden, or that would take a third walk from a stop.
PassPair ==
  /\ phase = "direct" /\ queue # <<>> /\ Head(queue)[1] = here.stop
  /\ LET rides == Scheduled(here.stop, Head(queue)[2], AtStop + BoardingBuffer) IN
     \/ rides = {}
     \/ \E r \in rides : ~CatchableFirst(r)
     \/ counted.egress >= 2
  /\ queue' = NextPair
  /\ UNCHANGED <<ask, phase, here, counted, walks, found>>

\* Mutant: the walks from the stops are counted for each boarding stop.
CountEgressAnew == IF counted.egress = 1 THEN [counted EXCEPT !.egress = 0]
                   ELSE [counted EXCEPT !.egress = @ + 1]
CountEgress == [counted EXCEPT !.egress = @ + 1]

\* The first pair with a ride, a walk from it and a fare that fits is taken.
TryPair ==
  /\ phase = "direct" /\ queue # <<>> /\ Head(queue)[1] = here.stop /\ counted.egress < 2
  /\ \E r \in Scheduled(here.stop, Head(queue)[2], AtStop + BoardingBuffer) :
       /\ CatchableFirst(r)
       /\ \E w \in Answers(<<r.to, Destination>>) :
            /\ walks' = Known(walks, <<r.to, Destination>>, w)
            /\ IF w # NoWalk /\ Affordable(<<r>>)
               THEN /\ found' = Itinerary(<<r>>, <<here.access, w>>)
                    /\ queue' = <<>>
               ELSE queue' = NextPair /\ UNCHANGED found
  /\ counted' = CountEgress
  /\ UNCHANGED <<ask, phase, here>>

\* Nobody looks for a change of buses if a direct ride will do.
EndDirect ==
  /\ phase = "direct" /\ queue = <<>>
  /\ IF (found # None /\ ask.busOnly) \/ ask.transfers = 0
     THEN phase' = "done" /\ UNCHANGED queue
     ELSE /\ phase' = "transfer"
          /\ queue' = TransferQueue(Ready, IF found = None THEN NoWalk ELSE found.ends)
  /\ here' = Nowhere /\ counted' = NotCounted
  /\ UNCHANGED <<ask, walks, found>>

\* The rides of a change that are worth its walk, and later a second ride.
FirstRide(p) == {r \in Scheduled(p[1], p[2], AtStop + BoardingBuffer) : CatchableFirst(r)}
SecondRide(r, p) ==
  {s \in Scheduled(p[3], p[4], r.arrives + TransferBuffer) :
     Different(r, s) /\ Waits(s, r.arrives) <= ask.maxWait + MaxAccessWalk}

\* Mutant: the ride that was looked up before the walk is kept although it has left.
AfterWalkKept(s, r, p, w) == {s}

AfterWalk(s, r, p, w) ==
  LET ready == r.arrives + w + TransferBuffer IN
  IF s.departs >= ready THEN {s} ELSE Scheduled(p[3], p[4], ready)

\* Nobody waits for it too long.
Fitting(r, s, p, w) ==
  IF w = NoWalk THEN {}
  ELSE {t \in AfterWalk(s, r, p, w) : Waits(t, r.arrives + w) <= ask.maxWait /\ Different(r, t)}

PassChange ==
  /\ phase = "transfer" /\ queue # <<>> /\ Head(queue)[1] = here.stop
  /\ \/ counted.change >= 2
     \/ FirstRide(Head(queue)) = {}
     \/ \E r \in FirstRide(Head(queue)) : SecondRide(r, Head(queue)) = {}
  /\ queue' = Tail(queue)
  /\ UNCHANGED <<ask, phase, here, counted, walks, found>>

\* The walk between the stops, and the ride that is left after it.
TryChange ==
  /\ phase = "transfer" /\ queue # <<>> /\ Head(queue)[1] = here.stop /\ counted.change < 2
  /\ LET p == Head(queue) IN
     \E r \in FirstRide(p) : \E s \in SecondRide(r, p) : \E w \in Answers(<<p[2], p[3]>>) :
       LET known == Known(walks, <<p[2], p[3]>>, w)
       IN IF Fitting(r, s, p, w) = {} \/ counted.egress >= 2
          THEN /\ walks' = known /\ queue' = Tail(queue)
               /\ counted' = [counted EXCEPT !.change = @ + 1] /\ UNCHANGED <<phase, found>>
          ELSE \E t \in Fitting(r, s, p, w) : \E e \in Answers(<<p[4], Destination>>) :
                 /\ walks' = Known(known, <<p[4], Destination>>, e)
                 /\ counted' = [counted EXCEPT !.change = @ + 1, !.egress = @ + 1]
                 /\ IF e # NoWalk /\ Affordable(<<r, t>>)
                    THEN /\ found' = IF found = None \/ t.arrives + e < found.ends
                                     THEN Itinerary(<<r, t>>, <<here.access, w, e>>)
                                     ELSE found
                         /\ queue' = <<>>
                    ELSE queue' = Tail(queue) /\ UNCHANGED found
                 /\ UNCHANGED phase
  /\ UNCHANGED <<ask, here>>

EndTransfer ==
  /\ phase = "transfer" /\ queue = <<>>
  /\ phase' = "done"
  /\ UNCHANGED <<ask, queue, here, counted, walks, found>>

Next ==
  \/ Rank \/ SkipStop \/ WalkToStop
  \/ PassPair \/ TryPair \/ EndDirect
  \/ PassChange \/ TryChange \/ EndTransfer

Spec == Init /\ [][Next]_vars

--------------------------------------------------------------------------------
\* A traveller who leaves when asked can follow the itinerary: each ride is on
\* the timetable and is caught with its buffer after the walk, no wait is too
\* long, buses are changed at stops close by and never between two trips of
\* one service, and it ends when it says (_bus, _one_transfer_bus).
OnTimetable(r) ==
  LET c == CallsOf[r.trip] IN
  \E i, j \in DOMAIN c : /\ i < j /\ c[i].stop = r.from /\ c[j].stop = r.to
                         /\ c[i].departs = r.departs /\ c[j].arrives = r.arrives
Boarded(r, from, walk, buffer) ==
  r.departs - (from + walk) \in buffer..ask.maxWait
ItineraryCanBeTravelled ==
  found # None =>
    LET r == found.rides  w == found.walks  n == Len(found.rides) IN
    /\ \A i \in 1..n : OnTimetable(r[i])
    /\ NoWalk \notin Range(w)
    /\ Boarded(r[1], ask.leave, w[1], BoardingBuffer)
    /\ n = 2 => /\ ask.transfers > 0
                /\ <<r[1].to, r[2].from>> \in Nearby
                /\ Boarded(r[2], r[1].arrives, w[2], TransferBuffer)
                /\ NumberOf[r[1].trip] # NumberOf[r[2].trip]
    /\ found.ends = r[n].arrives + w[n + 1]

\* A direct search that finds nothing and has reached none of its caps has seen
\* that no direct ride will do: each pair of stops fails for its walks, or its
\* first ride for the wait or the fare (the loops of _bus).
Pairs == {p \in Range(Boarding) \X Range(Alighting) : Rides(p[1], p[2], Ready) # {}}
Capped ==
  \/ Cardinality(Pairs) > MaxPairs \/ Cardinality({p[1] : p \in Pairs}) > 2
  \/ counted.egress >= 2
Refuted(b, a) ==
  /\ <<Origin, b>> \in DOMAIN walks
  /\ walks[<<Origin, b>>] # NoWalk =>
       LET at == ask.leave + walks[<<Origin, b>>]
           rides == Scheduled(b, a, at + BoardingBuffer)
           egress == <<a, Destination>>
       IN rides # {} => \E r \in rides :
            \/ r.departs - at > ask.maxWait
            \/ egress \in DOMAIN walks /\ (walks[egress] = NoWalk \/ ~Affordable(<<r>>))
NothingIsMissed ==
  phase = "direct" /\ queue = <<>> /\ found = None =>
    Capped \/ \A p \in Pairs : Refuted(p[1], p[2])

\* A search asks for ten walks at most, and for four if it never changes buses,
\* so that the twenty calls kept for walks to buses last for some legs
\* (verified_boarding_walks, verified_path_walks, checked_transfer_paths).
FewWalksAreAsked ==
  Cardinality(DOMAIN walks) <= IF phase \in {"start", "direct"} THEN 4 ELSE 10
================================================================================
