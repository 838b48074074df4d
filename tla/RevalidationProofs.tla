--------------------------- MODULE RevalidationProofs ---------------------------
(***************************************************************************)
(* Theorems about evaluation, its repairs and revalidation, for any        *)
(* places, routes, requests, days and answers of the arrival provider.     *)
(***************************************************************************)
EXTENDS Revalidation, OrderingProofs, SequenceTheorems

--------------------------------------------------------------------------------
\* Routes, and the evidence they become.

LEMMA PlannedIsNat ==
  ASSUME NEW q, IsRequest(q), NEW expected \in Nat
  PROVE  Planned(q, "balanced", expected) \in Nat
<1>1. Multiplier(q, "balanced") \in Nat
  <2>1. q.pace \in {"normal", "slow", "support"}
    BY DEF IsRequest
  <2> QED
    BY <2>1 DEF Multiplier
<1>2. expected * Multiplier(q, "balanced") + 99 \in Nat
  BY <1>1
<1> QED
  BY <1>2 DEF Planned

\* A leg can be made by a route that arrives in time.
InTime(q, leg, at, mode, minutes) ==
  \A due \in Int : at + minutes <= due =>
    \A modes : mode \in modes => CanMake(q, leg, at, due, modes)

LEMMA RouteFacts ==
  ASSUME NEW q, IsRequest(q), NEW leg \in Legs, NEW at \in Nat, NEW mode,
         NEW r \in RoutesBy(q, "balanced", leg, at, mode)
  PROVE  /\ mode \in q.modes /\ mode \in Modes /\ r.mode = mode
         /\ r.minutes \in Nat /\ r.walked \in Nat /\ r.afoot \in Nat /\ r.ride \in Ride
         /\ InTime(q, leg, at, mode, r.minutes)
<1>1. mode \in q.modes /\ mode \in Modes
  BY DEF RoutesBy, IsRequest
<1>2. CASE mode = "walk"
  <2> DEFINE m == Planned(q, "balanced", WalkOf[leg])
  <2>1. r \in WalkRoutes(q, "balanced", leg)
    BY <1>1, <1>2 DEF RoutesBy
  <2>2. WalkOf[leg] # NoTime /\ r = Route("walk", m, WalkOf[leg], m, NoRide)
    BY <2>1 DEF WalkRoutes
  <2>3. WalkOf[leg] \in Nat
    BY <2>2, TimelineAssumption
  <2>4. m \in Nat
    BY <2>3, PlannedIsNat
  <2> HIDE DEF m
  <2>5. r.mode = "walk" /\ r.minutes = m /\ r.walked = WalkOf[leg] /\ r.afoot = m /\ r.ride = NoRide
    BY <2>2 DEF Route
  <2>6. NoRide \in Ride
    BY DEF NoRide, Ride
  <2>7. InTime(q, leg, at, mode, r.minutes)
    BY <1>2, <2>2, <2>4, <2>5 DEF InTime, CanMake, m
  <2> QED
    BY <1>1, <1>2, <2>3, <2>4, <2>5, <2>6, <2>7
<1>3. CASE mode = "taxi"
  <2>1. r \in TaxiRoutes(q, leg)
    BY <1>1, <1>3 DEF RoutesBy
  <2>2. DriveOf[leg] # NoTime /\ r = Route("taxi", DriveOf[leg], 0, 0, NoRide)
    BY <2>1 DEF TaxiRoutes
  <2>3. DriveOf[leg] \in Nat
    BY <2>2, TimelineAssumption
  <2>4. r.mode = "taxi" /\ r.minutes = DriveOf[leg] /\ r.walked = 0 /\ r.afoot = 0 /\ r.ride = NoRide
    BY <2>2 DEF Route
  <2>5. NoRide \in Ride
    BY DEF NoRide, Ride
  <2>6. InTime(q, leg, at, mode, r.minutes)
    BY <1>3, <2>2, <2>3, <2>4 DEF InTime, CanMake
  <2> QED
    BY <1>1, <1>3, <2>3, <2>4, <2>5, <2>6
<1>4. CASE mode = "bus"
  <2>1. r \in BusRoutes(q, "balanced", leg, at)
    BY <1>1, <1>4 DEF RoutesBy
  <2>2. PICK b \in Catchable(q, "balanced", leg, at) :
          r = Route("bus", b.arrives + Planned(q, "balanced", b.egress) - at, b.access + b.egress,
                    Planned(q, "balanced", b.access) + Planned(q, "balanced", b.egress),
                    [departs |-> b.departs, arrives |-> b.arrives])
    BY <2>1 DEF BusRoutes, FirstTried, FirstRides
  <2>3. b \in BusesOf[leg] /\ b \in BusRide
    BY TimelineAssumption DEF Catchable
  <2>4. b.access \in Nat /\ b.departs \in Nat /\ b.arrives \in Nat /\ b.egress \in Nat
        /\ b.departs <= b.arrives
    BY <2>3 DEF BusRide
  <2> DEFINE out == Planned(q, "balanced", b.access)
             in == Planned(q, "balanced", b.egress)
  <2>5. out \in Nat /\ in \in Nat
    BY <2>4, PlannedIsNat
  <2>6. b.departs >= at + out + BoardingBuffer
    BY DEF Catchable
  <2> HIDE DEF out, in
  <2>7. r.mode = "bus" /\ r.minutes = b.arrives + in - at /\ r.walked = b.access + b.egress
        /\ r.afoot = out + in /\ r.ride = [departs |-> b.departs, arrives |-> b.arrives]
    BY <2>2 DEF Route, out, in
  <2>8. r.minutes \in Nat
    BY <2>4, <2>5, <2>6, <2>7 DEF BoardingBuffer
  <2>9. r.ride \in Ride
    BY <2>4, <2>7 DEF Ride
  <2>10. InTime(q, leg, at, mode, r.minutes)
    <3> SUFFICES ASSUME NEW due \in Int, at + r.minutes <= due, NEW modes, "bus" \in modes
                 PROVE  CanMake(q, leg, at, due, modes)
      BY <1>4 DEF InTime
    <3>1. at + out + BoardingBuffer <= b.departs /\ b.arrives + in <= due
      BY <2>4, <2>5, <2>6, <2>7 DEF BoardingBuffer
    <3> QED
      BY <2>3, <3>1 DEF CanMake, out, in
  <2> QED
    BY <1>1, <1>4, <2>4, <2>5, <2>7, <2>8, <2>9, <2>10
<1> QED
  BY <1>1, <1>2, <1>3, <1>4 DEF Modes

\* Evidence of a route that takes the traveller over a leg in its minutes.
Travels(q, leg, at, e) ==
  /\ e.mode \in q.modes /\ e.mode \in Modes
  /\ e.minutes \in Nat /\ e.walked \in Nat /\ e.walking \in Nat /\ e.ride \in Ride
  /\ InTime(q, leg, at, e.mode, e.minutes)

LEMMA EvidenceFacts ==
  ASSUME NEW q, IsRequest(q), NEW leg \in Legs, NEW at \in Nat, NEW mode,
         RouteForMode(q, leg, at, mode) # NoEvidence
  PROVE  /\ Travels(q, leg, at, RouteForMode(q, leg, at, mode))
         /\ RouteForMode(q, leg, at, mode).mode = mode
<1> DEFINE e == RouteForMode(q, leg, at, mode)
           routes == RoutesBy(q, "balanced", leg, at, mode)
           r == CHOOSE x \in routes : TRUE
<1>1. routes # {}
  BY DEF RouteForMode, EvidenceOf
<1>2. r \in routes
  BY <1>1
<1>3. e = RouteEvidence(q, leg, at, r)
  BY <1>1 DEF RouteForMode, EvidenceOf
<1> HIDE DEF r
<1>4. /\ e.mode = r.mode /\ e.minutes = r.minutes /\ e.walked = r.walked /\ e.ride = r.ride
      /\ e.walking = r.afoot
  BY <1>3 DEF RouteEvidence
<1> HIDE DEF e
<1>5. /\ mode \in q.modes /\ mode \in Modes /\ r.mode = mode
      /\ r.minutes \in Nat /\ r.walked \in Nat /\ r.afoot \in Nat /\ r.ride \in Ride
      /\ InTime(q, leg, at, mode, r.minutes)
  BY <1>2, RouteFacts
<1>6. Travels(q, leg, at, e) /\ e.mode = mode
  BY <1>4, <1>5 DEF Travels
<1> QED
  BY <1>6 DEF e

LEMMA WeightType ==
  ASSUME NEW q, NEW leg \in Legs, NEW at, NEW e, Travels(q, leg, at, e)
  PROVE  Weight(q, leg, e) \in Nat
<1>1. FareOf[leg][e.mode] \in Nat
  BY TimelineAssumption DEF Travels
<1>2. e.minutes \in Nat /\ e.walking \in Nat
  BY DEF Travels
<1> QED
  BY <1>1, <1>2 DEF Weight

\* The best route is one of those found.
LEMMA BestFacts ==
  ASSUME NEW q, IsRequest(q), NEW leg \in Legs, NEW at \in Nat,
         BestRoute(q, leg, at) # NoEvidence
  PROVE  Travels(q, leg, at, BestRoute(q, leg, at))
<1> DEFINE offers == [k \in DOMAIN q.order |-> RouteForMode(q, leg, at, q.order[k])]
           able == {k \in DOMAIN offers : offers[k] # NoEvidence}
           least == {k \in able : \A j \in able :
                       Weight(q, leg, offers[k]) <= Weight(q, leg, offers[j])}
<1>1. able # {} /\ BestRoute(q, leg, at) = offers[Min(least)]
  BY Zenon DEF BestRoute, FirstLeast
<1>2. able \in SUBSET Nat
  BY DEF IsRequest
<1>3. \A k \in able : Travels(q, leg, at, offers[k])
  BY EvidenceFacts
<1> HIDE DEF offers, able
<1>4. \A k \in able : Weight(q, leg, offers[k]) \in Nat
  BY <1>3, WeightType
<1> DEFINE W == {Weight(q, leg, offers[k]) : k \in able}
<1>5. W \in SUBSET Nat /\ W # {}
  BY <1>1, <1>4
<1>6. PICK w \in W : \A x \in W : w <= x
  BY <1>5, MinOfNaturals
<1>7. PICK k \in able : w = Weight(q, leg, offers[k])
  BY <1>6
<1>8. k \in least
  BY <1>6, <1>7
<1>9. least \in SUBSET Nat /\ least # {}
  BY <1>2, <1>8
<1>10. Min(least) \in least
  BY <1>9, MinOfNaturals
<1> QED
  BY <1>1, <1>3, <1>10

--------------------------------------------------------------------------------
\* What a verdict says about a day of activities.

LEMMA LegsOfADay ==
  ASSUME NEW q, IsRequest(q), NEW d, IsDay(d), NEW i \in Legged(d)
  PROVE  /\ d.acts # <<>> /\ i \in 1..(Len(d.acts) + 1)
         /\ LegOf(d, i) \in Legs /\ LeavesAt(d, i) \in Nat /\ DueAt(q, d, i) \in Nat
<1>1. d.acts # <<>> /\ i \in 1..(Len(d.acts) + 1)
  BY DEF Legged
<1>2. d.acts \in Seq([id : Nat, place : Places, start : Nat, end : Nat])
  BY DEF IsDay
<1>3. \A k \in 1..Len(d.acts) : d.acts[k].place \in Places /\ d.acts[k].start \in Nat /\ d.acts[k].end \in Nat
  <2>1. \A k \in 1..Len(d.acts) : d.acts[k] \in [id : Nat, place : Places, start : Nat, end : Nat]
    BY <1>2, ElementOfSeq
  <2> QED
    BY <2>1
<1>4. Len(d.acts) \in Nat
  BY <1>2
<1>5. i # 1 => i - 1 \in 1..Len(d.acts)
  BY <1>1, <1>4
<1>6. i <= Len(d.acts) => i \in 1..Len(d.acts)
  BY <1>1
<1>7. i > Len(d.acts) \/ i <= Len(d.acts)
  BY <1>1, <1>4
<1>8. LegOf(d, i) \in Legs
  BY <1>3, <1>5, <1>6, <1>7 DEF LegOf, Legs, IsDay
<1>9. LeavesAt(d, i) \in Nat /\ DueAt(q, d, i) \in Nat
  BY <1>3, <1>5, <1>6, <1>7 DEF LeavesAt, DueAt, IsDay, IsRequest
<1> QED
  BY <1>1, <1>8, <1>9

\* What is found for a leg that leads elsewhere takes the traveller there.
LEMMA LookedFacts ==
  ASSUME NEW q, IsRequest(q), NEW d, IsDay(d), NEW i \in Legged(d),
         Looked(q, d, i) # NoEvidence
  PROVE  \/ LegOf(d, i)[1] = LegOf(d, i)[2] /\ Looked(q, d, i) = AtDestination
         \/ /\ LegOf(d, i)[1] # LegOf(d, i)[2]
            /\ Travels(q, LegOf(d, i), LeavesAt(d, i), Looked(q, d, i))
<1>1. LegOf(d, i) \in Legs /\ LeavesAt(d, i) \in Nat
  BY LegsOfADay
<1>2. CASE LegOf(d, i)[1] = LegOf(d, i)[2]
  BY <1>2 DEF Looked
<1>3. CASE LegOf(d, i)[1] # LegOf(d, i)[2] /\ LockedMode(d, i) = "any"
  <2>1. Looked(q, d, i) = BestRoute(q, LegOf(d, i), LeavesAt(d, i))
    BY <1>3 DEF Looked
  <2> QED
    BY <1>1, <1>3, <2>1, BestFacts
<1>4. CASE LegOf(d, i)[1] # LegOf(d, i)[2] /\ LockedMode(d, i) # "any"
  <2>1. Looked(q, d, i) = RouteForMode(q, LegOf(d, i), LeavesAt(d, i), LockedMode(d, i))
    BY <1>4 DEF Looked
  <2> QED
    BY <1>1, <1>4, <2>1, EvidenceFacts
<1> QED
  BY <1>2, <1>3, <1>4

\* A verdict that is not bad knows of no critical issue and has all routes.
LEMMA CalmVerdict ==
  ASSUME NEW issues, NEW risks,
         \/ Verdict(issues, risks).timing \notin {"disrupted", "unknown"}
         \/ Passes(Verdict(issues, risks))
  PROVE  issues \cap Critical = {} /\ "ROUTE_EVIDENCE_MISSING" \notin issues
<1> DEFINE v == Verdict(issues, risks)
           evidence == EvidenceStatus(issues)
           Of(status, risk, timing) ==
             [status |-> status, risk |-> risk, timing |-> timing, evidence |-> evidence]
<1>1. ASSUME issues \cap Critical # {} \/ "critical" \in risks
      PROVE  v = Of("infeasible", "critical", "disrupted")
  BY <1>1, Zenon DEF Verdict
<1>2. ASSUME ~(issues \cap Critical # {} \/ "critical" \in risks), evidence = "unavailable"
      PROVE  v = Of("unverifiable", "unknown", "unknown")
  BY <1>2, Zenon DEF Verdict
<1> HIDE DEF v
<1>3. ~(issues \cap Critical # {} \/ "critical" \in risks) /\ evidence # "unavailable"
  BY <1>1, <1>2 DEF Passes, v
<1> QED
  BY <1>3 DEF EvidenceStatus

\* Without live evidence each leg is judged by the route that is found for it.
LEMMA PlainSearch ==
  ASSUME NEW q, NEW d, NEW calls, NEW held
  PROVE  Searched(q, d, Plain, calls, held).found = [i \in Legged(d) |-> Looked(q, d, i)]
<1>1. Plain.live = FALSE
  BY DEF Plain
<1>2. \A leg, at, e : Awaited(q, Plain, leg, at, e) = NoEvidence
  BY <1>1 DEF Awaited, LooksAgain
<1>3. \A leg, at, e : Found(q, Plain, leg, at, e) = e
  BY <1>2 DEF Found, Confirmed
<1> QED
  BY <1>3 DEF Searched, WithEvidence, Claimed

\* The issues of a day that is judged well.
LEMMA CalmDay ==
  ASSUME NEW q, NEW d, NEW found, DOMAIN found = Legged(d), NEW admission,
         \/ Judged(q, d, found, admission).timing \notin {"disrupted", "unknown"}
         \/ Passes(Judged(q, d, found, admission))
  PROVE  /\ \A i \in Legged(d) : /\ LegIssue(q, d, i, found[i]) \notin Critical
                                 /\ LegIssue(q, d, i, found[i]) # "ROUTE_EVIDENCE_MISSING"
         /\ \A i \in DOMAIN d.acts : "PLACE_CLOSED" \notin ActIssues(q, d.acts[i], admission)
         /\ d.acts # <<>>
<1> DEFINE issues == {LegIssue(q, d, i, found[i]) : i \in DOMAIN found} \cup
                     (UNION {ActIssues(q, d.acts[i], admission) : i \in DOMAIN d.acts}) \cup
                     DayIssues(q, d, found)
           risks == {LegRisk(q, d, i, found[i]) : i \in DOMAIN found}
<1>1. Judged(q, d, found, admission) = Verdict(issues, risks)
  BY Zenon DEF Judged
<1>2. issues \cap Critical = {} /\ "ROUTE_EVIDENCE_MISSING" \notin issues
  <2> HIDE DEF issues, risks
  <2> QED
    BY <1>1, CalmVerdict
<1>3. \A i \in Legged(d) : LegIssue(q, d, i, found[i]) \in issues
  OBVIOUS
<1>4. \A i \in DOMAIN d.acts : ActIssues(q, d.acts[i], admission) \subseteq issues
  OBVIOUS
<1>5. d.acts = <<>> => "EMPTY_SCHEDULE" \in DayIssues(q, d, found)
  BY Zenon DEF DayIssues
<1>6. DayIssues(q, d, found) \subseteq issues
  OBVIOUS
<1> HIDE DEF issues
<1> QED
  BY <1>2, <1>3, <1>4, <1>5, <1>6 DEF Critical

LEMMA GoodLeg ==
  ASSUME NEW q, IsRequest(q), NEW d, IsDay(d), NEW i \in Legged(d), ~q.avoidStairs,
         LegIssue(q, d, i, Looked(q, d, i)) \notin Critical,
         LegIssue(q, d, i, Looked(q, d, i)) # "ROUTE_EVIDENCE_MISSING"
  PROVE  CanMake(q, LegOf(d, i), LeavesAt(d, i), DueAt(q, d, i),
                 {m \in q.modes : LockedMode(d, i) \in {"any", m}})
<1> DEFINE e == Looked(q, d, i)
           leg == LegOf(d, i)
           at == LeavesAt(d, i)
           due == DueAt(q, d, i)
           modes == {m \in q.modes : LockedMode(d, i) \in {"any", m}}
<1>1. at \in Nat /\ due \in Nat
  BY LegsOfADay
<1>2. e # NoEvidence
  BY DEF LegIssue
<1>3. ~StairsUnverifiable(q, leg, e)
  BY DEF StairsUnverifiable
<1>4. e.mode = "here" \/ LockedMode(d, i) \in {"any", e.mode}
  BY <1>2 DEF LegIssue, Critical
<1>5. ~(Slack(q, d, i, e) < 0)
  BY <1>2, <1>3, <1>4 DEF LegIssue, Critical
<1>6. CASE leg[1] = leg[2] /\ e = AtDestination
  <2>1. e.minutes = 0
    BY <1>6 DEF AtDestination, NoEvidence
  <2>2. at <= due
    BY <1>1, <1>5, <2>1 DEF Slack
  <2> QED
    BY <1>6, <2>2 DEF CanMake
<1>7. CASE leg[1] # leg[2] /\ Travels(q, leg, at, e)
  <2>1. e.minutes \in Nat /\ e.mode \in q.modes /\ e.mode \in Modes /\ InTime(q, leg, at, e.mode, e.minutes)
    BY <1>7 DEF Travels
  <2>2. at + e.minutes <= due
    BY <1>1, <1>5, <2>1 DEF Slack
  <2>3. e.mode \in modes
    BY <1>4, <2>1 DEF Modes
  <2> HIDE DEF e, leg, at, due, modes
  <2>4. CanMake(q, leg, at, due, modes)
    BY <1>1, <2>1, <2>2, <2>3 DEF InTime
  <2> QED
    BY <2>4 DEF leg, at, due, modes
<1> QED
  BY <1>2, <1>6, <1>7, LookedFacts

\* A day that is judged well by what is found for its legs can be followed.
LEMMA GoodDay ==
  ASSUME NEW q, IsRequest(q), NEW d, IsDay(d), NEW admission, NEW found,
         found = [i \in Legged(d) |-> Looked(q, d, i)],
         \/ Judged(q, d, found, admission).timing \notin {"disrupted", "unknown"}
         \/ Passes(Judged(q, d, found, admission))
  PROVE  CanFollow(q, d)
<1>1. /\ \A i \in Legged(d) : /\ LegIssue(q, d, i, Looked(q, d, i)) \notin Critical
                              /\ LegIssue(q, d, i, Looked(q, d, i)) # "ROUTE_EVIDENCE_MISSING"
      /\ \A i \in DOMAIN d.acts : "PLACE_CLOSED" \notin ActIssues(q, d.acts[i], admission)
      /\ d.acts # <<>>
  <2>1. DOMAIN found = Legged(d) /\ \A i \in Legged(d) : found[i] = Looked(q, d, i)
    OBVIOUS
  <2>2. /\ \A i \in Legged(d) : /\ LegIssue(q, d, i, found[i]) \notin Critical
                                 /\ LegIssue(q, d, i, found[i]) # "ROUTE_EVIDENCE_MISSING"
        /\ \A i \in DOMAIN d.acts : "PLACE_CLOSED" \notin ActIssues(q, d.acts[i], admission)
        /\ d.acts # <<>>
    BY <2>1, CalmDay, Zenon
  <2> QED
    BY <2>1, <2>2, Zenon
<1>2. Legged(d) = 1..(Len(d.acts) + 1)
  BY <1>1 DEF Legged
<1>3. q.avoidStairs \/ \A i \in 1..(Len(d.acts) + 1) :
        CanMake(q, LegOf(d, i), LeavesAt(d, i), DueAt(q, d, i),
                {m \in q.modes : LockedMode(d, i) \in {"any", m}})
  BY <1>1, <1>2, GoodLeg
<1>4. ASSUME NEW a \in Range(d.acts), WindowsOf[a.place] # {}
      PROVE  \E w \in WindowsOf[a.place] : w.opens <= a.start /\ a.end <= w.closes
  <2>1. PICK i \in DOMAIN d.acts : a = d.acts[i]
    BY DEF Range
  <2>2. "PLACE_CLOSED" \notin ActIssues(q, a, admission)
    BY <1>1, <2>1
  <2> QED
    BY <1>4, <2>2, Zenon DEF ActIssues
<1> QED
  BY <1>1, <1>3, <1>4 DEF CanFollow

--------------------------------------------------------------------------------
\* Days of activities, put in order.

LEMMA ActsOfADay ==
  ASSUME NEW d, IsDay(d)
  PROVE  /\ Len(d.acts) \in Nat /\ DOMAIN d.acts = 1..Len(d.acts)
         /\ \A k \in 1..Len(d.acts) :
              /\ d.acts[k] \in [id : Nat, place : Places, start : Nat, end : Nat]
              /\ d.acts[k].start \in Nat /\ d.acts[k].end \in Nat
              /\ d.acts[k].start < d.acts[k].end
<1>1. d.acts \in Seq([id : Nat, place : Places, start : Nat, end : Nat])
  BY DEF IsDay
<1>2. Len(d.acts) \in Nat /\ DOMAIN d.acts = 1..Len(d.acts)
  BY <1>1
<1>3. \A k \in 1..Len(d.acts) : d.acts[k] \in [id : Nat, place : Places, start : Nat, end : Nat]
  BY <1>1, ElementOfSeq
<1>4. \A k \in 1..Len(d.acts) : d.acts[k].start < d.acts[k].end
  BY <1>2 DEF IsDay
<1> QED
  BY <1>2, <1>3, <1>4

\* The key by which activities are put in order.
ActKey(d) == [k \in DOMAIN d.acts |-> <<d.acts[k].start, k>>]

LEMMA ActKeyIsKey ==
  ASSUME NEW d, IsDay(d)
  PROVE  IsKey(ActKey(d), 1..Len(d.acts), 2)
<1>1. ActKey(d) = [k \in 1..Len(d.acts) |-> <<d.acts[k].start, k>>]
  BY ActsOfADay DEF ActKey
<1>2. \A k \in 1..Len(d.acts) : d.acts[k].start \in Int /\ k \in Int
  BY ActsOfADay
<1>3. \A k \in 1..Len(d.acts) : <<d.acts[k].start, k>> \in Keys(2)
  BY <1>2, KeysOfTwo
<1>4. \A k, l \in 1..Len(d.acts) : <<d.acts[k].start, k>> = <<d.acts[l].start, l>> => k = l
  OBVIOUS
<1> QED
  BY <1>1, <1>3, <1>4 DEF IsKey

LEMMA FirstOfTwo ==
  \A a, b \in Int : \A i, j \in Int : Precedes(<<a, i>>, <<b, j>>) => a <= b
BY DEF Precedes

LEMMA SortedDay ==
  ASSUME NEW d, IsDay(d)
  PROVE  /\ IsDay(Sorted(d))
         /\ Sorted(d).from = d.from /\ Sorted(d).at = d.at /\ Sorted(d).locks = d.locks
         /\ Len(Sorted(d).acts) = Len(d.acts)
         /\ \A i, j \in 1..Len(d.acts) : i < j => Sorted(d).acts[i].start <= Sorted(d).acts[j].start
<1> DEFINE n == Len(d.acts)
           order == Ordered(ActKey(d))
           acts == [k \in 1..n |-> d.acts[order[k]]]
<1>1. n \in Nat /\ IsFiniteSet(1..n) /\ Cardinality(1..n) = n
  <2>1. n \in Nat /\ \A k \in 1..n : d.acts[k].start \in Int
    BY ActsOfADay
  <2> HIDE DEF n
  <2> QED
    BY <2>1, FS_Interval
<1>2. Sorts(order, 1..n, ActKey(d))
  BY <1>1, ActKeyIsKey, OrderedSorts
<1>3. order \in [1..n -> 1..n]
  BY <1>1, <1>2 DEF Sorts, Lists
<1>4. \A i, j \in 1..n : i < j => Precedes(ActKey(d)[order[i]], ActKey(d)[order[j]])
  BY <1>2, <1>3 DEF Sorts
<1>5. Sorted(d) = [d EXCEPT !.acts = acts]
  BY ActsOfADay DEF Sorted, ActKey
<1> HIDE DEF order
<1>6. d = Draft(d.from, d.at, d.acts, d.locks)
  BY DEF IsDay
<1>7. Sorted(d) = Draft(d.from, d.at, acts, d.locks)
  <2> HIDE DEF acts
  <2> QED
    BY <1>5, <1>6 DEF Draft
<1>8. /\ Sorted(d).from = d.from /\ Sorted(d).at = d.at /\ Sorted(d).locks = d.locks
      /\ Sorted(d).acts = acts
  <2> HIDE DEF acts
  <2> QED
    BY <1>7 DEF Draft
<1>9. \A k \in 1..n : order[k] \in 1..n /\ acts[k] = d.acts[order[k]]
  BY <1>3
<1>10. \A k \in 1..n : /\ acts[k] \in [id : Nat, place : Places, start : Nat, end : Nat]
                       /\ acts[k].start < acts[k].end
  BY <1>9, ActsOfADay
<1>11. acts \in Seq([id : Nat, place : Places, start : Nat, end : Nat]) /\ Len(acts) = n
       /\ DOMAIN acts = 1..n
  <2> DEFINE R == [id : Nat, place : Places, start : Nat, end : Nat]
  <2>1. acts \in [1..n -> R]
    BY <1>10
  <2> HIDE DEF acts, R, n
  <2>2. acts \in Seq(R) /\ Len(acts) = n /\ DOMAIN acts = 1..n
    BY <1>1, <2>1
  <2> QED
    BY <2>2 DEF R
<1>12. \A i, j \in 1..n : i < j => acts[i].start <= acts[j].start
  <2> SUFFICES ASSUME NEW i \in 1..n, NEW j \in 1..n, i < j
               PROVE  acts[i].start <= acts[j].start
    OBVIOUS
  <2>1. /\ ActKey(d)[order[i]] = <<d.acts[order[i]].start, order[i]>>
        /\ ActKey(d)[order[j]] = <<d.acts[order[j]].start, order[j]>>
    BY <1>9, ActsOfADay DEF ActKey
  <2>2. /\ d.acts[order[i]].start \in Int /\ order[i] \in Int
        /\ d.acts[order[j]].start \in Int /\ order[j] \in Int
    <3>1. \A k \in 1..n : d.acts[k].start \in Int
      BY ActsOfADay
    <3>2. order[i] \in 1..n /\ order[j] \in 1..n
      BY <1>9
    <3> QED
      BY <3>1, <3>2
  <2>3. Precedes(<<d.acts[order[i]].start, order[i]>>, <<d.acts[order[j]].start, order[j]>>)
    BY <1>4, <2>1
  <2>4. d.acts[order[i]].start <= d.acts[order[j]].start
    BY <2>2, <2>3, FirstOfTwo
  <2> QED
    BY <1>9, <2>4
<1> HIDE DEF acts
<1>13. d.from \in {Start} \cup Places /\ d.at \in Nat
  BY DEF IsDay
<1>14. IsDay(Sorted(d))
  BY <1>7, <1>8, <1>10, <1>11, <1>13 DEF IsDay
<1> QED
  BY <1>8, <1>11, <1>12, <1>14

\* A day whose activities begin one after the other stays as it is.
LEMMA SortedStays ==
  ASSUME NEW d, IsDay(d),
         \A i, j \in 1..Len(d.acts) : i < j => d.acts[i].start <= d.acts[j].start
  PROVE  Sorted(d) = d
<1> DEFINE n == Len(d.acts)
           K == ActKey(d)
<1>1. n \in Nat /\ DOMAIN d.acts = 1..n
  BY ActsOfADay
<1>2. \A i, j \in 1..n : i < j => Precedes(K[i], K[j])
  <2> SUFFICES ASSUME NEW i \in 1..n, NEW j \in 1..n, i < j
               PROVE  Precedes(K[i], K[j])
    OBVIOUS
  <2>1. K[i] = <<d.acts[i].start, i>> /\ K[j] = <<d.acts[j].start, j>>
    BY <1>1 DEF ActKey
  <2>2. d.acts[i].start \in Nat /\ d.acts[j].start \in Nat /\ d.acts[i].start <= d.acts[j].start
    BY ActsOfADay
  <2>3. CASE d.acts[i].start < d.acts[j].start
    BY <2>1, <2>2, <2>3, SMTT(30) DEF Precedes
  <2>4. CASE d.acts[i].start = d.acts[j].start
    BY <2>1, <2>2, <2>4 DEF Precedes
  <2> QED
    BY <2>2, <2>3, <2>4
<1>3. IsKey(K, 1..n, 2)
  BY ActKeyIsKey
<1> HIDE DEF K
<1>4. Ordered(K) = [i \in 1..n |-> i]
  BY <1>1, <1>2, <1>3, OrderedStays
<1>5. [k \in DOMAIN d.acts |-> d.acts[Ordered(K)[k]]] = d.acts
  <2>1. d.acts = [k \in 1..n |-> d.acts[k]]
    BY <1>1, LenProperties DEF IsDay
  <2>2. \A k \in 1..n : Ordered(K)[k] = k
    BY <1>4
  <2> QED
    BY <1>1, <2>1, <2>2, Zenon
<1>6. Sorted(d) = [d EXCEPT !.acts = d.acts]
  BY <1>5, Zenon DEF Sorted, K, ActKey
<1>7. d = Draft(d.from, d.at, d.acts, d.locks)
  BY DEF IsDay
<1> QED
  BY <1>6, <1>7 DEF Draft

--------------------------------------------------------------------------------
\* The repairs of a day of activities.

InOrder(d) == \A i, j \in 1..Len(d.acts) : i < j => d.acts[i].start <= d.acts[j].start

\* Every activity of d is in x, none of them longer or later.
KeepsActs(d, x) ==
  \A i \in DOMAIN d.acts :
    LET a == d.acts[i] IN
    /\ x.acts[i].id = a.id /\ x.acts[i].start = a.start
    /\ x.acts[i].end \in (a.start + 1)..a.end

GoodRepairs(q, d, rs) ==
  \E S : rs \in Seq(S) /\ \A r \in S : CanFollow(q, r.day) /\ KeepsActs(d, r.day)

\* What is known of a day that is assessed without live evidence.
PlainDay(q, a) ==
  /\ IsDay(a.day) /\ InOrder(a.day)
  /\ a.found = [i \in Legged(a.day) |-> Looked(q, a.day, i)]
  /\ a.verdict = Judged(q, a.day, a.found, TRUE)

LEMMA PlainAssessment ==
  ASSUME NEW q, IsRequest(q), NEW day, IsDay(day), NEW calls, NEW held
  PROVE  /\ PlainDay(q, Assess(q, day, Plain, calls, held))
         /\ Assess(q, day, Plain, calls, held).day = Sorted(day)
<1> DEFINE a == Assess(q, day, Plain, calls, held)
           d == Sorted(day)
           s == Searched(q, d, Plain, calls, held)
<1>1. a = Assessed(q, d, Plain, s)
  BY Zenon DEF Assess
<1>2. s.found = [i \in Legged(d) |-> Looked(q, d, i)]
  BY PlainSearch
<1>3. IsDay(d) /\ InOrder(d)
  BY SortedDay DEF InOrder
<1> HIDE DEF a, d, s
<1>4. Plain.live = FALSE
  BY DEF Plain
<1>5. /\ a.day = d /\ a.found = s.found
      /\ a.verdict = Judged(q, d, s.found, ~Plain.live)
  BY <1>1 DEF Assessed
<1>6. a.verdict = Judged(q, d, s.found, TRUE)
  BY <1>4, <1>5
<1>7. /\ a.day = Sorted(day) /\ IsDay(a.day) /\ InOrder(a.day)
      /\ a.found = [i \in Legged(a.day) |-> Looked(q, a.day, i)]
      /\ a.verdict = Judged(q, a.day, a.found, TRUE)
  BY <1>2, <1>3, <1>5, <1>6 DEF d
<1>8. PlainDay(q, a) /\ a.day = Sorted(day)
  BY <1>7 DEF PlainDay
<1> QED
  BY <1>8 DEF a

\* What is found for a leg takes some minutes.
LEMMA SlackType ==
  ASSUME NEW q, IsRequest(q), NEW d, IsDay(d), NEW i \in Legged(d),
         Looked(q, d, i) # NoEvidence
  PROVE  Slack(q, d, i, Looked(q, d, i)) \in Int
<1>1. Looked(q, d, i).minutes \in Nat
  <2>1. AtDestination.minutes = 0
    BY DEF AtDestination, NoEvidence
  <2> QED
    BY <2>1, LookedFacts DEF Travels
<1> QED
  BY <1>1, LegsOfADay DEF Slack

LEMMA EarlierDay ==
  ASSUME NEW q, IsRequest(q), NEW a, PlainDay(q, a),
         NEW x \in Earlier(q, a)
  PROVE  IsDay(x) /\ InOrder(x) /\ KeepsActs(a.day, x)
<1> /\ IsDay(a.day) /\ InOrder(a.day)
    /\ a.found = [i \in Legged(a.day) |-> Looked(q, a.day, i)]
  BY DEF PlainDay
<1> DEFINE d == a.day
           at == d.at + Slack(q, d, 1, a.found[1])
<1>1. /\ 1 \in DOMAIN a.found /\ a.found[1] # NoEvidence
      /\ at >= 0 /\ x = [d EXCEPT !.at = at]
  BY DEF Earlier, NegativeLegs
<1>2. 1 \in Legged(d) /\ a.found[1] = Looked(q, d, 1)
  BY <1>1
<1>3. d.at \in Nat /\ d = Draft(d.from, d.at, d.acts, d.locks)
  BY DEF IsDay
<1>4. Slack(q, d, 1, a.found[1]) \in Int
  BY <1>1, <1>2, SlackType
<1>5. at \in Nat
  BY <1>1, <1>3, <1>4
<1> HIDE DEF at, d
<1>6. x = Draft(d.from, at, d.acts, d.locks)
  BY <1>1, <1>3 DEF Draft
<1>7. x.from = d.from /\ x.at = at /\ x.acts = d.acts /\ x.locks = d.locks
  BY <1>6 DEF Draft
<1>8. IsDay(x)
  BY <1>5, <1>6, <1>7 DEF IsDay, d
<1>9. InOrder(x)
  BY <1>7 DEF InOrder, d
<1>10. KeepsActs(a.day, x)
  <2>1. \A i \in DOMAIN d.acts : d.acts[i].end \in (d.acts[i].start + 1)..d.acts[i].end
    BY ActsOfADay DEF d
  <2> QED
    BY <1>7, <2>1 DEF KeepsActs, d
<1> QED
  BY <1>8, <1>9, <1>10

LEMMA ShorterDay ==
  ASSUME NEW q, IsRequest(q), NEW a, PlainDay(q, a),
         NEW x \in Shorter(q, a)
  PROVE  IsDay(x) /\ InOrder(x) /\ KeepsActs(a.day, x)
<1> /\ IsDay(a.day) /\ InOrder(a.day)
    /\ a.found = [i \in Legged(a.day) |-> Looked(q, a.day, i)]
  BY DEF PlainDay
<1> DEFINE d == a.day
           late == LateLegs(q, a)
           i == Min(late)
           end == d.acts[i - 1].end + Slack(q, d, i, a.found[i])
<1>1. late # {} /\ end > d.acts[i - 1].start /\ x = [d EXCEPT !.acts[i - 1].end = end]
  BY DEF Shorter
<1>2. late \subseteq Legged(d) \ {1}
  BY DEF LateLegs, NegativeLegs
<1>3. Len(d.acts) \in Nat /\ Legged(d) \subseteq 1..(Len(d.acts) + 1)
  BY ActsOfADay DEF Legged
<1>4. late \in SUBSET Nat
  BY <1>2, <1>3
<1>5. i \in late
  <2> HIDE DEF late
  <2> QED
    BY <1>1, <1>4, MinOfNaturals
<1>6. /\ i \in DOMAIN a.found /\ a.found[i] # NoEvidence /\ Slack(q, d, i, a.found[i]) < 0
      /\ i # 1
  BY <1>5 DEF LateLegs, NegativeLegs
<1>7. i \in Legged(d) /\ a.found[i] = Looked(q, d, i)
  BY <1>6
<1>8. Slack(q, d, i, a.found[i]) \in Int
  BY <1>6, <1>7, SlackType
<1> DEFINE k == i - 1
<1>9. k \in 1..Len(d.acts)
  BY <1>3, <1>6, <1>7
<1> HIDE DEF i, late
<1>10. /\ DOMAIN d.acts = 1..Len(d.acts)
       /\ \A j \in 1..Len(d.acts) :
            /\ d.acts[j] \in [id : Nat, place : Places, start : Nat, end : Nat]
            /\ d.acts[j].start \in Nat /\ d.acts[j].end \in Nat
            /\ d.acts[j].start < d.acts[j].end
  BY ActsOfADay
<1>11. end \in Nat /\ d.acts[k].start < end /\ end < d.acts[k].end
  BY <1>1, <1>6, <1>8, <1>9, <1>10
<1> DEFINE acts == [d.acts EXCEPT ![k].end = end]
<1>12. x = [d EXCEPT !.acts = acts]
  BY <1>1, Zenon
<1> HIDE DEF end, k
<1>13. d = Draft(d.from, d.at, d.acts, d.locks)
  BY DEF IsDay
<1> HIDE DEF d
<1>14. x = Draft(d.from, d.at, acts, d.locks)
  <2> HIDE DEF acts
  <2> QED
    BY <1>12, <1>13 DEF Draft
<1>15. /\ \A j \in 1..Len(d.acts) : j # k => acts[j] = d.acts[j]
       /\ acts[k] = [d.acts[k] EXCEPT !.end = end]
  BY <1>9, <1>10
<1>16. /\ acts[k] \in [id : Nat, place : Places, start : Nat, end : Nat]
       /\ acts[k].id = d.acts[k].id /\ acts[k].start = d.acts[k].start /\ acts[k].end = end
  BY <1>9, <1>10, <1>11, <1>15
<1>17. /\ acts \in Seq([id : Nat, place : Places, start : Nat, end : Nat])
       /\ Len(acts) = Len(d.acts) /\ DOMAIN acts = DOMAIN d.acts
  BY <1>9, <1>15, <1>16, ExceptSeq, SMTT(30) DEF IsDay, d
<1> HIDE DEF acts
<1>18. x.from = d.from /\ x.at = d.at /\ x.acts = acts /\ x.locks = d.locks
  BY <1>14 DEF Draft
<1>19. \A j \in 1..Len(d.acts) : acts[j].start = d.acts[j].start /\ acts[j].id = d.acts[j].id
  BY <1>15, <1>16
<1>20. ASSUME NEW j \in 1..Len(d.acts)
       PROVE  acts[j].end \in (d.acts[j].start + 1)..d.acts[j].end
  <2>1. d.acts[j].start \in Nat /\ d.acts[j].end \in Nat /\ d.acts[j].start < d.acts[j].end
    BY <1>10
  <2>2. IF j = k THEN acts[j].end = end ELSE acts[j].end = d.acts[j].end
    BY <1>15, <1>16
  <2> QED
    BY <1>11, <2>1, <2>2
<1>21. IsDay(x)
  <2>1. \A j \in 1..Len(d.acts) : x.acts[j].start < x.acts[j].end
    <3> SUFFICES ASSUME NEW j \in 1..Len(d.acts)
                 PROVE  acts[j].start < acts[j].end
      BY <1>18
    <3>1. d.acts[j].start \in Nat /\ d.acts[j].end \in Nat
      BY <1>10
    <3>2. acts[j].end \in (d.acts[j].start + 1)..d.acts[j].end
      BY <1>20
    <3>3. acts[j].start = d.acts[j].start
      BY <1>19
    <3> QED
      BY <3>1, <3>2, <3>3
  <2>2. d.from \in {Start} \cup Places /\ d.at \in Nat
    BY DEF IsDay, d
  <2> QED
    BY <1>10, <1>14, <1>17, <1>18, <2>1, <2>2 DEF IsDay
<1>22. InOrder(x)
  BY <1>17, <1>18, <1>19 DEF InOrder, d
<1>23. KeepsActs(a.day, x)
  BY <1>10, <1>18, <1>19, <1>20 DEF KeepsActs, d
<1> QED
  BY <1>21, <1>22, <1>23

LEMMA GoodPlainDay ==
  ASSUME NEW q, IsRequest(q), NEW a, PlainDay(q, a),
         a.verdict.timing \notin {"disrupted", "unknown"} \/ Passes(a.verdict)
  PROVE  CanFollow(q, a.day)
<1>1. /\ IsDay(a.day) /\ a.found = [i \in Legged(a.day) |-> Looked(q, a.day, i)]
      /\ a.verdict = Judged(q, a.day, a.found, TRUE)
  BY DEF PlainDay
<1>2. \/ Judged(q, a.day, a.found, TRUE).timing \notin {"disrupted", "unknown"}
      \/ Passes(Judged(q, a.day, a.found, TRUE))
  BY <1>1, Zenon
<1> DEFINE found == a.found
<1>3. found = [i \in Legged(a.day) |-> Looked(q, a.day, i)]
  BY <1>1
<1> QED
  BY <1>1, <1>2, GoodDay, Zenon

LEMMA TriedDayIsGood ==
  ASSUME NEW q, NEW d, NEW s, GoodRepairs(q, d, s.repairs), NEW type, NEW id, NEW b,
         Passes(b.verdict) => CanFollow(q, b.day) /\ KeepsActs(d, b.day)
  PROVE  GoodRepairs(q, d, TriedDay(s, type, id, b).repairs)
<1> DEFINE r == Repair(type, id, b.day, <<>>, b.verdict)
<1>1. PICK S : s.repairs \in Seq(S) /\ \A x \in S : CanFollow(q, x.day) /\ KeepsActs(d, x.day)
  BY DEF GoodRepairs
<1>2. TriedDay(s, type, id, b).repairs = s.repairs \o Offered(r)
  BY DEF TriedDay
<1>3. r.day = b.day /\ r.verdict = b.verdict
  BY DEF Repair
<1> HIDE DEF r
<1>4. CASE Passes(b.verdict)
  <2> DEFINE T == S \cup {r}
  <2>1. Offered(r) = <<r>>
    BY <1>3, <1>4 DEF Offered
  <2>2. s.repairs \in Seq(T)
    BY <1>1, SeqMonotonic
  <2>3. <<r>> \in Seq(T)
    OBVIOUS
  <2>4. s.repairs \o <<r>> \in Seq(T)
    BY <2>2, <2>3, ConcatProperties
  <2>5. \A x \in T : CanFollow(q, x.day) /\ KeepsActs(d, x.day)
    BY <1>1, <1>3, <1>4
  <2> QED
    BY <1>2, <2>1, <2>4, <2>5 DEF GoodRepairs
<1>5. CASE ~Passes(b.verdict)
  <2>1. Offered(r) = <<>>
    BY <1>3, <1>5 DEF Offered
  <2>2. s.repairs \o <<>> = s.repairs
    BY <1>1, ConcatEmptySeq
  <2> QED
    BY <1>2, <2>1, <2>2
<1> QED
  BY <1>4, <1>5

LEMMA TriedAssessment ==
  ASSUME NEW q, IsRequest(q), NEW d, NEW x, IsDay(x), InOrder(x), KeepsActs(d, x),
         NEW calls, NEW held
  PROVE  LET b == Assess(q, x, Plain, calls, held) IN
         Passes(b.verdict) => CanFollow(q, b.day) /\ KeepsActs(d, b.day)
<1> DEFINE b == Assess(q, x, Plain, calls, held)
<1> SUFFICES ASSUME Passes(b.verdict) PROVE CanFollow(q, b.day) /\ KeepsActs(d, b.day)
  OBVIOUS
<1>1. b.day = Sorted(x) /\ PlainDay(q, b)
  BY PlainAssessment
<1> HIDE DEF b
<1>2. Sorted(x) = x
  BY SortedStays DEF InOrder
<1>3. CanFollow(q, b.day)
  BY <1>1, GoodPlainDay
<1> QED
  BY <1>1, <1>2, <1>3

\* The repairs of a day that is evaluated before the trip.
LEMMA EvaluatedRepairs ==
  ASSUME NEW q, IsRequest(q), NEW day, IsDay(day)
  PROVE  GoodRepairs(q, Evaluated(q, day, Plain).day, Evaluated(q, day, Plain).repairs)
<1> DEFINE a == Assess(q, day, Plain, 0, FALSE)
           none == [calls |-> a.calls, held |-> a.held, repairs |-> <<>>]
           s == DepartEarlier(q, Plain, a, none)
           t == ShortenStay(q, Plain, a, s)
<1>1. PlainDay(q, a)
  BY PlainAssessment
<1>2. /\ Evaluated(q, day, Plain).day = a.day
      /\ Evaluated(q, day, Plain).repairs =
           IF a.verdict.status # "infeasible" THEN <<>> ELSE t.repairs
  BY DEF Evaluated, WithRepairs
<1> HIDE DEF a
<1>3. GoodRepairs(q, a.day, <<>>)
  <2> DEFINE S == {}
  <2>1. <<>> \in Seq(S) /\ \A r \in S : CanFollow(q, r.day) /\ KeepsActs(a.day, r.day)
    OBVIOUS
  <2> HIDE DEF S
  <2> QED
    BY <2>1 DEF GoodRepairs
<1>4. GoodRepairs(q, a.day, s.repairs)
  <2>1. CASE Earlier(q, a) = {}
    BY <1>3, <2>1 DEF DepartEarlier
  <2>2. CASE Earlier(q, a) # {}
    <3> DEFINE x == CHOOSE d \in Earlier(q, a) : TRUE
               b == Assess(q, x, Plain, none.calls, none.held)
    <3>1. x \in Earlier(q, a)
      BY <2>2
    <3> HIDE DEF x
    <3>2. IsDay(x) /\ InOrder(x) /\ KeepsActs(a.day, x)
      BY <1>1, <3>1, EarlierDay
    <3>3. Passes(b.verdict) => CanFollow(q, b.day) /\ KeepsActs(a.day, b.day)
      BY <3>2, TriedAssessment
    <3>4. s = TriedDay(none, "DEPART_EARLIER", 0, b)
      BY <2>2, Zenon DEF DepartEarlier, x
    <3>5. GoodRepairs(q, a.day, none.repairs)
      BY <1>3
    <3> HIDE DEF b, none, s
    <3>6. GoodRepairs(q, a.day, TriedDay(none, "DEPART_EARLIER", 0, b).repairs)
      BY <3>3, <3>5, TriedDayIsGood
    <3> QED
      BY <3>4, <3>6
  <2> QED
    BY <2>1, <2>2
<1> HIDE DEF s
<1>5. GoodRepairs(q, a.day, t.repairs)
  <2>1. CASE Shorter(q, a) = {}
    BY <1>4, <2>1 DEF ShortenStay
  <2>2. CASE Shorter(q, a) # {}
    <3> DEFINE i == Min(LateLegs(q, a))
               x == CHOOSE d \in Shorter(q, a) : TRUE
               b == Assess(q, x, Plain, s.calls, s.held)
               u == TriedDay(s, "SHORTEN_STAY", a.day.acts[i - 1].id, b)
    <3>1. x \in Shorter(q, a)
      BY <2>2
    <3>2. IsDay(x) /\ InOrder(x) /\ KeepsActs(a.day, x)
      <4> HIDE DEF x
      <4> QED
        BY <1>1, <3>1, ShorterDay
    <3>3. Passes(b.verdict) => CanFollow(q, b.day) /\ KeepsActs(a.day, b.day)
      <4> HIDE DEF x
      <4> QED
        BY <3>2, TriedAssessment
    <3>4. GoodRepairs(q, a.day, u.repairs)
      <4> HIDE DEF b
      <4> QED
        BY <1>4, <3>3, TriedDayIsGood
    <3>5. t = IF a.found[i].mode = "here" THEN [u EXCEPT !.repairs = s.repairs] ELSE u
      BY <2>2, Zenon DEF ShortenStay
    <3>6. [u EXCEPT !.repairs = s.repairs].repairs = s.repairs
      BY DEF TriedDay
    <3> HIDE DEF u, t
    <3> QED
      BY <1>4, <3>4, <3>5, <3>6
  <2> QED
    BY <2>1, <2>2
<1> QED
  BY <1>2, <1>3, <1>5

--------------------------------------------------------------------------------
\* The traveller, and what is left of the day.

TravelStates ==
  {"ready_to_depart", "at_place", "walking", "waiting_bus", "on_bus", "in_taxi"}

\* What is known of the traveller at any time: an event is under way, and who is
\* at a stay or about to leave it is at its place.
TravelInv ==
  /\ trip \in Trips /\ now \in Nat
  /\ progress.event \in 0..Len(trip.tl)
  /\ progress.place \in {Start} \cup Places
  /\ progress.started \in Nat /\ progress.started <= now
  /\ progress.state \in {"walking", "waiting_bus", "on_bus", "in_taxi"} =>
       Current.type = "transfer"
  /\ progress.state = "at_place" => progress.event # 0 /\ Activity(Current)
  /\ progress.state \in TravelStates
  /\ progress.state \in {"at_place", "ready_to_depart"} /\ progress.event # 0 =>
       Activity(Current) /\ progress.place = Current.place

LEMMA TripFacts ==
  ASSUME NEW t \in Trips
  PROVE  /\ IsRequest(t.q) /\ t.open \in Nat /\ IsTimeline(t.tl)
         /\ t.alts \in [DOMAIN t.tl -> Seq(Modes)]
         /\ \A r \in t.drafts : IsRequest(r.q) /\ IsDay(r.day)
BY RevalidationAssumption

\* The events of a timeline.
LEMMA EventFacts ==
  ASSUME NEW tl, IsTimeline(tl)
  PROVE  /\ Len(tl) \in Nat /\ DOMAIN tl = 1..Len(tl) /\ tl \in Seq(TimelineEvent)
         /\ \A i \in 1..Len(tl) :
              /\ tl[i] \in TimelineEvent /\ tl[i].start \in Nat /\ tl[i].end \in Nat
              /\ tl[i].start < tl[i].end
              /\ Activity(tl[i]) => tl[i].place \in Places /\ tl[i].type = KindOf[tl[i].place]
         /\ \A i, j \in 1..Len(tl) : i < j => tl[i].end <= tl[j].start
         /\ Transfers(tl) \subseteq 1..Len(tl)
         /\ \A i \in Transfers(tl) :
              /\ FromOf(tl, i) \in {Start} \cup Places /\ ToOf(tl, i) \in {End} \cup Places
<1>1. tl \in Seq(TimelineEvent)
  BY DEF IsTimeline
<1>2. Len(tl) \in Nat /\ DOMAIN tl = 1..Len(tl)
  BY <1>1
<1>3. \A i \in 1..Len(tl) : tl[i] \in TimelineEvent
  BY <1>1, ElementOfSeq
<1>4. \A i \in 1..Len(tl) : tl[i].start \in Nat /\ tl[i].end \in Nat
  BY <1>3 DEF TimelineEvent
<1>5. /\ \A i \in 1..Len(tl) :
           /\ tl[i].start < tl[i].end
           /\ Activity(tl[i]) => tl[i].place \in Places /\ tl[i].type = KindOf[tl[i].place]
      /\ \A i, j \in 1..Len(tl) : i < j => tl[i].end <= tl[j].start
  BY <1>2 DEF IsTimeline
<1>6. Transfers(tl) \subseteq 1..Len(tl)
  BY <1>2 DEF Transfers
<1>7. \A i \in Transfers(tl) :
        /\ FromOf(tl, i) \in {Start} \cup Places /\ ToOf(tl, i) \in {End} \cup Places
  <2> SUFFICES ASSUME NEW i \in Transfers(tl)
               PROVE  /\ FromOf(tl, i) \in {Start} \cup Places
                      /\ ToOf(tl, i) \in {End} \cup Places
    OBVIOUS
  <2>1. <<FromOf(tl, i), ToOf(tl, i)>> \in Legs
    BY DEF IsTimeline
  <2> QED
    BY <2>1 DEF Legs
<1> QED
  BY <1>1, <1>2, <1>3, <1>4, <1>5, <1>6, <1>7

\* The stays that are not over, as the activities they become.
Here(i) == i = progress.event /\ progress.state = "at_place"
StayLeft == Current.end - Current.start - (now - progress.started)
KeptStays ==
  {i \in DOMAIN trip.tl :
     /\ Activity(trip.tl[i]) /\ ~Completed(i) /\ trip.tl[i].end > now
     /\ Here(i) => StayLeft > 0}
ActOf(i) == IF Here(i) THEN Act(i, trip.tl[i].place, now, now + StayLeft)
            ELSE Act(i, trip.tl[i].place, trip.tl[i].start, trip.tl[i].end)

LEMMA RemainingShape ==
  ASSUME TravelInv, NEW place, NEW d \in RemainingDay(place)
  PROVE  /\ d.from = place /\ d.at = now /\ d.locks = Locks(KeptStays)
         /\ d = Draft(d.from, d.at, d.acts, d.locks)
         /\ d.acts \in Seq({ActOf(i) : i \in KeptStays})
         /\ \E order :
              /\ InLine(KeptStays, order) /\ order # <<>>
              /\ Len(d.acts) = Len(order) /\ \A k \in 1..Len(order) : d.acts[k] = ActOf(order[k])
<1> DEFINE tl == trip.tl
           left == {i \in DOMAIN tl : Activity(tl[i]) /\ ~Completed(i) /\ tl[i].end > now}
           kept == {i \in left : Here(i) => StayLeft > 0}
           order == Ordered([i \in KeptStays |-> <<i>>])
<1>1. KeptStays \in SUBSET Int /\ IsFiniteSet(KeptStays)
  <2>1. KeptStays \subseteq 1..Len(tl) /\ Len(tl) \in Nat
    BY TripFacts, EventFacts DEF TravelInv, KeptStays
  <2>2. IsFiniteSet(1..Len(tl))
    BY <2>1, FS_Interval
  <2>3. IsFiniteSet(KeptStays)
    BY <2>1, <2>2, FS_Subset
  <2> QED
    BY <2>1, <2>3
<1>2. InLine(KeptStays, order)
  BY <1>1, NumbersInLine
<1>3. kept = KeptStays
  BY DEF KeptStays
<1>4. Remaining = LET o == Ordered([i \in kept |-> <<i>>]) IN [k \in DOMAIN o |-> ActOf(o[k])]
  BY Zenon DEF Remaining, ActOf, Here, StayLeft
<1>5. Remaining = [k \in DOMAIN order |-> ActOf(order[k])]
  <2> HIDE DEF kept
  <2> QED
    BY <1>3, <1>4
<1> HIDE DEF order, kept
<1>6. /\ Len(order) \in Nat /\ DOMAIN order = 1..Len(order)
      /\ \A k \in 1..Len(order) : order[k] \in KeptStays
  BY <1>2, ElementOfSeq DEF InLine
<1>7. /\ Len(Remaining) = Len(order) /\ DOMAIN Remaining = 1..Len(order)
      /\ \A k \in 1..Len(order) : Remaining[k] = ActOf(order[k])
      /\ Remaining \in Seq({ActOf(i) : i \in KeptStays})
  <2> DEFINE S == {ActOf(i) : i \in KeptStays}
  <2>1. Remaining \in [1..Len(order) -> S]
    BY <1>5, <1>6
  <2> HIDE DEF S
  <2> QED
    BY <1>5, <1>6, <2>1 DEF S
<1>8. {a.id : a \in Range(Remaining)} = KeptStays
  <2>1. \A i : ActOf(i).id = i
    BY DEF ActOf, Act
  <2>2. Range(Remaining) = {ActOf(order[k]) : k \in 1..Len(order)}
    BY <1>7 DEF Range
  <2>3. \A i \in KeptStays : \E k \in 1..Len(order) : order[k] = i
    BY <1>2 DEF InLine
  <2> DEFINE ids == {a.id : a \in Range(Remaining)}
  <2>4. \A i \in ids : i \in KeptStays
    BY <1>6, <2>1, <2>2
  <2>5. ASSUME NEW i \in KeptStays PROVE i \in ids
    <3>1. PICK k \in 1..Len(order) : order[k] = i
      BY <2>3
    <3>2. ActOf(i) \in Range(Remaining) /\ ActOf(i).id = i
      BY <2>1, <2>2, <3>1
    <3> QED
      BY <3>2
  <2> HIDE DEF ids
  <2>6. ids = KeptStays
    BY <2>4, <2>5
  <2> QED
    BY <2>6 DEF ids
<1>9. /\ Remaining # <<>>
      /\ d = Draft(place, now, Remaining, Locks({a.id : a \in Range(Remaining)}))
  BY DEF RemainingDay
<1>10. d.from = place /\ d.at = now /\ d.acts = Remaining /\ d.locks = Locks(KeptStays)
  BY <1>8, <1>9 DEF Draft
<1>11. d = Draft(d.from, d.at, d.acts, d.locks)
  BY <1>8, <1>9, <1>10
<1>12. order # <<>>
  <2>1. Len(Remaining) # 0
    BY <1>7, <1>9
  <2> QED
    BY <1>7, <2>1
<1> QED
  BY <1>2, <1>7, <1>10, <1>11, <1>12

\* What is left of the day is a day that begins here and now.
LEMMA RemainingIsDay ==
  ASSUME TravelInv, NEW place \in {Start, NoPlace} \cup Places, NEW d \in RemainingDay(place)
  PROVE  IsDay(d) /\ d.from = place /\ d.at = now
<1> DEFINE tl == trip.tl
           R == [id : Nat, place : Places, start : Nat, end : Nat]
<1>1. IsTimeline(tl) /\ now \in Nat /\ progress.started \in Nat
  BY TripFacts DEF TravelInv
<1>2. /\ d.from = place /\ d.at = now /\ d = Draft(d.from, d.at, d.acts, d.locks)
      /\ d.acts \in Seq({ActOf(i) : i \in KeptStays})
  BY RemainingShape
<1>3. ASSUME NEW i \in KeptStays
      PROVE  ActOf(i) \in R /\ ActOf(i).start < ActOf(i).end
  <2>1. /\ i \in DOMAIN tl /\ Activity(tl[i]) /\ (Here(i) => StayLeft > 0)
    BY DEF KeptStays
  <2>2. /\ i \in Nat /\ tl[i].start \in Nat /\ tl[i].end \in Nat /\ tl[i].start < tl[i].end
        /\ tl[i].place \in Places
    BY <1>1, <2>1, EventFacts
  <2>3. CASE Here(i)
    <3>1. StayLeft = tl[i].end - tl[i].start - (now - progress.started)
      BY <2>3 DEF StayLeft, Here, Current
    <3>2. StayLeft \in Nat /\ StayLeft > 0
      BY <1>1, <2>1, <2>2, <2>3, <3>1
    <3>3. ActOf(i) = Act(i, tl[i].place, now, now + StayLeft)
      BY <2>3 DEF ActOf
    <3> QED
      BY <1>1, <2>2, <3>2, <3>3 DEF Act
  <2>4. CASE ~Here(i)
    <3>1. ActOf(i) = Act(i, tl[i].place, tl[i].start, tl[i].end)
      BY <2>4 DEF ActOf
    <3> QED
      BY <2>2, <3>1 DEF Act
  <2> QED
    BY <2>3, <2>4
<1>4. \A k \in 1..Len(d.acts) : d.acts[k] \in R /\ d.acts[k].start < d.acts[k].end
  <2> SUFFICES ASSUME NEW k \in 1..Len(d.acts)
               PROVE  d.acts[k] \in R /\ d.acts[k].start < d.acts[k].end
    OBVIOUS
  <2>1. PICK i \in KeptStays : d.acts[k] = ActOf(i)
    BY <1>2, ElementOfSeq
  <2> QED
    BY <1>3, <2>1
<1>5. d.acts \in Seq(R) /\ DOMAIN d.acts = 1..Len(d.acts)
  <2> DEFINE S == {ActOf(i) : i \in KeptStays}
  <2>1. S \subseteq R
    BY <1>3
  <2> HIDE DEF R, S
  <2>2. d.acts \in Seq(R)
    BY <1>2, <2>1, SeqMonotonic DEF S
  <2>3. DOMAIN d.acts = 1..Len(d.acts)
    BY <2>2
  <2> QED
    BY <2>2, <2>3
<1>6. place # NoPlace
  BY DEF RemainingDay
<1> QED
  BY <1>1, <1>2, <1>4, <1>5, <1>6 DEF IsDay

--------------------------------------------------------------------------------
\* The reply to a call on the way.

LEMMA StatusFacts ==
  ASSUME NEW v, StatusOf(v) \in {"on_schedule", "at_risk"}
  PROVE  v.timing \notin {"disrupted", "unknown"}
BY DEF StatusOf

\* Either the reply has no evaluation, or it is the evaluation of what is left.
LEMMA ReplyFacts ==
  ASSUME NEW place, NEW arrival, NEW limit, NEW ready,
         NEW r, r = Revalidate(place, arrival, limit, ready)
  PROVE  /\ r.status \in Statuses \ {"none", "raised", "evaluated", "judged"}
         /\ r.arrival = arrival
         /\ \A of \in r.of : \E day \in RemainingDay(place) :
              /\ of = Evaluated(trip.q, day, Context(arrival))
              /\ r.status = StatusOf(of.verdict)
<1> DEFINE v == Original[trip].verdict
           b == Revalidated(place, arrival, limit, ready, v)
           Replies == Statuses \ {"none", "raised", "evaluated", "judged"}
           Good(x) ==
             /\ x.status \in Replies
             /\ \A of \in x.of : \E day \in RemainingDay(place) :
                  /\ of = Evaluated(trip.q, day, Context(arrival))
                  /\ x.status = StatusOf(of.verdict)
<1>1. r.status = b.status /\ r.of = b.of /\ r.arrival = arrival
  BY DEF Revalidate, WithTaxi
<1> HIDE DEF v
<1>2. \A s \in Replies : Good(Bare(s))
  BY DEF Bare
<1>3. \A w : StatusOf(w) \in Replies
  BY DEF StatusOf, Statuses
<1>4. ASSUME RemainingDay(place) # {}
      PROVE  Good(Answer(CHOOSE d \in RemainingDay(place) : TRUE, arrival, limit))
  <2> DEFINE day == CHOOSE d \in RemainingDay(place) : TRUE
             e == Evaluated(trip.q, day, Context(arrival))
             a == Answered(e, limit)
  <2>1. day \in RemainingDay(place)
    BY <1>4
  <2> HIDE DEF day, e
  <2>2. CASE e.calls > limit
    <3>1. a = [status |-> "data_unavailable", of |-> {}, calls |-> limit, options |-> <<>>]
      BY <2>2, Zenon DEF Answered
    <3> HIDE DEF a
    <3>2. a.status = "data_unavailable" /\ a.of = {}
      BY <3>1
    <3> QED
      BY <3>2 DEF Answer, Statuses, a, e, day
  <2>3. CASE ~(e.calls > limit)
    <3>1. a = [status |-> StatusOf(e.verdict), of |-> {e}, calls |-> e.calls, options |-> e.repairs]
      BY <2>3, Zenon DEF Answered
    <3> HIDE DEF a
    <3>2. a.status = StatusOf(e.verdict) /\ a.of = {e}
      BY <3>1
    <3>3. Good(a)
      BY <1>3, <2>1, <3>2 DEF e
    <3> QED
      BY <3>3 DEF Answer, a, e, day
  <2> QED
    BY <2>2, <2>3
<1>5. Good(b)
  <2> HIDE DEF Good
  <2>1. {"at_risk", "on_schedule", "data_unavailable", "disrupted"} \subseteq Replies
    BY DEF Statuses
  <2> QED
    BY <1>2, <1>4, <2>1 DEF Revalidated
<1> QED
  BY <1>1, <1>5

LEMMA EvaluatedIsAssessed ==
  ASSUME NEW q, NEW day, NEW ctx
  PROVE  /\ Evaluated(q, day, ctx).day = Assess(q, day, ctx, 0, FALSE).day
         /\ Evaluated(q, day, ctx).verdict = Assess(q, day, ctx, 0, FALSE).verdict
BY DEF Evaluated, WithRepairs

LEMMA ReportedPlaces ==
  ASSUME TravelInv
  PROVE  Reported \subseteq {Start, NoPlace} \cup Places
BY RevalidationAssumption DEF Reported, TravelInv

\* Good news of a traveller who does not wait for a bus.
LEMMA GoodNewsStep ==
  ASSUME TravelInv, progress.state # "waiting_bus",
         NEW place \in Reported, NEW arrival, NEW limit, NEW ready,
         NEW r, r = Revalidate(place, arrival, limit, ready),
         r.status \in {"on_schedule", "at_risk"}, NEW of \in r.of
  PROVE  CanFollow(trip.q, of.day)
<1>1. PICK day \in RemainingDay(place) :
        of = Evaluated(trip.q, day, Context(arrival)) /\ r.status = StatusOf(of.verdict)
  BY ReplyFacts
<1>2. Context(arrival) = Plain
  BY DEF Context
<1>3. IsDay(day) /\ IsRequest(trip.q)
  BY RemainingIsDay, ReportedPlaces, TripFacts DEF TravelInv
<1> DEFINE a == Assess(trip.q, day, Plain, 0, FALSE)
<1>4. of.day = a.day /\ of.verdict = a.verdict
  BY <1>1, <1>2, EvaluatedIsAssessed
<1>5. PlainDay(trip.q, a)
  BY <1>3, PlainAssessment
<1> HIDE DEF a
<1>6. a.verdict.timing \notin {"disrupted", "unknown"}
  BY <1>1, <1>4, StatusFacts
<1> QED
  BY <1>3, <1>4, <1>5, <1>6, GoodPlainDay

\* A day that begins with the wait for a bus of which nothing is known.
LEMMA NothingKnown ==
  ASSUME progress.state = "waiting_bus", NEW arrival \in {Unconfirmed, Lost, Stale},
         NEW q, NEW day, IsDay(day), day.at = now, NEW held, NEW a,
         a = Assess(q, day, Context(arrival), 0, held),
         LegOf(a.day, 1)[1] # LegOf(a.day, 1)[2],
         PlannedAgain(q, Context(arrival), LegOf(a.day, 1)) # NoEvidence
  PROVE  a.verdict.timing \in {"disrupted", "unknown"}
<1> DEFINE ctx == Context(arrival)
           planned == PlannedEvidence(progress.event)
           d == Sorted(day)
           s == Searched(q, d, ctx, 0, held)
           e == Looked(q, d, 1)
           leg == LegOf(d, 1)
           b == Awaited(q, ctx, leg, now, e)
           admission == ~ctx.live
<1>1. planned.mode = "bus"
  BY DEF PlannedEvidence, NoEvidence
<1>2. /\ ctx.live = TRUE /\ ctx.now = now /\ ctx.stop = planned.stop /\ ctx.planned = planned
      /\ ctx.arrival = arrival
  <2> HIDE DEF planned
  <2> QED
    BY DEF Context, planned
<1> HIDE DEF ctx, planned
<1>3. a = Assessed(q, d, ctx, s)
  BY Zenon DEF Assess, ctx
<1>4. /\ a.day = d /\ a.verdict = Judged(q, d, s.found, admission)
  <2> HIDE DEF d, s
  <2>1. a = [day |-> d, found |-> s.found, calls |-> s.calls, held |-> s.held,
             verdict |-> Judged(q, d, s.found, admission)]
    BY <1>3, Zenon DEF Assessed
  <2> HIDE DEF admission
  <2> QED
    BY <2>1
<1> HIDE DEF admission
<1>5. s.found = [i \in Legged(d) |-> Found(q, ctx, LegOf(d, i), LeavesAt(d, i), Looked(q, d, i))]
  BY DEF Searched, WithEvidence, Claimed
<1>6. leg[1] # leg[2] /\ PlannedAgain(q, ctx, leg) # NoEvidence
  BY <1>4 DEF ctx
<1>7. LeavesAt(d, 1) = now
  BY SortedDay DEF LeavesAt
<1> HIDE DEF d, s, leg, e
<1> SUFFICES ASSUME a.verdict.timing \notin {"disrupted", "unknown"} PROVE FALSE
  OBVIOUS
<1> DEFINE found == s.found
<1>8. DOMAIN found = Legged(d)
  BY <1>5
<1>9. Judged(q, d, found, admission).timing \notin {"disrupted", "unknown"}
  BY <1>4, Zenon
<1> HIDE DEF found
<1>10. /\ \A i \in Legged(d) : LegIssue(q, d, i, found[i]) # "ROUTE_EVIDENCE_MISSING"
       /\ d.acts # <<>>
  BY <1>8, <1>9, CalmDay
<1>11. IsDay(d)
  BY SortedDay DEF d
<1>12. 1 \in Legged(d)
  BY <1>10, <1>11, ActsOfADay DEF Legged
<1>13. found[1] = Found(q, ctx, leg, now, e)
  BY <1>5, <1>7, <1>12 DEF found, leg, e
<1>14. b # NoEvidence
  <2>1. CASE Boards(ctx, e)
    <3>1. b = e
      BY <1>2, <1>6, <2>1 DEF Awaited
    <3>2. e.mode = "bus"
      BY <2>1 DEF Boards
    <3>3. NoEvidence.mode = "none"
      BY DEF NoEvidence
    <3> QED
      BY <3>1, <3>2, <3>3
  <2>2. CASE ~Boards(ctx, e)
    <3>1. LooksAgain(ctx, now, e)
      BY <1>1, <1>2, <2>2 DEF LooksAgain
    <3>2. b = PlannedAgain(q, ctx, leg)
      BY <1>6, <2>2, <3>1 DEF Awaited
    <3> QED
      BY <1>6, <3>2
  <2> QED
    BY <2>1, <2>2
<1>15. found[1] = WithArrival(ctx, b)
  BY <1>13, <1>14 DEF Found, Confirmed
<1>16. found[1] = NoEvidence
  BY <1>2, <1>15 DEF WithArrival
<1>17. LegIssue(q, d, 1, found[1]) = "ROUTE_EVIDENCE_MISSING"
  BY <1>16 DEF LegIssue
<1> QED
  BY <1>10, <1>12, <1>17

\* Good news of a traveller who waits for the bus that is planned.
LEMMA LiveNewsStep ==
  ASSUME TravelInv, progress.state = "waiting_bus",
         NEW place \in Reported, NEW arrival \in Arrivals, NEW limit, NEW ready,
         NEW r, r = Revalidate(place, arrival, limit, ready),
         r.status \in {"on_schedule", "at_risk"}, NEW of \in r.of,
         LegOf(of.day, 1)[1] # LegOf(of.day, 1)[2],
         PlannedAgain(trip.q, Context(arrival), LegOf(of.day, 1)) # NoEvidence
  PROVE  arrival \in Nat
<1>1. PICK day \in RemainingDay(place) :
        of = Evaluated(trip.q, day, Context(arrival)) /\ r.status = StatusOf(of.verdict)
  BY ReplyFacts
<1>2. IsDay(day) /\ day.at = now
  BY RemainingIsDay, ReportedPlaces
<1> DEFINE a == Assess(trip.q, day, Context(arrival), 0, FALSE)
<1>3. of.day = a.day /\ of.verdict = a.verdict
  BY <1>1, EvaluatedIsAssessed, ZenonT(60)
<1>4. a = Assess(trip.q, day, Context(arrival), 0, FALSE)
  OBVIOUS
<1> HIDE DEF a
<1>5. of.verdict.timing \notin {"disrupted", "unknown"}
  BY <1>1, StatusFacts
<1>6. /\ LegOf(a.day, 1)[1] # LegOf(a.day, 1)[2]
      /\ PlannedAgain(trip.q, Context(arrival), LegOf(a.day, 1)) # NoEvidence
      /\ a.verdict.timing \notin {"disrupted", "unknown"}
  BY <1>3, <1>5
<1> SUFFICES ASSUME arrival \notin Nat PROVE FALSE
  OBVIOUS
<1>7. arrival \in {Unconfirmed, Lost, Stale}
  BY RevalidationAssumption
<1> QED
  BY <1>2, <1>4, <1>6, <1>7, NothingKnown

--------------------------------------------------------------------------------
\* The repairs of a timeline.

\* A timeline whose events have a length.
EventsLast(t) == t \in Seq(TimelineEvent) /\ \A i \in 1..Len(t) : t[i].start < t[i].end

\* The stays that are required are in t as they are in tl.
KeepsStays(q, tl, t) ==
  \A e \in Range(tl) : Activity(e) /\ e.place \in q.required => e \in Range(t)

\* What a repair of tl has to be.
GoodTimeline(q, tl, t) ==
  EventsLast(t) /\ Gapless(t) /\ (StaysAreApart(tl) => KeepsStays(q, tl, t))

GoodOffers(q, tl, rs) ==
  \E S : rs \in Seq(S) /\ \A r \in S : GoodTimeline(q, tl, r.tl)

\* An attempt at repairs: the calls, what is offered, and whether it failed.
Attempt(q, tl, s) ==
  /\ s = [calls |-> s.calls, repairs |-> s.repairs, raised |-> s.raised]
  /\ GoodOffers(q, tl, s.repairs)

\* What a verdict that passes says of a timeline.
LEMMA PassingPlan ==
  ASSUME NEW q, NEW t, NEW open, Passes(TimelineVerdict(q, t, open))
  PROVE  /\ BoundaryComplete(q, t, open) /\ Gapless(t) /\ Continuous(t)
         /\ LimitsHold(q, t) /\ RestHolds(q, t)
         /\ \A i \in Transfers(t) : FoundFor(q, t, i) # NoEvidence
         /\ \A i \in DOMAIN t : Activity(t[i]) => ActIssues(q, t[i], TRUE) \cap Critical = {}
<1> DEFINE legs == {TimelineLegIssue(q, t, i, FoundFor(q, t, i)) : i \in Transfers(t)}
           stays == UNION {ActIssues(q, t[i], TRUE) : i \in {j \in DOMAIN t : Activity(t[j])}}
           Sound == BoundaryComplete(q, t, open) /\ Gapless(t) /\ Continuous(t)
                       /\ PickupsPlanned(q, t) /\ MealsHold(t)
           whole == IF Sound THEN {} ELSE {"TIMELINE_INVALID"}
           limits == IF LimitsHold(q, t) THEN {} ELSE {"TOTAL_WALKING_LIMIT_EXCEEDED"}
           rest == IF RestHolds(q, t) THEN {} ELSE {"MISSING_REQUIRED_REST"}
           issues == legs \cup stays \cup whole \cup limits \cup rest
           risks == {TimelineLegRisk(q, t, i, FoundFor(q, t, i)) : i \in Transfers(t)}
<1>1. TimelineVerdict(q, t, open) = Verdict(issues, risks)
  BY Zenon DEF TimelineVerdict
<1>2. issues \cap Critical = {} /\ "ROUTE_EVIDENCE_MISSING" \notin issues
  <2> HIDE DEF issues, risks
  <2> QED
    BY <1>1, CalmVerdict
<1>3. /\ whole \subseteq issues /\ limits \subseteq issues /\ rest \subseteq issues
      /\ legs \subseteq issues /\ stays \subseteq issues
  <2> HIDE DEF legs, stays, whole, limits, rest
  <2> QED
    OBVIOUS
<1>4. {"TIMELINE_INVALID", "TOTAL_WALKING_LIMIT_EXCEEDED", "MISSING_REQUIRED_REST"} \subseteq Critical
  BY DEF Critical
<1>5. Sound
  <2> HIDE DEF issues, Sound
  <2> QED
    BY <1>2, <1>3, <1>4
<1>6. LimitsHold(q, t)
  <2> HIDE DEF issues
  <2> QED
    BY <1>2, <1>3, <1>4
<1>7. RestHolds(q, t)
  <2> HIDE DEF issues
  <2> QED
    BY <1>2, <1>3, <1>4
<1>8. ASSUME NEW i \in Transfers(t) PROVE FoundFor(q, t, i) # NoEvidence
  <2>1. TimelineLegIssue(q, t, i, FoundFor(q, t, i)) \in legs
    OBVIOUS
  <2>2. TimelineLegIssue(q, t, i, FoundFor(q, t, i)) # "ROUTE_EVIDENCE_MISSING"
    <3> HIDE DEF issues, legs
    <3> QED
      BY <1>2, <1>3, <2>1
  <2> QED
    BY <2>2, Zenon DEF TimelineLegIssue
<1>9. ASSUME NEW i \in DOMAIN t, Activity(t[i]) PROVE ActIssues(q, t[i], TRUE) \cap Critical = {}
  <2>1. ActIssues(q, t[i], TRUE) \subseteq stays
    BY <1>9
  <2> HIDE DEF issues, stays
  <2> QED
    BY <1>2, <1>3, <2>1
<1> QED
  BY <1>5, <1>6, <1>7, <1>8, <1>9

\* A timeline is only offered if it passes.
LEMMA OfferIsGood ==
  ASSUME NEW q, NEW tl, NEW open, NEW type, NEW id, NEW t, EventsLast(t),
         StaysAreApart(tl) => KeepsStays(q, tl, t)
  PROVE  GoodOffers(q, tl, OfferOf(q, open, type, id, t))
<1> DEFINE v == TimelineVerdict(q, t, open)
           r == Repair(type, id, <<>>, t, v)
<1>1. r.tl = t /\ r.verdict = v
  <2> HIDE DEF v
  <2> QED
    BY DEF Repair
<1>2. OfferOf(q, open, type, id, t) = Offered(r)
  BY DEF OfferOf
<1>3. Passes(v) => Gapless(t)
  BY PassingPlan
<1> HIDE DEF r, v
<1>4. CASE Passes(v)
  <2> DEFINE S == {r}
  <2>1. Offered(r) = <<r>>
    BY <1>1, <1>4 DEF Offered
  <2>2. <<r>> \in Seq(S) /\ \A x \in S : GoodTimeline(q, tl, x.tl)
    BY <1>1, <1>3, <1>4 DEF GoodTimeline
  <2> HIDE DEF S
  <2> QED
    BY <1>2, <2>1, <2>2 DEF GoodOffers
<1>5. CASE ~Passes(v)
  <2> DEFINE S == {}
  <2>1. Offered(r) = <<>>
    BY <1>1, <1>5 DEF Offered
  <2>2. <<>> \in Seq(S) /\ \A x \in S : GoodTimeline(q, tl, x.tl)
    OBVIOUS
  <2> HIDE DEF S
  <2> QED
    BY <1>2, <2>1, <2>2 DEF GoodOffers
<1> QED
  BY <1>4, <1>5

LEMMA JoinedOffers ==
  ASSUME NEW q, NEW tl, NEW rs, GoodOffers(q, tl, rs), NEW ts, GoodOffers(q, tl, ts)
  PROVE  GoodOffers(q, tl, rs \o ts)
<1>1. PICK S : rs \in Seq(S) /\ \A r \in S : GoodTimeline(q, tl, r.tl)
  BY DEF GoodOffers
<1>2. PICK T : ts \in Seq(T) /\ \A r \in T : GoodTimeline(q, tl, r.tl)
  BY DEF GoodOffers
<1> DEFINE U == S \cup T
<1>3. rs \in Seq(U) /\ ts \in Seq(U)
  BY <1>1, <1>2, SeqMonotonic
<1>4. \A r \in U : GoodTimeline(q, tl, r.tl)
  BY <1>1, <1>2
<1> HIDE DEF U
<1>5. rs \o ts \in Seq(U)
  BY <1>3, ConcatProperties
<1> QED
  BY <1>4, <1>5 DEF GoodOffers

LEMMA TriedIsGood ==
  ASSUME NEW q, NEW tl, NEW open, NEW s, Attempt(q, tl, s), NEW type, NEW id, NEW t, EventsLast(t),
         StaysAreApart(tl) => KeepsStays(q, tl, t)
  PROVE  Attempt(q, tl, Tried(q, open, s, type, id, t))
<1> DEFINE offer == OfferOf(q, open, type, id, t)
           n == Cardinality(Transfers(t))
           u == Tried(q, open, s, type, id, t)
<1>1. GoodOffers(q, tl, s.repairs \o offer)
  BY OfferIsGood, JoinedOffers DEF Attempt
<1>2. s = [calls |-> s.calls, repairs |-> s.repairs, raised |-> s.raised]
  BY DEF Attempt
<1>3. u = [s EXCEPT !.calls = @ + n, !.repairs = @ \o offer]
  BY Zenon DEF Tried
<1> HIDE DEF offer, n, u
<1>4. u = [calls |-> s.calls + n, repairs |-> s.repairs \o offer, raised |-> s.raised]
  BY <1>2, <1>3
<1>5. Attempt(q, tl, u)
  BY <1>1, <1>4 DEF Attempt
<1> QED
  BY <1>5 DEF u

LEMMA LegOfTransfer ==
  ASSUME NEW tl, IsTimeline(tl), NEW i \in Transfers(tl)
  PROVE  /\ i \in 1..Len(tl) /\ tl[i].type = "transfer" /\ ~Activity(tl[i])
         /\ <<FromOf(tl, i), ToOf(tl, i)>> \in Legs /\ tl[i].start \in Nat
<1>1. i \in 1..Len(tl) /\ tl[i].start \in Nat
  BY EventFacts
<1>2. tl[i].type = "transfer"
  BY DEF Transfers
<1> QED
  BY <1>1, <1>2 DEF IsTimeline, Activity, Kinds

LEMMA TimelineSlackType ==
  ASSUME NEW q, IsRequest(q), NEW tl, IsTimeline(tl), NEW i \in Transfers(tl),
         FoundFor(q, tl, i) # NoEvidence
  PROVE  TimelineSlack(q, tl, i) \in Int
<1> DEFINE leg == <<FromOf(tl, i), ToOf(tl, i)>>
           e == FoundFor(q, tl, i)
           stops == {j \in (i + 1)..Len(tl) : tl[j].type # "buffer"}
           next == IF stops = {} THEN Len(tl) + 1 ELSE Min(stops)
<1>1. i \in 1..Len(tl) /\ leg \in Legs
  BY LegOfTransfer
<1>2. Len(tl) \in Nat /\ \A j \in 1..Len(tl) : tl[j].start \in Nat /\ tl[j].end \in Nat
  BY EventFacts
<1>3. e.minutes \in Nat
  <2>1. e = RouteForMode(q, leg, tl[i].start, tl[i].mode)
    BY DEF FoundFor
  <2> HIDE DEF leg, e
  <2>2. Travels(q, leg, tl[i].start, e)
    BY <1>1, <1>2, <2>1, EvidenceFacts DEF e
  <2> QED
    BY <2>2 DEF Travels
<1>4. next \in (i + 1)..(Len(tl) + 1)
  <2>1. stops \in SUBSET Nat
    BY <1>1, <1>2
  <2>2. stops # {} => Min(stops) \in stops
    <3> HIDE DEF stops
    <3> QED
      BY <2>1, MinOfNaturals
  <2> QED
    BY <1>1, <1>2, <2>2
<1> HIDE DEF next
<1>5. next - 1 \in 1..Len(tl)
  BY <1>1, <1>2, <1>4
<1>6. BuffersAfter(q, tl, i) =
        IF i = Len(tl) THEN q.close - tl[i].end ELSE tl[next - 1].end - tl[i].end
  BY Zenon DEF BuffersAfter, next
<1>7. q.close \in Nat
  BY DEF IsRequest
<1>8. BuffersAfter(q, tl, i) \in Int
  BY <1>1, <1>2, <1>5, <1>6, <1>7
<1> HIDE DEF e
<1>9. TimelineSlack(q, tl, i) = tl[i].end - tl[i].start + BuffersAfter(q, tl, i) - e.minutes
  BY Zenon DEF TimelineSlack, EvaluatedSlack, e
<1> QED
  BY <1>1, <1>2, <1>3, <1>8, <1>9, SMTT(30)

\* Where only events that are no required stays change, the others are kept.
LEMMA OthersAreKept ==
  ASSUME NEW q, NEW tl, IsTimeline(tl), NEW t, DOMAIN t = DOMAIN tl, NEW C,
         \A j \in 1..Len(tl) : j \notin C => t[j] = tl[j],
         \A j \in C : ~(Activity(tl[j]) /\ tl[j].place \in q.required)
  PROVE  KeepsStays(q, tl, t)
<1> SUFFICES ASSUME NEW e \in Range(tl), Activity(e), e.place \in q.required
             PROVE  e \in Range(t)
  BY DEF KeepsStays
<1>1. DOMAIN tl = 1..Len(tl)
  BY EventFacts
<1>2. PICK j \in 1..Len(tl) : e = tl[j]
  BY <1>1 DEF Range
<1>3. t[j] = e
  BY <1>2
<1> QED
  BY <1>1, <1>3 DEF Range

LEMMA ShortenIsGood ==
  ASSUME NEW q, IsRequest(q), NEW tl, IsTimeline(tl), NEW open, NEW i \in Transfers(tl),
         FoundFor(q, tl, i) # NoEvidence, TimelineSlack(q, tl, i) < 0,
         NEW s, Attempt(q, tl, s)
  PROVE  Attempt(q, tl, ShortenBefore(q, tl, open, i, s))
<1> DEFINE end == tl[i - 1].end + TimelineSlack(q, tl, i)
           t == [tl EXCEPT ![i - 1].end = end, ![i].start = end]
<1>1. ShortenBefore(q, tl, open, i, s) =
        IF Optional(q, tl, i) /\ end > tl[i - 1].start
        THEN Tried(q, open, s, "SHORTEN_STAY", i - 1, t) ELSE s
  BY Zenon DEF ShortenBefore
<1>2. CASE Optional(q, tl, i) /\ end > tl[i - 1].start
  <2>1. TimelineSlack(q, tl, i) \in Int
    BY TimelineSlackType
  <2>2. i \in 1..Len(tl) /\ ~Activity(tl[i])
    BY LegOfTransfer
  <2>3. i > 1 /\ Activity(tl[i - 1]) /\ tl[i - 1].place \notin q.required
    BY <1>2 DEF Optional
  <2>4. /\ Len(tl) \in Nat /\ DOMAIN tl = 1..Len(tl) /\ tl \in Seq(TimelineEvent)
        /\ \A j \in 1..Len(tl) :
             /\ tl[j] \in TimelineEvent /\ tl[j].start \in Nat /\ tl[j].end \in Nat
             /\ tl[j].start < tl[j].end
        /\ \A j, k \in 1..Len(tl) : j < k => tl[j].end <= tl[k].start
    BY EventFacts
  <2> DEFINE h == i - 1
  <2>5. h \in 1..Len(tl) /\ h < i
    BY <2>2, <2>3, <2>4
  <2>6. end \in Nat /\ tl[h].start < end /\ end < tl[i].end
    <3>1. tl[h].end \in Nat /\ tl[h].start \in Nat /\ tl[i].start \in Nat /\ tl[i].end \in Nat
          /\ tl[h].end <= tl[i].start /\ tl[i].start < tl[i].end
      BY <2>2, <2>4, <2>5
    <3> QED
      BY <1>2, <2>1, <3>1
  <2> HIDE DEF end
  <2>7. /\ DOMAIN t = DOMAIN tl
        /\ t[h] = [tl[h] EXCEPT !.end = end] /\ t[i] = [tl[i] EXCEPT !.start = end]
        /\ \A j \in 1..Len(tl) : j \notin {h, i} => t[j] = tl[j]
    BY <2>2, <2>4, <2>5, SMTT(30)
  <2> HIDE DEF t, h
  <2>8. /\ t[h] \in TimelineEvent /\ t[h].start < t[h].end
        /\ t[i] \in TimelineEvent /\ t[i].start < t[i].end
    <3>1. tl[h] \in TimelineEvent /\ tl[i] \in TimelineEvent
      BY <2>2, <2>4, <2>5
    <3>2. t[h] \in TimelineEvent /\ t[h].start = tl[h].start /\ t[h].end = end
      BY <2>6, <2>7, <3>1 DEF TimelineEvent
    <3>3. t[i] \in TimelineEvent /\ t[i].start = end /\ t[i].end = tl[i].end
      BY <2>6, <2>7, <3>1 DEF TimelineEvent
    <3> QED
      BY <2>6, <3>2, <3>3
  <2>9. \A j \in 1..Len(tl) : t[j] \in TimelineEvent /\ t[j].start < t[j].end
    BY <2>4, <2>7, <2>8
  <2>10. t \in Seq(TimelineEvent) /\ Len(t) = Len(tl)
    <3>1. t = [j \in 1..Len(tl) |-> t[j]]
      BY <2>4, <2>7 DEF t
    <3>2. t \in [1..Len(tl) -> TimelineEvent]
      BY <2>9, <3>1
    <3> QED
      BY <2>4, <3>2
  <2>11. EventsLast(t)
    BY <2>9, <2>10 DEF EventsLast
  <2>12. KeepsStays(q, tl, t)
    <3> DEFINE C == {h, i}
    <3>1. \A j \in C : ~(Activity(tl[j]) /\ tl[j].place \in q.required)
      BY <2>2, <2>3 DEF h
    <3>2. DOMAIN t = DOMAIN tl /\ \A j \in 1..Len(tl) : j \notin C => t[j] = tl[j]
      BY <2>7
    <3> HIDE DEF C
    <3> QED
      BY <3>1, <3>2, OthersAreKept
  <2> QED
    BY <1>1, <1>2, <2>11, <2>12, TriedIsGood
<1> QED
  BY <1>1, <1>2

\* Another route for a transfer changes neither its times nor any other event.
LEMMA ReplacedFacts ==
  ASSUME NEW t, EventsLast(t), NEW i \in 1..Len(t), NEW e,
         e.mode \in Modes, e.ride \in Ride, e.walked \in Nat
  PROVE  /\ EventsLast(Replaced(t, i, e)) /\ Len(Replaced(t, i, e)) = Len(t)
         /\ DOMAIN Replaced(t, i, e) = DOMAIN t
         /\ \A j \in 1..Len(t) : j # i => Replaced(t, i, e)[j] = t[j]
         /\ Replaced(t, i, e)[i].end = t[i].end
<1> DEFINE f == [t[i] EXCEPT !.mode = e.mode, !.ride = e.ride, !.walked = e.walked,
                             !.pickup = NoTime]
           u == Replaced(t, i, e)
<1>1. t \in Seq(TimelineEvent) /\ \A j \in 1..Len(t) : t[j].start < t[j].end
  BY DEF EventsLast
<1>2. Len(t) \in Nat /\ DOMAIN t = 1..Len(t) /\ \A j \in 1..Len(t) : t[j] \in TimelineEvent
  BY <1>1, LenProperties, ElementOfSeq
<1>3. u = [t EXCEPT ![i] = f]
  BY Zenon DEF Replaced
<1>4. t[i] \in TimelineEvent
  BY <1>2
<1>5. f \in TimelineEvent /\ f.start = t[i].start /\ f.end = t[i].end
  BY <1>4 DEF TimelineEvent, Modes
<1> HIDE DEF f, u
<1>6. u \in Seq(TimelineEvent) /\ Len(u) = Len(t)
  BY <1>1, <1>3, <1>5, ExceptSeq
<1>7. DOMAIN u = DOMAIN t /\ u[i] = f /\ \A j \in 1..Len(t) : j # i => u[j] = t[j]
  BY <1>2, <1>3
<1>8. \A j \in 1..Len(u) : u[j].start < u[j].end
  <2> SUFFICES ASSUME NEW j \in 1..Len(u) PROVE u[j].start < u[j].end
    OBVIOUS
  <2>1. CASE j = i
    BY <1>1, <1>5, <1>7, <2>1
  <2>2. CASE j # i
    BY <1>1, <1>6, <1>7, <2>2
  <2> QED
    BY <2>1, <2>2
<1>9. EventsLast(u)
  BY <1>6, <1>8 DEF EventsLast
<1> QED
  BY <1>5, <1>6, <1>7, <1>9 DEF u

LEMMA TimelineLasts ==
  ASSUME NEW tl, IsTimeline(tl)
  PROVE  EventsLast(tl)
BY EventFacts DEF EventsLast

\* No repair is a good offer, and what only adds calls is as good as before.
LEMMA NoOffer == ASSUME NEW q, NEW tl PROVE GoodOffers(q, tl, <<>>)
<1> DEFINE S == {}
<1>1. <<>> \in Seq(S) /\ \A r \in S : GoodTimeline(q, tl, r.tl)
  OBVIOUS
<1> HIDE DEF S
<1> QED
  BY <1>1 DEF GoodOffers

LEMMA FasterIsGood ==
  ASSUME NEW q, IsRequest(q), NEW tl, IsTimeline(tl), NEW open, NEW i \in Transfers(tl),
         NEW modes \in Seq(Modes), NEW s, Attempt(q, tl, s)
  PROVE  Attempt(q, tl, UseFaster(q, tl, open, i, modes, s))
<1> DEFINE leg == <<FromOf(tl, i), ToOf(tl, i)>>
           route(k) == RouteForMode(q, leg, tl[i].start, modes[k])
           offer(k) == OfferOf(q, open, "USE_FASTER_VERIFIED_ALTERNATIVE", i,
                               Replaced(tl, i, route(k)))
           others == {k \in DOMAIN modes : modes[k] # tl[i].mode}
           usable == {k \in others : Usable(tl, i, modes[k], route(k))}
           offers == [k \in usable |-> offer(k)]
           passing == {k \in usable : offers[k] # <<>>}
           asked == {k \in others : \A j \in passing : k <= j}
           n == Cardinality(asked) + Cardinality(asked \cap usable) * Cardinality(Transfers(tl))
           rs == IF passing = {} THEN <<>> ELSE offers[Min(passing)]
           u == UseFaster(q, tl, open, i, modes, s)
<1>1. u = [s EXCEPT !.calls = @ + Cardinality(asked)
                              + Cardinality(asked \cap usable) * Cardinality(Transfers(tl)),
                    !.repairs = @ \o rs]
  BY Zenon DEF UseFaster, FirstPassing
<1>2. i \in 1..Len(tl) /\ leg \in Legs /\ tl[i].start \in Nat
      /\ tl[i].type = "transfer" /\ ~Activity(tl[i])
  BY LegOfTransfer
<1>3. ASSUME NEW k \in usable PROVE GoodOffers(q, tl, offer(k))
  <2> DEFINE e == route(k)
             m == modes[k]
             t == Replaced(tl, i, e)
  <2>1. e # NoEvidence
    BY <1>3 DEF Usable
  <2>2. e = RouteForMode(q, leg, tl[i].start, m)
    OBVIOUS
  <2>3. offer(k) = OfferOf(q, open, "USE_FASTER_VERIFIED_ALTERNATIVE", i, t)
    OBVIOUS
  <2> HIDE DEF leg, route, offer, usable, e, m
  <2>4. e.mode \in Modes /\ e.walked \in Nat /\ e.ride \in Ride
    BY <1>2, <2>1, <2>2, EvidenceFacts DEF Travels
  <2>5. /\ EventsLast(t) /\ DOMAIN t = DOMAIN tl
        /\ \A j \in 1..Len(tl) : j # i => t[j] = tl[j]
    BY <1>2, <2>4, TimelineLasts, ReplacedFacts
  <2> HIDE DEF t
  <2>6. KeepsStays(q, tl, t)
    <3> DEFINE C == {i}
    <3>1. \A j \in C : ~(Activity(tl[j]) /\ tl[j].place \in q.required)
      BY <1>2
    <3>2. DOMAIN t = DOMAIN tl /\ \A j \in 1..Len(tl) : j \notin C => t[j] = tl[j]
      BY <2>5
    <3> HIDE DEF C
    <3> QED
      BY <3>1, <3>2, OthersAreKept
  <2> QED
    BY <2>3, <2>5, <2>6, OfferIsGood
<1>4. GoodOffers(q, tl, rs)
  <2>1. passing # {} => Min(passing) \in passing
    <3>1. passing \in SUBSET Nat
      <4>1. DOMAIN modes \subseteq Nat
        BY LenProperties
      <4> QED
        BY <4>1
    <3> HIDE DEF passing
    <3> QED
      BY <3>1, MinOfNaturals
  <2>2. passing \subseteq usable
    OBVIOUS
  <2>3. \A k \in usable : offers[k] = offer(k)
    OBVIOUS
  <2> HIDE DEF usable, offer, offers, passing
  <2>4. CASE passing = {}
    BY <2>4, NoOffer
  <2>5. CASE passing # {}
    BY <1>3, <2>1, <2>2, <2>3, <2>5
  <2> QED
    BY <2>4, <2>5
<1> HIDE DEF asked, usable, rs, u
<1>5. u.repairs = s.repairs \o rs /\ u = [calls |-> u.calls, repairs |-> u.repairs, raised |-> u.raised]
  BY <1>1 DEF Attempt
<1>6. Attempt(q, tl, u)
  BY <1>4, <1>5, JoinedOffers DEF Attempt
<1> QED
  BY <1>6 DEF u

\* Sequences of events that have a length, taken apart and put together.
LEMMA OneEvent ==
  ASSUME NEW e \in TimelineEvent, e.start < e.end
  PROVE  EventsLast(<<e>>)
BY DEF EventsLast

LEMMA PartOfEvents ==
  ASSUME NEW t, EventsLast(t), NEW m \in 1..(Len(t) + 1), NEW n \in 0..Len(t)
  PROVE  /\ EventsLast(SubSeq(t, m, n))
         /\ \A k \in m..n : t[k] \in Range(SubSeq(t, m, n))
<1> DEFINE u == SubSeq(t, m, n)
<1>1. t \in Seq(TimelineEvent) /\ \A k \in 1..Len(t) : t[k].start < t[k].end
  BY DEF EventsLast
<1>2. Len(t) \in Nat
  BY <1>1
<1>3. m..n \subseteq 1..Len(t)
  BY <1>2
<1>4. \A k \in m..n : t[k] \in TimelineEvent
  BY <1>1, <1>3, ElementOfSeq
<1>5. /\ u \in Seq(TimelineEvent) /\ Len(u) = IF m <= n THEN n - m + 1 ELSE 0
      /\ \A k \in 1..(n - m + 1) : u[k] = t[m + k - 1]
  BY <1>2, <1>4, SubSeqProperties
<1> HIDE DEF u
<1>6. \A k \in 1..Len(u) : u[k].start < u[k].end
  <2> SUFFICES ASSUME NEW k \in 1..Len(u) PROVE u[k].start < u[k].end
    OBVIOUS
  <2>1. k \in 1..(n - m + 1) /\ m + k - 1 \in m..n
    BY <1>2, <1>5
  <2>2. m + k - 1 \in 1..Len(t)
    BY <1>3, <2>1
  <2> QED
    BY <1>1, <1>5, <2>1, <2>2
<1>7. ASSUME NEW k \in m..n PROVE t[k] \in Range(u)
  <2> DEFINE x == k - m + 1
  <2>1. x \in 1..(n - m + 1) /\ m + x - 1 = k /\ x \in 1..Len(u)
    BY <1>2, <1>5
  <2> HIDE DEF x
  <2>2. u[x] = t[k]
    BY <1>5, <2>1
  <2>3. DOMAIN u = 1..Len(u)
    BY <1>5, LenProperties
  <2> QED
    BY <2>1, <2>2, <2>3 DEF Range
<1> QED
  BY <1>5, <1>6, <1>7 DEF EventsLast, u

LEMMA JoinedEvents ==
  ASSUME NEW a, EventsLast(a), NEW b, EventsLast(b)
  PROVE  EventsLast(a \o b) /\ Range(a) \subseteq Range(a \o b) /\ Range(b) \subseteq Range(a \o b)
<1> DEFINE u == a \o b
<1>1. /\ a \in Seq(TimelineEvent) /\ \A k \in 1..Len(a) : a[k].start < a[k].end
      /\ b \in Seq(TimelineEvent) /\ \A k \in 1..Len(b) : b[k].start < b[k].end
  BY DEF EventsLast
<1>2. /\ Len(a) \in Nat /\ DOMAIN a = 1..Len(a)
      /\ Len(b) \in Nat /\ DOMAIN b = 1..Len(b)
  BY <1>1
<1>3. /\ u \in Seq(TimelineEvent) /\ Len(u) = Len(a) + Len(b)
      /\ \A k \in 1..(Len(a) + Len(b)) : u[k] = IF k <= Len(a) THEN a[k] ELSE b[k - Len(a)]
  BY <1>1, ConcatProperties
<1> HIDE DEF u
<1>4. DOMAIN u = 1..Len(u)
  BY <1>3, LenProperties
<1>5. \A k \in 1..Len(u) : u[k].start < u[k].end
  <2> SUFFICES ASSUME NEW k \in 1..Len(u) PROVE u[k].start < u[k].end
    OBVIOUS
  <2>1. CASE k <= Len(a)
    BY <1>1, <1>2, <1>3, <2>1
  <2>2. CASE ~(k <= Len(a))
    <3>1. k - Len(a) \in 1..Len(b) /\ u[k] = b[k - Len(a)]
      BY <1>2, <1>3, <2>2
    <3> QED
      BY <1>1, <3>1
  <2> QED
    BY <2>1, <2>2
<1>6. ASSUME NEW k \in 1..Len(a) PROVE a[k] \in Range(u)
  <2>1. k \in 1..Len(u) /\ u[k] = a[k]
    BY <1>2, <1>3
  <2> QED
    BY <1>4, <2>1 DEF Range
<1>7. ASSUME NEW k \in 1..Len(b) PROVE b[k] \in Range(u)
  <2>1. Len(a) + k \in 1..Len(u) /\ u[Len(a) + k] = b[k]
    BY <1>2, <1>3
  <2> QED
    BY <1>4, <2>1 DEF Range
<1>8. Range(a) \subseteq Range(u) /\ Range(b) \subseteq Range(u)
  BY <1>2, <1>6, <1>7 DEF Range
<1> QED
  BY <1>3, <1>5, <1>8 DEF EventsLast, u

\* Only what a repair leaves in place has to be looked at.
LEMMA StaysInPlace ==
  ASSUME NEW q, NEW tl, IsTimeline(tl), NEW t,
         \A k \in 1..Len(tl) : Activity(tl[k]) /\ tl[k].place \in q.required => tl[k] \in Range(t)
  PROVE  KeepsStays(q, tl, t)
<1>1. DOMAIN tl = 1..Len(tl)
  BY EventFacts
<1> QED
  BY <1>1 DEF KeepsStays, Range

LEMMA MoreCalls ==
  ASSUME NEW q, NEW tl, NEW s, Attempt(q, tl, s), NEW n
  PROVE  Attempt(q, tl, [s EXCEPT !.calls = n])
<1> DEFINE u == [s EXCEPT !.calls = n]
<1>1. s = [calls |-> s.calls, repairs |-> s.repairs, raised |-> s.raised]
  BY DEF Attempt
<1>2. u = [calls |-> n, repairs |-> s.repairs, raised |-> s.raised]
  BY <1>1
<1>3. u = [calls |-> u.calls, repairs |-> u.repairs, raised |-> u.raised]
  BY <1>2
<1>4. u.repairs = s.repairs
  BY <1>2
<1> HIDE DEF u
<1>5. Attempt(q, tl, u)
  BY <1>3, <1>4 DEF Attempt
<1> QED
  BY <1>5 DEF u

LEMMA TaxiIsGood ==
  ASSUME NEW q, IsRequest(q), NEW tl, IsTimeline(tl), NEW open, NEW i \in Transfers(tl),
         NEW modes, NEW s, Attempt(q, tl, s)
  PROVE  Attempt(q, tl, TaxiInstead(q, tl, open, i, modes, s))
<1> DEFINE at == tl[i].start + q.pickup
           leg == <<FromOf(tl, i), ToOf(tl, i)>>
           e == RouteForMode(q, leg, at, "taxi")
           u == [s EXCEPT !.calls = @ + 1]
           called == Buffer("pickup", tl[i].start, at, FromOf(tl, i))
           later == [tl EXCEPT ![i].start = at]
           ride == Replaced(later, i, e)
           t == InsertAt(ride, i, called)
           none == tl[i].mode # "bus" \/ "taxi" \notin Range(modes) \/ at >= tl[i].end
<1>1. TaxiInstead(q, tl, open, i, modes, s) =
        IF none THEN s
        ELSE IF e = NoEvidence THEN u
        ELSE IF q.pickup = 0 THEN [u EXCEPT !.raised = TRUE]
        ELSE Tried(q, open, u, "TAXI_AFTER_BUS_TIMEOUT", i, t)
  BY Zenon DEF TaxiInstead
<1>2. q.pickup \in Nat /\ q.pickup > 0
  BY DEF IsRequest
<1>3. Attempt(q, tl, u)
  <2> DEFINE n == s.calls + 1
  <2>1. u = [s EXCEPT !.calls = n]
    OBVIOUS
  <2> HIDE DEF n, u
  <2> QED
    BY <2>1, MoreCalls
<1>4. ASSUME ~none, e # NoEvidence PROVE Attempt(q, tl, Tried(q, open, u, "TAXI_AFTER_BUS_TIMEOUT", i, t))
  <2>1. /\ i \in 1..Len(tl) /\ leg \in Legs /\ tl[i].start \in Nat
        /\ tl[i].type = "transfer" /\ ~Activity(tl[i])
    BY LegOfTransfer
  <2>2. /\ Len(tl) \in Nat /\ DOMAIN tl = 1..Len(tl) /\ tl \in Seq(TimelineEvent)
        /\ \A j \in 1..Len(tl) :
             tl[j] \in TimelineEvent /\ tl[j].end \in Nat /\ tl[j].start < tl[j].end
        /\ FromOf(tl, i) \in {Start} \cup Places
    BY EventFacts
  <2>3. at \in Nat /\ tl[i].start < at /\ at < tl[i].end
    BY <1>2, <1>4, <2>1, <2>2
  <2> HIDE DEF at
  <2>4. e.mode \in Modes /\ e.walked \in Nat /\ e.ride \in Ride
    <3> HIDE DEF leg
    <3> QED
      BY <1>4, <2>1, <2>3, EvidenceFacts DEF Travels
  <2> HIDE DEF e
  <2>5. /\ EventsLast(later) /\ Len(later) = Len(tl)
        /\ \A j \in 1..Len(tl) : j # i => later[j] = tl[j]
    <3> DEFINE f == [tl[i] EXCEPT !.start = at]
    <3>1. f \in TimelineEvent /\ f.start < f.end
      <4>1. tl[i] \in TimelineEvent
        BY <2>1, <2>2
      <4> QED
        BY <2>3, <4>1 DEF TimelineEvent
    <3>2. later = [tl EXCEPT ![i] = f]
      OBVIOUS
    <3> HIDE DEF f, later
    <3>3. /\ later \in Seq(TimelineEvent) /\ Len(later) = Len(tl)
          /\ \A j \in 1..Len(tl) : later[j] = IF j = i THEN f ELSE tl[j]
      BY <2>1, <2>2, <3>1, <3>2, ExceptSeq
    <3>4. \A j \in 1..Len(later) : later[j].start < later[j].end
      BY <2>2, <3>1, <3>3
    <3> QED
      BY <3>3, <3>4 DEF EventsLast
  <2> HIDE DEF later
  <2>6. /\ EventsLast(ride) /\ Len(ride) = Len(tl)
        /\ \A j \in 1..Len(tl) : j # i => ride[j] = tl[j]
    BY <2>1, <2>4, <2>5, ReplacedFacts
  <2> HIDE DEF ride
  <2>7. called \in TimelineEvent /\ called.start < called.end
    BY <2>1, <2>2, <2>3 DEF Buffer, Event, TimelineEvent, NoRide, Ride
  <2> HIDE DEF called
  <2> DEFINE a == SubSeq(ride, 1, i - 1)
             b == SubSeq(ride, i, Len(ride))
  <2>8. /\ EventsLast(a) /\ \A k \in 1..(i - 1) : ride[k] \in Range(a)
        /\ EventsLast(b) /\ \A k \in i..Len(tl) : ride[k] \in Range(b)
    <3>1. i - 1 \in 0..Len(ride) /\ i \in 1..(Len(ride) + 1) /\ 1 \in 1..(Len(ride) + 1)
          /\ Len(ride) \in 0..Len(ride)
      BY <2>1, <2>2, <2>6
    <3> QED
      BY <2>6, <3>1, PartOfEvents
  <2>9. t = a \o <<called>> \o b
    BY DEF InsertAt
  <2> HIDE DEF a, b, t
  <2>10. EventsLast(a \o <<called>>) /\ Range(a) \subseteq Range(a \o <<called>>)
    BY <2>7, <2>8, OneEvent, JoinedEvents
  <2>11. EventsLast(t) /\ Range(a) \subseteq Range(t) /\ Range(b) \subseteq Range(t)
    BY <2>8, <2>9, <2>10, JoinedEvents
  <2>12. ASSUME NEW k \in 1..Len(tl), Activity(tl[k]) /\ tl[k].place \in q.required
         PROVE  tl[k] \in Range(t)
    <3>1. k # i
      BY <2>1, <2>12
    <3>2. ride[k] = tl[k]
      BY <2>6, <3>1
    <3>3. k \in 1..(i - 1) \/ k \in i..Len(tl)
      BY <2>1, <2>2
    <3> QED
      BY <2>8, <2>11, <3>2, <3>3
  <2>13. KeepsStays(q, tl, t)
    BY <2>12, StaysInPlace
  <2> QED
    BY <1>3, <2>11, <2>13, TriedIsGood
<1> HIDE DEF none, e, u, t
<1>5. CASE none
  BY <1>1, <1>5
<1>6. CASE ~none /\ e = NoEvidence
  BY <1>1, <1>3, <1>6
<1>7. CASE ~none /\ e # NoEvidence
  BY <1>1, <1>2, <1>4, <1>7
<1> QED
  BY <1>5, <1>6, <1>7

\* The last of the transfers before an event.
LEMMA MaxOfNaturals ==
  ASSUME NEW n \in Nat, NEW S \in SUBSET (1..n), S # {}
  PROVE  Max(S) \in S /\ \A x \in S : x <= Max(S)
<1> DEFINE T == {n - x : x \in S}
<1>1. T \in SUBSET Nat /\ T # {}
  <2>1. \A x \in S : x \in 1..n
    OBVIOUS
  <2>2. \A x \in S : n - x \in Nat
    BY <2>1
  <2>3. PICK x : x \in S
    OBVIOUS
  <2>4. n - x \in T
    BY <2>3
  <2> QED
    BY <2>2, <2>4
<1>2. PICK y \in T : \A z \in T : y <= z
  <2> HIDE DEF T
  <2> QED
    BY <1>1, MinOfNaturals
<1>3. PICK m \in S : y = n - m
  BY <1>2
<1>4. \A x \in S : m >= x
  BY <1>2, <1>3
<1>5. Max(S) \in S /\ \A x \in S : Max(S) >= x
  BY <1>4 DEF Max
<1> QED
  BY <1>5

LEMMA SkipIsGood ==
  ASSUME NEW q, IsRequest(q), NEW tl, IsTimeline(tl), NEW open, NEW i \in Transfers(tl),
         NEW s, Attempt(q, tl, s)
  PROVE  Attempt(q, tl, SkipBefore(q, tl, open, i, s))
<1> DEFINE inbound == {j \in Transfers(tl) : j <= i - 2}
           j == Max(inbound)
           leg == <<FromOf(tl, j), ToOf(tl, i)>>
           e == BestRoute(q, leg, tl[j].start)
           u == [s EXCEPT !.calls = @ + 1]
           other == Replaced(tl, j, e)[j]
           bridge == [other EXCEPT !.end = tl[i].end]
           t == SubSeq(tl, 1, j - 1) \o <<bridge>> \o SubSeq(tl, i + 1, Len(tl))
           none == ~Optional(q, tl, i) \/ inbound = {}
<1>1. SkipBefore(q, tl, open, i, s) =
        IF none THEN s
        ELSE IF e = NoEvidence \/ e.mode = "taxi" THEN u
        ELSE Tried(q, open, u, "SKIP_OPTIONAL_ACTIVITY", i - 1, t)
  BY Zenon DEF SkipBefore
<1>2. Attempt(q, tl, u)
  <2> DEFINE n == s.calls + 1
  <2>1. u = [s EXCEPT !.calls = n]
    OBVIOUS
  <2> HIDE DEF n, u
  <2> QED
    BY <2>1, MoreCalls
<1>3. ASSUME ~none, e # NoEvidence PROVE Attempt(q, tl, Tried(q, open, u, "SKIP_OPTIONAL_ACTIVITY", i - 1, t))
  <2>1. /\ i \in 1..Len(tl) /\ tl[i].type = "transfer" /\ ~Activity(tl[i])
    BY LegOfTransfer
  <2>2. /\ Len(tl) \in Nat /\ DOMAIN tl = 1..Len(tl) /\ tl \in Seq(TimelineEvent)
        /\ \A k \in 1..Len(tl) :
             /\ tl[k] \in TimelineEvent /\ tl[k].start \in Nat /\ tl[k].end \in Nat
             /\ tl[k].start < tl[k].end
        /\ \A k, l \in 1..Len(tl) : k < l => tl[k].end <= tl[l].start
        /\ Transfers(tl) \subseteq 1..Len(tl)
        /\ FromOf(tl, i) \in {Start} \cup Places /\ ToOf(tl, i) \in {End} \cup Places
    BY EventFacts
  <2>3. i > 1 /\ Activity(tl[i - 1]) /\ tl[i - 1].place \notin q.required
    BY <1>3 DEF Optional
  <2>4. j \in inbound /\ \A k \in inbound : k <= j
    <3>1. inbound \in SUBSET (1..Len(tl)) /\ inbound # {}
      BY <1>3, <2>2
    <3> HIDE DEF inbound
    <3> QED
      BY <2>2, <3>1, MaxOfNaturals
  <2> HIDE DEF j
  <2>5. j \in Transfers(tl) /\ j \in 1..Len(tl) /\ j <= i - 2
        /\ \A k \in Transfers(tl) : k <= i - 2 => k <= j
    BY <2>2, <2>4
  <2>6. ~Activity(tl[j]) /\ FromOf(tl, j) \in {Start} \cup Places
    BY <2>5, LegOfTransfer, EventFacts
  <2>7. leg \in Legs
    BY <2>2, <2>6 DEF Legs
  <2>8. e.mode \in Modes /\ e.walked \in Nat /\ e.ride \in Ride
    <3>1. tl[j].start \in Nat
      BY <2>2, <2>5
    <3> HIDE DEF leg
    <3> QED
      BY <1>3, <2>7, <3>1, BestFacts DEF Travels
  <2> HIDE DEF e
  <2>9. other \in TimelineEvent /\ other.start = tl[j].start
    <3>1. tl[j] \in TimelineEvent
      BY <2>2, <2>5
    <3>2. other = [tl[j] EXCEPT !.mode = e.mode, !.ride = e.ride, !.walked = e.walked,
                                !.pickup = NoTime]
      BY <2>2, <2>5 DEF Replaced
    <3> HIDE DEF other
    <3> QED
      BY <2>8, <3>1, <3>2 DEF TimelineEvent, Modes
  <2> HIDE DEF other
  <2>10. bridge \in TimelineEvent /\ bridge.start < bridge.end
    <3>1. tl[i].end \in Nat /\ bridge.end = tl[i].end /\ bridge.start = tl[j].start
          /\ bridge \in TimelineEvent
      BY <2>1, <2>2, <2>9 DEF TimelineEvent
    <3>2. tl[j].start < tl[j].end /\ tl[j].end <= tl[i].start /\ tl[i].start < tl[i].end
          /\ tl[j].start \in Nat /\ tl[j].end \in Nat /\ tl[i].start \in Nat
      BY <2>1, <2>2, <2>5
    <3> QED
      BY <3>1, <3>2
  <2> HIDE DEF bridge
  <2> DEFINE a == SubSeq(tl, 1, j - 1)
             b == SubSeq(tl, i + 1, Len(tl))
  <2>11. /\ EventsLast(a) /\ \A k \in 1..(j - 1) : tl[k] \in Range(a)
         /\ EventsLast(b) /\ \A k \in (i + 1)..Len(tl) : tl[k] \in Range(b)
    <3>1. j - 1 \in 0..Len(tl) /\ i + 1 \in 1..(Len(tl) + 1) /\ 1 \in 1..(Len(tl) + 1)
          /\ Len(tl) \in 0..Len(tl)
      BY <2>1, <2>2, <2>5
    <3> QED
      BY <3>1, TimelineLasts, PartOfEvents
  <2>12. t = a \o <<bridge>> \o b
    OBVIOUS
  <2> HIDE DEF a, b, t
  <2>13. EventsLast(a \o <<bridge>>) /\ Range(a) \subseteq Range(a \o <<bridge>>)
    BY <2>10, <2>11, OneEvent, JoinedEvents
  <2>14. EventsLast(t) /\ Range(a) \subseteq Range(t) /\ Range(b) \subseteq Range(t)
    BY <2>11, <2>12, <2>13, JoinedEvents
  <2>15. ASSUME StaysAreApart(tl), NEW k \in 1..Len(tl),
                Activity(tl[k]) /\ tl[k].place \in q.required
         PROVE  tl[k] \in Range(t)
    <3>1. k # i /\ k # j /\ k # i - 1
      BY <2>1, <2>3, <2>6, <2>15
    <3>2. ~(j < k /\ k < i)
      <4> SUFFICES ASSUME j < k, k < i PROVE FALSE
        OBVIOUS
      <4>1. i - 1 \in 1..Len(tl) /\ k < i - 1
        BY <2>1, <2>2, <2>3, <3>1
      <4>2. PICK l \in Transfers(tl) : k < l /\ l < i - 1
        BY <2>2, <2>3, <2>15, <4>1 DEF StaysAreApart
      <4>3. l \in Nat /\ l <= i - 2 /\ l > j
        BY <2>1, <2>2, <2>5, <4>2
      <4> QED
        BY <2>5, <4>3
    <3>3. k \in 1..(j - 1) \/ k \in (i + 1)..Len(tl)
      BY <2>1, <2>2, <2>5, <3>1, <3>2
    <3> QED
      BY <2>11, <2>14, <3>3
  <2>16. StaysAreApart(tl) => KeepsStays(q, tl, t)
    BY <2>15, StaysInPlace
  <2> QED
    BY <1>2, <2>14, <2>16, TriedIsGood
<1> HIDE DEF none, e, u, t
<1>4. CASE none
  BY <1>1, <1>4
<1>5. CASE ~none /\ (e = NoEvidence \/ e.mode = "taxi")
  BY <1>1, <1>2, <1>5
<1>6. CASE ~none /\ ~(e = NoEvidence \/ e.mode = "taxi")
  BY <1>1, <1>3, <1>6
<1> QED
  BY <1>4, <1>5, <1>6

\* Whatever is offered for the first leg that is short of time is a good offer.
LEMMA RepairedIsGood ==
  ASSUME NEW q, IsRequest(q), NEW tl, IsTimeline(tl), NEW open,
         NEW alts \in [DOMAIN tl -> Seq(Modes)], NEW s, Attempt(q, tl, s)
  PROVE  Attempt(q, tl, Repaired(q, tl, open, alts, s))
<1> DEFINE late == {i \in Transfers(tl) : FoundFor(q, tl, i) # NoEvidence
                                          /\ TimelineSlack(q, tl, i) < 0}
           i == Min(late)
           shorter == ShortenBefore(q, tl, open, i, s)
           faster == UseFaster(q, tl, open, i, alts[i], shorter)
           taxi == TaxiInstead(q, tl, open, i, alts[i], faster)
<1>1. Repaired(q, tl, open, alts, s) =
        IF late = {} THEN s ELSE SkipBefore(q, tl, open, i, taxi)
  BY Zenon DEF Repaired
<1>2. ASSUME late # {} PROVE Attempt(q, tl, SkipBefore(q, tl, open, i, taxi))
  <2>1. i \in late
    <3>1. late \in SUBSET Nat
      BY EventFacts
    <3> HIDE DEF late
    <3> QED
      BY <1>2, <3>1, MinOfNaturals
  <2> HIDE DEF i
  <2>2. i \in Transfers(tl) /\ FoundFor(q, tl, i) # NoEvidence /\ TimelineSlack(q, tl, i) < 0
    BY <2>1
  <2>3. alts[i] \in Seq(Modes)
    BY <2>2 DEF Transfers
  <2> HIDE DEF late, shorter, faster, taxi
  <2>4. Attempt(q, tl, shorter)
    BY <2>2, ShortenIsGood DEF shorter
  <2>5. Attempt(q, tl, faster)
    BY <2>2, <2>3, <2>4, FasterIsGood DEF faster
  <2>6. Attempt(q, tl, taxi)
    BY <2>2, <2>5, TaxiIsGood DEF taxi
  <2> QED
    BY <2>2, <2>6, SkipIsGood
<1> HIDE DEF late, i, taxi
<1> QED
  BY <1>1, <1>2

\* The answer to a timeline.
LEMMA AnswerIsGood ==
  ASSUME NEW q, IsRequest(q), NEW tl, IsTimeline(tl), NEW open,
         NEW alts \in [DOMAIN tl -> Seq(Modes)]
  PROVE  GoodOffers(q, tl, EvaluatedTimeline(q, tl, open, alts).repairs)
<1> DEFINE v == TimelineVerdict(q, tl, open)
           none == [calls |-> Cardinality(Transfers(tl)), repairs |-> <<>>, raised |-> FALSE]
           s == IF v.status = "infeasible" THEN Repaired(q, tl, open, alts, none) ELSE none
<1>1. EvaluatedTimeline(q, tl, open, alts) =
        [verdict |-> v, calls |-> s.calls, repairs |-> s.repairs, raised |-> s.raised]
  BY Zenon DEF EvaluatedTimeline, AnswerFor, AnswerWith
<1>2. Attempt(q, tl, none)
  <2>1. none = [calls |-> none.calls, repairs |-> none.repairs, raised |-> none.raised]
    OBVIOUS
  <2>2. none.repairs = <<>>
    OBVIOUS
  <2> HIDE DEF none
  <2> QED
    BY <2>1, <2>2, NoOffer DEF Attempt
<1> HIDE DEF v, none
<1>3. Attempt(q, tl, s)
  <2>1. Attempt(q, tl, Repaired(q, tl, open, alts, none))
    BY <1>2, RepairedIsGood
  <2> QED
    BY <1>2, <2>1
<1> HIDE DEF s
<1>4. GoodOffers(q, tl, s.repairs)
  BY <1>3 DEF Attempt
<1> QED
  BY <1>1, <1>4

--------------------------------------------------------------------------------
\* A day that goes as planned: what a verdict that passes says of a timeline.

\* A timeline that was found feasible, with transfers as the generator plans them.
GoodPlan(q, tl, open) ==
  /\ IsRequest(q) /\ IsTimeline(tl) /\ open \in Nat
  /\ Passes(TimelineVerdict(q, tl, open)) /\ PlannedAsFound(q, tl)

\* A walk and a drive take as long whenever they begin.
LEMMA AnyTime ==
  ASSUME NEW q, IsRequest(q), NEW leg \in Legs, NEW at \in Nat, NEW then \in Nat,
         NEW mode, mode = "bus" => at = then
  PROVE  RouteForMode(q, leg, at, mode) = RouteForMode(q, leg, then, mode)
<1>1. CASE mode = "bus"
  BY <1>1
<1>2. CASE mode # "bus"
  <2>1. RoutesBy(q, "balanced", leg, at, mode) = RoutesBy(q, "balanced", leg, then, mode)
    <3>1. CASE mode \notin q.modes
      BY <3>1 DEF RoutesBy
    <3>2. CASE mode \in q.modes
      <4>1. mode = "walk" \/ mode = "taxi"
        BY <1>2, <3>2 DEF IsRequest, Modes
      <4> QED
        BY <3>2, <4>1 DEF RoutesBy
    <3> QED
      BY <3>1, <3>2
  <2>2. ASSUME NEW r \in RoutesBy(q, "balanced", leg, at, mode)
        PROVE  RouteEvidence(q, leg, at, r) = RouteEvidence(q, leg, then, r)
    <3>1. r.mode # "bus"
      BY <1>2, RouteFacts
    <3> QED
      BY <3>1, Zenon DEF RouteEvidence
  <2> DEFINE routes == RoutesBy(q, "balanced", leg, at, mode)
             r == CHOOSE x \in routes : TRUE
  <2>3. routes # {} => r \in routes
    OBVIOUS
  <2>4. routes # {} => RouteEvidence(q, leg, at, r) = RouteEvidence(q, leg, then, r)
    BY <2>2, <2>3
  <2>5. EvidenceOf(q, leg, at, routes) = EvidenceOf(q, leg, then, routes)
    <3> HIDE DEF routes
    <3> QED
      BY <2>4, Zenon DEF EvidenceOf
  <2> QED
    BY <2>1, <2>5, Zenon DEF RouteForMode
<1> QED
  BY <1>1, <1>2

\* Where no transfer lies between two events, the second is where the first ends.
LEMMA ChainOfPlaces ==
  ASSUME NEW tl, IsTimeline(tl), Continuous(tl),
         NEW i \in 1..Len(tl), NEW k \in 1..Len(tl), i < k,
         \A j \in Transfers(tl) : ~(i < j /\ j < k)
  PROVE  PlaceBefore(tl, k) = PlaceAfter(tl, i)
<1> DEFINE Q == {n \in Nat : i + 1 + n <= k => PlaceBefore(tl, i + 1 + n) = PlaceAfter(tl, i)}
<1>1. Len(tl) \in Nat /\ DOMAIN tl = 1..Len(tl)
  BY EventFacts
<1>2. \A j \in 1..(Len(tl) - 1) : PlaceAfter(tl, j) = PlaceBefore(tl, j + 1)
  BY DEF Continuous
<1>3. 0 \in Q
  BY <1>1, <1>2
<1>4. ASSUME NEW n \in Q PROVE n + 1 \in Q
  <2> SUFFICES ASSUME i + 1 + (n + 1) <= k
               PROVE  PlaceBefore(tl, i + 1 + (n + 1)) = PlaceAfter(tl, i)
    OBVIOUS
  <2> DEFINE j == i + 1 + n
  <2>1. j \in 1..(Len(tl) - 1) /\ i < j /\ j < k /\ i + 1 + (n + 1) = j + 1
    BY <1>1
  <2>2. PlaceBefore(tl, j) = PlaceAfter(tl, i)
    BY <2>1
  <2> HIDE DEF j
  <2>3. tl[j].type # "transfer"
    BY <1>1, <2>1 DEF Transfers
  <2>4. PlaceBefore(tl, j) = PlaceAfter(tl, j)
    BY <2>3 DEF PlaceBefore, PlaceAfter
  <2> QED
    BY <1>2, <2>1, <2>2, <2>4
<1>5. Q = Nat
  <2>1. Q \in SUBSET Nat
    OBVIOUS
  <2> HIDE DEF Q
  <2> QED
    BY <1>3, <1>4, <2>1, SetOfNaturals
<1> DEFINE m == k - i - 1
<1>6. m \in Nat /\ i + 1 + m = k
  OBVIOUS
<1>7. m \in Q
  BY <1>5, <1>6
<1> HIDE DEF m
<1> QED
  BY <1>6, <1>7

--------------------------------------------------------------------------------
\* What is left of a plan, as a day of activities.

\* The activities after an event of the plan.
ListsStays(tl, low, order) ==
  /\ low \in 0..Len(tl) /\ order \in Seq(1..Len(tl)) /\ order # <<>>
  /\ \A k \in 1..Len(order) : low < order[k] /\ Activity(tl[order[k]])
  /\ \A k, l \in 1..Len(order) : k < l => order[k] < order[l]
  /\ \A i \in (low + 1)..Len(tl) : Activity(tl[i]) => \E k \in 1..Len(order) : order[k] = i

\* The events between which a leg of the day lies, and the transfers of the leg.
LegAfter(low, order, k) == IF k = 1 THEN low ELSE order[k - 1]
LegBefore(tl, order, k) == IF k > Len(order) THEN Len(tl) + 1 ELSE order[k]
Crossing(tl, low, order, k) ==
  {i \in Transfers(tl) : LegAfter(low, order, k) < i /\ i < LegBefore(tl, order, k)}

\* When the plan has a leg of the day over.
PlannedEnd(tl, d, k) == IF k > Len(d.acts) THEN tl[Len(tl)].end ELSE d.acts[k].start

\* d is what is left of the plan after the event low: the first stay may have begun.
IsRest(tl, low, order, d) ==
  /\ IsDay(d) /\ ListsStays(tl, low, order) /\ Len(d.acts) = Len(order)
  /\ \A k \in 1..Len(order) :
       /\ d.acts[k].place = tl[order[k]].place /\ d.acts[k].end = tl[order[k]].end
       /\ tl[order[k]].start <= d.acts[k].start
       /\ d.acts[k].start = tl[order[k]].start \/ (k = 1 /\ order[1] = low + 1)
  /\ tl[low + 1].start <= d.at /\ d.at <= d.acts[1].start
  /\ order[1] = low + 1 => d.at = d.acts[1].start
  /\ Crossing(tl, low, order, 1) = {} => d.from = d.acts[1].place
  /\ \A i \in Crossing(tl, low, order, 1) :
       /\ d.from = FromOf(tl, i) /\ d.at <= tl[i].start
       /\ tl[i].mode = "bus" => d.at = tl[i].start
  /\ \A k \in 1..(Len(order) + 1) : \A i \in Crossing(tl, low, order, k) :
       LockedMode(d, k) = tl[i].mode

\* Legs follow one another, and no activity lies in one.
LEMMA LegsOfThePlan ==
  ASSUME NEW tl, IsTimeline(tl), NEW low, NEW order, ListsStays(tl, low, order)
  PROVE  /\ Len(order) \in Nat \ {0} /\ Len(tl) \in Nat /\ low \in Nat /\ low < Len(tl)
         /\ \A k \in 1..Len(order) : order[k] \in 1..Len(tl)
         /\ \A k \in 1..(Len(order) + 1) :
              /\ LegAfter(low, order, k) \in low..Len(tl)
              /\ LegBefore(tl, order, k) \in (low + 1)..(Len(tl) + 1)
              /\ LegAfter(low, order, k) < LegBefore(tl, order, k)
              /\ \A i \in 1..Len(tl) : LegAfter(low, order, k) < i /\ i < LegBefore(tl, order, k)
                   => ~Activity(tl[i])
         /\ \A k, l \in 1..(Len(order) + 1) : k < l =>
              LegBefore(tl, order, k) <= LegAfter(low, order, l)
<1> DEFINE n == Len(order)
           L == Len(tl)
<1>1. L \in Nat /\ low \in 0..L
  BY EventFacts DEF ListsStays
<1>2. n \in Nat /\ n # 0 /\ \A k \in 1..n : order[k] \in 1..L
  <2>1. order \in Seq(1..L) /\ order # <<>>
    BY DEF ListsStays
  <2> QED
    BY <2>1, ElementOfSeq
<1>3. \A k \in 1..n : low < order[k]
  BY DEF ListsStays
<1>4. \A k, l \in 1..n : k < l => order[k] < order[l]
  BY DEF ListsStays
<1>5. \A i \in (low + 1)..L : Activity(tl[i]) => \E k \in 1..n : order[k] = i
  BY DEF ListsStays
<1>6. low < L
  BY <1>1, <1>2, <1>3
<1> HIDE DEF n, L
<1>7. ASSUME NEW k \in 1..(n + 1)
      PROVE  /\ LegAfter(low, order, k) \in low..L
             /\ LegBefore(tl, order, k) \in (low + 1)..(L + 1)
             /\ LegAfter(low, order, k) < LegBefore(tl, order, k)
  <2>1. k # 1 => k - 1 \in 1..n
    BY <1>2
  <2>2. ~(k > n) => k \in 1..n
    BY <1>2
  <2> QED
    BY <1>1, <1>2, <1>3, <1>4, <1>6, <2>1, <2>2, SMTT(30) DEF LegAfter, LegBefore, n, L
<1>8. ASSUME NEW k \in 1..(n + 1), NEW i \in 1..L,
             LegAfter(low, order, k) < i, i < LegBefore(tl, order, k), Activity(tl[i])
      PROVE  FALSE
  <2>1. i \in (low + 1)..L
    BY <1>1, <1>7, <1>8
  <2>2. PICK j \in 1..n : order[j] = i
    BY <1>5, <1>8, <2>1
  <2>3. CASE j < k
    <3>1. k # 1 /\ k - 1 \in 1..n /\ LegAfter(low, order, k) = order[k - 1]
      BY <1>2, <2>3 DEF LegAfter
    <3>2. order[j] <= order[k - 1]
      BY <1>2, <1>4, <2>3, <3>1
    <3> QED
      BY <1>2, <1>8, <2>2, <3>1, <3>2
  <2>4. CASE ~(j < k)
    <3>1. k \in 1..n /\ LegBefore(tl, order, k) = order[k]
      BY <1>2, <2>4 DEF LegBefore, n
    <3>2. order[k] <= order[j]
      BY <1>2, <1>4, <2>4, <3>1
    <3> QED
      BY <1>2, <1>8, <2>2, <3>1, <3>2
  <2> QED
    BY <2>3, <2>4
<1>9. ASSUME NEW k \in 1..(n + 1), NEW l \in 1..(n + 1), k < l
      PROVE  LegBefore(tl, order, k) <= LegAfter(low, order, l)
  <2>1. l # 1 /\ l - 1 \in 1..n /\ k \in 1..n /\ k <= l - 1
    BY <1>2, <1>9
  <2>2. LegBefore(tl, order, k) = order[k] /\ LegAfter(low, order, l) = order[l - 1]
    BY <1>2, <2>1 DEF LegBefore, LegAfter, n
  <2> QED
    BY <1>2, <1>4, <2>1, <2>2
<1> QED
  BY <1>1, <1>2, <1>6, <1>7, <1>8, <1>9 DEF n, L

\* A leg has one transfer at most.
LEMMA OneCrossing ==
  ASSUME NEW q, NEW tl, IsTimeline(tl), PlannedAsFound(q, tl),
         NEW low, NEW order, ListsStays(tl, low, order), NEW k \in 1..(Len(order) + 1),
         NEW i \in Crossing(tl, low, order, k), NEW j \in Crossing(tl, low, order, k)
  PROVE  i = j
<1>1. /\ i \in Transfers(tl) /\ j \in Transfers(tl) /\ i \in 1..Len(tl) /\ j \in 1..Len(tl)
      /\ LegAfter(low, order, k) < i /\ i < LegBefore(tl, order, k)
      /\ LegAfter(low, order, k) < j /\ j < LegBefore(tl, order, k)
  BY EventFacts DEF Crossing
<1>2. ASSUME NEW a \in Transfers(tl), NEW b \in Transfers(tl), a < b,
             a \in 1..Len(tl), b \in 1..Len(tl),
             LegAfter(low, order, k) < a, b < LegBefore(tl, order, k)
      PROVE  FALSE
  <2>1. PICK c \in a..b : Activity(tl[c])
    BY <1>2 DEF PlannedAsFound
  <2>2. c \in 1..Len(tl) /\ a <= c /\ c <= b
    BY <1>2
  <2>3. /\ LegAfter(low, order, k) \in Int /\ LegBefore(tl, order, k) \in Int
        /\ \A m \in 1..Len(tl) : LegAfter(low, order, k) < m /\ m < LegBefore(tl, order, k)
                   => ~Activity(tl[m])
    BY LegsOfThePlan
  <2>4. LegAfter(low, order, k) < c /\ c < LegBefore(tl, order, k)
    BY <1>2, <2>2, <2>3
  <2> QED
    BY <2>1, <2>2, <2>3, <2>4
<1>3. ~(i < j) /\ ~(j < i)
  BY <1>1, <1>2
<1> QED
  BY <1>1, <1>3

\* The times of the days that are left of a plan.
LEMMA RestTimes ==
  ASSUME NEW tl, IsTimeline(tl), Gapless(tl), NEW low, NEW order, NEW d, IsRest(tl, low, order, d),
         NEW k \in 1..(Len(order) + 1)
  PROVE  /\ LeavesAt(d, k) \in Nat /\ PlannedEnd(tl, d, k) \in Nat
         /\ LeavesAt(d, k) <= PlannedEnd(tl, d, k)
         /\ LegAfter(low, order, k) < Len(tl) =>
              tl[LegAfter(low, order, k) + 1].start <= LeavesAt(d, k)
         /\ \A i \in Crossing(tl, low, order, k) :
              LeavesAt(d, k) <= tl[i].start /\ tl[i].end <= PlannedEnd(tl, d, k)
         /\ k <= Len(order) => PlannedEnd(tl, d, k) = d.acts[k].start
         /\ k > 1 => LeavesAt(d, k) = tl[order[k - 1]].end
<1> DEFINE n == Len(order)
           L == Len(tl)
<1>1. n \in Nat \ {0} /\ L \in Nat /\ low \in Nat /\ low < L /\ \A m \in 1..n : order[m] \in 1..L
  BY LegsOfThePlan DEF IsRest
<1>2. /\ \A m \in 1..L : tl[m].start \in Nat /\ tl[m].end \in Nat /\ tl[m].start < tl[m].end
      /\ \A i, j \in 1..L : i < j => tl[i].end <= tl[j].start
  BY EventFacts
<1>3. Len(d.acts) = n /\ IsDay(d) /\ d.at \in Nat
  BY DEF IsRest, IsDay
<1>4. \A m \in 1..n : /\ d.acts[m].start \in Nat /\ d.acts[m].end \in Nat
                      /\ d.acts[m].start < d.acts[m].end
  BY <1>3, ActsOfADay
<1>5. \A m \in 1..n : d.acts[m].end = tl[order[m]].end /\ tl[order[m]].start <= d.acts[m].start
  BY DEF IsRest
<1>6. /\ tl[low + 1].start <= d.at /\ d.at <= d.acts[1].start
      /\ \A i \in Crossing(tl, low, order, 1) : d.at <= tl[i].start
  BY DEF IsRest
<1>7. \A l, m \in 1..n : l < m => order[l] < order[m]
  BY DEF IsRest, ListsStays
<1> HIDE DEF n, L
<1>8. k > 1 => k - 1 \in 1..n /\ LeavesAt(d, k) = tl[order[k - 1]].end
               /\ LegAfter(low, order, k) = order[k - 1]
  BY <1>1, <1>3, <1>5 DEF LeavesAt, LegAfter, n
<1>9. k = 1 => LeavesAt(d, k) = d.at /\ LegAfter(low, order, k) = low
  BY DEF LeavesAt, LegAfter
<1>10. k <= n => k \in 1..n /\ PlannedEnd(tl, d, k) = d.acts[k].start
                 /\ LegBefore(tl, order, k) = order[k]
  BY <1>1, <1>3 DEF PlannedEnd, LegBefore, n
<1>11. ~(k <= n) => k = n + 1 /\ PlannedEnd(tl, d, k) = tl[L].end
  BY <1>1, <1>3 DEF PlannedEnd, n, L
<1>12. LeavesAt(d, k) \in Nat /\ PlannedEnd(tl, d, k) \in Nat
  BY <1>1, <1>2, <1>3, <1>4, <1>8, <1>9, <1>10, <1>11, SMTT(30)
<1>13. LeavesAt(d, k) <= PlannedEnd(tl, d, k)
  <2>1. CASE k = 1
    BY <1>1, <1>6, <1>9, <1>10, <2>1
  <2>2. CASE k > 1 /\ k <= n
    <3>1. order[k - 1] < order[k]
      BY <1>7, <1>8, <1>10, <2>2
    <3>2. tl[order[k - 1]].end <= tl[order[k]].start
      BY <1>1, <1>2, <1>8, <1>10, <2>2, <3>1
    <3> QED
      BY <1>1, <1>2, <1>4, <1>5, <1>8, <1>10, <2>2, <3>2, SMTT(30)
  <2>3. CASE k > 1 /\ ~(k <= n)
    <3>1. LeavesAt(d, k) = tl[order[n]].end /\ order[n] \in 1..L
      BY <1>1, <1>8, <1>11, <2>3
    <3>2. order[n] < L => tl[order[n]].end <= tl[L].start
      BY <1>1, <1>2, <3>1
    <3> QED
      BY <1>1, <1>2, <1>11, <2>3, <3>1, <3>2, SMTT(30)
  <2> QED
    BY <1>1, <2>1, <2>2, <2>3
<1>14. ASSUME LegAfter(low, order, k) < L
       PROVE  tl[LegAfter(low, order, k) + 1].start <= LeavesAt(d, k)
  <2>1. CASE k = 1
    BY <1>6, <1>9, <2>1
  <2>2. CASE k > 1
    <3>1. order[k - 1] \in 1..(L - 1)
      BY <1>1, <1>8, <1>14, <2>2
    <3>2. tl[order[k - 1]].end = tl[order[k - 1] + 1].start
      BY <3>1 DEF Gapless, L
    <3> QED
      BY <1>1, <1>2, <1>8, <2>2, <3>1, <3>2
  <2> QED
    BY <1>1, <2>1, <2>2
<1>15. ASSUME NEW i \in Crossing(tl, low, order, k)
       PROVE  LeavesAt(d, k) <= tl[i].start /\ tl[i].end <= PlannedEnd(tl, d, k)
  <2>1. i \in 1..L /\ LegAfter(low, order, k) < i /\ i < LegBefore(tl, order, k)
    BY EventFacts DEF Crossing, L
  <2>2. LeavesAt(d, k) <= tl[i].start
    <3>1. CASE k = 1
      BY <1>6, <1>9, <3>1
    <3>2. CASE k > 1
      <4>1. order[k - 1] \in 1..L /\ order[k - 1] < i
        BY <1>1, <1>8, <2>1, <3>2
      <4> QED
        BY <1>2, <1>8, <2>1, <3>2, <4>1
    <3> QED
      BY <1>1, <3>1, <3>2
  <2>3. CASE k <= n
    <3>1. order[k] \in 1..L /\ i < order[k]
      BY <1>1, <1>10, <2>1, <2>3
    <3>2. tl[i].end <= tl[order[k]].start
      BY <1>2, <2>1, <3>1
    <3>3. tl[order[k]].start <= d.acts[k].start
      BY <1>5, <1>10, <2>3
    <3> QED
      BY <1>2, <1>4, <1>10, <2>1, <2>2, <2>3, <3>1, <3>2, <3>3, SMTT(30)
  <2>4. CASE ~(k <= n)
    <3>1. i < L => tl[i].end <= tl[L].start
      BY <1>1, <1>2, <2>1
    <3> QED
      BY <1>1, <1>2, <1>11, <2>1, <2>2, <2>4, <3>1, SMTT(30)
  <2> QED
    BY <2>3, <2>4
<1> QED
  BY <1>8, <1>10, <1>12, <1>13, <1>14, <1>15 DEF n, L

\* An activity is no transfer.
LEMMA StaysInPlaces ==
  ASSUME NEW tl, NEW i, Activity(tl[i])
  PROVE  i \notin Transfers(tl) /\ PlaceAfter(tl, i) = tl[i].place /\ PlaceBefore(tl, i) = tl[i].place
<1>1. tl[i].type # "transfer"
  BY DEF Activity, Kinds
<1> QED
  BY <1>1 DEF Transfers, PlaceAfter, PlaceBefore

\* The legs that are left lead where the transfers of the plan do.
LEMMA RestPlaces ==
  ASSUME NEW q, NEW tl, IsTimeline(tl), NEW open, BoundaryComplete(q, tl, open), Continuous(tl),
         PlannedAsFound(q, tl), NEW low, NEW order, NEW d, IsRest(tl, low, order, d),
         NEW k \in 1..(Len(order) + 1)
  PROVE  /\ \A i \in Crossing(tl, low, order, k) : LegOf(d, k) = <<FromOf(tl, i), ToOf(tl, i)>>
         /\ Crossing(tl, low, order, k) = {} => LegOf(d, k)[1] = LegOf(d, k)[2]
<1> DEFINE n == Len(order)
           L == Len(tl)
           C == Crossing(tl, low, order, k)
           from == LegOf(d, k)[1]
           to == LegOf(d, k)[2]
<1>1. n \in Nat \ {0} /\ L \in Nat /\ low \in Nat /\ low < L /\ \A m \in 1..n : order[m] \in 1..L
  BY LegsOfThePlan DEF IsRest
<1>2. \A m \in 1..n : /\ order[m] \notin Transfers(tl)
                      /\ PlaceAfter(tl, order[m]) = d.acts[m].place
                      /\ PlaceBefore(tl, order[m]) = d.acts[m].place
  <2> SUFFICES ASSUME NEW m \in 1..n
               PROVE  /\ order[m] \notin Transfers(tl)
                      /\ PlaceAfter(tl, order[m]) = d.acts[m].place
                      /\ PlaceBefore(tl, order[m]) = d.acts[m].place
    OBVIOUS
  <2>1. Activity(tl[order[m]]) /\ d.acts[m].place = tl[order[m]].place
    BY DEF IsRest, ListsStays
  <2> QED
    BY <2>1, StaysInPlaces
<1>3. Len(d.acts) = n
  BY DEF IsRest
<1>4. \A l, m \in 1..n : l < m => order[l] < order[m]
  BY DEF IsRest, ListsStays
<1>5. Transfers(tl) \subseteq 1..L
  BY EventFacts
<1>6. ListsStays(tl, low, order)
  BY DEF IsRest
<1>7. /\ Transfers(tl) # {} /\ Max(Transfers(tl)) \in Transfers(tl)
      /\ \A j \in Transfers(tl) : j <= Max(Transfers(tl))
      /\ ToOf(tl, Max(Transfers(tl))) = End
  <2>1. Transfers(tl) # {} /\ ToOf(tl, Max(Transfers(tl))) = End
    BY DEF BoundaryComplete
  <2> QED
    BY <1>1, <1>5, <2>1, MaxOfNaturals
<1> HIDE DEF n, L
<1>8. \A i \in C : i \in Transfers(tl) /\ i \in 1..L /\ PlaceBefore(tl, i) = FromOf(tl, i)
                   /\ PlaceAfter(tl, i) = ToOf(tl, i)
  <2>1. \A i \in C : i \in Transfers(tl)
    BY DEF Crossing
  <2> QED
    BY <1>5, <2>1 DEF Transfers, PlaceBefore, PlaceAfter
<1>9. \A j \in Transfers(tl) : LegAfter(low, order, k) < j /\ j < LegBefore(tl, order, k) => j \in C
  BY DEF Crossing
<1>10. \A i \in C : LegAfter(low, order, k) < i /\ i < LegBefore(tl, order, k)
  BY DEF Crossing
<1>11. \A i, j \in C : i = j
  BY <1>6, OneCrossing
<1> HIDE DEF C
<1>12. k = 1 => from = d.from
  BY DEF LegOf
<1>13. k > 1 => k - 1 \in 1..n /\ from = d.acts[k - 1].place /\ LegAfter(low, order, k) = order[k - 1]
  BY <1>1 DEF LegOf, LegAfter, n
<1>14. k <= n => k \in 1..n /\ to = d.acts[k].place /\ LegBefore(tl, order, k) = order[k]
  BY <1>1, <1>3 DEF LegOf, LegBefore, n
<1>15. ~(k <= n) => k = n + 1 /\ to = End /\ LegBefore(tl, order, k) = L + 1
  BY <1>1, <1>3 DEF LegOf, LegBefore, n, L
<1>16. LegOf(d, k) = <<from, to>>
  BY DEF LegOf
<1> HIDE DEF from, to
<1>17. ASSUME NEW i \in C PROVE from = FromOf(tl, i)
  <2>1. CASE k = 1
    BY <1>12, <1>17, <2>1 DEF IsRest, C
  <2>2. CASE k > 1
    <3> DEFINE a == order[k - 1]
    <3>1. a \in 1..L /\ i \in 1..L /\ a < i /\ i < LegBefore(tl, order, k)
      BY <1>1, <1>8, <1>10, <1>13, <2>2
    <3>2. ASSUME NEW j \in Transfers(tl), a < j, j < i PROVE FALSE
      <4>1. LegBefore(tl, order, k) \in Int
        BY <1>1, <1>14, <1>15
      <4>2. j \in C
        BY <1>5, <1>9, <1>13, <2>2, <3>1, <3>2, <4>1
      <4> QED
        BY <1>5, <1>11, <3>1, <3>2, <4>2
    <3>3. PlaceBefore(tl, i) = PlaceAfter(tl, a)
      <4> HIDE DEF a
      <4> QED
        BY <3>1, <3>2, ChainOfPlaces DEF L
    <3> QED
      BY <1>2, <1>8, <1>13, <2>2, <3>3
  <2> QED
    BY <1>1, <2>1, <2>2
<1>18. ASSUME NEW i \in C PROVE to = ToOf(tl, i)
  <2>1. CASE k <= n
    <3> DEFINE b == order[k]
    <3>1. b \in 1..L /\ i \in 1..L /\ i < b /\ LegAfter(low, order, k) < i
      BY <1>1, <1>8, <1>10, <1>14, <2>1
    <3>2. ASSUME NEW j \in Transfers(tl), i < j, j < b PROVE FALSE
      <4>1. LegAfter(low, order, k) \in Int
        BY <1>1, <1>13 DEF LegAfter
      <4>2. j \in C
        BY <1>5, <1>9, <1>14, <2>1, <3>1, <3>2, <4>1
      <4> QED
        BY <1>5, <1>11, <3>1, <3>2, <4>2
    <3>3. PlaceBefore(tl, b) = PlaceAfter(tl, i)
      <4> HIDE DEF b
      <4> QED
        BY <3>1, <3>2, ChainOfPlaces DEF L
    <3> QED
      BY <1>2, <1>8, <1>14, <2>1, <3>3
  <2>2. CASE ~(k <= n)
    <3> DEFINE t == Max(Transfers(tl))
    <3>1. t \in Transfers(tl) /\ i <= t /\ i \in 1..L /\ t \in 1..L
      BY <1>5, <1>7, <1>8
    <3>2. LegAfter(low, order, k) \in Int /\ LegAfter(low, order, k) < i
      BY <1>1, <1>10, <1>13 DEF LegAfter
    <3>3. t \in C
      <4> HIDE DEF t
      <4> QED
        BY <1>1, <1>9, <1>15, <2>2, <3>1, <3>2
    <3> QED
      BY <1>7, <1>11, <1>15, <2>2, <3>3
  <2> QED
    BY <2>1, <2>2
<1>19. ASSUME C = {} PROVE from = to
  <2>1. CASE k = 1
    BY <1>1, <1>12, <1>14, <1>19, <2>1 DEF IsRest, C
  <2>2. CASE k > 1 /\ k <= n
    <3> DEFINE a == order[k - 1]
               b == order[k]
    <3>1. a \in 1..L /\ b \in 1..L /\ a < b
      BY <1>1, <1>4, <1>13, <1>14, <2>2
    <3>2. \A j \in Transfers(tl) : ~(a < j /\ j < b)
      BY <1>9, <1>13, <1>14, <1>19, <2>2
    <3>3. PlaceBefore(tl, b) = PlaceAfter(tl, a)
      <4> HIDE DEF a, b
      <4> QED
        BY <3>1, <3>2, ChainOfPlaces DEF L
    <3> QED
      BY <1>2, <1>13, <1>14, <2>2, <3>3
  <2>3. CASE k > 1 /\ ~(k <= n)
    <3> DEFINE t == Max(Transfers(tl))
               b == order[k - 1]
    <3>1. t \in Transfers(tl) /\ t \in 1..L /\ b \in 1..L /\ b \notin Transfers(tl)
      BY <1>1, <1>2, <1>5, <1>7, <1>13, <2>3
    <3>2. \A j \in Transfers(tl) : j <= t
      BY <1>7
    <3>3. t < b
      <4> HIDE DEF t, b
      <4>1. t # b /\ ~(b < t)
        BY <1>1, <1>9, <1>13, <1>15, <1>19, <2>3, <3>1 DEF b
      <4> QED
        BY <3>1, <4>1
    <3>4. PlaceBefore(tl, b) = PlaceAfter(tl, t)
      <4> HIDE DEF t, b
      <4>1. \A j \in Transfers(tl) : ~(t < j /\ j < b)
        BY <1>5, <3>1, <3>2
      <4> QED
        BY <3>1, <3>3, <4>1, ChainOfPlaces DEF L
    <3>5. PlaceAfter(tl, t) = End
      BY <1>7 DEF PlaceAfter, Transfers
    <3> QED
      BY <1>2, <1>13, <1>15, <2>3, <3>4, <3>5
  <2> QED
    BY <1>1, <2>1, <2>2, <2>3
<1> QED
  BY <1>16, <1>17, <1>18, <1>19 DEF C, from, to

\* The leg of a day is one that the transfer of the plan makes.
AsPlanned(q, tl, low, order, d, k, i) ==
  /\ i \in Crossing(tl, low, order, k) /\ LegOf(d, k) = <<FromOf(tl, i), ToOf(tl, i)>>
  /\ LockedMode(d, k) = tl[i].mode /\ tl[i].mode \in Modes
  /\ LET e == Looked(q, d, k)
     IN e = FoundFor(q, tl, i) /\ e.mode = tl[i].mode /\ e.walked <= tl[i].walked

\* What is found for the legs that are left is what was found for the plan.
LEMMA RestLeg ==
  ASSUME NEW q, NEW tl, NEW open, GoodPlan(q, tl, open),
         NEW low, NEW order, NEW d, IsRest(tl, low, order, d), NEW k \in 1..(Len(order) + 1)
  PROVE  LET e == Looked(q, d, k) IN
         /\ e # NoEvidence /\ e.minutes \in Nat /\ e.walked \in Nat
         /\ LeavesAt(d, k) + e.minutes <= PlannedEnd(tl, d, k)
         /\ PlannedEnd(tl, d, k) <= DueAt(q, d, k)
         /\ \/ LegOf(d, k)[1] = LegOf(d, k)[2] /\ e = AtDestination
            \/ LegOf(d, k)[1] # LegOf(d, k)[2] /\ \E i : AsPlanned(q, tl, low, order, d, k, i)
<1> DEFINE e == Looked(q, d, k)
           n == Len(order)
<1>1. IsRequest(q) /\ IsTimeline(tl) /\ PlannedAsFound(q, tl) /\ IsDay(d) /\ Len(d.acts) = n
  BY DEF GoodPlan, IsRest
<1>2. /\ BoundaryComplete(q, tl, open) /\ Gapless(tl) /\ Continuous(tl)
      /\ \A i \in Transfers(tl) : FoundFor(q, tl, i) # NoEvidence
  BY PassingPlan DEF GoodPlan
<1>3. n \in Nat \ {0}
  BY <1>1, LegsOfThePlan DEF IsRest
<1>4. k \in Legged(d)
  <2>1. d.acts # <<>>
    BY <1>1, <1>3
  <2> QED
    BY <1>1, <2>1 DEF Legged
<1>5. LegOf(d, k) \in Legs /\ LeavesAt(d, k) \in Nat /\ DueAt(q, d, k) \in Nat
  BY <1>1, <1>4, LegsOfADay
<1>6. /\ PlannedEnd(tl, d, k) \in Nat /\ LeavesAt(d, k) <= PlannedEnd(tl, d, k)
      /\ \A i \in Crossing(tl, low, order, k) :
              LeavesAt(d, k) <= tl[i].start /\ tl[i].end <= PlannedEnd(tl, d, k)
      /\ k > 1 => LeavesAt(d, k) = tl[order[k - 1]].end
  BY <1>1, <1>2, RestTimes
<1>7. /\ \A i \in Crossing(tl, low, order, k) : LegOf(d, k) = <<FromOf(tl, i), ToOf(tl, i)>>
      /\ Crossing(tl, low, order, k) = {} => LegOf(d, k)[1] = LegOf(d, k)[2]
  BY <1>1, <1>2, RestPlaces
<1>8. PlannedEnd(tl, d, k) <= DueAt(q, d, k)
  <2>1. tl[Len(tl)].end <= q.close
    BY <1>2 DEF BoundaryComplete
  <2> QED
    BY <1>5, <1>6, <2>1 DEF PlannedEnd, DueAt
<1>9. CASE LegOf(d, k)[1] = LegOf(d, k)[2]
  <2>1. e = AtDestination
    BY <1>9 DEF Looked
  <2>2. e # NoEvidence /\ e.minutes = 0 /\ e.walked = 0
    BY <2>1 DEF AtDestination, NoEvidence
  <2> HIDE DEF e
  <2>3. LeavesAt(d, k) + e.minutes <= PlannedEnd(tl, d, k)
    BY <1>5, <1>6, <2>2
  <2> QED
    BY <1>8, <1>9, <2>1, <2>2, <2>3 DEF e
<1>10. CASE LegOf(d, k)[1] # LegOf(d, k)[2]
  <2>1. PICK i \in Crossing(tl, low, order, k) : LegOf(d, k) = <<FromOf(tl, i), ToOf(tl, i)>>
    BY <1>7, <1>10
  <2>2. i \in Transfers(tl) /\ i \in 1..Len(tl) /\ LegAfter(low, order, k) < i
        /\ i < LegBefore(tl, order, k)
    BY <1>1, EventFacts DEF Crossing
  <2>3. tl[i].start \in Nat /\ tl[i].end \in Nat
    BY <1>1, <2>2, EventFacts
  <2>4. LockedMode(d, k) = tl[i].mode
    BY DEF IsRest
  <2> DEFINE f == FoundFor(q, tl, i)
  <2>5. f # NoEvidence /\ f = RouteForMode(q, LegOf(d, k), tl[i].start, tl[i].mode)
    BY <1>2, <2>1, <2>2 DEF FoundFor
  <2>6. Travels(q, LegOf(d, k), tl[i].start, f) /\ f.mode = tl[i].mode
    BY <1>1, <1>5, <2>3, <2>5, EvidenceFacts
  <2>7. f.minutes \in Nat /\ f.walked \in Nat /\ tl[i].mode \in Modes
    BY <2>6 DEF Travels
  <2>8. f.minutes <= tl[i].end - tl[i].start /\ f.walked <= tl[i].walked
    BY <1>1, <2>2 DEF PlannedAsFound
  <2>9. tl[i].mode = "bus" => LeavesAt(d, k) = tl[i].start
    <3> SUFFICES ASSUME tl[i].mode = "bus" PROVE LeavesAt(d, k) = tl[i].start
      OBVIOUS
    <3>1. CASE k = 1
      BY <2>1, <3>1 DEF IsRest, LeavesAt
    <3>2. CASE k # 1
      <4> DEFINE a == order[k - 1]
      <4>1. k > 1 /\ k - 1 \in 1..n /\ LegAfter(low, order, k) = a
        BY <1>3, <3>2 DEF LegAfter
      <4>2. a \in 1..Len(tl) /\ Len(tl) \in Nat
        BY <1>1, <4>1, LegsOfThePlan DEF IsRest
      <4> HIDE DEF a
      <4>3. i > 1 /\ a <= i - 1 /\ i - 1 \in 1..(Len(tl) - 1)
        BY <2>2, <4>1, <4>2
      <4>4. Activity(tl[i - 1])
        BY <1>1, <2>2, <4>3 DEF PlannedAsFound
      <4>5. LegBefore(tl, order, k) \in Int /\ \A j \in 1..Len(tl) :
              LegAfter(low, order, k) < j /\ j < LegBefore(tl, order, k) => ~Activity(tl[j])
        BY <1>1, LegsOfThePlan DEF IsRest
      <4>6. ~(a < i - 1)
        BY <2>2, <4>1, <4>2, <4>3, <4>4, <4>5
      <4>7. a = i - 1
        BY <2>2, <4>2, <4>3, <4>6
      <4>8. tl[i - 1].end = tl[i - 1 + 1].start
        BY <1>2, <4>3 DEF Gapless
      <4>9. i - 1 + 1 = i
        BY <2>2
      <4> QED
        BY <1>6, <4>1, <4>7, <4>8, <4>9 DEF a
    <3> QED
      BY <3>1, <3>2
  <2>10. RouteForMode(q, LegOf(d, k), LeavesAt(d, k), tl[i].mode) = f
    <3> HIDE DEF f
    <3> QED
      BY <1>1, <1>5, <2>3, <2>5, <2>9, AnyTime
  <2>11. e = f
    <3>1. LockedMode(d, k) # "any"
      BY <2>4, <2>7 DEF Modes
    <3> HIDE DEF f
    <3> QED
      BY <1>10, <2>4, <2>10, <3>1 DEF Looked
  <2>12. AsPlanned(q, tl, low, order, d, k, i)
    BY <2>1, <2>4, <2>6, <2>7, <2>8, <2>11 DEF AsPlanned
  <2>13. LeavesAt(d, k) + e.minutes <= PlannedEnd(tl, d, k)
    <3>1. LeavesAt(d, k) <= tl[i].start /\ tl[i].end <= PlannedEnd(tl, d, k)
      BY <1>6
    <3> HIDE DEF e, f
    <3> QED
      BY <1>5, <1>6, <2>3, <2>7, <2>8, <2>11, <3>1, SMTT(30)
  <2> HIDE DEF e, f
  <2>14. e # NoEvidence /\ e.minutes \in Nat /\ e.walked \in Nat
    BY <2>5, <2>7, <2>11
  <2> QED
    BY <1>8, <1>10, <2>12, <2>13, <2>14 DEF e
<1> QED
  BY <1>9, <1>10

\* No leg that is left is short of time or of another mode.
LEMMA RestLegIssues ==
  ASSUME NEW q, NEW tl, NEW open, GoodPlan(q, tl, open),
         NEW low, NEW order, NEW d, IsRest(tl, low, order, d), NEW k \in 1..(Len(order) + 1)
  PROVE  /\ LegIssue(q, d, k, Looked(q, d, k)) \notin Critical
         /\ LegRisk(q, d, k, Looked(q, d, k)) # "critical"
<1> DEFINE e == Looked(q, d, k)
           slack == Slack(q, d, k, e)
<1>1. /\ e # NoEvidence /\ e.minutes \in Nat
      /\ LeavesAt(d, k) + e.minutes <= PlannedEnd(tl, d, k)
      /\ PlannedEnd(tl, d, k) <= DueAt(q, d, k)
      /\ \/ LegOf(d, k)[1] = LegOf(d, k)[2] /\ e = AtDestination
         \/ LegOf(d, k)[1] # LegOf(d, k)[2] /\ \E i : AsPlanned(q, tl, low, order, d, k, i)
  BY RestLeg
<1>2. LeavesAt(d, k) \in Nat /\ PlannedEnd(tl, d, k) \in Nat /\ DueAt(q, d, k) \in Nat
  <2>1. IsRequest(q) /\ IsTimeline(tl) /\ Gapless(tl) /\ IsDay(d) /\ Len(d.acts) = Len(order)
    BY PassingPlan DEF GoodPlan, IsRest
  <2>2. LeavesAt(d, k) \in Nat /\ PlannedEnd(tl, d, k) \in Nat
    BY <2>1, RestTimes
  <2>3. Len(order) \in Nat \ {0}
    BY <2>1, LegsOfThePlan DEF IsRest
  <2>4. k \in Legged(d)
    <3>1. d.acts # <<>>
      BY <2>1, <2>3
    <3> QED
      BY <2>1, <3>1 DEF Legged
  <2> QED
    BY <2>1, <2>2, <2>4, LegsOfADay
<1>3. slack \in Int /\ ~(slack < 0)
  <2> HIDE DEF e
  <2> QED
    BY <1>1, <1>2 DEF Slack
<1>4. e.mode = "here" \/ LockedMode(d, k) = e.mode
  <2>1. AtDestination.mode = "here"
    BY DEF AtDestination, NoEvidence
  <2> QED
    BY <1>1, <2>1 DEF AsPlanned
<1>5. RiskOf(slack) # "critical"
  BY <1>3 DEF RiskOf
<1> HIDE DEF e, slack
<1>6. LegIssue(q, d, k, e) \in {"ACCESSIBILITY_UNVERIFIABLE", "none"}
  BY <1>1, <1>3, <1>4 DEF LegIssue, slack
<1>7. LegRisk(q, d, k, e) # "critical"
  BY <1>5, <1>6 DEF LegRisk, slack
<1>8. LegIssue(q, d, k, e) \notin Critical
  BY <1>6 DEF Critical
<1> QED
  BY <1>7, <1>8 DEF e

--------------------------------------------------------------------------------
\* The stays that are left, and the order they are in.

\* The place is open for all of the activity.
OpenFor(a) == \E w \in WindowsOf[a.place] : w.opens <= a.start /\ a.end <= w.closes
TooLate(a) == LastAdmission(a.place) # NoTime /\ a.start > LastAdmission(a.place)
Refused(q, a) == q.diet /\ KindOf[a.place] = "meal" /\ MealSafety[a.place] = "unsafe"

\* The critical issues of an activity are that it is not open for it or refuses it.
LEMMA CriticalStays ==
  ASSUME NEW q, NEW a
  PROVE  ActIssues(q, a, TRUE) \cap Critical = {}
         <=> /\ WindowsOf[a.place] # {} => OpenFor(a) /\ ~TooLate(a)
             /\ ~Refused(q, a)
<1> DEFINE is == ActIssues(q, a, TRUE)
<1>1. "PLACE_CLOSED" \in is <=> WindowsOf[a.place] # {} /\ ~OpenFor(a)
  BY Zenon DEF ActIssues, OpenFor
<1>2. "LAST_ADMISSION_MISSED" \in is <=> WindowsOf[a.place] # {} /\ OpenFor(a) /\ TooLate(a)
  BY Zenon DEF ActIssues, OpenFor, TooLate
<1>3. "DIETARY_CONSTRAINT_VIOLATED" \in is <=> Refused(q, a)
  BY Zenon DEF ActIssues, Refused
<1>4. is \subseteq {"OPENING_HOURS_UNKNOWN", "PLACE_CLOSED", "LAST_ADMISSION_MISSED",
                    "DIETARY_SAFETY_UNVERIFIABLE", "DIETARY_CONSTRAINT_VIOLATED"}
  BY Zenon DEF ActIssues
<1> HIDE DEF is
<1>5. is \cap Critical = {} <=> /\ "PLACE_CLOSED" \notin is /\ "LAST_ADMISSION_MISSED" \notin is
                                /\ "DIETARY_CONSTRAINT_VIOLATED" \notin is
  BY <1>4 DEF Critical
<1> QED
  BY <1>1, <1>2, <1>3, <1>5 DEF is

\* What is left of a stay is as open as the stay was.
LEMMA RestStays ==
  ASSUME NEW q, NEW tl, NEW open, GoodPlan(q, tl, open),
         NEW low, NEW order, NEW d, IsRest(tl, low, order, d), ~TooLate(d.acts[1]),
         NEW k \in 1..Len(order)
  PROVE  ActIssues(q, d.acts[k], TRUE) \cap Critical = {}
<1> DEFINE a == d.acts[k]
           e == tl[order[k]]
<1>1. IsTimeline(tl) /\ IsDay(d) /\ Len(d.acts) = Len(order)
  BY DEF GoodPlan, IsRest
<1>2. order[k] \in 1..Len(tl) /\ Activity(e) /\ DOMAIN tl = 1..Len(tl)
  BY <1>1, LegsOfThePlan, EventFacts DEF IsRest, ListsStays
<1>3. /\ e.start \in Nat /\ e.place \in Places
      /\ a.start \in Nat /\ a.end \in Nat /\ a.place = e.place /\ a.end = e.end
      /\ e.start <= a.start /\ (a.start = e.start \/ k = 1)
  BY <1>1, <1>2, ActsOfADay, EventFacts DEF IsRest
<1>4. ActIssues(q, e, TRUE) \cap Critical = {}
  BY <1>2, PassingPlan DEF GoodPlan
<1>5. /\ WindowsOf[e.place] # {} => OpenFor(e) /\ ~TooLate(e)
      /\ ~Refused(q, e)
  BY <1>4, CriticalStays
<1> HIDE DEF e
<1>6. OpenFor(e) => OpenFor(a)
  <2> SUFFICES ASSUME NEW w \in WindowsOf[e.place], w.opens <= e.start /\ e.end <= w.closes
               PROVE  w.opens <= a.start /\ a.end <= w.closes
    BY <1>3 DEF OpenFor
  <2>1. w \in Window
    BY <1>3, TimelineAssumption
  <2>2. w.opens \in Nat
    BY <2>1 DEF Window
  <2> HIDE DEF a
  <2> QED
    BY <1>3, <2>2
<1>7. WindowsOf[e.place] # {} => ~TooLate(a)
  <2>1. CASE k = 1
    BY <2>1
  <2>2. CASE k # 1
    <3> HIDE DEF a
    <3> QED
      BY <1>3, <1>5, <2>2 DEF TooLate
  <2> QED
    BY <2>1, <2>2
<1>8. Refused(q, a) <=> Refused(q, e)
  <2> HIDE DEF a
  <2> QED
    BY <1>3, Zenon DEF Refused
<1>9. /\ WindowsOf[a.place] # {} => OpenFor(a) /\ ~TooLate(a)
      /\ ~Refused(q, a)
  <2> HIDE DEF a
  <2> QED
    BY <1>3, <1>5, <1>6, <1>7, <1>8
<1> QED
  BY <1>9, CriticalStays

\* The days that are left have something in them and do not overlap.
LEMMA RestInOrder ==
  ASSUME NEW tl, IsTimeline(tl), NEW low, NEW order, NEW d, IsRest(tl, low, order, d)
  PROVE  /\ d.acts # <<>> /\ Len(d.acts) \in Nat
         /\ \A i \in 1..(Len(d.acts) - 1) : ~(d.acts[i].end > d.acts[i + 1].start)
         /\ \A i, j \in 1..Len(d.acts) : i < j => d.acts[i].start <= d.acts[j].start
<1> DEFINE n == Len(order)
<1>1. n \in Nat \ {0} /\ Len(d.acts) = n /\ \A k \in 1..n : order[k] \in 1..Len(tl)
  BY LegsOfThePlan DEF IsRest
<1>2. IsDay(d)
  BY DEF IsRest
<1>3. \A k \in 1..n : /\ d.acts[k].start \in Nat /\ d.acts[k].end \in Nat
                      /\ d.acts[k].start < d.acts[k].end
  BY <1>1, <1>2, ActsOfADay
<1>4. \A i, j \in 1..n : i < j => d.acts[i].end <= d.acts[j].start
  <2> SUFFICES ASSUME NEW i \in 1..n, NEW j \in 1..n, i < j
               PROVE  d.acts[i].end <= d.acts[j].start
    OBVIOUS
  <2>1. order[i] < order[j]
    BY DEF IsRest, ListsStays
  <2>2. tl[order[i]].end <= tl[order[j]].start
    BY <1>1, <2>1, EventFacts
  <2>3. d.acts[i].end = tl[order[i]].end /\ tl[order[j]].start <= d.acts[j].start
    BY DEF IsRest
  <2>4. tl[order[j]].start \in Nat
    BY <1>1, EventFacts
  <2> QED
    BY <1>3, <2>2, <2>3, <2>4
<1> HIDE DEF n
<1>5. \A i \in 1..(n - 1) : ~(d.acts[i].end > d.acts[i + 1].start)
  <2> SUFFICES ASSUME NEW i \in 1..(n - 1) PROVE ~(d.acts[i].end > d.acts[i + 1].start)
    OBVIOUS
  <2>1. i \in 1..n /\ i + 1 \in 1..n /\ i < i + 1
    BY <1>1
  <2> QED
    BY <1>3, <1>4, <2>1
<1>6. \A i, j \in 1..n : i < j => d.acts[i].start <= d.acts[j].start
  <2> SUFFICES ASSUME NEW i \in 1..n, NEW j \in 1..n, i < j PROVE d.acts[i].start <= d.acts[j].start
    OBVIOUS
  <2>1. d.acts[i].end <= d.acts[j].start
    BY <1>4
  <2> QED
    BY <1>3, <2>1
<1>7. d.acts # <<>>
  BY <1>1
<1> QED
  BY <1>1, <1>5, <1>6, <1>7

--------------------------------------------------------------------------------
\* What is left of the plan neither walks more nor costs more.

\* The transfers of a timeline.
LEMMA TransfersAreFinite ==
  ASSUME NEW tl, IsTimeline(tl)
  PROVE  IsFiniteSet(Transfers(tl))
<1>1. Transfers(tl) \subseteq 1..Len(tl) /\ Len(tl) \in Nat
  BY EventFacts
<1>2. IsFiniteSet(1..Len(tl))
  BY <1>1, FS_Interval
<1> QED
  BY <1>1, <1>2, FS_Subset

\* Walked adds up what is walked in the transfers.
LEMMA WalkedAddsUp ==
  ASSUME NEW tl, IsTimeline(tl)
  PROVE  LET S == Transfers(tl)
             w == [i \in S |-> tl[i].walked]
         IN /\ IsFiniteSet(S) /\ w \in [S -> Nat]
            /\ \E f : SumsUp(f, w, S) /\ Walked(tl) = f[S]
<1> DEFINE S == Transfers(tl)
           w == [i \in S |-> tl[i].walked]
           Right(f) == f = [T \in SUBSET S |-> IF T = {} THEN 0
                                               ELSE tl[First(T)].walked + f[Rest(T)]]
           h == CHOOSE f : Right(f)
<1>1. IsFiniteSet(S)
  BY TransfersAreFinite
<1>2. w \in [S -> Nat]
  <2>1. \A i \in S : tl[i] \in TimelineEvent
    BY EventFacts
  <2>2. \A i \in S : tl[i].walked \in Nat
    BY <2>1 DEF TimelineEvent
  <2> QED
    BY <2>2
<1>3. ASSUME NEW T \in SUBSET S, T # {} PROVE w[First(T)] = tl[First(T)].walked
  BY <1>3 DEF First
<1>4. \A f : SumsUp(f, w, S) <=> Right(f)
  <2> SUFFICES ASSUME NEW f
               PROVE  [T \in SUBSET S |-> IF T = {} THEN 0 ELSE w[First(T)] + f[Rest(T)]]
                      = [T \in SUBSET S |-> IF T = {} THEN 0 ELSE tl[First(T)].walked + f[Rest(T)]]
    BY Zenon DEF SumsUp
  <2> HIDE DEF S, w
  <2> QED
    BY <1>3
<1>5. \E f : Right(f)
  <2> HIDE DEF S, w, Right
  <2> QED
    BY <1>1, <1>2, <1>4, SumExists
<1>6. Right(h)
  BY <1>5, Zenon
<1>7. Walked(tl) = h[S]
  BY Zenon DEF Walked, MapThenSumSet, MapThenFoldSet, First, Rest
<1> HIDE DEF Right, h
<1> QED
  BY <1>1, <1>2, <1>4, <1>6, <1>7

\* Cost adds up the fares of the transfers.
LEMMA CostAddsUp ==
  ASSUME NEW tl, IsTimeline(tl), \A i \in Transfers(tl) : tl[i].mode \in Modes
  PROVE  LET S == Transfers(tl)
             w == [i \in S |-> FareOf[<<FromOf(tl, i), ToOf(tl, i)>>][tl[i].mode]]
         IN /\ IsFiniteSet(S) /\ w \in [S -> Nat]
            /\ \E f : SumsUp(f, w, S) /\ Cost(tl) = f[S]
<1> DEFINE S == Transfers(tl)
           w == [i \in S |-> FareOf[<<FromOf(tl, i), ToOf(tl, i)>>][tl[i].mode]]
           Right(f) == f = [T \in SUBSET S |-> IF T = {} THEN 0
                                               ELSE FareOf[<<FromOf(tl, First(T)), ToOf(tl, First(T))>>][tl[First(T)].mode] + f[Rest(T)]]
           h == CHOOSE f : Right(f)
<1>1. IsFiniteSet(S)
  BY TransfersAreFinite
<1>2. w \in [S -> Nat]
  <2>1. \A i \in S : <<FromOf(tl, i), ToOf(tl, i)>> \in Legs /\ tl[i].mode \in Modes
    BY DEF IsTimeline
  <2> QED
    BY <2>1, TimelineAssumption
<1>3. ASSUME NEW T \in SUBSET S, T # {} PROVE w[First(T)] = FareOf[<<FromOf(tl, First(T)), ToOf(tl, First(T))>>][tl[First(T)].mode]
  BY <1>3 DEF First
<1>4. \A f : SumsUp(f, w, S) <=> Right(f)
  <2> SUFFICES ASSUME NEW f
               PROVE  [T \in SUBSET S |-> IF T = {} THEN 0 ELSE w[First(T)] + f[Rest(T)]]
                      = [T \in SUBSET S |-> IF T = {} THEN 0 ELSE FareOf[<<FromOf(tl, First(T)), ToOf(tl, First(T))>>][tl[First(T)].mode] + f[Rest(T)]]
    BY Zenon DEF SumsUp
  <2> HIDE DEF S, w
  <2> QED
    BY <1>3
<1>5. \E f : Right(f)
  <2> HIDE DEF S, w, Right
  <2> QED
    BY <1>1, <1>2, <1>4, SumExists
<1>6. Right(h)
  BY <1>5, Zenon
<1>7. Cost(tl) = h[S]
  BY Zenon DEF Cost, MapThenSumSet, MapThenFoldSet, First, Rest
<1> HIDE DEF Right, h
<1> QED
  BY <1>1, <1>2, <1>4, <1>6, <1>7

\* What DayIssues adds up.
FoundWalk(found) == MapThenSumSet(LAMBDA i : found[i].walked, DOMAIN found)
\* The legs that have a route, and their fares.
Moves(found) == {i \in DOMAIN found : found[i].mode \in Modes}
Fares(d, found) == [i \in Moves(found) |-> FareOf[LegOf(d, i)][found[i].mode]]
FoundCost(d, found) ==
  MapThenSumSet(LAMBDA i : FareOf[LegOf(d, i)][found[i].mode], Moves(found))

\* What is walked in the legs of a day.
LEMMA FoundWalkAddsUp ==
  ASSUME NEW found, IsFiniteSet(DOMAIN found), \A i \in DOMAIN found : found[i].walked \in Nat
  PROVE  LET S == DOMAIN found
             w == [i \in S |-> found[i].walked]
         IN /\ IsFiniteSet(S) /\ w \in [S -> Nat]
            /\ \E f : SumsUp(f, w, S) /\ FoundWalk(found) = f[S]
<1> DEFINE S == DOMAIN found
           w == [i \in S |-> found[i].walked]
           Right(f) == f = [T \in SUBSET S |-> IF T = {} THEN 0
                                               ELSE found[First(T)].walked + f[Rest(T)]]
           h == CHOOSE f : Right(f)
<1>1. IsFiniteSet(S)
  OBVIOUS
<1>2. w \in [S -> Nat]
  OBVIOUS
<1>3. ASSUME NEW T \in SUBSET S, T # {} PROVE w[First(T)] = found[First(T)].walked
  BY <1>3 DEF First
<1>4. \A f : SumsUp(f, w, S) <=> Right(f)
  <2> SUFFICES ASSUME NEW f
               PROVE  [T \in SUBSET S |-> IF T = {} THEN 0 ELSE w[First(T)] + f[Rest(T)]]
                      = [T \in SUBSET S |-> IF T = {} THEN 0 ELSE found[First(T)].walked + f[Rest(T)]]
    BY Zenon DEF SumsUp
  <2> HIDE DEF S, w
  <2> QED
    BY <1>3
<1>5. \E f : Right(f)
  <2> HIDE DEF S, w, Right
  <2> QED
    BY <1>1, <1>2, <1>4, SumExists
<1>6. Right(h)
  BY <1>5, Zenon
<1>7. FoundWalk(found) = h[S]
  BY Zenon DEF FoundWalk, MapThenSumSet, MapThenFoldSet, First, Rest
<1> HIDE DEF Right, h
<1> QED
  BY <1>1, <1>2, <1>4, <1>6, <1>7

\* The fares of the legs of a day.
LEMMA FoundCostAddsUp ==
  ASSUME NEW d, NEW found, IsFiniteSet(DOMAIN found),
         \A i \in Moves(found) : LegOf(d, i) \in Legs
  PROVE  /\ IsFiniteSet(Moves(found)) /\ Fares(d, found) \in [Moves(found) -> Nat]
         /\ \E f : SumsUp(f, Fares(d, found), Moves(found)) /\ FoundCost(d, found) = f[Moves(found)]
<1> DEFINE S == Moves(found)
           w == Fares(d, found)
           Right(f) == f = [T \in SUBSET S |-> IF T = {} THEN 0
                                               ELSE FareOf[LegOf(d, First(T))][found[First(T)].mode] + f[Rest(T)]]
           h == CHOOSE f : Right(f)
<1>1. IsFiniteSet(S)
  BY FS_Subset DEF Moves
<1>2. w \in [S -> Nat]
  BY TimelineAssumption DEF Moves, Fares
<1>3. ASSUME NEW T \in SUBSET S, T # {} PROVE w[First(T)] = FareOf[LegOf(d, First(T))][found[First(T)].mode]
  BY <1>3 DEF First, Fares
<1>4. \A f : SumsUp(f, w, S) <=> Right(f)
  <2> SUFFICES ASSUME NEW f
               PROVE  [T \in SUBSET S |-> IF T = {} THEN 0 ELSE w[First(T)] + f[Rest(T)]]
                      = [T \in SUBSET S |-> IF T = {} THEN 0 ELSE FareOf[LegOf(d, First(T))][found[First(T)].mode] + f[Rest(T)]]
    BY Zenon DEF SumsUp
  <2> HIDE DEF S, w
  <2> QED
    BY <1>3
<1>5. \E f : Right(f)
  <2> HIDE DEF S, w, Right
  <2> QED
    BY <1>1, <1>2, <1>4, SumExists
<1>6. Right(h)
  BY <1>5, Zenon
<1>7. FoundCost(d, found) = h[S]
  BY Zenon DEF FoundCost, MapThenSumSet, MapThenFoldSet, First, Rest
<1> HIDE DEF Right, h
<1> QED
  BY <1>1, <1>2, <1>4, <1>6, <1>7

\* The legs that lead from one place to another.
LegsMade(order, d) == {k \in 1..(Len(order) + 1) : LegOf(d, k)[1] # LegOf(d, k)[2]}

\* Each of them is made by a transfer of its own.
LEMMA OwnTransfers ==
  ASSUME NEW q, NEW tl, NEW open, GoodPlan(q, tl, open),
         NEW low, NEW order, NEW d, IsRest(tl, low, order, d)
  PROVE  \E g \in [LegsMade(order, d) -> Transfers(tl)] :
           /\ \A k \in LegsMade(order, d) : AsPlanned(q, tl, low, order, d, k, g[k])
           /\ \A k, l \in LegsMade(order, d) : g[k] = g[l] => k = l
<1> DEFINE M == LegsMade(order, d)
           Of(k) == CHOOSE i : AsPlanned(q, tl, low, order, d, k, i)
           g == [k \in M |-> Of(k)]
<1>1. ASSUME NEW k \in M
      PROVE  AsPlanned(q, tl, low, order, d, k, Of(k)) /\ Of(k) \in Transfers(tl)
  <2>1. \E i : AsPlanned(q, tl, low, order, d, k, i)
    BY RestLeg DEF LegsMade
  <2>2. AsPlanned(q, tl, low, order, d, k, Of(k))
    BY <2>1, Zenon
  <2> HIDE DEF Of
  <2> QED
    BY <2>2 DEF AsPlanned, Crossing
<1> HIDE DEF Of
<1>2. g \in [M -> Transfers(tl)] /\ \A k \in M : AsPlanned(q, tl, low, order, d, k, g[k])
  BY <1>1
<1> HIDE DEF g
<1>3. ASSUME NEW k \in M, NEW l \in M, g[k] = g[l], k < l PROVE FALSE
  <2>1. k \in 1..(Len(order) + 1) /\ l \in 1..(Len(order) + 1) /\ IsTimeline(tl)
        /\ ListsStays(tl, low, order)
    BY DEF GoodPlan, IsRest, LegsMade
  <2>2. /\ LegBefore(tl, order, k) <= LegAfter(low, order, l)
        /\ LegBefore(tl, order, k) \in Int /\ LegAfter(low, order, l) \in Int
    BY <1>3, <2>1, LegsOfThePlan
  <2>3. g[k] \in Crossing(tl, low, order, k) /\ g[k] \in Crossing(tl, low, order, l)
    BY <1>2, <1>3 DEF AsPlanned
  <2>4. g[k] \in Int /\ g[k] < LegBefore(tl, order, k) /\ LegAfter(low, order, l) < g[k]
    BY <2>1, <2>3, EventFacts DEF Crossing
  <2> QED
    BY <2>2, <2>4
<1>4. \A k, l \in M : g[k] = g[l] => k = l
  <2>1. M \in SUBSET Int
    BY DEF LegsMade
  <2> SUFFICES ASSUME NEW k \in M, NEW l \in M, g[k] = g[l], k # l PROVE FALSE
    OBVIOUS
  <2>2. k < l \/ l < k
    BY <2>1
  <2> QED
    BY <1>3, <2>2
<1> QED
  BY <1>2, <1>4

\* The limits that the plan keeps are kept by what is left of it.
LEMMA RestLimits ==
  ASSUME NEW q, NEW tl, NEW open, GoodPlan(q, tl, open),
         NEW low, NEW order, NEW d, IsRest(tl, low, order, d),
         NEW found, found = [k \in 1..(Len(order) + 1) |-> Looked(q, d, k)]
  PROVE  /\ ~(FoundWalk(found) > MaxWalked)
         /\ ~(q.budget # NoTime /\ FoundCost(d, found) > q.budget)
<1> DEFINE D == 1..(Len(order) + 1)
           M == LegsMade(order, d)
           R == Transfers(tl)
<1>1. IsTimeline(tl) /\ IsRequest(q) /\ LimitsHold(q, tl) /\ IsFiniteSet(R)
  BY PassingPlan, TransfersAreFinite DEF GoodPlan
<1>2. Len(order) \in Nat \ {0} /\ IsFiniteSet(D)
  <2>1. Len(order) \in Nat \ {0}
    BY <1>1, LegsOfThePlan DEF IsRest
  <2>2. IsFiniteSet(1..(Len(order) + 1))
    BY <2>1, FS_Interval
  <2> QED
    BY <2>1, <2>2
<1>3. PICK g \in [M -> R] : /\ \A k \in M : AsPlanned(q, tl, low, order, d, k, g[k])
                            /\ \A k, l \in M : g[k] = g[l] => k = l
  BY OwnTransfers
<1>4. DOMAIN found = D /\ \A k \in D : found[k] = Looked(q, d, k)
  OBVIOUS
<1>5. \A k \in D : found[k].walked \in Nat /\ (k \notin M => found[k] = AtDestination)
  <2> SUFFICES ASSUME NEW k \in D
               PROVE  found[k].walked \in Nat /\ (k \notin M => found[k] = AtDestination)
    OBVIOUS
  <2>1. /\ Looked(q, d, k).walked \in Nat
        /\ LegOf(d, k)[1] = LegOf(d, k)[2] => Looked(q, d, k) = AtDestination
    BY RestLeg
  <2> QED
    BY <1>4, <2>1 DEF LegsMade
<1>6. \A k \in M : /\ LegOf(d, k) = <<FromOf(tl, g[k]), ToOf(tl, g[k])>>
                   /\ found[k].mode = tl[g[k]].mode /\ found[k].mode \in Modes
                   /\ found[k].walked <= tl[g[k]].walked
  BY <1>3, <1>4 DEF AsPlanned, LegsMade
<1>7. AtDestination.walked = 0 /\ AtDestination.mode \notin Modes
  BY DEF AtDestination, NoEvidence, Modes
<1>8. M = Moves(found)
  BY <1>4, <1>5, <1>6, <1>7 DEF Moves, LegsMade
<1>9. M \in SUBSET D
  BY DEF LegsMade
<1> HIDE DEF D, M, R
<1>10. ~(FoundWalk(found) > MaxWalked)
  <2> DEFINE v == [i \in D |-> found[i].walked]
             w == [i \in R |-> tl[i].walked]
  <2>1. w \in [R -> Nat] /\ \E f : SumsUp(f, w, R) /\ Walked(tl) = f[R]
    BY <1>1, WalkedAddsUp DEF R
  <2>2. v \in [D -> Nat] /\ \E e : SumsUp(e, v, D) /\ FoundWalk(found) = e[D]
    BY <1>2, <1>4, <1>5, FoundWalkAddsUp
  <2>3. PICK f : SumsUp(f, w, R) /\ Walked(tl) = f[R]
    BY <2>1
  <2>4. PICK e : SumsUp(e, v, D) /\ FoundWalk(found) = e[D]
    BY <2>2
  <2>5. \A i \in M : v[i] <= w[g[i]]
    BY <1>6, <1>9
  <2>6. \A i \in D \ M : v[i] = 0
    BY <1>5, <1>7
  <2> HIDE DEF v, w
  <2>7. e[D] <= f[R]
    BY <1>1, <1>2, <1>3, <1>9, <2>1, <2>2, <2>3, <2>4, <2>5, <2>6, SumOfPart
  <2>8. e[D] \in Nat /\ f[R] \in Nat
    <3>1. e \in [SUBSET D -> Nat] /\ f \in [SUBSET R -> Nat]
      BY <1>1, <1>2, <2>1, <2>2, <2>3, <2>4, SumType
    <3> QED
      BY <3>1
  <2>9. Walked(tl) <= MaxWalked
    BY <1>1 DEF LimitsHold
  <2> QED
    BY <2>3, <2>4, <2>7, <2>8, <2>9 DEF MaxWalked
<1>11. ~(q.budget # NoTime /\ FoundCost(d, found) > q.budget)
  <2> SUFFICES ASSUME q.budget # NoTime, FoundCost(d, found) > q.budget PROVE FALSE
    OBVIOUS
  <2> DEFINE v == Fares(d, found)
             w == [i \in R |-> FareOf[<<FromOf(tl, i), ToOf(tl, i)>>][tl[i].mode]]
  <2>1. \A i \in R : tl[i].mode \in Modes
    <3> SUFFICES ASSUME NEW i \in R PROVE tl[i].mode \in Modes
      OBVIOUS
    <3> DEFINE leg == <<FromOf(tl, i), ToOf(tl, i)>>
    <3>1. FoundFor(q, tl, i) # NoEvidence
      BY PassingPlan DEF GoodPlan, R
    <3>2. leg \in Legs /\ tl[i].start \in Nat
      BY <1>1, EventFacts DEF IsTimeline, R
    <3>3. FoundFor(q, tl, i) = RouteForMode(q, leg, tl[i].start, tl[i].mode)
      BY DEF FoundFor
    <3> HIDE DEF leg
    <3>4. Travels(q, leg, tl[i].start, RouteForMode(q, leg, tl[i].start, tl[i].mode))
          /\ RouteForMode(q, leg, tl[i].start, tl[i].mode).mode = tl[i].mode
      BY <1>1, <3>1, <3>2, <3>3, EvidenceFacts
    <3> QED
      BY <3>4 DEF Travels
  <2>2. w \in [R -> Nat] /\ \E f : SumsUp(f, w, R) /\ Cost(tl) = f[R]
    BY <1>1, <2>1, CostAddsUp DEF R
  <2>3. \A i \in M : LegOf(d, i) \in Legs
    <3>1. \A i \in M : g[i] \in R
      BY <1>3
    <3>2. \A j \in R : <<FromOf(tl, j), ToOf(tl, j)>> \in Legs
      BY <1>1 DEF IsTimeline, R
    <3> QED
      BY <1>6, <3>1, <3>2
  <2>4. v \in [M -> Nat] /\ \E e : SumsUp(e, v, M) /\ FoundCost(d, found) = e[M]
    <3>1. IsFiniteSet(DOMAIN found)
      BY <1>2, <1>4
    <3>2. \A i \in Moves(found) : LegOf(d, i) \in Legs
      BY <1>8, <2>3
    <3> HIDE DEF v
    <3>3. /\ v \in [Moves(found) -> Nat]
          /\ \E e : SumsUp(e, v, Moves(found)) /\ FoundCost(d, found) = e[Moves(found)]
      BY <3>1, <3>2, FoundCostAddsUp DEF v
    <3> QED
      BY <1>8, <3>3, Zenon
  <2>5. PICK f : SumsUp(f, w, R) /\ Cost(tl) = f[R]
    BY <2>2
  <2>6. PICK e : SumsUp(e, v, M) /\ FoundCost(d, found) = e[M]
    BY <2>4
  <2>7. \A i \in M : v[i] <= w[g[i]]
    <3> SUFFICES ASSUME NEW i \in M PROVE v[i] <= w[g[i]]
      OBVIOUS
    <3>1. g[i] \in R /\ v[i] \in Nat
      <4> HIDE DEF v
      <4> QED
        BY <1>3, <2>4
    <3>2. v[i] = FareOf[LegOf(d, i)][found[i].mode]
          /\ w[g[i]] = FareOf[<<FromOf(tl, g[i]), ToOf(tl, g[i])>>][tl[g[i]].mode]
      BY <1>8, <3>1 DEF Fares
    <3>3. LegOf(d, i) = <<FromOf(tl, g[i]), ToOf(tl, g[i])>> /\ found[i].mode = tl[g[i]].mode
      BY <1>6
    <3>4. v[i] = w[g[i]]
      <4> HIDE DEF v, w
      <4> QED
        BY <3>2, <3>3, Zenon
    <3> HIDE DEF v, w
    <3> QED
      BY <3>1, <3>4
  <2> HIDE DEF v, w
  <2>8. IsFiniteSet(M) /\ M \in SUBSET M /\ \A i \in M \ M : v[i] = 0
    BY <1>2, <1>9, FS_Subset
  <2>9. e[M] <= f[R]
    BY <1>1, <1>3, <2>2, <2>4, <2>5, <2>6, <2>7, <2>8, SumOfPart
  <2>10. e[M] \in Nat /\ f[R] \in Nat
    <3>1. e \in [SUBSET M -> Nat] /\ f \in [SUBSET R -> Nat]
      BY <1>1, <2>2, <2>4, <2>5, <2>6, <2>8, SumType
    <3> QED
      BY <3>1
  <2>11. Cost(tl) <= q.budget /\ q.budget \in Nat
    BY <1>1 DEF LimitsHold, IsRequest
  <2> QED
    BY <2>5, <2>6, <2>9, <2>10, <2>11
<1> QED
  BY <1>10, <1>11

--------------------------------------------------------------------------------
\* What is left of the plan needs no other rest than the plan.

\* A meal or a rest ends a stretch without a break.
Break(d, k) == KindOf[d.acts[k].place] \in {"meal", "rest"}

\* A break that lies in a stretch of the plan is one of the activities left.
LEMMA BreaksAreLeft ==
  ASSUME NEW tl, IsTimeline(tl), NEW low, NEW order, NEW d, IsRest(tl, low, order, d),
         NEW i \in 1..Len(tl), low < i, tl[i].type \in {"meal", "rest"}
  PROVE  \E k \in 1..Len(order) : order[k] = i /\ Break(d, k)
<1>1. Activity(tl[i])
  BY DEF Activity, Kinds
<1>2. /\ low \in Nat /\ Len(tl) \in Nat /\ DOMAIN tl = 1..Len(tl)
      /\ \A j \in (low + 1)..Len(tl) : Activity(tl[j]) => \E k \in 1..Len(order) : order[k] = j
  BY EventFacts, LegsOfThePlan DEF IsRest, ListsStays
<1>3. PICK k \in 1..Len(order) : order[k] = i
  BY <1>1, <1>2
<1>4. d.acts[k].place = tl[i].place
  BY <1>3 DEF IsRest
<1>5. tl[i].type = KindOf[tl[i].place]
  BY <1>1, <1>2 DEF IsTimeline
<1> QED
  BY <1>3, <1>4, <1>5 DEF Break

\* From the end of one activity to the next break or the end of another, without a
\* break on the way, it is no longer than in the plan.
LEMMA RestWindow ==
  ASSUME NEW q, NEW tl, NEW open, GoodPlan(q, tl, open), q.restRequired,
         NEW low, NEW order, NEW d, IsRest(tl, low, order, d),
         NEW m \in 0..Len(order), NEW k \in (m + 1)..(Len(order) + 1),
         \A l \in (m + 1)..(k - 1) : ~Break(d, l)
  PROVE  /\ PlannedEnd(tl, d, k) - LeavesAt(d, m + 1) <= MaxContinuous
         /\ k <= Len(order) /\ ~Break(d, k) =>
              d.acts[k].end - LeavesAt(d, m + 1) <= MaxContinuous
<1> DEFINE n == Len(order)
           L == Len(tl)
           i == LegAfter(low, order, m + 1) + 1
           j == LegBefore(tl, order, k)
<1>1. IsTimeline(tl) /\ Gapless(tl) /\ RestHolds(q, tl) /\ ListsStays(tl, low, order)
  BY PassingPlan DEF GoodPlan, IsRest
<1>2. n \in Nat \ {0} /\ L \in Nat /\ low \in Nat /\ low < L /\ \A l \in 1..n : order[l] \in 1..L
  BY <1>1, LegsOfThePlan
<1>3. m \in Nat /\ k \in Nat /\ m < k /\ m + 1 \in 1..(n + 1) /\ k \in 1..(n + 1)
  BY <1>2
<1>4. i \in (low + 1)..(L + 1) /\ j \in (low + 1)..(L + 1) /\ i <= j
  <2>1. /\ LegAfter(low, order, m + 1) \in low..L
        /\ LegBefore(tl, order, k) \in (low + 1)..(L + 1)
        /\ LegAfter(low, order, m + 1) < LegBefore(tl, order, m + 1)
        /\ LegAfter(low, order, k) < LegBefore(tl, order, k)
        /\ LegBefore(tl, order, m + 1) \in Int /\ LegAfter(low, order, k) \in Int
        /\ m + 1 < k => LegBefore(tl, order, m + 1) <= LegAfter(low, order, k)
    BY <1>1, <1>3, LegsOfThePlan
  <2>2. m + 1 = k \/ m + 1 < k
    BY <1>3
  <2> QED
    BY <1>2, <2>1, <2>2, SMTT(30)
<1>5. /\ \A l \in 1..L : tl[l].start \in Nat /\ tl[l].end \in Nat /\ tl[l].start < tl[l].end
      /\ DOMAIN tl = 1..L
  BY <1>1, EventFacts
<1>6. LeavesAt(d, m + 1) \in Nat /\ (i <= L => tl[i].start <= LeavesAt(d, m + 1))
      /\ (m + 1 > 1 => LeavesAt(d, m + 1) = tl[order[m]].end)
  <2>1. /\ LeavesAt(d, m + 1) \in Nat
        /\ LegAfter(low, order, m + 1) < L =>
             tl[LegAfter(low, order, m + 1) + 1].start <= LeavesAt(d, m + 1)
        /\ m + 1 > 1 => LeavesAt(d, m + 1) = tl[order[(m + 1) - 1]].end
    <3> DEFINE h == m + 1
    <3>1. h \in 1..(Len(order) + 1)
      BY <1>3
    <3> HIDE DEF h
    <3>2. /\ LeavesAt(d, h) \in Nat
          /\ LegAfter(low, order, h) < L => tl[LegAfter(low, order, h) + 1].start <= LeavesAt(d, h)
          /\ h > 1 => LeavesAt(d, h) = tl[order[h - 1]].end
      BY <1>1, <3>1, RestTimes
    <3>3. h = m + 1
      BY DEF h
    <3> QED
      BY <3>2, <3>3, Zenon
  <2>2. (m + 1) - 1 = m /\ (i <= L => LegAfter(low, order, m + 1) < L)
    <3>1. LegAfter(low, order, m + 1) \in low..L
      BY <1>1, <1>3, LegsOfThePlan
    <3> QED
      BY <1>2, <1>3, <3>1
  <2> QED
    BY <2>1, <2>2
<1>7. ASSUME NEW a \in i..L, tl[a].type \in {"meal", "rest"}, a < j PROVE FALSE
  <2>1. a \in 1..L /\ low < a
    BY <1>2, <1>4
  <2>2. PICK l \in 1..n : order[l] = a /\ Break(d, l)
    BY <1>1, <1>7, <2>1, BreaksAreLeft
  <2>3. \A x, y \in 1..n : x < y => order[x] < order[y]
    BY <1>1 DEF ListsStays
  <2>4. l > m
    <3> SUFFICES ASSUME ~(l > m) PROVE FALSE
      OBVIOUS
    <3>1. m \in 1..n /\ l <= m
      BY <1>2, <1>3
    <3>2. LegAfter(low, order, m + 1) = order[m]
      BY <1>3, <3>1 DEF LegAfter
    <3>3. order[l] <= order[m]
      BY <1>2, <2>3, <3>1
    <3> QED
      BY <1>2, <1>4, <2>2, <3>1, <3>2, <3>3, SMTT(30)
  <2>5. l < k
    <3> SUFFICES ASSUME ~(l < k) PROVE FALSE
      OBVIOUS
    <3>1. k \in 1..n /\ k <= l
      BY <1>2, <1>3
    <3>2. j = order[k]
      BY <1>3, <3>1 DEF LegBefore
    <3>3. order[k] <= order[l]
      BY <1>2, <2>3, <3>1, SMTT(30)
    <3> QED
      BY <1>2, <1>7, <2>2, <3>1, <3>2, <3>3
  <2>6. l \in (m + 1)..(k - 1)
    BY <1>3, <2>4, <2>5
  <2> QED
    BY <2>2, <2>6
<1>8. ASSUME NEW b \in i..L, \A a \in i..b : tl[a].type \notin {"meal", "rest"}
      PROVE  tl[b].end - LeavesAt(d, m + 1) <= MaxContinuous
  <2>1. i \in DOMAIN tl /\ b \in i..Len(tl) /\ i \in 1..L /\ b \in 1..L
    BY <1>2, <1>4, <1>5
  <2>2. tl[b].end - tl[i].start <= MaxContinuous
    BY <1>1, <1>8, <2>1 DEF RestHolds
  <2> DEFINE x == tl[b].end
             y == tl[i].start
             z == LeavesAt(d, m + 1)
  <2>3. x \in Nat /\ y \in Nat
    BY <1>5, <2>1
  <2>4. z \in Nat /\ y <= z
    BY <1>6, <2>1, SMTT(30)
  <2>5. x - y <= MaxContinuous
    BY <2>2
  <2>6. x - z <= MaxContinuous
    <3> HIDE DEF x, y, z
    <3> QED
      BY <2>3, <2>4, <2>5, SMTT(30) DEF MaxContinuous
  <2> QED
    BY <2>6
<1>9. PlannedEnd(tl, d, k) - LeavesAt(d, m + 1) <= MaxContinuous
  <2>0. Len(d.acts) = n /\ d.at \in Nat
    BY DEF IsRest, IsDay
  <2>1. CASE i < j
    <3>1. j - 1 \in i..L
      BY <1>2, <1>4, <2>1
    <3>2. \A a \in i..(j - 1) : tl[a].type \notin {"meal", "rest"}
      BY <1>2, <1>4, <1>7, SMTT(30)
    <3>3. tl[j - 1].end - LeavesAt(d, m + 1) <= MaxContinuous
      BY <1>8, <3>1, <3>2
    <3>4. PlannedEnd(tl, d, k) = tl[j - 1].end
      <4>1. CASE k \in 1..n
        <5>1. j = order[k] /\ PlannedEnd(tl, d, k) = d.acts[k].start
          BY <1>2, <2>0, <4>1 DEF LegBefore, PlannedEnd
        <5>2. d.acts[k].start = tl[order[k]].start
          <6>1. d.acts[k].start = tl[order[k]].start \/ (k = 1 /\ order[1] = low + 1)
            BY <4>1 DEF IsRest
          <6>2. ~(k = 1 /\ order[1] = low + 1)
            BY <1>2, <1>4, <2>1, <5>1
          <6> QED
            BY <6>1, <6>2
        <5>3. j - 1 \in 1..(L - 1) /\ (j - 1) + 1 = j
          BY <1>2, <1>4, <2>1, <4>1, <5>1, SMTT(30)
        <5>4. tl[j - 1].end = tl[j].start
          BY <1>1, <5>3 DEF Gapless
        <5> QED
          BY <5>1, <5>2, <5>4
      <4>2. CASE k = n + 1
        BY <1>2, <2>0, <4>2 DEF LegBefore, PlannedEnd
      <4> QED
        BY <1>2, <1>3, <4>1, <4>2
    <3> QED
      BY <3>3, <3>4
  <2>2. CASE ~(i < j)
    <3>1. i = j
      BY <1>2, <1>4, <2>2
    <3>2. CASE m = 0
      <4>1. i = low + 1 /\ m + 1 = 1
        BY <1>2, <3>2 DEF LegAfter
      <4>2. k = 1
        <5>1. m + 1 < k => LegBefore(tl, order, 1) <= LegAfter(low, order, k)
          BY <1>1, <1>3, <4>1, LegsOfThePlan
        <5>2. /\ LegAfter(low, order, k) < LegBefore(tl, order, k) /\ LegAfter(low, order, k) \in Int
              /\ LegBefore(tl, order, 1) \in (low + 1)..(L + 1)
          BY <1>1, <1>2, <1>3, LegsOfThePlan
        <5> QED
          BY <1>2, <1>3, <1>4, <3>1, <3>2, <4>1, <5>1, <5>2
      <4>3. j = order[1] /\ PlannedEnd(tl, d, k) = d.acts[1].start
        BY <1>2, <2>0, <4>2 DEF LegBefore, PlannedEnd
      <4>4. d.at = d.acts[1].start /\ LeavesAt(d, m + 1) = d.at
        BY <3>1, <4>1, <4>3 DEF IsRest, LeavesAt
      <4> QED
        BY <2>0, <4>3, <4>4 DEF MaxContinuous
    <3>3. CASE m # 0
      <4>1. m \in 1..n /\ i = order[m] + 1 /\ LeavesAt(d, m + 1) = tl[order[m]].end
        BY <1>2, <1>3, <1>6, <3>3 DEF LegAfter
      <4>2. CASE k \in 1..n
        <5>1. j = order[k] /\ PlannedEnd(tl, d, k) = d.acts[k].start
          BY <1>2, <2>0, <4>2 DEF LegBefore, PlannedEnd
        <5>2. d.acts[k].start = tl[order[k]].start
          <6>1. d.acts[k].start = tl[order[k]].start \/ (k = 1 /\ order[1] = low + 1)
            BY <4>2 DEF IsRest
          <6> QED
            BY <1>3, <3>3, <6>1
        <5>3. order[m] \in 1..(L - 1) /\ order[m] + 1 = order[k]
          BY <1>2, <3>1, <4>1, <4>2, <5>1, SMTT(30)
        <5>4. tl[order[m]].end = tl[order[k]].start
          BY <1>1, <5>3 DEF Gapless
        <5> QED
          BY <1>6, <4>1, <5>1, <5>2, <5>4 DEF MaxContinuous
      <4>3. CASE k = n + 1
        <5>1. j = L + 1 /\ PlannedEnd(tl, d, k) = tl[L].end
          BY <1>2, <2>0, <4>3 DEF LegBefore, PlannedEnd
        <5>2. order[m] = L
          BY <1>2, <3>1, <4>1, <5>1
        <5> QED
          BY <1>6, <4>1, <5>1, <5>2 DEF MaxContinuous
      <4> QED
        BY <1>2, <1>3, <4>2, <4>3
    <3> QED
      BY <3>2, <3>3
  <2> QED
    BY <2>1, <2>2
<1>10. ASSUME k <= n, ~Break(d, k) PROVE d.acts[k].end - LeavesAt(d, m + 1) <= MaxContinuous
  <2>1. k \in 1..n /\ j = order[k] /\ j \in i..L
    BY <1>2, <1>3, <1>4, <1>10 DEF LegBefore
  <2>2. d.acts[k].end = tl[j].end /\ d.acts[k].place = tl[j].place
    BY <2>1 DEF IsRest
  <2>3. tl[j].type \notin {"meal", "rest"}
    <3>1. Activity(tl[j]) /\ j \in DOMAIN tl
      BY <1>1, <1>2, <1>5, <2>1 DEF ListsStays
    <3>2. tl[j].type = KindOf[tl[j].place]
      BY <1>1, <3>1 DEF IsTimeline
    <3> QED
      BY <1>10, <2>2, <3>2 DEF Break
  <2>4. \A a \in i..j : tl[a].type \notin {"meal", "rest"}
    <3> SUFFICES ASSUME NEW a \in i..j PROVE tl[a].type \notin {"meal", "rest"}
      OBVIOUS
    <3>1. a \in i..L /\ (a < j \/ a = j)
      BY <1>2, <1>4, <2>1
    <3> QED
      BY <1>7, <2>3, <3>1
  <2>5. tl[j].end - LeavesAt(d, m + 1) <= MaxContinuous
    BY <1>8, <2>1, <2>4
  <2> QED
    BY <2>2, <2>5
<1> QED
  BY <1>9, <1>10

\* One step of LongestStretch: the leg and the stay that follow what s says.
Stretched(q, d, found, i, s) ==
  LET e == found[i]
      leg == IF e = NoEvidence THEN Max({0, DueAt(q, d, i) - LeavesAt(d, i)}) ELSE e.minutes
      there == s.now + leg
      ends == i > Len(d.acts)
      stay == IF ends THEN 0 ELSE d.acts[i].end - d.acts[i].start
      break == ~ends /\ KindOf[d.acts[i].place] \in {"meal", "rest"}
  IN [now |-> IF break THEN 0 ELSE there + stay,
      max |-> Max({s.max, IF break THEN there ELSE there + stay})]

\* What LongestStretch knows after some legs.
Stretches == [now : Nat, max : Nat]

\* How long it is by then since the last break, the break itself aside.
Reached(d, found, i, s) ==
  LET there == s.now + found[i].minutes
  IN IF i > Len(d.acts) THEN there
     ELSE IF Break(d, i) THEN there
     ELSE there + (d.acts[i].end - d.acts[i].start)

\* The steps of LongestStretch.
StretchedBy(q, d, found, h) ==
  /\ h[0] = [now |-> 0, max |-> 0]
  /\ \A i \in 1..(Len(d.acts) + 1) : h[i] = Stretched(q, d, found, i, h[i - 1])
  /\ LongestStretch(q, d, found) = h[Len(d.acts) + 1].max

\* How a step goes on: what has been reached counts, unless a break lies there.
IsStretched(q, d, found, i, s) ==
  LET t == Stretched(q, d, found, i, s)
      x == Reached(d, found, i, s)
  IN /\ t \in Stretches /\ x \in Nat
     /\ t.now = (IF i <= Len(d.acts) /\ Break(d, i) THEN 0 ELSE x)
     /\ t.max = (IF s.max <= x THEN x ELSE s.max)

\* A step goes on from what was reached, and counts it unless a break ends there.
LEMMA StretchedType ==
  ASSUME NEW q, NEW d, IsDay(d), NEW found, NEW i \in 1..(Len(d.acts) + 1),
         found[i] # NoEvidence, found[i].minutes \in Nat, NEW s \in Stretches
  PROVE  IsStretched(q, d, found, i, s)
<1> DEFINE there == s.now + found[i].minutes
           t == Stretched(q, d, found, i, s)
           ends == i > Len(d.acts)
           stay == IF ends THEN 0 ELSE d.acts[i].end - d.acts[i].start
           break == ~ends /\ KindOf[d.acts[i].place] \in {"meal", "rest"}
           y == IF break THEN there ELSE there + stay
           x == IF i > Len(d.acts) THEN there
                ELSE IF Break(d, i) THEN there
                ELSE there + (d.acts[i].end - d.acts[i].start)
<1>1. t = [now |-> IF break THEN 0 ELSE there + stay, max |-> Max({s.max, y})]
  BY Zenon DEF Stretched
<1>2. Len(d.acts) \in Nat /\ there \in Nat /\ s.now \in Nat /\ s.max \in Nat
  BY SMTT(30) DEF IsDay, Stretches
<1>3. ~ends => d.acts[i].start \in Nat /\ d.acts[i].end \in Nat /\ d.acts[i].start < d.acts[i].end
  <2>1. ~ends => i \in 1..Len(d.acts)
    BY <1>2
  <2> QED
    BY <2>1, ActsOfADay
<1>4. ends <=> ~(i <= Len(d.acts))
  BY <1>2
<1>5. break <=> i <= Len(d.acts) /\ Break(d, i)
  BY <1>4 DEF Break
<1> HIDE DEF there, t
<1>6. stay \in Nat
  BY <1>3
<1>7. x = y /\ y \in Nat
  <2> HIDE DEF break
  <2> QED
    BY <1>2, <1>4, <1>5, <1>6
<1>8. t.now = (IF i <= Len(d.acts) /\ Break(d, i) THEN 0 ELSE x)
  <2>1. t.now = IF break THEN 0 ELSE there + stay
    BY <1>1
  <2> HIDE DEF break, stay, ends
  <2>2. CASE break
    BY <1>5, <2>1, <2>2
  <2>3. CASE ~break
    <3>1. y = there + stay
      BY <2>3
    <3> HIDE DEF x, y
    <3> QED
      BY <1>5, <1>7, <2>1, <2>3, <3>1
  <2> QED
    BY <2>2, <2>3
<1> HIDE DEF y, x, stay, break, ends
<1>9. Max({s.max, y}) = IF s.max <= y THEN y ELSE s.max
  BY <1>2, <1>7, MaxOfTwo
<1>10. t.max = (IF s.max <= x THEN x ELSE s.max)
  BY <1>1, <1>7, <1>9
<1>11. t \in Stretches
  <2>1. Max({s.max, y}) \in Nat
    BY <1>2, <1>7, <1>9
  <2> QED
    BY <1>1, <1>2, <1>6, <2>1 DEF Stretches
<1> QED
  BY <1>7, <1>8, <1>10, <1>11 DEF there, t, x, Reached, IsStretched

\* Sums of times that the provers find when they are stated for all numbers.
LEMMA Shifted ==
  \A t \in Int, e \in Nat, p \in Nat, l \in Nat : t <= p - l => t + (e - p) <= e - l
  OBVIOUS

LEMMA Chained ==
  \A s \in Nat, t \in Nat, e \in Nat, p \in Nat, l \in Nat :
    s <= e - l /\ e + t <= p => s + t \in Int /\ s + t <= p - l
  OBVIOUS

LEMMA Bounded ==
  \A t \in Int, e \in Nat, p \in Nat, l \in Nat : t <= p - l /\ e - l <= 120 => t + (e - p) <= 120
  OBVIOUS

\* LongestStretch takes the steps of Stretched.
LEMMA StretchSteps ==
  ASSUME NEW q, NEW d, IsDay(d), NEW found, Len(found) = Len(d.acts) + 1,
         \A i \in 1..(Len(d.acts) + 1) : found[i] # NoEvidence /\ found[i].minutes \in Nat
  PROVE  \E h : StretchedBy(q, d, found, h)
<1> DEFINE N == Len(d.acts) + 1
           Value(f, i) == IF i = 0 THEN [now |-> 0, max |-> 0]
                          ELSE Stretched(q, d, found, i, f[i - 1])
           h == CHOOSE f : f = [i \in 0..Len(found) |-> Value(f, i)]
<1>1. LongestStretch(q, d, found) = h[Len(found)].max
  BY Zenon DEF LongestStretch, Stretched
<1>2. N \in Nat \ {0} /\ Len(found) = N
  BY DEF IsDay
<1>3. \E f : f = [i \in 0..Len(found) |-> Value(f, i)]
  <2> DEFINE a == [now |-> 0, max |-> 0]
             G == [p \in (1..N) \X Stretches |-> Stretched(q, d, found, p[1], p[2])]
  <2>1. a \in Stretches
    BY DEF Stretches
  <2>2. ASSUME NEW i \in 1..N, NEW s \in Stretches PROVE Stretched(q, d, found, i, s) \in Stretches
    BY StretchedType DEF IsStretched
  <2>3. G \in [(1..N) \X Stretches -> Stretches]
    BY <2>2
  <2>4. ASSUME NEW i \in 1..N, NEW s \in Stretches
        PROVE  G[<<i, s>>] = Stretched(q, d, found, i, s)
    OBVIOUS
  <2> HIDE DEF a, G, N
  <2>5. PICK f : f \in [0..N -> Stretches] /\ f[0] = a /\ \A i \in 1..N : f[i] = G[<<i, f[i - 1]>>]
    <3>1. AreSteps(N, Stretches, a, G)
      BY <1>2, <2>1, <2>3 DEF AreSteps
    <3>2. \E f : Follows(f, N, Stretches, a, G)
      BY <3>1, StepsExist
    <3> QED
      BY <3>2 DEF Follows
  <2>6. ASSUME NEW i \in 0..N PROVE f[i] = Value(f, i)
    <3>1. CASE i = 0
      BY <2>5, <3>1 DEF a
    <3>2. CASE i # 0
      <4>1. i \in 1..N /\ i - 1 \in 0..N
        BY <1>2, <3>2
      <4>2. f[i - 1] \in Stretches
        BY <2>5, <4>1
      <4> QED
        BY <2>4, <2>5, <3>2, <4>1, <4>2
    <3> QED
      BY <3>1, <3>2
  <2> HIDE DEF Value
  <2>7. f = [i \in 0..N |-> Value(f, i)]
    BY <2>5, <2>6
  <2> QED
    BY <1>2, <2>7
<1>4. h = [i \in 0..Len(found) |-> Value(h, i)]
  <2> HIDE DEF Value
  <2> QED
    BY <1>3, Zenon
<1> HIDE DEF h
<1>5. h[0] = [now |-> 0, max |-> 0]
  BY <1>2, <1>4
<1>6. ASSUME NEW i \in 1..N PROVE h[i] = Stretched(q, d, found, i, h[i - 1])
  <2>1. i \in 0..Len(found) /\ i # 0
    BY <1>2
  <2> HIDE DEF Value
  <2>2. h[i] = Value(h, i)
    BY <1>4, <2>1
  <2> QED
    BY <2>1, <2>2 DEF Value
<1> QED
  BY <1>1, <1>2, <1>5, <1>6 DEF StretchedBy

\* Each leg is over when the plan has it over.
InPlannedTime(tl, d, found) ==
  /\ Len(found) = Len(d.acts) + 1
  /\ \A k \in 1..(Len(d.acts) + 1) :
       /\ found[k] # NoEvidence /\ found[k].minutes \in Nat
       /\ LeavesAt(d, k) + found[k].minutes <= PlannedEnd(tl, d, k)

\* No stretch of what is left of the plan is longer than one of the plan may be.
LEMMA RestStretch ==
  ASSUME NEW q, NEW tl, NEW open, GoodPlan(q, tl, open), q.restRequired,
         NEW low, NEW order, NEW d, IsRest(tl, low, order, d),
         NEW found, InPlannedTime(tl, d, found)
  PROVE  ~(LongestStretch(q, d, found) > MaxContinuous)
<1> DEFINE n == Len(order)
           N == n + 1
<1>1. IsDay(d) /\ Len(d.acts) = n /\ n \in Nat \ {0} /\ IsTimeline(tl) /\ Gapless(tl)
  <2>1. IsDay(d) /\ Len(d.acts) = n /\ IsTimeline(tl) /\ Gapless(tl) /\ ListsStays(tl, low, order)
    BY PassingPlan DEF IsRest, GoodPlan
  <2> QED
    BY <2>1, LegsOfThePlan
<1>2. Len(found) = N
  BY <1>1 DEF InPlannedTime
<1>3. \A k \in 1..N :
        /\ found[k] # NoEvidence /\ found[k].minutes \in Nat
        /\ LeavesAt(d, k) + found[k].minutes <= PlannedEnd(tl, d, k)
  BY <1>1 DEF InPlannedTime
<1>4. PICK h : /\ h[0] = [now |-> 0, max |-> 0]
               /\ \A i \in 1..N : h[i] = Stretched(q, d, found, i, h[i - 1])
               /\ LongestStretch(q, d, found) = h[N].max
  <2>1. \A i \in 1..(Len(d.acts) + 1) : found[i] # NoEvidence /\ found[i].minutes \in Nat
    BY <1>1, <1>3
  <2>2. Len(found) = Len(d.acts) + 1
    BY <1>1, <1>2
  <2>3. \E h : StretchedBy(q, d, found, h)
    BY <1>1, <2>1, <2>2, StretchSteps
  <2> QED
    BY <1>1, <2>3 DEF StretchedBy
<1> DEFINE Since(i, m) ==
             /\ \A l \in (m + 1)..i : ~Break(d, l)
             /\ h[i].now <= LeavesAt(d, i + 1) - LeavesAt(d, m + 1)
           Ok(i) == /\ h[i] \in Stretches /\ h[i].max <= MaxContinuous
                    /\ i <= n => \E m \in 0..i : Since(i, m)
           Q == {i \in Nat : i <= N => Ok(i)}
<1>5. \A k \in 1..N : LeavesAt(d, k) \in Nat /\ PlannedEnd(tl, d, k) \in Nat
                      /\ (k <= n => PlannedEnd(tl, d, k) = d.acts[k].start)
  BY <1>1, RestTimes
<1>6. 0 \in Q
  <2>1. h[0] \in Stretches /\ h[0].max <= MaxContinuous /\ h[0].now = 0
    BY <1>4 DEF Stretches, MaxContinuous
  <2>2. LeavesAt(d, 0 + 1) \in Nat
    BY <1>1, <1>5
  <2>3. Since(0, 0)
    BY <2>1, <2>2
  <2> HIDE DEF Since
  <2> QED
    BY <2>1, <2>3
<1>7. ASSUME NEW i \in Q PROVE i + 1 \in Q
  <2> SUFFICES ASSUME i + 1 <= N PROVE Ok(i + 1)
    OBVIOUS
  <2> DEFINE k == i + 1
  <2>1. i \in Nat /\ i <= n /\ Ok(i) /\ k \in 1..N
    BY <1>1
  <2>2. PICK m \in 0..i : Since(i, m)
    BY <2>1
  <2>3. m \in 0..n /\ k \in (m + 1)..N /\ \A l \in (m + 1)..(k - 1) : ~Break(d, l)
    BY <1>1, <2>1, <2>2
  <2>4. /\ PlannedEnd(tl, d, k) - LeavesAt(d, m + 1) <= MaxContinuous
        /\ k <= n /\ ~Break(d, k) => d.acts[k].end - LeavesAt(d, m + 1) <= MaxContinuous
    <3> HIDE DEF k
    <3> QED
      BY <2>3, RestWindow
  <2>5. h[i].now <= LeavesAt(d, k) - LeavesAt(d, m + 1) /\ h[i] \in Stretches
        /\ h[i].now \in Nat /\ h[i].max \in Nat /\ h[i].max <= MaxContinuous
    BY <2>1, <2>2 DEF Stretches
  <2>6. LeavesAt(d, m + 1) \in Nat /\ LeavesAt(d, k) \in Nat /\ PlannedEnd(tl, d, k) \in Nat
    BY <1>1, <1>5, <2>1, <2>3
  <2> DEFINE there == h[i].now + found[k].minutes
             x == Reached(d, found, k, h[i])
  <2>7. h[k] = Stretched(q, d, found, k, h[i])
    BY <1>4, <2>1
  <2>8. /\ h[k] \in Stretches /\ x \in Nat
        /\ h[k].now = (IF k <= Len(d.acts) /\ Break(d, k) THEN 0 ELSE x)
        /\ h[k].max = (IF h[i].max <= x THEN x ELSE h[i].max)
    <3>1. k \in 1..(Len(d.acts) + 1) /\ found[k] # NoEvidence /\ found[k].minutes \in Nat
      BY <1>1, <1>3, <2>1
    <3> HIDE DEF k, Q, Ok, Since
    <3>2. IsStretched(q, d, found, k, h[i])
      BY <1>1, <2>5, <3>1, StretchedType
    <3> QED
      BY <2>7, <3>2, Zenon DEF IsStretched
  <2>9. there \in Int /\ there <= PlannedEnd(tl, d, k) - LeavesAt(d, m + 1)
    <3>1. found[k].minutes \in Nat /\ LeavesAt(d, k) + found[k].minutes <= PlannedEnd(tl, d, k)
      BY <1>3, <2>1
    <3> QED
      BY <2>5, <2>6, <3>1, Chained
  <2>10. k <= n => /\ d.acts[k].start = PlannedEnd(tl, d, k) /\ d.acts[k].end \in Nat
                   /\ LeavesAt(d, k + 1) = d.acts[k].end
    <3>1. k <= n => k \in 1..n /\ k + 1 # 1 /\ (k + 1) - 1 = k
      BY <1>1, <2>1
    <3>2. k <= n => d.acts[k].end \in Nat
      BY <1>1, <3>1, ActsOfADay
    <3> QED
      BY <1>1, <1>5, <2>1, <3>1, <3>2 DEF LeavesAt
  <2>11. /\ k > Len(d.acts) \/ Break(d, k) => x = there
         /\ ~(k > Len(d.acts)) /\ ~Break(d, k) => x = there + (d.acts[k].end - d.acts[k].start)
    BY Zenon DEF Reached
  <2> HIDE DEF k, there, x
  <2>12. k <= n \/ k > n
    BY <1>1, <2>1
  <2>13. x <= MaxContinuous
    <3>1. CASE k <= n /\ ~Break(d, k)
      <4>1. x = there + (d.acts[k].end - d.acts[k].start)
        BY <1>1, <2>1, <2>11, <3>1
      <4>2. d.acts[k].end - LeavesAt(d, m + 1) <= 120
        BY <2>4, <3>1 DEF MaxContinuous
      <4>3. d.acts[k].start = PlannedEnd(tl, d, k) /\ d.acts[k].end \in Nat
        BY <2>10, <3>1
      <4>4. there \in Int
        BY <2>9
      <4>5. there <= PlannedEnd(tl, d, k) - LeavesAt(d, m + 1)
        BY <2>9
      <4>6. PlannedEnd(tl, d, k) \in Nat /\ LeavesAt(d, m + 1) \in Nat
        BY <2>6
      <4>7. x <= 120
        BY <4>1, <4>2, <4>3, <4>4, <4>5, <4>6, Bounded
      <4> QED
        BY <4>7 DEF MaxContinuous
    <3>2. CASE ~(k <= n /\ ~Break(d, k))
      <4>1. x = there
        BY <1>1, <2>1, <2>12, <2>11, <3>2
      <4> QED
        BY <2>4, <2>6, <2>9, <4>1 DEF MaxContinuous
    <3> QED
      BY <3>1, <3>2
  <2>14. h[k].max <= MaxContinuous
    BY <2>5, <2>8, <2>13
  <2>15. ASSUME k <= n PROVE \E e \in 0..k : Since(k, e)
    <3>1. k \in Nat /\ k <= Len(d.acts)
      BY <1>1, <2>1, <2>15
    <3>2. CASE Break(d, k)
      <4>1. h[k].now = 0
        BY <2>8, <3>1, <3>2
      <4>2. k \in 0..k /\ LeavesAt(d, k + 1) \in Nat
        BY <2>10, <2>15, <3>1, SMTT(30)
      <4>3. Since(k, k)
        BY <3>1, <4>1, <4>2
      <4> HIDE DEF Since
      <4> QED
        BY <4>2, <4>3
    <3>3. CASE ~Break(d, k)
      <4>1. x = there + (d.acts[k].end - d.acts[k].start)
        BY <1>1, <2>1, <2>15, <2>11, <3>3
      <4>2. h[k].now = x
        BY <2>8, <3>3
      <4>3. h[k].now <= LeavesAt(d, k + 1) - LeavesAt(d, m + 1)
        <5>1. d.acts[k].start = PlannedEnd(tl, d, k) /\ d.acts[k].end \in Nat
              /\ LeavesAt(d, k + 1) = d.acts[k].end
          BY <2>10, <2>15
        <5>2. there + (d.acts[k].end - PlannedEnd(tl, d, k)) <= d.acts[k].end - LeavesAt(d, m + 1)
          BY <2>6, <2>9, <5>1, Shifted
        <5> QED
          BY <4>1, <4>2, <5>1, <5>2
      <4>4. \A l \in (m + 1)..k : ~Break(d, l)
        <5> SUFFICES ASSUME NEW l \in (m + 1)..k PROVE ~Break(d, l)
          OBVIOUS
        <5>1. l = k \/ l \in (m + 1)..(k - 1)
          BY <2>3, <3>1
        <5> QED
          BY <2>3, <3>3, <5>1
      <4>5. m \in 0..k
        BY <2>3, <3>1
      <4>6. Since(k, m)
        BY <4>3, <4>4
      <4> HIDE DEF Since
      <4> QED
        BY <4>5, <4>6
    <3> QED
      BY <3>2, <3>3
  <2>16. Ok(k)
    <3> HIDE DEF Since
    <3> QED
      BY <2>8, <2>14, <2>15
  <2>17. k = i + 1
    BY DEF k
  <2> HIDE DEF Ok
  <2> QED
    BY <2>16, <2>17, Zenon
<1>8. N \in Q
  <2>1. Q \in SUBSET Nat
    OBVIOUS
  <2> HIDE DEF Q
  <2>2. Q = Nat
    BY <1>6, <1>7, <2>1, SetOfNaturals
  <2> QED
    BY <1>1, <2>2
<1>9. h[N].max \in Nat /\ h[N].max <= MaxContinuous
  <2>1. N \in Nat /\ N <= N
    BY <1>1
  <2>2. h[N] \in Stretches /\ h[N].max <= MaxContinuous
    BY <1>8, <2>1
  <2> QED
    BY <2>2 DEF Stretches
<1> QED
  BY <1>4, <1>9 DEF MaxContinuous

--------------------------------------------------------------------------------
\* The judgement of what is left of a plan.

\* Without a critical issue or risk a verdict is not disrupted.
LEMMA NotDisrupted ==
  ASSUME NEW issues, NEW risks, issues \cap Critical = {}, "critical" \notin risks
  PROVE  Verdict(issues, risks).timing # "disrupted"
<1> DEFINE evidence == EvidenceStatus(issues)
           Of(status, risk, timing) ==
             [status |-> status, risk |-> risk, timing |-> timing, evidence |-> evidence]
<1>1. Verdict(issues, risks) =
        IF evidence = "unavailable" THEN Of("unverifiable", "unknown", "unknown")
        ELSE IF "high" \in risks THEN Of("feasible_with_caution", "high", "at_risk")
        ELSE IF "medium" \in risks THEN Of("feasible_with_caution", "medium", "at_risk")
        ELSE IF evidence = "partial" THEN Of("feasible_with_caution", "low", "on_schedule")
        ELSE Of("feasible", "low", "on_schedule")
  <2>1. ~(issues \cap Critical # {} \/ "critical" \in risks)
    OBVIOUS
  <2> QED
    BY <2>1, Zenon DEF Verdict
<1> HIDE DEF evidence
<1> QED
  BY <1>1

\* Nothing is wrong with the whole of what is left.
LEMMA RestDayIssues ==
  ASSUME NEW q, NEW tl, NEW open, GoodPlan(q, tl, open),
         NEW low, NEW order, NEW d, IsRest(tl, low, order, d),
         NEW found, found = [k \in 1..(Len(order) + 1) |-> Looked(q, d, k)]
  PROVE  DayIssues(q, d, found) = {}
<1>1. IsTimeline(tl) /\ Gapless(tl) /\ Len(d.acts) = Len(order) /\ Len(order) \in Nat
  <2>1. IsTimeline(tl) /\ Gapless(tl) /\ ListsStays(tl, low, order) /\ Len(d.acts) = Len(order)
    BY PassingPlan DEF IsRest, GoodPlan
  <2> QED
    BY <2>1, LegsOfThePlan
<1>2. d.acts # <<>> /\ \A i \in 1..(Len(d.acts) - 1) : ~(d.acts[i].end > d.acts[i + 1].start)
  BY <1>1, RestInOrder
<1>3. ~(FoundWalk(found) > MaxWalked) /\ ~(q.budget # NoTime /\ FoundCost(d, found) > q.budget)
  BY RestLimits
<1>4. InPlannedTime(tl, d, found)
  <2> DEFINE S == {Looked(q, d, k) : k \in 1..(Len(order) + 1)}
  <2>1. found \in [1..(Len(order) + 1) -> S]
    OBVIOUS
  <2>2. Len(found) = Len(order) + 1
    <3> HIDE DEF S
    <3> QED
      BY <1>1, <2>1
  <2>3. ASSUME NEW k \in 1..(Len(order) + 1)
        PROVE  /\ found[k] # NoEvidence /\ found[k].minutes \in Nat
               /\ LeavesAt(d, k) + found[k].minutes <= PlannedEnd(tl, d, k)
    <3>1. found[k] = Looked(q, d, k)
      OBVIOUS
    <3>2. LET e == Looked(q, d, k) IN
            e # NoEvidence /\ e.minutes \in Nat /\ LeavesAt(d, k) + e.minutes <= PlannedEnd(tl, d, k)
      BY RestLeg
    <3> QED
      BY <3>1, <3>2
  <2> QED
    BY <1>1, <2>2, <2>3 DEF InPlannedTime
<1>5. ~(q.restRequired /\ LongestStretch(q, d, found) > MaxContinuous)
  BY <1>4, RestStretch
<1>6. ~(\E i \in 1..(Len(d.acts) - 1) : d.acts[i].end > d.acts[i + 1].start)
  BY <1>2
<1>7. DayIssues(q, d, found) = {} \cup {} \cup {} \cup {} \cup {}
  BY <1>2, <1>3, <1>5, <1>6, Zenon DEF DayIssues, FoundWalk, FoundCost, Moves
<1> QED
  BY <1>7

\* What is left of a plan is not judged to be disrupted.
LEMMA RestIsCalm ==
  ASSUME NEW q, NEW tl, NEW open, GoodPlan(q, tl, open),
         NEW low, NEW order, NEW d, IsRest(tl, low, order, d), ~TooLate(d.acts[1]),
         NEW found, found = [k \in 1..(Len(order) + 1) |-> Looked(q, d, k)]
  PROVE  Judged(q, d, found, TRUE).timing # "disrupted"
<1> DEFINE legs == {LegIssue(q, d, i, found[i]) : i \in DOMAIN found}
           stays == UNION {ActIssues(q, d.acts[i], TRUE) : i \in DOMAIN d.acts}
           issues == legs \cup stays \cup DayIssues(q, d, found)
           risks == {LegRisk(q, d, i, found[i]) : i \in DOMAIN found}
<1>1. Judged(q, d, found, TRUE) = Verdict(issues, risks)
  BY Zenon DEF Judged
<1>2. DOMAIN found = 1..(Len(order) + 1) /\ DOMAIN d.acts = 1..Len(order)
  <2>1. IsDay(d) /\ Len(d.acts) = Len(order)
    BY DEF IsRest
  <2> QED
    BY <2>1, ActsOfADay
<1>3. ASSUME NEW i \in DOMAIN found
      PROVE  LegIssue(q, d, i, found[i]) \notin Critical /\ LegRisk(q, d, i, found[i]) # "critical"
  <2>1. i \in 1..(Len(order) + 1) /\ found[i] = Looked(q, d, i)
    BY <1>2
  <2>2. /\ LegIssue(q, d, i, Looked(q, d, i)) \notin Critical
        /\ LegRisk(q, d, i, Looked(q, d, i)) # "critical"
    BY <2>1, RestLegIssues
  <2> QED
    BY <2>1, <2>2
<1>4. ASSUME NEW i \in DOMAIN d.acts PROVE ActIssues(q, d.acts[i], TRUE) \cap Critical = {}
  BY <1>2, RestStays
<1>5. DayIssues(q, d, found) = {}
  BY RestDayIssues
<1>6. legs \cap Critical = {} /\ stays \cap Critical = {} /\ "critical" \notin risks
  BY <1>3, <1>4
<1>7. issues \cap Critical = {}
  <2> HIDE DEF legs, stays
  <2> QED
    BY <1>5, <1>6
<1> HIDE DEF issues, risks
<1> QED
  BY <1>1, <1>6, <1>7, NotDisrupted

\* Nor does its evaluation come to that.
LEMMA RestEvaluated ==
  ASSUME NEW q, NEW tl, NEW open, GoodPlan(q, tl, open),
         NEW low, NEW order, NEW d, IsRest(tl, low, order, d), ~TooLate(d.acts[1])
  PROVE  Evaluated(q, d, Plain).verdict.timing # "disrupted"
<1> DEFINE a == Assess(q, d, Plain, 0, FALSE)
<1>1. IsRequest(q) /\ IsTimeline(tl) /\ IsDay(d) /\ Len(d.acts) = Len(order)
  BY DEF GoodPlan, IsRest
<1>2. Sorted(d) = d /\ Legged(d) = 1..(Len(order) + 1)
  <2>1. d.acts # <<>> /\ \A i, j \in 1..Len(d.acts) : i < j => d.acts[i].start <= d.acts[j].start
    BY <1>1, RestInOrder
  <2> QED
    BY <1>1, <2>1, SortedStays DEF Legged
<1>3. PlainDay(q, a) /\ a.day = d
  <2>1. PlainDay(q, Assess(q, d, Plain, 0, FALSE))
        /\ Assess(q, d, Plain, 0, FALSE).day = Sorted(d)
    BY <1>1, PlainAssessment, Zenon
  <2> QED
    BY <1>2, <2>1, Zenon
<1>6. Evaluated(q, d, Plain).verdict = a.verdict
  BY EvaluatedIsAssessed, Zenon
<1> HIDE DEF a
<1>4. /\ a.found = [k \in 1..(Len(order) + 1) |-> Looked(q, d, k)]
      /\ a.verdict = Judged(q, d, a.found, TRUE)
  BY <1>2, <1>3 DEF PlainDay
<1>5. Judged(q, d, a.found, TRUE).timing # "disrupted"
  <2> DEFINE found == a.found
  <2>1. found = [k \in 1..(Len(order) + 1) |-> Looked(q, d, k)]
    BY <1>4
  <2> HIDE DEF found
  <2>2. Judged(q, d, found, TRUE).timing # "disrupted"
    BY <2>1, RestIsCalm
  <2> QED
    BY <2>2 DEF found
<1> QED
  BY <1>4, <1>5, <1>6

--------------------------------------------------------------------------------
\* The constraints of the legs that are left.

\* The stays between which a transfer lies; 0 where there is none.
StayBefore(i) == IF Before(i) = {} THEN 0 ELSE Max(Before(i))
StayAfter(i) == IF After(i) = {} THEN 0 ELSE Min(After(i))

\* The nearest stays before and after an event are stays, and none is nearer.
LEMMA StaysBeside ==
  ASSUME IsTimeline(trip.tl), NEW i \in 1..Len(trip.tl)
  PROVE  /\ StayBefore(i) \in 0..(i - 1) /\ StayAfter(i) \in {0} \cup (i + 1)..Len(trip.tl)
         /\ StayBefore(i) # 0 => Activity(trip.tl[StayBefore(i)])
         /\ StayAfter(i) # 0 => Activity(trip.tl[StayAfter(i)])
         /\ After(i) = {} <=> StayAfter(i) = 0
         /\ \A j \in 1..(i - 1) : Activity(trip.tl[j]) => j <= StayBefore(i)
         /\ \A j \in (i + 1)..Len(trip.tl) : Activity(trip.tl[j]) =>
              StayAfter(i) # 0 /\ StayAfter(i) <= j
<1>1. Len(trip.tl) \in Nat
  BY EventFacts
<1>2. /\ \A j \in Before(i) : j \in 1..(i - 1) /\ Activity(trip.tl[j])
      /\ \A j \in 1..(i - 1) : Activity(trip.tl[j]) => j \in Before(i)
  BY DEF Before
<1>3. /\ \A j \in After(i) : j \in (i + 1)..Len(trip.tl) /\ Activity(trip.tl[j])
      /\ \A j \in (i + 1)..Len(trip.tl) : Activity(trip.tl[j]) => j \in After(i)
  BY DEF After
<1>4. Before(i) # {} => /\ Max(Before(i)) \in Before(i)
                        /\ \A j \in Before(i) : j <= Max(Before(i))
  <2>1. Before(i) \in SUBSET (1..Len(trip.tl))
    BY <1>1, <1>2
  <2> QED
    BY <1>1, <2>1, MaxOfNaturals
<1>5. After(i) # {} => /\ Min(After(i)) \in After(i)
                       /\ \A j \in After(i) : Min(After(i)) <= j
  <2>1. After(i) \in SUBSET Nat
    BY <1>1, <1>3
  <2> QED
    BY <2>1, MinOfNaturals
<1>6. Before(i) = {} => StayBefore(i) = 0
  BY DEF StayBefore
<1>7. Before(i) # {} => StayBefore(i) = Max(Before(i))
  BY DEF StayBefore
<1>8. After(i) = {} => StayAfter(i) = 0
  BY DEF StayAfter
<1>9. After(i) # {} => StayAfter(i) = Min(After(i))
  BY DEF StayAfter
<1>10. /\ StayBefore(i) \in 0..(i - 1)
       /\ StayBefore(i) # 0 => Activity(trip.tl[StayBefore(i)])
       /\ \A j \in 1..(i - 1) : Activity(trip.tl[j]) => j <= StayBefore(i)
  BY <1>1, <1>2, <1>4, <1>6, <1>7
<1>11. /\ StayAfter(i) \in {0} \cup (i + 1)..Len(trip.tl)
       /\ StayAfter(i) # 0 => Activity(trip.tl[StayAfter(i)])
       /\ After(i) = {} <=> StayAfter(i) = 0
       /\ \A j \in (i + 1)..Len(trip.tl) : Activity(trip.tl[j]) =>
              StayAfter(i) # 0 /\ StayAfter(i) <= j
  BY <1>1, <1>3, <1>5, <1>8, <1>9
<1> QED
  BY <1>10, <1>11

\* The constraint of a transfer, by the stays beside it.
LEMMA LockCases ==
  ASSUME NEW i, NEW ids
  PROVE  LockOf(i, ids) =
           IF StayAfter(i) \in ids
              /\ (i = progress.event
                  \/ (StayBefore(i) = progress.event /\ StayBefore(i) \notin {0} \cup ids))
           THEN {Lock(0, StayAfter(i), trip.tl[i].mode)}
           ELSE IF StayBefore(i) \in ids /\ StayAfter(i) \in ids
           THEN {Lock(StayBefore(i), StayAfter(i), trip.tl[i].mode)}
           ELSE IF StayBefore(i) \in ids /\ After(i) = {}
           THEN {Lock(StayBefore(i), 0, trip.tl[i].mode)}
           ELSE {}
BY Zenon DEF LockOf, StayBefore, StayAfter

\* What is left of the plan are the stays after the event low: that of now, or the
\* one before it.
Ahead(low, order) ==
  /\ progress.event \in 1..Len(trip.tl)
  /\ \/ low = progress.event /\ Activity(Current)
     \/ low = progress.event - 1 /\ (progress.event \in Transfers(trip.tl) \/ Activity(Current))
  /\ ListsStays(trip.tl, low, order)
  /\ KeptStays = {i \in 1..Len(trip.tl) : low < i /\ Activity(trip.tl[i])}

\* The ends of a leg of what is left.
EndsOf(order, k) == <<IF k = 1 THEN 0 ELSE order[k - 1], IF k > Len(order) THEN 0 ELSE order[k]>>

\* The transfer of a leg constrains it to its mode.
LEMMA LegIsLocked ==
  ASSUME IsTimeline(trip.tl), PlannedAsFound(trip.q, trip.tl), NEW low, NEW order, Ahead(low, order),
         NEW k \in 1..(Len(order) + 1), NEW i \in Crossing(trip.tl, low, order, k)
  PROVE  LockOf(i, KeptStays) =
           {Lock(EndsOf(order, k)[1], EndsOf(order, k)[2], trip.tl[i].mode)}
<1> DEFINE tl == trip.tl
           n == Len(order)
           e == progress.event
           b == StayBefore(i)
           a == StayAfter(i)
<1>1. ListsStays(tl, low, order)
  BY DEF Ahead
<1>2. /\ n \in Nat \ {0} /\ Len(tl) \in Nat /\ low \in Nat /\ low < Len(tl)
      /\ \A m \in 1..n : order[m] \in 1..Len(tl) /\ low < order[m] /\ Activity(tl[order[m]])
  BY <1>1, LegsOfThePlan, SMTT(30) DEF ListsStays
<1>3. /\ i \in Transfers(tl) /\ i \in 1..Len(tl)
      /\ LegAfter(low, order, k) < i /\ i < LegBefore(tl, order, k)
  BY EventFacts DEF Crossing
<1>4. /\ LegAfter(low, order, k) \in low..Len(tl)
      /\ LegBefore(tl, order, k) \in (low + 1)..(Len(tl) + 1)
      /\ \A m \in 1..Len(tl) : LegAfter(low, order, k) < m /\ m < LegBefore(tl, order, k)
                   => ~Activity(tl[m])
  BY <1>1, LegsOfThePlan
<1>5. \A m \in 1..n : order[m] \in KeptStays
  BY <1>2 DEF Ahead
<1>6. 0 \notin KeptStays /\ \A m \in KeptStays : m \in 1..Len(tl) /\ low < m
  BY <1>2 DEF Ahead
<1>7. /\ b \in 0..(i - 1) /\ a \in {0} \cup (i + 1)..Len(tl)
      /\ b # 0 => Activity(tl[b])
      /\ a # 0 => Activity(tl[a])
      /\ After(i) = {} <=> a = 0
      /\ \A j \in 1..(i - 1) : Activity(tl[j]) => j <= b
      /\ \A j \in (i + 1)..Len(tl) : Activity(tl[j]) => a # 0 /\ a <= j
  BY <1>3, StaysBeside
<1>8. /\ e \in 1..Len(tl)
      /\ \/ low = e /\ Activity(tl[e])
         \/ low = e - 1 /\ (e \in Transfers(tl) \/ Activity(tl[e]))
  BY DEF Ahead, Current
<1> HIDE DEF a, b, n, e, tl
<1>9. k <= n => k \in 1..n /\ LegBefore(tl, order, k) = order[k] /\ EndsOf(order, k)[2] = order[k]
  BY <1>2 DEF LegBefore, EndsOf, n
<1>10. ~(k <= n) => k = n + 1 /\ LegBefore(tl, order, k) = Len(tl) + 1 /\ EndsOf(order, k)[2] = 0
  BY <1>2 DEF LegBefore, EndsOf, n
<1>11. k > 1 => k - 1 \in 1..n /\ LegAfter(low, order, k) = order[k - 1]
                /\ EndsOf(order, k)[1] = order[k - 1]
  BY <1>2 DEF LegAfter, EndsOf, n
<1>12. k = 1 => LegAfter(low, order, k) = low /\ EndsOf(order, k)[1] = 0 /\ k <= n
  BY <1>2 DEF LegAfter, EndsOf, n
<1>13. k <= n => a = order[k]
  <2> SUFFICES ASSUME k <= n PROVE a = order[k]
    OBVIOUS
  <2>1. order[k] \in (i + 1)..Len(tl) /\ Activity(tl[order[k]])
    BY <1>2, <1>3, <1>9
  <2>2. a # 0 /\ a <= order[k]
    BY <1>7, <2>1
  <2>3. a \in 1..Len(tl) /\ i < a /\ Activity(tl[a])
    BY <1>3, <1>7, <2>2
  <2>4. ~(a < order[k])
    BY <1>3, <1>4, <1>9, <2>3
  <2> QED
    BY <1>2, <1>9, <2>2, <2>3, <2>4
<1>14. ~(k <= n) => a = 0
  <2> SUFFICES ASSUME ~(k <= n), a # 0 PROVE FALSE
    OBVIOUS
  <2>1. a \in 1..Len(tl) /\ i < a /\ Activity(tl[a])
    BY <1>3, <1>7
  <2> QED
    BY <1>3, <1>4, <1>10, <2>1
<1>15. k > 1 => b = order[k - 1] /\ i # e
  <2> SUFFICES ASSUME k > 1 PROVE b = order[k - 1] /\ i # e
    OBVIOUS
  <2>1. order[k - 1] \in 1..(i - 1) /\ Activity(tl[order[k - 1]]) /\ low < order[k - 1]
    BY <1>2, <1>3, <1>11
  <2>2. order[k - 1] <= b
    BY <1>7, <2>1
  <2>3. b \in 1..Len(tl) /\ b < i /\ Activity(tl[b])
    BY <1>3, <1>7, <2>1, <2>2
  <2>4. ~(order[k - 1] < b)
    BY <1>3, <1>4, <1>11, <2>3
  <2>5. i # e
    BY <1>2, <1>3, <1>8, <2>1
  <2> QED
    BY <2>1, <2>2, <2>3, <2>4, <2>5
<1>16. k = 1 => i = e \/ (b = e /\ b \notin {0} \cup KeptStays)
  <2> SUFFICES ASSUME k = 1 PROVE i = e \/ (b = e /\ b \notin {0} \cup KeptStays)
    OBVIOUS
  <2>1. CASE low = e /\ Activity(tl[e])
    <3>1. e \in 1..(i - 1)
      BY <1>3, <1>8, <1>12, <2>1
    <3>2. e <= b
      BY <1>7, <2>1, <3>1
    <3>3. b \in 1..Len(tl) /\ b < i /\ Activity(tl[b])
      BY <1>3, <1>7, <3>1, <3>2
    <3>4. ~(e < b)
      BY <1>3, <1>4, <1>12, <2>1, <3>3
    <3>5. b = e
      BY <3>1, <3>2, <3>3, <3>4
    <3> QED
      BY <1>6, <1>8, <2>1, <3>5
  <2>2. CASE low = e - 1 /\ e \in Transfers(tl)
    <3>1. e < order[1] /\ LegBefore(tl, order, 1) = order[1]
      <4>1. e # order[1]
        <5>1. order[1] \notin Transfers(tl)
          BY <1>2, StaysInPlaces
        <5> QED
          BY <2>2, <5>1
      <4> QED
        BY <1>2, <1>8, <1>9, <1>12, <2>2, <4>1
    <3>2. e \in Crossing(tl, low, order, 1)
      BY <1>8, <1>12, <2>2, <3>1 DEF Crossing
    <3>3. i = e
      BY <1>1, <3>2, OneCrossing DEF tl
    <3> QED
      BY <3>3
  <2>3. CASE low = e - 1 /\ Activity(tl[e])
    <3>1. ~(e < i)
      BY <1>3, <1>4, <1>8, <1>12, <2>3
    <3> QED
      BY <1>3, <1>8, <1>12, <2>3, <3>1
  <2> QED
    BY <1>8, <2>1, <2>2, <2>3
<1>17. LockOf(i, KeptStays) =
           IF a \in KeptStays /\ (i = e \/ (b = e /\ b \notin {0} \cup KeptStays))
           THEN {Lock(0, a, tl[i].mode)}
           ELSE IF b \in KeptStays /\ a \in KeptStays THEN {Lock(b, a, tl[i].mode)}
           ELSE IF b \in KeptStays /\ After(i) = {} THEN {Lock(b, 0, tl[i].mode)}
           ELSE {}
  BY LockCases, Zenon DEF a, b, e, tl
<1>18. CASE k = 1
  <2>1. a \in KeptStays /\ EndsOf(order, k)[1] = 0 /\ EndsOf(order, k)[2] = a
    BY <1>5, <1>9, <1>12, <1>13, <1>18
  <2> QED
    BY <1>16, <1>17, <1>18, <2>1 DEF tl
<1>19. CASE k > 1 /\ k <= n
  <2>1. /\ a \in KeptStays /\ b \in KeptStays /\ i # e
        /\ EndsOf(order, k)[1] = b /\ EndsOf(order, k)[2] = a
    BY <1>5, <1>9, <1>11, <1>13, <1>15, <1>19
  <2> QED
    BY <1>17, <2>1 DEF tl
<1>20. CASE k > 1 /\ ~(k <= n)
  <2>1. /\ a = 0 /\ a \notin KeptStays /\ b \in KeptStays /\ After(i) = {}
        /\ EndsOf(order, k)[1] = b /\ EndsOf(order, k)[2] = 0
    BY <1>5, <1>6, <1>7, <1>10, <1>11, <1>14, <1>15, <1>20
  <2> QED
    BY <1>17, <2>1 DEF tl
<1> QED
  BY <1>2, <1>18, <1>19, <1>20

\* What constrains a leg is a transfer of that leg.
LEMMA LockIsOfTheLeg ==
  ASSUME IsTimeline(trip.tl), NEW low, NEW order, Ahead(low, order),
         NEW k \in 1..(Len(order) + 1), NEW j \in Transfers(trip.tl), NEW l \in LockOf(j, KeptStays),
         <<l.f, l.t>> = EndsOf(order, k)
  PROVE  j \in Crossing(trip.tl, low, order, k)
<1> DEFINE tl == trip.tl
           n == Len(order)
           e == progress.event
           b == StayBefore(j)
           a == StayAfter(j)
<1>1. ListsStays(tl, low, order)
  BY DEF Ahead
<1>2. /\ n \in Nat \ {0} /\ Len(tl) \in Nat /\ low \in Nat /\ low < Len(tl)
      /\ \A m \in 1..n : order[m] \in 1..Len(tl) /\ low < order[m]
  <2>1. /\ n \in Nat \ {0} /\ Len(tl) \in Nat /\ low \in Nat /\ low < Len(tl)
        /\ \A m \in 1..n : order[m] \in 1..Len(tl)
    BY <1>1, LegsOfThePlan, SMTT(30)
  <2>2. \A m \in 1..n : low < order[m]
    BY <1>1, SMTT(30) DEF ListsStays
  <2> QED
    BY <2>1, <2>2, Zenon
<1>3. j \in 1..Len(tl)
  BY EventFacts
<1>4. 0 \notin KeptStays
  BY <1>2 DEF Ahead
<1>5. /\ b \in 0..(j - 1) /\ a \in {0} \cup (j + 1)..Len(tl)
      /\ After(j) = {} <=> a = 0
  BY <1>3, StaysBeside
<1>6. /\ e \in 1..Len(tl)
      /\ \/ low = e /\ Activity(tl[e])
         \/ low = e - 1
  BY DEF Ahead, Current
<1>7. e = j => ~Activity(tl[e])
  BY StaysInPlaces
<1> HIDE DEF tl, n, e, b, a
<1>8. LockOf(j, KeptStays) =
           IF a \in KeptStays /\ (j = e \/ (b = e /\ b \notin {0} \cup KeptStays))
           THEN {Lock(0, a, tl[j].mode)}
           ELSE IF b \in KeptStays /\ a \in KeptStays THEN {Lock(b, a, tl[j].mode)}
           ELSE IF b \in KeptStays /\ After(j) = {} THEN {Lock(b, 0, tl[j].mode)}
           ELSE {}
  BY LockCases, Zenon DEF a, b, e, tl
<1>9. \A f, t, mode : Lock(f, t, mode).f = f /\ Lock(f, t, mode).t = t
  BY DEF Lock
<1>10. l.f = EndsOf(order, k)[1] /\ l.t = EndsOf(order, k)[2]
  BY DEF EndsOf
<1>11. /\ k = 1 => EndsOf(order, k)[1] = 0 /\ LegAfter(low, order, k) = low
       /\ k # 1 => k - 1 \in 1..n /\ EndsOf(order, k)[1] = order[k - 1]
                   /\ LegAfter(low, order, k) = order[k - 1]
       /\ k <= n => k \in 1..n /\ EndsOf(order, k)[2] = order[k] /\ LegBefore(tl, order, k) = order[k]
       /\ ~(k <= n) => EndsOf(order, k)[2] = 0 /\ LegBefore(tl, order, k) = Len(tl) + 1
  BY <1>2 DEF EndsOf, LegAfter, LegBefore, n
<1>12. LegAfter(low, order, k) < j /\ j < LegBefore(tl, order, k)
  <2>1. CASE a \in KeptStays /\ (j = e \/ (b = e /\ b \notin {0} \cup KeptStays))
    <3>1. l = Lock(0, a, tl[j].mode)
      BY <1>8, <2>1
    <3>2. EndsOf(order, k)[1] = 0 /\ EndsOf(order, k)[2] = a /\ a # 0
      BY <1>4, <1>9, <1>10, <2>1, <3>1
    <3>3. k = 1 /\ k <= n /\ order[k] = a
      BY <1>2, <1>11, <3>2
    <3>4. low < j
      BY <1>2, <1>3, <1>5, <1>6, <1>7, <2>1
    <3>5. j < a
      BY <1>3, <1>5, <3>2
    <3> QED
      BY <1>11, <3>3, <3>4, <3>5
  <2>2. CASE ~(a \in KeptStays /\ (j = e \/ (b = e /\ b \notin {0} \cup KeptStays)))
             /\ b \in KeptStays /\ a \in KeptStays
    <3>1. l = Lock(b, a, tl[j].mode)
      BY <1>8, <2>2
    <3>2. EndsOf(order, k)[1] = b /\ b # 0 /\ EndsOf(order, k)[2] = a /\ a # 0
      BY <1>4, <1>9, <1>10, <2>2, <3>1
    <3>3. k # 1 /\ order[k - 1] = b /\ k <= n /\ order[k] = a
      BY <1>2, <1>11, <3>2
    <3>4. b < j /\ j < a
      BY <1>3, <1>5, <3>2
    <3> QED
      BY <1>11, <3>3, <3>4
  <2>3. CASE /\ ~(a \in KeptStays /\ (j = e \/ (b = e /\ b \notin {0} \cup KeptStays)))
             /\ ~(b \in KeptStays /\ a \in KeptStays)
    <3>1. l = Lock(b, 0, tl[j].mode) /\ b \in KeptStays
      BY <1>8, <2>3
    <3>2. EndsOf(order, k)[1] = b /\ b # 0 /\ EndsOf(order, k)[2] = 0
      BY <1>4, <1>9, <1>10, <3>1
    <3>3. k # 1 /\ order[k - 1] = b /\ ~(k <= n)
      BY <1>2, <1>11, <3>2
    <3>4. b < j /\ j < Len(tl) + 1
      BY <1>2, <1>3, <1>5, <3>2
    <3> QED
      BY <1>11, <3>3, <3>4
  <2> QED
    BY <2>1, <2>2, <2>3
<1> QED
  BY <1>12 DEF Crossing, tl

\* The mode of a leg that is left is that of the transfer of the plan.
LEMMA LegKeepsMode ==
  ASSUME IsTimeline(trip.tl), PlannedAsFound(trip.q, trip.tl), NEW low, NEW order, Ahead(low, order),
         NEW d, d.locks = Locks(KeptStays), Len(d.acts) = Len(order),
         \A m \in 1..Len(order) : d.acts[m].id = order[m],
         NEW k \in 1..(Len(order) + 1), NEW i \in Crossing(trip.tl, low, order, k)
  PROVE  LockedMode(d, k) = trip.tl[i].mode
<1> DEFINE J == {j \in Transfers(trip.tl) : LockOf(j, KeptStays) # {}}
           f == Ordered([j \in J |-> <<j>>])
           ends == EndsOf(order, k)
           L == d.locks
           mine == Lock(ends[1], ends[2], trip.tl[i].mode)
           I == {m \in 1..Len(L) : <<L[m].f, L[m].t>> = IdsOf(d, k)}
<1>1. J \in SUBSET Int /\ IsFiniteSet(J)
  <2>1. J \subseteq 1..Len(trip.tl) /\ Len(trip.tl) \in Nat
    BY EventFacts
  <2> HIDE DEF J
  <2>2. IsFiniteSet(1..Len(trip.tl))
    BY <2>1, FS_Interval
  <2>3. IsFiniteSet(J)
    BY <2>1, <2>2, FS_Subset
  <2> QED
    BY <2>1, <2>3
<1>2. InLine(J, f)
  <2> HIDE DEF J
  <2> QED
    BY <1>1, NumbersInLine
<1>3. L = [m \in DOMAIN f |-> CHOOSE l \in LockOf(f[m], KeptStays) : TRUE]
  BY Zenon DEF Locks
<1>4. IdsOf(d, k) = ends
  <2>1. Len(order) \in Nat
    BY LegsOfThePlan DEF Ahead
  <2>2. k # 1 => d.acts[k - 1].id = order[k - 1]
    BY <2>1
  <2>3. ~(k > Len(order)) => d.acts[k].id = order[k]
    BY <2>1
  <2> QED
    BY <2>2, <2>3, Zenon DEF IdsOf, EndsOf
<1>5. LockOf(i, KeptStays) = {mine}
  BY LegIsLocked
<1>6. i \in J
  BY <1>5 DEF Crossing
<1>7. mine.mode = trip.tl[i].mode /\ <<mine.f, mine.t>> = ends
  BY DEF Lock, EndsOf
<1>8. \A j \in J : \A l \in LockOf(j, KeptStays) : <<l.f, l.t>> = ends => j = i
  <2> SUFFICES ASSUME NEW j \in J, NEW l \in LockOf(j, KeptStays), <<l.f, l.t>> = ends
               PROVE  j = i
    OBVIOUS
  <2>1. j \in Crossing(trip.tl, low, order, k)
    BY LockIsOfTheLeg
  <2>2. ListsStays(trip.tl, low, order)
    BY DEF Ahead
  <2> QED
    BY <2>1, <2>2, OneCrossing
<1>9. \A j \in J : (CHOOSE l \in LockOf(j, KeptStays) : TRUE) \in LockOf(j, KeptStays)
  OBVIOUS
<1> HIDE DEF J, f, ends, mine
<1>10. /\ Len(f) \in Nat /\ DOMAIN f = 1..Len(f) /\ \A m \in 1..Len(f) : f[m] \in J
       /\ \E m \in 1..Len(f) : f[m] = i
  <2>1. f \in Seq(J) /\ \E m \in 1..Len(f) : f[m] = i
    BY <1>2, <1>6 DEF InLine
  <2>2. Len(f) \in Nat /\ DOMAIN f = 1..Len(f)
    BY <2>1
  <2>3. \A m \in 1..Len(f) : f[m] \in J
    BY <2>1, ElementOfSeq
  <2> QED
    BY <2>1, <2>2, <2>3
<1>11. \A m \in 1..Len(f) : L[m] \in LockOf(f[m], KeptStays)
  <2> HIDE DEF L
  <2> QED
    BY <1>3, <1>9, <1>10
<1>12. Len(L) = Len(f)
  <2> DEFINE S == {L[m] : m \in 1..Len(f)}
  <2>1. L \in [1..Len(f) -> S]
    <3>1. DOMAIN L = 1..Len(f) /\ L = [m \in 1..Len(f) |-> L[m]]
      <4> HIDE DEF L
      <4> QED
        BY <1>3, <1>10
    <3> QED
      BY <3>1
  <2> HIDE DEF S, L
  <2> QED
    BY <1>10, <2>1
<1> HIDE DEF L
<1>13. I # {} /\ I \in SUBSET Nat
  <2>1. PICK m \in 1..Len(f) : f[m] = i
    BY <1>10
  <2>2. L[m] = mine
    BY <1>5, <1>11, <2>1
  <2>3. m \in I
    BY <1>4, <1>7, <1>12, <2>2
  <2> QED
    BY <1>10, <1>12, <2>3
<1>14. Min(I) \in I
  <2> HIDE DEF I
  <2> QED
    BY <1>13, MinOfNaturals
<1>15. L[Min(I)].mode = trip.tl[i].mode
  <2> DEFINE m == Min(I)
  <2>1. m \in 1..Len(f) /\ <<L[m].f, L[m].t>> = ends
    BY <1>4, <1>12, <1>14
  <2> HIDE DEF m
  <2>2. f[m] = i
    BY <1>8, <1>10, <1>11, <2>1
  <2>3. L[m] = mine
    BY <1>5, <1>11, <2>1, <2>2
  <2> QED
    BY <1>7, <2>3 DEF m
<1>16. SelectInSeq(L, LAMBDA l : <<l.f, l.t>> = IdsOf(d, k)) = Min(I)
  BY <1>13, Zenon DEF SelectInSeq
<1>17. Min(I) # 0
  <2>1. Min(I) \in 1..Len(L)
    BY <1>14
  <2> QED
    BY <1>10, <1>12, <2>1
<1> QED
  BY <1>15, <1>16, <1>17, Zenon DEF LockedMode, L

--------------------------------------------------------------------------------
\* What _remaining_request leaves of a plan that the traveller is on.

\* A traveller who says to be at a place, in time: on the way, within a stay, or
\* after it.
OnTheWay(place) ==
  /\ progress.event \in Transfers(trip.tl) /\ progress.state \notin {"at_place", "ready_to_depart"}
  /\ now = Current.start /\ place = FromOf(trip.tl, progress.event)
Staying(place) ==
  /\ Activity(Current) /\ progress.state = "at_place"
  /\ progress.started = Current.start /\ now < Current.end /\ place = Current.place
Leaving(place) ==
  /\ Activity(Current) /\ progress.state \in {"at_place", "ready_to_depart"}
  /\ now = Current.end /\ place = Current.place

\* The event after which the day goes on.
LastDone(place) == IF Leaving(place) THEN progress.event ELSE progress.event - 1

\* The stays that are kept are those after the event that is done.
LEMMA StaysAhead ==
  ASSUME TravelInv, progress.event # 0, NEW place,
         OnTheWay(place) \/ Staying(place) \/ Leaving(place)
  PROVE  KeptStays = {i \in 1..Len(trip.tl) : LastDone(place) < i /\ Activity(trip.tl[i])}
<1> DEFINE tl == trip.tl
           e == progress.event
           low == LastDone(place)
<1>1. IsTimeline(tl) /\ e \in 1..Len(tl) /\ Len(tl) \in Nat /\ now \in Nat /\ progress.started \in Nat
  <2>1. IsTimeline(tl) /\ e \in 0..Len(tl) /\ e # 0 /\ now \in Nat /\ progress.started \in Nat
    BY TripFacts DEF TravelInv
  <2> QED
    BY <2>1, EventFacts
<1>2. /\ DOMAIN tl = 1..Len(tl)
      /\ \A i \in 1..Len(tl) : /\ tl[i].start \in Nat /\ tl[i].end \in Nat
                               /\ tl[i].start < tl[i].end
      /\ \A i, j \in 1..Len(tl) : i < j => tl[i].end <= tl[j].start
  BY <1>1, EventFacts
<1>3. Current = tl[e]
  BY DEF Current
<1>4. KeptStays = {i \in 1..Len(tl) : /\ Activity(tl[i]) /\ ~Completed(i) /\ tl[i].end > now
                                      /\ Here(i) => StayLeft > 0}
  BY <1>2 DEF KeptStays
<1>5. ASSUME NEW i \in 1..Len(tl), Activity(tl[i])
      PROVE  ~Completed(i) /\ tl[i].end > now /\ (Here(i) => StayLeft > 0) <=> low < i
  <2>1. Completed(i) <=> i < e \/ (i = e /\ progress.state = "ready_to_depart")
    BY DEF Completed
  <2>2. Here(i) <=> i = e /\ progress.state = "at_place"
    BY DEF Here
  <2>3. i > e => tl[i].end > tl[e].end /\ tl[i].end > tl[e].start
    <3> HIDE DEF tl, e
    <3>1. i > e => e < i /\ tl[e].end <= tl[i].start
      BY <1>1, <1>2
    <3> QED
      BY <1>1, <1>2, <3>1, SMTT(30)
  <2>4. CASE Leaving(place)
    <3>1. low = e /\ now = tl[e].end /\ progress.state \in {"at_place", "ready_to_depart"}
      BY <1>3, <2>4 DEF LastDone, Leaving
    <3> HIDE DEF tl, e, low
    <3> QED
      BY <1>1, <1>2, <2>1, <2>2, <2>3, <3>1
  <2>5. CASE ~Leaving(place) /\ Staying(place)
    <3>1. /\ low = e - 1 /\ now < tl[e].end /\ progress.state = "at_place"
          /\ progress.started = tl[e].start
      BY <1>3, <2>5 DEF LastDone, Staying
    <3>2. StayLeft = tl[e].end - tl[e].start - (now - tl[e].start)
      BY <1>3, <3>1 DEF StayLeft
    <3> HIDE DEF tl, e, low
    <3>3. StayLeft > 0
      BY <1>1, <1>2, <3>1, <3>2
    <3> QED
      BY <1>1, <1>2, <2>1, <2>2, <2>3, <3>1, <3>3
  <2>6. CASE ~Leaving(place) /\ OnTheWay(place)
    <3>1. /\ low = e - 1 /\ now = tl[e].start /\ e \in Transfers(tl)
          /\ progress.state \notin {"at_place", "ready_to_depart"}
      BY <1>3, <2>6 DEF LastDone, OnTheWay
    <3>2. i # e
      BY <1>5, <3>1, StaysInPlaces
    <3> HIDE DEF tl, e, low
    <3> QED
      BY <1>1, <1>2, <2>1, <2>2, <2>3, <3>1, <3>2
  <2> QED
    BY <2>4, <2>5, <2>6
<1> HIDE DEF tl, low
<1>6. KeptStays = {i \in 1..Len(tl) : low < i /\ Activity(tl[i])}
  BY <1>4, <1>5
<1> QED
  BY <1>6 DEF tl, low

\* In line they are a rest of the plan.
LEMMA RestIsAhead ==
  ASSUME TravelInv, progress.event # 0, NEW place,
         OnTheWay(place) \/ Staying(place) \/ Leaving(place),
         NEW order, InLine(KeptStays, order), order # <<>>
  PROVE  Ahead(LastDone(place), order)
<1> DEFINE tl == trip.tl
           low == LastDone(place)
<1>1. IsTimeline(tl) /\ progress.event \in 1..Len(tl) /\ Len(tl) \in Nat
  <2>1. IsTimeline(tl) /\ progress.event \in 0..Len(tl)
    BY TripFacts DEF TravelInv
  <2> QED
    BY <2>1, EventFacts
<1>2. KeptStays = {i \in 1..Len(tl) : low < i /\ Activity(tl[i])}
  BY StaysAhead
<1>3. \/ low = progress.event /\ Activity(Current)
      \/ low = progress.event - 1 /\ (progress.event \in Transfers(tl) \/ Activity(Current))
  BY Zenon DEF LastDone, OnTheWay, Staying, Leaving
<1>4. low \in 0..Len(tl)
  BY <1>1, <1>3
<1> HIDE DEF tl, low
<1>5. /\ order \in Seq(KeptStays)
      /\ \A k, l \in 1..Len(order) : k < l => order[k] < order[l]
      /\ \A x \in KeptStays : \E k \in 1..Len(order) : order[k] = x
  BY DEF InLine
<1>6. \A k \in 1..Len(order) : order[k] \in KeptStays
  BY <1>5, ElementOfSeq
<1>7. order \in Seq(1..Len(tl))
  <2>1. KeptStays \subseteq 1..Len(tl)
    BY <1>2
  <2> QED
    BY <1>5, <2>1, SeqMonotonic
<1>8. \A k \in 1..Len(order) : low < order[k] /\ Activity(tl[order[k]])
  BY <1>2, <1>6
<1>9. \A i \in (low + 1)..Len(tl) : Activity(tl[i]) => \E k \in 1..Len(order) : order[k] = i
  <2> SUFFICES ASSUME NEW i \in (low + 1)..Len(tl), Activity(tl[i])
               PROVE  \E k \in 1..Len(order) : order[k] = i
    OBVIOUS
  <2>1. i \in 1..Len(tl) /\ low < i
    BY <1>1, <1>4
  <2>2. i \in KeptStays
    BY <1>2, <2>1
  <2> QED
    BY <1>5, <2>2
<1>10. ListsStays(tl, low, order)
  BY <1>4, <1>5, <1>7, <1>8, <1>9 DEF ListsStays
<1> QED
  BY <1>1, <1>2, <1>3, <1>10 DEF Ahead, tl, low

\* The first leg of what is left begins where the traveller is.
LEMMA FirstLegIsHere ==
  ASSUME TravelInv, progress.event # 0, NEW place,
         OnTheWay(place) \/ Staying(place) \/ Leaving(place),
         Gapless(trip.tl), Continuous(trip.tl), PlannedAsFound(trip.q, trip.tl),
         NEW order, Ahead(LastDone(place), order)
  PROVE  LET low == LastDone(place)
             tl == trip.tl
         IN /\ Crossing(tl, low, order, 1) = {} => place = tl[order[1]].place
            /\ \A i \in Crossing(tl, low, order, 1) :
                 /\ place = FromOf(tl, i) /\ now <= tl[i].start
                 /\ tl[i].mode = "bus" => now = tl[i].start
<1> DEFINE tl == trip.tl
           e == progress.event
           low == LastDone(place)
           C == Crossing(tl, low, order, 1)
<1>1. IsTimeline(tl) /\ e \in 1..Len(tl) /\ Len(tl) \in Nat /\ now \in Nat
  <2>1. IsTimeline(tl) /\ now \in Nat
    BY TripFacts DEF TravelInv
  <2> QED
    BY <2>1, EventFacts DEF Ahead
<1>2. /\ \A i \in 1..Len(tl) : /\ tl[i].start \in Nat /\ tl[i].end \in Nat
                               /\ tl[i].start < tl[i].end
      /\ \A i, j \in 1..Len(tl) : i < j => tl[i].end <= tl[j].start
  BY <1>1, EventFacts
<1>3. ListsStays(tl, low, order)
  BY DEF Ahead
<1>4. /\ Len(order) \in Nat \ {0} /\ low \in Nat /\ low < Len(tl)
      /\ order[1] \in 1..Len(tl) /\ low < order[1] /\ Activity(tl[order[1]])
  <2>1. /\ Len(order) \in Nat \ {0} /\ low \in Nat /\ low < Len(tl)
        /\ \A k \in 1..Len(order) : order[k] \in 1..Len(tl)
    BY <1>1, <1>3, LegsOfThePlan
  <2>2. 1 \in 1..Len(order)
    BY <2>1
  <2>3. \A k \in 1..Len(order) : low < order[k] /\ Activity(tl[order[k]])
    BY <1>3 DEF ListsStays
  <2> QED
    BY <2>1, <2>2, <2>3
<1>5. LegAfter(low, order, 1) = low /\ LegBefore(tl, order, 1) = order[1]
  BY <1>4 DEF LegAfter, LegBefore
<1>6. \A m \in 1..Len(tl) : low < m /\ m < order[1] => ~Activity(tl[m])
  <2>1. 1 \in 1..(Len(order) + 1)
    BY <1>4
  <2> HIDE DEF low, tl
  <2>2. \A m \in 1..Len(tl) : LegAfter(low, order, 1) < m /\ m < LegBefore(tl, order, 1)
                   => ~Activity(tl[m])
    BY <1>1, <1>3, <2>1, LegsOfThePlan
  <2> QED
    BY <1>5, <2>2
<1>7. /\ \A i \in C : i \in Transfers(tl) /\ i \in 1..Len(tl) /\ low < i /\ i < order[1]
      /\ \A i \in Transfers(tl) : low < i /\ i < order[1] => i \in C
  <2>1. Transfers(tl) \subseteq 1..Len(tl)
    BY <1>1, EventFacts
  <2> HIDE DEF low, tl
  <2> QED
    BY <1>5, <2>1 DEF Crossing
<1>8. \A i, j \in C : i = j
  <2>1. 1 \in 1..(Len(order) + 1)
    BY <1>4
  <2> QED
    BY <1>1, <1>3, <2>1, OneCrossing
<1>9. Current = tl[e]
  BY DEF Current
<1> HIDE DEF C
<1>10. CASE Leaving(place)
  <2>1. low = e /\ Activity(tl[e]) /\ now = tl[e].end /\ place = tl[e].place
    BY <1>9, <1>10 DEF LastDone, Leaving
  <2>2. PlaceAfter(tl, e) = place /\ PlaceBefore(tl, order[1]) = tl[order[1]].place
    BY <1>4, <2>1, StaysInPlaces
  <2> HIDE DEF low, tl, e
  <2>3. ASSUME C = {} PROVE place = tl[order[1]].place
    <3>1. \A j \in Transfers(tl) : ~(e < j /\ j < order[1])
      BY <1>7, <2>1, <2>3
    <3>2. PlaceBefore(tl, order[1]) = PlaceAfter(tl, e)
      BY <1>1, <1>4, <2>1, <3>1, ChainOfPlaces DEF tl
    <3> QED
      BY <2>2, <3>2
  <2>4. ASSUME NEW i \in C
        PROVE  /\ place = FromOf(tl, i) /\ now <= tl[i].start
               /\ tl[i].mode = "bus" => now = tl[i].start
    <3>1. i \in Transfers(tl) /\ i \in 1..Len(tl) /\ e < i /\ i < order[1]
      BY <1>7, <2>1
    <3>2. \A j \in Transfers(tl) : ~(e < j /\ j < i)
      <4> SUFFICES ASSUME NEW j \in Transfers(tl), e < j, j < i PROVE FALSE
        OBVIOUS
      <4>1. j \in 1..Len(tl)
        BY <1>1, EventFacts
      <4>2. j < order[1]
        BY <1>4, <3>1, <4>1
      <4>3. j = i
        BY <1>7, <1>8, <2>1, <4>2
      <4> QED
        BY <3>1, <4>3
    <3>3. PlaceBefore(tl, i) = PlaceAfter(tl, e)
      BY <1>1, <3>1, <3>2, ChainOfPlaces DEF tl
    <3>4. PlaceBefore(tl, i) = FromOf(tl, i)
      BY <3>1 DEF Transfers, PlaceBefore
    <3>5. now <= tl[i].start
      BY <1>1, <1>2, <2>1, <3>1
    <3>6. ASSUME tl[i].mode = "bus" PROVE now = tl[i].start
      <4>1. Activity(tl[i - 1])
        BY <1>1, <3>1, <3>6 DEF PlannedAsFound, tl
      <4>2. i - 1 = e
        <5>1. i - 1 \in 1..Len(tl) /\ i - 1 < order[1]
          BY <1>1, <1>4, <3>1
        <5>2. ~(e < i - 1)
          BY <1>6, <2>1, <4>1, <5>1
        <5> QED
          BY <1>1, <3>1, <5>2
      <4>3. e \in 1..(Len(tl) - 1) /\ e + 1 = i
        BY <1>1, <3>1, <4>2
      <4>4. tl[e].end = tl[i].start
        BY <4>3 DEF Gapless, tl
      <4> QED
        BY <2>1, <4>4
    <3> QED
      BY <2>2, <3>3, <3>4, <3>5, <3>6
  <2> QED
    BY <2>3, <2>4 DEF C, low, tl
<1>11. CASE ~Leaving(place) /\ Staying(place)
  <2>1. low = e - 1 /\ Activity(tl[e]) /\ place = tl[e].place
    BY <1>9, <1>11 DEF LastDone, Staying
  <2> HIDE DEF low, tl, e
  <2>2. order[1] = e
    <3>1. ~(e < order[1])
      BY <1>1, <1>4, <1>6, <2>1
    <3> QED
      BY <1>1, <1>4, <2>1, <3>1
  <2>3. C = {}
    BY <1>1, <1>4, <1>7, <2>1, <2>2
  <2> QED
    BY <2>1, <2>2, <2>3 DEF C, low, tl
<1>12. CASE ~Leaving(place) /\ OnTheWay(place)
  <2>1. low = e - 1 /\ e \in Transfers(tl) /\ now = tl[e].start /\ place = FromOf(tl, e)
    BY <1>9, <1>12 DEF LastDone, OnTheWay
  <2>2. order[1] # e
    BY <1>4, <2>1, StaysInPlaces
  <2> HIDE DEF low, tl, e
  <2>3. e \in C
    BY <1>1, <1>4, <1>7, <2>1, <2>2
  <2>4. \A i \in C : i = e
    BY <1>8, <2>3
  <2>5. now <= tl[e].start
    BY <1>1, <2>1
  <2>6. ASSUME NEW i \in C
        PROVE  /\ place = FromOf(tl, i) /\ now <= tl[i].start
               /\ tl[i].mode = "bus" => now = tl[i].start
    <3>1. i = e
      BY <2>4
    <3> QED
      BY <2>1, <2>5, <3>1
  <2> QED
    BY <2>3, <2>6 DEF C, low, tl
<1> QED
  BY <1>10, <1>11, <1>12

\* What becomes of a stay: the one that has begun ends when it was to end.
LEMMA ActsAhead ==
  ASSUME TravelInv, progress.event # 0, NEW place,
         OnTheWay(place) \/ Staying(place) \/ Leaving(place),
         NEW i \in KeptStays
  PROVE  /\ ActOf(i).id = i /\ ActOf(i).place = trip.tl[i].place /\ ActOf(i).end = trip.tl[i].end
         /\ Staying(place) /\ i = progress.event => ActOf(i).start = now
         /\ ~(Staying(place) /\ i = progress.event) => ActOf(i).start = trip.tl[i].start
<1>1. Current = trip.tl[progress.event]
  BY DEF Current
<1>2. CASE Here(i)
  <2>1. i = progress.event /\ progress.state = "at_place"
    BY <1>2 DEF Here
  <2>2. Staying(place)
    <3>1. ~OnTheWay(place)
      BY <2>1 DEF OnTheWay
    <3>2. ~Leaving(place)
      <4>1. trip.tl[i].end > now
        BY DEF KeptStays
      <4>2. now \in Nat
        BY DEF TravelInv
      <4> QED
        BY <1>1, <2>1, <4>1, <4>2 DEF Leaving
    <3> QED
      BY <3>1, <3>2
  <2>3. ActOf(i) = Act(i, trip.tl[i].place, now, now + StayLeft)
    BY <1>2 DEF ActOf
  <2>4. now + StayLeft = trip.tl[i].end
    <3>1. trip.tl[i].start \in Nat /\ trip.tl[i].end \in Nat
      <4>1. i \in DOMAIN trip.tl
        BY DEF KeptStays
      <4> QED
        BY <4>1, TripFacts, EventFacts DEF TravelInv
    <3>2. StayLeft = trip.tl[i].end - trip.tl[i].start - (now - trip.tl[i].start)
      BY <1>1, <2>1, <2>2 DEF StayLeft, Staying
    <3>3. now \in Nat
      BY DEF TravelInv
    <3> QED
      BY <3>1, <3>2, <3>3
  <2> QED
    BY <2>1, <2>2, <2>3, <2>4 DEF Act
<1>3. CASE ~Here(i)
  <2>1. ActOf(i) = Act(i, trip.tl[i].place, trip.tl[i].start, trip.tl[i].end)
    BY <1>3 DEF ActOf
  <2>2. ~(Staying(place) /\ i = progress.event)
    BY <1>3 DEF Here, Staying
  <2> QED
    BY <2>1, <2>2 DEF Act
<1> QED
  BY <1>2, <1>3

\* What is left of the day is what is left of the plan.
LEMMA PlanIsRest ==
  ASSUME TravelInv, progress.event # 0, NEW place \in {Start, NoPlace} \cup Places,
         OnTheWay(place) \/ Staying(place) \/ Leaving(place),
         GoodPlan(trip.q, trip.tl, trip.open), NEW d \in RemainingDay(place)
  PROVE  \E order :
           /\ IsRest(trip.tl, LastDone(place), order, d)
           /\ Staying(place) => d.acts[1].start = now /\ d.acts[1].place = Current.place
           /\ ~Staying(place) => d.acts[1].start = trip.tl[order[1]].start
<1> DEFINE tl == trip.tl
           e == progress.event
           low == LastDone(place)
<1>1. PICK order :
           /\ InLine(KeptStays, order) /\ order # <<>>
           /\ Len(d.acts) = Len(order) /\ \A k \in 1..Len(order) : d.acts[k] = ActOf(order[k])
  BY RemainingShape
<1>2. Ahead(low, order)
  BY <1>1, RestIsAhead
<1>3. /\ IsTimeline(tl) /\ Gapless(tl) /\ Continuous(tl) /\ PlannedAsFound(trip.q, tl)
      /\ e \in 1..Len(tl) /\ Len(tl) \in Nat /\ now \in Nat
  <2>1. IsTimeline(tl) /\ Gapless(tl) /\ Continuous(tl) /\ PlannedAsFound(trip.q, tl)
    BY PassingPlan DEF GoodPlan
  <2>2. e \in 1..Len(tl) /\ now \in Nat
    BY <1>2 DEF Ahead, TravelInv
  <2> QED
    BY <2>1, <2>2, EventFacts
<1>4. /\ \A i \in 1..Len(tl) : /\ tl[i].start \in Nat /\ tl[i].end \in Nat
                               /\ tl[i].start < tl[i].end
      /\ \A i, j \in 1..Len(tl) : i < j => tl[i].end <= tl[j].start
  BY <1>3, EventFacts
<1>5. ListsStays(tl, low, order)
  BY <1>2 DEF Ahead
<1>6. /\ Len(order) \in Nat \ {0} /\ low \in Nat /\ low < Len(tl)
      /\ \A k \in 1..Len(order) : order[k] \in 1..Len(tl) /\ low < order[k] /\ Activity(tl[order[k]])
      /\ \A k, l \in 1..Len(order) : k < l => order[k] < order[l]
  <2>1. /\ Len(order) \in Nat \ {0} /\ low \in Nat /\ low < Len(tl)
        /\ \A k \in 1..Len(order) : order[k] \in 1..Len(tl)
    BY <1>3, <1>5, LegsOfThePlan
  <2> QED
    BY <1>5, <2>1 DEF ListsStays
<1>7. 1 \in 1..Len(order) /\ order[1] \in 1..Len(tl) /\ low < order[1] /\ Activity(tl[order[1]])
  BY <1>6
<1>8. \A k \in 1..Len(order) : order[k] \in KeptStays
  <2>1. order \in Seq(KeptStays)
    BY <1>1 DEF InLine
  <2> QED
    BY <2>1, ElementOfSeq
<1>9. \A k \in 1..Len(order) :
        /\ d.acts[k].id = order[k] /\ d.acts[k].place = tl[order[k]].place
        /\ d.acts[k].end = tl[order[k]].end
        /\ Staying(place) /\ order[k] = e => d.acts[k].start = now
        /\ ~(Staying(place) /\ order[k] = e) => d.acts[k].start = tl[order[k]].start
  <2> SUFFICES ASSUME NEW k \in 1..Len(order)
               PROVE  /\ d.acts[k].id = order[k] /\ d.acts[k].place = tl[order[k]].place
                      /\ d.acts[k].end = tl[order[k]].end
                      /\ Staying(place) /\ order[k] = e => d.acts[k].start = now
                      /\ ~(Staying(place) /\ order[k] = e) => d.acts[k].start = tl[order[k]].start
    OBVIOUS
  <2>1. d.acts[k] = ActOf(order[k]) /\ order[k] \in KeptStays
    BY <1>1, <1>8
  <2> QED
    BY <2>1, ActsAhead
<1>10. IsDay(d) /\ d.from = place /\ d.at = now
  BY RemainingIsDay
<1>11. /\ Crossing(tl, low, order, 1) = {} => place = tl[order[1]].place
       /\ \A i \in Crossing(tl, low, order, 1) :
            /\ place = FromOf(tl, i) /\ now <= tl[i].start
            /\ tl[i].mode = "bus" => now = tl[i].start
  BY <1>2, <1>3, FirstLegIsHere
<1>12. \A k \in 1..(Len(order) + 1) : \A i \in Crossing(tl, low, order, k) :
         LockedMode(d, k) = tl[i].mode
  <2>1. d.locks = Locks(KeptStays)
    BY RemainingShape
  <2> QED
    BY <1>1, <1>2, <1>3, <1>9, <2>1, LegKeepsMode
<1>13. Current = tl[e]
  BY DEF Current
<1>14. Staying(place) =>
         /\ low = e - 1 /\ order[1] = e /\ d.acts[1].start = now
         /\ tl[e].start <= now /\ now < tl[e].end
  <2> SUFFICES ASSUME Staying(place)
               PROVE  /\ low = e - 1 /\ order[1] = e /\ d.acts[1].start = now
                      /\ tl[e].start <= now /\ now < tl[e].end
    OBVIOUS
  <2>1. /\ Activity(tl[e]) /\ now < tl[e].end /\ progress.started = tl[e].start
        /\ progress.started <= now
    BY <1>13 DEF Staying, TravelInv
  <2>2. ~Leaving(place)
    BY <1>3, <1>4, <1>13, <2>1 DEF Leaving
  <2>3. low = e - 1
    BY <2>2 DEF LastDone
  <2>4. \E k \in 1..Len(order) : order[k] = e
    <3>1. e \in (low + 1)..Len(tl)
      BY <1>3, <1>6, <2>3
    <3> QED
      BY <1>5, <2>1, <3>1 DEF ListsStays
  <2> HIDE DEF low, tl, e
  <2>5. order[1] = e
    <3>1. PICK k \in 1..Len(order) : order[k] = e
      BY <2>4
    <3>2. k # 1 => order[1] < e
      BY <1>6, <1>7, <3>1
    <3> QED
      BY <1>3, <1>6, <1>7, <2>3, <3>1, <3>2
  <2> QED
    BY <1>7, <1>9, <2>1, <2>3, <2>5
<1>15. ~Staying(place) => \A k \in 1..Len(order) : d.acts[k].start = tl[order[k]].start
  BY <1>9
<1>16. tl[low + 1].start <= now /\ now <= d.acts[1].start
       /\ (order[1] = low + 1 => now = d.acts[1].start)
  <2>1. CASE Staying(place)
    <3> HIDE DEF low, tl, e
    <3> QED
      BY <1>3, <1>14, <2>1
  <2>2. CASE ~Staying(place) /\ Leaving(place)
    <3>1. low = e /\ now = tl[e].end
      BY <1>13, <2>2 DEF LastDone, Leaving
    <3>2. e \in 1..(Len(tl) - 1)
      BY <1>3, <1>6, <3>1
    <3>3. tl[e].end = tl[e + 1].start
      BY <1>3, <3>2 DEF Gapless
    <3>4. d.acts[1].start = tl[order[1]].start
      BY <1>7, <1>15, <2>2
    <3> HIDE DEF low, tl, e
    <3>5. tl[e].end <= tl[order[1]].start
      BY <1>3, <1>4, <1>7, <3>1
    <3>6. tl[e + 1].start \in Nat
      BY <1>3, <1>4, <3>2
    <3> QED
      BY <1>3, <3>1, <3>3, <3>4, <3>5, <3>6
  <2>3. CASE ~Staying(place) /\ ~Leaving(place)
    <3>1. low = e - 1 /\ e \in Transfers(tl) /\ now = tl[e].start
      BY <1>13, <2>3 DEF LastDone, OnTheWay
    <3>2. order[1] # e
      BY <1>7, <3>1, StaysInPlaces
    <3>3. d.acts[1].start = tl[order[1]].start
      BY <1>7, <1>15, <2>3
    <3> HIDE DEF low, tl, e
    <3>4. e < order[1] /\ low + 1 = e
      BY <1>3, <1>6, <1>7, <3>1, <3>2
    <3>5. tl[e].end <= tl[order[1]].start /\ tl[e].start < tl[e].end
      BY <1>3, <1>4, <1>7, <3>4
    <3> QED
      BY <1>3, <1>4, <1>7, <3>1, <3>3, <3>4, <3>5, SMTT(30)
  <2> QED
    BY <2>1, <2>2, <2>3
<1> HIDE DEF tl, low, e
<1>17. \A k \in 1..Len(order) :
         /\ tl[order[k]].start <= d.acts[k].start
         /\ d.acts[k].start = tl[order[k]].start \/ (k = 1 /\ order[1] = low + 1)
  <2> SUFFICES ASSUME NEW k \in 1..Len(order)
               PROVE  /\ tl[order[k]].start <= d.acts[k].start
                      /\ d.acts[k].start = tl[order[k]].start \/ (k = 1 /\ order[1] = low + 1)
    OBVIOUS
  <2>1. order[k] \in 1..Len(tl) /\ tl[order[k]].start \in Nat
    BY <1>4, <1>6
  <2>2. CASE Staying(place) /\ order[k] = e
    <3>1. order[1] = e /\ low = e - 1 /\ d.acts[k].start = now /\ tl[e].start <= now
      BY <1>9, <1>14, <2>2
    <3>2. k = 1
      <4>1. k # 1 => order[1] < order[k]
        BY <1>6, <1>7
      <4> QED
        BY <1>3, <2>2, <3>1, <4>1
    <3> QED
      BY <1>3, <2>2, <3>1, <3>2
  <2>3. CASE ~(Staying(place) /\ order[k] = e)
    <3>1. d.acts[k].start = tl[order[k]].start
      BY <1>9, <2>3
    <3> QED
      BY <2>1, <3>1
  <2> QED
    BY <2>2, <2>3
<1>18. Crossing(tl, low, order, 1) = {} => d.from = d.acts[1].place
  BY <1>7, <1>9, <1>10, <1>11
<1>19. IsRest(tl, low, order, d)
  BY <1>1, <1>5, <1>9, <1>10, <1>11, <1>12, <1>16, <1>17, <1>18 DEF IsRest
<1>20. Staying(place) => d.acts[1].start = now /\ d.acts[1].place = Current.place
  BY <1>7, <1>9, <1>13, <1>14
<1>21. ~Staying(place) => d.acts[1].start = tl[order[1]].start
  BY <1>7, <1>15
<1> QED
  BY <1>19, <1>20, <1>21 DEF tl, low

\* The traveller who says to be at a place is on the plan.
OnPlanAt(place) ==
  /\ Passes(Original[trip].verdict) /\ progress.event # 0
  /\ progress.state = "ready_to_depart" => now = Current.end
  /\ progress.state = "at_place" => progress.started = Current.start /\ now <= Current.end
  /\ progress.state \notin {"ready_to_depart", "at_place"} =>
       now = Current.start /\ place = FromOf(trip.tl, progress.event)

\* Nobody comes to a stay of the plan, or to what is left of it, too late.
LEMMA FirstStayAdmits ==
  ASSUME NEW q, NEW tl, NEW open, GoodPlan(q, tl, open), NEW low, NEW order, NEW d,
         IsRest(tl, low, order, d), d.acts[1].start = tl[order[1]].start
  PROVE  ~TooLate(d.acts[1])
<1> DEFINE a == d.acts[1]
           e == tl[order[1]]
<1>1. Len(order) \in Nat \ {0} /\ order[1] \in DOMAIN tl
  <2>1. IsTimeline(tl) /\ ListsStays(tl, low, order)
    BY DEF GoodPlan, IsRest
  <2>2. Len(order) \in Nat \ {0} /\ \A k \in 1..Len(order) : order[k] \in 1..Len(tl)
    BY <2>1, LegsOfThePlan
  <2> QED
    BY <2>1, <2>2, EventFacts
<1>2. a.place = e.place /\ a.start = e.start /\ Activity(e)
  BY <1>1 DEF IsRest, ListsStays
<1>3. ActIssues(q, e, TRUE) \cap Critical = {}
  BY <1>1, <1>2, PassingPlan DEF GoodPlan
<1>4. WindowsOf[e.place] # {} => ~TooLate(e)
  BY <1>3, CriticalStays
<1> HIDE DEF a, e
<1>5. WindowsOf[e.place] = {} => LastAdmission(e.place) = NoTime
  BY DEF LastAdmission
<1>6. ~TooLate(e)
  BY <1>4, <1>5 DEF TooLate
<1>7. ~TooLate(a)
  BY <1>2, <1>6 DEF TooLate
<1> QED
  BY <1>7 DEF a

\* The plan that passed is the timeline of the trip.
LEMMA OriginalPlan ==
  ASSUME TravelInv, Passes(Original[trip].verdict), PlannedAsFound(trip.q, trip.tl)
  PROVE  GoodPlan(trip.q, trip.tl, trip.open)
<1> DEFINE v == TimelineVerdict(trip.q, trip.tl, trip.open)
           none == [calls |-> Cardinality(Transfers(trip.tl)), repairs |-> <<>>, raised |-> FALSE]
           s == IF v.status = "infeasible" THEN Repaired(trip.q, trip.tl, trip.open, trip.alts, none)
                ELSE none
<1>1. trip \in Trips
  BY DEF TravelInv
<1>2. Original[trip] = EvaluatedTimeline(trip.q, trip.tl, trip.open, trip.alts)
  BY <1>1 DEF Original
<1>3. EvaluatedTimeline(trip.q, trip.tl, trip.open, trip.alts) =
        [verdict |-> v, calls |-> s.calls, repairs |-> s.repairs, raised |-> s.raised]
  BY Zenon DEF EvaluatedTimeline, AnswerFor, AnswerWith
<1> HIDE DEF v, s
<1>4. Original[trip].verdict = v
  BY <1>2, <1>3
<1> QED
  BY <1>1, <1>4, TripFacts DEF GoodPlan, v

\* A traveller on the plan is never told that the day is disrupted.
LEMMA CalmOnPlan ==
  ASSUME TravelInv, NEW place \in Reported, OnPlanAt(place),
         progress.state # "waiting_bus", PlannedAsFound(trip.q, trip.tl), StillAdmitted,
         NEW arrival, NEW limit, NEW ready,
         NEW r, r = Revalidate(place, arrival, limit, ready)
  PROVE  r.status # "disrupted"
<1> DEFINE v == Original[trip].verdict
           b == Revalidated(place, arrival, limit, ready, v)
<1>1. r.status = b.status
  BY DEF Revalidate, WithTaxi
<1>2. v.status # "infeasible"
  BY DEF OnPlanAt, Passes
<1>3. GoodPlan(trip.q, trip.tl, trip.open)
  BY OriginalPlan DEF OnPlanAt
<1>4. place \in {Start, NoPlace} \cup Places
  BY ReportedPlaces
<1> HIDE DEF v
<1>5. ASSUME progress.state # "on_bus", RemainingDay(place) # {}
      PROVE  Answer(CHOOSE d \in RemainingDay(place) : TRUE, arrival, limit).status # "disrupted"
  <2> DEFINE d == CHOOSE x \in RemainingDay(place) : TRUE
             of == Evaluated(trip.q, d, Context(arrival))
  <2>1. d \in RemainingDay(place)
    BY <1>5
  <2> HIDE DEF d
  <2>2. OnTheWay(place) \/ Staying(place) \/ Leaving(place)
    <3>1. CASE progress.state \in {"walking", "in_taxi"}
      <4>1. Current.type = "transfer" /\ progress.event \in 1..Len(trip.tl)
        <5>1. progress.event \in 0..Len(trip.tl) /\ progress.event # 0 /\ IsTimeline(trip.tl)
          BY TripFacts DEF TravelInv, OnPlanAt
        <5>2. Len(trip.tl) \in Nat
          BY <5>1, EventFacts
        <5> QED
          BY <3>1, <5>1, <5>2 DEF TravelInv
      <4>2. progress.event \in Transfers(trip.tl)
        <5>1. DOMAIN trip.tl = 1..Len(trip.tl)
          BY TripFacts, EventFacts DEF TravelInv
        <5> QED
          BY <4>1, <5>1 DEF Transfers, Current
      <4> QED
        BY <3>1, <4>2 DEF OnPlanAt, OnTheWay
    <3>2. CASE progress.state \in {"at_place", "ready_to_depart"}
      <4>1. Activity(Current) /\ place = Current.place
        BY <3>2 DEF TravelInv, OnPlanAt, Reported
      <4>2. CASE now = Current.end
        BY <3>2, <4>1, <4>2 DEF Leaving
      <4>3. CASE now # Current.end
        <5>1. progress.state = "at_place" /\ progress.started = Current.start /\ now <= Current.end
          BY <3>2, <4>3 DEF OnPlanAt
        <5>2. Current.end \in Nat /\ now \in Nat
          <6>1. progress.event \in 1..Len(trip.tl) /\ IsTimeline(trip.tl)
            <7>1. progress.event \in 0..Len(trip.tl) /\ progress.event # 0 /\ IsTimeline(trip.tl)
              BY TripFacts DEF TravelInv, OnPlanAt
            <7>2. Len(trip.tl) \in Nat
              BY <7>1, EventFacts
            <7> QED
              BY <7>1, <7>2
          <6> QED
            BY <6>1, EventFacts DEF Current, TravelInv
        <5>3. now < Current.end
          BY <4>3, <5>1, <5>2
        <5> QED
          BY <4>1, <5>1, <5>3 DEF Staying
      <4> QED
        BY <4>2, <4>3
    <3> QED
      BY <1>5, <3>1, <3>2 DEF TravelInv, TravelStates
  <2>3. PICK order :
           /\ IsRest(trip.tl, LastDone(place), order, d)
           /\ Staying(place) => d.acts[1].start = now /\ d.acts[1].place = Current.place
           /\ ~Staying(place) => d.acts[1].start = trip.tl[order[1]].start
    BY <1>3, <1>4, <2>1, <2>2, PlanIsRest DEF OnPlanAt
  <2>4. ~TooLate(d.acts[1])
    <3>1. CASE Staying(place)
      BY <2>3, <3>1 DEF Staying, StillAdmitted, TooLate
    <3>2. CASE ~Staying(place)
      BY <1>3, <2>3, <3>2, FirstStayAdmits
    <3> QED
      BY <3>1, <3>2
  <2>5. Context(arrival) = Plain
    BY DEF Context
  <2>6. Evaluated(trip.q, d, Plain).verdict.timing # "disrupted"
    BY <1>3, <2>3, <2>4, RestEvaluated
  <2>7. of.verdict.timing # "disrupted"
    BY <2>5, <2>6
  <2>8. StatusOf(of.verdict) # "disrupted"
    <3> HIDE DEF of
    <3> QED
      BY <2>7 DEF StatusOf
  <2>9. Answered(of, limit).status # "disrupted"
    <3> HIDE DEF of
    <3>1. CASE of.calls > limit
      <4>1. Answered(of, limit) =
              [status |-> "data_unavailable", of |-> {}, calls |-> limit, options |-> <<>>]
        BY <3>1, Zenon DEF Answered
      <4> QED
        BY <4>1
    <3>2. CASE ~(of.calls > limit)
      <4>1. Answered(of, limit) =
              [status |-> StatusOf(of.verdict), of |-> {of}, calls |-> of.calls,
               options |-> of.repairs]
        BY <3>2, Zenon DEF Answered
      <4> QED
        BY <2>8, <4>1
    <3> QED
      BY <3>1, <3>2
  <2> QED
    BY <2>9, Zenon DEF Answer, of, d
<1>6. \A s : Bare(s).status = s
  BY DEF Bare
<1>7. b.status # "disrupted"
  BY <1>2, <1>5, <1>6 DEF Revalidated
<1> QED
  BY <1>1, <1>7

--------------------------------------------------------------------------------
\* The inductive invariant: what is known of the traveller, and that the last
\* reply keeps what is promised.

\* Every event of a repair of a timeline has a length.
RepairsLast ==
  reply.status = "judged" =>
    \A r \in Range(reply.of.repairs) : \A e \in Range(r.tl) :
      e \in TimelineEvent /\ e.start < e.end

ReplyInv ==
  /\ reply.status \in Statuses /\ RepairsLast
  /\ GoodNewsIsTrue /\ StaticTimesAreNotTrusted
  /\ RepairsCanBeFollowed /\ RequiredStaysAreKept /\ PlanIsNotDisrupted

IInv == TravelInv /\ ReplyInv

\* A reply that says nothing promises nothing.
LEMMA QuietStep ==
  ASSUME reply' = NoReply \/ reply' = [status |-> "raised"]
  PROVE  ReplyInv'
<1>1. reply'.status \in {"none", "raised"}
  BY DEF NoReply
<1>2. /\ reply'.status \in Statuses
      /\ reply'.status \notin {"judged", "evaluated", "on_schedule", "at_risk", "disrupted"}
  BY <1>1 DEF Statuses
<1> QED
  BY <1>2 DEF ReplyInv, RepairsLast, GoodNewsIsTrue, StaticTimesAreNotTrusted,
              RepairsCanBeFollowed, RequiredStaysAreKept, PlanIsNotDisrupted

LEMMA InitHolds == Init => IInv
<1> SUFFICES ASSUME Init PROVE IInv
  OBVIOUS
<1>1. trip \in Trips /\ now = trip.open /\ trip.open \in Nat /\ Len(trip.tl) \in Nat
  BY TripFacts, EventFacts DEF Init
<1>2. TravelInv
  BY <1>1 DEF Init, TravelInv, TravelStates
<1>3. reply.status = "none"
  BY DEF Init, NoReply
<1>4. ReplyInv
  BY <1>3 DEF ReplyInv, RepairsLast, GoodNewsIsTrue, StaticTimesAreNotTrusted,
              RepairsCanBeFollowed, RequiredStaysAreKept, PlanIsNotDisrupted, Statuses
<1> QED
  BY <1>2, <1>4 DEF IInv

\* A call leaves the traveller alone.
LEMMA TravellerStays ==
  ASSUME TravelInv, UNCHANGED <<trip, now, progress>>
  PROVE  TravelInv'
BY DEF TravelInv, Current

\* evaluate_jeju_day_trip with the activities of a day.
LEMMA EvaluateActivitiesStep ==
  ASSUME IInv, NEW r \in trip.drafts, EvaluateActivities(r)
  PROVE  IInv'
<1> DEFINE answer == Evaluated(r.q, r.day, Plain)
<1>1. PICK limit \in Limits : reply' = ReplyToDay(r.q, answer, limit)
  BY DEF EvaluateActivities
<1>2. TravelInv'
  BY TravellerStays DEF EvaluateActivities, IInv
<1>3. IsRequest(r.q) /\ IsDay(r.day)
  BY TripFacts DEF IInv, TravelInv
<1>4. GoodRepairs(r.q, answer.day, answer.repairs)
  BY <1>3, EvaluatedRepairs
<1> HIDE DEF answer
<1>5. CASE reply' = [status |-> "raised"]
  BY <1>2, <1>5, QuietStep DEF IInv
<1>6. CASE reply' = [status |-> "evaluated", q |-> r.q, of |-> answer]
  <2>1. reply'.status = "evaluated" /\ reply'.q = r.q /\ reply'.of = answer
    BY <1>6
  <2>2. PICK S : answer.repairs \in Seq(S)
                 /\ \A x \in S : CanFollow(r.q, x.day) /\ KeepsActs(answer.day, x.day)
    BY <1>4 DEF GoodRepairs
  <2>3. Range(answer.repairs) \subseteq S
    BY <2>2, ElementOfSeq, LenProperties DEF Range
  <2>4. RepairsCanBeFollowed'
    BY <2>1, <2>2, <2>3 DEF RepairsCanBeFollowed, KeepsActs
  <2>5. ReplyInv'
    BY <2>1, <2>4 DEF ReplyInv, RepairsLast, GoodNewsIsTrue, StaticTimesAreNotTrusted,
                      RequiredStaysAreKept, PlanIsNotDisrupted, Statuses
  <2> QED
    BY <1>2, <2>5 DEF IInv
<1> QED
  BY <1>1, <1>5, <1>6 DEF ReplyToDay

\* evaluate_jeju_day_trip with the full timeline of a day.
LEMMA EvaluateTimelineStep ==
  ASSUME IInv, EvaluateTimeline
  PROVE  IInv'
<1> DEFINE answer == Original[trip]
<1>1. PICK limit \in Limits : reply' = ReplyToTimeline(answer, limit)
  BY DEF EvaluateTimeline
<1>2. TravelInv' /\ trip' = trip
  BY TravellerStays DEF EvaluateTimeline, IInv
<1>3. trip \in Trips
  BY DEF IInv, TravelInv
<1>4. answer = EvaluatedTimeline(trip.q, trip.tl, trip.open, trip.alts)
  BY <1>3 DEF Original
<1>5. GoodOffers(trip.q, trip.tl, answer.repairs)
  BY <1>3, <1>4, TripFacts, AnswerIsGood
<1> HIDE DEF answer
<1>6. CASE reply' = [status |-> "raised"]
  BY <1>2, <1>6, QuietStep DEF IInv
<1>7. CASE reply' = [status |-> "judged", of |-> answer]
  <2>1. reply'.status = "judged" /\ reply'.of = answer
    BY <1>7
  <2>2. PICK S : answer.repairs \in Seq(S) /\ \A x \in S : GoodTimeline(trip.q, trip.tl, x.tl)
    BY <1>5 DEF GoodOffers
  <2>3. Range(answer.repairs) \subseteq S
    BY <2>2, ElementOfSeq, LenProperties DEF Range
  <2>4. ASSUME NEW x \in Range(answer.repairs), NEW e \in Range(x.tl)
        PROVE  e \in TimelineEvent /\ e.start < e.end
    <3>1. EventsLast(x.tl)
      BY <2>2, <2>3 DEF GoodTimeline
    <3>2. x.tl \in Seq(TimelineEvent) /\ \A k \in 1..Len(x.tl) : x.tl[k].start < x.tl[k].end
      BY <3>1 DEF EventsLast
    <3>3. PICK k \in 1..Len(x.tl) : e = x.tl[k]
      BY <3>2, LenProperties DEF Range
    <3> QED
      BY <3>2, <3>3, ElementOfSeq
  <2>5. RepairsLast'
    BY <2>1, <2>4 DEF RepairsLast
  <2>6. RequiredStaysAreKept'
    BY <1>2, <2>1, <2>2, <2>3 DEF RequiredStaysAreKept, GoodTimeline, KeepsStays
  <2>7. ReplyInv'
    BY <2>1, <2>5, <2>6 DEF ReplyInv, GoodNewsIsTrue, StaticTimesAreNotTrusted,
                      RepairsCanBeFollowed, PlanIsNotDisrupted, Statuses
  <2> QED
    BY <1>2, <2>7 DEF IInv
<1> QED
  BY <1>1, <1>6, <1>7 DEF ReplyToTimeline

--------------------------------------------------------------------------------
\* The traveller.

LEMMA WaitStep ==
  ASSUME IInv, NEW m \in Moments, Wait(m)
  PROVE  IInv'
<1>1. m \in Int
  <2>1. \A e \in Range(trip.tl) : e.start \in Int /\ e.end \in Int
    BY TripFacts, EventFacts DEF IInv, TravelInv, Range
  <2>2. \A d \in Delays : d \in Int
    BY RevalidationAssumption
  <2> QED
    BY <2>1, <2>2 DEF Moments
<1>2. now' = m /\ m > now /\ trip' = trip /\ progress' = progress /\ reply' = NoReply
  BY DEF Wait
<1>3. TravelInv'
  BY <1>1, <1>2 DEF IInv, TravelInv, Current
<1> QED
  BY <1>2, <1>3, QuietStep DEF IInv

\* The traveller goes on to an event of the plan.
LEMMA ProceedStep ==
  ASSUME IInv, NEW state \in TravelStates, NEW event \in 0..Len(trip.tl),
         NEW place \in {Start} \cup Places, Proceed(state, event, place),
         state \in {"walking", "waiting_bus", "on_bus", "in_taxi"} =>
           trip.tl[event].type = "transfer",
         state \in {"at_place", "ready_to_depart"} =>
           event # 0 /\ Activity(trip.tl[event]) /\ place = trip.tl[event].place
  PROVE  IInv'
<1>1. /\ trip' = trip /\ now' = now /\ reply' = NoReply
      /\ progress'.state = state /\ progress'.event = event
      /\ progress'.place = place /\ progress'.started = now
  BY DEF Proceed
<1>2. Current' = trip.tl[event]
  BY <1>1 DEF Current
<1>3. TravelInv'
  BY <1>1, <1>2 DEF IInv, TravelInv
<1> QED
  BY <1>1, <1>3, QuietStep DEF IInv

LEMMA LeaveStep ==
  ASSUME IInv, Leave
  PROVE  IInv'
<1> DEFINE i == Min(NextTransfer)
           state == CASE trip.tl[i].mode = "walk" -> "walking"
                      [] trip.tl[i].mode = "taxi" -> "in_taxi"
                      [] OTHER -> "waiting_bus"
<1>1. Proceed(state, i, progress.place)
  BY DEF Leave
<1>2. NextTransfer \in SUBSET (1..Len(trip.tl)) /\ NextTransfer \subseteq Transfers(trip.tl)
  BY TripFacts, EventFacts DEF IInv, TravelInv, NextTransfer
<1>3. i \in NextTransfer
  <2>1. NextTransfer \in SUBSET Nat /\ NextTransfer # {}
    BY <1>2 DEF Leave
  <2> QED
    BY <2>1, MinOfNaturals
<1>4. state \in {"walking", "in_taxi", "waiting_bus"}
  OBVIOUS
<1> HIDE DEF i, state
<1>5. i \in 0..Len(trip.tl) /\ trip.tl[i].type = "transfer"
  BY <1>2, <1>3 DEF Transfers
<1>6. progress.place \in {Start} \cup Places
  BY DEF IInv, TravelInv
<1> QED
  BY <1>1, <1>4, <1>5, <1>6, ProceedStep DEF TravelStates

LEMMA BoardStep ==
  ASSUME IInv, Board
  PROVE  IInv'
<1>1. progress.event \in 0..Len(trip.tl) /\ progress.place \in {Start} \cup Places
      /\ trip.tl[progress.event].type = "transfer"
  BY DEF IInv, TravelInv, Board, Current
<1>2. Proceed("on_bus", progress.event, progress.place)
  BY DEF Board
<1> QED
  BY <1>1, <1>2, ProceedStep DEF TravelStates

LEMMA ArriveStep ==
  ASSUME IInv, Arrive
  PROVE  IInv'
<1>1. PICK i \in DOMAIN trip.tl :
        Activity(trip.tl[i]) /\ Proceed("at_place", i, trip.tl[i].place)
  BY DEF Arrive
<1>2. i \in 0..Len(trip.tl) /\ i # 0 /\ trip.tl[i].place \in {Start} \cup Places
  BY <1>1, TripFacts, EventFacts DEF IInv, TravelInv
<1> QED
  BY <1>1, <1>2, ProceedStep DEF TravelStates

LEMMA EndStayStep ==
  ASSUME IInv, EndStay
  PROVE  IInv'
<1>1. progress.event \in 0..Len(trip.tl) /\ progress.place \in {Start} \cup Places
  BY DEF IInv, TravelInv
<1>2. Proceed("ready_to_depart", progress.event, progress.place)
  BY DEF EndStay
<1>3. Activity(trip.tl[progress.event]) /\ progress.event # 0
      /\ progress.place = trip.tl[progress.event].place
  BY DEF EndStay, IInv, TravelInv, Current
<1> QED
  BY <1>1, <1>2, <1>3, ProceedStep DEF TravelStates

\* revalidate_jeju_day_trip.
LEMMA AskStep ==
  ASSUME IInv, Ask
  PROVE  IInv'
<1>1. PICK place \in Reported, arrival \in Arrivals, limit \in Limits, ready \in BOOLEAN :
        reply' = Revalidate(place, arrival, limit, ready)
  BY DEF Ask
<1>2. TravelInv /\ TravelInv' /\ trip' = trip /\ now' = now /\ progress' = progress
  BY TravellerStays DEF Ask, IInv
<1> DEFINE r == Revalidate(place, arrival, limit, ready)
<1>3. r.status \in Statuses \ {"none", "raised", "evaluated", "judged"} /\ r.arrival = arrival
  BY ReplyFacts
<1>4. reply' = r
  BY <1>1
<1>5. GoodNewsIsTrue'
  <2> SUFFICES ASSUME r.status \in {"on_schedule", "at_risk"}, progress.state # "waiting_bus",
                      NEW of \in r.of
               PROVE  CanFollow(trip.q, of.day)
    BY <1>2, <1>4 DEF GoodNewsIsTrue
  <2> HIDE DEF r
  <2> QED
    BY <1>2, GoodNewsStep DEF r
<1>6. StaticTimesAreNotTrusted'
  <2> SUFFICES ASSUME r.status \in {"on_schedule", "at_risk"}, progress.state = "waiting_bus",
                      NEW of \in r.of,
                      LegOf(of.day, 1)[1] # LegOf(of.day, 1)[2],
                      PlannedAgain(trip.q, Context(arrival), LegOf(of.day, 1)) # NoEvidence
               PROVE  arrival \in Nat
    <3>1. Context(arrival)' = Context(arrival)
      BY <1>2 DEF Context, PlannedEvidence, Current
    <3>2. reply'.arrival = arrival
      BY <1>3, <1>4
    <3>3. Context(reply.arrival)' = Context(arrival)
      BY <3>1, <3>2 DEF Context, PlannedEvidence, Current
    <3> HIDE DEF r
    <3> QED
      BY <1>2, <1>4, <3>2, <3>3 DEF StaticTimesAreNotTrusted, MustBoard
  <2> HIDE DEF r
  <2> QED
    BY <1>2, LiveNewsStep DEF r
<1>7. PlanIsNotDisrupted'
  <2>1. r.place = place
    BY Zenon DEF Revalidate, WithTaxi
  <2>2. ASSUME progress.state # "waiting_bus", PlannedAsFound(trip.q, trip.tl), StillAdmitted,
               OnPlanAt(place)
        PROVE  r.status # "disrupted"
    BY <1>2, <2>2, CalmOnPlan
  <2> HIDE DEF r
  <2>3. StillAdmitted' = StillAdmitted
    BY <1>2 DEF StillAdmitted, Current
  <2>4. PlannedAsFound(trip.q, trip.tl)' = PlannedAsFound(trip.q, trip.tl)
    BY <1>2
  <2>5. OnPlan' => OnPlanAt(place)
    BY <1>2, <1>4, <2>1 DEF OnPlan, OnPlanAt, Current
  <2> QED
    BY <1>2, <1>4, <2>2, <2>3, <2>4, <2>5 DEF PlanIsNotDisrupted
<1> HIDE DEF r
<1>8. ReplyInv'
  BY <1>3, <1>4, <1>5, <1>6, <1>7 DEF ReplyInv, RepairsLast, RepairsCanBeFollowed,
                                     RequiredStaysAreKept, Statuses
<1> QED
  BY <1>2, <1>8 DEF IInv

LEMMA StepHolds == IInv /\ [Next]_vars => IInv'
<1> SUFFICES ASSUME IInv, [Next]_vars PROVE IInv'
  OBVIOUS
<1>1. ASSUME NEW r \in trip.drafts, EvaluateActivities(r) PROVE IInv'
  BY <1>1, EvaluateActivitiesStep
<1>2. ASSUME EvaluateTimeline PROVE IInv'
  BY <1>2, EvaluateTimelineStep
<1>3. ASSUME NEW m \in Moments, Wait(m) PROVE IInv'
  BY <1>3, WaitStep
<1>4. ASSUME Leave PROVE IInv'
  BY <1>4, LeaveStep
<1>5. ASSUME Board PROVE IInv'
  BY <1>5, BoardStep
<1>6. ASSUME Arrive PROVE IInv'
  BY <1>6, ArriveStep
<1>7. ASSUME EndStay PROVE IInv'
  BY <1>7, EndStayStep
<1>8. ASSUME Ask PROVE IInv'
  BY <1>8, AskStep
<1>9. ASSUME UNCHANGED vars PROVE IInv'
  <2>1. UNCHANGED <<trip, now, progress, reply>>
    BY <1>9 DEF vars
  <2>2. TravelInv'
    BY <2>1, TravellerStays DEF IInv
  <2>3. PlanIsNotDisrupted'
    BY <2>1 DEF IInv, ReplyInv, PlanIsNotDisrupted, StillAdmitted, OnPlan, Current
  <2>4. (GoodNewsIsTrue /\ StaticTimesAreNotTrusted)'
    BY <2>1 DEF IInv, ReplyInv, GoodNewsIsTrue, StaticTimesAreNotTrusted, MustBoard, Context,
                PlannedEvidence, Current
  <2>5. (RepairsLast /\ RepairsCanBeFollowed /\ RequiredStaysAreKept)'
    BY <2>1 DEF IInv, ReplyInv, RepairsLast, RepairsCanBeFollowed, RequiredStaysAreKept
  <2> QED
    BY <2>1, <2>2, <2>3, <2>4, <2>5 DEF IInv, ReplyInv
<1> QED
  BY <1>1, <1>2, <1>3, <1>4, <1>5, <1>6, <1>7, <1>8, <1>9 DEF Next

LEMMA InvariantAlways == Spec => []IInv
BY InitHolds, StepHolds, PTL DEF Spec

--------------------------------------------------------------------------------
\* The traveller is where the plan puts him, and no reply holds an event of no length.
THEOREM TypeCorrect == Spec => []TypeOK
<1>1. IInv => TypeOK
  BY DEF IInv, TravelInv, ReplyInv, RepairsLast, TypeOK
<1> QED
  BY <1>1, InvariantAlways, PTL

\* An answer other than disrupted, to a traveller who waits for no bus, means that
\* what is left of the day can be followed from here and now by the facts alone.
THEOREM GoodNewsIsAlwaysTrue == Spec => []GoodNewsIsTrue
<1>1. IInv => GoodNewsIsTrue
  BY DEF IInv, ReplyInv
<1> QED
  BY <1>1, InvariantAlways, PTL

\* Whoever waits for a bus of which nothing is known live is never told that what
\* is left of the day is fine.
THEOREM StaticTimesAreNeverTrusted == Spec => []StaticTimesAreNotTrusted
<1>1. IInv => StaticTimesAreNotTrusted
  BY DEF IInv, ReplyInv
<1> QED
  BY <1>1, InvariantAlways, PTL

\* A repair that is offered for a day of activities can be followed from where it
\* begins, and keeps every activity, none of them longer or later.
THEOREM RepairsCanAlwaysBeFollowed == Spec => []RepairsCanBeFollowed
<1>1. IInv => RepairsCanBeFollowed
  BY DEF IInv, ReplyInv
<1> QED
  BY <1>1, InvariantAlways, PTL

\* A repair of a timeline leaves no gap, and keeps every required activity with
\* its full stay where a leg lies between any two stays.
THEOREM RequiredStaysAreAlwaysKept == Spec => []RequiredStaysAreKept
<1>1. IInv => RequiredStaysAreKept
  BY DEF IInv, ReplyInv
<1> QED
  BY <1>1, InvariantAlways, PTL

\* A traveller who is on a plan that was found feasible is never told that the day
\* is disrupted: not on the way, not within a stay that was reached in time, and
\* not when it ends.
THEOREM PlanIsNeverDisrupted == Spec => []PlanIsNotDisrupted
<1>1. IInv => PlanIsNotDisrupted
  BY DEF IInv, ReplyInv
<1> QED
  BY <1>1, InvariantAlways, PTL
================================================================================
