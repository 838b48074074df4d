------------------------------ MODULE Evaluation ------------------------------
(***************************************************************************)
(* ItineraryEvaluationEngine: the verdict on a day of activities whose     *)
(* transfers are looked up, the response that sums issues and risks up,    *)
(* and the repairs that are offered with an infeasible day of either form. *)
(* The verdict on a full timeline itself is in DayTimeline.  A response    *)
(* counts the calls it claims, because all evaluations of one tool call    *)
(* share a budget.                                                         *)
(***************************************************************************)
EXTENDS DayTimeline, Ordering, SequencesExt

CONSTANTS
  StairsKnown, \* legs whose pedestrian route tells whether it has stairs
  MealSafety,  \* Places -> what dietary_safety finds for the request
  StopOf,      \* <<place, minutes to the stop>> -> the stop and route boarded there
  Unconfirmed, \* no stop of the provider is known to be the one of the plan
  Lost,        \* the call for arrivals fails
  Stale        \* what the call answers cannot be used

Boardings == {<<leg[1], b.access>> : leg \in Legs, b \in UNION {BusesOf[l] : l \in Legs}}

ASSUME EvaluationAssumption ==
  /\ StairsKnown \subseteq Legs
  /\ MealSafety \in [Places -> {"safe", "unsafe", "unknown"}]
  /\ Boardings \subseteq DOMAIN StopOf
  /\ {Unconfirmed, Lost, Stale} \cap Nat = {}

\* An evaluation depends on more of a request than a plan does: Request with
\*   avoidStairs  walking.avoid_stairs_required
\*   diet         food.allergens or food.excluded_foods are given

\* A day of activities: where and when it begins, the activities with the
\* identity of their events, and leg_constraints.  0 stands for no event.
Draft(from, at, acts, locks) == [from |-> from, at |-> at, acts |-> acts, locks |-> locks]
Act(id, place, start, end) == [id |-> id, place |-> place, start |-> start, end |-> end]
Lock(f, t, mode) == [f |-> f, t |-> t, mode |-> mode]

--------------------------------------------------------------------------------
\* Evidence for a leg: a route with the stop it boards at and the wait there.

NoEvidence == [mode |-> "none", minutes |-> 0, walked |-> 0, walking |-> 0,
               ride |-> NoRide, stop |-> NoPlace, wait |-> 0]
AtDestination == [NoEvidence EXCEPT !.mode = "here"]

\* The ride a bus route is made of.
RideOf(leg, r) ==
  CHOOSE b \in BusesOf[leg] : /\ b.departs = r.ride.departs /\ b.arrives = r.ride.arrives
                              /\ b.access + b.egress = r.walked

\* RouteEvidence of PostgresEvaluationEvidence; at: when it leaves.
RouteEvidence(q, leg, at, r) ==
  LET b == RideOf(leg, r)
      access == Planned(q, "balanced", b.access)
      bus == r.mode = "bus"
  IN [mode |-> r.mode, minutes |-> r.minutes, walked |-> r.walked, ride |-> r.ride,
      walking |-> r.afoot,
      stop |-> IF bus THEN StopOf[<<leg[1], b.access>>] ELSE NoPlace,
      wait |-> IF bus THEN Max({0, r.ride.departs - at - access}) ELSE 0]

EvidenceOf(q, leg, at, routes) ==
  IF routes = {} THEN NoEvidence
  ELSE RouteEvidence(q, leg, at, CHOOSE r \in routes : TRUE)

RouteForMode(q, leg, at, mode) ==
  EvidenceOf(q, leg, at, RoutesBy(q, "balanced", leg, at, mode))

\* What selection_policy minimises; cost_time_balance adds it all up here.
Weight(q, leg, e) ==
  CASE q.policy = "prefer_selected" -> 0
    [] q.policy = "fastest" -> e.minutes
    [] q.policy = "lowest_cost" -> FareOf[leg][e.mode]
    [] q.policy = "least_walking" -> e.walking
    [] OTHER -> e.minutes + e.walking + FareOf[leg][e.mode]

\* The first of the offers that weighs least.
FirstLeast(q, leg, offers) ==
  LET able == {k \in DOMAIN offers : offers[k] # NoEvidence}
      least == {k \in able : \A j \in able :
                  Weight(q, leg, offers[k]) <= Weight(q, leg, offers[j])}
  IN IF able = {} THEN NoEvidence ELSE offers[Min(least)]

\* route: by the ordered modes.
BestRoute(q, leg, at) ==
  FirstLeast(q, leg, [k \in DOMAIN q.order |-> RouteForMode(q, leg, at, q.order[k])])

--------------------------------------------------------------------------------
\* _evaluate_activities: one leg before each activity and one home.

Legged(d) == IF d.acts = <<>> THEN {} ELSE 1..(Len(d.acts) + 1)
LegOf(d, i) == <<IF i = 1 THEN d.from ELSE d.acts[i - 1].place,
                 IF i > Len(d.acts) THEN End ELSE d.acts[i].place>>
IdsOf(d, i) == <<IF i = 1 THEN 0 ELSE d.acts[i - 1].id,
                 IF i > Len(d.acts) THEN 0 ELSE d.acts[i].id>>
LeavesAt(d, i) == IF i = 1 THEN d.at ELSE d.acts[i - 1].end
DueAt(q, d, i) == IF i > Len(d.acts) THEN q.close ELSE d.acts[i].start

\* The first leg constraint between the two events.
LockedMode(d, i) ==
  LET k == SelectInSeq(d.locks, LAMBDA l : <<l.f, l.t>> = IdsOf(d, i))
  IN IF k = 0 THEN "any" ELSE d.locks[k].mode

\* _route: one claim of the budget, then the locked mode or the best one.
Looked(q, d, i) ==
  LET leg == LegOf(d, i) IN
  IF leg[1] = leg[2] THEN AtDestination
  ELSE IF LockedMode(d, i) = "any" THEN BestRoute(q, leg, LeavesAt(d, i))
  ELSE RouteForMode(q, leg, LeavesAt(d, i), LockedMode(d, i))

RiskOf(slack) == IF slack < 0 THEN "critical" ELSE IF slack < 10 THEN "high"
                 ELSE IF slack < 20 THEN "medium" ELSE "low"

Slack(q, d, i, e) == DueAt(q, d, i) - LeavesAt(d, i) - e.minutes

StairsUnverifiable(q, leg, e) ==
  q.avoidStairs /\ e.mode # "here" /\ (e.mode # "walk" \/ leg \notin StairsKnown)

\* The one issue of a leg, the first of the chain that holds.
LegIssue(q, d, i, e) ==
  IF e = NoEvidence THEN "ROUTE_EVIDENCE_MISSING"
  ELSE IF e.mode # "here" /\ LockedMode(d, i) \notin {"any", e.mode} THEN "LOCKED_MODE_UNAVAILABLE"
  ELSE IF StairsUnverifiable(q, LegOf(d, i), e) THEN "ACCESSIBILITY_UNVERIFIABLE"
  ELSE IF Slack(q, d, i, e) < 0 THEN "NEGATIVE_TRANSFER_SLACK"
  ELSE "none"

LegRisk(q, d, i, e) ==
  IF e = NoEvidence \/ StairsUnverifiable(q, LegOf(d, i), e) THEN "unknown"
  ELSE IF LegIssue(q, d, i, e) = "LOCKED_MODE_UNAVAILABLE" THEN "critical"
  ELSE IF e.mode = "here" THEN "low"
  ELSE RiskOf(Slack(q, d, i, e))

\* _check_opening and _check_dietary
ActIssues(q, a, admission) ==
  LET ws == WindowsOf[a.place]
      last == IF admission THEN LastAdmission(a.place) ELSE NoTime
      closed == ~ \E w \in ws : w.opens <= a.start /\ a.end <= w.closes
      meal == q.diet /\ KindOf[a.place] = "meal"
  IN {c \in {"OPENING_HOURS_UNKNOWN", "PLACE_CLOSED", "LAST_ADMISSION_MISSED",
             "DIETARY_SAFETY_UNVERIFIABLE", "DIETARY_CONSTRAINT_VIOLATED"} :
        CASE c = "OPENING_HOURS_UNKNOWN" -> ws = {}
          [] c = "PLACE_CLOSED" -> ws # {} /\ closed
          [] c = "LAST_ADMISSION_MISSED" -> ws # {} /\ ~closed /\ last # NoTime /\ a.start > last
          [] c = "DIETARY_SAFETY_UNVERIFIABLE" -> meal /\ MealSafety[a.place] = "unknown"
          [] c = "DIETARY_CONSTRAINT_VIOLATED" -> meal /\ MealSafety[a.place] = "unsafe"}

\* Longest activity without a break, over the transfers and stays of the day.
LongestStretch(q, d, found) ==
  LET stretch[i \in 0..Len(found)] ==
        IF i = 0 THEN [now |-> 0, max |-> 0]
        ELSE LET e == found[i]
                 leg == IF e = NoEvidence THEN Max({0, DueAt(q, d, i) - LeavesAt(d, i)})
                        ELSE e.minutes
                 there == stretch[i - 1].now + leg
                 ends == i > Len(d.acts)
                 stay == IF ends THEN 0 ELSE d.acts[i].end - d.acts[i].start
                 break == ~ends /\ KindOf[d.acts[i].place] \in {"meal", "rest"}
             IN [now |-> IF break THEN 0 ELSE there + stay,
                 max |-> Max({stretch[i - 1].max, IF break THEN there ELSE there + stay})]
  IN stretch[Len(found)].max

--------------------------------------------------------------------------------
\* _response: what all issues and risks come to.

Critical == {"EMPTY_SCHEDULE", "EVENT_OVERLAP", "LOCKED_MODE_UNAVAILABLE",
             "NEGATIVE_TRANSFER_SLACK", "PLACE_CLOSED", "LAST_ADMISSION_MISSED",
             "DIETARY_CONSTRAINT_VIOLATED", "TOTAL_WALKING_LIMIT_EXCEEDED",
             "TOTAL_BUDGET_EXCEEDED", "MISSING_REQUIRED_REST", "TIMELINE_INVALID", "USER_ROUTE_FACT_MISMATCH"}
Unknown == {"ROUTE_EVIDENCE_MISSING", "ACCESSIBILITY_UNVERIFIABLE", "OPENING_HOURS_UNKNOWN",
            "DIETARY_SAFETY_UNVERIFIABLE"}

EvidenceStatus(issues) ==
  IF "ROUTE_EVIDENCE_MISSING" \in issues THEN "unavailable"
  ELSE IF issues \cap Unknown # {} THEN "partial" ELSE "verified"

\* The status and the overall risk; timing_status follows from them.
Verdict(issues, risks) ==
  LET evidence == EvidenceStatus(issues)
      verdict(status, risk, timing) ==
        [status |-> status, risk |-> risk, timing |-> timing, evidence |-> evidence]
  IN IF issues \cap Critical # {} \/ "critical" \in risks
     THEN verdict("infeasible", "critical", "disrupted")
     ELSE IF evidence = "unavailable" THEN verdict("unverifiable", "unknown", "unknown")
     ELSE IF "high" \in risks THEN verdict("feasible_with_caution", "high", "at_risk")
     ELSE IF "medium" \in risks THEN verdict("feasible_with_caution", "medium", "at_risk")
     ELSE IF evidence = "partial" THEN verdict("feasible_with_caution", "low", "on_schedule")
     ELSE verdict("feasible", "low", "on_schedule")

Passes(v) == v.status \in {"feasible", "feasible_with_caution"}

DayIssues(q, d, found) ==
  LET walked == MapThenSumSet(LAMBDA i : found[i].walked, DOMAIN found)
      moves == {i \in DOMAIN found : found[i].mode \in Modes}
      cost == MapThenSumSet(LAMBDA i : FareOf[LegOf(d, i)][found[i].mode], moves)
  IN (IF d.acts = <<>> THEN {"EMPTY_SCHEDULE"} ELSE {}) \cup
     (IF \E i \in 1..(Len(d.acts) - 1) : d.acts[i].end > d.acts[i + 1].start
      THEN {"EVENT_OVERLAP"} ELSE {}) \cup
     (IF walked > MaxWalked THEN {"TOTAL_WALKING_LIMIT_EXCEEDED"} ELSE {}) \cup
     (IF q.budget # NoTime /\ cost > q.budget THEN {"TOTAL_BUDGET_EXCEEDED"} ELSE {}) \cup
     (IF q.restRequired /\ LongestStretch(q, d, found) > MaxContinuous
      THEN {"MISSING_REQUIRED_REST"} ELSE {})

\* The verdict, given the evidence found for each leg.
Judged(q, d, found, admission) ==
  LET issues == {LegIssue(q, d, i, found[i]) : i \in DOMAIN found} \cup
                (UNION {ActIssues(q, d.acts[i], admission) : i \in DOMAIN d.acts}) \cup
                DayIssues(q, d, found)
  IN Verdict(issues, {LegRisk(q, d, i, found[i]) : i \in DOMAIN found})

\* Activities that begin together stay in the order they were given in.
Sorted(d) ==
  LET order == Ordered([k \in DOMAIN d.acts |-> <<d.acts[k].start, k>>])
  IN [d EXCEPT !.acts = [k \in DOMAIN d.acts |-> d.acts[order[k]]]]

NegativeLegs(q, d, found) ==
  {i \in DOMAIN found : found[i] # NoEvidence /\ Slack(q, d, i, found[i]) < 0}

--------------------------------------------------------------------------------
\* TagoRealtimeEvaluationEvidence.  A context says whether it is in use, which
\* stop the traveller waits at, the bus transfer that is under way, and what the
\* provider knows of it: Unconfirmed, Lost, Stale or minutes.

Plain == [live |-> FALSE, now |-> 0, stop |-> NoPlace, planned |-> NoEvidence,
          leaves |-> 0, arrival |-> Lost]

\* _apply_realtime once the bus is the one that is waited for: the planned wait
\* is replaced.
WithArrival(ctx, e) ==
  IF ctx.arrival \in {Unconfirmed, Lost, Stale} THEN NoEvidence
  ELSE [e EXCEPT !.minutes = Max({0, @ - e.wait}) + ctx.arrival]

\* _verified_planned_current_route: the planned bus, looked up at its planned time.
IfPlanned(ctx, e) ==
  IF e.ride = ctx.planned.ride /\ e.stop = ctx.planned.stop THEN e ELSE NoEvidence

PlannedAgain(q, ctx, leg) == IfPlanned(ctx, RouteForMode(q, leg, ctx.leaves, "bus"))

\* The bus found is the one that is waited for; if it is not, the planned one is
\* looked up for the leg that begins now.
Boards(ctx, e) == e.mode = "bus" /\ e.stop = ctx.stop
LooksAgain(ctx, at, e) ==
  /\ ctx.live /\ ~Boards(ctx, e)
  /\ at = ctx.now /\ ctx.planned.mode = "bus" /\ ctx.planned.stop = ctx.stop

\* The bus whose arrival is asked for, or none.
Awaited(q, ctx, leg, at, e) ==
  IF leg[1] # leg[2] /\ ctx.live /\ Boards(ctx, e) THEN e
  ELSE IF leg[1] # leg[2] /\ LooksAgain(ctx, at, e) THEN PlannedAgain(q, ctx, leg)
  ELSE NoEvidence

\* If the planned bus is not found again, what was found first is used.
Confirmed(ctx, e, awaited) == IF awaited = NoEvidence THEN e ELSE WithArrival(ctx, awaited)

\* Mutant: a bus is taken as it is scheduled.
FoundUnmatched(q, ctx, leg, at, e) == e

Found(q, ctx, leg, at, e) == Confirmed(ctx, e, Awaited(q, ctx, leg, at, e))

\* The evidence for all legs, and the calls claimed for it.  All buses that are
\* asked for board at one stop, so one snapshot in memory (held) is enough; a
\* call that fails is not remembered.
Claimed(ctx, calls, held, moves, again, asked, found) ==
  [calls |-> calls + Cardinality(moves) + Cardinality(again) +
             (IF ctx.arrival = Lost THEN Cardinality(asked)
              ELSE IF ctx.arrival = Unconfirmed \/ held \/ asked = {} THEN 0 ELSE 1),
   held |-> held \/ (asked # {} /\ ctx.arrival \notin {Unconfirmed, Lost}),
   found |-> found]

WithEvidence(q, d, ctx, calls, held, looked) ==
  LET moves == {i \in Legged(d) : LegOf(d, i)[1] # LegOf(d, i)[2]}
  IN Claimed(ctx, calls, held, moves,
             {i \in moves : LooksAgain(ctx, LeavesAt(d, i), looked[i])},
             {i \in moves : Awaited(q, ctx, LegOf(d, i), LeavesAt(d, i), looked[i]) # NoEvidence},
             [i \in Legged(d) |-> Found(q, ctx, LegOf(d, i), LeavesAt(d, i), looked[i])])

Searched(q, d, ctx, calls, held) ==
  WithEvidence(q, d, ctx, calls, held, [i \in Legged(d) |-> Looked(q, d, i)])

Assessed(q, d, ctx, s) ==
  [day |-> d, found |-> s.found, calls |-> s.calls, held |-> s.held,
   verdict |-> Judged(q, d, s.found, ~ctx.live)]

\* _evaluate_activities without repairs, as a continuation of earlier calls.
Assess(q, day, ctx, calls, held) ==
  LET d == Sorted(day) IN Assessed(q, d, ctx, Searched(q, d, ctx, calls, held))

--------------------------------------------------------------------------------
\* _attach_verified_repairs

Repair(type, id, day, tl, verdict) ==
  [type |-> type, id |-> id, day |-> day, tl |-> tl, verdict |-> verdict]

\* Mutant: a repair is offered without looking at its verdict.
OfferedAnyway(repair) == <<repair>>

Offered(repair) == IF Passes(repair.verdict) THEN <<repair>> ELSE <<>>

\* DEPART_EARLIER: the day begins as much earlier as the first leg is short of.
Earlier(q, a) ==
  IF 1 \in NegativeLegs(q, a.day, a.found) /\ a.found[1].mode # "here"
     /\ a.day.at + Slack(q, a.day, 1, a.found[1]) >= 0
  THEN {[a.day EXCEPT !.at = @ + Slack(q, a.day, 1, a.found[1])]} ELSE {}

\* SHORTEN_STAY: the activity before the first other leg that is short of time.
LateLegs(q, a) == NegativeLegs(q, a.day, a.found) \ {1}
Shorter(q, a) ==
  LET i == Min(LateLegs(q, a))
      end == a.day.acts[i - 1].end + Slack(q, a.day, i, a.found[i])
  IN IF LateLegs(q, a) # {} /\ end > a.day.acts[i - 1].start
     THEN {[a.day EXCEPT !.acts[i - 1].end = end]} ELSE {}

\* A day is assessed under the budget of the answer, and offered if it passes.
TriedDay(s, type, id, b) ==
  [calls |-> b.calls, held |-> b.held,
   repairs |-> s.repairs \o Offered(Repair(type, id, b.day, <<>>, b.verdict))]

DepartEarlier(q, ctx, a, s) ==
  IF Earlier(q, a) = {} THEN s
  ELSE TriedDay(s, "DEPART_EARLIER", 0,
                Assess(q, CHOOSE d \in Earlier(q, a) : TRUE, ctx, s.calls, s.held))

\* A leg between two events at one place has no issue to repair, but makes calls.
ShortenStay(q, ctx, a, s) ==
  LET i == Min(LateLegs(q, a)) IN
  IF Shorter(q, a) = {} THEN s
  ELSE LET t == TriedDay(s, "SHORTEN_STAY", a.day.acts[i - 1].id,
                         Assess(q, CHOOSE d \in Shorter(q, a) : TRUE, ctx, s.calls, s.held))
       IN IF a.found[i].mode = "here" THEN [t EXCEPT !.repairs = s.repairs] ELSE t

\* The answer to a day that was assessed, with what its repairs add.
WithRepairs(q, ctx, a) ==
  LET none == [calls |-> a.calls, held |-> a.held, repairs |-> <<>>]
      s == IF a.verdict.status # "infeasible" THEN none
           ELSE ShortenStay(q, ctx, a, DepartEarlier(q, ctx, a, none))
  IN [day |-> a.day, found |-> a.found, verdict |-> a.verdict,
      calls |-> s.calls, repairs |-> s.repairs]

\* The answer to a day of activities, and the calls made for it.
Evaluated(q, day, ctx) == WithRepairs(q, ctx, Assess(q, day, ctx, 0, FALSE))

--------------------------------------------------------------------------------
\* A full timeline.  alts gives, for each transfer, the modes of its
\* route_alternatives, the fastest first.

FoundFor(q, tl, i) ==
  RouteForMode(q, <<FromOf(tl, i), ToOf(tl, i)>>, tl[i].start, tl[i].mode)

TimelineSlack(q, tl, i) == EvaluatedSlack(q, tl, i, FoundFor(q, tl, i))

TimelineLegIssue(q, tl, i, e) ==
  IF e = NoEvidence THEN "ROUTE_EVIDENCE_MISSING"
  ELSE IF e.ride # tl[i].ride THEN "USER_ROUTE_FACT_MISMATCH"
  ELSE IF StairsUnverifiable(q, <<FromOf(tl, i), ToOf(tl, i)>>, e) THEN "ACCESSIBILITY_UNVERIFIABLE"
  ELSE IF EvaluatedSlack(q, tl, i, e) < 0 THEN "NEGATIVE_TRANSFER_SLACK"
  ELSE "none"

TimelineLegRisk(q, tl, i, e) ==
  IF TimelineLegIssue(q, tl, i, e) \in Unknown THEN "unknown"
  ELSE IF TimelineLegIssue(q, tl, i, e) \in Critical THEN "critical"
  ELSE RiskOf(EvaluatedSlack(q, tl, i, e))

TimelineVerdict(q, tl, open) ==
  LET issues ==
        {TimelineLegIssue(q, tl, i, FoundFor(q, tl, i)) : i \in Transfers(tl)} \cup
        (UNION {ActIssues(q, tl[i], TRUE) : i \in {j \in DOMAIN tl : Activity(tl[j])}}) \cup
        (IF BoundaryComplete(q, tl, open) /\ Gapless(tl) /\ Continuous(tl)
            /\ PickupsPlanned(q, tl) /\ MealsHold(tl) THEN {} ELSE {"TIMELINE_INVALID"}) \cup
        (IF LimitsHold(q, tl) THEN {} ELSE {"TOTAL_WALKING_LIMIT_EXCEEDED"}) \cup
        (IF RestHolds(q, tl) THEN {} ELSE {"MISSING_REQUIRED_REST"})
  IN Verdict(issues, {TimelineLegRisk(q, tl, i, FoundFor(q, tl, i)) : i \in Transfers(tl)})

\* _replacement_transfer: the same times, another route.
Replaced(tl, i, e) ==
  [tl EXCEPT ![i] = [@ EXCEPT !.mode = e.mode, !.ride = e.ride, !.walked = e.walked,
                              !.pickup = NoTime]]

\* One repair tried: its timeline is evaluated under the same budget.
OfferOf(q, open, type, id, tl) ==
  Offered(Repair(type, id, <<>>, tl, TimelineVerdict(q, tl, open)))
Tried(q, open, s, type, id, tl) ==
  [s EXCEPT !.calls = @ + Cardinality(Transfers(tl)),
            !.repairs = @ \o OfferOf(q, open, type, id, tl)]

\* Mutant: a required stay may be shortened too.
OptionalAny(q, tl, i) == i > 1 /\ Activity(tl[i - 1])

Optional(q, tl, i) == i > 1 /\ Activity(tl[i - 1]) /\ tl[i - 1].place \notin q.required

\* Mutant: nothing need be left of the stay.
ShortenAway(q, tl, open, i, s) ==
  LET end == tl[i - 1].end + TimelineSlack(q, tl, i)
  IN IF Optional(q, tl, i)
     THEN Tried(q, open, s, "SHORTEN_STAY", i - 1,
                [tl EXCEPT ![i - 1].end = end, ![i].start = end])
     ELSE s

ShortenBefore(q, tl, open, i, s) ==
  LET end == tl[i - 1].end + TimelineSlack(q, tl, i)
  IN IF Optional(q, tl, i) /\ end > tl[i - 1].start
     THEN Tried(q, open, s, "SHORTEN_STAY", i - 1,
                [tl EXCEPT ![i - 1].end = end, ![i].start = end])
     ELSE s

\* An alternative mode has a route, and a taxi its pickup planned.
Usable(tl, i, m, e) ==
  /\ e # NoEvidence
  /\ m = "taxi" => i > 1 /\ tl[i - 1].reason = "pickup" /\ tl[i - 1].end = tl[i].start

\* The alternatives one after the other until one passes.
FirstPassing(tl, others, usable, offers, s) ==
  LET passing == {k \in usable : offers[k] # <<>>}
      asked == {k \in others : \A j \in passing : k <= j}
  IN [s EXCEPT !.calls = @ + Cardinality(asked)
                           + Cardinality(asked \cap usable) * Cardinality(Transfers(tl)),
               !.repairs = @ \o (IF passing = {} THEN <<>> ELSE offers[Min(passing)])]

UseFaster(q, tl, open, i, modes, s) ==
  LET route(k) == RouteForMode(q, <<FromOf(tl, i), ToOf(tl, i)>>, tl[i].start, modes[k])
      others == {k \in DOMAIN modes : modes[k] # tl[i].mode}
      usable == {k \in others : Usable(tl, i, modes[k], route(k))}
  IN FirstPassing(tl, others, usable,
       [k \in usable |-> OfferOf(q, open, "USE_FASTER_VERIFIED_ALTERNATIVE", i,
                                 Replaced(tl, i, route(k)))], s)

\* A pickup of no minutes would be a buffer without length, which is refused.
TaxiInstead(q, tl, open, i, modes, s) ==
  LET at == tl[i].start + q.pickup
      e == RouteForMode(q, <<FromOf(tl, i), ToOf(tl, i)>>, at, "taxi")
      u == [s EXCEPT !.calls = @ + 1]
      called == Buffer("pickup", tl[i].start, at, FromOf(tl, i))
  IN IF tl[i].mode # "bus" \/ "taxi" \notin Range(modes) \/ at >= tl[i].end THEN s
     ELSE IF e = NoEvidence THEN u
     ELSE IF q.pickup = 0 THEN [u EXCEPT !.raised = TRUE]
     ELSE Tried(q, open, u, "TAXI_AFTER_BUS_TIMEOUT", i,
                InsertAt(Replaced([tl EXCEPT ![i].start = at], i, e), i, called))

\* The optional activity before the leg is left out: one bridge instead of two legs.
SkipBefore(q, tl, open, i, s) ==
  LET inbound == {j \in Transfers(tl) : j <= i - 2}
      j == Max(inbound)
      e == BestRoute(q, <<FromOf(tl, j), ToOf(tl, i)>>, tl[j].start)
      u == [s EXCEPT !.calls = @ + 1]
      bridge == [Replaced(tl, j, e)[j] EXCEPT !.end = tl[i].end]
  IN IF ~Optional(q, tl, i) \/ inbound = {} THEN s
     ELSE IF e = NoEvidence \/ e.mode = "taxi" THEN u
     ELSE Tried(q, open, u, "SKIP_OPTIONAL_ACTIVITY", i - 1,
                SubSeq(tl, 1, j - 1) \o <<bridge>> \o SubSeq(tl, i + 1, Len(tl)))

\* _attach_full_timeline_repairs: all for the first leg that is short of time.
Repaired(q, tl, open, alts, none) ==
  LET late == {i \in Transfers(tl) :
                 FoundFor(q, tl, i) # NoEvidence /\ TimelineSlack(q, tl, i) < 0}
      i == Min(late)
  IN IF late = {} THEN none
     ELSE SkipBefore(q, tl, open, i,
            TaxiInstead(q, tl, open, i, alts[i],
              UseFaster(q, tl, open, i, alts[i],
                ShortenBefore(q, tl, open, i, none))))

AnswerWith(v, s) ==
  [verdict |-> v, calls |-> s.calls, repairs |-> s.repairs, raised |-> s.raised]
AnswerFor(q, tl, open, alts, v) ==
  LET none == [calls |-> Cardinality(Transfers(tl)), repairs |-> <<>>, raised |-> FALSE]
  IN AnswerWith(v, IF v.status = "infeasible" THEN Repaired(q, tl, open, alts, none) ELSE none)

\* _evaluate_full_timeline
EvaluatedTimeline(q, tl, open, alts) ==
  AnswerFor(q, tl, open, alts, TimelineVerdict(q, tl, open))
================================================================================
