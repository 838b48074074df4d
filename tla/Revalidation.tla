----------------------------- MODULE Revalidation ------------------------------
(***************************************************************************)
(* A traveller follows the timeline of a day, on time or not, and asks     *)
(* revalidate_jeju_day_trip on the way; before the trip the day may be     *)
(* given to evaluate_jeju_day_trip, as a timeline or as activities only.   *)
(* Calls change nothing but the reply; the facts behind them (live         *)
(* arrivals, readiness, the time left) are those of the moment.            *)
(***************************************************************************)
EXTENDS Evaluation

CONSTANTS
  Trips,     \* [q, open, tl, alts, drafts]: a day that may be followed, and the
             \* [q, day] of the days of activities that may be evaluated before it
  Wayside,   \* the place that stands for current:gps
  Delays,    \* minutes by which the traveller may be off the plan
  Arrivals,  \* what the bus arrival provider may answer
  Limits     \* calls that may be claimed before the budget or the time ends

\* What an evaluation reads of a request.
IsRequest(q) ==
  /\ q.close \in Nat /\ q.modes \subseteq Modes /\ q.order \in Seq(Modes)
  /\ q.pace \in {"normal", "slow", "support"}
  \* A pickup of 0 minutes would be a buffer without length, which is refused.
  /\ q.pickup \in Nat \ {0} /\ q.budget \in Nat \cup {NoTime}

\* Events have a length and do not overlap, activities have a place and its type,
\* and transfers lead from one place of the day to another.
IsTimeline(tl) ==
  /\ tl \in Seq(TimelineEvent)
  /\ \A i \in DOMAIN tl :
       /\ tl[i].start < tl[i].end
       /\ Activity(tl[i]) => tl[i].place \in Places /\ tl[i].type = KindOf[tl[i].place]
  /\ \A i, j \in DOMAIN tl : i < j => tl[i].end <= tl[j].start
  /\ \A i \in Transfers(tl) : <<FromOf(tl, i), ToOf(tl, i)>> \in Legs

IsDay(d) ==
  /\ d = Draft(d.from, d.at, d.acts, d.locks)
  /\ d.from \in {Start} \cup Places /\ d.at \in Nat
  /\ d.acts \in Seq([id : Nat, place : Places, start : Nat, end : Nat])
  /\ \A i \in DOMAIN d.acts : d.acts[i].start < d.acts[i].end

ASSUME RevalidationAssumption ==
  /\ Wayside \in Places /\ Delays \subseteq Int /\ Limits \subseteq Nat
  /\ Arrivals \subseteq {Unconfirmed, Lost, Stale} \cup Nat
  /\ \A t \in Trips :
       /\ IsRequest(t.q) /\ t.open \in Nat /\ IsTimeline(t.tl)
       /\ t.alts \in [DOMAIN t.tl -> Seq(Modes)]
       /\ \A r \in t.drafts : IsRequest(r.q) /\ IsDay(r.day)

VARIABLES trip, now, progress, reply

vars == <<trip, now, progress, reply>>

NoReply == [status |-> "none"]

\* What the engine says of a whole day does not depend on the moment.
Original == [t \in Trips |-> EvaluatedTimeline(t.q, t.tl, t.open, t.alts)]

Init ==
  /\ trip \in Trips /\ now = trip.open
  /\ progress = [state |-> "ready_to_depart", event |-> 0, place |-> Start,
                 started |-> trip.open]
  /\ reply = NoReply

--------------------------------------------------------------------------------
\* evaluate_jeju_day_trip

ReplyToDay(q, answer, limit) ==
  IF answer.calls > limit THEN [status |-> "raised"]
  ELSE [status |-> "evaluated", q |-> q, of |-> answer]

EvaluateActivities(r) ==
  /\ progress.event = 0 /\ now = trip.open /\ reply = NoReply
  /\ \E limit \in Limits :
       reply' = ReplyToDay(r.q, Evaluated(r.q, r.day, Plain), limit)
  /\ UNCHANGED <<trip, now, progress>>

ReplyToTimeline(answer, limit) ==
  IF answer.calls > limit \/ answer.raised THEN [status |-> "raised"]
  ELSE [status |-> "judged", of |-> answer]

EvaluateTimeline ==
  /\ progress.event = 0 /\ now = trip.open /\ reply = NoReply
  /\ \E limit \in Limits : reply' = ReplyToTimeline(Original[trip], limit)
  /\ UNCHANGED <<trip, now, progress>>

--------------------------------------------------------------------------------
\* The traveller.

\* The clock moves to a moment of the plan, give or take a delay.
Wait(m) ==
  /\ m > now /\ now' = m
  /\ reply' = NoReply
  /\ UNCHANGED <<trip, progress>>

Moments == {e.start + d : e \in Range(trip.tl), d \in Delays} \cup
           {e.end + d : e \in Range(trip.tl), d \in Delays}

Proceed(state, event, place) ==
  /\ progress' = [state |-> state, event |-> event, place |-> place, started |-> now]
  /\ reply' = NoReply
  /\ UNCHANGED <<trip, now>>

Current == trip.tl[progress.event]
NextTransfer == {i \in Transfers(trip.tl) : i > progress.event}

Leave ==
  /\ progress.state = "ready_to_depart" /\ NextTransfer # {}
  /\ LET i == Min(NextTransfer)
         state == CASE trip.tl[i].mode = "walk" -> "walking"
                    [] trip.tl[i].mode = "taxi" -> "in_taxi"
                    [] OTHER -> "waiting_bus"
     IN Proceed(state, i, progress.place)

Board == progress.state = "waiting_bus" /\ Proceed("on_bus", progress.event, progress.place)

\* The transfer ends at the activity that follows it, buffers aside.
Arrive ==
  /\ progress.state \in {"walking", "in_taxi", "on_bus"}
  /\ \E i \in DOMAIN trip.tl :
       /\ i > progress.event /\ Activity(trip.tl[i])
       /\ \A j \in (progress.event + 1)..(i - 1) : trip.tl[j].type = "buffer"
       /\ Proceed("at_place", i, trip.tl[i].place)

EndStay ==
  progress.state = "at_place" /\ Proceed("ready_to_depart", progress.event, progress.place)

--------------------------------------------------------------------------------
\* _remaining_request

Completed(i) == i < progress.event \/ (i = progress.event /\ progress.state = "ready_to_depart")

\* Activities that are not over, the current stay cut to what is left of it.
Remaining ==
  LET left == {i \in DOMAIN trip.tl : Activity(trip.tl[i]) /\ ~Completed(i) /\ trip.tl[i].end > now}
      here(i) == i = progress.event /\ progress.state = "at_place"
      stay == Current.end - Current.start - (now - progress.started)
      kept == {i \in left : here(i) => stay > 0}
      order == Ordered([i \in kept |-> <<i>>])
  IN [k \in DOMAIN order |->
        LET i == order[k]
            e == trip.tl[i]
        IN IF here(i) THEN Act(i, e.place, now, now + stay) ELSE Act(i, e.place, e.start, e.end)]

\* The activity before and after a transfer, or none.
Before(i) == {j \in 1..(i - 1) : Activity(trip.tl[j])}
After(i) == {j \in (i + 1)..Len(trip.tl) : Activity(trip.tl[j])}

\* Mutant: the way home is not constrained.
LockOfWayOut(i, ids) ==
  LET b == IF Before(i) = {} THEN 0 ELSE Max(Before(i))
      a == IF After(i) = {} THEN 0 ELSE Min(After(i))
  IN IF b \in ids /\ a \in ids THEN {Lock(b, a, trip.tl[i].mode)} ELSE {}

\* The leg constraint that a transfer of the plan becomes, or none.
LockOf(i, ids) ==
  LET b == IF Before(i) = {} THEN 0 ELSE Max(Before(i))
      a == IF After(i) = {} THEN 0 ELSE Min(After(i))
      mode == trip.tl[i].mode
  IN IF a \in ids /\ (i = progress.event \/ (b = progress.event /\ b \notin {0} \cup ids))
     THEN {Lock(0, a, mode)}
     ELSE IF b \in ids /\ a \in ids THEN {Lock(b, a, mode)}
     ELSE IF b \in ids /\ After(i) = {} THEN {Lock(b, 0, mode)}
     ELSE {}

\* All of them, in the order of the plan.
Locks(ids) ==
  LET order == Ordered([i \in {j \in Transfers(trip.tl) : LockOf(j, ids) # {}} |-> <<i>>])
  IN [k \in DOMAIN order |-> CHOOSE l \in LockOf(order[k], ids) : TRUE]

\* None when nothing is left, the window is over, or the position is not known.
RemainingDay(place) ==
  IF Remaining = <<>> \/ now >= trip.q.close \/ place = NoPlace THEN {}
  ELSE {Draft(place, now, Remaining, Locks({a.id : a \in Range(Remaining)}))}

--------------------------------------------------------------------------------
\* revalidate

PlannedTime == IF progress.event = 0 THEN NoTime
               ELSE IF progress.state = "ready_to_depart" THEN Current.end ELSE Current.start
Delay ==
  IF PlannedTime = NoTime THEN 0
  ELSE Max({0, (IF progress.state = "at_place" THEN progress.started ELSE now) - PlannedTime})

\* The stop the traveller waits at is that of the planned ride.
PlannedEvidence(i) ==
  LET leg == <<FromOf(trip.tl, i), ToOf(trip.tl, i)>>
  IN [NoEvidence EXCEPT !.mode = "bus", !.ride = trip.tl[i].ride,
                        !.stop = StopOf[<<leg[1], RideOf(leg, trip.tl[i]).access>>]]

Context(arrival) ==
  IF progress.state # "waiting_bus" THEN Plain
  ELSE [live |-> TRUE, now |-> now, stop |-> PlannedEvidence(progress.event).stop,
        planned |-> PlannedEvidence(progress.event), leaves |-> Current.start,
        arrival |-> arrival]

\* Mutant: any remaining day that is not disrupted is on schedule.
StatusOfCalm(v) == IF v.timing = "disrupted" THEN "disrupted" ELSE "on_schedule"

StatusOf(v) ==
  IF v.timing = "disrupted" THEN "disrupted"
  ELSE IF v.timing = "unknown" THEN "data_unavailable"
  ELSE IF Delay > 0 \/ v.timing = "at_risk" THEN "at_risk"
  ELSE "on_schedule"

\* _taxi_after_bus_timeout: elapsed wait, pickup and taxi in place of the bus,
\* and the rest of the day moved by as much.
TaxiTimeline(i) ==
  LET e == trip.tl[i]
      from == FromOf(trip.tl, i)
      taxi == now + trip.q.pickup
      arrives == taxi + DriveOf[<<from, ToOf(trip.tl, i)>>]
      shift == arrives - e.end
      moved == [j \in DOMAIN trip.tl |->
                  [trip.tl[j] EXCEPT !.start = @ + shift, !.end = @ + shift]]
  IN SubSeq(trip.tl, 1, i - 1) \o
     <<Buffer("wait", e.start, now, from), Buffer("pickup", now, taxi, from),
       Transfer(taxi, arrives, Route("taxi", 0, 0, 0, NoRide), NoTime)>> \o
     SubSeq(moved, i + 1, Len(trip.tl))

TaxiAfterTimeout(calls, limit) ==
  LET i == progress.event
      tl == TaxiTimeline(i)
  IN IF progress.state = "waiting_bus" /\ now - Current.start > MaxBusWait
        /\ "taxi" \in Range(trip.alts[i])
        /\ calls + Cardinality(Transfers(tl)) <= limit
     THEN Offered(Repair("TAXI_AFTER_BUS_TIMEOUT", i, <<>>, tl,
                         TimelineVerdict(trip.q, tl, trip.open)))
     ELSE <<>>

\* The reply to an evaluation, or to one that the budget cut short.
Answered(of, limit) ==
  IF of.calls > limit
  THEN [status |-> "data_unavailable", of |-> {}, calls |-> limit, options |-> <<>>]
  ELSE [status |-> StatusOf(of.verdict), of |-> {of}, calls |-> of.calls,
        options |-> of.repairs]

\* _evaluate with the evidence of the moment; live evidence of a stop while waiting.
Answer(day, arrival, limit) ==
  Answered(Evaluated(trip.q, day, Context(arrival)), limit)

Bare(status) == [status |-> status, of |-> {}, calls |-> 0, options |-> <<>>]

\* One call, v being the verdict on the whole day.
Revalidated(place, arrival, limit, ready, v) ==
  IF progress.state = "on_bus" THEN Bare(IF v.timing = "at_risk" THEN "at_risk" ELSE "on_schedule")
  ELSE IF \/ progress.state \in {"walking", "in_taxi"} /\ place # Wayside
          \/ progress.state = "waiting_bus" /\ ~ready
  THEN Bare("data_unavailable")
  ELSE IF RemainingDay(place) = {}
  THEN Bare(IF v.status = "infeasible" THEN "disrupted" ELSE "on_schedule")
  ELSE Answer(CHOOSE d \in RemainingDay(place) : TRUE, arrival, limit)

\* The taxi is offered ahead of other repairs.
WithTaxi(place, arrival, limit, r) ==
  [place |-> place, arrival |-> arrival, status |-> r.status, of |-> r.of,
   options |-> TaxiAfterTimeout(r.calls, limit) \o r.options]

\* One call: where the traveller says to be, what the provider answers.
Revalidate(place, arrival, limit, ready) ==
  WithTaxi(place, arrival, limit,
           Revalidated(place, arrival, limit, ready, Original[trip].verdict))

\* A traveller on the way need not name a place; GPS is always a choice.
Reported == IF progress.state \in {"at_place", "ready_to_depart"} THEN {progress.place}
            ELSE {progress.place, NoPlace, Wayside}

Ask ==
  /\ reply = NoReply
  /\ \E place \in Reported, arrival \in Arrivals, limit \in Limits, ready \in BOOLEAN :
       reply' = Revalidate(place, arrival, limit, ready)
  /\ UNCHANGED <<trip, now, progress>>

Next ==
  \/ \E r \in trip.drafts : EvaluateActivities(r)
  \/ EvaluateTimeline
  \/ \E m \in Moments : Wait(m)
  \/ Leave \/ Board \/ Arrive \/ EndStay
  \/ Ask

Spec == Init /\ [][Next]_vars

--------------------------------------------------------------------------------
Statuses == {"none", "raised", "evaluated", "judged",
             "on_schedule", "at_risk", "disrupted", "data_unavailable"}

\* Types; the state of a traveller fits the event that is under way, and every
\* event of a repair has a length.
TypeOK ==
  /\ trip \in Trips /\ now \in Nat
  /\ progress.event \in 0..Len(trip.tl) /\ progress.started <= now
  /\ progress.state \in {"walking", "waiting_bus", "on_bus", "in_taxi"} =>
       Current.type = "transfer"
  /\ progress.state = "at_place" => Activity(Current)
  /\ reply.status \in Statuses
  /\ reply.status = "judged" =>
       \A r \in Range(reply.of.repairs) : \A e \in Range(r.tl) :
         e \in TimelineEvent /\ e.start < e.end

\* A leg can be made in time by one of the modes: from the facts of the day alone.
CanMake(q, leg, at, due, modes) ==
  \/ leg[1] = leg[2] /\ at <= due
  \/ "walk" \in modes /\ WalkOf[leg] # NoTime /\ at + Planned(q, "balanced", WalkOf[leg]) <= due
  \/ "taxi" \in modes /\ DriveOf[leg] # NoTime /\ at + DriveOf[leg] <= due
  \/ /\ "bus" \in modes
     /\ \E b \in BusesOf[leg] :
          /\ at + Planned(q, "balanced", b.access) + BoardingBuffer <= b.departs
          /\ b.arrives + Planned(q, "balanced", b.egress) <= due

\* A day that can be followed: each leg in time by its mode, each place open.
\* Where stairs must be avoided, a leg that may have some is not timed.
CanFollow(q, d) ==
  /\ d.acts # <<>>
  /\ q.avoidStairs \/ \A i \in 1..(Len(d.acts) + 1) :
       CanMake(q, LegOf(d, i), LeavesAt(d, i), DueAt(q, d, i),
               {m \in q.modes : LockedMode(d, i) \in {"any", m}})
  /\ \A a \in Range(d.acts) : WindowsOf[a.place] # {} =>
       \E w \in WindowsOf[a.place] : w.opens <= a.start /\ a.end <= w.closes

\* An answer other than disrupted means that what is left of the day can still
\* be followed from here and now, by the facts alone (revalidate, _response).
\* A bus that is waited for is left out: it is judged by its live arrival.
GoodNewsIsTrue ==
  reply.status \in {"on_schedule", "at_risk"} /\ progress.state # "waiting_bus" =>
    \A of \in reply.of : CanFollow(trip.q, of.day)

\* On the plan: the traveller does what the timeline says, when it says so.
OnPlan ==
  /\ Passes(Original[trip].verdict) /\ progress.event # 0
  /\ CASE progress.state = "ready_to_depart" -> now = Current.end
       [] progress.state = "at_place" -> progress.started = Current.start /\ now <= Current.end
       [] OTHER -> now = Current.start /\ reply.place = FromOf(trip.tl, progress.event)

\* Transfers as the generator plans them: one between two stays, a bus as soon as
\* the stay ends, each with the minutes and the walk that its evidence has.  The
\* timeline of a user may say otherwise; what is left of it is planned anew.
PlannedAsFound(q, tl) ==
  \A i \in Transfers(tl) :
    /\ \A j \in Transfers(tl) : i < j => \E k \in i..j : Activity(tl[k])
    /\ tl[i].mode = "bus" /\ i > 1 => Activity(tl[i - 1])
    /\ FoundFor(q, tl, i).minutes <= tl[i].end - tl[i].start
    /\ FoundFor(q, tl, i).walked <= tl[i].walked

\* Nobody is at a place that admits no one any more.  What is left of a stay is an
\* activity that starts at the call, so its last admission is missed by staying.
StillAdmitted ==
  ~(/\ progress.state = "at_place" /\ LastAdmission(Current.place) # NoTime
    /\ now > LastAdmission(Current.place))

\* A traveller who is on the plan of a day that was found feasible is not told
\* that it is disrupted: the full timeline and the days of activities that are
\* left of it are judged alike (_remaining_request and its leg constraints).
PlanIsNotDisrupted ==
  /\ reply.status = "disrupted" /\ progress.state # "waiting_bus"
  /\ PlannedAsFound(trip.q, trip.tl) /\ StillAdmitted
  => ~OnPlan

\* The traveller has to leave from here, and by the planned bus if it still is the
\* one that is found for its departure.
MustBoard(d) ==
  /\ LegOf(d, 1)[1] # LegOf(d, 1)[2]
  /\ PlannedAgain(trip.q, Context(reply.arrival), LegOf(d, 1)) # NoEvidence

\* docs/REASON_CODES.md:35: whoever waits for a bus of which nothing is known
\* live is never told that what is left of the day is fine
\* (TagoRealtimeEvaluationEvidence).
StaticTimesAreNotTrusted ==
  reply.status \in {"on_schedule", "at_risk"} /\ progress.state = "waiting_bus" =>
    \A of \in reply.of : MustBoard(of.day) => reply.arrival \in Nat

\* A repair that is offered for a day of activities can be followed from where
\* it begins, and it keeps every activity, none of them longer or later.
RepairsCanBeFollowed ==
  reply.status = "evaluated" =>
    \A r \in Range(reply.of.repairs) :
      /\ CanFollow(reply.q, r.day)
      /\ \A i \in DOMAIN reply.of.day.acts :
           LET a == reply.of.day.acts[i] IN
           /\ r.day.acts[i].id = a.id /\ r.day.acts[i].start = a.start
           /\ r.day.acts[i].end \in (a.start + 1)..a.end

\* Stays are told apart by a leg: whatever lies between the leg before a stay and
\* the leg after it is skipped together with that stay.
StaysAreApart(tl) ==
  \A i, k \in DOMAIN tl : i < k /\ Activity(tl[i]) /\ Activity(tl[k]) =>
    \E j \in Transfers(tl) : i < j /\ j < k

\* A repair of a timeline keeps every required activity with its full stay and
\* leaves no gap between events (_attach_full_timeline_repairs).
RequiredStaysAreKept ==
  reply.status = "judged" /\ StaysAreApart(trip.tl) =>
    \A r \in Range(reply.of.repairs) :
      /\ Gapless(r.tl)
      /\ \A e \in Range(trip.tl) :
           Activity(e) /\ e.place \in trip.q.required => e \in Range(r.tl)

\* .agents/skills/build-jeju-day-trip-planner/references/json-contract-rules.md:13:
\* a live answer keeps what is done and offers what can still be done, so no
\* recovery begins before the moment of the call.
RecoveriesAreAhead ==
  reply.status = "disrupted" =>
    \A r \in Range(reply.options) : r.day # <<>> => r.day.at >= now
================================================================================
