------------------------------- MODULE Timetable -------------------------------
(***************************************************************************)
(* The trips of the day, which the search for one bus itinerary and the    *)
(* search for orders of a whole day read from travel_read.  Calendars and  *)
(* holidays have been applied: only trips of the day's service are here.   *)
(***************************************************************************)
EXTENDS Ordering, SequencesExt

CONSTANTS
  Trips,       \* the trips of the day
  CallsOf,     \* Trips -> their stops in order: [stop, arrives, departs]
  NumberOf,    \* Trips -> route_number
  SuspendedOf  \* Trips -> the times in which their route is suspended

Stops == Nat \ {0} \* a stop is named by a fact id, and ids are only compared
Call == [stop : Stops, arrives : Nat, departs : Nat]

ASSUME TimetableAssumption ==
  /\ CallsOf \in [Trips -> Seq(Call)] /\ NumberOf \in [Trips -> Nat]
  /\ SuspendedOf \in [Trips -> SUBSET (Nat \X Nat)]

TransferBuffer == 10

Suspended(t, at) == \E s \in SuspendedOf[t] : s[1] <= at /\ at <= s[2]

RidesOf(t, from, to) ==
  LET c == CallsOf[t]
  IN {[trip |-> t, from |-> from, to |-> to,
       departs |-> c[p[1]].departs, arrives |-> c[p[2]].arrives] :
        p \in {q \in (DOMAIN c) \X (DOMAIN c) :
                 q[1] < q[2] /\ c[q[1]].stop = from /\ c[q[2]].stop = to}}

AllRides(from, to) == UNION {RidesOf(t, from, to) : t \in Trips}
================================================================================
