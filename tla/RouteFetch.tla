------------------------------ MODULE RouteFetch -------------------------------
(***************************************************************************)
(* How the worker threads of concurrent requests obtain TMAP routes: one   *)
(* TmapDoorRoutePlanner serves the whole process with its route caches,    *)
(* failed keys and per-key locks, and each request brings an               *)
(* ExecutionBudget with a deadline, call limits and a semaphore of slots.  *)
(* A step is one access to state that another thread can change.           *)
(***************************************************************************)
EXTENDS Integers, FiniteSets

CONSTANTS
  Requests,      \* tool calls, each with its own ExecutionBudget
  Threads,       \* executor threads that plan strategies and modes
  RequestOf,     \* Threads -> Requests
  Keys,          \* RouteCacheKey values, of both TMAP sources
  Allocs,        \* "direct_walk", "bus_walk", "taxi_driving"
  AllocsOf,      \* Keys -> the allocations a fetch of the key may name
  LimitOf,       \* Allocs -> allocation_limits
  MaxCalls,      \* maximum_external_calls
  Slots,         \* maximum_concurrency
  NoThread,      \* nobody holds the lock of a key
  NoKey,         \* the thread fetches nothing
  MaxFetches     \* bound: fetches of one thread

ASSUME BudgetAssumption ==
  /\ IsFiniteSet(Threads) /\ RequestOf \in [Threads -> Requests]
  /\ AllocsOf \in [Keys -> SUBSET Allocs]
  /\ LimitOf \in [Allocs -> Nat]
  /\ MaxCalls \in Nat /\ Slots \in Nat \ {0} /\ MaxFetches \in Nat
  /\ NoThread \notin Threads /\ NoKey \notin Keys

VARIABLES
  phase,     \* of a request: "new", "live", or "late" once its deadline passed
  calls,     \* _external_calls of its budget
  claims,    \* _calls_by_allocation of its budget
  free,      \* _call_slots of its budget: permits left
  cached,    \* keys with an unexpired item in a route cache
  young,     \* <<k, r>>: the item of k was put while r was live, and r still is
  failed,    \* _failed_route_keys
  keyOwner,  \* thread that holds the lock of a key
  pc, fetch, \* next step of a thread, and the key and allocation it fetches
  fetches    \* fetches a thread began

budgets == <<phase, calls, claims, free>>
planner == <<cached, young, failed, keyOwner>>
vars == <<budgets, planner, pc, fetch, fetches>>

NoFetch == [key |-> NoKey, alloc |-> NoKey]

Init ==
  /\ phase = [r \in Requests |-> "new"]
  /\ calls = [r \in Requests |-> 0]
  /\ claims = [r \in Requests |-> [a \in Allocs |-> 0]]
  /\ free = [r \in Requests |-> Slots]
  /\ cached = {} /\ young = {} /\ failed = {}
  /\ keyOwner = [k \in Keys |-> NoThread]
  /\ pc = [t \in Threads |-> "ready"]
  /\ fetch = [t \in Threads |-> NoFetch]
  /\ fetches = [t \in Threads |-> 0]

--------------------------------------------------------------------------------
Key(t) == fetch[t].key
Live == {r \in Requests : phase[r] = "live"}
Goto(t, label) == pc' = [pc EXCEPT ![t] = label] /\ UNCHANGED <<fetch, fetches>>

HasSlot == {"slotted", "paid", "calling"}
HasLock == HasSlot \cup {"locked", "waiting", "hit", "unpaidCalling"}
Calling == {"calling", "unpaidCalling"}

\* Mutant: the slot is not given back.
ReleaseKeepsSlot(t) ==
  keyOwner' = [keyOwner EXCEPT ![Key(t)] = NoThread] /\ UNCHANGED free

\* The end of both with statements: the slot, then the lock of the key.
Release(t) ==
  /\ keyOwner' = [keyOwner EXCEPT ![Key(t)] = NoThread]
  /\ free' = IF pc[t] \in HasSlot
             THEN [free EXCEPT ![RequestOf[t]] = @ + 1] ELSE free

\* The fetch is over and the thread goes on with another one.
Done(t) ==
  /\ pc' = [pc EXCEPT ![t] = "ready"]
  /\ fetch' = [fetch EXCEPT ![t] = NoFetch]
  /\ UNCHANGED fetches

\* PlanningTimeout or PlanningBudgetExceeded ends the thread.
Abort(t) ==
  /\ Release(t)
  /\ pc' = [pc EXCEPT ![t] = "ended"]
  /\ fetch' = [fetch EXCEPT ![t] = NoFetch]
  /\ UNCHANGED <<phase, calls, claims, cached, young, failed, fetches>>

--------------------------------------------------------------------------------
\* _walking_leg and _taxi give up a failed key before they lock anything.
BeginFetch(t, k, a) ==
  /\ pc[t] = "ready" /\ fetches[t] < MaxFetches /\ phase[RequestOf[t]] # "new"
  /\ fetches' = [fetches EXCEPT ![t] = @ + 1]
  /\ IF k \in failed
     THEN UNCHANGED <<pc, fetch>>
     ELSE /\ pc' = [pc EXCEPT ![t] = "checked"]
          /\ fetch' = [fetch EXCEPT ![t] = [key |-> k, alloc |-> a]]
  /\ UNCHANGED <<budgets, planner>>

\* Mutant: a lock of its own for every fetch.
LockKeyOfNobody(t) ==
  /\ pc[t] = "checked"
  /\ keyOwner' = [keyOwner EXCEPT ![Key(t)] = t]
  /\ Goto(t, "locked")
  /\ UNCHANGED <<budgets, cached, young, failed>>

\* with self._route_key_lock(key)
LockKey(t) ==
  /\ pc[t] = "checked" /\ keyOwner[Key(t)] = NoThread
  /\ keyOwner' = [keyOwner EXCEPT ![Key(t)] = t]
  /\ Goto(t, "locked")
  /\ UNCHANGED <<budgets, cached, young, failed>>

Lookup(t) ==
  /\ pc[t] = "locked"
  /\ Goto(t, IF Key(t) \in cached THEN "hit" ELSE "waiting")
  /\ UNCHANGED <<budgets, planner>>

\* call_slot
TakeSlot(t) ==
  LET r == RequestOf[t] IN
  /\ pc[t] = "waiting" /\ phase[r] = "live" /\ free[r] > 0
  /\ free' = [free EXCEPT ![r] = @ - 1]
  /\ Goto(t, "slotted")
  /\ UNCHANGED <<phase, calls, claims, planner>>

SlotTimeout(t) == pc[t] = "waiting" /\ phase[RequestOf[t]] = "late" /\ Abort(t)

\* Mutant: the refusal comes one call too late.
ExhaustedLate(r, a) == calls[r] > MaxCalls \/ claims[r][a] > LimitOf[a]

Exhausted(r, a) == calls[r] >= MaxCalls \/ claims[r][a] >= LimitOf[a]

\* Mutant: the call is counted for its source and not for its allocation.
ClaimTotalOnly(t) ==
  LET r == RequestOf[t] IN
  /\ pc[t] = "slotted" /\ phase[r] = "live" /\ ~Exhausted(r, fetch[t].alloc)
  /\ calls' = [calls EXCEPT ![r] = @ + 1]
  /\ Goto(t, "paid")
  /\ UNCHANGED <<phase, claims, free, planner>>

\* claim_external_call succeeds, after a second look into the cache.
Claim(t) ==
  LET r == RequestOf[t]
      a == fetch[t].alloc
  IN /\ pc[t] = "slotted"
     /\ IF Key(t) \in cached
        THEN UNCHANGED <<calls, claims>>
        ELSE /\ phase[r] = "live" /\ ~Exhausted(r, a)
             /\ calls' = [calls EXCEPT ![r] = @ + 1]
             /\ claims' = [claims EXCEPT ![r][a] = @ + 1]
     /\ Goto(t, "paid")
     /\ UNCHANGED <<phase, free, planner>>

ClaimRefused(t) ==
  LET r == RequestOf[t] IN
  /\ pc[t] = "slotted" /\ Key(t) \notin cached
  /\ phase[r] = "late" \/ Exhausted(r, fetch[t].alloc)
  /\ Abort(t)

--------------------------------------------------------------------------------
\* TmapAdapter.fetch looks into the cache a third time.
CallProvider(t) ==
  /\ pc[t] \in {"paid", "hit"} /\ Key(t) \notin cached
  /\ Goto(t, IF pc[t] = "paid" THEN "calling" ELSE "unpaidCalling")
  /\ UNCHANGED <<budgets, planner>>

UseCached(t) ==
  /\ pc[t] \in {"paid", "hit"} /\ Key(t) \in cached
  /\ Release(t) /\ Done(t)
  /\ UNCHANGED <<phase, calls, claims, cached, young, failed>>

Answer(t) ==
  /\ pc[t] \in Calling
  /\ cached' = cached \cup {Key(t)}
  /\ young' = young \cup ({Key(t)} \X Live)
  /\ Release(t) /\ Done(t)
  /\ UNCHANGED <<phase, calls, claims, failed>>

\* TmapRequestFailed leaves both with statements before it is caught.
Fail(t) ==
  /\ pc[t] \in Calling
  /\ Release(t)
  /\ Goto(t, "failing")
  /\ UNCHANGED <<phase, calls, claims, cached, young, failed>>

RememberFailure(t) ==
  /\ pc[t] = "failing"
  /\ failed' = failed \cup {Key(t)}
  /\ Done(t)
  /\ UNCHANGED <<budgets, cached, young, keyOwner>>

--------------------------------------------------------------------------------
StartRequest(r) ==
  /\ phase[r] = "new"
  /\ phase' = [phase EXCEPT ![r] = "live"]
  /\ UNCHANGED <<calls, claims, free, planner, pc, fetch, fetches>>

\* ensure_time_remaining fails from now on.
DeadlinePasses(r) ==
  /\ phase[r] = "live"
  /\ phase' = [phase EXCEPT ![r] = "late"]
  /\ young' = {e \in young : e[2] # r}
  /\ UNCHANGED <<calls, claims, free, cached, failed, keyOwner, pc, fetch, fetches>>

\* Mutant: a time to live shorter than a request.
ExpireAny(k) ==
  /\ cached' = cached \ {k}
  /\ UNCHANGED <<budgets, young, failed, keyOwner, pc, fetch, fetches>>

\* An item lives 30 minutes or 6 hours, a request at most 150 seconds.
Expire(k) ==
  /\ k \in cached /\ \A e \in young : e[1] # k
  /\ cached' = cached \ {k}
  /\ UNCHANGED <<budgets, young, failed, keyOwner, pc, fetch, fetches>>

Step(t) ==
  \/ LockKey(t)
  \/ Lookup(t)
  \/ TakeSlot(t)
  \/ SlotTimeout(t)
  \/ Claim(t)
  \/ ClaimRefused(t)
  \/ CallProvider(t)
  \/ UseCached(t)
  \/ Answer(t)
  \/ Fail(t)
  \/ RememberFailure(t)

Next ==
  \/ \E t \in Threads :
       \/ Step(t)
       \/ \E k \in Keys : \E a \in AllocsOf[k] : BeginFetch(t, k, a)
  \/ \E r \in Requests : StartRequest(r) \/ DeadlinePasses(r)
  \/ \E k \in Keys : Expire(k)

Spec == Init /\ [][Next]_vars

\* Threads are scheduled and a call returns or times out (httpx, 10 seconds).
\* Neither a lock nor a slot is granted fairly, and a deadline need not pass.
FairSpec == Spec /\ \A t \in Threads : WF_vars(Step(t))

--------------------------------------------------------------------------------
Labels == HasLock \cup {"ready", "checked", "failing", "ended"}

\* Every variable has its type and no budget is overdrawn.
TypeOK ==
  /\ phase \in [Requests -> {"new", "live", "late"}]
  /\ calls \in [Requests -> 0..MaxCalls]
  /\ claims \in [Requests -> [Allocs -> Nat]]
  /\ \A r \in Requests, a \in Allocs : claims[r][a] <= LimitOf[a]
  /\ free \in [Requests -> 0..Slots]
  /\ cached \subseteq Keys /\ failed \subseteq Keys
  /\ young \subseteq cached \X Live
  /\ keyOwner \in [Keys -> Threads \cup {NoThread}]
  /\ pc \in [Threads -> Labels]
  /\ fetch \in [Threads -> [key : Keys, alloc : Allocs] \cup {NoFetch}]
  /\ fetches \in [Threads -> 0..MaxFetches]
  /\ \A t \in Threads : pc[t] \notin {"ready", "ended"} => Key(t) \in Keys

Holders(r) == {t \in Threads : RequestOf[t] = r /\ pc[t] \in HasSlot}

\* The lock of a key is held exactly by the thread between its with statement
\* and the end of it, and every slot that is not free is held by one thread of
\* the request: no return, failure, timeout or refusal leaks either.
LocksAndSlotsAreReturned ==
  /\ \A k \in Keys, t \in Threads :
       keyOwner[k] = t <=> pc[t] \in HasLock /\ Key(t) = k
  /\ \A r \in Requests : free[r] + Cardinality(Holders(r)) = Slots

\* A call that each limit reserves, and the claims of a budget as such calls.
Reserved == UNION {{a} \X (1..LimitOf[a]) : a \in Allocs}
Claimed(r) == UNION {{a} \X (1..claims[r][a]) : a \in Allocs}

\* 10 + 10 + 20 is 40, unless all 40 calls are for walks to buses (bus_only).
LimitsAddUp == IsFiniteSet(Reserved) /\ Cardinality(Reserved) = MaxCalls

\* The limits of a generation add up to its 40 calls, so that one kind of route
\* cannot use up the calls reserved for another (ExecutionBudget.generation).
ReservedCallsRemain ==
  \A r \in Requests : calls[r] = MaxCalls => \A a \in Allocs : claims[r][a] = LimitOf[a]

\* A claimed call is made: between the claim and the third look into the cache
\* no other thread can have put the route there.
ClaimsAreUsed ==
  [][\A t \in Threads : pc[t] = "paid" /\ pc'[t] # "paid" => pc'[t] = "calling"]_vars

\* A request does not pay for a route that it, or another request, fetched since
\* it began (single-flight of _route_key_lock, time to live of the caches).
NoRouteIsPaidTwice ==
  [][\A t \in Threads :
       pc[t] # "paid" /\ pc'[t] = "paid" => <<Key(t), RequestOf[t]>> \notin young]_vars

\* The provider sees at most one call per route, and none while it is cached.
Callers == [k \in Keys |-> {t \in Threads : pc[t] \in Calling /\ Key(t) = k}]
Provider == INSTANCE SingleFlight WITH callers <- Callers
ImplementsSingleFlight == Provider!Spec

\* Every fetch ends although a thread waits for a slot of its own budget with
\* the lock of a key that threads of other budgets wait for.
FetchesEnd ==
  \A t \in Threads : pc[t] \notin {"ready", "ended"} ~> pc[t] \in {"ready", "ended"}
================================================================================
