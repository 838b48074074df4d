---------------------------- MODULE RouteFetchProofs ---------------------------
(***************************************************************************)
(* Theorems about route fetches for any number of requests, threads and    *)
(* routes, and any limits.                                                 *)
(***************************************************************************)
EXTENDS RouteFetch, FiniteSetTheorems, TLAPS

USE DEF Key, budgets, planner

\* Whoever is about to call, or is calling, knows that the route is not cached:
\* only the holder of its lock could put it there.
Fetching == {"waiting", "slotted", "paid", "calling", "unpaidCalling"}
FetchingIsMissing == \A t \in Threads : pc[t] \in Fetching => Key(t) \notin cached

IInv == TypeOK /\ LocksAndSlotsAreReturned /\ FetchingIsMissing

\* Thread t moves to label l, possibly with another fetch.
Moves(t, l) ==
  /\ pc' = [pc EXCEPT ![t] = l]
  /\ \A u \in Threads \ {t} : fetch'[u] = fetch[u]

LEMMA HoldersFinite ==
  ASSUME NEW r \in Requests
  PROVE  IsFiniteSet(Holders(r)) /\ Cardinality(Holders(r)) \in Nat
BY BudgetAssumption, FS_Subset, FS_CardinalityType DEF Holders

\* A step that neither takes nor gives back a lock or a slot.
LEMMA QuietStep ==
  ASSUME NEW t \in Threads, NEW l \in Labels, TypeOK, LocksAndSlotsAreReturned,
         Moves(t, l), l \in HasLock <=> pc[t] \in HasLock,
         l \in HasSlot <=> pc[t] \in HasSlot,
         l \in HasLock => Key(t)' = Key(t), UNCHANGED <<keyOwner, free>>
  PROVE  LocksAndSlotsAreReturned'
<1>1. \A r \in Requests : Holders(r)' = Holders(r)
  BY DEF Holders, Moves, TypeOK
<1>2. \A k \in Keys, u \in Threads :
        (pc'[u] \in HasLock /\ Key(u)' = k) <=> (pc[u] \in HasLock /\ Key(u) = k)
  BY DEF Moves, TypeOK
<1> QED
  BY <1>1, <1>2 DEF LocksAndSlotsAreReturned

LEMMA LockStep ==
  ASSUME NEW t \in Threads, TypeOK, LocksAndSlotsAreReturned, LockKey(t)
  PROVE  LocksAndSlotsAreReturned'
<1>1. /\ Key(t) \in Keys /\ fetch' = fetch /\ free' = free
      /\ pc[t] = "checked" /\ pc' = [pc EXCEPT ![t] = "locked"]
      /\ keyOwner[Key(t)] = NoThread
      /\ keyOwner' = [keyOwner EXCEPT ![Key(t)] = t]
  BY DEF LockKey, Goto, TypeOK
<1>2. \A r \in Requests : Holders(r)' = Holders(r)
  BY <1>1 DEF Holders, HasSlot, TypeOK
<1>3. \A u \in Threads : ~(pc[u] \in HasLock /\ Key(u) = Key(t))
  BY <1>1, BudgetAssumption DEF LocksAndSlotsAreReturned
<1>4. \A u \in Threads \ {t} : pc'[u] = pc[u]
  BY <1>1 DEF TypeOK
<1>5. pc'[t] \in HasLock /\ pc[t] \notin HasLock
  BY <1>1 DEF HasLock, HasSlot, TypeOK
<1> QED
  BY <1>1, <1>2, <1>3, <1>4, <1>5 DEF LocksAndSlotsAreReturned, TypeOK

LEMMA SlotStep ==
  ASSUME NEW t \in Threads, TypeOK, LocksAndSlotsAreReturned, TakeSlot(t)
  PROVE  LocksAndSlotsAreReturned' /\ free' \in [Requests -> 0..Slots]
<1> DEFINE r == RequestOf[t]
<1>1. /\ r \in Requests /\ fetch' = fetch /\ keyOwner' = keyOwner
      /\ pc[t] = "waiting" /\ pc' = [pc EXCEPT ![t] = "slotted"]
      /\ free[r] > 0 /\ free' = [free EXCEPT ![r] = free[r] - 1]
  BY BudgetAssumption DEF TakeSlot, Goto
<1>2. free' \in [Requests -> 0..Slots]
  BY <1>1, BudgetAssumption DEF TypeOK
<1>3. t \notin Holders(r) /\ Holders(r)' = Holders(r) \cup {t}
  BY <1>1 DEF Holders, HasSlot, TypeOK
<1>4. Cardinality(Holders(r)') = Cardinality(Holders(r)) + 1
  BY <1>1, <1>3, HoldersFinite, FS_AddElement
<1>5. \A q \in Requests \ {r} : Holders(q)' = Holders(q)
  BY <1>1 DEF Holders, TypeOK
<1>6. \A k \in Keys, u \in Threads :
        (pc'[u] \in HasLock /\ Key(u)' = k) <=> (pc[u] \in HasLock /\ Key(u) = k)
  BY <1>1 DEF HasLock, HasSlot, TypeOK
<1>7. \A q \in Requests : free'[q] + Cardinality(Holders(q)') = Slots
  <2> SUFFICES ASSUME NEW q \in Requests PROVE free'[q] + Cardinality(Holders(q)') = Slots
    OBVIOUS
  <2>1. free[q] + Cardinality(Holders(q)) = Slots
    BY DEF LocksAndSlotsAreReturned
  <2>2. free[q] \in Nat /\ Cardinality(Holders(q)) \in Nat
    BY HoldersFinite, BudgetAssumption DEF TypeOK
  <2>3. CASE q = r
    <3>1. free'[r] = free[r] - 1
      BY <1>1 DEF TypeOK
    <3>2. Cardinality(Holders(q)') = Cardinality(Holders(q)) + 1
      BY <2>3, <1>4
    <3> QED
      BY <2>1, <2>2, <2>3, <3>1, <3>2, BudgetAssumption
  <2>4. CASE q # r
    BY <2>1, <2>4, <1>1, <1>5 DEF TypeOK
  <2> QED
    BY <2>3, <2>4
<1> QED
  BY <1>1, <1>2, <1>6, <1>7 DEF LocksAndSlotsAreReturned

LEMMA ReleaseStep ==
  ASSUME NEW t \in Threads, NEW l \in {"ready", "ended", "failing"},
         TypeOK, LocksAndSlotsAreReturned,
         pc[t] \in HasLock, Release(t), Moves(t, l)
  PROVE  /\ LocksAndSlotsAreReturned' /\ free' \in [Requests -> 0..Slots]
         /\ keyOwner' \in [Keys -> Threads \cup {NoThread}]
<1> DEFINE r == RequestOf[t]
<1>1. r \in Requests /\ Key(t) \in Keys
  BY BudgetAssumption DEF TypeOK, HasLock, HasSlot
<1>2. pc'[t] \notin HasLock /\ pc'[t] \notin HasSlot /\ \A u \in Threads \ {t} : pc'[u] = pc[u]
  BY DEF Moves, TypeOK, HasLock, HasSlot
<1>3. \A k \in Keys, u \in Threads : keyOwner'[k] = u <=> keyOwner[k] = u /\ k # Key(t)
  BY <1>1, BudgetAssumption DEF Release, TypeOK
<1>4. keyOwner[Key(t)] = t
  BY <1>1 DEF LocksAndSlotsAreReturned
<1>5. \A k \in Keys, u \in Threads : keyOwner'[k] = u <=> pc'[u] \in HasLock /\ Key(u)' = k
  <2> SUFFICES ASSUME NEW k \in Keys, NEW u \in Threads
               PROVE  keyOwner'[k] = u <=> pc'[u] \in HasLock /\ Key(u)' = k
    OBVIOUS
  <2>1. keyOwner[k] = u <=> pc[u] \in HasLock /\ Key(u) = k
    BY DEF LocksAndSlotsAreReturned
  <2>2. CASE u = t
    BY <2>1, <2>2, <1>2, <1>3
  <2>3. CASE u # t
    BY <2>1, <2>3, <1>2, <1>3, <1>4 DEF Moves
  <2> QED
    BY <2>2, <2>3
<1>6. \A q \in Requests \ {r} : Holders(q)' = Holders(q)
  BY <1>2 DEF Holders
<1>7. CASE pc[t] \in HasSlot
  <2>1. t \in Holders(r) /\ Holders(r)' = Holders(r) \ {t}
    BY <1>2, <1>7 DEF Holders
  <2>2. Cardinality(Holders(r)') = Cardinality(Holders(r)) - 1
    BY <1>1, <2>1, HoldersFinite, FS_RemoveElement
  <2>3. free' = [free EXCEPT ![r] = free[r] + 1]
    BY <1>7 DEF Release
  <2>4. Cardinality(Holders(r)) \in Nat /\ Cardinality(Holders(r)) # 0
    BY <1>1, <2>1, HoldersFinite, FS_EmptySet
  <2>5. free[r] + Cardinality(Holders(r)) = Slots /\ free[r] \in Nat
    BY <1>1, BudgetAssumption DEF LocksAndSlotsAreReturned, TypeOK
  <2>6. free[r] + 1 \in 0..Slots
    BY <2>4, <2>5, BudgetAssumption
  <2>7. free' \in [Requests -> 0..Slots]
    BY <2>3, <2>6 DEF TypeOK
  <2>8. free'[r] + Cardinality(Holders(r)') = Slots
    BY <1>1, <2>2, <2>3, <2>4, <2>5, BudgetAssumption DEF TypeOK
  <2>9. \A q \in Requests \ {r} : free'[q] + Cardinality(Holders(q)') = Slots
    BY <1>6, <2>3 DEF LocksAndSlotsAreReturned, TypeOK
  <2> QED
    BY <1>1, <1>5, <2>7, <2>8, <2>9 DEF LocksAndSlotsAreReturned, Release, TypeOK
<1>8. CASE pc[t] \notin HasSlot
  <2>1. free' = free /\ Holders(r)' = Holders(r)
    BY <1>2, <1>8 DEF Release, Holders
  <2> QED
    BY <1>1, <1>5, <1>6, <2>1 DEF LocksAndSlotsAreReturned, Release, TypeOK
<1> QED
  BY <1>7, <1>8

\* Waiting for nothing: the labels of a thread outside both with statements.
LEMMA LabelFacts ==
  /\ HasSlot \subseteq HasLock /\ HasLock \subseteq Labels
  /\ {"ready", "ended", "failing", "checked"} \subseteq Labels \ HasLock
  /\ Calling \subseteq Fetching /\ Fetching \subseteq HasLock
BY DEF HasSlot, HasLock, Labels, Calling, Fetching

\* The three ways to leave the with statements.
LEMMA LeaveStep ==
  ASSUME NEW t \in Threads, IInv,
         pc[t] \in HasLock, Release(t),
         \/ Done(t)
         \/ pc' = [pc EXCEPT ![t] = "ended"] /\ UNCHANGED fetches
              /\ fetch' = [fetch EXCEPT ![t] = NoFetch]
         \/ Goto(t, "failing")
  PROVE  /\ LocksAndSlotsAreReturned' /\ free' \in [Requests -> 0..Slots]
         /\ keyOwner' \in [Keys -> Threads \cup {NoThread}]
         /\ pc' \in [Threads -> Labels]
         /\ fetch' \in [Threads -> [key : Keys, alloc : Allocs] \cup {NoFetch}]
         /\ fetches' = fetches
         /\ \A u \in Threads : pc'[u] \notin {"ready", "ended"} => Key(u)' \in Keys
         /\ \A u \in Threads : pc'[u] \in Fetching =>
              u # t /\ pc[u] \in Fetching /\ Key(u)' = Key(u)
<1>1. PICK l \in {"ready", "ended", "failing"} : Moves(t, l)
  BY DEF IInv, TypeOK, Done, Goto, Moves
<1>2. LocksAndSlotsAreReturned' /\ free' \in [Requests -> 0..Slots]
      /\ keyOwner' \in [Keys -> Threads \cup {NoThread}]
  BY <1>1, ReleaseStep DEF IInv
<1>3. pc' \in [Threads -> Labels]
      /\ fetch' \in [Threads -> [key : Keys, alloc : Allocs] \cup {NoFetch}]
      /\ fetches' = fetches
  BY LabelFacts, ZenonT(60) DEF IInv, TypeOK, Done, Goto
<1>4. \A u \in Threads : pc'[u] \notin {"ready", "ended"} => Key(u)' \in Keys
  BY LabelFacts DEF IInv, TypeOK, Done, Goto
<1>5. \A u \in Threads : pc'[u] \in Fetching =>
        u # t /\ pc[u] \in Fetching /\ Key(u)' = Key(u)
  BY <1>1, LabelFacts DEF IInv, TypeOK, Moves
<1> QED
  BY <1>2, <1>3, <1>4, <1>5

--------------------------------------------------------------------------------
LEMMA InitInv == Init => IInv
<1> SUFFICES ASSUME Init PROVE IInv
  OBVIOUS
<1>1. TypeOK
  BY BudgetAssumption DEF Init, TypeOK, Labels, Live, NoFetch
<1>2. FetchingIsMissing
  BY DEF Init, FetchingIsMissing
<1>3. \A r \in Requests : Holders(r) = {}
  BY DEF Init, Holders, HasSlot
<1>4. \A r \in Requests : free[r] + Cardinality(Holders(r)) = Slots
  <2>1. \A r \in Requests : Cardinality(Holders(r)) = 0
    BY <1>3, FS_EmptySet
  <2> QED
    BY <2>1, BudgetAssumption DEF Init
<1>5. \A k \in Keys, t \in Threads : keyOwner[k] = t <=> pc[t] \in HasLock /\ Key(t) = k
  BY BudgetAssumption DEF Init, HasLock, HasSlot
<1> QED
  BY <1>1, <1>2, <1>4, <1>5 DEF IInv, LocksAndSlotsAreReturned

\* A step of thread t.
LEMMA ThreadStep ==
  ASSUME NEW t \in Threads, IInv, Step(t)
  PROVE  IInv'
<1> USE LabelFacts DEF IInv
<1>1. CASE LockKey(t)
  <2>1. TypeOK'
    BY <1>1 DEF LockKey, Goto, TypeOK, HasLock, Live
  <2>2. FetchingIsMissing'
    BY <1>1 DEF LockKey, Goto, FetchingIsMissing, Fetching, TypeOK
  <2> QED
    BY <1>1, <2>1, <2>2, LockStep
<1>2. CASE Lookup(t)
  <2>1. PICK l \in {"hit", "waiting"} :
          /\ Moves(t, l) /\ fetch' = fetch
          /\ l = "waiting" => Key(t) \notin cached
    BY <1>2 DEF Lookup, Goto, Moves
  <2>2. TypeOK'
    BY <1>2, <2>1 DEF Lookup, Goto, TypeOK, HasLock, Live
  <2>3. FetchingIsMissing'
    BY <1>2, <2>1 DEF Lookup, Goto, FetchingIsMissing, Fetching, TypeOK, Moves
  <2>4. LocksAndSlotsAreReturned'
    BY <1>2, <2>1, QuietStep DEF Lookup, HasLock, HasSlot
  <2> QED
    BY <2>2, <2>3, <2>4
<1>3. CASE TakeSlot(t)
  <2>1. TypeOK'
    BY <1>3, SlotStep, ZenonT(60) DEF TakeSlot, Goto, TypeOK, HasLock, HasSlot, Live
  <2>2. FetchingIsMissing'
    BY <1>3 DEF TakeSlot, Goto, FetchingIsMissing, Fetching, TypeOK
  <2> QED
    BY <1>3, <2>1, <2>2, SlotStep
<1>4. CASE Abort(t) /\ pc[t] \in HasLock
  BY <1>4, LeaveStep DEF Abort, TypeOK, FetchingIsMissing, Live
<1>5. CASE Claim(t)
  <2> DEFINE r == RequestOf[t]
             a == fetch[t].alloc
  <2>1. r \in Requests /\ pc[t] = "slotted" /\ Key(t) \notin cached
    BY <1>5, BudgetAssumption DEF Claim, FetchingIsMissing, Fetching
  <2>2. fetch[t] \in [key : Keys, alloc : Allocs] /\ a \in Allocs
    <3>1. fetch[t].key \in Keys
      BY <2>1 DEF TypeOK
    <3>2. fetch[t] # NoFetch
      BY <3>1, BudgetAssumption DEF NoFetch
    <3>3. fetch[t] \in [key : Keys, alloc : Allocs]
      BY <3>2 DEF TypeOK
    <3> QED
      BY <3>3
  <2>3. calls[r] < MaxCalls /\ claims[r][a] < LimitOf[a]
    BY <1>5, <2>1, <2>2, BudgetAssumption DEF Claim, Exhausted, TypeOK
  <2>4. calls' = [calls EXCEPT ![r] = calls[r] + 1]
        /\ claims' = [claims EXCEPT ![r] = [claims[r] EXCEPT ![a] = claims[r][a] + 1]]
    BY <1>5, <2>1 DEF Claim
  <2>5. calls' \in [Requests -> 0..MaxCalls]
    BY <2>1, <2>3, <2>4, BudgetAssumption DEF TypeOK
  <2>6. claims' \in [Requests -> [Allocs -> Nat]]
    BY <2>1, <2>2, <2>4 DEF TypeOK
  <2>7. \A q \in Requests, b \in Allocs : claims'[q][b] <= LimitOf[b]
    <3> SUFFICES ASSUME NEW q \in Requests, NEW b \in Allocs
                 PROVE  claims'[q][b] <= LimitOf[b]
      OBVIOUS
    <3>1. claims[q][b] <= LimitOf[b]
      BY DEF TypeOK
    <3>2. CASE q = r /\ b = a
      <4>1. claims'[r][a] = claims[r][a] + 1
        BY <2>1, <2>2, <2>4 DEF TypeOK
      <4>2. claims[r][a] \in Nat /\ LimitOf[a] \in Nat
        BY <2>1, <2>2, BudgetAssumption DEF TypeOK
      <4> QED
        BY <2>3, <3>2, <4>1, <4>2
    <3>3. CASE ~(q = r /\ b = a)
      <4>1. claims'[q][b] = claims[q][b]
        BY <2>1, <2>2, <2>4, <3>3 DEF TypeOK
      <4> QED
        BY <3>1, <4>1
    <3> QED
      BY <3>2, <3>3
  <2>8. Moves(t, "paid") /\ UNCHANGED <<phase, free, planner, fetch, fetches>>
    BY <1>5 DEF Claim, Goto, Moves
  <2>9. TypeOK'
    BY <2>1, <2>5, <2>6, <2>7, <2>8 DEF TypeOK, Moves, HasLock, HasSlot, Live
  <2>10. FetchingIsMissing'
    BY <2>1, <2>8 DEF FetchingIsMissing, Moves, TypeOK
  <2>11. LocksAndSlotsAreReturned'
    BY <2>1, <2>8, QuietStep DEF HasLock, HasSlot
  <2> QED
    BY <2>9, <2>10, <2>11
<1>6. CASE CallProvider(t)
  <2>1. PICK l \in Calling :
          /\ Moves(t, l) /\ UNCHANGED <<budgets, planner, fetch, fetches>>
          /\ Key(t) \notin cached
          /\ l \in HasSlot <=> pc[t] \in HasSlot
          /\ l \in HasLock <=> pc[t] \in HasLock
    BY <1>6 DEF CallProvider, Goto, Moves, Calling, HasSlot, HasLock
  <2>2. TypeOK'
    BY <1>6, <2>1 DEF CallProvider, TypeOK, Moves, Live
  <2>3. FetchingIsMissing'
    BY <2>1 DEF FetchingIsMissing, Moves, TypeOK
  <2>4. LocksAndSlotsAreReturned'
    BY <2>1, QuietStep
  <2> QED
    BY <2>2, <2>3, <2>4
<1>7. CASE UseCached(t)
  <2>1. pc[t] \in HasLock
    BY <1>7 DEF UseCached, HasLock, HasSlot
  <2> QED
    BY <1>7, <2>1, LeaveStep DEF UseCached, TypeOK, FetchingIsMissing, Live
<1>8. CASE Answer(t)
  <2>1. pc[t] \in HasLock /\ Key(t) \in Keys
    BY <1>8 DEF Answer, LocksAndSlotsAreReturned, TypeOK, Calling
  <2>2. \A u \in Threads \ {t} : pc[u] \in Fetching => Key(u) # Key(t)
    BY <2>1 DEF LocksAndSlotsAreReturned
  <2>3. FetchingIsMissing'
    BY <1>8, <2>1, <2>2, LeaveStep DEF Answer, FetchingIsMissing
  <2>4. cached' \subseteq Keys /\ young' \subseteq cached' \X Live'
    BY <1>8, <2>1 DEF Answer, TypeOK, Live
  <2> QED
    BY <1>8, <2>1, <2>3, <2>4, LeaveStep DEF Answer, TypeOK
<1>9. CASE Fail(t)
  <2>1. pc[t] \in HasLock
    BY <1>9 DEF Fail
  <2> QED
    BY <1>9, <2>1, LeaveStep DEF Fail, TypeOK, FetchingIsMissing, Live
<1>10. CASE RememberFailure(t)
  <2>1. /\ Moves(t, "ready") /\ pc[t] = "failing" /\ Key(t) \in Keys
        /\ fetch' = [fetch EXCEPT ![t] = NoFetch]
        /\ failed' = failed \cup {Key(t)}
        /\ UNCHANGED <<budgets, cached, young, keyOwner, fetches>>
    BY <1>10 DEF RememberFailure, Done, Moves, TypeOK
  <2>2. TypeOK'
    BY <2>1 DEF TypeOK, Moves, Live
  <2>3. FetchingIsMissing'
    BY <2>1 DEF FetchingIsMissing, Moves, TypeOK, Fetching
  <2>4. LocksAndSlotsAreReturned'
    BY <2>1, QuietStep DEF HasLock, HasSlot
  <2> QED
    BY <2>2, <2>3, <2>4
<1>11. SlotTimeout(t) \/ ClaimRefused(t) => Abort(t) /\ pc[t] \in HasLock
  BY DEF SlotTimeout, ClaimRefused, HasLock, HasSlot
<1> QED
  BY <1>1, <1>2, <1>3, <1>4, <1>5, <1>6, <1>7, <1>8, <1>9, <1>10, <1>11 DEF Step

\* The inductive invariant: types, locks and slots, and what a thread knows
\* about the cache while it holds the lock of a route.
THEOREM Invariance == Spec => []IInv
<1>1. IInv /\ [Next]_vars => IInv'
  <2> SUFFICES ASSUME IInv, [Next]_vars PROVE IInv'
    OBVIOUS
  <2> USE DEF IInv
  <2>1. CASE UNCHANGED vars
    BY <2>1 DEF vars, TypeOK, LocksAndSlotsAreReturned, Holders, FetchingIsMissing, Live
  <2>2. ASSUME NEW t \in Threads, NEW k \in Keys, NEW a \in AllocsOf[k],
               BeginFetch(t, k, a)
        PROVE  IInv'
    <3>1. a \in Allocs /\ pc[t] = "ready" /\ fetches[t] + 1 \in 0..MaxFetches
          /\ fetches' = [fetches EXCEPT ![t] = fetches[t] + 1]
      BY <2>2, BudgetAssumption DEF BeginFetch, TypeOK
    <3>2. CASE UNCHANGED <<pc, fetch>>
      BY <2>2, <3>1, <3>2
         DEF BeginFetch, TypeOK, LocksAndSlotsAreReturned, Holders, FetchingIsMissing, Live
    <3>3. CASE /\ pc' = [pc EXCEPT ![t] = "checked"]
               /\ fetch' = [fetch EXCEPT ![t] = [key |-> k, alloc |-> a]]
      <4>1. Moves(t, "checked")
        BY <3>3 DEF Moves, TypeOK
      <4>2. TypeOK'
        BY <2>2, <3>1, <3>3, LabelFacts DEF BeginFetch, TypeOK, Live
      <4>3. FetchingIsMissing'
        BY <2>2, <3>3, <4>1, LabelFacts
           DEF BeginFetch, FetchingIsMissing, Moves, TypeOK, Fetching
      <4>4. LocksAndSlotsAreReturned'
        BY <2>2, <3>1, <4>1, LabelFacts, QuietStep DEF BeginFetch, HasLock, HasSlot
      <4> QED
        BY <4>2, <4>3, <4>4
    <3> QED
      BY <2>2, <3>2, <3>3 DEF BeginFetch
  <2>3. ASSUME NEW r \in Requests, StartRequest(r) \/ DeadlinePasses(r) PROVE IInv'
    <3>1. TypeOK'
      <4>1. phase' \in [Requests -> {"new", "live", "late"}]
        BY <2>3 DEF StartRequest, DeadlinePasses, TypeOK
      <4>2. young' \subseteq cached' \X Live'
        <5>1. CASE StartRequest(r)
          BY <5>1 DEF StartRequest, TypeOK, Live
        <5>2. CASE DeadlinePasses(r)
          BY <5>2 DEF DeadlinePasses, TypeOK, Live
        <5> QED
          BY <2>3, <5>1, <5>2
      <4> QED
        BY <2>3, <4>1, <4>2 DEF StartRequest, DeadlinePasses, TypeOK
    <3>2. LocksAndSlotsAreReturned' /\ FetchingIsMissing'
      BY <2>3 DEF StartRequest, DeadlinePasses, LocksAndSlotsAreReturned, Holders,
                  FetchingIsMissing
    <3> QED
      BY <3>1, <3>2
  <2>4. ASSUME NEW k \in Keys, Expire(k) PROVE IInv'
    <3>1. young' \subseteq cached' \X Live'
      BY <2>4 DEF Expire, TypeOK, Live
    <3> QED
      BY <2>4, <3>1
         DEF Expire, TypeOK, LocksAndSlotsAreReturned, Holders, FetchingIsMissing
  <2> QED
    BY <2>1, <2>2, <2>3, <2>4, ThreadStep DEF Next
<1> QED
  BY <1>1, InitInv, PTL DEF Spec

\* Every variable keeps its type; no thread overdraws a budget.
THEOREM TypeCorrect == Spec => []TypeOK
BY Invariance, PTL DEF IInv

\* Locks and slots are held only by threads inside the with statements, and
\* the permits of a budget add up, whatever way the fetches end.
THEOREM LocksAndSlots == Spec => []LocksAndSlotsAreReturned
BY Invariance, PTL DEF IInv

\* A claimed call is made: no claim of a budget is spent on a cached route.
THEOREM ClaimsUsed == Spec => ClaimsAreUsed
<1>1. IInv /\ [Next]_vars =>
        [\A t \in Threads : pc[t] = "paid" /\ pc'[t] # "paid" => pc'[t] = "calling"]_vars
  <2> SUFFICES ASSUME IInv, Next, NEW t \in Threads, pc[t] = "paid", pc'[t] # "paid"
               PROVE  pc'[t] = "calling"
    BY DEF vars
  <2> USE DEF IInv
  <2>1. Key(t) \notin cached
    BY DEF FetchingIsMissing, Fetching
  <2>2. ASSUME NEW u \in Threads, Step(u) PROVE pc'[t] = "calling"
    <3>1. u = t
      BY <2>2 DEF Step, LockKey, Lookup, TakeSlot, SlotTimeout, Claim, ClaimRefused,
                  CallProvider, UseCached, Answer, Fail, RememberFailure, Abort, Done,
                  Goto, TypeOK
    <3>2. CallProvider(t)
      BY <2>2, <3>1, <2>1
         DEF Step, LockKey, Lookup, TakeSlot, SlotTimeout, Claim, ClaimRefused,
             UseCached, Answer, Fail, RememberFailure, Calling
    <3> QED
      BY <3>2 DEF CallProvider, Goto, TypeOK
  <2>3. ASSUME NEW u \in Threads, NEW k \in Keys, NEW a \in AllocsOf[k],
               BeginFetch(u, k, a)
        PROVE  pc'[t] = "calling"
    BY <2>3 DEF BeginFetch, TypeOK
  <2>4. ASSUME UNCHANGED pc PROVE pc'[t] = "calling"
    BY <2>4
  <2> QED
    BY <2>2, <2>3, <2>4 DEF Next, StartRequest, DeadlinePasses, Expire
<1> QED
  BY <1>1, Invariance, PTL DEF Spec, ClaimsAreUsed

\* No request pays for a route that was fetched since the request began.
THEOREM PaidOnce == Spec => NoRouteIsPaidTwice
<1>1. IInv /\ [Next]_vars =>
        [\A t \in Threads : pc[t] # "paid" /\ pc'[t] = "paid" =>
           <<Key(t), RequestOf[t]>> \notin young]_vars
  <2> SUFFICES ASSUME IInv, Next, NEW t \in Threads, pc[t] # "paid", pc'[t] = "paid"
               PROVE  <<Key(t), RequestOf[t]>> \notin young
    BY DEF vars
  <2> USE DEF IInv
  <2>1. pc[t] = "slotted"
    <3>1. ASSUME NEW u \in Threads, Step(u) PROVE pc[t] = "slotted"
      BY <3>1 DEF Step, LockKey, Lookup, TakeSlot, SlotTimeout, Claim, ClaimRefused,
                  CallProvider, UseCached, Answer, Fail, RememberFailure, Abort, Done,
                  Goto, TypeOK
    <3>2. ASSUME NEW u \in Threads, NEW k \in Keys, NEW a \in AllocsOf[k],
                 BeginFetch(u, k, a)
          PROVE  pc[t] = "slotted"
      BY <3>2 DEF BeginFetch, TypeOK
    <3> QED
      BY <3>1, <3>2 DEF Next, StartRequest, DeadlinePasses, Expire
  <2>2. Key(t) \notin cached
    BY <2>1 DEF FetchingIsMissing, Fetching
  <2> QED
    BY <2>2 DEF TypeOK
<1> QED
  BY <1>1, Invariance, PTL DEF Spec, NoRouteIsPaidTwice

--------------------------------------------------------------------------------
\* Every call of a budget is counted once for its allocation.
CallsAreCounted ==
  \A r \in Requests : IsFiniteSet(Claimed(r)) /\ Cardinality(Claimed(r)) = calls[r]

\* One claim more is one call more.
LEMMA ClaimedGrows ==
  ASSUME TypeOK, CallsAreCounted, NEW t \in Threads, fetch[t].alloc \in Allocs, Claim(t)
  PROVE  CallsAreCounted'
<1> DEFINE r == RequestOf[t]
           a == fetch[t].alloc
<1>1. r \in Requests
  BY BudgetAssumption
<1>2. CASE UNCHANGED <<calls, claims>>
  BY <1>2 DEF CallsAreCounted, Claimed
<1>3. CASE /\ calls' = [calls EXCEPT ![r] = calls[r] + 1]
           /\ claims' = [claims EXCEPT ![r] = [claims[r] EXCEPT ![a] = claims[r][a] + 1]]
  <2> DEFINE n == claims[r][a]
  <2>1. n \in Nat /\ claims'[r][a] = n + 1 /\ calls'[r] = calls[r] + 1
        /\ \A b \in Allocs \ {a} : claims'[r][b] = claims[r][b]
    BY <1>1, <1>3 DEF TypeOK
  <2>2. Claimed(r)' = Claimed(r) \cup {<<a, n + 1>>}
    <3>1. \A b \in Allocs : {b} \X (1..claims'[r][b]) =
            ({b} \X (1..claims[r][b])) \cup (IF b = a THEN {<<a, n + 1>>} ELSE {})
      <4> SUFFICES ASSUME NEW b \in Allocs
                   PROVE  {b} \X (1..claims'[r][b]) =
                     ({b} \X (1..claims[r][b])) \cup (IF b = a THEN {<<a, n + 1>>} ELSE {})
        OBVIOUS
      <4>1. CASE b = a
        <5>1. 1..(n + 1) = (1..n) \cup {n + 1}
          BY <2>1
        <5> QED
          BY <2>1, <4>1, <5>1
      <4>2. CASE b # a
        BY <2>1, <4>2
      <4> QED
        BY <4>1, <4>2
    <3>2. Claimed(r)' = UNION {{b} \X (1..claims'[r][b]) : b \in Allocs}
      BY DEF Claimed
    <3> QED
      BY <3>1, <3>2 DEF Claimed
  <2>3. <<a, n + 1>> \notin Claimed(r)
    BY <2>1 DEF Claimed
  <2>4. IsFiniteSet(Claimed(r)) /\ Cardinality(Claimed(r)) = calls[r]
    BY <1>1 DEF CallsAreCounted
  <2>5. IsFiniteSet(Claimed(r)') /\ Cardinality(Claimed(r)') = calls'[r]
    <3> HIDE DEF n, a, r
    <3>1. /\ IsFiniteSet(Claimed(r) \cup {<<a, n + 1>>})
          /\ Cardinality(Claimed(r) \cup {<<a, n + 1>>}) = Cardinality(Claimed(r)) + 1
      BY <2>3, <2>4, FS_AddElement
    <3> QED
      BY <2>1, <2>2, <2>4, <3>1
  <2>6. \A q \in Requests \ {r} : Claimed(q)' = Claimed(q) /\ calls'[q] = calls[q]
    BY <1>1, <1>3 DEF Claimed, TypeOK
  <2> QED
    BY <2>5, <2>6 DEF CallsAreCounted
<1> QED
  BY <1>2, <1>3 DEF Claim

\* If the limits add up to the calls of a request, then a request that made all
\* its calls has used every allocation in full: no kind of route can use up the
\* calls kept for another (claim_external_call, ExecutionBudget.generation).
THEOREM ReservedCalls == ASSUME LimitsAddUp PROVE Spec => []ReservedCallsRemain
<1>1. Init => CallsAreCounted
  <2> SUFFICES ASSUME Init, NEW r \in Requests
               PROVE  IsFiniteSet(Claimed(r)) /\ Cardinality(Claimed(r)) = calls[r]
    BY DEF CallsAreCounted
  <2>1. Claimed(r) = {}
    BY DEF Init, Claimed
  <2> QED
    BY <2>1, FS_EmptySet DEF Init
<1>2. IInv /\ CallsAreCounted /\ [Next]_vars => CallsAreCounted'
  <2> SUFFICES ASSUME IInv, CallsAreCounted, [Next]_vars PROVE CallsAreCounted'
    OBVIOUS
  <2>1. CASE UNCHANGED <<calls, claims>>
    BY <2>1 DEF CallsAreCounted, Claimed
  <2>2. ASSUME NEW t \in Threads, Claim(t) PROVE CallsAreCounted'
    <3>1. fetch[t].key \in Keys
      BY <2>2 DEF IInv, TypeOK, Claim
    <3>2. fetch[t].alloc \in Allocs
      BY <3>1, BudgetAssumption DEF IInv, TypeOK, NoFetch
    <3> QED
      BY <2>2, <3>2, ClaimedGrows DEF IInv
  <2> QED
    BY <2>1, <2>2
       DEF Next, vars, Step, LockKey, Lookup, TakeSlot, SlotTimeout, ClaimRefused,
           CallProvider, UseCached, Answer, Fail, RememberFailure, Abort, BeginFetch,
           StartRequest, DeadlinePasses, Expire
<1>3. IInv /\ CallsAreCounted => ReservedCallsRemain
  <2> SUFFICES ASSUME IInv, CallsAreCounted, NEW r \in Requests, calls[r] = MaxCalls,
                      NEW a \in Allocs
               PROVE  claims[r][a] = LimitOf[a]
    BY DEF ReservedCallsRemain
  <2>1. \A b \in Allocs : claims[r][b] \in Nat /\ LimitOf[b] \in Nat
                          /\ claims[r][b] <= LimitOf[b]
    BY BudgetAssumption DEF IInv, TypeOK
  <2>2. Claimed(r) \subseteq Reserved
    <3> SUFFICES ASSUME NEW b \in Allocs, NEW i \in 1..claims[r][b]
                 PROVE  <<b, i>> \in Reserved
      BY DEF Claimed
    <3>1. i \in 1..LimitOf[b]
      BY <2>1
    <3> QED
      BY <3>1 DEF Reserved
  <2>3. Claimed(r) = Reserved
    BY <2>2, FS_Subset DEF CallsAreCounted, LimitsAddUp
  <2>4. CASE claims[r][a] < LimitOf[a]
    <3>1. LimitOf[a] \in 1..LimitOf[a] /\ LimitOf[a] \notin 1..claims[r][a]
      BY <2>1, <2>4
    <3>2. <<a, LimitOf[a]>> \in Reserved
      BY <3>1 DEF Reserved
    <3>3. <<a, LimitOf[a]>> \notin Claimed(r)
      BY <3>1 DEF Claimed
    <3> QED
      BY <2>3, <3>2, <3>3
  <2> QED
    BY <2>1, <2>4
<1> QED
  BY <1>1, <1>2, <1>3, Invariance, PTL DEF Spec

--------------------------------------------------------------------------------
\* Nothing the provider sees changes when no thread enters or leaves a call.
LEMMA SameCallers ==
  ASSUME \A u \in Threads : /\ pc'[u] \in Calling <=> pc[u] \in Calling
                            /\ pc[u] \in Calling => Key(u)' = Key(u)
  PROVE  Callers' = Callers
BY DEF Callers

LEMMA OneCaller ==
  ASSUME IInv, NEW t \in Threads, pc[t] \in HasLock
  PROVE  Callers[Key(t)] = IF pc[t] \in Calling THEN {t} ELSE {}
<1>1. Key(t) \in Keys
  BY LabelFacts DEF IInv, TypeOK
<1>2. \A u \in Threads : pc[u] \in Calling /\ Key(u) = Key(t) => u = t
  BY <1>1, LabelFacts DEF IInv, LocksAndSlotsAreReturned
<1> QED
  BY <1>1, <1>2 DEF Callers

\* The provider's view of a step of thread t.
LEMMA ProviderStep ==
  ASSUME NEW t \in Threads, IInv, Step(t)
  PROVE  [Provider!Next]_(Provider!vars)
<1> USE LabelFacts DEF IInv, Provider!vars
<1>1. CASE CallProvider(t)
  <2>1. /\ pc[t] \in HasLock /\ pc[t] \notin Calling /\ Key(t) \in Keys
        /\ Key(t) \notin cached /\ cached' = cached /\ fetch' = fetch
        /\ pc'[t] \in Calling /\ \A u \in Threads \ {t} : pc'[u] = pc[u]
    BY <1>1 DEF CallProvider, Goto, TypeOK, HasLock, HasSlot, Calling
  <2>2. Callers[Key(t)] = {}
    BY <2>1, OneCaller
  <2>3. Callers' = [Callers EXCEPT ![Key(t)] = {t}]
    <3> SUFFICES ASSUME NEW k \in Keys
                 PROVE  Callers'[k] = IF k = Key(t) THEN {t} ELSE Callers[k]
      BY DEF Callers
    <3>1. Callers'[k] = {u \in Threads : pc'[u] \in Calling /\ Key(u) = k}
      BY <2>1 DEF Callers
    <3>2. Callers[k] = {u \in Threads : pc[u] \in Calling /\ Key(u) = k}
      BY DEF Callers
    <3> QED
      BY <2>1, <2>2, <3>1, <3>2
  <2>4. Provider!Call(Key(t), t)
    BY <2>1, <2>2, <2>3 DEF Provider!Call
  <2> QED
    BY <2>1, <2>4 DEF Provider!Next
<1>2. CASE Answer(t) \/ Fail(t)
  <2>1. /\ pc[t] \in HasLock /\ pc[t] \in Calling /\ Key(t) \in Keys
        /\ pc'[t] \notin Calling
        /\ \A u \in Threads \ {t} : pc'[u] = pc[u] /\ fetch'[u] = fetch[u]
    BY <1>2 DEF Answer, Fail, Done, Goto, TypeOK, Calling
  <2>2. Callers[Key(t)] = {t}
    BY <2>1, OneCaller
  <2>3. Callers' = [Callers EXCEPT ![Key(t)] = {}]
    <3> SUFFICES ASSUME NEW k \in Keys
                 PROVE  Callers'[k] = IF k = Key(t) THEN {} ELSE Callers[k]
      BY DEF Callers
    <3>1. Callers'[k] = {u \in Threads : pc'[u] \in Calling /\ Key(u)' = k}
      BY DEF Callers
    <3>2. Callers[k] = {u \in Threads : pc[u] \in Calling /\ Key(u) = k}
      BY DEF Callers
    <3> QED
      BY <2>1, <2>2, <3>1, <3>2
  <2>4. Provider!Answer(Key(t), t) \/ Provider!Fail(Key(t), t)
    BY <1>2, <2>2, <2>3
       DEF Answer, Fail, Provider!Answer, Provider!Fail, Provider!Return
  <2> QED
    BY <2>1, <2>4 DEF Provider!Next
<1>3. CASE \/ LockKey(t) \/ Lookup(t) \/ TakeSlot(t) \/ SlotTimeout(t) \/ Claim(t)
           \/ ClaimRefused(t) \/ UseCached(t) \/ RememberFailure(t)
  <2>1. /\ cached' = cached /\ pc[t] \notin Calling /\ pc'[t] \notin Calling
        /\ \A u \in Threads \ {t} : pc'[u] = pc[u] /\ fetch'[u] = fetch[u]
    BY <1>3 DEF LockKey, Lookup, TakeSlot, SlotTimeout, Claim, ClaimRefused, UseCached,
                RememberFailure, Abort, Done, Goto, TypeOK, Calling
  <2> QED
    BY <2>1, SameCallers
<1> QED
  BY <1>1, <1>2, <1>3 DEF Step

\* Seen from the provider, any number of threads of any number of requests
\* behave as one client that never repeats a call under way or answered.
THEOREM Implementation == Spec => ImplementsSingleFlight
<1>1. Init => Provider!Init
  BY DEF Init, Provider!Init, Callers, Calling
<1>2. IInv /\ [Next]_vars => [Provider!Next]_(Provider!vars)
  <2> SUFFICES ASSUME IInv, [Next]_vars PROVE [Provider!Next]_(Provider!vars)
    OBVIOUS
  <2>1. CASE UNCHANGED vars
    BY <2>1 DEF vars, Provider!vars, Callers
  <2>2. ASSUME NEW t \in Threads, NEW k \in Keys, NEW a \in AllocsOf[k],
               BeginFetch(t, k, a)
        PROVE  UNCHANGED Provider!vars
    <3>1. /\ cached' = cached /\ pc[t] \notin Calling /\ pc'[t] \notin Calling
          /\ \A u \in Threads \ {t} : pc'[u] = pc[u] /\ fetch'[u] = fetch[u]
      BY <2>2 DEF BeginFetch, IInv, TypeOK, Calling
    <3> QED
      BY <3>1, SameCallers DEF Provider!vars
  <2>3. ASSUME NEW r \in Requests, StartRequest(r) \/ DeadlinePasses(r)
        PROVE  UNCHANGED Provider!vars
    BY <2>3 DEF StartRequest, DeadlinePasses, Provider!vars, Callers
  <2>4. ASSUME NEW k \in Keys, Expire(k) PROVE Provider!Next
    BY <2>4 DEF Expire, Provider!Next, Provider!Expire, Callers
  <2> QED
    BY <2>1, <2>2, <2>3, <2>4, ProviderStep DEF Next
<1> QED
  BY <1>1, <1>2, Invariance, PTL DEF Spec, ImplementsSingleFlight, Provider!Spec
================================================================================
