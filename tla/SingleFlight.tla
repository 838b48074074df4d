----------------------------- MODULE SingleFlight ------------------------------
(***************************************************************************)
(* What the route planner promises to a routing provider that is billed by *)
(* the call: per route at most one call at a time, and none while its      *)
(* answer is cached.  RouteFetch.tla implements it.                        *)
(***************************************************************************)
CONSTANTS Keys, Threads
VARIABLES
  callers,  \* Keys -> the threads that are calling the provider for the route
  cached    \* the routes whose answer is at hand

vars == <<callers, cached>>

Init == callers = [k \in Keys |-> {}] /\ cached = {}

Call(k, t) ==
  /\ callers[k] = {} /\ k \notin cached
  /\ callers' = [callers EXCEPT ![k] = {t}]
  /\ UNCHANGED cached

Return(k, t) == callers[k] = {t} /\ callers' = [callers EXCEPT ![k] = {}]

Answer(k, t) == Return(k, t) /\ cached' = cached \cup {k}
Fail(k, t) == Return(k, t) /\ UNCHANGED cached
Expire(k) == k \in cached /\ cached' = cached \ {k} /\ UNCHANGED callers

Next ==
  \E k \in Keys :
    \/ Expire(k)
    \/ \E t \in Threads : Call(k, t) \/ Answer(k, t) \/ Fail(k, t)

Spec == Init /\ [][Next]_vars
================================================================================
