----------------------------- MODULE MCRouteFetch ------------------------------
(***************************************************************************)
(* Instances of RouteFetch: two threads of one request and one of another, *)
(* a pedestrian route that both kinds of walk ask for, and a driving route.*)
(***************************************************************************)
EXTENDS RouteFetch, TLC

CONSTANTS r1, r2, t1, t2, t3, walk, drive, direct, access, taxi

MCRequestOf == [t \in Threads |-> IF t = t3 THEN r2 ELSE r1]
MCAllocsOf == [k \in Keys |-> IF k = drive THEN {taxi} ELSE {direct, access} \cap Allocs]
\* The limits add up to MaxCalls, as 10 + 10 + 20 of generation() do to 40.
MCLimitOf == [a \in Allocs |-> 1]
ASSUME LimitsOfInstance == LimitsAddUp
ThreadSymmetry == Permutations({t1, t2})
================================================================================
