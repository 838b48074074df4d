----------------------------- MODULE MCPublication -----------------------------
(***************************************************************************)
(* Instances of Publication: x1, x2, x3 of tour, a place-intro source, and *)
(* y1, y2 of stops, whose coverage is activated by its ratio alone.        *)
(***************************************************************************)
EXTENDS Publication, TLC

CONSTANTS tour, stops, x1, x2, x3, y1, y2, bound, whole, june

ClientSymmetry == Permutations(Clients)

TwoSources == {tour, stops}
OneSource == {stops}

MCSourceOf == [a \in Acqs |-> IF a \in {x1, x2, x3} THEN tour ELSE stops]
\* x1 and x3 normalise to the same data set; so do y1 and y2.
MCVersionOf == [a \in Acqs |-> IF a = x2 THEN 2 ELSE 1]
MCRowsOf == [a \in Acqs |-> IF a = x2 THEN 30 ELSE 10]
EqualRows == [a \in Acqs |-> 10]
DistinctVersions == [a \in Acqs |-> IF a = y1 THEN 1 ELSE 2]
MCCapsOf == [s \in Sources |-> IF s = tour THEN {SnapshotCap, HoursCap} ELSE {bound}]
MCExpansionsOf == [a \in Acqs |-> IF a = x2 THEN {NoExpansion, 10} ELSE {NoExpansion}]
NoExpansionsOf == [a \in Acqs |-> {NoExpansion}]

Row(cap, scope, ready) == [cap |-> cap, scope |-> scope, ready |-> ready]
MCBatches ==
  {{Row(SnapshotCap, whole, TRUE), Row(HoursCap, whole, FALSE)},
   {Row(HoursCap, june, FALSE)},
   {Row(bound, whole, TRUE)},
   {Row(bound, june, FALSE)}}
\* A batch that activation accepts and one that it refuses.
FullAndPartial == {{Row(bound, whole, TRUE)}, {Row(bound, june, FALSE)}}
OneBatch == {{Row(bound, whole, TRUE)}}
TwoBatches == {{Row(bound, whole, TRUE)}, {Row(bound, june, TRUE)}}
================================================================================
