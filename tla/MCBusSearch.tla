------------------------------ MODULE MCBusSearch ------------------------------
(***************************************************************************)
(* Three stops at either end: a direct line between the second and third   *)
(* ones, a slower one between the nearest, and lines that meet half way.   *)
(***************************************************************************)
EXTENDS BusSearch

CONSTANTS direct, slow, next, late, back, east, west, same

MCTrips == {direct, slow, next, late, back, east, west, same}
At(stop, arrives) == [stop |-> stop, arrives |-> arrives, departs |-> arrives + 1]

\* 1 to 3 are near the origin, 7 to 9 near the destination, 4 and 5 half way.
MCCallsOf ==
  (direct :> <<At(2, 620), At(3, 624), At(8, 645), At(9, 650)>>) @@
  (slow :> <<At(1, 622), At(4, 632), At(7, 655), At(8, 660)>>) @@
  (next :> <<At(2, 640), At(8, 664)>>) @@
  (late :> <<At(2, 650), At(7, 663)>>) @@
  (back :> <<At(8, 612), At(2, 640)>>) @@
  (east :> <<At(1, 618), At(3, 621), At(4, 626)>>) @@
  (west :> <<At(5, 637), At(4, 638), At(7, 644), At(9, 648)>>) @@
  (same :> <<At(5, 641), At(7, 646)>>)
MCPatternOf == [t \in MCTrips |-> CASE t = direct -> 1 [] t = slow -> 2 [] t \in {next, late} -> 1
                                    [] t = back -> 3 [] t = east -> 4 [] t = west -> 5 [] t = same -> 6]
MCNumberOf == [t \in MCTrips |-> CASE t \in {direct, next, late, back} -> 201 [] t = slow -> 211
                                   [] t \in {east, same} -> 181 [] t = west -> 182]
MCSuspendedOf == [t \in MCTrips |-> IF t = late THEN {<<645, 700>>} ELSE {}]
MCFareOf == [t \in MCTrips |-> IF t \in {east, west} THEN 2 ELSE 1]

MCBoarding == <<1, 2, 3>>
MCAlighting == <<7, 8, 9>>
MCNearby == {<<4, 4>>, <<4, 5>>, <<5, 4>>, <<5, 5>>}

MCAnswersOf ==
  [w \in ({0} \X {1, 2, 3}) \cup {<<4, 5>>, <<5, 4>>} \cup ({7, 8, 9} \X {10}) |->
     IF w \in {<<0, 1>>, <<4, 5>>} THEN {NoWalk, 4, 9} ELSE {NoWalk, 6}]

MCAsks ==
  [leave : {600, 606, 612, 616, 621, 626, 632}, maxWait : {10, 30}, transfers : {0, 1}, busOnly : BOOLEAN,
   budget : {1, NoWalk}]
================================================================================
