------------------------------- MODULE RawIntake -------------------------------
(***************************************************************************)
(* What a collection promises to the publication that follows: the raw     *)
(* object is stored before the acquisition that names it, and only an      *)
(* object that holds every page becomes ACQUIRED.  The two ends of it are  *)
(* RegisterNew and RegisterIncomplete of Publication.  Collection.tla      *)
(* implements it.                                                          *)
(***************************************************************************)
CONSTANT Objects
VARIABLES
  held,   \* objects in the private bucket
  whole,  \* those that hold every page of every query
  book    \* Objects -> status of the acquisition that names it, or "none"

vars == <<held, whole, book>>

Init == held = {} /\ whole = {} /\ book = [o \in Objects |-> "none"]

Hold(o) ==
  /\ o \notin held
  /\ held' = held \cup {o}
  /\ whole' \in {whole, whole \cup {o}}
  /\ UNCHANGED book

Enter(o, status) ==
  /\ o \in held /\ book[o] = "none"
  /\ status = "ACQUIRED" => o \in whole
  /\ book' = [book EXCEPT ![o] = status]
  /\ UNCHANGED <<held, whole>>

Next ==
  \E o \in Objects :
    Hold(o) \/ (\E status \in {"INCOMPLETE", "ACQUIRED"} : Enter(o, status))

Spec == Init /\ [][Next]_vars
================================================================================
