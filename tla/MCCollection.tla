----------------------------- MODULE MCCollection ------------------------------
(***************************************************************************)
(* Instances of Collection: two queries, data of one page, of two pages    *)
(* with one total or another.                                              *)
(***************************************************************************)
EXTENDS Collection

MCTotal == [v \in Versions |-> IF v = "small" THEN 1 ELSE IF v = "odd" THEN 3
                               ELSE IF v = "even" THEN 4 ELSE 5]
MCVersionsOf == [q \in Queries |-> IF q = 1 THEN Versions ELSE {"small"}]
================================================================================
