---------------------------- MODULE MCRatingSync ----------------------------
(* TLC instances of RatingSync.                                             *)
EXTENDS RatingSync

(* Every title has a number of its own. *)
MCNumbersApart == [x \in Titles \union Shows |-> x]

(* A season (1) has a number of its own; a title (2) and another that has no *)
(* row (3) have one number, as have one without a row (4) and a show (9).   *)
MCNumbersShared ==
    [x \in Titles \union Shows |->
        CASE x = 1 -> 1 [] x \in {2, 3} -> 2 [] x \in {4, 9} -> 9]
=============================================================================
