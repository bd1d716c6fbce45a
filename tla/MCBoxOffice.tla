---------------------------- MODULE MCBoxOffice ----------------------------
(* Instances of BoxOffice for TLC: which rooms there are. *)
EXTENDS BoxOffice

OneRoom   == [room \in {1} |-> 1]     \* one seat to fight for
TwoRooms  == [room \in {1, 2} |-> 1]  \* two rooms of one seat
=============================================================================
