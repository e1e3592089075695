------------------------------- MODULE MCWeb -------------------------------
(* An instance of RfidWeb with ids of three bits: the admin card, a default *)
(* card above INT_MAX, and numbers at the limits of the conversions.        *)
EXTENDS RfidWeb
MCDefaults == <<1, 4>>
MCNumbers == {-1, 0, 1, 4}
MCQueries == {"q"}
MCHits == [t \in Types |-> [q \in Queries |-> IF t = "id" THEN {1, 2} ELSE {2, 4}]]
=============================================================================
