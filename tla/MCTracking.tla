----------------------------- MODULE MCTracking -----------------------------
(* Two neighbouring zones within each other's boundary grace, one far      *)
(* away, and one without a position; and four points, of which the first   *)
(* is compared with itself (overlap) and the others (corner, apart,        *)
(* remote).                                                                *)
EXTENDS Tracking

MCPolicyDefaults ==
    [confidence |-> 0, exitGrace |-> 2, boundary |-> 1, dwell |-> 2, fallback |-> 0,
     stale |-> 3]

Beacon(x) == [kind |-> "ibeacon", positioned |-> TRUE, at |-> <<x, 0>>, radius |-> 1,
              overrides |-> <<>>]

MCVersions ==
    [a |-> <<Beacon(0), Gone, [Beacon(0) EXCEPT !.overrides = [dwell |-> -1]]>>,
     b |-> <<[Beacon(3) EXCEPT !.overrides = [confidence |-> 1, exitGrace |-> 1,
                                             dwell |-> 3]]>>,
     c |-> <<[Beacon(9) EXCEPT !.radius = NoRadius]>>,
     d |-> <<[Beacon(9) EXCEPT !.positioned = FALSE]>>]

Place == [p |-> 1, q |-> 2, r |-> 3, s |-> 4]

Far(x, y) == IF x > y THEN x - y ELSE y - x

MCRelation ==
    [xy \in Positions \X Positions |->
        <<"overlap", "corner", "apart", "remote">>[Far(Place[xy[1]], Place[xy[2]]) + 1]]

At(worker, ts, position, age) ==
    [worker |-> worker, ts |-> ts, position |-> position, age |-> age]

(* With the filter: both trackables, and the second alone and late, in one *)
(* stream.  Without: the second in a stream of its own too, on its way     *)
(* from point to point past the first.                                     *)
MCLocations ==
    [filtered \in BOOLEAN |->
        {At(1, <<2, 1>>, "p", 0)} \cup
        IF filtered THEN {At(1, <<2>>, "q", 1)}
                    ELSE {At(1, <<1>>, "p", 0)} \cup {At(2, <<2>>, x, 0) : x \in Positions}]

MCMaxLocations == [filtered \in BOOLEAN |-> IF filtered THEN 3 ELSE 4]
=============================================================================
