----------------------------- MODULE MCPipeline -----------------------------
(***************************************************************************)
(* An instance of Pipeline: two providers, one of them with two locations, *)
(* a decision buffer of two that is shared by two workers of one slot each *)
(* and a request whose second location is not valid.                       *)
(***************************************************************************)
EXTENDS Pipeline

CONSTANTS c1, c2, a, b, a1, a2, b1, bad, t

MCStreamOf == [l \in Locations |-> IF l = b1 THEN b ELSE a]
MCHash == [k \in Streams |-> IF k = a THEN 6 ELSE 3]
\* The trackable is named by b's location, and claims provider a in its metadata.
MCNamed == [l \in Locations |-> IF l = b1 THEN {t} ELSE {}]
MCClaimants == [k \in Streams |-> IF k = a THEN {t} ELSE {}]
MCRequests == {<<a1, a2>>, <<b1, bad>>}
=============================================================================
