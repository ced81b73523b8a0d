-------------------------- MODULE MCFenceMembership -------------------------
(***************************************************************************)
(* Instances of FenceMembership: places inside, in the tolerance band of,  *)
(* beyond and on another floor than a fence, and a site with a local and a *)
(* WGS84 coordinate space.                                                 *)
(***************************************************************************)
EXTENDS FenceMembership

CONSTANTS w1, w2, f, inside, band, beyond, upstairs

NoSettings == [tolerance |-> 0, timeout |-> Unset, delay |-> Unset]

\* A fence with a tolerance, a timeout and a delay, which the provider shortens.
FenceSettings == [x \in Fences |-> [tolerance |-> 2, timeout |-> 1, delay |-> 2]]

ShorterDelay == [w \in Workers |-> [tolerance |-> 0, timeout |-> Unset, delay |-> 1]]

NoOverrides == [w \in Workers |-> NoSettings]

\* A fence with no settings: the exit is immediate.
NoFenceSettings == [x \in Fences |-> NoSettings]

OneScope == {"local"}

BothScopes == {"local", "wgs84"}

InLocal == [x \in Fences |-> "local"]

InWgs84 == [x \in Fences |-> "wgs84"]

LocalOnly == {<<"local">>}

\* A local location that has a transform.
LocalThenWgs84 == {<<"local", "wgs84">>}

PlaceDistance(p) ==
  CASE p = inside -> 0 [] p = band -> 2 [] p = beyond -> 3 [] p = upstairs -> OtherFloor

OneScopeDistance == [s \in {"local"} |-> [p \in Places |-> [x \in Fences |-> PlaceDistance(p)]]]

\* A fence drawn in WGS84: a point's local coordinates are far from it.
ScopeDistance ==
  [s \in {"local", "wgs84"} |->
     [p \in Places |-> [x \in Fences |-> IF s = "local" THEN 100 ELSE PlaceDistance(p)]]]
=============================================================================
