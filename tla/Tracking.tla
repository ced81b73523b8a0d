------------------------------ MODULE Tracking ------------------------------
(***************************************************************************)
(* Proximity resolution, the decision stage and the collision stage under  *)
(* one clock and one sweeper.  The providers of a hub send proximities or  *)
(* locations, here one or the other: a location derived from a proximity   *)
(* enters the decision stage like any other, by way of the queues of       *)
(* module Pipeline.                                                        *)
(***************************************************************************)
EXTENDS Proximity, Motions

CONSTANTS
    Feeds,  \* what providers send, subset of {"proximity", "location"}
    MaxNow  \* bound: the clock

VARIABLE feed

trackingVars == <<now, feed, proximityVars, motionVars>>

InitTracking ==
    /\ now = 0
    /\ feed \in Feeds
    /\ InitProximity
    /\ InitMotions

PassTime ==
    /\ now < MaxNow
    /\ now' = now + 1
    /\ UNCHANGED <<feed, proximityVars, motionVars>>

(* SweepExpired: the maps that these stages use.                           *)
SweepTracking ==
    /\ states' = SweptStates
    /\ tracks' = SweptTracks
    /\ motions' = SweptMotions
    /\ pairs' = SweptPairs
    /\ UNCHANGED <<now, feed, zones, calls, proximities, edits, heard, reports, raced,
                   filter, workers, queue, collider, located, latest, points,
                   published, irregular, missed>>

TrackingNext ==
    \/ feed = "proximity" /\ ProximityNext /\ UNCHANGED <<feed, motionVars>>
    \/ feed = "location" /\ MotionsNext /\ UNCHANGED <<feed, proximityVars>>
    \/ PassTime
    \/ SweepTracking

TrackingSpec == InitTracking /\ [][TrackingNext]_trackingVars
=============================================================================
