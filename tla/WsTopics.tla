------------------------------- MODULE WsTopics -----------------------------
(***************************************************************************)
(* The topics of the WebSocket protocol, the filters of subscriptions and  *)
(* the events a subscription selects (src/internal/ws/hub.go).             *)
(*                                                                         *)
(* The params of a subscription, its filter and the payload of an event    *)
(* are partial functions from field names: a field that is not in the      *)
(* domain is an empty filter field, or a nil pointer in the payload.       *)
(***************************************************************************)
EXTENDS Integers, Sequences

LocationTopics == {"location_updates", "location_updates:geojson"}
FenceTopics == {"fence_events", "fence_events:geojson"}

\* knownTopic
Topics == LocationTopics \cup FenceTopics
            \cup {"collision_events", "trackable_motions", "proximity_updates", "metadata_changes"}

\* coalescibleWrapperKey: of these only the newest wrapper is worth keeping.
Hot(topic) == topic \in LocationTopics \cup {"trackable_motions"}

\* The kind of event that payloadBatchForSubscription selects for a topic.
KindOf(topic) ==
  CASE topic \in LocationTopics -> "location"
    [] topic \in FenceTopics -> "fence_event"
    [] topic = "trackable_motions" -> "trackable_motion"
    [] topic = "collision_events" -> "collision_event"
    [] topic = "proximity_updates" -> "proximity"
    [] topic = "metadata_changes" -> "metadata_change"

\* The parameters each parser reads; the others are ignored.
FilterKeys(topic) ==
  CASE topic \in LocationTopics ->
         {"provider_id", "provider_type", "source", "crs", "zone_id", "floor", "accuracy"}
    [] topic \in FenceTopics ->
         {"fence_id", "foreign_id", "provider_id", "trackable_id", "event_type", "object_type"}
    [] topic = "trackable_motions" -> {"id", "provider_id", "crs", "zone_id", "floor", "accuracy"}
    [] topic = "collision_events" ->
         {"object_id_1", "object_id_2", "collision_type", "crs", "zone_id", "floor"}
    [] topic = "metadata_changes" -> {"id", "type", "operation"}
    [] topic = "proximity_updates" -> {}

ParseFilter(topic, params) == [x \in DOMAIN params \cap FilterKeys(topic) |-> params[x]]

Same(f, e, fields) == \A x \in fields \cap DOMAIN f : x \in DOMAIN e /\ e[x] = f[x]

\* A zone is named by the source of a location.
InZone(f, e) == "zone_id" \in DOMAIN f => e["source"] = f["zone_id"]

AtLeastAsAccurate(f, e) ==
  "accuracy" \in DOMAIN f => "accuracy" \in DOMAIN e /\ e["accuracy"] <= f["accuracy"]

MatchLocation(f, e) ==
  Same(f, e, {"provider_id", "provider_type", "source", "crs"}) /\ InZone(f, e)
    /\ AtLeastAsAccurate(f, e)

MatchFence(f, e) ==
  Same(f, e, {"fence_id", "foreign_id", "provider_id", "trackable_id", "event_type"})

MatchMotion(f, e) ==
  Same(f, e, {"id", "provider_id", "crs"}) /\ InZone(f, e) /\ AtLeastAsAccurate(f, e)

\* The two object ids may be the same one; each has to be among the objects.
MatchCollision(f, e) ==
  /\ Same(f, e, {"collision_type"})
  /\ \A x \in {"object_id_1", "object_id_2"} \cap DOMAIN f : f[x] \in e["objects"]

MatchMetadata(f, e) == Same(f, e, {"id", "type", "operation"})

\* The kind of the event, and the filter of the topic.
Selects(topic, f, kind, e) ==
  /\ kind = KindOf(topic)
  /\ CASE kind = "location" -> MatchLocation(f, e)
       [] kind = "fence_event" -> MatchFence(f, e)
       [] kind = "trackable_motion" -> MatchMotion(f, e)
       [] kind = "collision_event" -> MatchCollision(f, e)
       [] kind = "metadata_change" -> MatchMetadata(f, e)
       [] kind = "proximity" -> TRUE
=============================================================================
