--------------------------- MODULE MCWsConnection ---------------------------
(***************************************************************************)
(* An instance of WsConnection: a buffer of one wrapper, locations and     *)
(* fence events of a provider, and a client that subscribes to both        *)
(* kinds, leaves one, and sends messages that are refused.                 *)
(***************************************************************************)
EXTENDS WsConnection

CONSTANTS p, q, member, stranger

Empty == [x \in {} |-> 0]
LocationOf(x) == [kind |-> "location",
                  item |-> [provider_id |-> x, source |-> x, accuracy |-> IF x = p THEN 1 ELSE 3]]
MCEvents == {LocationOf(p),
             [kind |-> "fence_event", item |-> [provider_id |-> p, event_type |-> "region_entry"]]}
Subscribe(topic, token, params) ==
  [event |-> "subscribe", topic |-> topic, token |-> token, params |-> params]
MCMessages == {
  Subscribe("location_updates", member, [zone_id |-> p, accuracy |-> 2]),
  Subscribe("fence_events", member, [provider_id |-> p]),
  Subscribe("fence_events", stranger, Empty),
  [event |-> "unsubscribe", sub |-> 1],
  [event |-> "message", topic |-> "location_updates", token |-> member, payload |-> "good"]}
MCGrants == {member} \X {"subscribe", "publish"} \X Topics
MCAccepted == {"good"}
=============================================================================
