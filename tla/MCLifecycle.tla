---------------------------- MODULE MCLifecycle ----------------------------
(* A hub that is started twice, or beside another one, on the same database*)
EXTENDS Lifecycle

NoAuth   == [enabled |-> FALSE, mode |-> "none", issuer |-> FALSE, keys |-> "none",
             file |-> TRUE, roles |-> TRUE, owned |-> TRUE]
Static   == [NoAuth EXCEPT !.enabled = TRUE, !.mode = "static", !.keys = "given"]
Hybrid   == [NoAuth EXCEPT !.enabled = TRUE, !.mode = "hybrid", !.issuer = TRUE,
                           !.keys = "blank"]
Telemetry == [enabled |-> TRUE, signals |-> {"traces"}, endpoint |-> TRUE, name |-> TRUE]

Base == [env |-> <<>>, auth |-> NoAuth, telemetry |-> Telemetry, uuid |-> TRUE,
         handler |-> TRUE, zonePosition |-> TRUE,
         meta |-> NoMetaConfig]

(* A fresh hub, an identifier in a form of its own, two resets, and the    *)
(* restart with what the first of them has stored.                         *)
MCConfigurations ==
    <<Base,
      [Base EXCEPT !.auth = Static,
                   !.meta = [NoMetaConfig EXCEPT !.id = 2, !.canonical = FALSE],
                   !.env = [EVENT_BUS_SUBSCRIBER_BUFFER |-> Malformed]],
      [Base EXCEPT !.auth = Hybrid,
                   !.meta = [NoMetaConfig EXCEPT !.id = 2, !.label = 2, !.reset = TRUE]],
      [Base EXCEPT !.env = [WEBSOCKET_READ_TIMEOUT |-> Num(20),
                            WEBSOCKET_PING_INTERVAL |-> Malformed],
                   !.meta = [NoMetaConfig EXCEPT !.label = 2, !.reset = TRUE]],
      [Base EXCEPT !.auth = Hybrid, !.meta = [NoMetaConfig EXCEPT !.id = 2, !.label = 2]]>>
=============================================================================
