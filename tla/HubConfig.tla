------------------------------ MODULE HubConfig ------------------------------
(***************************************************************************)
(* How the hub reads its settings (internal/config/config.go).  A variable *)
(* of the environment is unset, a value the helper can parse, or one that  *)
(* it cannot; numbers are integers: durations in seconds, the collision    *)
(* radius and the sample ratio in hundredths.  Settings without a rule of  *)
(* their own are left out.                                                 *)
(***************************************************************************)
EXTENDS Integers, FiniteSets

Num(n)    == [ok |-> TRUE, n |-> n]
Malformed == [ok |-> FALSE, n |-> 0]

(* Variables with a rule, and what they are when the environment is silent.*)
Defaults ==
    [HTTP_REQUEST_BODY_LIMIT_BYTES |-> 4194304,
     WEBSOCKET_WRITE_TIMEOUT |-> 5, WEBSOCKET_READ_TIMEOUT |-> 60,
     WEBSOCKET_PING_INTERVAL |-> 30, WEBSOCKET_OUTBOUND_BUFFER |-> 256,
     EVENT_BUS_SUBSCRIBER_BUFFER |-> 1024, NATIVE_LOCATION_BUFFER |-> 2048,
     DERIVED_LOCATION_BUFFER |-> 1024, PPROF_MUTEX_PROFILE_FRACTION |-> 0,
     PPROF_BLOCK_PROFILE_RATE |-> 0, STATE_LOCATION_TTL |-> 600,
     STATE_PROXIMITY_TTL |-> 300, STATE_DEDUP_TTL |-> 120,
     METADATA_RECONCILE_INTERVAL |-> 30, RPC_TIMEOUT |-> 5,
     RPC_ANNOUNCEMENT_INTERVAL |-> 60, COLLISION_STATE_TTL |-> 120,
     COLLISION_COLLIDING_DEBOUNCE |-> 5, COLLISION_DEFAULT_RADIUS_METERS |-> 50,
     KALMAN_LOCATION_MAX_POINTS |-> 8, KALMAN_LOCATION_MAX_AGE |-> 10,
     KALMAN_EMIT_MAX_FREQUENCY_HZ |-> 0,
     PROXIMITY_RESOLUTION_ENTRY_CONFIDENCE_MIN |-> 0,
     PROXIMITY_RESOLUTION_EXIT_GRACE_DURATION |-> 15,
     PROXIMITY_RESOLUTION_BOUNDARY_GRACE_DISTANCE |-> 2,
     PROXIMITY_RESOLUTION_MIN_DWELL_DURATION |-> 5,
     PROXIMITY_RESOLUTION_FALLBACK_RADIUS |-> 0,
     PROXIMITY_RESOLUTION_STALE_STATE_TTL |-> 600,
     OTEL_EXPORTER_OTLP_TIMEOUT |-> 10, OTEL_METRIC_EXPORT_INTERVAL |-> 15,
     OTEL_METRIC_EXPORT_TIMEOUT |-> 10, OTEL_TRACE_SAMPLE_RATIO |-> 100]

(* Those that may be zero; the others must be positive.                    *)
MayBeZero ==
    {"PPROF_MUTEX_PROFILE_FRACTION", "PPROF_BLOCK_PROFILE_RATE",
     "COLLISION_COLLIDING_DEBOUNCE", "KALMAN_EMIT_MAX_FREQUENCY_HZ",
     "PROXIMITY_RESOLUTION_ENTRY_CONFIDENCE_MIN",
     "PROXIMITY_RESOLUTION_BOUNDARY_GRACE_DISTANCE",
     "PROXIMITY_RESOLUTION_MIN_DWELL_DURATION",
     "PROXIMITY_RESOLUTION_FALLBACK_RADIUS"}

(* Looked at only when telemetry is enabled.                               *)
Otel ==
    {"OTEL_EXPORTER_OTLP_TIMEOUT", "OTEL_METRIC_EXPORT_INTERVAL",
     "OTEL_METRIC_EXPORT_TIMEOUT", "OTEL_TRACE_SAMPLE_RATIO"}

(* The least value a setting is accepted with.                             *)
Least(name) ==
    CASE name \in MayBeZero                    -> 0
      [] name = "KALMAN_LOCATION_MAX_POINTS"   -> 2
      [] OTHER                                 -> 1

(* durationEnvWithLookup and its like: a value that cannot be parsed is    *)
(* the default.                                                            *)
Value(env, name) ==
    IF name \in DOMAIN env /\ env[name].ok THEN env[name].n ELSE Defaults[name]

Load(env) == [name \in DOMAIN Defaults |-> Value(env, name)]

(* AuthConfig.Validate; keys is "none", "blank" (only separators) or       *)
(* "given", the other fields say whether a setting is not empty.           *)
AuthValid(auth) ==
    auth.enabled /\ auth.mode # "none" =>
        /\ auth.mode \in {"oidc", "static", "hybrid"}
        /\ auth.mode = "oidc" => auth.issuer
        /\ auth.mode = "static" => auth.keys = "given"
        /\ auth.mode = "hybrid" => auth.issuer \/ auth.keys = "given"
        /\ auth.file /\ auth.roles /\ auth.owned

(* TelemetryConfig.Validate.                                               *)
TelemetryValid(telemetry, settings) ==
    telemetry.enabled =>
        /\ telemetry.signals # {}
        /\ telemetry.endpoint
        /\ \A name \in Otel \ {"OTEL_TRACE_SAMPLE_RATIO"} : settings[name] > 0
        /\ settings["OTEL_TRACE_SAMPLE_RATIO"] \in 0..100
        /\ telemetry.name

(* fromLookupEnv accepts the settings.                                     *)
Accepted(c) ==
    LET settings == Load(c.env)
    IN  /\ AuthValid(c.auth)
        /\ \A name \in DOMAIN Defaults \ Otel : settings[name] >= Least(name)
        /\ settings["WEBSOCKET_READ_TIMEOUT"] > settings["WEBSOCKET_PING_INTERVAL"]
        /\ c.uuid /\ c.handler /\ c.zonePosition
        /\ TelemetryValid(c.telemetry, settings)

-----------------------------------------------------------------------------
(* NewAuthenticator on accepted settings, when the keys and the issuer     *)
(* answer: the authenticators it builds, or that it fails.                 *)
StaticBuilds(auth) == auth.keys = "given"

AuthenticatorBuilds(auth) ==
    \/ ~auth.enabled \/ auth.mode = "none"
    \/ auth.mode = "oidc" /\ auth.issuer
    \/ auth.mode = "static" /\ StaticBuilds(auth)
    \/ /\ auth.mode = "hybrid"
       /\ auth.issuer \/ auth.keys # "none"
       /\ auth.keys # "none" => StaticBuilds(auth)
=============================================================================
