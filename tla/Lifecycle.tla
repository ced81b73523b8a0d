------------------------------ MODULE Lifecycle ------------------------------
(***************************************************************************)
(* One hub process from start to exit (cmd/hub/main.go), again and again   *)
(* on the same database, beside other processes that start on it too: the  *)
(* dependencies it opens in order, the deferred calls it unwinds in the    *)
(* opposite order, the goroutine that publishes events to MQTT, the        *)
(* service's workers, the HTTP server with its requests, the stop signal,  *)
(* and crashes.                                                            *)
(*                                                                         *)
(* main waits for the server's requests, for the publisher and, when it    *)
(* closes the connection pool, for the queries that still run.  The        *)
(* workers stop by themselves when the context is cancelled, and nobody    *)
(* waits for WebSocket connections: the server no longer knows them.       *)
(***************************************************************************)
EXTENDS HubConfig, HubMeta, Sequences

CONSTANTS
    Self,            \* the process followed from start to exit
    Configurations,  \* sequence of the environments a process may start with
    Kinds,           \* kinds of events that are emitted
    Requests,        \* HTTP requests
    Sockets,         \* those that become WebSocket connections
    MaxStarts,       \* bound: starts, of all processes
    MaxEvents        \* bound: events in one run of the process

ASSUME LifecycleAssumption ==
    /\ Self \in Processes
    /\ Kinds \subseteq {"location", "motion", "fence_event", "collision", "proximity"}
    /\ Sockets \subseteq Requests
    /\ 1 \in DOMAIN Configurations
    /\ \A i \in DOMAIN Configurations :
           /\ Configurations[i].meta \in MetaConfigs
           /\ Configurations[i].meta.id < FirstGenerated
           /\ \A name \in DOMAIN Configurations[i].env : Configurations[i].env[name].n \in Int

VARIABLES
    starts,     \* starts so far
    settings,   \* index of the process's configuration
    main,       \* the main goroutine
    cancelled,  \* the context is cancelled: a stop signal has arrived
    server,     \* "off", "listening", "failed" or "closed"
    inflight,   \* requests being handled
    poolClosed, \* pool.Close has been called
    querying,   \* requests that hold a connection
    cut,        \* history: requests that found the pool closed
    workers,    \* the service's goroutines: "off", "running", "querying"
                \* (the reconciliation holds a connection) or "stopped"
    events,     \* channel: the publisher's subscription
    publisher   \* the goroutine of runEventPublisher

poolVars == <<poolClosed, querying, cut>>
runVars == <<settings, main, cancelled, server, inflight, poolVars, workers, events,
             publisher>>
vars == <<starts, metaVars, runVars>>

(* What runWithRuntime does in order.                                      *)
Steps ==
    <<"config", "telemetry", "logger", "postgres", "metadata", "mqtt", "auth",
      "registry", "service", "publisher", "rpc", "locations", "proximities",
      "server">>

(* Steps that leave a deferred call behind.                                *)
Defers == {"telemetry", "logger", "postgres", "mqtt", "publisher", "rpc"}

NoMain      == [pc |-> "off", step |-> 1, defers |-> <<>>, result |-> "none"]
NoEvents    == [queue |-> <<>>, closed |-> FALSE, emitted |-> 0]
NoPublisher == [pc |-> "off", topics |-> 0]

NewRun ==
    /\ cancelled' = FALSE
    /\ server' = "off"
    /\ inflight' = {}
    /\ poolClosed' = FALSE
    /\ querying' = {}
    /\ cut' = {}
    /\ workers' = "off"
    /\ events' = NoEvents
    /\ publisher' = NoPublisher

Init ==
    /\ InitMeta
    /\ starts = 0
    /\ settings = 1
    /\ main = NoMain
    /\ cancelled = FALSE
    /\ server = "off"
    /\ inflight = {}
    /\ poolClosed = FALSE
    /\ querying = {}
    /\ cut = {}
    /\ workers = "off"
    /\ events = NoEvents
    /\ publisher = NoPublisher

Step    == Steps[main.step]
Starting(step) == main.pc = "starting" /\ Step = step
Closed(dependency) == dependency \notin {main.defers[i] : i \in DOMAIN main.defers}
Configured == Configurations[settings]
AuthOn == Configured.auth.enabled /\ Configured.auth.mode # "none"

-----------------------------------------------------------------------------
(* Start-up.                                                               *)

Start(i) ==
    /\ main.pc \in {"off", "exited"}
    /\ starts < MaxStarts
    /\ starts' = starts + 1
    /\ settings' = i
    /\ main' = [NoMain EXCEPT !.pc = "starting"]
    /\ NewRun
    /\ UNCHANGED metaVars

(* The step has succeeded: its deferred call is registered, main goes on.  *)
Done(step) ==
    [main EXCEPT !.step = @ + 1,
                 !.defers = IF step \in Defers THEN Append(@, step) ELSE @]

(* runWithRuntime returns: the deferred calls are next.                    *)
Returned(result) == [main EXCEPT !.pc = "unwinding", !.result = result]

LoadConfig ==
    /\ Starting("config")
    /\ main' = IF Accepted(Configured) THEN Done("config") ELSE Returned("error")
    /\ UNCHANGED <<starts, metaVars, settings, cancelled, server, inflight, poolVars,
                   workers, events, publisher>>

(* Dependencies that open, or do not.                                      *)
Opens(steps) ==
    /\ main.pc = "starting"
    /\ Step \in steps
    /\ main' \in {Done(Step), Returned("error")}
    /\ UNCHANGED <<starts, metaVars, settings, cancelled, server, inflight, poolVars,
                   workers, events, publisher>>

OpenStores   == Opens({"telemetry", "logger", "postgres"})
NewMQTT      == Opens({"mqtt"})
NewRPCBridge == Opens({"rpc"})

(* The locations and the proximities that arrive by MQTT.                  *)
SubscribeIngest == Opens({"locations", "proximities"})

ResolveMetadata ==
    /\ Starting("metadata")
    /\ CASE meta[Self].pc = "off" ->
              Resolve(Self, Configured.meta) /\ UNCHANGED main
         [] meta[Self].pc \in {"get", "create", "update"} ->
              ResolveStep(Self) /\ UNCHANGED main
         [] OTHER ->
              /\ main' = IF meta[Self].pc = "resolved"
                           THEN Done("metadata") ELSE Returned("error")
              /\ UNCHANGED metaVars
    /\ UNCHANGED <<starts, settings, cancelled, server, inflight, poolVars, workers,
                   events, publisher>>

(* NewAuthenticator asks the issuer, who may not answer.                   *)
NewAuthenticator ==
    /\ Starting("auth")
    /\ main' \in (IF AuthenticatorBuilds(Configured.auth) THEN {Done("auth")} ELSE {})
                 \cup (IF AuthOn THEN {Returned("error")} ELSE {})
    /\ UNCHANGED <<starts, metaVars, settings, cancelled, server, inflight, poolVars,
                   workers, events, publisher>>

LoadRegistry ==
    /\ Starting("registry")
    /\ main' \in IF AuthOn
                   THEN {Done("registry"), Returned("error")}
                   ELSE {Done("registry")}
    /\ UNCHANGED <<starts, metaVars, settings, cancelled, server, inflight, poolVars,
                   workers, events, publisher>>

(* New reads the metadata cache, in a context of its own that no signal    *)
(* cancels; Start spawns the workers.                                      *)
NewService ==
    /\ Starting("service")
    /\ \/ main' = Done("service") /\ workers' = "running"
       \/ main' = Returned("error") /\ UNCHANGED workers
    /\ UNCHANGED <<starts, metaVars, settings, cancelled, server, inflight, poolVars,
                   events, publisher>>

RunEventPublisher ==
    /\ Starting("publisher")
    /\ main' = Done("publisher")
    /\ publisher' = [pc |-> "idle", topics |-> 0]
    /\ UNCHANGED <<starts, metaVars, settings, cancelled, server, inflight, poolVars,
                   workers, events>>

ListenAndServe ==
    /\ Starting("server")
    /\ main' = [main EXCEPT !.pc = "serving"]
    /\ server' = "listening"
    /\ UNCHANGED <<starts, metaVars, settings, cancelled, inflight, poolVars, workers,
                   events, publisher>>

-----------------------------------------------------------------------------
(* What happens around main.                                               *)

Signal ==
    /\ main.pc \notin {"off", "exited"}
    /\ ~cancelled
    /\ cancelled' = TRUE
    /\ UNCHANGED <<starts, metaVars, settings, main, server, inflight, poolVars,
                   workers, events, publisher>>

(* The reconciliation reads the metadata, and has read it or failed to.    *)
ReconcileQueries ==
    /\ workers = "running"
    /\ ~poolClosed
    /\ workers' = "querying"
    /\ UNCHANGED <<starts, metaVars, settings, main, cancelled, server, inflight,
                   poolVars, events, publisher>>

ReconcileEnds ==
    /\ workers = "querying"
    /\ workers' = "running"
    /\ UNCHANGED <<starts, metaVars, settings, main, cancelled, server, inflight,
                   poolVars, events, publisher>>

WorkersStop ==
    /\ cancelled
    /\ workers = "running"
    /\ workers' = "stopped"
    /\ UNCHANGED <<starts, metaVars, settings, main, cancelled, server, inflight,
                   poolVars, events, publisher>>

ServerFails ==
    /\ server = "listening"
    /\ server' = "failed"
    /\ UNCHANGED <<starts, metaVars, settings, main, cancelled, inflight, poolVars,
                   workers, events, publisher>>

Accept(r) ==
    /\ server = "listening"
    /\ r \notin inflight
    /\ inflight' = inflight \cup {r}
    /\ UNCHANGED <<starts, metaVars, settings, main, cancelled, server, poolVars,
                   workers, events, publisher>>

(* A request takes a connection from the pool, or finds it closed.         *)
Query(r) ==
    /\ r \in inflight \ (Sockets \cup querying)
    /\ IF poolClosed
         THEN cut' = cut \cup {r} /\ UNCHANGED querying
         ELSE querying' = querying \cup {r} /\ UNCHANGED cut
    /\ UNCHANGED <<starts, metaVars, settings, main, cancelled, server, inflight,
                   poolClosed, workers, events, publisher>>

QueryEnds(r) ==
    /\ r \in querying
    /\ querying' = querying \ {r}
    /\ UNCHANGED <<starts, metaVars, settings, main, cancelled, server, inflight,
                   poolClosed, cut, workers, events, publisher>>

Respond(r) ==
    /\ r \in inflight \ querying
    /\ inflight' = inflight \ {r}
    /\ UNCHANGED <<starts, metaVars, settings, main, cancelled, server, poolVars,
                   workers, events, publisher>>

(* A worker or a request emits an event; one that has unsubscribed gets    *)
(* nothing.                                                                *)
Emit(kind) ==
    /\ workers \in {"running", "querying"} \/ inflight # {}
    /\ publisher.pc # "off"
    /\ ~events.closed
    /\ events.emitted < MaxEvents
    /\ events' = [events EXCEPT !.queue = Append(@, kind), !.emitted = @ + 1]
    /\ UNCHANGED <<starts, metaVars, settings, main, cancelled, server, inflight,
                   poolVars, workers, publisher>>

(* Handle of the MQTT bridge: how many topics an event may be published    *)
(* on.  A fence event has up to three, one after the other.                *)
Topics(kind) ==
    CASE kind \in {"location", "motion", "collision"} -> {1}
      [] kind = "fence_event"                         -> {1, 2, 3}
      [] OTHER                                        -> {0}

(* One round of the publisher's select: an event is received.              *)
Receive ==
    /\ publisher.pc = "idle"
    /\ events.queue # <<>>
    /\ \E n \in Topics(Head(events.queue)) :
           publisher' = [pc |-> IF n = 0 THEN "idle" ELSE "publishing", topics |-> n]
    /\ events' = [events EXCEPT !.queue = Tail(@)]
    /\ UNCHANGED <<starts, metaVars, settings, main, cancelled, server, inflight,
                   poolVars, workers>>

(* One publication: it fails and the event is given up, or the next topic  *)
(* is next.                                                                *)
Publish ==
    /\ publisher.pc = "publishing"
    /\ publisher' \in
           {[pc |-> "idle", topics |-> 0],
            IF publisher.topics = 1 THEN [pc |-> "idle", topics |-> 0]
                                    ELSE [publisher EXCEPT !.topics = @ - 1]}
    /\ UNCHANGED <<starts, metaVars, settings, main, cancelled, server, inflight,
                   poolVars, workers, events>>

(* Only the context ends the goroutine.                                    *)
PublisherReturnsOnCancel ==
    /\ publisher.pc = "idle"
    /\ cancelled
    /\ publisher' = [publisher EXCEPT !.pc = "done"]
    /\ UNCHANGED <<starts, metaVars, settings, main, cancelled, server, inflight,
                   poolVars, workers, events>>

(* The other rounds: the context is cancelled, or the channel is closed    *)
(* and empty.                                                              *)
PublisherReturns ==
    /\ publisher.pc = "idle"
    /\ cancelled \/ (events.closed /\ events.queue = <<>>)
    /\ publisher' = [publisher EXCEPT !.pc = "done"]
    /\ UNCHANGED <<starts, metaVars, settings, main, cancelled, server, inflight,
                   poolVars, workers, events>>

-----------------------------------------------------------------------------
(* The end of main.                                                        *)

(* The select of runWithRuntime: a failed server, a cancelled context.     *)
Select ==
    /\ main.pc = "serving"
    /\ \/ /\ server = "failed"
          /\ main' = Returned("error")
          /\ UNCHANGED server
       \/ /\ cancelled
          /\ main' = [main EXCEPT !.pc = "shutdown"]
          /\ server' = IF server = "failed" THEN server ELSE "closed"
    /\ UNCHANGED <<starts, metaVars, settings, cancelled, inflight, poolVars, workers,
                   events, publisher>>

(* The server closed without waiting for its requests.                     *)
ShutdownAtOnce ==
    /\ main.pc = "shutdown"
    /\ main' = Returned("ok")
    /\ UNCHANGED <<starts, metaVars, settings, cancelled, server, inflight, poolVars,
                   workers, events, publisher>>

(* srv.Shutdown returns when no request is left that it knows of, or when  *)
(* its time is over.                                                       *)
Shutdown ==
    /\ main.pc = "shutdown"
    /\ main' = Returned(IF inflight \subseteq Sockets THEN "ok" ELSE "error")
    /\ UNCHANGED <<starts, metaVars, settings, cancelled, server, inflight, poolVars,
                   workers, events, publisher>>

Deferred(dependency) ==
    /\ main.pc = "unwinding"
    /\ main.defers # <<>>
    /\ main.defers[Len(main.defers)] = dependency

Popped == [main EXCEPT !.defers = SubSeq(@, 1, Len(@) - 1)]

(* The publisher's cleanup: unsubscribe, then wait for the goroutine.      *)
Unsubscribe ==
    /\ Deferred("publisher")
    /\ ~events.closed
    /\ events' = [events EXCEPT !.closed = TRUE]
    /\ UNCHANGED <<starts, metaVars, settings, main, cancelled, server, inflight,
                   poolVars, workers, publisher>>

(* The goroutine is not waited for.                                        *)
NoAwaitPublisher ==
    /\ Deferred("publisher")
    /\ events.closed
    /\ main' = Popped
    /\ UNCHANGED <<starts, metaVars, settings, cancelled, server, inflight, poolVars,
                   workers, events, publisher>>

AwaitPublisher ==
    /\ Deferred("publisher")
    /\ events.closed
    /\ publisher.pc = "done"
    /\ main' = Popped
    /\ UNCHANGED <<starts, metaVars, settings, cancelled, server, inflight, poolVars,
                   workers, events, publisher>>

(* pool.Close: no connection is given out any more, and those that are out *)
(* have to come back.                                                      *)
ClosePool ==
    /\ Deferred("postgres")
    /\ ~poolClosed
    /\ poolClosed' = TRUE
    /\ UNCHANGED <<starts, metaVars, settings, main, cancelled, server, inflight,
                   querying, cut, workers, events, publisher>>

AwaitPool ==
    /\ Deferred("postgres")
    /\ poolClosed
    /\ querying = {} /\ workers # "querying"
    /\ main' = Popped
    /\ UNCHANGED <<starts, metaVars, settings, cancelled, server, inflight, poolVars,
                   workers, events, publisher>>

Close ==
    /\ \E dependency \in Defers \ {"publisher", "postgres"} : Deferred(dependency)
    /\ main' = Popped
    /\ UNCHANGED <<starts, metaVars, settings, cancelled, server, inflight, poolVars,
                   workers, events, publisher>>

Exit ==
    /\ main.pc = "unwinding"
    /\ main.defers = <<>>
    /\ main' = [main EXCEPT !.pc = "exited", !.step = 1]
    /\ settings' = 1
    /\ poolClosed' = FALSE
    /\ querying' = {}
    /\ workers' = "off"
    /\ inflight' = {}
    /\ server' = "off"
    /\ publisher' = NoPublisher
    /\ Forget(Self)
    /\ UNCHANGED <<starts, cancelled, cut, events>>

Crash ==
    /\ main.pc \notin {"off", "exited"}
    /\ main' = NoMain
    /\ settings' = 1
    /\ NewRun
    /\ Forget(Self)
    /\ UNCHANGED starts

-----------------------------------------------------------------------------
(* The other processes, as far as the database can tell.                   *)

PeerStarts(p, i) ==
    /\ meta[p].pc = "off"
    /\ starts < MaxStarts
    /\ starts' = starts + 1
    /\ Resolve(p, Configurations[i].meta)
    /\ UNCHANGED runVars

PeerResolves(p) == ResolveStep(p) /\ UNCHANGED <<starts, runVars>>

PeerEnds(p) ==
    /\ meta[p].pc \in {"resolved", "failed"}
    /\ Forget(p)
    /\ UNCHANGED <<starts, runVars>>

Peers == Processes \ {Self}

Main ==
    \/ LoadConfig \/ OpenStores \/ ResolveMetadata \/ NewMQTT \/ NewAuthenticator
    \/ LoadRegistry \/ RunEventPublisher \/ NewRPCBridge
    \/ SubscribeIngest \/ ListenAndServe \/ Select \/ Shutdown
    \/ Unsubscribe \/ AwaitPublisher \/ ClosePool \/ AwaitPool \/ Close \/ Exit

Publisher == Receive \/ Publish \/ PublisherReturns

(* A query that no deadline and no signal ends is over.                    *)
DatabaseAnswers == NewService \/ ReconcileEnds \/ \E r \in Requests : QueryEnds(r)

Next ==
    \/ \E i \in DOMAIN Configurations : Start(i)
    \/ Main
    \/ Publisher
    \/ DatabaseAnswers
    \/ Signal \/ ReconcileQueries \/ WorkersStop \/ ServerFails
    \/ \E r \in Requests : Accept(r) \/ Query(r) \/ Respond(r)
    \/ \E kind \in Kinds : Emit(kind)
    \/ Crash
    \/ \E p \in Peers : PeerResolves(p) \/ PeerEnds(p)
    \/ \E p \in Peers, i \in DOMAIN Configurations : PeerStarts(p, i)

Spec == Init /\ [][Next]_vars

(* The two goroutines run and the database answers; nothing else has to    *)
(* happen: requests need not end, nor does a signal arrive.                *)
FairSpec ==
    Spec /\ WF_vars(Main) /\ WF_vars(Publisher) /\ WF_vars(DatabaseAnswers)

-----------------------------------------------------------------------------
(* The publisher never uses an MQTT client that is closed: whichever way   *)
(* runWithRuntime returns, the deferred cleanup has waited for the         *)
(* goroutine before mq.Close runs.                                         *)
PublisherBeforeClose == publisher.pc \in {"idle", "publishing"} => ~Closed("mqtt")

(* When a process exits with success, no HTTP request has found its pool   *)
(* closed (srv.Shutdown comes before the deferred calls;                   *)
(* docs/configuration.md: HTTP shutdown can complete after a stop signal). *)
(* WebSocket connections are none of the server's requests.                *)
GracefulExit == main.pc = "exited" /\ main.result = "ok" => cut = {}

(* Without a stop signal, as when the server fails, the events that were   *)
(* queued for MQTT are handled before the process exits (unsubscribe       *)
(* closes the channel, the goroutine empties it).                          *)
DrainedUnlessCancelled ==
    main.pc = "exited" /\ ~cancelled => events.queue = <<>>

(* What an exit leaves behind: after a signal and a success no request     *)
(* that was turned away, without a signal no event that was not handled.   *)
CleanExit == GracefulExit /\ DrainedUnlessCancelled

(* That events are handled after a stop signal too (docs/configuration.md: *)
(* fan-out can complete deterministically after a stop signal).  It does   *)
(* not hold: the select of runEventPublisher may take the cancelled        *)
(* context before the next event.                                          *)
DrainedOnStop == main.pc = "exited" /\ main.result = "ok" => events.queue = <<>>

(* Whatever has gone wrong or been asked, the process ends: a signal or an *)
(* error is followed by the exit, with requests that never finish, events  *)
(* still queued and MQTT not answering.  Every query of the database must  *)
(* end for that: hub.New and pool.Close wait without a bound.              *)
Exits ==
    cancelled \/ main.pc = "unwinding" \/ server = "failed"
        ~> main.pc \in {"off", "exited"}
=============================================================================
