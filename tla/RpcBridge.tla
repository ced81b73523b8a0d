----------------------------- MODULE RpcBridge -----------------------------
(***************************************************************************)
(* The RPC bridge (internal/rpc/bridge.go) over the MQTT client: the       *)
(* registry of methods and handlers, the calls of PUT /v2/rpc running      *)
(* concurrently, the table of pending calls, the responses that come back  *)
(* from MQTT handlers (late, twice, out of order, malformed or never), and *)
(* the retained announcements of the hub's own methods.                    *)
(*                                                                         *)
(* External: the handlers behind MQTT, which announce methods, withdraw    *)
(* them with an empty payload and answer requests, and the broker, which   *)
(* also sends the hub's own announcements back to it.  A request is a      *)
(* record of what Invoke looks at; a response keeps who sent it, which     *)
(* call it answers and whether it is a JSON-RPC error.                     *)
(***************************************************************************)
EXTENDS MqttClient, FiniteSets, Functions

CONSTANTS
    CallOrder,      \* concurrent invocations of PUT /v2/rpc, as they begin
    Requests,       \* the requests a client may send
    Methods, Local, \* method names, and the built-in ones
    Xcmd,           \* the built-in that needs an adapter
    Adapter,        \* whether an XCMDAdapter is configured
    Handlers, Hub,  \* handler ids, and cfg.HandlerID
    Serves,         \* <<handler, method>> pairs behind MQTT
    Notices,        \* availability messages of the handlers behind MQTT
    CallerIds,      \* caller ids clients supply
    PendingCap,     \* defaultPendingCap
    MaxCopies,      \* bound: deliveries of a handler's response
    Budget          \* bound: calls, notices, lost connections and Close

None == "none"
Calls == Range(CallOrder)

ASSUME RpcAssumption ==
    /\ Local \subseteq Methods /\ Xcmd \in Methods /\ Adapter \in BOOLEAN
    /\ Hub \in Handlers
    /\ Serves \subseteq (Handlers \ {Hub}) \X Methods
    /\ Calls \cap CallerIds = {} /\ None \notin Calls \cup CallerIds \cup Handlers
    /\ \A r \in Requests :
           /\ r.method \in Methods
           /\ r.caller \in CallerIds \cup {None}
           /\ r.handler \in Handlers \cup {None}
    /\ PendingCap \in Nat \ {0} /\ MaxCopies \in Nat /\ Budget \in Nat

VARIABLES
    available,  \* method -> handler -> "local", "external" or None
    pending,    \* caller id -> the call waiting under it, or None
    call,       \* the state of each invocation
    sent,       \* requests published to MQTT, with the responses due
    notices,    \* availability messages on their way to the hub
    announced,  \* history: messages the handlers behind MQTT have published
    stopped     \* stopCh is closed

rpcVars == <<available, pending, call, sent, notices, announced, stopped>>
vars == <<mqttVars, rpcVars>>

Ids == Calls \cup CallerIds
Modes == {"_all_within_timeout", "_return_first_success", "_return_first_error"}
Unused == [method |-> None]

Idle == [pc |-> "idle", req |-> Unused, id |-> None,
         local |-> FALSE, external |-> FALSE, chan |-> <<>>, all |-> <<>>, code |-> None, body |-> <<>>]

(* Invocations are interchangeable: they begin in the order of CallOrder.  *)
Begun == Cardinality({c \in Calls : call[c].pc # "idle"})

(* The disturbances a behaviour has had, an OnConnect still to run         *)
(* included; Budget bounds them together.                                  *)
Spent ==
    losses + Cardinality(announced) + Begun + Cardinality({stopped} \cap {TRUE})
           + Cardinality({onConnect} \cap {"due"})

-----------------------------------------------------------------------------
(* The registry.                                                           *)

(* ensureAvailableLocked for a set of handlers.                            *)
EnsureAvailable(reg, m, hs, source) ==
    [reg EXCEPT ![m] = [h \in Handlers |-> IF h \in hs THEN source ELSE reg[m][h]]]

(* AvailableMethods: the handler ids listed for a method.                  *)
AvailableMethods(m) == {h \in Handlers : available[m][h] # None}

(* The registry asked instead of the built-in table.                       *)
HasLocalListed(m) == available[m][Hub] = "local"

HasLocalMethod(m) == m \in Local

(* The hub's own announcement comes back from the broker and is recorded   *)
(* as external; hasExternalMethod leaves the hub's handler id out.         *)
HasExternalMethod(m) ==
    \E h \in Handlers \ {Hub} : available[m][h] = "external"

HasExternalHandler(m, h) == available[m][h] = "external"

(* handleAvailable: an empty payload drops the whole entry.  Otherwise the *)
(* ids are the id, the handler_id and the listed ones, or the method name  *)
(* when there is none, and method_name overrides the topic when id is set. *)
(* A method name used as a handler id is a member of Handlers.             *)
NoticeMethod(n) == IF n.id # None /\ n.name # None THEN n.name ELSE n.topic

NoticeHandlers(n) ==
    LET given == ({n.id} \cup n.handlers) \ {None}
    IN  IF given = {} THEN {n.topic} ELSE given

(* The hub's own announcement skipped as an echo.                          *)
HandleForeign(n) ==
    /\ n \in notices
    /\ "available" \in carried
    /\ notices' = notices \ {n}
    /\ available' =
           IF n.empty
             THEN [available EXCEPT ![n.topic] = [h \in Handlers |-> None]]
             ELSE EnsureAvailable(available, NoticeMethod(n), NoticeHandlers(n) \ {Hub}, "external")
    /\ UNCHANGED <<mqttVars, pending, call, sent, announced, stopped>>

HandleAvailable(n) ==
    /\ n \in notices
    /\ "available" \in carried
    /\ notices' = notices \ {n}
    /\ available' =
           IF n.empty
             THEN [available EXCEPT ![n.topic] = [h \in Handlers |-> None]]
             ELSE EnsureAvailable(available, NoticeMethod(n), NoticeHandlers(n), "external")
    /\ UNCHANGED <<mqttVars, pending, call, sent, announced, stopped>>

(* What publishAnnouncements publishes for a method, as it comes back.     *)
Announcement(m) ==
    [topic |-> m, empty |-> FALSE, id |-> Hub, name |-> m, handlers |-> {}]

Announcements == {Announcement(m) : m \in Local}

(* publishAnnouncements from the announcement loop: once at the start and  *)
(* then at every tick.  A publication fails while the connection is down,  *)
(* and is only logged.                                                     *)
PublishAnnouncements ==
    /\ Started /\ ~stopped
    /\ link = "up"
    /\ notices' = notices \cup Announcements
    /\ UNCHANGED <<mqttVars, available, pending, call, sent, announced, stopped>>

(* The steps of the MQTT client that run the connect listener, which is    *)
(* publishAnnouncements again, and those that do not.                      *)
Listen ==
    /\ \/ Carry /\ notices' = IF link = "up" /\ "announce" \in carried' \ carried
                               THEN notices \cup Announcements ELSE notices
       \/ OnConnect /\ notices' = IF "announce" \in known
                                   THEN notices \cup Announcements ELSE notices
    /\ UNCHANGED <<available, pending, call, sent, announced, stopped>>

MqttStep ==
    /\ Record \/ Reconnect \/ (Spent < Budget /\ ConnectionLost)
    /\ UNCHANGED rpcVars

Close ==
    /\ Started /\ ~stopped
    /\ Spent < Budget
    /\ stopped' = TRUE
    /\ UNCHANGED <<mqttVars, available, pending, call, sent, notices, announced>>

-----------------------------------------------------------------------------
(* Invoke.                                                                 *)

(* validateRequest: a method and version 2.0, a known aggregation, and no  *)
(* aggregation together with a handler id.                                 *)
ValidateRequest(r) ==
    /\ r.wellFormed
    /\ r.mode \in Modes \cup {None}
    /\ r.mode # None => r.handler = None

(* dispatchTargets: whether the request goes to the built-in, to MQTT, to  *)
(* both or to neither.                                                     *)
DispatchTargets(r) ==
    IF r.handler = None
      THEN [local |-> HasLocalMethod(r.method), external |-> HasExternalMethod(r.method)]
      ELSE IF r.handler = Hub /\ HasLocalMethod(r.method)
             THEN [local |-> TRUE, external |-> FALSE]
             ELSE [local |-> FALSE, external |-> HasExternalHandler(r.method, r.handler)]

(* A default caller id instead of a fresh one.                             *)
CallerIdSupplied(c, r) == IF r.caller = None THEN CHOOSE i \in CallerIds : TRUE ELSE r.caller

(* ensureCallerID: the client's caller id, or a fresh one.  The fresh id   *)
(* of a call is written as the call itself.                                *)
EnsureCallerID(c, r) == IF r.caller = None THEN c ELSE r.caller

NotifyOnly(r) == ~r.hasId /\ r.caller = None

(* The removal skipped on the error returns.                               *)
ReturnLeaving(c, code, body) ==
    /\ call' = [call EXCEPT ![c] =
                   [@ EXCEPT !.pc = "done", !.chan = <<>>, !.all = <<>>,
                             !.code = code, !.body = body]]
    /\ pending' = IF call[c].id = None \/ code = "internal" THEN pending
                  ELSE [pending EXCEPT ![call[c].id] = None]

(* Return from Invoke, with the deferred removal from the pending table.   *)
Return(c, code, body) ==
    /\ call' = [call EXCEPT ![c] =
                   [@ EXCEPT !.pc = "done", !.chan = <<>>, !.all = <<>>,
                             !.code = code, !.body = body]]
    /\ pending' = IF call[c].id = None THEN pending
                  ELSE [pending EXCEPT ![call[c].id] = None]

(* The first part of Invoke: authorizeInvoke, validateRequest and          *)
(* dispatchTargets may each end it; otherwise a notification goes on to    *)
(* its publication and a call registers under its caller id.               *)
Invoke(c, r) ==
    /\ Started
    /\ call[c].pc = "idle"
    /\ c = CallOrder[Begun + 1]
    /\ Spent < Budget
    /\ LET targets == DispatchTargets(r)
           refusal == IF ~r.allowed THEN "forbidden"
                      ELSE IF ~ValidateRequest(r) THEN "invalid"
                      ELSE IF ~targets.local /\ ~targets.external THEN "unknown_handler"
                      ELSE None
           id   == EnsureCallerID(c, r)
           next == IF NotifyOnly(r) THEN "notify"
                   ELSE IF targets.external THEN "publish" ELSE "local"
       IN  IF refusal # None
             THEN /\ call' = [call EXCEPT ![c] =
                                 [@ EXCEPT !.pc = "done", !.req = r, !.code = refusal]]
                  /\ UNCHANGED pending
             ELSE /\ call' = [call EXCEPT ![c] =
                                 [@ EXCEPT !.pc = next, !.req = r, !.local = targets.local,
                                           !.external = targets.external,
                                           !.id = IF NotifyOnly(r) THEN None ELSE id]]
                  /\ pending' = IF NotifyOnly(r) THEN pending
                                ELSE [pending EXCEPT ![id] = c]
    /\ UNCHANGED <<mqttVars, available, sent, notices, announced, stopped>>

(* PublishRaw waits for the broker's acknowledgement: it succeeds only on  *)
(* a live connection, and a failed one may have reached the broker.        *)
Published(c) ==
    [call |-> c, id |-> call[c].id, method |-> call[c].req.method,
     left |-> [h \in Handlers |->
                 IF /\ ~NotifyOnly(call[c].req)
                    /\ <<h, call[c].req.method>> \in Serves
                    /\ call[c].req.handler \in {None, h}
                   THEN MaxCopies ELSE 0]]

Publish(c, ok) ==
    /\ ok => link = "up"
    /\ \/ sent' = sent \cup {Published(c)}
       \/ ~ok /\ sent' = sent

(* A notification: the built-in runs first (its result is dropped), then   *)
(* the request is published when an external handler is wanted.            *)
Notify(c) ==
    /\ call[c].pc = "notify"
    /\ IF call[c].external
         THEN \E ok \in BOOLEAN :
                  /\ Publish(c, ok)
                  /\ Return(c, IF ok THEN "accepted" ELSE "internal", <<>>)
         ELSE Return(c, "accepted", <<>>) /\ UNCHANGED sent
    /\ UNCHANGED <<mqttVars, available, notices, announced, stopped>>

PublishRequest(c) ==
    /\ call[c].pc = "publish"
    /\ \E ok \in BOOLEAN :
           /\ Publish(c, ok)
           /\ IF ok
                THEN /\ call' = [call EXCEPT ![c].pc =
                                    IF call[c].local THEN "local" ELSE "collect"]
                     /\ UNCHANGED pending
                ELSE Return(c, "internal", <<>>)
    /\ UNCHANGED <<mqttVars, available, notices, announced, stopped>>

(* The outcomes of a built-in: core.xcmd without an adapter answers an     *)
(* error, with one whatever the adapter says; ping and identify succeed.   *)
LocalOutcomes(m) ==
    IF m # Xcmd THEN {TRUE} ELSE IF Adapter THEN BOOLEAN ELSE {FALSE}

Response(h, c, ok) == [from |-> h, to |-> c, ok |-> ok]

(* A blocking send, with nobody reading the channel yet.                   *)
InvokeLocalBlocks(c) ==
    /\ call[c].pc = "local"
    /\ Len(call[c].chan) < PendingCap
    /\ \E ok \in LocalOutcomes(call[c].req.method) :
           call' = [call EXCEPT ![c] =
               [@ EXCEPT !.pc = "collect", !.chan = Append(call[c].chan, Response(Hub, c, ok))]]
    /\ UNCHANGED <<mqttVars, available, pending, sent, notices, announced, stopped>>

(* invokeLocal, then the non-blocking send of its response to the call's   *)
(* own channel.                                                            *)
InvokeLocal(c) ==
    /\ call[c].pc = "local"
    /\ IF Len(call[c].chan) < PendingCap
         THEN /\ \E ok \in LocalOutcomes(call[c].req.method) :
                     call' = [call EXCEPT ![c] =
                         [@ EXCEPT !.pc = "collect",
                                   !.chan = Append(call[c].chan, Response(Hub, c, ok))]]
              /\ UNCHANGED pending
         ELSE Return(c, "internal", <<>>)
    /\ UNCHANGED <<mqttVars, available, sent, notices, announced, stopped>>

Mode(c) ==
    IF call[c].req.mode = None THEN "_all_within_timeout" ELSE call[c].req.mode

(* One response taken from the channel in collectResponses: it ends the    *)
(* call when it is the kind the mode waits for.                            *)
Collect(c) ==
    /\ call[c].pc = "collect"
    /\ call[c].chan # <<>>
    /\ LET r == Head(call[c].chan)
       IN  IF \/ r.ok /\ Mode(c) = "_return_first_success"
              \/ ~r.ok /\ Mode(c) = "_return_first_error"
             THEN Return(c, "response", <<r>>)
             ELSE /\ call' = [call EXCEPT ![c] =
                         [@ EXCEPT !.chan = Tail(call[c].chan), !.all = Append(call[c].all, r)]]
                  /\ UNCHANGED pending
    /\ UNCHANGED <<mqttVars, available, sent, notices, announced, stopped>>

(* The first response of a kind, if there is one.                          *)
First(rs, ok) ==
    {rs[i] : i \in {j \in DOMAIN rs : rs[j].ok = ok /\ \A k \in 1..(j - 1) : rs[k].ok # ok}}

(* What collectResponses answers when the time is up, or the client has    *)
(* gone: everything, or the first response of the kind the mode prefers,   *)
(* or the first of the other kind, or an error.                            *)
Timeout(c) ==
    /\ call[c].pc = "collect"
    /\ LET wanted == First(call[c].all, Mode(c) # "_return_first_error")
           other  == First(call[c].all, Mode(c) = "_return_first_error")
       IN  IF Mode(c) = "_all_within_timeout" THEN Return(c, "responses", call[c].all)
           ELSE IF wanted # {} THEN \E r \in wanted : Return(c, "response", <<r>>)
           ELSE IF other # {} THEN \E r \in other : Return(c, "response", <<r>>)
           ELSE Return(c, "timeout", <<>>)
    /\ UNCHANGED <<mqttVars, available, sent, notices, announced, stopped>>

(* handleResponse: a response under a caller id nobody waits on is         *)
(* ignored, one that finds the channel full is dropped, and a malformed    *)
(* one becomes an error response.  It arrives at any time after its        *)
(* request was published, or never, and the broker may deliver it again.   *)
HandleResponse(s, h, form) ==
    /\ "response" \in carried
    /\ s.left[h] > 0
    /\ sent' = (sent \ {s}) \cup {[s EXCEPT !.left = [s.left EXCEPT ![h] = s.left[h] - 1]]}
    /\ LET c == pending[s.id]
       IN  IF c # None /\ Len(call[c].chan) < PendingCap
             THEN call' = [call EXCEPT ![c] =
                      [@ EXCEPT !.chan = Append(call[c].chan, Response(h, s.call, form = "success"))]]
             ELSE UNCHANGED call
    /\ UNCHANGED <<mqttVars, available, pending, notices, announced, stopped>>

-----------------------------------------------------------------------------
(* The handlers behind MQTT.                                               *)

(* One announces or withdraws a method.  The message is retained: one from *)
(* before the hub subscribed arrives when it does.                         *)
Announce(n) ==
    /\ Started
    /\ n \in Notices \ announced
    /\ Spent < Budget
    /\ announced' = announced \cup {n}
    /\ notices' = notices \cup {n}
    /\ UNCHANGED <<mqttVars, available, pending, call, sent, stopped>>

-----------------------------------------------------------------------------
(* NewBridge registers the built-ins before it touches MQTT.               *)
NewBridge ==
    /\ available = [m \in Methods |-> [h \in Handlers |->
                       IF m \in Local /\ h = Hub THEN "local" ELSE None]]
    /\ pending = [i \in Ids |-> None]
    /\ call = [c \in Calls |-> Idle]
    /\ sent = {} /\ notices = {} /\ announced = {}
    /\ stopped = FALSE

Init == NewClient /\ NewBridge

CallStep(c) ==
    Notify(c) \/ PublishRequest(c) \/ InvokeLocal(c) \/ Collect(c) \/ Timeout(c)

Next ==
    \/ Listen \/ MqttStep
    \/ PublishAnnouncements \/ Close
    \/ \E n \in notices : HandleAvailable(n)
    \/ \E c \in Calls : (\E r \in Requests : Invoke(c, r)) \/ CallStep(c)
    \/ \E n \in Notices : Announce(n)
    \/ \E s \in sent, h \in Handlers, form \in {"success", "error", "malformed"} :
           HandleResponse(s, h, form)

Spec == Init /\ [][Next]_vars

(* A call's goroutine runs until it returns; its wait ends at the timeout. *)
(* The announcement loop ticks until Close, the broker delivers what it    *)
(* holds and paho reconnects and calls OnConnect.                          *)
FairSpec ==
    /\ Spec
    /\ \A c \in Calls : WF_vars(CallStep(c))
    /\ WF_vars(PublishAnnouncements)
    /\ WF_vars(\E n \in notices : HandleAvailable(n))
    /\ WF_vars(Listen)
    /\ WF_vars(Reconnect /\ UNCHANGED rpcVars)
    /\ WF_vars(Record /\ UNCHANGED rpcVars)

-----------------------------------------------------------------------------
InFlight == {"publish", "local", "collect"}

(* The pending table holds exactly the calls that can still use an answer: *)
(* an entry never outlives its call, whichever way Invoke returned, and a  *)
(* call under an id of its own keeps its entry for as long as it waits,    *)
(* although every return deletes by caller id.  Two calls under one        *)
(* client-supplied id do take each other's entry away.                     *)
PendingExact ==
    /\ \A i \in Ids : pending[i] # None =>
           call[pending[i]].pc \in InFlight /\ call[pending[i]].id = i
    /\ \A c \in Calls :
           call[c].pc \in InFlight /\ call[c].id = c => pending[c] = c

(* A call without a client-supplied caller id collects and answers only    *)
(* responses to its own request, although handleResponse matches nothing   *)
(* but the caller id and responses arrive late, twice and in any order.    *)
OwnResponses ==
    \A c \in Calls : call[c].req # Unused /\ call[c].req.caller = None =>
        \A r \in Range(call[c].chan) \cup Range(call[c].all) \cup Range(call[c].body) : r.to = c

(* A request for a built-in addressed to the hub's own handler id is       *)
(* served by the hub and never refused or forwarded, whatever has been     *)
(* announced or withdrawn under that method, the hub's own echo included.  *)
BuiltinsStayLocal ==
    \A c \in Calls :
        call[c].req # Unused /\ call[c].req.handler = Hub /\ call[c].req.method \in Local =>
            call[c].code # "unknown_handler" /\ \A s \in sent : s.call # c

(* A request reaches MQTT only when a handler behind it has announced the  *)
(* method, under another id than the hub's when the hub serves the method  *)
(* too: the hub never takes its own retained announcement for an external  *)
(* handler.                                                                *)
NotForwardedToItself ==
    \A s \in sent : \E n \in announced :
        /\ ~n.empty /\ NoticeMethod(n) = s.method
        /\ s.method \in Local => NoticeHandlers(n) # {Hub}

(* A request goes where its handler is, although the registry mixes what   *)
(* the hub serves, what others announced and the hub's own announcements   *)
(* that come back.                                                         *)
RoutedRight == BuiltinsStayLocal /\ NotForwardedToItself

(* Every invocation returns: Invoke sends to a bounded channel it only     *)
(* reads afterwards, and waits for responses that may never come.          *)
Answered == \A c \in Calls : call[c].pc # "idle" ~> call[c].pc = "done"

(* A built-in withdrawn from the registry by an empty payload on its topic *)
(* is listed again: the announcement loop publishes it and the broker      *)
(* sends it back.                                                          *)
Relisted ==
    \A m \in Local :
        Started /\ Hub \notin AvailableMethods(m) ~>
            Hub \in AvailableMethods(m) \/ stopped \/ "available" \in refused
=============================================================================
