-------------------------- MODULE RpcBridgeProofs --------------------------
(***************************************************************************)
(* Proofs about RpcBridge and the MQTT client under it, for every set of   *)
(* registrations, calls, requests, methods, handlers and notices, and      *)
(* every bound.                                                            *)
(***************************************************************************)
EXTENDS RpcBridge, TLAPS

-----------------------------------------------------------------------------
(* The MQTT client.                                                        *)

(* The registrations written down so far, and those start-up is done with. *)
Recorded ==
    {i \in DOMAIN Registrations : i < start[1] \/ (i = start[1] /\ start[2] # "record")}

Finished == {i \in DOMAIN Registrations : i < start[1] \/ (i = start[1] /\ start[2] = "up")}

MqttTypes ==
    /\ start \in (DOMAIN Registrations) \X {"record", "carry", "up", "failed"}
    /\ start[2] = "up" => start[1] = Len(Registrations)

(* Whatever start-up is done with is carried out or refused once OnConnect *)
(* has run, for what it skipped then is what OnConnect found written down. *)
MqttInv ==
    /\ MqttTypes
    /\ \A i \in Recorded : Registrations[i] \in known
    /\ link = "up" /\ onConnect = "ran" =>
           \A i \in Finished : Registrations[i] \in carried \cup refused

-----------------------------------------------------------------------------
(* The calls.                                                              *)

Responses == [from : Handlers, to : Calls, ok : BOOLEAN]

Codes == {None, "forbidden", "invalid", "unknown_handler", "accepted", "internal",
          "response", "responses", "timeout"}

CallStates ==
    [pc : {"idle", "notify", "publish", "local", "collect", "done"},
     req : Requests \cup {Unused}, id : Ids \cup {None}, local : BOOLEAN,
     external : BOOLEAN, chan : Seq(Responses), all : Seq(Responses), code : Codes,
     body : Seq(Responses)]

Received(k) == Range(k.chan) \cup Range(k.all) \cup Range(k.body)

(* What is addressed to a built-in of the hub.                             *)
ForTheHub(r) == r.handler = Hub /\ r.method \in Local

(* A call that has begun: its caller id is its own or the client's, and    *)
(* under its own it has only responses to itself.                          *)
Begins(c, k) ==
    /\ k.req \in Requests
    /\ k.id \in CallerIds \cup {c, None}
    /\ k.req.caller = None => k.id \in {c, None} /\ \A r \in Received(k) : r.to = c
    /\ k.pc \in InFlight => k.id # None
    /\ k.pc = "notify" => k.id = None /\ NotifyOnly(k.req)
    /\ k.pc = "publish" => k.external
    /\ ForTheHub(k.req) => ~k.external /\ k.code # "unknown_handler"

CallOK(c, k) ==
    /\ k \in CallStates
    /\ IF k.pc = "idle" THEN k = Idle ELSE Begins(c, k)

PendingTypes == pending \in [Ids -> Calls \cup {None}]

CallsInv == call \in [Calls -> CallStates] /\ \A c \in Calls : CallOK(c, call[c])

-----------------------------------------------------------------------------
(* The registry and the requests that have been published.                 *)

(* A handler behind MQTT has announced the method.                         *)
Announced(m) ==
    \E n \in announced : /\ ~n.empty /\ NoticeMethod(n) = m
                         /\ m \in Local => NoticeHandlers(n) # {Hub}

RegistryInv ==
    /\ available \in [Methods -> [Handlers -> {"local", "external", None}]]
    /\ notices \subseteq announced \cup Announcements
    /\ \A m \in Methods, h \in Handlers :
           available[m][h] = "external" /\ (h = Hub => m \notin Local) => Announced(m)

Sent(s) ==
    /\ s \in [call : Calls, id : Ids \cup {None}, method : Methods, left : [Handlers -> Nat]]
    /\ s.id = None => \A h \in Handlers : s.left[h] = 0
    /\ s.id \in Calls => s.call = s.id
    /\ Announced(s.method)

(* Requests published belong to calls that have begun, and that are not    *)
(* addressed to a built-in of the hub.                                     *)
SentInv ==
    \A s \in sent :
        Sent(s) /\ call[s.call].pc # "idle" /\ ~ForTheHub(call[s.call].req)

(* A call goes to MQTT only with an announced method.                      *)
TargetsInv ==
    \A c \in Calls :
        call[c].pc \in {"notify", "publish"} /\ call[c].external => Announced(call[c].req.method)

RpcInv == CallsInv /\ PendingTypes /\ PendingExact /\ RegistryInv /\ SentInv /\ TargetsInv

-----------------------------------------------------------------------------
MqttNext == Record \/ Carry \/ OnConnect \/ ConnectionLost \/ Reconnect

\* The registrations are numbered from one, and there is a first.
LEMMA Numbered ==
  /\ Len(Registrations) \in Nat /\ DOMAIN Registrations = 1..Len(Registrations)
  /\ 1 \in DOMAIN Registrations
<1>1. Registrations \in Seq(Items) /\ Registrations # <<>>
  BY RegistrationsAssumption DEF Items
<1> QED
  BY <1>1

\* Nothing has been written down when the client is new.
LEMMA MqttInitially == NewClient => MqttInv
<1> SUFFICES ASSUME NewClient PROVE MqttInv
  OBVIOUS
<1>1. start = <<1, "record">> /\ onConnect = "due"
  BY DEF NewClient
<1>2. MqttTypes
  BY <1>1, Numbered DEF MqttTypes
<1>3. Recorded = {}
  BY <1>1, Numbered DEF Recorded
<1> QED
  BY <1>1, <1>2, <1>3 DEF MqttInv

\* What start-up is done with has been written down.
LEMMA FinishedIsRecorded == MqttTypes => Finished \subseteq Recorded
BY Numbered DEF MqttTypes, Finished, Recorded

\* Carrying a registration out or skipping it writes nothing down.
LEMMA AfterCarry ==
  ASSUME MqttTypes, start[2] = "carry", start' = After(start[1])
  PROVE  /\ MqttTypes'
         /\ Recorded' = Recorded
         /\ Finished' = Finished \cup {start[1]}
<1> DEFINE i == start[1]
<1>1. i \in 1..Len(Registrations) /\ Len(Registrations) \in Nat
      /\ DOMAIN Registrations = 1..Len(Registrations)
  BY Numbered DEF MqttTypes
<1>2. CASE i = Len(Registrations)
  <2>1. start' = <<i, "up">>
    BY <1>2 DEF After
  <2> QED
    BY <1>1, <1>2, <2>1 DEF MqttTypes, Recorded, Finished
<1>3. CASE i # Len(Registrations)
  <2>1. start' = <<i + 1, "record">> /\ i + 1 \in 1..Len(Registrations)
    BY <1>1, <1>3 DEF After
  <2> QED
    BY <1>1, <2>1 DEF MqttTypes, Recorded, Finished
<1> QED
  BY <1>2, <1>3

\* Every step of the client preserves its invariant.
LEMMA MqttPreserved ==
  ASSUME MqttInv, MqttNext \/ UNCHANGED mqttVars
  PROVE  MqttInv'
<1>1. MqttTypes /\ start = <<start[1], start[2]>> /\ start[1] \in DOMAIN Registrations
  BY DEF MqttInv, MqttTypes
<1>2. CASE Record
  <2>1. /\ start' = <<start[1], "carry">> /\ start[2] = "record"
        /\ UNCHANGED <<link, onConnect, carried, refused>>
        /\ known' = known \cup {Registrations[start[1]]}
    BY <1>2 DEF Record
  <2>2. MqttTypes' /\ Recorded' = Recorded \cup {start[1]} /\ Finished' = Finished
    BY <1>1, <2>1, Numbered DEF MqttTypes, Recorded, Finished
  <2> QED
    BY <2>1, <2>2 DEF MqttInv
<1>3. CASE Carry
  <2>1. start[2] = "carry" /\ UNCHANGED <<link, onConnect, known, refused>>
    BY <1>3 DEF Carry
  <2>2. CASE link = "up" /\ start' = After(start[1])
             /\ carried' = carried \cup {Registrations[start[1]]}
    BY <1>1, <2>1, <2>2, AfterCarry DEF MqttInv
  <2>3. CASE link = "down" /\ start' = After(start[1])
    BY <1>1, <2>1, <2>3, AfterCarry DEF MqttInv
  <2>4. CASE start' = <<start[1], "failed">> /\ UNCHANGED carried
    <3>1. MqttTypes' /\ Recorded' = Recorded /\ Finished' = Finished
      BY <1>1, <2>1, <2>4, Numbered DEF MqttTypes, Recorded, Finished
    <3> QED
      BY <2>1, <2>4, <3>1 DEF MqttInv
  <2> QED
    BY <1>3, <2>2, <2>3, <2>4 DEF Carry
<1>4. CASE OnConnect
  <2>1. PICK no \in SUBSET (known \ Listeners) :
          carried' = carried \cup (known \ no) /\ refused' = (refused \ known) \cup no
    BY <1>4 DEF OnConnect
  <2>2. UNCHANGED <<start, known>>
    BY <1>4 DEF OnConnect
  <2>3. MqttTypes' /\ Recorded' = Recorded /\ Finished' = Finished
    BY <1>1, <2>2 DEF MqttTypes, Recorded, Finished
  <2> QED
    BY <1>1, <2>1, <2>2, <2>3, FinishedIsRecorded DEF MqttInv
<1>5. CASE ConnectionLost \/ Reconnect \/ UNCHANGED mqttVars
  <2>1. /\ UNCHANGED <<start, known, carried, refused>>
        /\ link' = "down" \/ onConnect' = "due" \/ UNCHANGED <<link, onConnect>>
    BY <1>5 DEF ConnectionLost, Reconnect, mqttVars
  <2>2. MqttTypes' /\ Recorded' = Recorded /\ Finished' = Finished
    BY <1>1, <2>1 DEF MqttTypes, Recorded, Finished
  <2> QED
    BY <2>1, <2>2 DEF MqttInv
<1> QED
  BY <1>2, <1>3, <1>4, <1>5 DEF MqttNext

\* Steps of the bridge are steps of the client or leave it alone.
LEMMA MqttOfNext == [Next]_vars => MqttNext \/ UNCHANGED mqttVars
<1> SUFFICES ASSUME [Next]_vars PROVE MqttNext \/ UNCHANGED mqttVars
  OBVIOUS
<1>1. CASE Listen \/ MqttStep
  BY <1>1 DEF Listen, MqttStep, MqttNext
<1>2. CASE \/ PublishAnnouncements \/ Close
           \/ \E n \in notices : HandleAvailable(n)
           \/ UNCHANGED vars \/ \E n \in Notices : Announce(n)
  BY <1>2, Zenon DEF PublishAnnouncements, Close, HandleAvailable, Announce, vars
<1>3. ASSUME NEW c \in Calls, (\E r \in Requests : Invoke(c, r)) \/ CallStep(c)
      PROVE  UNCHANGED mqttVars
  BY <1>3, Zenon DEF Invoke, CallStep, Notify, PublishRequest, InvokeLocal, Collect, Timeout
<1>4. CASE \E s \in sent, h \in Handlers, form \in {"success", "error", "malformed"} :
              HandleResponse(s, h, form)
  BY <1>4, Zenon DEF HandleResponse
<1> QED
  BY <1>1, <1>2, <1>3, <1>4, Zenon DEF Next

\* Once start-up is over and OnConnect has run, every subscription and
\* listener has been carried out, or the broker has refused it.
THEOREM RegistrationsAreCarried == Spec => []RegistrationsCarried
<1>1. Init => MqttInv
  BY MqttInitially DEF Init
<1>2. MqttInv /\ [Next]_vars => MqttInv'
  BY MqttPreserved, MqttOfNext
<1>3. MqttInv => RegistrationsCarried
  <2> SUFFICES ASSUME MqttInv, Started, link = "up", onConnect = "ran"
               PROVE  Items \subseteq carried \cup refused
    BY DEF RegistrationsCarried
  <2>1. Finished = DOMAIN Registrations
    BY Numbered DEF MqttInv, MqttTypes, Started, Finished
  <2> QED
    BY <2>1 DEF MqttInv, Items
<1> QED
  BY <1>1, <1>2, <1>3, PTL DEF Spec

-----------------------------------------------------------------------------
\* A response is added to those in a sequence.
LEMMA Appended ==
  ASSUME NEW s \in Seq(Responses), NEW x \in Responses
  PROVE  Append(s, x) \in Seq(Responses) /\ Range(Append(s, x)) = Range(s) \cup {x}
<1>1. /\ DOMAIN s = 1..Len(s) /\ Len(s) \in Nat
      /\ DOMAIN Append(s, x) = 1..(Len(s) + 1)
      /\ \A i \in 1..Len(s) : Append(s, x)[i] = s[i]
      /\ Append(s, x)[Len(s) + 1] = x
  OBVIOUS
<1>2. 1..(Len(s) + 1) = 1..Len(s) \cup {Len(s) + 1}
  BY <1>1
<1>3. Range(Append(s, x)) = Range(s) \cup {x}
  <2> DEFINE t == Append(s, x)
  <2>1. /\ DOMAIN s = 1..Len(s) /\ DOMAIN t = 1..Len(s) \cup {Len(s) + 1}
        /\ \A i \in 1..Len(s) : t[i] = s[i]
        /\ t[Len(s) + 1] = x
    BY <1>1, <1>2
  <2> HIDE DEF t
  <2>2. ASSUME NEW y \in Range(t) PROVE y \in Range(s) \cup {x}
    <3>1. PICK i \in DOMAIN t : y = t[i]
      BY <2>2 DEF Range
    <3> QED
      BY <2>1, <3>1 DEF Range
  <2>3. ASSUME NEW y \in Range(s) \cup {x} PROVE y \in Range(t)
    BY <2>1, <2>3 DEF Range
  <2> QED
    BY <2>2, <2>3 DEF t
<1>4. Append(s, x) \in Seq(Responses)
  OBVIOUS
<1> QED
  BY <1>3, <1>4, Zenon

\* A response is taken from those in a sequence.
LEMMA Taken ==
  ASSUME NEW s \in Seq(Responses), s # <<>>
  PROVE  /\ Tail(s) \in Seq(Responses) /\ Range(Tail(s)) \subseteq Range(s)
         /\ Head(s) \in Range(s) /\ Head(s) \in Responses
<1>1. Len(s) \in Nat /\ 1 \in 1..Len(s) /\ DOMAIN s = 1..Len(s) /\ Head(s) = s[1]
  OBVIOUS
<1>2. Tail(s) \in Seq(Responses) /\ DOMAIN Tail(s) = 1..(Len(s) - 1)
      /\ \A i \in 1..(Len(s) - 1) : Tail(s)[i] = s[i + 1] /\ i + 1 \in 1..Len(s)
  OBVIOUS
<1>3. Head(s) \in Range(s) /\ Head(s) \in Responses
  BY <1>1 DEF Range
<1>4. Range(Tail(s)) \subseteq Range(s)
  BY <1>1, <1>2 DEF Range
<1> QED
  BY <1>2, <1>3, <1>4, Zenon

\* Invocations, their ids and None are different things.
LEMMA IdFacts ==
  /\ None \notin Calls /\ None \notin CallerIds /\ None \notin Ids /\ Hub # None
  /\ Calls \cap CallerIds = {} /\ Ids = Calls \cup CallerIds /\ Hub \in Handlers
  /\ \A r \in Requests : /\ r.method \in Methods /\ r.caller \in CallerIds \cup {None}
                         /\ r.handler \in Handlers \cup {None}
BY RpcAssumption DEF Ids

\* The fields of a call.
LEMMA CallFields ==
  ASSUME CallsInv, NEW c \in Calls
  PROVE  /\ call[c] \in CallStates
         /\ CallOK(c, call[c])
         /\ call[c].chan \in Seq(Responses) /\ call[c].all \in Seq(Responses)
         /\ call[c].body \in Seq(Responses) /\ call[c].external \in BOOLEAN
         /\ call[c].local \in BOOLEAN
         /\ call[c].pc \in {"idle", "notify", "publish", "local", "collect", "done"}
         /\ call[c].pc # "idle" => Begins(c, call[c])
<1>1. call[c] \in CallStates /\ CallOK(c, call[c])
  BY DEF CallsInv
<1> QED
  BY <1>1 DEF CallStates, CallOK

(* Nothing happens to what a call asked for.                               *)
Steady ==
    \A c \in Calls : call[c].pc # "idle" => call'[c].pc # "idle" /\ call'[c].req = call[c].req

\* One call has a new state, the others are as they were.
LEMMA OneCall ==
  ASSUME CallsInv, NEW c \in Calls, NEW k, CallOK(c, k), call' = [call EXCEPT ![c] = k]
  PROVE  CallsInv' /\ call'[c] = k /\ \A d \in Calls \ {c} : call'[d] = call[d]
<1>1. k \in CallStates /\ call \in [Calls -> CallStates]
  BY DEF CallOK, CallsInv
<1>2. call' \in [Calls -> CallStates]
  BY <1>1
<1>3. call'[c] = k /\ \A d \in Calls \ {c} : call'[d] = call[d]
  BY <1>1
<1> QED
  BY <1>2, <1>3 DEF CallsInv

\* What has been announced stays announced.
LEMMA StaysAnnounced ==
  ASSUME announced \subseteq announced', NEW m, Announced(m)
  PROVE  Announced(m)'
BY DEF Announced

\* Requests published stay what they are, and new ones are of a call that has
\* an announced method and is not for the hub.
LEMMA SentKept ==
  ASSUME SentInv, Steady, announced \subseteq announced',
         \A s \in sent' : \/ s \in sent
                          \/ Sent(s) /\ call[s.call].pc # "idle" /\ ~ForTheHub(call[s.call].req)
  PROVE  SentInv'
<1> SUFFICES ASSUME NEW s \in sent'
             PROVE  Sent(s)' /\ call'[s.call].pc # "idle" /\ ~ForTheHub(call'[s.call].req)
  BY DEF SentInv
<1>1. Sent(s) /\ call[s.call].pc # "idle" /\ ~ForTheHub(call[s.call].req)
  BY DEF SentInv
<1>2. s.call \in Calls /\ Announced(s.method)'
  BY <1>1, StaysAnnounced DEF Sent
<1>3. Sent(s)'
  BY <1>1, <1>2 DEF Sent
<1> QED
  BY <1>1, <1>2, <1>3 DEF Steady

\* Calls on their way to MQTT stay allowed there.
LEMMA TargetsKept ==
  ASSUME TargetsInv, announced \subseteq announced',
         \A c \in Calls :
            call'[c].pc \in {"notify", "publish"} /\ call'[c].external =>
              \/ call'[c] = call[c]
              \/ \E m : m = call'[c].req.method /\ Announced(m)
  PROVE  TargetsInv'
<1> SUFFICES ASSUME NEW c \in Calls, call'[c].pc \in {"notify", "publish"}, call'[c].external
             PROVE  Announced(call[c].req.method)'
  BY DEF TargetsInv
<1>1. PICK m : m = call'[c].req.method
  OBVIOUS
<1>2. Announced(m)
  BY <1>1 DEF TargetsInv
<1> QED
  BY <1>1, <1>2 DEF Announced

\* The pending table is right while no call enters or leaves it.
LEMMA PendingKept ==
  ASSUME PendingTypes, PendingExact, UNCHANGED pending,
         \A d \in Calls : /\ call[d].pc \in InFlight <=> call'[d].pc \in InFlight
                          /\ call'[d].id = call[d].id
  PROVE  PendingTypes' /\ PendingExact'
<1>1. PendingTypes'
  BY DEF PendingTypes
<1>2. \A i \in Ids : pending[i] # None => pending[i] \in Calls
  BY DEF PendingTypes
<1>3. PendingExact'
  BY <1>2, Zenon DEF PendingExact
<1> QED
  BY <1>1, <1>3

(* The state of a call that returns.                                       *)
Finish(c, code, body) ==
    [call[c] EXCEPT !.pc = "done", !.chan = <<>>, !.all = <<>>, !.code = code, !.body = body]

\* A call returns with what it has received.
LEMMA ReturnCall ==
  ASSUME CallsInv, NEW c \in Calls, call[c].pc # "idle",
         NEW code \in Codes \ {"unknown_handler"}, NEW body \in Seq(Responses),
         Range(body) \subseteq Received(call[c]), Return(c, code, body)
  PROVE  /\ CallsInv' /\ Steady
         /\ call'[c].pc = "done" /\ call'[c].id = call[c].id
         /\ \A d \in Calls \ {c} : call'[d] = call[d]
<1> DEFINE k == Finish(c, code, body)
<1>1. call[c] \in CallStates /\ Begins(c, call[c])
  BY CallFields
<1>2. call' = [call EXCEPT ![c] = k]
  BY DEF Return, Finish
<1>3. /\ k.pc = "done" /\ k.req = call[c].req /\ k.id = call[c].id /\ k.code = code
      /\ k.external = call[c].external /\ k.chan = <<>> /\ k.all = <<>> /\ k.body = body
  BY <1>1 DEF CallStates, Finish
<1>4. k \in CallStates
  <2>1. <<>> \in Seq(Responses) /\ code \in Codes /\ "done" \in {"idle", "notify", "publish", "local", "collect", "done"}
    OBVIOUS
  <2> QED
    BY <1>1, <2>1, Zenon DEF CallStates, Finish
<1>5. Received(k) \subseteq Received(call[c])
  <2> HIDE DEF k
  <2>1. Received(k) = Range(<<>>) \cup Range(<<>>) \cup Range(body)
    BY <1>3 DEF Received
  <2>2. Range(<<>>) = {}
    BY DEF Range
  <2> QED
    BY <2>1, <2>2
<1>6. CallOK(c, k)
  <2> HIDE DEF k
  <2>1. Begins(c, k)
    BY <1>1, <1>3, <1>5 DEF Begins, InFlight
  <2> QED
    BY <1>3, <1>4, <2>1 DEF CallOK
<1> HIDE DEF k
<1>7. CallsInv' /\ call'[c] = k /\ \A d \in Calls \ {c} : call'[d] = call[d]
  BY <1>2, <1>6, OneCall, Zenon
<1> QED
  BY <1>3, <1>7 DEF Steady

\* Its entry in the pending table goes with it, and no entry of a call under
\* its own id does.
LEMMA ReturnPending ==
  ASSUME CallsInv, PendingTypes, PendingExact, NEW c \in Calls, call[c].pc # "idle",
         NEW code, NEW body, Return(c, code, body),
         call'[c].pc = "done", call'[c].id = call[c].id,
         \A d \in Calls \ {c} : call'[d] = call[d]
  PROVE  PendingTypes' /\ PendingExact'
<1>1. Begins(c, call[c])
  BY CallFields
<1>2. CASE call[c].id = None
  <2>1. UNCHANGED pending
    BY <1>2 DEF Return
  <2>2. call[c].pc \notin InFlight /\ call'[c].pc \notin InFlight
    BY <1>1, <1>2 DEF Begins, InFlight
  <2> QED
    BY <2>1, <2>2, PendingKept
<1>3. CASE call[c].id # None
  <2>1. pending' = [pending EXCEPT ![call[c].id] = None]
    BY <1>3 DEF Return
  <2>2. \A i \in Ids : pending'[i] = IF i = call[c].id THEN None ELSE pending[i]
    BY <2>1 DEF PendingTypes
  <2>3. PendingTypes'
    BY <2>1, <2>2, Zenon DEF PendingTypes
  <2>4. ASSUME NEW i \in Ids, pending'[i] # None
        PROVE  call'[pending'[i]].pc \in InFlight /\ call'[pending'[i]].id = i
    <3>1. pending'[i] = pending[i] /\ i # call[c].id /\ pending[i] \in Calls
      BY <2>2, <2>4 DEF PendingTypes
    <3>2. call[pending[i]].pc \in InFlight /\ call[pending[i]].id = i
      BY <2>4, <3>1 DEF PendingExact
    <3> QED
      BY <3>1, <3>2
  <2>5. ASSUME NEW d \in Calls, call'[d].pc \in InFlight, call'[d].id = d
        PROVE  pending'[d] = d
    <3>1. d # c
      BY <2>5 DEF InFlight
    <3>2. pending[d] = d
      BY <2>5, <3>1 DEF PendingExact
    <3>3. call[c].id # d /\ d \in Ids
      BY <1>1, <3>1, IdFacts DEF Begins
    <3> QED
      BY <2>2, <3>2, <3>3
  <2> QED
    BY <2>3, <2>4, <2>5 DEF PendingExact
<1> QED
  BY <1>2, <1>3

(* What a step of a call may do to the requests published: none, or its    *)
(* own when it has an external handler.                                    *)
Publishes(c) ==
    sent' = sent \/ (call[c].pc \in {"notify", "publish"} /\ call[c].external
                       /\ sent' = sent \cup {Published(c)})

\* The request a call publishes.
LEMMA PublishedOK ==
  ASSUME RpcInv, NEW c \in Calls, call[c].pc \in {"notify", "publish"}, call[c].external
  PROVE  Sent(Published(c)) /\ Published(c).call = c /\ ~ForTheHub(call[c].req)
<1>1. Begins(c, call[c]) /\ call[c].req \in Requests /\ call[c].id \in Ids \cup {None}
  BY CallFields DEF RpcInv, CallStates, Begins
<1>2. Announced(call[c].req.method) /\ call[c].req.method \in Methods
  BY <1>1, IdFacts DEF RpcInv, TargetsInv
<1> DEFINE s == Published(c)
<1>3. /\ s.call = c /\ s.id = call[c].id /\ s.method = call[c].req.method
      /\ s.left = [h \in Handlers |->
                     IF /\ ~NotifyOnly(call[c].req)
                        /\ <<h, call[c].req.method>> \in Serves
                        /\ call[c].req.handler \in {None, h}
                       THEN MaxCopies ELSE 0]
      /\ s = [call |-> s.call, id |-> s.id, method |-> s.method, left |-> s.left]
  BY DEF Published
<1>4. s.left \in [Handlers -> Nat]
  BY <1>3, RpcAssumption
<1> HIDE DEF s
<1>5. s \in [call : Calls, id : Ids \cup {None}, method : Methods, left : [Handlers -> Nat]]
  BY <1>1, <1>2, <1>3, <1>4, Zenon
<1>6. s.id = None => \A h \in Handlers : s.left[h] = 0
  <2>1. call[c].id = None => NotifyOnly(call[c].req)
    BY <1>1 DEF Begins, InFlight
  <2> QED
    BY <1>3, <2>1
<1>7. s.id \in Calls => s.call = s.id
  BY <1>1, <1>3, IdFacts DEF Begins
<1>8. ~ForTheHub(call[c].req)
  BY <1>1 DEF Begins
<1>9. Sent(s)
  BY <1>2, <1>3, <1>5, <1>6, <1>7, Zenon DEF Sent
<1> QED
  BY <1>3, <1>8, <1>9 DEF s

\* The registry is right while nothing happens to it.
LEMMA RegistryKept ==
  ASSUME RegistryInv, UNCHANGED <<available, notices, announced>>
  PROVE  RegistryInv'
BY Zenon DEF RegistryInv, Announced

\* Publishing its own request is all a call does to the requests published.
LEMMA SentByCall ==
  ASSUME RpcInv, NEW c \in Calls, Publishes(c), Steady, UNCHANGED announced
  PROVE  SentInv'
<1>1. \A s \in sent' : \/ s \in sent
                       \/ Sent(s) /\ call[s.call].pc # "idle" /\ ~ForTheHub(call[s.call].req)
  <2>1. CASE sent' = sent
    BY <2>1
  <2>2. CASE call[c].pc \in {"notify", "publish"} /\ call[c].external
             /\ sent' = sent \cup {Published(c)}
    <3>1. Sent(Published(c)) /\ Published(c).call = c /\ ~ForTheHub(call[c].req)
      BY <2>2, PublishedOK
    <3> QED
      BY <2>2, <3>1
  <2> QED
    BY <2>1, <2>2 DEF Publishes
<1> QED
  BY <1>1, SentKept DEF RpcInv

\* A call that returns, with or without its request published.
LEMMA Returning ==
  ASSUME RpcInv, NEW c \in Calls, call[c].pc # "idle",
         NEW code \in Codes \ {"unknown_handler"}, NEW body \in Seq(Responses),
         Range(body) \subseteq Received(call[c]), Return(c, code, body),
         Publishes(c), UNCHANGED <<available, notices, announced>>
  PROVE  RpcInv'
<1>1. CallsInv /\ PendingTypes /\ PendingExact /\ RegistryInv /\ TargetsInv
  BY DEF RpcInv
<1>2. /\ CallsInv' /\ Steady /\ call'[c].pc = "done" /\ call'[c].id = call[c].id
      /\ \A d \in Calls \ {c} : call'[d] = call[d]
  BY <1>1, ReturnCall
<1>3. PendingTypes' /\ PendingExact'
  BY <1>1, <1>2, ReturnPending
<1>4. SentInv'
  BY <1>2, SentByCall
<1>5. TargetsInv'
  <2>1. \A d \in Calls : call'[d].pc \in {"notify", "publish"} => call'[d] = call[d]
    BY <1>2
  <2> QED
    BY <1>1, <2>1, TargetsKept
<1> QED
  BY <1>1, <1>2, <1>3, <1>4, <1>5, RegistryKept DEF RpcInv

\* A call that is waiting and gets or takes responses is still in order when
\* they are its own.
LEMMA StillOK ==
  ASSUME CallsInv, NEW c \in Calls, call[c].pc \in InFlight, NEW k \in CallStates,
         k.req = call[c].req, k.id = call[c].id, k.external = call[c].external,
         k.code = call[c].code, k.pc \in InFlight,
         k.pc = "publish" => call[c].pc = "publish",
         \A r \in Received(k) : r \in Received(call[c]) \/ (k.req.caller = None => r.to = c)
  PROVE  CallOK(c, k)
<1>1. Begins(c, call[c])
  BY CallFields DEF InFlight
<1>2. Begins(c, k)
  BY <1>1 DEF Begins, InFlight
<1> QED
  BY <1>2 DEF CallOK, InFlight

\* A call that goes on waiting.
LEMMA Going ==
  ASSUME RpcInv, NEW c \in Calls, call[c].pc \in InFlight, NEW k, CallOK(c, k),
         k.pc \in InFlight, k.req = call[c].req, k.id = call[c].id,
         k.pc = "publish" => call[c].pc = "publish" /\ k.external = call[c].external,
         call' = [call EXCEPT ![c] = k], UNCHANGED pending,
         UNCHANGED <<available, notices, announced>>
  PROVE  CallsInv' /\ PendingTypes' /\ PendingExact' /\ RegistryInv' /\ TargetsInv' /\ Steady
<1>1. CallsInv /\ PendingTypes /\ PendingExact /\ RegistryInv /\ TargetsInv
  BY DEF RpcInv
<1>2. CallsInv' /\ call'[c] = k /\ \A d \in Calls \ {c} : call'[d] = call[d]
  BY <1>1, OneCall, Zenon
<1>3. Steady
  BY <1>2 DEF Steady, InFlight
<1>4. PendingTypes' /\ PendingExact'
  BY <1>1, <1>2, PendingKept
<1>5. TargetsInv'
  <2>1. ASSUME NEW d \in Calls, call'[d].pc \in {"notify", "publish"}, call'[d].external
        PROVE  call'[d] = call[d] \/ \E m : m = call'[d].req.method /\ Announced(m)
    BY <1>1, <1>2, <2>1 DEF TargetsInv, InFlight
  <2> QED
    BY <1>1, <2>1, TargetsKept
<1> QED
  BY <1>1, <1>2, <1>3, <1>4, <1>5, RegistryKept

-----------------------------------------------------------------------------
\* Sequences a call may answer with.
LEMMA Answers ==
  ASSUME CallsInv, NEW c \in Calls
  PROVE  /\ <<>> \in Seq(Responses) /\ Range(<<>>) \subseteq Received(call[c])
         /\ call[c].all \in Seq(Responses) /\ Range(call[c].all) \subseteq Received(call[c])
         /\ \A r \in Received(call[c]) :
              <<r>> \in Seq(Responses) /\ Range(<<r>>) \subseteq Received(call[c])
<1>1. /\ call[c].chan \in Seq(Responses) /\ call[c].all \in Seq(Responses)
      /\ call[c].body \in Seq(Responses)
  BY CallFields
<1>2. \A s \in Seq(Responses) : Range(s) \subseteq Responses
  BY DEF Range
<1>3. Received(call[c]) \subseteq Responses
  BY <1>1, <1>2 DEF Received
<1>4. Range(<<>>) = {} /\ \A r : Range(<<r>>) = {r}
  BY DEF Range
<1> QED
  BY <1>1, <1>3, <1>4 DEF Received

\* The built-in answers into the call's own channel.
LEMMA InvokeLocalStep ==
  ASSUME RpcInv, NEW c \in Calls, InvokeLocal(c)
  PROVE  RpcInv'
<1>1. /\ CallsInv /\ call[c].pc = "local" /\ UNCHANGED <<available, sent, notices, announced>>
  BY Zenon DEF InvokeLocal, RpcInv
<1>2. call[c] \in CallStates /\ call[c].chan \in Seq(Responses)
  BY <1>1, CallFields
<1>3. CASE Len(call[c].chan) < PendingCap
  <2>1. PICK ok \in LocalOutcomes(call[c].req.method) :
          call' = [call EXCEPT ![c] =
                     [@ EXCEPT !.pc = "collect",
                               !.chan = Append(call[c].chan, Response(Hub, c, ok))]]
    BY <1>3, Zenon DEF InvokeLocal
  <2>2. UNCHANGED pending
    BY <1>3, Zenon DEF InvokeLocal
  <2> DEFINE r == Response(Hub, c, ok)
  <2> DEFINE k == [call[c] EXCEPT !.pc = "collect", !.chan = Append(call[c].chan, r)]
  <2>3. r \in Responses /\ r.to = c
    BY IdFacts, Zenon DEF LocalOutcomes, Response, Responses
  <2> HIDE DEF r
  <2>4. Append(call[c].chan, r) \in Seq(Responses)
        /\ Range(Append(call[c].chan, r)) = Range(call[c].chan) \cup {r}
    BY <1>2, <2>3, Appended, Zenon
  <2>5. /\ k.pc = "collect" /\ k.req = call[c].req /\ k.id = call[c].id
        /\ k.external = call[c].external /\ k.code = call[c].code
        /\ k.chan = Append(call[c].chan, r) /\ k.all = call[c].all /\ k.body = call[c].body
    BY <1>2 DEF CallStates
  <2>6. k \in CallStates
    BY <1>2, <2>4, Zenon DEF CallStates
  <2>7. call' = [call EXCEPT ![c] = k]
    BY <2>1 DEF r
  <2> HIDE DEF k
  <2>8. \A x \in Received(k) : x \in Received(call[c]) \/ x.to = c
    BY <2>3, <2>4, <2>5 DEF Received
  <2>9. CallOK(c, k)
    BY <1>1, <2>5, <2>6, <2>8, StillOK DEF InFlight
  <2>10. CallsInv' /\ PendingTypes' /\ PendingExact' /\ RegistryInv' /\ TargetsInv' /\ Steady
    BY <1>1, <2>2, <2>5, <2>7, <2>9, Going, Zenon DEF InFlight
  <2> QED
    BY <1>1, <2>10, SentByCall DEF Publishes, RpcInv
<1>4. CASE ~(Len(call[c].chan) < PendingCap)
  <2>1. Return(c, "internal", <<>>)
    BY <1>4 DEF InvokeLocal
  <2> QED
    BY <1>1, <2>1, Answers, Returning, Zenon DEF Codes, Publishes
<1> QED
  BY <1>3, <1>4

\* A response is taken from the channel.
LEMMA CollectStep ==
  ASSUME RpcInv, NEW c \in Calls, Collect(c)
  PROVE  RpcInv'
<1> DEFINE r == Head(call[c].chan)
<1>1. /\ CallsInv /\ call[c].pc = "collect" /\ call[c].chan # <<>>
      /\ UNCHANGED <<available, sent, notices, announced>>
  BY DEF Collect, RpcInv
<1>2. /\ call[c] \in CallStates /\ call[c].chan \in Seq(Responses)
      /\ call[c].all \in Seq(Responses)
  BY <1>1, CallFields
<1>3. /\ Tail(call[c].chan) \in Seq(Responses) /\ Range(Tail(call[c].chan)) \subseteq Range(call[c].chan)
      /\ r \in Range(call[c].chan) /\ r \in Responses
  BY <1>1, <1>2, Taken, Zenon
<1>4. CASE Return(c, "response", <<r>>)
  <2>1. r \in Received(call[c])
    BY <1>3 DEF Received
  <2> QED
    BY <1>1, <1>4, <2>1, Answers, Returning, Zenon DEF Codes, Publishes
<1>5. CASE /\ call' = [call EXCEPT ![c] =
                  [@ EXCEPT !.chan = Tail(call[c].chan), !.all = Append(call[c].all, r)]]
           /\ UNCHANGED pending
  <2> DEFINE k == [call[c] EXCEPT !.chan = Tail(call[c].chan), !.all = Append(call[c].all, r)]
  <2>1. Append(call[c].all, r) \in Seq(Responses)
        /\ Range(Append(call[c].all, r)) = Range(call[c].all) \cup {r}
    BY <1>2, <1>3, Appended, Zenon
  <2>2. /\ k.pc = "collect" /\ k.req = call[c].req /\ k.id = call[c].id
        /\ k.external = call[c].external /\ k.code = call[c].code
        /\ k.chan = Tail(call[c].chan) /\ k.all = Append(call[c].all, r)
        /\ k.body = call[c].body
    BY <1>1, <1>2 DEF CallStates
  <2>3. k \in CallStates
    BY <1>2, <1>3, <2>1, Zenon DEF CallStates
  <2>4. call' = [call EXCEPT ![c] = k]
    BY <1>5
  <2> HIDE DEF k
  <2>5. \A x \in Received(k) : x \in Received(call[c])
    BY <1>3, <2>1, <2>2 DEF Received
  <2>6. CallOK(c, k)
    BY <1>1, <2>2, <2>3, <2>5, StillOK DEF InFlight
  <2>7. CallsInv' /\ PendingTypes' /\ PendingExact' /\ RegistryInv' /\ TargetsInv' /\ Steady
    BY <1>1, <1>5, <2>2, <2>4, <2>6, Going, Zenon DEF InFlight
  <2> QED
    BY <1>1, <2>7, SentByCall DEF Publishes, RpcInv
<1> QED
  BY <1>4, <1>5 DEF Collect

\* The time is up, or the client has gone.
LEMMA TimeoutStep ==
  ASSUME RpcInv, NEW c \in Calls, Timeout(c)
  PROVE  RpcInv'
<1>1. /\ CallsInv /\ call[c].pc = "collect" /\ UNCHANGED <<available, sent, notices, announced>>
  BY DEF Timeout, RpcInv
<1>2. \A ok : First(call[c].all, ok) \subseteq Received(call[c])
  BY DEF First, Received, Range
<1>3. \/ Return(c, "responses", call[c].all) \/ Return(c, "timeout", <<>>)
      \/ \E r \in Received(call[c]) : Return(c, "response", <<r>>)
  BY <1>2, Zenon DEF Timeout
<1> QED
  BY <1>1, <1>3, Answers, Returning, Zenon DEF Codes, Publishes

\* A notification runs, is published and returns.
LEMMA NotifyStep ==
  ASSUME RpcInv, NEW c \in Calls, Notify(c)
  PROVE  RpcInv'
<1>1. CallsInv /\ call[c].pc = "notify" /\ UNCHANGED <<available, notices, announced>>
  BY DEF Notify, RpcInv
<1>2. Publishes(c) /\ (Return(c, "accepted", <<>>) \/ Return(c, "internal", <<>>))
  <2>1. CASE call[c].external
    <3>1. PICK ok \in BOOLEAN :
            Publish(c, ok) /\ Return(c, IF ok THEN "accepted" ELSE "internal", <<>>)
      BY <2>1 DEF Notify
    <3>2. Publishes(c)
      BY <1>1, <2>1, <3>1 DEF Publish, Publishes
    <3> QED
      BY <3>1, <3>2
  <2>2. CASE ~call[c].external
    BY <2>2 DEF Notify, Publishes
  <2> QED
    BY <2>1, <2>2
<1> QED
  BY <1>1, <1>2, Answers, Returning, Zenon DEF Codes

\* A request is published, or that fails.
LEMMA PublishStep ==
  ASSUME RpcInv, NEW c \in Calls, PublishRequest(c)
  PROVE  RpcInv'
<1>1. CallsInv /\ call[c].pc = "publish" /\ UNCHANGED <<available, notices, announced>>
  BY DEF PublishRequest, RpcInv
<1>2. call[c] \in CallStates /\ call[c].external
  BY <1>1, CallFields DEF Begins
<1>3. Publishes(c)
  BY <1>1, <1>2 DEF PublishRequest, Publish, Publishes
<1>4. CASE Return(c, "internal", <<>>)
  BY <1>1, <1>3, <1>4, Answers, Returning, Zenon DEF Codes
<1>5. ASSUME NEW p \in {"local", "collect"}, call' = [call EXCEPT ![c].pc = p], UNCHANGED pending
      PROVE  RpcInv'
  <2> DEFINE k == [call[c] EXCEPT !.pc = p]
  <2>1. call' = [call EXCEPT ![c] = k]
    BY <1>1, <1>5 DEF CallsInv
  <2>2. /\ k.pc = p /\ k.req = call[c].req /\ k.id = call[c].id
        /\ k.external = call[c].external /\ k.code = call[c].code /\ Received(k) = Received(call[c])
    BY <1>2, Zenon DEF CallStates, Received
  <2>3. k \in CallStates
    BY <1>2 DEF CallStates
  <2> HIDE DEF k
  <2>4. CallOK(c, k)
    BY <1>1, <2>2, <2>3, StillOK DEF InFlight
  <2>5. CallsInv' /\ PendingTypes' /\ PendingExact' /\ RegistryInv' /\ TargetsInv' /\ Steady
    BY <1>1, <1>5, <2>1, <2>2, <2>4, Going, Zenon DEF InFlight
  <2> QED
    BY <1>1, <1>3, <2>5, SentByCall DEF RpcInv
<1> QED
  BY <1>4, <1>5 DEF PublishRequest

\* Steps that leave the calls alone.
LEMMA CallsStutter ==
  ASSUME RpcInv, UNCHANGED <<call, pending>>, announced \subseteq announced'
  PROVE  CallsInv' /\ PendingTypes' /\ PendingExact' /\ TargetsInv' /\ Steady
<1>1. CallsInv' /\ PendingTypes' /\ PendingExact' /\ Steady
  BY Zenon DEF RpcInv, CallsInv, PendingTypes, PendingExact, Steady
<1>2. TargetsInv'
  BY TargetsKept DEF RpcInv
<1> QED
  BY <1>1, <1>2

\* One response of a request fewer to come.
LEMMA OneLess ==
  ASSUME RpcInv, NEW s \in sent, NEW h \in Handlers, s.left[h] > 0, Steady, UNCHANGED announced,
         sent' = (sent \ {s}) \cup {[s EXCEPT !.left = [s.left EXCEPT ![h] = s.left[h] - 1]]}
  PROVE  SentInv' /\ s.id \in Ids /\ (s.id \in Calls => s.call = s.id) /\ s.call \in Calls
<1> DEFINE left == [s.left EXCEPT ![h] = s.left[h] - 1]
<1> DEFINE t == [s EXCEPT !.left = left]
<1>1. Sent(s) /\ call[s.call].pc # "idle" /\ ~ForTheHub(call[s.call].req)
  BY DEF RpcInv, SentInv
<1>2. s \in [call : Calls, id : Ids \cup {None}, method : Methods, left : [Handlers -> Nat]]
      /\ (s.id \in Calls => s.call = s.id) /\ Announced(s.method)
  BY <1>1 DEF Sent
<1>3. s.left \in [Handlers -> Nat] /\ s.left[h] - 1 \in Nat /\ s.id # None
  BY <1>1, <1>2 DEF Sent
<1>4. left \in [Handlers -> Nat]
  BY <1>3
<1> HIDE DEF left
<1>5. t.call = s.call /\ t.id = s.id /\ t.method = s.method
      /\ t \in [call : Calls, id : Ids \cup {None}, method : Methods, left : [Handlers -> Nat]]
  BY <1>2, <1>4
<1>6. sent' = (sent \ {s}) \cup {t}
  BY DEF left
<1> HIDE DEF t
<1>7. Sent(t) /\ call[t.call].pc # "idle" /\ ~ForTheHub(call[t.call].req)
  BY <1>1, <1>2, <1>3, <1>5, Zenon DEF Sent
<1>8. SentInv'
  BY <1>6, <1>7, SentKept DEF RpcInv
<1> QED
  BY <1>2, <1>3, <1>8

\* A response arrives: the call it is given to waits under its caller id, and
\* the id of a call is nobody else's.
LEMMA HandleResponseStep ==
  ASSUME RpcInv, NEW s \in sent, NEW h \in Handlers, NEW form \in {"success", "error", "malformed"},
         HandleResponse(s, h, form)
  PROVE  RpcInv'
<1> DEFINE c == pending[s.id]
<1>1. /\ s.left[h] > 0 /\ UNCHANGED <<available, pending, notices, announced>>
      /\ sent' = (sent \ {s}) \cup {[s EXCEPT !.left = [s.left EXCEPT ![h] = s.left[h] - 1]]}
  BY DEF HandleResponse
<1>2. CASE UNCHANGED call
  <2>1. CallsInv' /\ PendingTypes' /\ PendingExact' /\ TargetsInv' /\ Steady
    BY <1>1, <1>2, CallsStutter
  <2>2. SentInv'
    BY <1>1, <2>1, OneLess
  <2>3. RegistryInv'
    BY <1>1, RegistryKept DEF RpcInv
  <2> QED
    BY <2>1, <2>2, <2>3 DEF RpcInv
<1>3. CASE c # None /\ call' = [call EXCEPT ![c] =
             [@ EXCEPT !.chan = Append(call[c].chan, Response(h, s.call, form = "success"))]]
  <2> DEFINE r == Response(h, s.call, form = "success")
  <2> DEFINE k == [call[c] EXCEPT !.chan = Append(call[c].chan, r)]
  <2>1. Sent(s)
    BY DEF RpcInv, SentInv
  <2>2. s.id \in Ids /\ s.call \in Calls /\ (s.id \in Calls => s.call = s.id)
    BY <1>1, <2>1 DEF Sent
  <2>3. c \in Calls /\ call[c].pc \in InFlight /\ call[c].id = s.id /\ CallsInv
    BY <1>3, <2>2 DEF RpcInv, PendingTypes, PendingExact
  <2>4. call[c] \in CallStates /\ call[c].chan \in Seq(Responses) /\ Begins(c, call[c])
    BY <2>3, CallFields DEF InFlight
  <2>5. r \in Responses /\ r.to = s.call
    BY <2>2, Zenon DEF Response, Responses
  <2>6. call[c].req.caller = None => s.call = c
    BY <2>2, <2>3, <2>4, IdFacts DEF Begins
  <2> HIDE DEF r, c
  <2>7. Append(call[c].chan, r) \in Seq(Responses)
        /\ Range(Append(call[c].chan, r)) = Range(call[c].chan) \cup {r}
    BY <2>4, <2>5, Appended, Zenon
  <2>8. /\ k.pc = call[c].pc /\ k.req = call[c].req /\ k.id = call[c].id
        /\ k.external = call[c].external /\ k.code = call[c].code
        /\ k.chan = Append(call[c].chan, r) /\ k.all = call[c].all /\ k.body = call[c].body
    BY <2>4 DEF CallStates
  <2>9. k \in CallStates
    BY <2>4, <2>7, Zenon DEF CallStates
  <2>10. call' = [call EXCEPT ![c] = k]
    BY <1>3, Zenon DEF r, c
  <2> HIDE DEF k
  <2>11. \A x \in Received(k) : x \in Received(call[c]) \/ (k.req.caller = None => x.to = c)
    BY <2>5, <2>6, <2>7, <2>8, Zenon DEF Received
  <2>12. CallOK(c, k)
    BY <2>3, <2>8, <2>9, <2>11, StillOK, ZenonT(30)
  <2>13. CallsInv' /\ PendingTypes' /\ PendingExact' /\ RegistryInv' /\ TargetsInv' /\ Steady
    BY <1>1, <2>3, <2>8, <2>10, <2>12, Going, Zenon
  <2>14. SentInv'
    BY <1>1, <2>13, OneLess
  <2> QED
    BY <2>13, <2>14 DEF RpcInv
<1> QED
  BY <1>2, <1>3 DEF HandleResponse

-----------------------------------------------------------------------------
\* Where dispatchTargets sends a request: to the hub what is addressed to its
\* built-ins, and to MQTT only what a handler there has announced.
LEMMA TargetsAreRight ==
  ASSUME RegistryInv, NEW r \in Requests
  PROVE  /\ DispatchTargets(r).local \in BOOLEAN /\ DispatchTargets(r).external \in BOOLEAN
         /\ ForTheHub(r) => DispatchTargets(r).local /\ ~DispatchTargets(r).external
         /\ DispatchTargets(r).external => Announced(r.method)
<1>1. r.method \in Methods /\ r.handler \in Handlers \cup {None} /\ Hub # None
  BY IdFacts
<1>2. CASE r.handler = None
  <2>1. DispatchTargets(r) =
          [local |-> HasLocalMethod(r.method), external |-> HasExternalMethod(r.method)]
    BY <1>2 DEF DispatchTargets
  <2>2. HasExternalMethod(r.method) => Announced(r.method)
    BY <1>1 DEF HasExternalMethod, RegistryInv
  <2> QED
    BY <1>1, <1>2, <2>1, <2>2 DEF HasLocalMethod, HasExternalMethod, ForTheHub
<1>3. CASE r.handler = Hub /\ r.method \in Local
  <2>1. DispatchTargets(r) = [local |-> TRUE, external |-> FALSE]
    BY <1>1, <1>3 DEF DispatchTargets, HasLocalMethod
  <2> QED
    BY <2>1
<1>4. CASE r.handler # None /\ ~(r.handler = Hub /\ r.method \in Local)
  <2>1. DispatchTargets(r) =
          [local |-> FALSE, external |-> HasExternalHandler(r.method, r.handler)]
    BY <1>4 DEF DispatchTargets, HasLocalMethod
  <2>2. HasExternalHandler(r.method, r.handler) => Announced(r.method)
    BY <1>1, <1>4 DEF HasExternalHandler, RegistryInv
  <2>3. HasExternalHandler(r.method, r.handler) \in BOOLEAN
    BY Zenon DEF HasExternalHandler
  <2>4. ~ForTheHub(r)
    BY <1>4 DEF ForTheHub
  <2> QED
    BY <2>1, <2>2, <2>3, <2>4
<1> QED
  BY <1>1, <1>2, <1>3, <1>4

\* A call begins with nothing received.
LEMMA BeginsOK ==
  ASSUME NEW c \in Calls, NEW k \in CallStates, k.req \in Requests,
         k.pc \in {"notify", "publish", "local", "done"}, k.id \in CallerIds \cup {c, None},
         k.chan = <<>>, k.all = <<>>, k.body = <<>>,
         k.req.caller = None => k.id \in {c, None},
         k.pc \in InFlight => k.id # None,
         k.pc = "notify" => k.id = None /\ NotifyOnly(k.req),
         k.pc = "publish" => k.external,
         ForTheHub(k.req) => ~k.external /\ k.code # "unknown_handler"
  PROVE  CallOK(c, k)
<1>1. Range(<<>>) = {}
  BY DEF Range
<1>2. Received(k) = {}
  BY <1>1 DEF Received
<1>3. Begins(c, k)
  BY <1>2 DEF Begins
<1> QED
  BY <1>3 DEF CallOK

\* A call that begins takes nobody's place but that of a call under the same
\* client-supplied id.
LEMMA InvokeStep ==
  ASSUME RpcInv, NEW c \in Calls, NEW r \in Requests, Invoke(c, r)
  PROVE  RpcInv'
<1> DEFINE t == DispatchTargets(r)
           refusal == IF ~r.allowed THEN "forbidden"
                      ELSE IF ~ValidateRequest(r) THEN "invalid"
                      ELSE IF ~t.local /\ ~t.external THEN "unknown_handler"
                      ELSE None
           next == IF NotifyOnly(r) THEN "notify" ELSE IF t.external THEN "publish" ELSE "local"
           id == IF NotifyOnly(r) THEN None ELSE EnsureCallerID(c, r)
<1>1. CallsInv /\ PendingTypes /\ PendingExact /\ RegistryInv /\ SentInv /\ TargetsInv
  BY DEF RpcInv
<1>2. call[c] = Idle /\ call[c].pc = "idle"
  BY <1>1, CallFields DEF CallOK, Invoke
<1>3. \A i \in Ids : pending[i] # c
  BY <1>1, <1>2, IdFacts DEF PendingExact, InFlight
<1>4. UNCHANGED <<available, sent, notices, announced>>
  BY DEF Invoke
<1>5. /\ t.local \in BOOLEAN /\ t.external \in BOOLEAN
      /\ ForTheHub(r) => t.local /\ ~t.external
      /\ t.external => Announced(r.method)
  BY <1>1, TargetsAreRight
<1>6. /\ call[c] \in CallStates /\ call[c].chan = <<>> /\ call[c].all = <<>>
      /\ call[c].body = <<>> /\ call[c].external = FALSE /\ call[c].id = None
      /\ call[c].code = None
  <2>1. call[c] \in CallStates
    BY <1>1, CallFields
  <2> QED
    BY <1>2, <2>1 DEF Idle
<1>7. CASE refusal # None
  <2> DEFINE k == [call[c] EXCEPT !.pc = "done", !.req = r, !.code = refusal]
  <2>0. call' = [call EXCEPT ![c] = k] /\ UNCHANGED pending
    BY <1>7 DEF Invoke
  <2>1. refusal \in Codes /\ (ForTheHub(r) => refusal # "unknown_handler")
    BY <1>5 DEF Codes, None
  <2> HIDE DEF refusal
  <2>2. /\ k.pc = "done" /\ k.req = r /\ k.id = None /\ k.code = refusal
        /\ k.external = FALSE /\ k.chan = <<>> /\ k.all = <<>> /\ k.body = <<>>
    BY <1>6 DEF CallStates
  <2>9. k \in CallStates
    <3>1. "done" \in {"idle", "notify", "publish", "local", "collect", "done"}
          /\ r \in Requests \cup {Unused}
      OBVIOUS
    <3> QED
      BY <1>6, <2>1, <3>1, Zenon DEF CallStates
  <2> HIDE DEF k
  <2>10. CallOK(c, k)
    BY <2>1, <2>2, <2>9, BeginsOK DEF InFlight
  <2>3. CallsInv' /\ call'[c] = k /\ \A d \in Calls \ {c} : call'[d] = call[d]
    BY <1>1, <2>0, <2>10, OneCall, Zenon
  <2>4. Steady
    BY <1>2, <2>3 DEF Steady
  <2>5. PendingTypes' /\ PendingExact'
    <3>1. \A d \in Calls : /\ call[d].pc \in InFlight <=> call'[d].pc \in InFlight
                           /\ call'[d].id = call[d].id
      BY <1>2, <2>2, <2>3 DEF InFlight, Idle
    <3> QED
      BY <1>1, <2>0, <3>1, PendingKept, Zenon
  <2>6. TargetsInv'
    <3>1. \A d \in Calls : call'[d].pc \in {"notify", "publish"} => call'[d] = call[d]
      BY <2>2, <2>3
    <3> QED
      BY <1>1, <1>4, <3>1, TargetsKept
  <2>7. SentInv' /\ RegistryInv'
    BY <1>1, <1>4, <2>4, SentKept, RegistryKept
  <2> QED
    BY <2>3, <2>5, <2>6, <2>7 DEF RpcInv
<1>8. CASE refusal = None
  <2> DEFINE k == [call[c] EXCEPT !.pc = next, !.req = r, !.local = t.local,
                                  !.external = t.external, !.id = id]
  <2>0. /\ call' = [call EXCEPT ![c] = k]
        /\ pending' = IF NotifyOnly(r) THEN pending ELSE [pending EXCEPT ![id] = c]
    BY <1>8 DEF Invoke
  <2>1. /\ id \in CallerIds \cup {c, None} /\ (r.caller = None => id \in {c, None})
        /\ NotifyOnly(r) <=> id = None
    BY IdFacts DEF EnsureCallerID
  <2>2. /\ next \in {"notify", "publish", "local"} /\ (next \in InFlight <=> ~NotifyOnly(r))
        /\ next = "notify" => NotifyOnly(r)
        /\ next = "publish" => t.external
    BY DEF InFlight
  <2>3. None # "unknown_handler"
    BY DEF None
  <2> HIDE DEF next, id, t
  <2>4. /\ k.pc = next /\ k.req = r /\ k.external = t.external /\ k.id = id
        /\ k.code = None /\ k.chan = <<>> /\ k.all = <<>> /\ k.body = <<>>
    BY <1>6 DEF CallStates
  <2>10. k \in CallStates
    <3>1. next \in {"idle", "notify", "publish", "local", "collect", "done"}
          /\ r \in Requests \cup {Unused} /\ id \in Ids \cup {None}
      BY <2>1, <2>2 DEF Ids
    <3> QED
      BY <1>5, <1>6, <3>1, Zenon DEF CallStates
  <2> HIDE DEF k
  <2>11. CallOK(c, k)
    BY <1>5, <2>1, <2>2, <2>3, <2>4, <2>10, BeginsOK
  <2>5. CallsInv' /\ call'[c] = k /\ \A d \in Calls \ {c} : call'[d] = call[d]
    BY <1>1, <2>0, <2>11, OneCall, Zenon
  <2>6. Steady
    BY <1>2, <2>5 DEF Steady
  <2>7. TargetsInv'
    <3>1. \A d \in Calls : call'[d].pc \in {"notify", "publish"} /\ call'[d].external =>
            call'[d] = call[d] \/ \E m : m = call'[d].req.method /\ Announced(m)
      BY <1>5, <2>4, <2>5
    <3> QED
      BY <1>1, <1>4, <3>1, TargetsKept
  <2>8. PendingTypes' /\ PendingExact'
    <3>1. CASE NotifyOnly(r)
      <4>1. \A d \in Calls : /\ call[d].pc \in InFlight <=> call'[d].pc \in InFlight
                             /\ call'[d].id = call[d].id
        BY <1>2, <2>1, <2>2, <2>4, <2>5, <3>1 DEF InFlight, Idle
      <4> QED
        BY <1>1, <2>0, <3>1, <4>1, PendingKept
    <3>2. CASE ~NotifyOnly(r)
      <4>1. pending' = [pending EXCEPT ![id] = c] /\ id \in Ids /\ id \in CallerIds \cup {c}
            /\ call'[c].pc \in InFlight /\ call'[c].id = id
        BY <2>0, <2>1, <2>2, <2>4, <2>5, <3>2 DEF Ids
      <4>2. PendingTypes' /\ \A i \in Ids : pending'[i] = IF i = id THEN c ELSE pending[i]
        BY <1>1, <4>1 DEF PendingTypes
      <4>3. ASSUME NEW i \in Ids, pending'[i] # None
            PROVE  call'[pending'[i]].pc \in InFlight /\ call'[pending'[i]].id = i
        <5>1. CASE i = id
          BY <4>1, <4>2, <5>1
        <5>2. CASE i # id
          <6>1. pending'[i] = pending[i] /\ pending[i] \in Calls \ {c}
            BY <1>1, <1>3, <4>2, <4>3, <5>2 DEF PendingTypes
          <6>2. call[pending[i]].pc \in InFlight /\ call[pending[i]].id = i
            BY <1>1, <4>3, <6>1 DEF PendingExact
          <6> QED
            BY <2>5, <6>1, <6>2
        <5> QED
          BY <5>1, <5>2
      <4>4. ASSUME NEW d \in Calls, call'[d].pc \in InFlight, call'[d].id = d
            PROVE  pending'[d] = d
        <5>1. CASE d = c
          BY <4>1, <4>2, <4>4, <5>1
        <5>2. CASE d # c
          <6>1. pending[d] = d
            BY <1>1, <2>5, <4>4, <5>2 DEF PendingExact
          <6>2. d # id /\ d \in Ids
            BY <4>1, <5>2, IdFacts
          <6> QED
            BY <4>2, <6>1, <6>2
        <5> QED
          BY <5>1, <5>2
      <4> QED
        BY <4>2, <4>3, <4>4 DEF PendingExact
    <3> QED
      BY <3>1, <3>2
  <2>9. SentInv' /\ RegistryInv'
    BY <1>1, <1>4, <2>6, SentKept, RegistryKept
  <2> QED
    BY <2>5, <2>7, <2>8, <2>9 DEF RpcInv
<1> QED
  BY <1>7, <1>8, Zenon

-----------------------------------------------------------------------------
\* Steps that leave the calls and the requests published alone.
LEMMA CallsAside ==
  ASSUME RpcInv, UNCHANGED <<call, pending, sent>>, announced \subseteq announced', RegistryInv'
  PROVE  RpcInv'
<1>1. CallsInv' /\ PendingTypes' /\ PendingExact' /\ TargetsInv' /\ Steady
  BY CallsStutter
<1>2. SentInv'
  BY <1>1, SentKept DEF RpcInv
<1> QED
  BY <1>1, <1>2 DEF RpcInv

\* Messages on their way that are the handlers' or the hub's own.
LEMMA NoticesArrive ==
  ASSUME RegistryInv, UNCHANGED available, announced \subseteq announced',
         notices' \subseteq announced' \cup Announcements
  PROVE  RegistryInv'
<1> SUFFICES ASSUME NEW m \in Methods, NEW h \in Handlers,
                    available[m][h] = "external", h = Hub => m \notin Local
             PROVE  Announced(m)'
  BY DEF RegistryInv
<1>1. Announced(m)
  BY DEF RegistryInv
<1> QED
  BY <1>1, StaysAnnounced

\* The hub's own announcements come back under its own handler id only.
LEMMA OwnNotice ==
  ASSUME NEW n \in Announcements
  PROVE  ~n.empty /\ NoticeMethod(n) \in Local /\ NoticeHandlers(n) = {Hub}
<1>1. PICK m \in Local : n = Announcement(m)
  BY DEF Announcements
<1>2. /\ n.id = Hub /\ n.name = m /\ n.topic = m /\ n.handlers = {} /\ ~n.empty
  BY <1>1 DEF Announcement
<1>3. Hub # None
  BY IdFacts
<1>4. NoticeMethod(n) = m
  BY <1>2 DEF NoticeMethod
<1>5. NoticeHandlers(n) = {Hub}
  BY <1>2, <1>3 DEF NoticeHandlers
<1> QED
  BY <1>2, <1>4, <1>5

\* handleAvailable: what a message lists as external has been announced by a
\* handler behind MQTT, unless it is the hub's own.
LEMMA HandleAvailableStep ==
  ASSUME RpcInv, NEW n \in notices, HandleAvailable(n)
  PROVE  RpcInv'
<1>1. RegistryInv /\ UNCHANGED <<call, pending, sent, announced>> /\ notices' \subseteq notices
  BY DEF RpcInv, HandleAvailable
<1>2. n \in announced \cup Announcements
  BY <1>1 DEF RegistryInv
<1>3. available \in [Methods -> [Handlers -> {"local", "external", None}]]
  BY <1>1 DEF RegistryInv
<1>4. ASSUME available' \in [Methods -> [Handlers -> {"local", "external", None}]],
             NEW M, NEW H,
             \A m \in Methods, h \in Handlers :
                available'[m][h] = "external" =>
                  available[m][h] = "external" \/ (~n.empty /\ m = M /\ h \in H),
             M = NoticeMethod(n), H = NoticeHandlers(n)
      PROVE  RpcInv'
  <2>1. ASSUME NEW m \in Methods, NEW h \in Handlers,
               available'[m][h] = "external", h = Hub => m \notin Local
        PROVE  Announced(m)
    <3>1. CASE available[m][h] = "external"
      BY <1>1, <2>1, <3>1 DEF RegistryInv
    <3>2. CASE ~n.empty /\ m = M /\ h \in H
      <4>1. n \in announced
        BY <1>2, <1>4, <2>1, <3>2, OwnNotice
      <4>2. m \in Local => H # {Hub}
        BY <2>1, <3>2
      <4> QED
        BY <1>4, <3>2, <4>1, <4>2 DEF Announced
    <3> QED
      BY <1>4, <2>1, <3>1, <3>2
  <2>2. \A m \in Methods, h \in Handlers :
          available'[m][h] = "external" /\ (h = Hub => m \notin Local) => Announced(m)'
    BY <1>1, <2>1, StaysAnnounced
  <2>3. notices' \subseteq announced' \cup Announcements
    BY <1>1 DEF RegistryInv
  <2>4. RegistryInv'
    BY <1>4, <2>2, <2>3 DEF RegistryInv
  <2> QED
    BY <1>1, <2>4, CallsAside
<1>5. CASE n.empty
  <2>1. available' = [available EXCEPT ![n.topic] = [h \in Handlers |-> None]]
    BY <1>5 DEF HandleAvailable
  <2>2. available' \in [Methods -> [Handlers -> {"local", "external", None}]]
    BY <1>3, <2>1, Zenon
  <2>3. None # "external"
    BY DEF None
  <2>4. \A m \in Methods, h \in Handlers :
          available'[m][h] = "external" => available[m][h] = "external"
    BY <1>3, <2>1, <2>3
  <2> QED
    BY <1>4, <2>2, <2>4
<1>6. CASE ~n.empty
  <2> DEFINE M == NoticeMethod(n)
             H == NoticeHandlers(n)
             entry == [h \in Handlers |-> IF h \in H THEN "external" ELSE available[M][h]]
  <2>1. available' = [available EXCEPT ![M] = entry]
    BY <1>6 DEF HandleAvailable, EnsureAvailable
  <2> HIDE DEF M, H
  <2>2. M \in Methods => entry \in [Handlers -> {"local", "external", None}]
    BY <1>3
  <2>3. available' \in [Methods -> [Handlers -> {"local", "external", None}]]
        /\ \A m \in Methods : available'[m] = IF m = M THEN entry ELSE available[m]
    <3> HIDE DEF entry
    <3> QED
      BY <1>3, <2>1, <2>2, Zenon
  <2>4. \A m \in Methods, h \in Handlers :
          available'[m][h] = "external" =>
            available[m][h] = "external" \/ (~n.empty /\ m = M /\ h \in H)
    BY <1>6, <2>3
  <2> QED
    BY <1>4, <2>3, <2>4 DEF M, H
<1> QED
  BY <1>5, <1>6

\* Every step preserves the invariant.
LEMMA RpcPreserved == RpcInv /\ [Next]_vars => RpcInv'
<1> SUFFICES ASSUME RpcInv, [Next]_vars PROVE RpcInv'
  OBVIOUS
<1>1. notices \subseteq announced \cup Announcements /\ RegistryInv
  BY DEF RpcInv, RegistryInv
<1>2. ASSUME UNCHANGED <<available, call, pending, sent>>, announced \subseteq announced',
             notices' \subseteq announced' \cup Announcements
      PROVE  RpcInv'
  BY <1>1, <1>2, NoticesArrive, CallsAside
<1>3. CASE Listen
  BY <1>1, <1>2, <1>3 DEF Listen
<1>4. CASE MqttStep
  BY <1>1, <1>2, <1>4 DEF MqttStep, rpcVars
<1>5. CASE PublishAnnouncements
  BY <1>1, <1>2, <1>5 DEF PublishAnnouncements
<1>6. CASE Close
  BY <1>1, <1>2, <1>6 DEF Close
<1>7. ASSUME NEW n \in notices, HandleAvailable(n) PROVE RpcInv'
  BY <1>7, HandleAvailableStep
<1>8. ASSUME NEW c \in Calls, NEW r \in Requests, Invoke(c, r) PROVE RpcInv'
  BY <1>8, InvokeStep
<1>9. ASSUME NEW c \in Calls, CallStep(c) PROVE RpcInv'
  BY <1>9, NotifyStep, PublishStep, InvokeLocalStep, CollectStep, TimeoutStep DEF CallStep
<1>10. ASSUME NEW n \in Notices, Announce(n) PROVE RpcInv'
  BY <1>1, <1>2, <1>10 DEF Announce
<1>11. ASSUME NEW s \in sent, NEW h \in Handlers, NEW form \in {"success", "error", "malformed"},
              HandleResponse(s, h, form)
       PROVE  RpcInv'
  BY <1>11, HandleResponseStep
<1>12. CASE UNCHANGED vars
  BY <1>1, <1>2, <1>12 DEF vars, rpcVars
<1> QED
  BY <1>3, <1>4, <1>5, <1>6, <1>7, <1>8, <1>9, <1>10, <1>11, <1>12, Zenon DEF Next

\* A new bridge has no calls, and in its registry the built-ins only.
LEMMA RpcInitially == NewBridge => RpcInv
<1> SUFFICES ASSUME NewBridge PROVE RpcInv
  OBVIOUS
<1>1. /\ available = [m \in Methods |-> [h \in Handlers |->
                        IF m \in Local /\ h = Hub THEN "local" ELSE None]]
      /\ pending = [i \in Ids |-> None] /\ call = [c \in Calls |-> Idle]
      /\ sent = {} /\ notices = {}
  BY DEF NewBridge
<1>2. Idle \in CallStates
  <2>1. <<>> \in Seq(Responses)
    OBVIOUS
  <2>2. None \in Codes /\ None \in Ids \cup {None} /\ FALSE \in BOOLEAN
        /\ "idle" \in {"idle", "notify", "publish", "local", "collect", "done"}
        /\ Unused \in Requests \cup {Unused}
    BY DEF Codes
  <2> QED
    BY <2>1, <2>2, Zenon DEF Idle, CallStates
<1>3. Idle.pc = "idle"
  BY DEF Idle
<1>4. CallsInv
  BY <1>1, <1>2, <1>3 DEF CallsInv, CallOK
<1>5. PendingTypes /\ PendingExact
  BY <1>1, <1>3, IdFacts DEF PendingTypes, PendingExact, InFlight
<1>6. RegistryInv
  BY <1>1 DEF RegistryInv, None
<1>7. SentInv /\ TargetsInv
  BY <1>1, <1>3 DEF SentInv, TargetsInv
<1> QED
  BY <1>4, <1>5, <1>6, <1>7 DEF RpcInv

\* The bridge's invariant: its calls, its pending table, its registry and the
\* requests it has published agree.
THEOREM BridgeInvariant == Spec => []RpcInv
<1>1. Init => RpcInv
  BY RpcInitially DEF Init
<1>2. RpcInv /\ [Next]_vars => RpcInv'
  BY RpcPreserved
<1> QED
  BY <1>1, <1>2, PTL DEF Spec

\* The pending table never keeps a call that has returned, and never loses one
\* that waits under an id of its own (Invoke's deferred delete).
THEOREM PendingIsExact == Spec => []PendingExact
<1>1. RpcInv => PendingExact
  BY DEF RpcInv
<1> QED
  BY <1>1, BridgeInvariant, PTL

\* A call without a client-supplied caller id collects and answers responses
\* to its own request only (handleResponse, collectResponses).
THEOREM ResponsesAreOwn == Spec => []OwnResponses
<1>1. RpcInv => OwnResponses
  <2> SUFFICES ASSUME RpcInv, NEW c \in Calls, call[c].req # Unused, call[c].req.caller = None,
                      NEW r \in Received(call[c])
               PROVE  r.to = c
    BY DEF OwnResponses, Received
  <2>1. CallOK(c, call[c])
    BY DEF RpcInv, CallsInv
  <2>2. call[c].pc # "idle"
    BY <2>1 DEF CallOK, Idle
  <2> QED
    BY <2>1, <2>2 DEF CallOK, Begins
<1> QED
  BY <1>1, BridgeInvariant, PTL

\* A built-in asked for by the hub's own handler id stays in the hub, and a
\* request reaches MQTT only when a handler there has announced its method
\* (dispatchTargets, handleAvailable).
THEOREM RequestsAreRoutedRight == Spec => []RoutedRight
<1>1. RpcInv => RoutedRight
  <2> SUFFICES ASSUME RpcInv PROVE RoutedRight
    OBVIOUS
  <2>1. NotForwardedToItself
    BY DEF RpcInv, SentInv, Sent, Announced, NotForwardedToItself
  <2>2. ASSUME NEW c \in Calls, call[c].req # Unused, ForTheHub(call[c].req)
        PROVE  call[c].code # "unknown_handler" /\ \A s \in sent : s.call # c
    <3>1. CallOK(c, call[c])
      BY DEF RpcInv, CallsInv
    <3>2. call[c].pc # "idle"
      BY <2>2, <3>1 DEF CallOK, Idle
    <3> QED
      BY <2>2, <3>1, <3>2 DEF CallOK, Begins, RpcInv, SentInv
  <2>3. BuiltinsStayLocal
    BY <2>2 DEF BuiltinsStayLocal, ForTheHub
  <2> QED
    BY <2>1, <2>3 DEF RoutedRight
<1> QED
  BY <1>1, BridgeInvariant, PTL
=============================================================================
