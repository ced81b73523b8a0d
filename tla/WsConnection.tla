----------------------------- MODULE WsConnection ---------------------------
(***************************************************************************)
(* A WebSocket connection of the hub (src/internal/ws/hub.go): the         *)
(* goroutine that batches bus events and hands them to the subscriptions   *)
(* of the connection, the connection's read loop and its write loop.       *)
(*                                                                         *)
(* Nobody waits for a slow client: a wrapper that finds the outbound       *)
(* buffer full is dropped, or, on a hot topic, kept as the only pending    *)
(* wrapper of its subscription until the write loop has room for it.       *)
(***************************************************************************)
EXTENDS WsTopics, FiniteSets

CONSTANTS
  Events,             \* [kind, item]: what the bus may emit
  Messages,           \* what the client may send: see ReadMessage
  AuthEnabled,        \* AUTH_ENABLED, with a mode other than none
  Grants,             \* <<token, "subscribe" or "publish", topic>> that the registry allows
  CollisionsEnabled,  \* COLLISIONS_ENABLED
  Accepted,           \* payloads that the service takes without an error
  OutboundBuffer,     \* WEBSOCKET_OUTBOUND_BUFFER
  DispatchBatch,      \* eventDispatchBatchSize
  MaxEvents, MaxMessages,  \* bounds
  None

\* The wrappers that the hub sends; the payload is the events in it.
Wrappers ==
  [event : {"message", "subscribed", "unsubscribed", "error"}, sub : 0..MaxMessages,
   items : Seq(Nat)]

ASSUME WsAssumption ==
  /\ OutboundBuffer \in Nat \ {0} /\ DispatchBatch \in Nat \ {0}
  /\ MaxEvents \in Nat /\ MaxMessages \in Nat
  /\ AuthEnabled \in BOOLEAN /\ CollisionsEnabled \in BOOLEAN
  /\ None \notin Wrappers

VARIABLES
  log,         \* the events emitted so far, in order; an event is its place
  batch,       \* consume: the events collected ...
  timer,       \* ... and whether the flush timer runs
  disp,        \* the dispatcher: collect, send or store
  outgoing,    \* the events being broadcast ...
  targets,     \* ... the subscriptions still to be served ...
  held,        \* ... and the wrapper that found the buffer full
  reader,      \* the read loop: "read", "reply" or "gone" ...
  reply,       \* ... and the acknowledgement it is about to send
  received,    \* messages read
  published,   \* payloads handed to the service
  subs,        \* the subscriptions of the connection, by identifier
  nextID,
  send,        \* the outbound channel
  pending,     \* the pending wrapper of each subscription
  writer,      \* the write loop: select, write, flush, tick or gone ...
  frame,       \* ... and the wrapper it is writing
  conn,        \* open, done (closed), unregistered or shut (socket closed)
  lost,        \* the peer is gone: reads and writes fail
  drops,       \* wrappers dropped, by subscription; 0 counts the replies
  all,         \* history: every subscription there ever was,
  made,        \* the messages handed to sendWrapper for each,
  newest,      \* the last of them,
  written,     \* the messages written for each,
  got          \* and the events that those brought

dispatcher == <<log, batch, timer, disp, outgoing, targets, held, made, newest>>
reading    == <<reader, reply, received, published, subs, nextID, all>>
writing    == <<writer, frame, written, got>>
vars == <<dispatcher, reading, send, pending, writing, conn, lost, drops>>

Ids == 1..MaxMessages
Without(f, s) == [x \in DOMAIN f \ {s} |-> f[x]]
Message(s, items) == [event |-> "message", sub |-> s, items |-> items]
Control(event, s) == [event |-> event, sub |-> s, items |-> <<>>]

Init ==
  /\ log = <<>> /\ batch = <<>> /\ timer = FALSE /\ disp = "collect"
  /\ outgoing = <<>> /\ targets = <<>> /\ held = None
  /\ reader = "read" /\ reply = None /\ received = 0 /\ published = 0
  /\ subs = <<>> /\ nextID = 1 /\ all = <<>>
  /\ send = <<>> /\ pending = [s \in Ids |-> None]
  /\ writer = "select" /\ frame = None
  /\ conn = "open" /\ lost = FALSE
  /\ drops = [s \in 0..MaxMessages |-> 0]
  /\ made = [s \in Ids |-> 0] /\ newest = [s \in Ids |-> <<>>]
  /\ written = [s \in Ids |-> 0] /\ got = [s \in Ids |-> <<>>]

-----------------------------------------------------------------------------
(* sendWrapper: nothing once closed; else queued, else dropped or kept *)

Full == Len(send) >= OutboundBuffer

SendControl(w) ==
  IF conn # "open" THEN UNCHANGED <<send, drops>>
  ELSE IF Full THEN drops' = [drops EXCEPT ![0] = @ + 1] /\ UNCHANGED send
  ELSE send' = Append(send, w) /\ UNCHANGED drops

-----------------------------------------------------------------------------
(* The dispatcher: consume, broadcastBatch and deliverBatch *)

\* broadcastBatch and deliverBatch begin: the connection is served if it is
\* registered, with the subscriptions that it has at this moment.
Broadcast(b) ==
  LET served == conn \in {"open", "done"} /\ subs # <<>> IN
  /\ batch' = <<>> /\ timer' = FALSE
  /\ targets' = IF served THEN subs ELSE <<>>
  /\ outgoing' = IF served THEN b ELSE <<>>
  /\ disp' = IF served THEN "send" ELSE "collect"

\* An event arrives; the batch is broadcast at once when it is full.
Receive(e) ==
  /\ disp = "collect" /\ Len(log) < MaxEvents
  /\ log' = Append(log, e)
  /\ LET b == Append(batch, Len(log) + 1) IN
     IF Len(b) >= DispatchBatch THEN Broadcast(b)
     ELSE batch' = b /\ timer' = TRUE /\ UNCHANGED <<outgoing, targets, disp>>
  /\ UNCHANGED <<held, made, newest, reading, send, pending, writing, conn, lost, drops>>

TimerFires ==
  /\ disp = "collect" /\ timer
  /\ Broadcast(batch)
  /\ UNCHANGED <<log, held, made, newest, reading, send, pending, writing, conn, lost, drops>>

\* On to the next subscription, or back to the channel after the last one.
Resume(rest) ==
  /\ disp' = IF rest = <<>> THEN "collect" ELSE "send"
  /\ outgoing' = IF rest = <<>> THEN <<>> ELSE outgoing

\* payloadBatchForSubscription
PayloadBatch(topic, f) ==
  LET payload[i \in 0..Len(outgoing)] ==
        IF i = 0 THEN <<>>
        ELSE IF Selects(topic, f, log[outgoing[i]].kind, log[outgoing[i]].item)
          THEN Append(payload[i - 1], outgoing[i])
          ELSE payload[i - 1]
  IN  payload[Len(outgoing)]

\* Mutant of SendMessage: the wrapper of a discrete topic waits for room.
SendMessageBlocks(s) ==
  /\ disp = "send" /\ s \in DOMAIN targets
  /\ targets' = Without(targets, s)
  /\ LET items == PayloadBatch(targets[s].topic, targets[s].filter)
         w == Message(s, items) IN
     IF items = <<>> \/ conn # "open"
       THEN Resume(targets') /\ UNCHANGED <<held, made, newest, send, drops>>
     ELSE /\ made' = [made EXCEPT ![s] = @ + 1]
          /\ newest' = [newest EXCEPT ![s] = items]
          /\ IF ~Full
               THEN send' = Append(send, w) /\ Resume(targets') /\ UNCHANGED <<held, drops>>
             ELSE /\ Hot(targets[s].topic)
                  /\ disp' = "store" /\ held' = w /\ UNCHANGED <<outgoing, send, drops>>
  /\ UNCHANGED <<log, batch, timer, reading, pending, writing, conn, lost>>

\* Mutant of SendMessage: a discrete wrapper that is not queued is not counted.
SendMessageUncounted(s) ==
  /\ disp = "send" /\ s \in DOMAIN targets
  /\ targets' = Without(targets, s)
  /\ LET items == PayloadBatch(targets[s].topic, targets[s].filter)
         w == Message(s, items) IN
     IF items = <<>> \/ conn # "open"
       THEN Resume(targets') /\ UNCHANGED <<held, made, newest, send, drops>>
     ELSE /\ made' = [made EXCEPT ![s] = @ + 1]
          /\ newest' = [newest EXCEPT ![s] = items]
          /\ IF ~Full
               THEN send' = Append(send, w) /\ Resume(targets') /\ UNCHANGED <<held, drops>>
             ELSE IF Hot(targets[s].topic)
               THEN disp' = "store" /\ held' = w /\ UNCHANGED <<outgoing, send, drops>>
               ELSE Resume(targets') /\ UNCHANGED <<held, send, drops>>
  /\ UNCHANGED <<log, batch, timer, reading, pending, writing, conn, lost>>

\* deliverBatch, for one subscription of the snapshot: the payload, if any, is
\* sent even if the subscription was removed in the meantime.
SendMessage(s) ==
  /\ disp = "send" /\ s \in DOMAIN targets
  /\ targets' = Without(targets, s)
  /\ LET items == PayloadBatch(targets[s].topic, targets[s].filter)
         w == Message(s, items) IN
     IF items = <<>> \/ conn # "open"
       THEN Resume(targets') /\ UNCHANGED <<held, made, newest, send, drops>>
     ELSE /\ made' = [made EXCEPT ![s] = @ + 1]
          /\ newest' = [newest EXCEPT ![s] = items]
          /\ IF ~Full
               THEN send' = Append(send, w) /\ Resume(targets') /\ UNCHANGED <<held, drops>>
             ELSE IF Hot(targets[s].topic)
               THEN disp' = "store" /\ held' = w /\ UNCHANGED <<outgoing, send, drops>>
             ELSE /\ drops' = [drops EXCEPT ![s] = @ + 1]
                  /\ Resume(targets') /\ UNCHANGED <<held, send>>
  /\ UNCHANGED <<log, batch, timer, reading, pending, writing, conn, lost>>

\* storePending: under sendMu, which the write loop holds while it flushes.
StorePending ==
  /\ disp = "store" /\ writer \notin {"flush", "tick"}
  /\ pending' = [pending EXCEPT ![held.sub] = held]
  /\ held' = None /\ Resume(targets)
  /\ UNCHANGED <<log, batch, timer, targets, made, newest, reading, send, writing, conn, lost,
                 drops>>

-----------------------------------------------------------------------------
(* The read loop *)

\* authenticate: a missing token, an unknown one, or one without the grant.
Authenticated(m, action) == AuthEnabled => <<m.token, action, m.topic>> \in Grants

\* Mutant of SubscribeFails: the token is not looked at.
SubscribeFailsUnchecked(m) ==
  \/ m.topic \notin Topics
  \/ m.topic = "collision_events" /\ ~CollisionsEnabled

SubscribeFails(m) ==
  \/ m.topic \notin Topics
  \/ m.topic = "collision_events" /\ ~CollisionsEnabled
  \/ ~Authenticated(m, "subscribe")

\* handleMessage: the location and proximity topics take payloads.
PublishFails(m) ==
  \/ m.topic \notin {"location_updates", "proximity_updates"}
  \/ ~Authenticated(m, "publish")
  \/ m.payload \notin Accepted

\* handleSubscribe registers the subscription, then acknowledges it.
HandleSubscribe(m) ==
  /\ m.event = "subscribe" /\ ~SubscribeFails(m)
  /\ LET new == [topic |-> m.topic, filter |-> ParseFilter(m.topic, m.params), token |-> m.token] IN
     /\ subs' = [s \in DOMAIN subs \cup {nextID} |-> IF s = nextID THEN new ELSE subs[s]]
     /\ all' = Append(all, new)
  /\ nextID' = nextID + 1
  /\ reply' = Control("subscribed", nextID) /\ reader' = "reply"
  /\ UNCHANGED <<published, send, drops>>

HandleUnsubscribe(m) ==
  /\ m.event = "unsubscribe" /\ m.sub \in DOMAIN subs
  /\ subs' = Without(subs, m.sub)
  /\ reply' = Control("unsubscribed", m.sub) /\ reader' = "reply"
  /\ UNCHANGED <<nextID, all, published, send, drops>>

HandleMessage(m) ==
  /\ m.event = "message" /\ ~PublishFails(m)
  /\ published' = published + 1
  /\ UNCHANGED <<reader, reply, subs, nextID, all, send, drops>>

\* Everything else is answered with an error: a wrapper that does not decode,
\* an unknown event, and what the handlers refuse.
HandleError(m) ==
  /\ \/ m.event \notin {"subscribe", "unsubscribe", "message"}
     \/ m.event = "subscribe" /\ SubscribeFails(m)
     \/ m.event = "unsubscribe" /\ m.sub \notin DOMAIN subs
     \/ m.event = "message" /\ PublishFails(m)
  /\ SendControl(Control("error", 0))
  /\ UNCHANGED <<reader, reply, subs, nextID, all, published>>

ReadMessage(m) ==
  /\ reader = "read" /\ conn # "shut" /\ ~lost /\ received < MaxMessages
  /\ received' = received + 1
  /\ HandleSubscribe(m) \/ HandleUnsubscribe(m) \/ HandleMessage(m) \/ HandleError(m)
  /\ UNCHANGED <<dispatcher, pending, writing, conn, lost>>

Acknowledge ==
  /\ reader = "reply"
  /\ SendControl(reply)
  /\ reader' = "read" /\ reply' = None
  /\ UNCHANGED <<dispatcher, received, published, subs, nextID, all, pending, writing, conn, lost>>

\* close: the first caller closes done.
Close == conn' = IF conn = "open" THEN "done" ELSE conn

\* A read error, or no message and no pong before the read deadline.
ReadFails ==
  /\ reader = "read" /\ (lost \/ conn = "shut")
  /\ Close
  /\ reader' = "gone"
  /\ UNCHANGED <<dispatcher, reply, received, published, subs, nextID, all, send, pending, writing,
                 lost, drops>>

-----------------------------------------------------------------------------
(* The write loop *)

Broken == lost \/ conn = "shut"

FlushDone == conn # "open" \/ Full \/ \A s \in Ids : pending[s] = None

Take ==
  /\ writer = "select" /\ send # <<>>
  /\ frame' = Head(send) /\ send' = Tail(send)
  /\ writer' = "write"
  /\ UNCHANGED <<dispatcher, reading, pending, written, got, conn, lost, drops>>

WriteFrame ==
  /\ writer = "write" /\ ~Broken
  /\ IF frame.event = "message"
       THEN /\ written' = [written EXCEPT ![frame.sub] = @ + 1]
            /\ got' = [got EXCEPT ![frame.sub] = @ \o frame.items]
       ELSE UNCHANGED <<written, got>>
  /\ frame' = None /\ writer' = "flush"
  /\ UNCHANGED <<dispatcher, reading, send, pending, conn, lost, drops>>

\* A write or a ping that fails ends the loop and closes the connection.
WriteFails ==
  /\ writer = "write" \/ (writer = "tick" /\ FlushDone)
  /\ Broken
  /\ Close
  /\ writer' = "gone" /\ frame' = None
  /\ UNCHANGED <<dispatcher, reading, send, pending, written, got, lost, drops>>

\* Mutant of Flush: the wrapper stays pending after it was queued.
FlushKeeps(s) ==
  /\ writer \in {"flush", "tick"} /\ conn = "open" /\ ~Full /\ pending[s] # None
  /\ send' = Append(send, pending[s])
  /\ UNCHANGED <<dispatcher, reading, pending, writing, conn, lost, drops>>

\* flushPending: pending wrappers are queued, in any order, while there is room.
Flush(s) ==
  /\ writer \in {"flush", "tick"} /\ conn = "open" /\ ~Full /\ pending[s] # None
  /\ send' = Append(send, pending[s])
  /\ pending' = [pending EXCEPT ![s] = None]
  /\ UNCHANGED <<dispatcher, reading, writing, conn, lost, drops>>

FlushEnds ==
  /\ FlushDone
  /\ \/ writer = "flush"
     \/ writer = "tick" /\ ~Broken
  /\ writer' = "select"
  /\ UNCHANGED <<dispatcher, reading, send, pending, frame, written, got, conn, lost, drops>>

\* Mutant of Tick: the ticker only pings.
TickPings ==
  /\ writer = "select" /\ Broken
  /\ writer' = "tick"
  /\ UNCHANGED <<dispatcher, reading, send, pending, frame, written, got, conn, lost, drops>>

\* The ping ticker: pending wrappers are flushed before the ping.  A tick that
\* has nothing to flush, on a connection that is up, changes nothing.
Tick ==
  /\ writer = "select" /\ (Broken \/ ~FlushDone)
  /\ writer' = "tick"
  /\ UNCHANGED <<dispatcher, reading, send, pending, frame, written, got, conn, lost, drops>>

WriterDone ==
  /\ writer = "select" /\ conn # "open"
  /\ writer' = "gone"
  /\ UNCHANGED <<dispatcher, reading, send, pending, frame, written, got, conn, lost, drops>>

-----------------------------------------------------------------------------
(* The rest of close, and the peer *)

Unregister ==
  /\ conn = "done"
  /\ conn' = "unregistered"
  /\ UNCHANGED <<dispatcher, reading, send, pending, writing, lost, drops>>

\* Mutant of CloseSocket: the socket is closed only when the buffer is empty.
CloseSocketDrained ==
  /\ conn = "unregistered" /\ send = <<>>
  /\ conn' = "shut"
  /\ UNCHANGED <<dispatcher, reading, send, pending, writing, lost, drops>>

CloseSocket ==
  /\ conn = "unregistered"
  /\ conn' = "shut"
  /\ UNCHANGED <<dispatcher, reading, send, pending, writing, lost, drops>>

LosePeer ==
  /\ ~lost
  /\ lost' = TRUE
  /\ UNCHANGED <<dispatcher, reading, send, pending, writing, conn, drops>>

Dispatch ==
  \/ TimerFires \/ StorePending
  \/ \E s \in DOMAIN targets : SendMessage(s)

\* The write loop without the write itself.
WriteLoop ==
  Take \/ WriteFails \/ (\E s \in Ids : Flush(s)) \/ FlushEnds \/ Tick \/ WriterDone

Next ==
  \/ Dispatch \/ (\E e \in Events : Receive(e))
  \/ (\E m \in Messages : ReadMessage(m)) \/ Acknowledge \/ ReadFails
  \/ WriteLoop \/ WriteFrame
  \/ Unregister \/ CloseSocket \/ LosePeer

Spec == Init /\ [][Next]_vars

\* The goroutines are scheduled; a write to a slow client may never end.
FairSpec ==
  /\ Spec
  /\ WF_vars(Dispatch) /\ WF_vars(Acknowledge \/ ReadFails) /\ WF_vars(WriteLoop)
  /\ WF_vars(Unregister \/ CloseSocket)

-----------------------------------------------------------------------------
(* Properties *)

InFlight(s) ==
  {i \in 1..Len(send) : send[i].event = "message" /\ send[i].sub = s}
    \cup (IF frame # None /\ frame.event = "message" /\ frame.sub = s THEN {0} ELSE {})

Discrete == {s \in 1..Len(all) : ~Hot(all[s].topic)}

\* While the connection is open, every wrapper of a discrete topic was written,
\* is on its way, or was counted as dropped.
EdgesAccounted ==
  conn = "open" =>
    \A s \in Discrete : made[s] = written[s] + Cardinality(InFlight(s)) + drops[s]

\* While the connection is open, the newest wrapper of a hot topic is never
\* lost: it was written, or is queued, being written, pending or held.
NewestKept ==
  conn = "open" =>
    \A s \in (1..Len(all)) \ Discrete :
      newest[s] # <<>> =>
        \/ \E i \in 1..Len(got[s]) : got[s][i] = newest[s][1]
        \/ \E w \in {send[i] : i \in 1..Len(send)} \cup {frame, pending[s], held} :
             w # None /\ w.event = "message" /\ w.sub = s /\ w.items = newest[s]

\* A full buffer loses nothing that is not counted or replaced by newer data.
LossAccounted == EdgesAccounted /\ NewestKept

\* What is delivered was asked for and allowed: every event that reached the
\* client is selected by the topic and the filter of its subscription, which the
\* token of its subscribe message was granted, and which is not switched off.
DeliveredAsAsked ==
  \A s \in 1..Len(all) : \A i \in 1..Len(got[s]) :
    LET n == got[s][i] IN
    /\ Selects(all[s].topic, all[s].filter, log[n].kind, log[n].item)
    /\ AuthEnabled => <<all[s].token, "subscribe", all[s].topic>> \in Grants
    /\ all[s].topic = "collision_events" => CollisionsEnabled

Delivery == INSTANCE WsDelivery WITH emitted <- Len(log), discrete <- Discrete

\* The connection implements the contract of WsDelivery: no event twice, and the
\* discrete topics in order, through batches, the buffer and pending wrappers.
DeliverySpec == Delivery!Spec

\* A slow client does not hold up the fan-out: the dispatcher finishes every
\* broadcast, even if a write to this connection never ends.
FanOutUnblocked == (outgoing # <<>>) ~> (outgoing = <<>>)

\* A wrapper stays pending for ever only behind a write that never ends.
PendingFlushed ==
  <>[](conn = "open" /\ \E s \in Ids : pending[s] # None) => <>[](writer = "write")

\* When the peer is gone, both loops end and the connection is taken down.
Reaped == lost ~> (reader = "gone" /\ writer = "gone" /\ conn = "shut")
=============================================================================
