------------------------------ MODULE EventBus ------------------------------
(***************************************************************************)
(* The in-process event bus of the hub (src/internal/hub/events.go), seen  *)
(* by one of its subscribers.  Subscribers share nothing but the emitters' *)
(* loop over them, and no step of that loop blocks, so one subscriber is   *)
(* the whole story of delivery.                                            *)
(*                                                                         *)
(* Three kinds of goroutines act on an eventSubscriber:                    *)
(*   - emitters, inside EmitBatch and deliver;                             *)
(*   - the flush loop, which moves coalesced events to the channel;        *)
(*   - the consumer (MQTT publisher or WebSocket hub) reading the channel. *)
(* Every critical section of the subscriber's mutex and every channel      *)
(* operation is one step; between two of them any other goroutine may run. *)
(***************************************************************************)
EXTENDS Naturals, Sequences

CONSTANTS
  Emitters,      \* goroutines that call EmitBatch
  Keys,          \* coalescing keys: kind|scope|provider|source or trackable
  Discrete,      \* stands for the key of an event that is never coalesced
  Owners,        \* Owners[k]: the goroutines that emit events of key k
  NoEvent,       \* absence of an event
  Buffer,        \* capacity of the subscriber's channel
  PendingLimit,  \* subscriberPendingLimit
  MaxEvents      \* bound: events emitted in a behaviour

Event == [key : Keys \cup {Discrete}, by : Emitters, seq : Nat]

ASSUME EventBusAssumption ==
  /\ Discrete \notin Keys
  /\ Owners \in [Keys -> SUBSET Emitters]
  /\ NoEvent \notin Event
  /\ Buffer \in Nat \ {0}
  /\ PendingLimit \in Nat \ {0}
  /\ MaxEvents \in Nat

VARIABLES
  registered,    \* the subscriber is in b.subscribers
  done,          \* s.done is closed
  chClosed,      \* s.ch is closed
  sent,          \* every event ever put on s.ch, in order
  taken,         \* how many of them the consumer has read
  pending,       \* s.pending, NoEvent where the map has no entry
  pendingOrder,  \* s.pendingOrder
  flushSignal,   \* s.flushSignal holds its one token
  pc,            \* where each emitter is ...
  arg,           \* ... and the event it is delivering
  flushPc,       \* where the flush loop is ...
  peeked,        \* ... and the event it took from pending
  accepted,      \* the events for which deliver returned true
  dropped,       \* the events given to RecordEventBusDrop
  lastSeq        \* number of events created so far

lifecycle == <<registered, done, chClosed>>
channel   == <<sent, taken>>
coalesced == <<pending, pendingOrder, flushSignal>>
emitting  == <<pc, arg, accepted, dropped, lastSeq>>
flushing  == <<flushPc, peeked>>

vars == <<lifecycle, channel, coalesced, emitting, flushing>>

Coalescible(ev) == ev.key \in Keys

\* What s.ch holds: sent and not yet read.
BufferedEvents == Len(sent) - taken

\* The copy of s without its first element equal to x, if it has one.
RemoveKey(s, x) ==
  IF \E i \in 1..Len(s) : s[i] = x
    THEN LET first == CHOOSE i \in 1..Len(s) : s[i] = x /\ \A j \in 1..(i-1) : s[j] # x
         IN [j \in 1..(Len(s) - 1) |-> IF j < first THEN s[j] ELSE s[j+1]]
    ELSE s

-----------------------------------------------------------------------------
(* Registration *)

Init ==
  /\ registered = FALSE /\ done = FALSE /\ chClosed = FALSE
  /\ sent = <<>> /\ taken = 0
  /\ pending = [k \in Keys |-> NoEvent] /\ pendingOrder = <<>> /\ flushSignal = FALSE
  /\ pc = [e \in Emitters |-> "idle"] /\ arg = [e \in Emitters |-> NoEvent]
  /\ accepted = {} /\ dropped = {} /\ lastSeq = 0
  /\ flushPc = "wait" /\ peeked = NoEvent

Subscribe ==
  /\ ~registered /\ ~done
  /\ registered' = TRUE
  /\ UNCHANGED <<done, chClosed, channel, coalesced, emitting, flushing>>

\* The function that Subscribe returns deletes the entry and closes s.done.
Unsubscribe ==
  /\ registered
  /\ registered' = FALSE
  /\ done' = TRUE
  /\ UNCHANGED <<chClosed, channel, coalesced, emitting, flushing>>

-----------------------------------------------------------------------------
(* Emitters *)

\* EmitBatch copies the subscribers under the read lock; a batch whose copy
\* lacks the subscriber does not concern it.
EmitBatch(e) ==
  /\ pc[e] = "idle"
  /\ registered
  /\ pc' = [pc EXCEPT ![e] = "batch"]
  /\ UNCHANGED <<lifecycle, channel, coalesced, arg, accepted, dropped, lastSeq, flushing>>

\* The next event of the batch, and the call of deliver for it.
NextEvent(e, k) ==
  /\ pc[e] = "batch"
  /\ k \in Keys => e \in Owners[k]
  /\ lastSeq < MaxEvents
  /\ lastSeq' = lastSeq + 1
  /\ arg' = [arg EXCEPT ![e] = [key |-> k, by |-> e, seq |-> lastSeq + 1]]
  /\ pc' = [pc EXCEPT ![e] = IF k \in Keys THEN "check" ELSE "select"]
  /\ UNCHANGED <<lifecycle, channel, coalesced, accepted, dropped, flushing>>

EndBatch(e) ==
  /\ pc[e] = "batch"
  /\ pc' = [pc EXCEPT ![e] = "idle"]
  /\ UNCHANGED <<lifecycle, channel, coalesced, arg, accepted, dropped, lastSeq, flushing>>

\* deliver returned: true is an accepted event, false a recorded drop.
Accept(e) ==
  /\ pc' = [pc EXCEPT ![e] = "batch"]
  /\ arg' = [arg EXCEPT ![e] = NoEvent]
  /\ accepted' = accepted \cup {arg[e]}
  /\ UNCHANGED <<dropped, lastSeq>>

Drop(e) ==
  /\ pc' = [pc EXCEPT ![e] = "batch"]
  /\ arg' = [arg EXCEPT ![e] = NoEvent]
  /\ dropped' = dropped \cup {arg[e]}
  /\ UNCHANGED <<accepted, lastSeq>>

Goto(e, label) ==
  /\ pc' = [pc EXCEPT ![e] = label]
  /\ UNCHANGED <<arg, accepted, dropped, lastSeq>>

\* Mutant of DeliverCheck: a waiting value of the key is overlooked.
DeliverCheckOverlooks(e) ==
  /\ pc[e] = "check"
  /\ Goto(e, "select")
  /\ UNCHANGED <<lifecycle, channel, coalesced, flushing>>

\* First critical section of deliver: overwrite the pending value of the key,
\* or find out whether other keys are waiting.
DeliverCheck(e) ==
  /\ pc[e] = "check"
  /\ \/ /\ pending[arg[e].key] # NoEvent
        /\ pending' = [pending EXCEPT ![arg[e].key] = arg[e]]
        /\ Goto(e, "signal")
     \/ /\ pending[arg[e].key] = NoEvent
        /\ Goto(e, IF pendingOrder # <<>> THEN "enqueue" ELSE "select")
        /\ UNCHANGED pending
  /\ UNCHANGED <<lifecycle, channel, pendingOrder, flushSignal, flushing>>

SignalFlush(e) ==
  /\ pc[e] = "signal"
  /\ flushSignal' = TRUE
  /\ Accept(e)
  /\ UNCHANGED <<lifecycle, channel, pending, pendingOrder, flushing>>

\* The select of deliver.  A closed s.done is ready; so is a send on a closed
\* channel, and that one panics and takes the process down; default runs only
\* when nothing is ready.
SelectDone(e) ==
  /\ pc[e] = "select"
  /\ done
  /\ Drop(e)
  /\ UNCHANGED <<lifecycle, channel, coalesced, flushing>>

SelectSend(e) ==
  /\ pc[e] = "select"
  /\ ~chClosed
  /\ BufferedEvents < Buffer
  /\ sent' = Append(sent, arg[e])
  /\ IF Coalescible(arg[e]) THEN Goto(e, "clear") ELSE Accept(e)
  /\ UNCHANGED <<lifecycle, taken, coalesced, flushing>>

SelectPanic(e) ==
  /\ pc[e] = "select"
  /\ chClosed
  /\ pc' = [x \in Emitters |-> "crashed"]
  /\ UNCHANGED <<lifecycle, channel, coalesced, arg, accepted, dropped, lastSeq, flushing>>

\* Mutant of SelectDefault: deliver tries again until the consumer makes room.
SelectDefaultRetries(e) ==
  /\ pc[e] = "select"
  /\ ~done
  /\ BufferedEvents >= Buffer
  /\ UNCHANGED vars

SelectDefault(e) ==
  /\ pc[e] = "select"
  /\ ~done
  /\ BufferedEvents >= Buffer
  /\ IF Coalescible(arg[e]) THEN Goto(e, "enqueue") ELSE Drop(e)
  /\ UNCHANGED <<lifecycle, channel, coalesced, flushing>>

EnqueuePending(e) ==
  /\ pc[e] = "enqueue"
  /\ LET k == arg[e].key
         known == pending[k] # NoEvent
     IN \/ /\ known \/ Len(pendingOrder) < PendingLimit
           /\ pending' = [pending EXCEPT ![k] = arg[e]]
           /\ pendingOrder' = IF known THEN pendingOrder ELSE Append(pendingOrder, k)
           /\ flushSignal' = TRUE
           /\ Accept(e)
        \/ /\ ~known /\ Len(pendingOrder) >= PendingLimit
           /\ Drop(e)
           /\ UNCHANGED coalesced
  /\ UNCHANGED <<lifecycle, channel, flushing>>

\* clearPending, after a direct send of a coalescible event.
ClearPending(e) ==
  /\ pc[e] = "clear"
  /\ LET k == arg[e].key
     IN /\ pending' = [pending EXCEPT ![k] = NoEvent]
        /\ pendingOrder' = IF pending[k] # NoEvent THEN RemoveKey(pendingOrder, k)
                                                    ELSE pendingOrder
  /\ Accept(e)
  /\ UNCHANGED <<lifecycle, channel, flushSignal, flushing>>

-----------------------------------------------------------------------------
(* The flush loop *)

FlushWake ==
  /\ flushPc = "wait"
  /\ flushSignal
  /\ flushSignal' = FALSE
  /\ flushPc' = "peek"
  /\ UNCHANGED <<lifecycle, channel, pending, pendingOrder, emitting, peeked>>

FlushExit ==
  /\ flushPc = "wait"
  /\ done
  /\ chClosed' = TRUE
  /\ flushPc' = "exited"
  /\ UNCHANGED <<registered, done, channel, coalesced, emitting, peeked>>

\* peekPending skips, and forgets, leading keys without a pending value.
PeekPending ==
  /\ flushPc = "peek"
  /\ \E skip \in 0..Len(pendingOrder) :
       /\ \A i \in 1..skip : pending[pendingOrder[i]] = NoEvent
       /\ pendingOrder' = SubSeq(pendingOrder, skip + 1, Len(pendingOrder))
       /\ \/ /\ skip = Len(pendingOrder)
             /\ flushPc' = "wait"
             /\ UNCHANGED peeked
          \/ /\ skip < Len(pendingOrder)
             /\ pending[pendingOrder[skip + 1]] # NoEvent
             /\ flushPc' = "send"
             /\ peeked' = pending[pendingOrder[skip + 1]]
  /\ UNCHANGED <<lifecycle, channel, pending, flushSignal, emitting>>

FlushSend ==
  /\ flushPc = "send"
  /\ BufferedEvents < Buffer
  /\ sent' = Append(sent, peeked)
  /\ flushPc' = "remove"
  /\ UNCHANGED <<lifecycle, taken, coalesced, emitting, peeked>>

\* Mutant of FlushReturn: the event that found no room is taken out of pending.
FlushReturnDiscards ==
  /\ flushPc = "send"
  /\ done \/ BufferedEvents >= Buffer
  /\ pending' = [pending EXCEPT ![peeked.key] = NoEvent]
  /\ pendingOrder' = RemoveKey(pendingOrder, peeked.key)
  /\ flushPc' = "wait"
  /\ peeked' = NoEvent
  /\ UNCHANGED <<lifecycle, channel, flushSignal, emitting>>

\* flushPending returns early: s.done is closed, or the channel is full.
FlushReturn ==
  /\ flushPc = "send"
  /\ done \/ BufferedEvents >= Buffer
  /\ flushPc' = "wait"
  /\ peeked' = NoEvent
  /\ UNCHANGED <<lifecycle, channel, coalesced, emitting>>

RemovePending ==
  /\ flushPc = "remove"
  /\ pending' = [pending EXCEPT ![peeked.key] = NoEvent]
  /\ pendingOrder' = RemoveKey(pendingOrder, peeked.key)
  /\ flushPc' = "peek"
  /\ peeked' = NoEvent
  /\ UNCHANGED <<lifecycle, channel, flushSignal, emitting>>

-----------------------------------------------------------------------------
(* The consumer: runEventPublisher or the WebSocket hub's consume loop *)

Receive ==
  /\ \A e \in Emitters : pc[e] # "crashed"
  /\ BufferedEvents > 0
  /\ taken' = taken + 1
  /\ UNCHANGED <<lifecycle, sent, coalesced, emitting, flushing>>

-----------------------------------------------------------------------------

Deliver(e) ==
  \/ DeliverCheck(e) \/ SignalFlush(e) \/ EnqueuePending(e) \/ ClearPending(e)
  \/ SelectDone(e) \/ SelectSend(e) \/ SelectPanic(e) \/ SelectDefault(e)

FlushLoop ==
  FlushWake \/ FlushExit \/ PeekPending \/ FlushSend \/ FlushReturn \/ RemovePending

Next ==
  \/ Subscribe
  \/ Unsubscribe
  \/ \E e \in Emitters :
       \/ EmitBatch(e) \/ EndBatch(e) \/ Deliver(e)
       \/ \E k \in Keys \cup {Discrete} : NextEvent(e, k)
  \/ FlushLoop
  \/ Receive

Spec == Init /\ [][Next]_vars

\* The Go scheduler runs every runnable goroutine: a deliver in progress and
\* the flush loop keep going.  Nothing makes an emitter start a new batch.
SchedulerFairness ==
  /\ \A e \in Emitters : WF_vars(Deliver(e))
  /\ WF_vars(FlushLoop)

\* ... and the consumer keeps reading.
ConsumerFairness == WF_vars(Receive)

SchedulerSpec == Spec /\ SchedulerFairness

FairSpec == Spec /\ SchedulerFairness /\ ConsumerFairness
-----------------------------------------------------------------------------
(* Properties *)

EmitterLabels ==
  {"idle", "batch", "check", "signal", "select", "enqueue", "clear", "crashed"}
FlusherLabels == {"wait", "peek", "send", "remove", "exited"}

\* An emitter has an event in hand exactly while it is inside deliver.
Delivering(e) == pc[e] \notin {"idle", "batch", "crashed"}

\* The events that may wait in pending.
CoalescibleEvent == [key : Keys, by : Emitters, seq : Nat]

\* Every variable has its type; s.ch never holds more than its capacity and
\* pendingOrder never more than subscriberPendingLimit keys.
TypeOK ==
  /\ registered \in BOOLEAN /\ done \in BOOLEAN /\ chClosed \in BOOLEAN
  /\ flushSignal \in BOOLEAN
  /\ sent \in Seq(Event) /\ taken \in Nat
  /\ BufferedEvents \in 0..Buffer
  /\ pending \in [Keys -> CoalescibleEvent \cup {NoEvent}]
  /\ pendingOrder \in Seq(Keys) /\ Len(pendingOrder) <= PendingLimit
  /\ pc \in [Emitters -> EmitterLabels]
  /\ arg \in [Emitters -> Event \cup {NoEvent}]
  /\ \A e \in Emitters :
       Delivering(e) => arg[e] \in IF pc[e] = "select" THEN Event ELSE CoalescibleEvent
  /\ flushPc \in FlusherLabels
  /\ peeked \in CoalescibleEvent \cup {NoEvent}
  /\ flushPc \in {"send", "remove"} => peeked \in CoalescibleEvent
  /\ accepted \in SUBSET Event /\ dropped \in SUBSET Event
  /\ lastSeq \in Nat

\* The map and the order slice of a subscriber agree whatever goroutines touch
\* them: a key is in pendingOrder exactly when it has a pending event, and only
\* once, and the event is one of that key.  A key left in the slice without a
\* value would use up the pending limit; a value without a slot would never be
\* flushed and would swallow every later event of its key.
PendingConsistent ==
  /\ \A i, j \in 1..Len(pendingOrder) : pendingOrder[i] = pendingOrder[j] => i = j
  /\ \A k \in Keys : pending[k] # NoEvent <=> \E i \in 1..Len(pendingOrder) : pendingOrder[i] = k
  /\ \A k \in Keys : pending[k] # NoEvent => pending[k].key = k

\* Two events of one stream: of one key (or both discrete), from one goroutine.
SameStream(x, y) == x.key = y.key /\ x.by = y.by

SingleEmitter(k) == \E e \in Emitters : Owners[k] = {e}

\* The consumer sees the events of a stream in the order they were emitted,
\* none of them twice, although some travel through the channel directly and
\* some through pending and the flush loop.  For a coalescing key this needs
\* all its events to come from one goroutine.
StreamOrder ==
  \A i, j \in 1..Len(sent) :
    /\ i < j
    /\ SameStream(sent[i], sent[j])
    /\ Coalescible(sent[i]) => SingleEmitter(sent[i].key)
    => sent[i].seq < sent[j].seq

\* Coalescing never forgets an object: once an event of a key has been accepted,
\* some event of that key has been sent or is still pending.
KeyNeverLost ==
  \A ev \in accepted :
    \/ \E i \in 1..Len(sent) : sent[i].key = ev.key
    \/ Coalescible(ev) /\ pending[ev.key] # NoEvent

\* Discrete edges are not coalesced: each accepted one was put on the channel,
\* and an event recorded as a drop was not.
DropsAccounted ==
  /\ \A ev \in accepted : ~Coalescible(ev) => \E i \in 1..Len(sent) : sent[i] = ev
  /\ \A i \in 1..Len(sent) : sent[i] \notin dropped
  /\ accepted \cap dropped = {}

\* What deliver accepted is not lost, and what it reports lost was not sent:
\* an object survives coalescing, a discrete edge is never coalesced.
AcceptedKept == KeyNeverLost /\ DropsAccounted

\* While the subscriber is there, an accepted event is followed by its like: it,
\* or a newer event of its key, has been sent or is pending.
NoSilentLoss ==
  ~done => \A ev \in accepted :
    \/ \E i \in 1..Len(sent) : sent[i].key = ev.key /\ sent[i].seq >= ev.seq
    \/ Coalescible(ev) /\ pending[ev.key] # NoEvent /\ pending[ev.key].seq >= ev.seq

\* Unsubscribing makes deliver return false; it does not crash the emitter.
NoSendOnClosedChannel == \A e \in Emitters : pc[e] # "crashed"

\* Emitting never waits for the consumer: deliver returns even if nothing is
\* ever read from the channel.
DeliverReturns == \A e \in Emitters : Delivering(e) ~> ~Delivering(e)

\* After unsubscribe the channel is closed, so that the consumer's loop ends and
\* the shutdown that waits for it goes on.
ChannelCloses == done ~> chClosed

\* A consumer that stops reading holds nobody up: neither an emitter in deliver
\* nor, after unsubscribe, whoever waits for the channel to close.
NobodyHeldUp == DeliverReturns /\ ChannelCloses

\* A coalesced event reaches a consumer that keeps reading.
PendingDrains == \A k \in Keys : pending[k] # NoEvent ~> (pending[k] = NoEvent \/ done)
=============================================================================
