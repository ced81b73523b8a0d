------------------------- MODULE NotificationProofs -------------------------
(***************************************************************************)
(* Proofs about EventBus, for every number of goroutines, keys and events, *)
(* and about MetadataCache, whose changes it carries, for every set of     *)
(* resources, documents and request handlers.  On the bus: types,          *)
(* capacities and the pending structures; where an event can be and what   *)
(* each step does to its place; order, coalescing and drops.  In the cache:*)
(* indexes, notifications and reloads.                                     *)
(***************************************************************************)
EXTENDS EventBus, MetadataCache, TLAPS

-----------------------------------------------------------------------------
(* Removing a key from pendingOrder *)

NoRepeat(s) == \A i, j \in 1..Len(s) : s[i] = s[j] => i = j

Occurs(x, s) == \E i \in 1..Len(s) : s[i] = x

\* RemoveKey yields a sequence over the same set that is not longer.
LEMMA RemoveKeyType ==
  ASSUME NEW S, NEW s \in Seq(S), NEW x
  PROVE  RemoveKey(s, x) \in Seq(S) /\ Len(RemoveKey(s, x)) <= Len(s)
<1>1. CASE ~ \E i \in 1..Len(s) : s[i] = x
  BY <1>1 DEF RemoveKey
<1>2. CASE \E i \in 1..Len(s) : s[i] = x
  <2> DEFINE first == CHOOSE i \in 1..Len(s) : s[i] = x /\ \A j \in 1..(i-1) : s[j] # x
  <2> HIDE DEF first
  <2>1. RemoveKey(s, x) = [j \in 1..(Len(s) - 1) |-> IF j < first THEN s[j] ELSE s[j+1]]
    BY <1>2, Zenon DEF RemoveKey, first
  <2>2. Len(s) \in Nat /\ Len(s) >= 1
    BY <1>2
  <2>3. \A j \in 1..(Len(s) - 1) : s[j] \in S /\ s[j+1] \in S
    BY <2>2
  <2>4. RemoveKey(s, x) \in Seq(S)
    BY <2>1, <2>2, <2>3
  <2>5. Len(RemoveKey(s, x)) = Len(s) - 1
    BY <2>1, <2>2
  <2> QED
    BY <2>2, <2>4, <2>5
<1> QED
  BY <1>1, <1>2, Zenon

\* In a sequence without repetitions RemoveKey takes out exactly the key.
LEMMA RemoveKeyElements ==
  ASSUME NEW S, NEW s \in Seq(S), NEW x, NoRepeat(s)
  PROVE  /\ NoRepeat(RemoveKey(s, x))
         /\ \A y \in S : Occurs(y, RemoveKey(s, x)) <=> (Occurs(y, s) /\ y # x)
<1>1. CASE ~ Occurs(x, s)
  <2>1. RemoveKey(s, x) = s
    BY <1>1, Zenon DEF RemoveKey, Occurs
  <2> QED
    BY <1>1, <2>1, Zenon DEF Occurs
<1>2. CASE Occurs(x, s)
  <2>1. PICK p \in 1..Len(s) : s[p] = x
    BY <1>2, Zenon DEF Occurs
  <2>2. \A i \in 1..Len(s) : s[i] = x <=> i = p
    BY <2>1, Zenon DEF NoRepeat
  <2>3. \A i \in 1..Len(s) : (s[i] = x /\ \A j \in 1..(i-1) : s[j] # x) <=> i = p
    BY <2>1, <2>2
  <2>4. p = CHOOSE i \in 1..Len(s) : s[i] = x /\ \A j \in 1..(i-1) : s[j] # x
    BY <2>3, Zenon
  <2> DEFINE t == [j \in 1..(Len(s) - 1) |-> IF j < p THEN s[j] ELSE s[j+1]]
  <2>5. RemoveKey(s, x) = t
    BY <2>1, <2>4, Zenon DEF RemoveKey
  <2>6. Len(s) \in Nat /\ Len(s) >= 1 /\ Len(t) = Len(s) - 1
    BY <2>1
  <2>7. NoRepeat(t)
    BY <2>6 DEF NoRepeat
  <2>8. ASSUME NEW y \in S, Occurs(y, t)
        PROVE  Occurs(y, s) /\ y # x
    <3>1. PICK i \in 1..(Len(s) - 1) : t[i] = y
      BY <2>6, <2>8, Zenon DEF Occurs
    <3>2. CASE i < p
      BY <2>2, <2>6, <3>1, <3>2 DEF Occurs
    <3>3. CASE ~(i < p)
      <4>1. i + 1 \in 1..Len(s) /\ s[i+1] = y /\ i + 1 # p
        BY <2>6, <3>1, <3>3
      <4> QED
        BY <2>2, <4>1, Zenon DEF Occurs
    <3> QED
      BY <3>2, <3>3, Zenon
  <2>9. ASSUME NEW y \in S, Occurs(y, s), y # x
        PROVE  Occurs(y, t)
    <3>1. PICK i \in 1..Len(s) : s[i] = y
      BY <2>9, Zenon DEF Occurs
    <3>2. i # p
      BY <2>9, <2>1, <3>1, Zenon
    <3>3. CASE i < p
      <4>1. i \in 1..(Len(s) - 1) /\ t[i] = y
        BY <2>6, <3>1, <3>3
      <4> QED
        BY <2>6, <4>1, Zenon DEF Occurs
    <3>4. CASE i > p
      <4>1. i - 1 \in 1..(Len(s) - 1) /\ t[i-1] = y
        BY <2>6, <3>1, <3>4
      <4> QED
        BY <2>6, <4>1, Zenon DEF Occurs
    <3> QED
      BY <3>2, <3>3, <3>4
  <2> QED
    BY <2>5, <2>7, <2>8, <2>9, Zenon
<1> QED
  BY <1>1, <1>2, Zenon

-----------------------------------------------------------------------------
(* Type correctness *)

USE EventBusAssumption

\* Appending to the channel when it has room keeps it within its capacity.
LEMMA SendType ==
  ASSUME sent \in Seq(Event), taken \in Nat, BufferedEvents \in 0..Buffer,
         NEW ev \in Event, BufferedEvents < Buffer,
         sent' = Append(sent, ev), taken' = taken
  PROVE  sent' \in Seq(Event) /\ taken' \in Nat /\ BufferedEvents' \in 0..Buffer
<1>1. sent' \in Seq(Event) /\ Len(sent') = Len(sent) + 1
  OBVIOUS
<1> QED
  BY <1>1 DEF BufferedEvents

\* An event that may be coalesced is an event.
LEMMA CoalescibleIsEvent ==
  /\ CoalescibleEvent \subseteq Event
  /\ \A ev \in Event : Coalescible(ev) => ev \in CoalescibleEvent
  /\ NoEvent \notin CoalescibleEvent
BY Zenon DEF CoalescibleEvent, Event, Coalescible

\* What an emitter's variables must satisfy; the part of TypeOK that its steps
\* can disturb.
EmitterTypeOK ==
  /\ pc \in [Emitters -> EmitterLabels]
  /\ arg \in [Emitters -> Event \cup {NoEvent}]
  /\ \A e \in Emitters :
       Delivering(e) => arg[e] \in IF pc[e] = "select" THEN Event ELSE CoalescibleEvent
  /\ accepted \in SUBSET Event /\ dropped \in SUBSET Event
  /\ lastSeq \in Nat

\* Whatever the goroutine of e does inside deliver, the emitters' variables
\* stay well typed.
LEMMA EmitterStepType ==
  ASSUME EmitterTypeOK, NEW e \in Emitters, Delivering(e),
         \/ Accept(e) \/ Drop(e)
         \/ \E l \in EmitterLabels \ {"idle", "batch", "crashed"} :
              Goto(e, l) /\ arg[e] \in CoalescibleEvent
  PROVE  EmitterTypeOK'
<1>1. arg[e] \in Event
  BY CoalescibleIsEvent, Zenon DEF EmitterTypeOK
<1>2. CASE Accept(e)
  BY <1>1, <1>2, Zenon DEF EmitterTypeOK, Accept, Delivering, EmitterLabels
<1>3. CASE Drop(e)
  BY <1>1, <1>3, Zenon DEF EmitterTypeOK, Drop, Delivering, EmitterLabels
<1>4. ASSUME NEW l \in EmitterLabels \ {"idle", "batch", "crashed"},
             Goto(e, l), arg[e] \in CoalescibleEvent
      PROVE  EmitterTypeOK'
  BY <1>1, <1>4, Zenon DEF EmitterTypeOK, Goto, Delivering
<1> QED
  BY <1>2, <1>3, <1>4, Zenon

\* The rest of TypeOK.
SubscriberTypeOK ==
  /\ registered \in BOOLEAN /\ done \in BOOLEAN /\ chClosed \in BOOLEAN
  /\ flushSignal \in BOOLEAN
  /\ sent \in Seq(Event) /\ taken \in Nat
  /\ BufferedEvents \in 0..Buffer
  /\ pending \in [Keys -> CoalescibleEvent \cup {NoEvent}]
  /\ pendingOrder \in Seq(Keys) /\ Len(pendingOrder) <= PendingLimit
  /\ flushPc \in FlusherLabels
  /\ peeked \in CoalescibleEvent \cup {NoEvent}
  /\ flushPc \in {"send", "remove"} => peeked \in CoalescibleEvent

\* TypeOK is what the emitters' and the subscriber's variables satisfy.
LEMMA TypeParts == TypeOK <=> EmitterTypeOK /\ SubscriberTypeOK
BY Zenon DEF TypeOK, EmitterTypeOK, SubscriberTypeOK

\* Initially every variable has its type.
LEMMA InitType == Init => TypeOK
<1> SUFFICES ASSUME Init PROVE TypeOK
  BY Zenon
<1>1. EmitterTypeOK
  BY Zenon DEF Init, EmitterTypeOK, EmitterLabels, Delivering
<1>2. sent = <<>> /\ pendingOrder = <<>> /\ taken = 0
  BY Zenon DEF Init
<1>3. sent \in Seq(Event) /\ Len(sent) = 0 /\ pendingOrder \in Seq(Keys) /\ Len(pendingOrder) = 0
  BY <1>2
<1>4. BufferedEvents \in 0..Buffer
  BY <1>2, <1>3 DEF BufferedEvents
<1>5. pending \in [Keys -> CoalescibleEvent \cup {NoEvent}]
  BY Zenon DEF Init
<1>6. /\ registered \in BOOLEAN /\ done \in BOOLEAN /\ chClosed \in BOOLEAN
      /\ flushSignal \in BOOLEAN
  BY Zenon DEF Init
<1>7. /\ flushPc \in FlusherLabels /\ peeked = NoEvent
      /\ ~(flushPc \in {"send", "remove"})
  BY Zenon DEF Init, FlusherLabels
<1>8. SubscriberTypeOK
  BY <1>2, <1>3, <1>4, <1>5, <1>6, <1>7 DEF SubscriberTypeOK
<1> QED
  BY <1>1, <1>8, TypeParts, Zenon

\* Every step keeps the emitters' variables well typed.
LEMMA EmitterType == EmitterTypeOK /\ [Next]_vars => EmitterTypeOK'
<1> SUFFICES ASSUME EmitterTypeOK, [Next]_vars PROVE EmitterTypeOK'
  BY Zenon
<1>1. ASSUME UNCHANGED emitting PROVE EmitterTypeOK'
  BY <1>1, Zenon DEF emitting, EmitterTypeOK, Delivering
<1>2. CASE UNCHANGED vars
  BY <1>1, <1>2, Zenon DEF vars
<1>3. CASE Subscribe \/ Unsubscribe \/ FlushLoop \/ Receive
  BY <1>1, <1>3, Zenon DEF Subscribe, Unsubscribe, FlushLoop, FlushWake, FlushExit, PeekPending,
                    FlushSend, FlushReturn, RemovePending, Receive
<1>4. ASSUME NEW e \in Emitters, EmitBatch(e) \/ EndBatch(e) PROVE EmitterTypeOK'
  BY <1>4, Zenon DEF EmitBatch, EndBatch, EmitterTypeOK, Delivering, EmitterLabels
<1>5. ASSUME NEW e \in Emitters, NEW k \in Keys \cup {Discrete}, NextEvent(e, k)
      PROVE  EmitterTypeOK'
  <2> DEFINE ev == [key |-> k, by |-> e, seq |-> lastSeq + 1]
  <2>1. ev \in Event /\ (k \in Keys => ev \in CoalescibleEvent)
    BY DEF Event, CoalescibleEvent, EmitterTypeOK
  <2> HIDE DEF ev
  <2>2. arg' = [arg EXCEPT ![e] = ev]
    BY <1>5, Zenon DEF NextEvent, ev
  <2> QED
    BY <1>5, <2>1, <2>2 DEF NextEvent, EmitterTypeOK, Delivering, EmitterLabels
<1>6. ASSUME NEW e \in Emitters, Deliver(e) PROVE EmitterTypeOK'
  <2>1. CASE DeliverCheck(e)
    <3>1. arg[e] \in CoalescibleEvent /\ Delivering(e)
      BY <2>1, Zenon DEF DeliverCheck, EmitterTypeOK, Delivering
    <3>2. \E l \in EmitterLabels \ {"idle", "batch", "crashed"} : Goto(e, l)
      BY <2>1, Zenon DEF DeliverCheck, EmitterLabels
    <3> QED
      BY <3>1, <3>2, EmitterStepType, Zenon
  <2>2. CASE SignalFlush(e) \/ SelectDone(e) \/ EnqueuePending(e) \/ ClearPending(e)
    <3>1. Delivering(e)
      BY <2>2, Zenon DEF SignalFlush, SelectDone, EnqueuePending, ClearPending, Delivering
    <3>2. Accept(e) \/ Drop(e)
      BY <2>2, Zenon DEF SignalFlush, SelectDone, EnqueuePending, ClearPending
    <3> QED
      BY <3>1, <3>2, EmitterStepType, Zenon
  <2>3. CASE SelectSend(e) \/ SelectDefault(e)
    <3>1. Delivering(e) /\ arg[e] \in Event
      BY <2>3, Zenon DEF SelectSend, SelectDefault, Delivering, EmitterTypeOK
    <3>2. CASE Coalescible(arg[e])
      <4>1. Goto(e, "clear") \/ Goto(e, "enqueue")
        BY <2>3, <3>2, Zenon DEF SelectSend, SelectDefault
      <4>2. arg[e] \in CoalescibleEvent
        BY <3>1, <3>2, CoalescibleIsEvent, Zenon
      <4>3. {"clear", "enqueue"} \subseteq EmitterLabels \ {"idle", "batch", "crashed"}
        BY Zenon DEF EmitterLabels
      <4> QED
        BY <3>1, <4>1, <4>2, <4>3, EmitterStepType, Zenon
    <3>3. CASE ~Coalescible(arg[e])
      <4>1. Accept(e) \/ Drop(e)
        BY <2>3, <3>3, Zenon DEF SelectSend, SelectDefault
      <4> QED
        BY <3>1, <4>1, EmitterStepType, Zenon
    <3> QED
      BY <3>2, <3>3, Zenon
  <2>4. CASE SelectPanic(e)
    BY <2>4, Zenon DEF SelectPanic, EmitterTypeOK, Delivering, EmitterLabels
  <2> QED
    BY <1>6, <2>1, <2>2, <2>3, <2>4, Zenon DEF Deliver
<1> QED
  BY <1>2, <1>3, <1>4, <1>5, <1>6, Zenon DEF Next

\* Every step keeps the subscriber's variables well typed.
LEMMA SubscriberType == TypeOK /\ [Next]_vars => SubscriberTypeOK'
<1> SUFFICES ASSUME TypeOK, [Next]_vars PROVE SubscriberTypeOK'
  BY Zenon
<1>0. EmitterTypeOK /\ SubscriberTypeOK
  BY TypeParts, Zenon
<1>1. ASSUME UNCHANGED <<channel, coalesced, flushing>>,
             registered' \in BOOLEAN, done' \in BOOLEAN, chClosed' \in BOOLEAN
      PROVE  SubscriberTypeOK'
  BY <1>0, <1>1, Zenon DEF channel, coalesced, flushing, SubscriberTypeOK, BufferedEvents
<1>2. CASE UNCHANGED vars
  BY <1>0, <1>1, <1>2, Zenon DEF vars, lifecycle, SubscriberTypeOK
<1>3. CASE Subscribe \/ Unsubscribe
  BY <1>0, <1>1, <1>3, Zenon DEF Subscribe, Unsubscribe, SubscriberTypeOK
<1>4. ASSUME NEW e \in Emitters,
             \/ EmitBatch(e) \/ EndBatch(e) \/ \E k \in Keys \cup {Discrete} : NextEvent(e, k)
             \/ SelectDone(e) \/ SelectPanic(e) \/ SelectDefault(e)
      PROVE  SubscriberTypeOK'
  BY <1>0, <1>1, <1>4, Zenon DEF EmitBatch, EndBatch, NextEvent, SelectDone, SelectPanic,
                          SelectDefault, lifecycle, SubscriberTypeOK
<1>5. ASSUME NEW e \in Emitters, DeliverCheck(e) PROVE SubscriberTypeOK'
  <2>1. arg[e] \in CoalescibleEvent
    BY <1>0, <1>5, Zenon DEF DeliverCheck, EmitterTypeOK, Delivering
  <2>2. pending' \in [Keys -> CoalescibleEvent \cup {NoEvent}]
    BY <1>0, <1>5, <2>1, Zenon DEF DeliverCheck, SubscriberTypeOK
  <2> QED
    BY <1>0, <1>5, <2>2, Zenon DEF DeliverCheck, SubscriberTypeOK, lifecycle, channel, flushing,
                            BufferedEvents
<1>6. ASSUME NEW e \in Emitters, SignalFlush(e) PROVE SubscriberTypeOK'
  BY <1>0, <1>6, Zenon DEF SignalFlush, SubscriberTypeOK, lifecycle, channel, flushing, BufferedEvents
<1>7. ASSUME NEW e \in Emitters, SelectSend(e) PROVE SubscriberTypeOK'
  <2>1. arg[e] \in Event
    BY <1>0, <1>7, Zenon DEF SelectSend, EmitterTypeOK, Delivering
  <2>2. sent' \in Seq(Event) /\ taken' \in Nat /\ BufferedEvents' \in 0..Buffer
    BY <1>0, <1>7, <2>1, SendType, Zenon DEF SelectSend, SubscriberTypeOK
  <2> QED
    BY <1>0, <1>7, <2>2, Zenon DEF SelectSend, SubscriberTypeOK, lifecycle, coalesced, flushing
<1>8. ASSUME NEW e \in Emitters, EnqueuePending(e) PROVE SubscriberTypeOK'
  <2>1. arg[e] \in CoalescibleEvent /\ arg[e].key \in Keys
    BY <1>0, <1>8, Zenon DEF EnqueuePending, EmitterTypeOK, Delivering, CoalescibleEvent
  <2>2. pending' \in [Keys -> CoalescibleEvent \cup {NoEvent}] /\ flushSignal' \in BOOLEAN
    BY <1>0, <1>8, <2>1, Zenon DEF EnqueuePending, SubscriberTypeOK, coalesced
  <2>3. pendingOrder' \in Seq(Keys) /\ Len(pendingOrder') <= PendingLimit
    <3>1. \/ pendingOrder' = pendingOrder
          \/ /\ pendingOrder' = Append(pendingOrder, arg[e].key)
             /\ Len(pendingOrder) < PendingLimit
      BY <1>8, Zenon DEF EnqueuePending, coalesced
    <3> QED
      BY <1>0, <2>1, <3>1 DEF SubscriberTypeOK
  <2> QED
    BY <1>0, <1>8, <2>2, <2>3, Zenon DEF EnqueuePending, SubscriberTypeOK, lifecycle, channel, flushing,
                                  BufferedEvents
<1>9. ASSUME NEW k \in Keys,
             pending' = [pending EXCEPT ![k] = NoEvent],
             pendingOrder' \in {pendingOrder, RemoveKey(pendingOrder, k)}
      PROVE  /\ pending' \in [Keys -> CoalescibleEvent \cup {NoEvent}]
             /\ pendingOrder' \in Seq(Keys) /\ Len(pendingOrder') <= PendingLimit
  <2>1. pendingOrder \in Seq(Keys) /\ Len(pendingOrder) <= PendingLimit
    BY <1>0, Zenon DEF SubscriberTypeOK
  <2>2. pendingOrder' \in Seq(Keys) /\ Len(pendingOrder') <= Len(pendingOrder)
    BY <1>9, <2>1, RemoveKeyType
  <2> QED
    BY <1>0, <1>9, <2>1, <2>2 DEF SubscriberTypeOK
<1>10. ASSUME NEW e \in Emitters, ClearPending(e) PROVE SubscriberTypeOK'
  <2>1. arg[e].key \in Keys
    BY <1>0, <1>10, Zenon DEF ClearPending, EmitterTypeOK, Delivering, CoalescibleEvent
  <2> QED
    BY <1>0, <1>9, <1>10, <2>1, Zenon DEF ClearPending, SubscriberTypeOK, lifecycle, channel, flushing,
                                   BufferedEvents
<1>11. CASE RemovePending
  <2>1. peeked.key \in Keys
    BY <1>0, <1>11, Zenon DEF RemovePending, SubscriberTypeOK, CoalescibleEvent
  <2> QED
    BY <1>0, <1>9, <1>11, <2>1, Zenon DEF RemovePending, SubscriberTypeOK, lifecycle, channel,
                                   BufferedEvents, FlusherLabels
<1>12. CASE FlushWake \/ FlushExit \/ FlushReturn
  BY <1>0, <1>12, Zenon DEF FlushWake, FlushExit, FlushReturn, SubscriberTypeOK, lifecycle, channel,
                     coalesced, BufferedEvents, FlusherLabels
<1>13. CASE FlushSend
  <2>1. peeked \in Event
    BY <1>0, <1>13, CoalescibleIsEvent, Zenon DEF FlushSend, SubscriberTypeOK
  <2>2. sent' \in Seq(Event) /\ taken' \in Nat /\ BufferedEvents' \in 0..Buffer
    BY <1>0, <1>13, <2>1, SendType, Zenon DEF FlushSend, SubscriberTypeOK
  <2> QED
    BY <1>0, <1>13, <2>2, Zenon DEF FlushSend, SubscriberTypeOK, lifecycle, coalesced, FlusherLabels
<1>14. CASE PeekPending
  <2>1. PICK skip \in 0..Len(pendingOrder) :
               /\ pendingOrder' = SubSeq(pendingOrder, skip + 1, Len(pendingOrder))
               /\ \/ flushPc' = "wait" /\ peeked' = peeked
                  \/ /\ skip < Len(pendingOrder)
                     /\ pending[pendingOrder[skip + 1]] # NoEvent
                     /\ flushPc' = "send"
                     /\ peeked' = pending[pendingOrder[skip + 1]]
    BY <1>14, Zenon DEF PeekPending
  <2>2. pendingOrder \in Seq(Keys) /\ Len(pendingOrder) <= PendingLimit
    BY <1>0, Zenon DEF SubscriberTypeOK
  <2>3. pendingOrder' \in Seq(Keys) /\ Len(pendingOrder') <= PendingLimit
    BY <2>1, <2>2
  <2>4. flushPc' \in FlusherLabels /\ peeked' \in CoalescibleEvent \cup {NoEvent}
        /\ (flushPc' \in {"send", "remove"} => peeked' \in CoalescibleEvent)
    <3>1. skip < Len(pendingOrder) => pendingOrder[skip + 1] \in Keys
      BY <2>2
    <3> QED
      BY <1>0, <2>1, <3>1, Zenon DEF SubscriberTypeOK, FlusherLabels
  <2> QED
    BY <1>0, <1>14, <2>3, <2>4, Zenon DEF PeekPending, SubscriberTypeOK, lifecycle, channel,
                                   BufferedEvents
<1>15. CASE Receive
  BY <1>0, <1>15 DEF Receive, SubscriberTypeOK, lifecycle, coalesced, flushing, BufferedEvents
<1> QED
  BY <1>2, <1>3, <1>4, <1>5, <1>6, <1>7, <1>8, <1>10, <1>11, <1>12, <1>13, <1>14, <1>15
     DEF Next, Deliver, FlushLoop

\* Whatever goroutines do to a subscriber, every variable keeps its type: the
\* channel holds at most Buffer events, pendingOrder at most PendingLimit keys,
\* and only coalescible events are ever parked (deliver and the flush loop).
THEOREM TypeCorrect == Spec => []TypeOK
<1>1. TypeOK /\ [Next]_vars => TypeOK'
  <2>1. TypeOK' <=> EmitterTypeOK' /\ SubscriberTypeOK'
    BY Zenon DEF TypeOK, EmitterTypeOK, SubscriberTypeOK
  <2> QED
    BY <2>1, EmitterType, SubscriberType, TypeParts, Zenon
<1> QED
  BY InitType, <1>1, PTL DEF Spec

-----------------------------------------------------------------------------
(* pending and pendingOrder agree *)

\* Every step keeps the map and the order slice in agreement.
LEMMA ConsistentStep == TypeOK /\ PendingConsistent /\ [Next]_vars => PendingConsistent'
<1> SUFFICES ASSUME TypeOK, PendingConsistent, [Next]_vars PROVE PendingConsistent'
  BY Zenon
<1>1. /\ pendingOrder \in Seq(Keys) /\ pending \in [Keys -> CoalescibleEvent \cup {NoEvent}]
      /\ NoRepeat(pendingOrder)
      /\ \A k \in Keys : pending[k] # NoEvent <=> Occurs(k, pendingOrder)
      /\ \A k \in Keys : pending[k] # NoEvent => pending[k].key = k
  BY Zenon DEF TypeOK, PendingConsistent, NoRepeat, Occurs
<1>2. SUFFICES /\ NoRepeat(pendingOrder')
               /\ \A k \in Keys : pending'[k] # NoEvent <=> Occurs(k, pendingOrder')
               /\ \A k \in Keys : pending'[k] # NoEvent => pending'[k].key = k
  BY Zenon DEF PendingConsistent, NoRepeat, Occurs
<1>3. ASSUME NEW k \in Keys,
             pending' = [pending EXCEPT ![k] = NoEvent],
             pendingOrder' = RemoveKey(pendingOrder, k)
      PROVE  /\ NoRepeat(pendingOrder')
             /\ \A y \in Keys : pending'[y] # NoEvent <=> Occurs(y, pendingOrder')
             /\ \A y \in Keys : pending'[y] # NoEvent => pending'[y].key = y
  BY <1>1, <1>3, RemoveKeyElements
<1>4. CASE UNCHANGED <<pending, pendingOrder>>
  BY <1>1, <1>4, Zenon
<1>5. ASSUME NEW e \in Emitters, DeliverCheck(e)
      PROVE  /\ NoRepeat(pendingOrder')
             /\ \A k \in Keys : pending'[k] # NoEvent <=> Occurs(k, pendingOrder')
             /\ \A k \in Keys : pending'[k] # NoEvent => pending'[k].key = k
  <2>1. arg[e] \in CoalescibleEvent
    BY <1>5, Zenon DEF DeliverCheck, TypeOK, Delivering
  <2> QED
    BY <1>1, <1>5, <2>1, CoalescibleIsEvent DEF DeliverCheck, CoalescibleEvent
<1>6. ASSUME NEW e \in Emitters, EnqueuePending(e)
      PROVE  /\ NoRepeat(pendingOrder')
             /\ \A k \in Keys : pending'[k] # NoEvent <=> Occurs(k, pendingOrder')
             /\ \A k \in Keys : pending'[k] # NoEvent => pending'[k].key = k
  <2>1. arg[e] \in CoalescibleEvent /\ arg[e].key \in Keys /\ arg[e] # NoEvent
    BY <1>6, CoalescibleIsEvent, Zenon DEF EnqueuePending, TypeOK, Delivering, CoalescibleEvent
  <2>2. CASE UNCHANGED coalesced
    BY <1>4, <2>2, Zenon DEF coalesced
  <2>3. CASE /\ pending[arg[e].key] # NoEvent
             /\ pending' = [pending EXCEPT ![arg[e].key] = arg[e]]
             /\ pendingOrder' = pendingOrder
    BY <1>1, <2>1, <2>3, Zenon
  <2>4. CASE /\ pending[arg[e].key] = NoEvent
             /\ pending' = [pending EXCEPT ![arg[e].key] = arg[e]]
             /\ pendingOrder' = Append(pendingOrder, arg[e].key)
    <3>1. ~Occurs(arg[e].key, pendingOrder)
      BY <1>1, <2>1, <2>4, Zenon
    <3>2. NoRepeat(pendingOrder')
      BY <1>1, <2>1, <2>4, <3>1 DEF NoRepeat, Occurs
    <3>3. \A k \in Keys : Occurs(k, pendingOrder') <=> Occurs(k, pendingOrder) \/ k = arg[e].key
      <4>1. /\ Len(pendingOrder') = Len(pendingOrder) + 1 /\ Len(pendingOrder) \in Nat
            /\ \A i \in 1..Len(pendingOrder) : pendingOrder'[i] = pendingOrder[i]
            /\ pendingOrder'[Len(pendingOrder) + 1] = arg[e].key
        BY <1>1, <2>1, <2>4
      <4> QED
        BY <4>1 DEF Occurs
    <3> QED
      BY <1>1, <2>1, <2>4, <3>2, <3>3, Zenon
  <2> QED
    BY <1>6, <2>2, <2>3, <2>4, Zenon DEF EnqueuePending
<1>7. ASSUME NEW e \in Emitters, ClearPending(e)
      PROVE  /\ NoRepeat(pendingOrder')
             /\ \A k \in Keys : pending'[k] # NoEvent <=> Occurs(k, pendingOrder')
             /\ \A k \in Keys : pending'[k] # NoEvent => pending'[k].key = k
  <2>1. arg[e].key \in Keys
    BY <1>7, Zenon DEF ClearPending, TypeOK, Delivering, CoalescibleEvent
  <2>2. CASE pending[arg[e].key] # NoEvent
    BY <1>3, <1>7, <2>1, <2>2, Zenon DEF ClearPending
  <2>3. CASE pending[arg[e].key] = NoEvent
    BY <1>1, <1>7, <2>1, <2>3, Zenon DEF ClearPending
  <2> QED
    BY <2>2, <2>3, Zenon
<1>8. CASE PeekPending
  <2>1. PICK skip \in 0..Len(pendingOrder) :
               /\ \A i \in 1..skip : pending[pendingOrder[i]] = NoEvent
               /\ pendingOrder' = SubSeq(pendingOrder, skip + 1, Len(pendingOrder))
    BY <1>8, Zenon DEF PeekPending
  <2>2. \A i \in 1..Len(pendingOrder) : pending[pendingOrder[i]] # NoEvent
    BY <1>1 DEF Occurs
  <2>3. skip = 0
    BY <1>1, <2>1, <2>2
  <2>4. pendingOrder' = pendingOrder
    BY <1>1, <2>1, <2>3
  <2> QED
    BY <1>4, <1>8, <2>4, Zenon DEF PeekPending
<1>9. CASE RemovePending
  <2>1. peeked.key \in Keys
    BY <1>9, Zenon DEF RemovePending, TypeOK, CoalescibleEvent
  <2> QED
    BY <1>3, <1>9, <2>1, Zenon DEF RemovePending
<1>10. CASE UNCHANGED vars
  BY <1>4, <1>10, Zenon DEF vars, coalesced
<1>11. CASE Subscribe \/ Unsubscribe \/ FlushWake \/ FlushExit \/ FlushSend \/ FlushReturn \/ Receive
  BY <1>4, <1>11, Zenon DEF Subscribe, Unsubscribe, FlushWake, FlushExit, FlushSend, FlushReturn,
                     Receive, coalesced
<1>12. ASSUME NEW e \in Emitters,
              \/ EmitBatch(e) \/ EndBatch(e) \/ \E k \in Keys \cup {Discrete} : NextEvent(e, k)
              \/ SignalFlush(e) \/ SelectDone(e) \/ SelectSend(e) \/ SelectPanic(e)
              \/ SelectDefault(e)
       PROVE  UNCHANGED <<pending, pendingOrder>>
  BY <1>12, Zenon DEF EmitBatch, EndBatch, NextEvent, SignalFlush, SelectDone, SelectSend, SelectPanic,
               SelectDefault, coalesced
<1> QED
  BY <1>4, <1>5, <1>6, <1>7, <1>8, <1>9, <1>10, <1>11, <1>12, Zenon DEF Next, Deliver, FlushLoop

\* The pending map and its order slice always agree, so no key is stuck in
\* pending and none wastes a slot of the limit (enqueuePending, clearPending,
\* peekPending, removePending).
THEOREM PendingAgrees == Spec => []PendingConsistent
<1>1. Init => PendingConsistent
  BY DEF Init, PendingConsistent
<1> QED
  BY <1>1, ConsistentStep, TypeCorrect, PTL DEF Spec

-----------------------------------------------------------------------------
(* Histories: where an event can be, and what is known of older ones *)

\* The events in the channel's history, in pending, or held by the flush loop.
Placed == ({sent[i] : i \in 1..Len(sent)} \cup {pending[k] : k \in Keys} \cup {peeked})
            \ {NoEvent}

\* The goroutine of e has not yet put its event anywhere.
Unplaced(e) == pc[e] \in {"check", "select", "enqueue"}

Owned(ev) == Coalescible(ev) => ev.by \in Owners[ev.key]

\* Every event is one of its goroutine's, and newer than all the goroutine
\* emitted before it, wherever those are now.
History ==
  /\ \A x \in Placed \cup accepted \cup dropped : x.seq <= lastSeq /\ Owned(x)
  /\ \A e \in Emitters : Delivering(e) =>
       /\ arg[e].by = e /\ arg[e].seq <= lastSeq /\ Owned(arg[e])
       /\ \A x \in Placed : x.by = e =>
            x.seq <= arg[e].seq /\ (Unplaced(e) => x.seq < arg[e].seq)
       /\ \A x \in accepted \cup dropped : x.by = e => x.seq < arg[e].seq

\* What holds of a key with one emitter, and makes its events come out in order:
\* nothing is pending while deliver puts an event on the channel itself, the
\* flush loop's copy keeps its map entry, and what is pending or held is newer
\* than what was sent.
KeyOrder(k) ==
  /\ \A e \in Emitters :
       pc[e] \in {"select", "enqueue", "clear"} /\ arg[e].key = k => pending[k] = NoEvent
  /\ flushPc \in {"send", "remove"} /\ peeked.key = k => pending[k] # NoEvent
  /\ pending[k] # NoEvent => \A i \in 1..Len(sent) : sent[i].key = k =>
       /\ sent[i].seq <= pending[k].seq
       /\ ~(flushPc = "remove" /\ peeked.key = k) => sent[i].seq < pending[k].seq
  /\ flushPc = "send" /\ peeked.key = k =>
       /\ peeked.seq <= pending[k].seq
       /\ \A i \in 1..Len(sent) : sent[i].key = k => sent[i].seq < peeked.seq

KeysOrdered == \A k \in Keys : SingleEmitter(k) => KeyOrder(k)

\* deliver has made sure that an event of its key is sent or pending before it
\* returns true; the flush loop removes a key only after sending it.
Covered(k) == (\E i \in 1..Len(sent) : sent[i].key = k) \/ (k \in Keys /\ pending[k] # NoEvent)

KeysCovered ==
  /\ \A ev \in accepted : Covered(ev.key)
  /\ \A e \in Emitters : pc[e] = "signal" => Covered(arg[e].key)
  /\ \A e \in Emitters : pc[e] = "clear" => \E i \in 1..Len(sent) : sent[i] = arg[e]
  /\ flushPc = "remove" => \E i \in 1..Len(sent) : sent[i] = peeked

NeverDropped == Placed \cap dropped = {}

-----------------------------------------------------------------------------
(* Steps, seen from the events *)

\* What appending to the channel's history does.
LEMMA SentAppend ==
  ASSUME TypeOK, NEW ev \in Event, sent' = Append(sent, ev)
  PROVE  /\ Len(sent) \in Nat /\ Len(sent') = Len(sent) + 1
         /\ \A i \in 1..Len(sent) : sent'[i] = sent[i]
         /\ sent'[Len(sent) + 1] = ev
BY DEF TypeOK

\* Events only get somewhere when their own deliver puts them there.
LEMMA PlacedStep ==
  ASSUME TypeOK, [Next]_vars
  PROVE  \/ Placed' \subseteq Placed
         \/ \E e \in Emitters :
              /\ Unplaced(e)
              /\ DeliverCheck(e) \/ SelectSend(e) \/ EnqueuePending(e)
              /\ Placed' \subseteq Placed \cup {arg[e]}
              /\ pc'[e] \in {"signal", "clear", "batch"}
<1>1. CASE UNCHANGED <<sent, pending, peeked>>
  BY <1>1, Zenon DEF Placed
<1>2. ASSUME NEW e \in Emitters, DeliverCheck(e), pending' # pending
      PROVE  /\ Unplaced(e) /\ Placed' \subseteq Placed \cup {arg[e]} /\ pc'[e] = "signal"
  <2>1. arg[e].key \in Keys
    BY <1>2, Zenon DEF DeliverCheck, TypeOK, Delivering, CoalescibleEvent
  <2>2. /\ pending' = [pending EXCEPT ![arg[e].key] = arg[e]]
        /\ UNCHANGED <<sent, peeked>> /\ Goto(e, "signal")
    BY <1>2, Zenon DEF DeliverCheck, channel, flushing
  <2>3. Placed' \subseteq Placed \cup {arg[e]}
    BY <2>1, <2>2, Zenon DEF Placed, TypeOK
  <2> QED
    BY <1>2, <2>2, <2>3, Zenon DEF DeliverCheck, Goto, TypeOK, Unplaced
<1>3. ASSUME NEW e \in Emitters, EnqueuePending(e), pending' # pending
      PROVE  /\ Unplaced(e) /\ Placed' \subseteq Placed \cup {arg[e]} /\ pc'[e] = "batch"
  <2>1. arg[e].key \in Keys
    BY <1>3, Zenon DEF EnqueuePending, TypeOK, Delivering, CoalescibleEvent
  <2>2. /\ pending' = [pending EXCEPT ![arg[e].key] = arg[e]]
        /\ UNCHANGED <<sent, peeked>> /\ Accept(e)
    BY <1>3, Zenon DEF EnqueuePending, channel, flushing, coalesced
  <2>3. Placed' \subseteq Placed \cup {arg[e]}
    BY <2>1, <2>2, Zenon DEF Placed, TypeOK
  <2> QED
    BY <1>3, <2>2, <2>3, Zenon DEF EnqueuePending, Accept, TypeOK, Unplaced
<1>4. ASSUME NEW e \in Emitters, SelectSend(e)
      PROVE  /\ Unplaced(e) /\ Placed' \subseteq Placed \cup {arg[e]}
             /\ pc'[e] \in {"clear", "batch"}
  <2>1. arg[e] \in Event
    BY <1>4, Zenon DEF SelectSend, TypeOK, Delivering
  <2>2. Placed' \subseteq Placed \cup {arg[e]}
    BY <1>4, <2>1, SentAppend DEF SelectSend, Placed, coalesced, flushing
  <2> QED
    BY <1>4, <2>2, Zenon DEF SelectSend, Goto, Accept, TypeOK, Unplaced
<1>5. CASE FlushSend
  <2>1. peeked \in Event /\ peeked # NoEvent
    BY <1>5, CoalescibleIsEvent, Zenon DEF FlushSend, TypeOK
  <2> QED
    BY <1>5, <2>1, SentAppend DEF FlushSend, Placed, coalesced
<1>6. CASE PeekPending
  <2>1. UNCHANGED <<sent, pending>> /\ (peeked' = peeked \/ \E k \in Keys : peeked' = pending[k])
    BY <1>6 DEF PeekPending, TypeOK, channel
  <2> QED
    BY <2>1, Zenon DEF Placed
<1>7. CASE FlushReturn
  BY <1>7, Zenon DEF FlushReturn, Placed, channel, coalesced
<1>8. CASE RemovePending
  BY <1>8, Zenon DEF RemovePending, Placed, channel, TypeOK
<1>9. ASSUME NEW e \in Emitters, ClearPending(e) PROVE Placed' \subseteq Placed
  BY <1>9, Zenon DEF ClearPending, Placed, channel, flushing, TypeOK
<1>10. ASSUME NEW e \in Emitters,
              \/ EmitBatch(e) \/ EndBatch(e) \/ \E k \in Keys \cup {Discrete} : NextEvent(e, k)
              \/ SignalFlush(e) \/ SelectDone(e) \/ SelectPanic(e) \/ SelectDefault(e)
              \/ (DeliverCheck(e) \/ EnqueuePending(e)) /\ pending' = pending
       PROVE  UNCHANGED <<sent, pending, peeked>>
  BY <1>10, Zenon DEF EmitBatch, EndBatch, NextEvent, SignalFlush, SelectDone, SelectPanic,
               SelectDefault, DeliverCheck, EnqueuePending, channel, coalesced, flushing
<1>11. CASE \/ UNCHANGED vars \/ Subscribe \/ Unsubscribe \/ FlushWake \/ FlushExit \/ Receive
  BY <1>1, <1>11, Zenon DEF Subscribe, Unsubscribe, FlushWake, FlushExit, Receive, vars, channel,
                     coalesced, flushing
<1> QED
  BY <1>1, <1>2, <1>3, <1>4, <1>5, <1>6, <1>7, <1>8, <1>9, <1>10, <1>11, Zenon
     DEF Next, Deliver, FlushLoop

\* How a step moves the emitters: nobody, the start of a delivery, a step of one
\* that goes on or returns, the end of a batch, or the crash of all.
LEMMA EmitterStep ==
  ASSUME TypeOK, [Next]_vars
  PROVE  \/ UNCHANGED emitting
         \/ \E e \in Emitters :
              /\ pc[e] \in {"idle", "batch"}
              /\ \E l \in {"idle", "batch"} : pc' = [pc EXCEPT ![e] = l]
              /\ UNCHANGED <<arg, accepted, dropped, lastSeq>>
         \/ \E e \in Emitters, k \in Keys \cup {Discrete} : NextEvent(e, k)
         \/ \E e \in Emitters :
              /\ Deliver(e) /\ Delivering(e)
              /\ \/ Accept(e)
                 \/ Drop(e) /\ Unplaced(e)
                 \/ \E l \in EmitterLabels \ {"idle", "batch", "crashed"} :
                      Goto(e, l) /\ Unplaced(e)
         \/ /\ pc' = [e \in Emitters |-> "crashed"]
            /\ UNCHANGED <<arg, accepted, dropped, lastSeq>>
<1>1. CASE UNCHANGED vars \/ Subscribe \/ Unsubscribe \/ FlushLoop \/ Receive
  BY <1>1, Zenon DEF vars, Subscribe, Unsubscribe, FlushLoop, FlushWake, FlushExit, PeekPending,
              FlushSend, FlushReturn, RemovePending, Receive
<1>2. ASSUME NEW e \in Emitters, EmitBatch(e) \/ EndBatch(e)
      PROVE  /\ pc[e] \in {"idle", "batch"}
             /\ \E l \in {"idle", "batch"} : pc' = [pc EXCEPT ![e] = l]
             /\ UNCHANGED <<arg, accepted, dropped, lastSeq>>
  BY <1>2, Zenon DEF EmitBatch, EndBatch
<1>3. ASSUME NEW e \in Emitters, SelectPanic(e)
      PROVE  /\ pc' = [x \in Emitters |-> "crashed"]
             /\ UNCHANGED <<arg, accepted, dropped, lastSeq>>
  BY <1>3, Zenon DEF SelectPanic
<1>4. ASSUME NEW e \in Emitters, Deliver(e), ~SelectPanic(e)
      PROVE  /\ Delivering(e)
             /\ \/ Accept(e)
                \/ Drop(e) /\ Unplaced(e)
                \/ \E l \in EmitterLabels \ {"idle", "batch", "crashed"} :
                     Goto(e, l) /\ Unplaced(e)
  <2>1. Delivering(e)
    BY <1>4, Zenon DEF Deliver, DeliverCheck, SignalFlush, SelectDone, SelectSend, SelectDefault,
                EnqueuePending, ClearPending, Delivering
  <2>2. CASE DeliverCheck(e)
    BY <2>1, <2>2, Zenon DEF DeliverCheck, EmitterLabels, Unplaced
  <2>3. CASE SelectSend(e) \/ SelectDefault(e)
    BY <2>1, <2>3, Zenon DEF SelectSend, SelectDefault, EmitterLabels, Unplaced
  <2>4. CASE SignalFlush(e) \/ SelectDone(e) \/ EnqueuePending(e) \/ ClearPending(e)
    BY <2>1, <2>4, Zenon DEF SignalFlush, SelectDone, EnqueuePending, ClearPending, Unplaced
  <2> QED
    BY <1>4, <2>2, <2>3, <2>4, Zenon DEF Deliver
<1> QED
  BY <1>1, <1>2, <1>3, <1>4, Zenon DEF Next

\* Placed events, and those in accepted and dropped, are events.
LEMMA PlacedType == TypeOK => Placed \subseteq Event
BY CoalescibleIsEvent DEF TypeOK, Placed

\* An event sent to the channel is placed.
LEMMA SentPlaced == sent \in Seq(Event) => \A i \in 1..Len(sent) : sent[i] \in Placed
<1> SUFFICES ASSUME sent \in Seq(Event), NEW i \in 1..Len(sent)
             PROVE  sent[i] \in Placed
  BY Zenon
<1>1. sent[i] # NoEvent
  BY EventBusAssumption
<1> QED
  BY <1>1, Zenon DEF Placed

\* Every step preserves History.
LEMMA HistoryStep == TypeOK /\ History /\ [Next]_vars => History'
<1> SUFFICES ASSUME TypeOK, History, [Next]_vars PROVE History'
  BY Zenon
<1>1. /\ Placed \subseteq Event /\ accepted \subseteq Event /\ dropped \subseteq Event
      /\ lastSeq \in Nat /\ pc \in [Emitters -> EmitterLabels]
      /\ arg \in [Emitters -> Event \cup {NoEvent}]
      /\ \A e \in Emitters : Delivering(e) => arg[e] \in Event
  BY PlacedType, CoalescibleIsEvent, Zenon DEF TypeOK
<1>2. \A x \in Event : x.seq \in Nat /\ x.by \in Emitters
  BY Zenon DEF Event
<1>3. CASE UNCHANGED emitting
  <2>1. Placed' \subseteq Placed
    BY <1>3, PlacedStep, Zenon DEF emitting, Unplaced
  <2> QED
    BY <1>3, <2>1, Zenon DEF emitting, History, Delivering, Unplaced
<1>4. ASSUME NEW e \in Emitters, pc[e] \in {"idle", "batch"}, NEW l \in {"idle", "batch"},
             pc' = [pc EXCEPT ![e] = l], UNCHANGED <<arg, accepted, dropped, lastSeq>>
      PROVE  History'
  <2>1. Placed' \subseteq Placed
    BY <1>1, <1>4, PlacedStep, Zenon DEF Unplaced
  <2>2. \A f \in Emitters : (Delivering(f)' => Delivering(f)) /\ (Unplaced(f)' => Unplaced(f))
    BY <1>1, <1>4, Zenon DEF Delivering, Unplaced
  <2> QED
    BY <1>4, <2>1, <2>2, Zenon DEF History
<1>5. ASSUME NEW e \in Emitters, NEW k \in Keys \cup {Discrete}, NextEvent(e, k)
      PROVE  History'
  <2>1. Placed' = Placed
    BY <1>5, Zenon DEF NextEvent, Placed, channel, coalesced, flushing
  <2>2. \A f \in Emitters : f # e => arg'[f] = arg[f] /\ pc'[f] = pc[f]
    BY <1>1, <1>5, Zenon DEF NextEvent
  <2>3. /\ arg'[e].by = e /\ arg'[e].seq = lastSeq + 1 /\ Owned(arg'[e])
    BY <1>1, <1>5, Zenon DEF NextEvent, Owned, Coalescible
  <2>4. lastSeq' = lastSeq + 1 /\ UNCHANGED <<accepted, dropped>>
    BY <1>5, Zenon DEF NextEvent
  <2>5. \A x \in Placed' \cup accepted' \cup dropped' : x.seq <= lastSeq /\ Owned(x)
    BY <2>1, <2>4, Zenon DEF History
  <2>6. \A x \in Placed' \cup accepted' \cup dropped' : x.seq < lastSeq + 1 /\ x.seq <= lastSeq'
    BY <1>1, <1>2, <2>1, <2>4, <2>5
  <2>7. ASSUME NEW f \in Emitters, Delivering(f)'
        PROVE  /\ arg'[f].by = f /\ arg'[f].seq <= lastSeq' /\ Owned(arg'[f])
               /\ \A x \in Placed' : x.by = f =>
                    x.seq <= arg'[f].seq /\ (Unplaced(f)' => x.seq < arg'[f].seq)
               /\ \A x \in accepted' \cup dropped' : x.by = f => x.seq < arg'[f].seq
    <3>1. CASE f = e
      BY <1>1, <1>2, <2>1, <2>3, <2>4, <2>6, <3>1
    <3>2. CASE f # e
      <4>1. Delivering(f) /\ (Unplaced(f)' <=> Unplaced(f)) /\ arg'[f] = arg[f]
        BY <2>2, <2>7, <3>2, Zenon DEF Delivering, Unplaced
      <4>2. arg[f].seq <= lastSeq'
        BY <1>1, <1>2, <2>4, <4>1 DEF History
      <4> QED
        BY <2>1, <2>4, <4>1, <4>2, Zenon DEF History
    <3> QED
      BY <3>1, <3>2, Zenon
  <2> QED
    BY <2>5, <2>6, <2>7, Zenon DEF History, Owned
<1>6. ASSUME NEW e \in Emitters, Delivering(e), Deliver(e),
             \/ Accept(e)
             \/ Drop(e) /\ Unplaced(e)
             \/ \E l \in EmitterLabels \ {"idle", "batch", "crashed"} :
                  Goto(e, l) /\ Unplaced(e)
      PROVE  History'
  <2>1. /\ lastSeq' = lastSeq
        /\ \A f \in Emitters : f # e => arg'[f] = arg[f] /\ pc'[f] = pc[f]
        /\ Delivering(e)' => arg'[e] = arg[e] /\ Unplaced(e) /\ UNCHANGED <<accepted, dropped>>
        /\ accepted' \subseteq accepted \cup {arg[e]}
        /\ dropped' \subseteq dropped \cup {arg[e]}
    BY <1>1, <1>6, Zenon DEF Accept, Drop, Goto, Delivering
  <2>2. /\ Placed' \subseteq Placed \cup {arg[e]}
        /\ Unplaced(e)' => Placed' \subseteq Placed
    <3>1. \A f \in Emitters : f # e => pc'[f] = pc[f]
      BY <2>1, Zenon
    <3>2. \A f \in Emitters : f # e => (Unplaced(f) => pc'[f] \notin {"signal", "clear", "batch"})
      BY <3>1, Zenon DEF Unplaced
    <3> QED
      BY <3>2, PlacedStep, Zenon DEF Unplaced
  <2>3. arg[e].by = e /\ arg[e].seq <= lastSeq /\ Owned(arg[e]) /\ arg[e] \in Event
    BY <1>1, <1>6, Zenon DEF History
  <2>4. \A x \in Placed' \cup accepted' \cup dropped' : x.seq <= lastSeq' /\ Owned(x)
    BY <2>1, <2>2, <2>3, Zenon DEF History
  <2>5. ASSUME NEW f \in Emitters, Delivering(f)'
        PROVE  /\ arg'[f].by = f /\ arg'[f].seq <= lastSeq' /\ Owned(arg'[f])
               /\ \A x \in Placed' : x.by = f =>
                    x.seq <= arg'[f].seq /\ (Unplaced(f)' => x.seq < arg'[f].seq)
               /\ \A x \in accepted' \cup dropped' : x.by = f => x.seq < arg'[f].seq
    <3>1. CASE f = e
      <4>1. \A x \in Placed : x.by = e => x.seq < arg[e].seq
        BY <1>6, <2>1, <2>5, <3>1, Zenon DEF History
      <4>2. \A x \in Placed' : x.by = e =>
              x.seq <= arg[e].seq /\ (Unplaced(e)' => x.seq < arg[e].seq)
        BY <1>1, <1>2, <2>2, <2>3, <4>1
      <4> QED
        BY <1>6, <2>1, <2>3, <2>5, <3>1, <4>2, Zenon DEF History
    <3>2. CASE f # e
      <4>1. Delivering(f) /\ (Unplaced(f)' <=> Unplaced(f)) /\ arg'[f] = arg[f]
        BY <2>1, <2>5, <3>2, Zenon DEF Delivering, Unplaced
      <4> QED
        BY <2>1, <2>2, <2>3, <3>2, <4>1, Zenon DEF History
    <3> QED
      BY <3>1, <3>2, Zenon
  <2> QED
    BY <2>4, <2>5, Zenon DEF History, Owned
<1>7. CASE /\ pc' = [e \in Emitters |-> "crashed"]
           /\ UNCHANGED <<arg, accepted, dropped, lastSeq>>
  <2>1. \A e \in Emitters : ~Delivering(e)' /\ pc'[e] \notin {"signal", "clear", "batch"}
    BY <1>7, Zenon DEF Delivering
  <2>2. Placed' \subseteq Placed
    BY <2>1, PlacedStep, Zenon
  <2> QED
    BY <1>7, <2>1, <2>2, Zenon DEF History
<1> QED
  BY <1>3, <1>4, <1>5, <1>6, <1>7, EmitterStep, Zenon

\* Nothing that was recorded as dropped is, or ever gets, on its way.
LEMMA NeverDroppedStep ==
  TypeOK /\ History /\ NeverDropped /\ [Next]_vars => NeverDropped'
<1> SUFFICES ASSUME TypeOK, History, NeverDropped, [Next]_vars PROVE NeverDropped'
  BY Zenon
<1>1. \A e \in Emitters : Delivering(e) =>
        /\ arg[e] \notin accepted \cup dropped
        /\ Unplaced(e) => arg[e] \notin Placed
  <2> SUFFICES ASSUME NEW e \in Emitters, Delivering(e)
               PROVE  /\ arg[e] \notin accepted \cup dropped
                      /\ Unplaced(e) => arg[e] \notin Placed
    BY Zenon
  <2>1. arg[e].by = e /\ arg[e].seq \in Nat
    BY CoalescibleIsEvent DEF History, TypeOK, Event
  <2> QED
    BY <2>1 DEF History
<1>2. \A e \in Emitters : Unplaced(e) => Delivering(e)
  BY Zenon DEF Unplaced, Delivering
<1>3. CASE dropped' = dropped
  BY <1>1, <1>2, <1>3, PlacedStep, Zenon DEF NeverDropped
<1>4. CASE dropped' # dropped
  <2>1. PICK e \in Emitters : Deliver(e) /\ Drop(e) /\ Unplaced(e)
    BY <1>4, EmitterStep, Zenon DEF emitting, NextEvent, Accept, Goto
  <2>2. Placed' \subseteq Placed
    <3>1. UNCHANGED <<sent, pending, peeked>>
      BY <2>1, <1>4, Zenon DEF Deliver, DeliverCheck, SignalFlush, SelectDone, SelectSend, SelectPanic,
         SelectDefault, EnqueuePending, ClearPending, Goto, Accept, Drop, channel, coalesced, flushing
    <3> QED
      BY <3>1, Zenon DEF Placed
  <2> QED
    BY <1>1, <1>2, <2>1, <2>2, Zenon DEF Drop, NeverDropped
<1> QED
  BY <1>3, <1>4, Zenon


-----------------------------------------------------------------------------
(* What acceptance and drops mean *)

\* The channel's history only grows.
LEMMA SentGrows ==
  ASSUME TypeOK, [Next]_vars
  PROVE  \/ sent' = sent
         \/ \E ev \in Event : sent' = Append(sent, ev)
<1>1. \A e \in Emitters : SelectSend(e) => arg[e] \in Event
  BY Zenon DEF SelectSend, TypeOK, Delivering
<1>2. FlushSend => peeked \in Event
  BY CoalescibleIsEvent, Zenon DEF FlushSend, TypeOK
<1>3. sent' # sent => FlushSend \/ \E e \in Emitters : SelectSend(e)
  BY Zenon DEF Next, Deliver, FlushLoop, Subscribe, Unsubscribe, EmitBatch, EndBatch, NextEvent,
         DeliverCheck, SignalFlush, EnqueuePending, ClearPending, SelectDone, SelectPanic,
         SelectDefault, FlushWake, FlushExit, PeekPending, FlushReturn, RemovePending, Receive,
         vars, channel
<1> QED
  BY <1>1, <1>2, <1>3, Zenon DEF SelectSend, FlushSend

\* An event that was sent stays sent.
LEMMA SentStays ==
  ASSUME TypeOK, [Next]_vars, NEW i \in 1..Len(sent)
  PROVE  i \in 1..Len(sent') /\ sent'[i] = sent[i]
BY SentGrows, SentAppend

\* The accounting of accepted and dropped events survives every step.
LEMMA DropsStep ==
  /\ TypeOK /\ History /\ NeverDropped /\ DropsAccounted /\ [Next]_vars
  => DropsAccounted'
<1> SUFFICES ASSUME TypeOK, History, NeverDropped, DropsAccounted, [Next]_vars
             PROVE  DropsAccounted'
  BY Zenon
<1>1. \A i \in 1..Len(sent') : sent'[i] \notin dropped'
  <2>1. NeverDropped'
    BY NeverDroppedStep, Zenon
  <2>2. sent' \in Seq(Event)
    BY SubscriberType, Zenon DEF SubscriberTypeOK
  <2>3. \A i \in 1..Len(sent') : sent'[i] # NoEvent
    BY <2>2, EventBusAssumption
  <2> QED
    BY <2>1, <2>3, Zenon DEF NeverDropped, Placed
<1>2. \A e \in Emitters : Delivering(e) => arg[e] \notin accepted \cup dropped
  <2> SUFFICES ASSUME NEW e \in Emitters, Delivering(e)
               PROVE  arg[e] \notin accepted \cup dropped
    BY Zenon
  <2>1. arg[e].by = e /\ arg[e].seq \in Nat
    BY CoalescibleIsEvent DEF History, TypeOK, Event
  <2> QED
    BY <2>1 DEF History
<1>3. accepted' \cap dropped' = {}
  BY <1>2, EmitterStep, Zenon DEF DropsAccounted, emitting, NextEvent, Accept, Drop, Goto
<1>4. ASSUME NEW ev \in accepted', ~Coalescible(ev)
      PROVE  \E i \in 1..Len(sent') : sent'[i] = ev
  <2>1. CASE ev \in accepted
    BY <1>4, <2>1, SentStays, Zenon DEF DropsAccounted
  <2>2. CASE ev \notin accepted
    <3>1. PICK e \in Emitters : Deliver(e) /\ Delivering(e) /\ Accept(e) /\ ev = arg[e]
      BY <1>4, <2>2, EmitterStep, Zenon DEF emitting, NextEvent, Accept, Drop, Goto
    <3>2. SelectSend(e)
      <4>1. pc[e] \in {"check", "signal", "enqueue", "clear"} => Coalescible(arg[e])
        BY <3>1, Zenon DEF TypeOK, Delivering, CoalescibleEvent, Coalescible
      <4>2. accepted' # accepted
        BY <1>4, <2>2, Zenon
      <4> QED
        BY <1>4, <3>1, <4>1, <4>2, Zenon DEF Deliver, DeliverCheck, SignalFlush, EnqueuePending,
           ClearPending, SelectDone, SelectPanic, SelectDefault, Goto, Drop
    <3>3. arg[e] \in Event /\ sent' = Append(sent, arg[e])
      BY <3>2, Zenon DEF SelectSend, TypeOK, Delivering
    <3> QED
      BY <3>1, <3>3, SentAppend
  <2> QED
    BY <2>1, <2>2, Zenon
<1> QED
  BY <1>1, <1>3, <1>4, Zenon DEF DropsAccounted

\* A step uncovers no key.
LEMMA CoveredStep ==
  ASSUME TypeOK, KeysCovered, [Next]_vars, NEW k, Covered(k)
  PROVE  Covered(k)'
<1>1. CASE \E i \in 1..Len(sent) : sent[i].key = k
  BY <1>1, SentStays, Zenon DEF Covered
<1>2. CASE k \in Keys /\ pending[k] # NoEvent
  <2>1. CASE pending'[k] # NoEvent
    BY <1>2, <2>1, Zenon DEF Covered
  <2>2. CASE pending'[k] = NoEvent
    <3>1. \/ \E e \in Emitters : ClearPending(e) /\ arg[e].key = k
          \/ RemovePending /\ peeked.key = k
      <4>1. pending' # pending
        BY <1>2, <2>2, Zenon
      <4>2. \/ RemovePending
            \/ \E e \in Emitters : DeliverCheck(e) \/ EnqueuePending(e) \/ ClearPending(e)
        BY <4>1, Zenon DEF Next, Deliver, FlushLoop, Subscribe, Unsubscribe, EmitBatch, EndBatch,
           NextEvent, SignalFlush, SelectSend, SelectDone, SelectPanic, SelectDefault, FlushWake,
           FlushExit, FlushSend, PeekPending, FlushReturn, Receive, vars, coalesced
      <4>3. \A e \in Emitters : pc[e] \in {"check", "enqueue"} => arg[e] # NoEvent
        BY CoalescibleIsEvent, Zenon DEF TypeOK, Delivering
      <4>4. \A e \in Emitters : ~(DeliverCheck(e) \/ EnqueuePending(e))
        BY <1>2, <2>2, <4>1, <4>3, Zenon DEF DeliverCheck, EnqueuePending, TypeOK, coalesced
      <4> QED
        BY <1>2, <2>2, <4>2, <4>4, Zenon DEF ClearPending, RemovePending, TypeOK
    <3>2. \E i \in 1..Len(sent) : sent[i].key = k
      BY <3>1, Zenon DEF ClearPending, RemovePending, KeysCovered
    <3> QED
      BY <1>1, <3>2, Zenon
  <2> QED
    BY <2>1, <2>2, Zenon
<1> QED
  BY <1>1, <1>2, Zenon DEF Covered

\* Every step preserves KeysCovered.
LEMMA KeysCoveredStep == TypeOK /\ KeysCovered /\ [Next]_vars => KeysCovered'
<1> SUFFICES ASSUME TypeOK, KeysCovered, [Next]_vars PROVE KeysCovered'
  BY Zenon
<1>1. ASSUME NEW e \in Emitters, pc'[e] = "signal" PROVE Covered(arg[e].key)' /\ arg'[e] = arg[e]
  <2>1. CASE pc[e] = "signal"
    <3>1. arg'[e] = arg[e]
      BY <1>1, <2>1, EmitterStep, Zenon DEF emitting, NextEvent, Accept, Drop, Goto, Unplaced, TypeOK
    <3> QED
      BY <2>1, <3>1, CoveredStep, Zenon DEF KeysCovered
  <2>2. CASE pc[e] # "signal"
    <3>1. DeliverCheck(e) /\ Goto(e, "signal")
      <4>1. Deliver(e) /\ Goto(e, "signal")
        BY <1>1, <2>2, EmitterStep, Zenon DEF emitting, NextEvent, Accept, Drop, Goto, TypeOK
      <4>2. pc'[e] = "signal"
        BY <1>1, Zenon
      <4> QED
        BY <4>1, <4>2, Zenon DEF Deliver, DeliverCheck, SignalFlush, SelectSend, SelectDone, SelectPanic,
           SelectDefault, EnqueuePending, ClearPending, Goto, Accept, Drop, TypeOK
    <3>2. arg[e] # NoEvent /\ arg[e].key \in Keys /\ arg'[e] = arg[e]
      BY <3>1, CoalescibleIsEvent, Zenon DEF DeliverCheck, TypeOK, Delivering, CoalescibleEvent, Goto
    <3>3. pending'[arg[e].key] = arg[e]
      BY <3>1, <3>2, Zenon DEF DeliverCheck, Goto, TypeOK
    <3> QED
      BY <3>2, <3>3, Zenon DEF Covered
  <2> QED
    BY <2>1, <2>2, Zenon
<1>2. ASSUME NEW e \in Emitters, pc'[e] = "clear"
      PROVE  \E i \in 1..Len(sent') : sent'[i] = arg'[e]
  <2>1. CASE pc[e] = "clear"
    <3>1. arg'[e] = arg[e]
      BY <1>2, <2>1, EmitterStep, Zenon DEF emitting, NextEvent, Accept, Drop, Goto, Unplaced, TypeOK
    <3> QED
      BY <2>1, <3>1, SentStays, Zenon DEF KeysCovered
  <2>2. CASE pc[e] # "clear"
    <3>1. SelectSend(e) /\ Goto(e, "clear")
      <4>1. Deliver(e) /\ Goto(e, "clear")
        BY <1>2, <2>2, EmitterStep, Zenon DEF emitting, NextEvent, Accept, Drop, Goto, TypeOK
      <4>2. pc'[e] = "clear"
        BY <1>2, Zenon
      <4> QED
        BY <4>1, <4>2, Zenon DEF Deliver, DeliverCheck, SignalFlush, SelectSend, SelectDone, SelectPanic,
           SelectDefault, EnqueuePending, ClearPending, Goto, Accept, Drop, TypeOK
    <3>2. arg[e] \in Event /\ sent' = Append(sent, arg[e]) /\ arg'[e] = arg[e]
      BY <3>1, Zenon DEF SelectSend, TypeOK, Delivering, Goto
    <3> QED
      BY <3>2, SentAppend
  <2> QED
    BY <2>1, <2>2, Zenon
<1>3. ASSUME flushPc' = "remove" PROVE \E i \in 1..Len(sent') : sent'[i] = peeked'
  <2>1. \/ flushPc = "remove" /\ peeked' = peeked
        \/ FlushSend
    BY <1>3, Zenon DEF Next, Deliver, FlushLoop, Subscribe, Unsubscribe, EmitBatch, EndBatch,
         NextEvent, DeliverCheck, SignalFlush, SelectSend, SelectDone, SelectPanic,
         SelectDefault, EnqueuePending, ClearPending, FlushWake, FlushExit,
         PeekPending, RemovePending, FlushReturn, Receive, vars, flushing
  <2>2. CASE FlushSend
    <3>1. peeked \in Event /\ sent' = Append(sent, peeked) /\ peeked' = peeked
      BY <2>2, CoalescibleIsEvent, Zenon DEF FlushSend, TypeOK
    <3>2. Len(sent') = Len(sent) + 1 /\ Len(sent) \in Nat /\ sent'[Len(sent) + 1] = peeked'
      BY <3>1, SentAppend, Zenon
    <3> QED
      BY <3>2
  <2> QED
    BY <2>1, <2>2, SentStays, Zenon DEF KeysCovered
<1>4. ASSUME NEW ev \in accepted' PROVE Covered(ev.key)'
  <2>1. CASE ev \in accepted
    BY <2>1, CoveredStep, Zenon DEF KeysCovered
  <2>2. CASE ev \notin accepted
    <3>1. PICK e \in Emitters : Deliver(e) /\ Delivering(e) /\ Accept(e) /\ ev = arg[e]
      BY <1>4, <2>2, EmitterStep, Zenon DEF emitting, NextEvent, Accept, Drop, Goto
    <3>2. CASE SignalFlush(e) \/ ClearPending(e)
      <4>1. Covered(arg[e].key)
        BY <3>2, Zenon DEF SignalFlush, ClearPending, KeysCovered, Covered
      <4> QED
        BY <3>1, <4>1, CoveredStep, Zenon
    <3>3. CASE SelectSend(e)
      <4>1. arg[e] \in Event /\ sent' = Append(sent, arg[e])
        BY <3>3, Zenon DEF SelectSend, TypeOK, Delivering
      <4> QED
        BY <3>1, <4>1, SentAppend DEF Covered
    <3>4. CASE EnqueuePending(e)
      <4>1. arg[e] # NoEvent /\ arg[e].key \in Keys
        BY <3>4, CoalescibleIsEvent, Zenon DEF EnqueuePending, TypeOK, Delivering, CoalescibleEvent
      <4>2. accepted' # accepted
        BY <1>4, <2>2, Zenon
      <4>3. pending'[arg[e].key] = arg[e]
        BY <3>4, <4>1, <4>2, Zenon DEF EnqueuePending, TypeOK, Drop
      <4> QED
        BY <3>1, <4>1, <4>3, Zenon DEF Covered
    <3>5. accepted' # accepted
      BY <1>4, <2>2, Zenon
    <3> QED
      BY <3>1, <3>2, <3>3, <3>4, <3>5, Zenon DEF Deliver, DeliverCheck, SelectDone, SelectPanic,
         SelectDefault, Goto, Drop
  <2> QED
    BY <2>1, <2>2, Zenon
<1> QED
  BY <1>1, <1>2, <1>3, <1>4, Zenon DEF KeysCovered, Covered

-----------------------------------------------------------------------------
(* Order *)

\* An event that deliver places, directly or in pending, or that the flush loop
\* holds, is newer than the sent events of its key.
LEMMA KeyOrderStep ==
  ASSUME TypeOK, PendingConsistent, History, [Next]_vars,
         NEW k \in Keys, SingleEmitter(k), KeyOrder(k)
  PROVE  KeyOrder(k)'
<1>1. PICK o \in Emitters : Owners[k] = {o}
  BY Zenon DEF SingleEmitter
<1>2. \A e \in Emitters : Delivering(e) /\ arg[e].key = k => e = o /\ arg[e] \in Event
  BY <1>1, CoalescibleIsEvent DEF History, Owned, Coalescible, TypeOK
<1>3. \A x \in Placed : x.key = k => x.by = o /\ x.seq \in Nat
  BY <1>1, PlacedType, Zenon DEF History, Owned, Coalescible, Event
<1>4. \A i \in 1..Len(sent) : sent[i] \in Placed
  BY SentPlaced, Zenon DEF TypeOK
<1>5. /\ pending[k] # NoEvent => pending[k] \in Placed /\ pending[k].key = k
      /\ flushPc \in {"send", "remove"} => peeked \in Placed /\ peeked # NoEvent
  BY CoalescibleIsEvent DEF Placed, TypeOK, PendingConsistent
<1>6. ASSUME UNCHANGED <<sent, pending>>,
             \/ UNCHANGED flushing
             \/ flushPc \notin {"remove"} /\ flushPc' \notin {"send", "remove"},
             \A e \in Emitters : pc'[e] \in {"select", "enqueue", "clear"} /\ arg'[e].key = k
               => \/ pc[e] \in {"select", "enqueue", "clear"} /\ arg[e].key = k
                  \/ pending[k] = NoEvent
      PROVE  KeyOrder(k)'
  BY <1>6, Zenon DEF KeyOrder, flushing
<1>7. CASE \/ UNCHANGED vars \/ Subscribe \/ Unsubscribe \/ Receive
           \/ FlushWake \/ FlushExit \/ FlushReturn
  <2>1. UNCHANGED <<sent, pending, pc, arg>>
    BY <1>7, Zenon DEF vars, Subscribe, Unsubscribe, Receive, FlushWake, FlushExit, FlushReturn, channel,
                coalesced, emitting
  <2>2. \/ UNCHANGED flushing
        \/ flushPc \notin {"remove"} /\ flushPc' \notin {"send", "remove"}
    BY <1>7, Zenon DEF vars, Subscribe, Unsubscribe, Receive, FlushWake, FlushExit, FlushReturn, flushing
  <2> QED
    BY <1>6, <2>1, <2>2, Zenon
<1>8. ASSUME NEW e \in Emitters, EmitBatch(e) \/ EndBatch(e) \/ SignalFlush(e) \/ SelectDone(e)
                                 \/ SelectPanic(e) \/ SelectDefault(e)
      PROVE  KeyOrder(k)'
  <2>1. UNCHANGED <<sent, pending, flushing>>
    BY <1>8, Zenon DEF EmitBatch, EndBatch, SignalFlush, SelectDone, SelectPanic, SelectDefault, channel,
                coalesced
  <2>2. \A f \in Emitters : pc'[f] \in {"select", "enqueue", "clear"}
          => pc[f] \in {"select", "enqueue", "clear"} /\ arg'[f] = arg[f]
    BY <1>8 DEF EmitBatch, EndBatch, SignalFlush, SelectDone, SelectPanic, SelectDefault, Goto,
                Accept, Drop, TypeOK
  <2> QED
    BY <1>6, <2>1, <2>2, Zenon
<1>9. ASSUME NEW e \in Emitters, NEW j \in Keys \cup {Discrete}, NextEvent(e, j)
      PROVE  KeyOrder(k)'
  <2>1. UNCHANGED <<sent, pending, flushing>>
    BY <1>9, Zenon DEF NextEvent, channel, coalesced
  <2>2. \A f \in Emitters : f # e => pc'[f] = pc[f] /\ arg'[f] = arg[f]
    BY <1>9, Zenon DEF NextEvent, TypeOK
  <2>3. pc'[e] \in {"select", "enqueue", "clear"} => arg'[e].key # k
    BY <1>9, Zenon DEF NextEvent, TypeOK
  <2> QED
    BY <1>6, <2>1, <2>2, <2>3, Zenon
<1>10. ASSUME NEW e \in Emitters, DeliverCheck(e) \/ EnqueuePending(e)
       PROVE  KeyOrder(k)'
  <2>1. UNCHANGED <<sent, flushing>> /\ Delivering(e) /\ Unplaced(e) /\ arg[e].key \in Keys
    BY <1>10, Zenon DEF DeliverCheck, EnqueuePending, channel, Delivering, Unplaced, TypeOK, CoalescibleEvent
  <2>2. \A f \in Emitters : f # e => pc'[f] = pc[f] /\ arg'[f] = arg[f]
    BY <1>10, Zenon DEF DeliverCheck, EnqueuePending, Goto, Accept, Drop, TypeOK
  <2>3. CASE pending' = pending
    <3>1. pc'[e] \in {"select", "enqueue", "clear"} =>
            arg'[e] = arg[e] /\ (arg[e].key = k => pending[k] = NoEvent)
      BY <1>10, <2>3, Zenon DEF DeliverCheck, EnqueuePending, Goto, Accept, Drop, TypeOK
    <3> QED
      BY <1>6, <2>1, <2>2, <2>3, <3>1, Zenon
  <2>4. CASE pending' # pending
    <3>1. /\ pending' = [pending EXCEPT ![arg[e].key] = arg[e]]
          /\ pc'[e] \in {"signal", "batch"}
      BY <1>10, <2>4, Zenon DEF DeliverCheck, EnqueuePending, Goto, Accept, TypeOK, coalesced
    <3>2. CASE arg[e].key # k
      <4>1. pending'[k] = pending[k]
        BY <2>1, <3>1, <3>2, Zenon DEF TypeOK
      <4> QED
        BY <2>1, <2>2, <3>1, <4>1, Zenon DEF KeyOrder, flushing
    <3>3. CASE arg[e].key = k
      <4>1. e = o /\ arg[e] \in Event /\ arg[e] # NoEvent /\ pending'[k] = arg[e]
        <5>1. e = o /\ arg[e] \in Event
          BY <1>2, <2>1, <3>3, Zenon
        <5>2. pending \in [Keys -> CoalescibleEvent \cup {NoEvent}]
          BY Zenon DEF TypeOK
        <5> QED
          BY <3>1, <3>3, <5>1, <5>2, EventBusAssumption, Zenon
      <4>2. \A x \in Placed : x.key = k => x.seq < arg[e].seq
        BY <1>3, <2>1, <4>1, Zenon DEF History
      <4>3. arg[e].seq \in Nat
        BY <4>1, Zenon DEF Event
      <4>4. \A i \in 1..Len(sent) : sent[i].key = k =>
              sent[i].seq < arg[e].seq /\ sent[i].seq <= arg[e].seq
        BY <1>3, <1>4, <4>2, <4>3
      <4>5. flushPc = "send" /\ peeked.key = k => peeked.seq <= arg[e].seq
        BY <1>3, <1>5, <4>2, <4>3
      <4>6. \A f \in Emitters :
              pc'[f] \in {"select", "enqueue", "clear"} /\ arg'[f].key = k => FALSE
        BY <1>2, <2>2, <3>1, <4>1, Zenon DEF Delivering
      <4> QED
        BY <2>1, <4>1, <4>4, <4>5, <4>6, Zenon DEF KeyOrder, flushing
    <3> QED
      BY <3>2, <3>3, Zenon
  <2> QED
    BY <2>3, <2>4, Zenon
<1>11. ASSUME NEW e \in Emitters, SelectSend(e)
       PROVE  KeyOrder(k)'
  <2>1. /\ arg[e] \in Event /\ sent' = Append(sent, arg[e]) /\ UNCHANGED <<pending, flushing>>
        /\ pc[e] = "select"
    BY <1>11, Zenon DEF SelectSend, TypeOK, Delivering, coalesced
  <2>2. \A f \in Emitters : pc'[f] \in {"select", "enqueue", "clear"}
          => pc[f] \in {"select", "enqueue", "clear"} /\ arg'[f] = arg[f]
    BY <1>11, Zenon DEF SelectSend, Goto, Accept, TypeOK
  <2>3. CASE arg[e].key = k
    <3>1. pending[k] = NoEvent /\ ~(flushPc \in {"send", "remove"} /\ peeked.key = k)
      BY <2>1, <2>3, Zenon DEF KeyOrder
    <3> QED
      BY <2>1, <3>1, Zenon DEF KeyOrder, flushing
  <2>4. CASE arg[e].key # k
    <3>1. \A i \in 1..Len(sent') : sent'[i].key = k => i \in 1..Len(sent) /\ sent'[i] = sent[i]
      BY <2>1, <2>4, SentAppend
    <3> QED
      BY <2>1, <2>2, <3>1, Zenon DEF KeyOrder, flushing
  <2> QED
    BY <2>3, <2>4, Zenon
<1>12. ASSUME NEW e \in Emitters, ClearPending(e)
       PROVE  KeyOrder(k)'
  <2>1. /\ UNCHANGED <<sent, flushing>> /\ arg[e].key \in Keys
        /\ pending' = [pending EXCEPT ![arg[e].key] = NoEvent]
    BY <1>12, Zenon DEF ClearPending, channel, TypeOK, Delivering, CoalescibleEvent
  <2>2. pending'[k] = pending[k]
    BY <1>12, <2>1, Zenon DEF ClearPending, KeyOrder, TypeOK
  <2>3. \A f \in Emitters : pc'[f] \in {"select", "enqueue", "clear"}
          => pc[f] \in {"select", "enqueue", "clear"} /\ arg'[f] = arg[f]
    BY <1>12, Zenon DEF ClearPending, Accept, TypeOK
  <2> QED
    BY <2>1, <2>2, <2>3, Zenon DEF KeyOrder, flushing
<1>13. CASE PeekPending
  <2>1. /\ UNCHANGED <<sent, pending, pc, arg>> /\ flushPc = "peek"
        /\ \/ flushPc' = "wait"
           \/ /\ flushPc' = "send" /\ peeked' # NoEvent
              /\ \E j \in Keys : peeked' = pending[j] /\ peeked'.key = j
    BY <1>13 DEF PeekPending, TypeOK, PendingConsistent, channel, emitting
  <2>2. CASE flushPc' = "wait"
    BY <1>6, <2>1, <2>2, Zenon
  <2>3. CASE /\ flushPc' = "send" /\ peeked' # NoEvent
             /\ \E j \in Keys : peeked' = pending[j] /\ peeked'.key = j
    <3>1. peeked'.key = k => peeked' = pending[k] /\ pending[k] # NoEvent
      BY <2>3, Zenon
    <3>2. peeked'.key = k => peeked'.seq \in Nat
      BY <1>3, <1>5, <3>1, Zenon
    <3>3. pending[k] # NoEvent =>
            \A i \in 1..Len(sent) : sent[i].key = k => sent[i].seq < pending[k].seq
      BY <2>1, Zenon DEF KeyOrder
    <3>4. peeked'.key = k => peeked'.seq <= pending'[k].seq
      BY <2>1, <3>1, <3>2
    <3> QED
      BY <2>1, <2>3, <3>1, <3>3, <3>4, Zenon DEF KeyOrder
  <2> QED
    BY <2>1, <2>2, <2>3, Zenon
<1>14. CASE FlushSend
  <2>1. /\ peeked \in Event /\ sent' = Append(sent, peeked)
        /\ UNCHANGED <<pending, pc, arg, peeked>>
        /\ flushPc = "send" /\ flushPc' = "remove"
    BY <1>14, CoalescibleIsEvent, Zenon DEF FlushSend, TypeOK, coalesced, emitting
  <2>2. CASE peeked.key # k
    <3>1. \A i \in 1..Len(sent') : sent'[i].key = k => i \in 1..Len(sent) /\ sent'[i] = sent[i]
      BY <2>1, <2>2, SentAppend
    <3> QED
      BY <2>1, <2>2, <3>1, Zenon DEF KeyOrder
  <2>3. CASE peeked.key = k
    <3>1. pending[k] # NoEvent /\ peeked.seq <= pending[k].seq
      BY <2>1, <2>3, Zenon DEF KeyOrder
    <3>2. \A i \in 1..Len(sent') : sent'[i].key = k => sent'[i].seq <= pending[k].seq
      BY <2>1, <3>1, SentAppend DEF KeyOrder
    <3> QED
      BY <2>1, <2>3, <3>1, <3>2, Zenon DEF KeyOrder
  <2> QED
    BY <2>2, <2>3, Zenon
<1>15. CASE RemovePending
  <2>1. /\ UNCHANGED <<sent, pc, arg>> /\ flushPc' = "peek" /\ flushPc = "remove"
        /\ pending' = [pending EXCEPT ![peeked.key] = NoEvent]
    BY <1>15, Zenon DEF RemovePending, channel, emitting
  <2>2. pending'[k] = IF peeked.key = k THEN NoEvent ELSE pending[k]
    BY <2>1, Zenon DEF TypeOK
  <2> QED
    BY <2>1, <2>2, Zenon DEF KeyOrder
<1> QED
  BY <1>7, <1>8, <1>9, <1>10, <1>11, <1>12, <1>13, <1>14, <1>15, Zenon DEF Next, Deliver, FlushLoop

\* Every step preserves the order of each stream.
LEMMA StreamOrderStep ==
  TypeOK /\ History /\ KeysOrdered /\ StreamOrder /\ [Next]_vars => StreamOrder'
<1> SUFFICES ASSUME TypeOK, History, KeysOrdered, StreamOrder, [Next]_vars PROVE StreamOrder'
  BY Zenon
<1>1. ASSUME NEW ev \in Event, sent' = Append(sent, ev),
             Coalescible(ev) => SingleEmitter(ev.key),
             NEW i \in 1..Len(sent), SameStream(sent[i], ev)
      PROVE  sent[i].seq < ev.seq
  <2>1. sent[i] \in Placed
    BY SentPlaced, Zenon DEF TypeOK
  <2>2. FlushSend \/ \E e \in Emitters : SelectSend(e)
    <3>1. sent' # sent
      BY <1>1, SentAppend
    <3> QED
      BY <3>1, Zenon DEF Next, Deliver, FlushLoop, Subscribe, Unsubscribe, EmitBatch, EndBatch, NextEvent,
         DeliverCheck, SignalFlush, EnqueuePending, ClearPending, SelectDone, SelectPanic,
         SelectDefault, FlushWake, FlushExit, PeekPending, FlushReturn, RemovePending, Receive,
         vars, channel
  <2>3. CASE FlushSend
    <3>1. peeked \in Event /\ sent' = Append(sent, peeked) /\ peeked.key \in Keys
      BY <2>3, CoalescibleIsEvent, Zenon DEF FlushSend, TypeOK, CoalescibleEvent
    <3>2. ev = peeked
      BY <1>1, <3>1, SentAppend, Zenon
    <3>3. KeyOrder(peeked.key)
      BY <1>1, <3>1, <3>2, Zenon DEF KeysOrdered, Coalescible
    <3> QED
      BY <1>1, <2>3, <3>2, <3>3, Zenon DEF KeyOrder, FlushSend, SameStream
  <2>4. ASSUME NEW e \in Emitters, SelectSend(e) PROVE sent[i].seq < ev.seq
    <3>1. /\ arg[e] \in Event /\ sent' = Append(sent, arg[e])
          /\ Unplaced(e) /\ Delivering(e)
      BY <2>4, Zenon DEF SelectSend, TypeOK, Delivering, Unplaced
    <3>2. ev = arg[e]
      BY <1>1, <3>1, SentAppend, Zenon
    <3> QED
      BY <1>1, <2>1, <3>1, <3>2, Zenon DEF History, SameStream
  <2> QED
    BY <2>2, <2>3, <2>4, Zenon
<1>2. CASE sent' = sent
  BY <1>2, Zenon DEF StreamOrder
<1>3. ASSUME NEW ev \in Event, sent' = Append(sent, ev) PROVE StreamOrder'
  <2> SUFFICES ASSUME NEW i \in 1..Len(sent'), NEW j \in 1..Len(sent'), i < j,
                      SameStream(sent'[i], sent'[j]),
                      Coalescible(sent'[i]) => SingleEmitter(sent'[i].key)
               PROVE  sent'[i].seq < sent'[j].seq
    BY Zenon DEF StreamOrder
  <2>1. /\ Len(sent) \in Nat /\ Len(sent') = Len(sent) + 1
        /\ \A n \in 1..Len(sent) : sent'[n] = sent[n]
        /\ sent'[Len(sent) + 1] = ev
    BY <1>3, SentAppend, Zenon
  <2>2. i \in 1..Len(sent) /\ sent'[i] = sent[i]
    BY <2>1
  <2>3. CASE j \in 1..Len(sent)
    BY <2>1, <2>2, <2>3, Zenon DEF StreamOrder
  <2>4. CASE j = Len(sent) + 1
    BY <1>1, <1>3, <2>1, <2>2, <2>4, Zenon DEF SameStream, Coalescible
  <2> QED
    BY <2>1, <2>3, <2>4
<1> QED
  BY <1>2, <1>3, SentGrows, Zenon

-----------------------------------------------------------------------------
(* The theorems *)

\* The inductive invariant: TypeOK and PendingConsistent for where things are,
\* History and KeysOrdered for the order, KeysCovered and NeverDropped for the
\* accounting.
IInv ==
  /\ TypeOK /\ PendingConsistent /\ History /\ KeysOrdered /\ StreamOrder
  /\ KeysCovered /\ NeverDropped /\ DropsAccounted

\* The conjunction is an invariant of every subscriber.
THEOREM Inductive == Spec => []IInv
<1>1. Init => IInv
  <2> SUFFICES ASSUME Init PROVE IInv
    BY Zenon
  <2>1. TypeOK
    BY InitType, Zenon
  <2>2. /\ sent = <<>> /\ pending = [k \in Keys |-> NoEvent] /\ pendingOrder = <<>>
        /\ peeked = NoEvent /\ flushPc = "wait" /\ accepted = {} /\ dropped = {}
        /\ pc = [e \in Emitters |-> "idle"]
    BY Zenon DEF Init
  <2>3. Placed = {} /\ Len(sent) = 0 /\ Len(pendingOrder) = 0
    BY <2>2 DEF Placed
  <2>4. PendingConsistent /\ StreamOrder /\ NeverDropped /\ DropsAccounted
    BY <2>2, <2>3 DEF PendingConsistent, StreamOrder, NeverDropped, DropsAccounted
  <2>5. History /\ KeysCovered
    BY <2>2, <2>3, Zenon DEF History, KeysCovered, Delivering
  <2>6. KeysOrdered
    BY <2>2, Zenon DEF KeysOrdered, KeyOrder
  <2> QED
    BY <2>1, <2>4, <2>5, <2>6, Zenon DEF IInv
<1>2. IInv /\ [Next]_vars => IInv'
  <2> SUFFICES ASSUME IInv, [Next]_vars PROVE IInv'
    BY Zenon
  <2>1. TypeOK'
    BY EmitterType, SubscriberType, TypeParts, Zenon DEF IInv, TypeOK, EmitterTypeOK, SubscriberTypeOK
  <2>2. PendingConsistent' /\ History' /\ NeverDropped'
    BY ConsistentStep, HistoryStep, NeverDroppedStep, Zenon DEF IInv
  <2>3. KeysOrdered'
    BY KeyOrderStep, Zenon DEF IInv, KeysOrdered, SingleEmitter
  <2>4. StreamOrder' /\ KeysCovered' /\ DropsAccounted'
    BY StreamOrderStep, KeysCoveredStep, DropsStep, Zenon DEF IInv
  <2> QED
    BY <2>1, <2>2, <2>3, <2>4, Zenon DEF IInv
<1> QED
  BY <1>1, <1>2, PTL DEF Spec

\* A consumer never sees the events of a stream out of order or twice, although
\* deliver sends some itself and leaves others to the flush loop: for every
\* number of goroutines, keys and events and every capacity, provided one
\* goroutine emits the key.
THEOREM StreamsOrdered == Spec => []StreamOrder
<1>1. IInv => StreamOrder
  BY Zenon DEF IInv
<1> QED
  BY <1>1, Inductive, PTL

\* deliver's result is honest: coalescing keeps at least one event of every
\* object that deliver accepted, an accepted discrete event was sent, and an event
\* counted as dropped never is.
THEOREM AcceptedIsKept == Spec => []AcceptedKept
<1>1. IInv => KeyNeverLost
  BY Zenon DEF IInv, KeysCovered, Covered, KeyNeverLost, Coalescible
<1>2. IInv => AcceptedKept
  BY <1>1, Zenon DEF IInv, AcceptedKept
<1> QED
  BY <1>2, Inductive, PTL

-----------------------------------------------------------------------------
(* The metadata cache *)

USE MetadataAssumption

\* Changing one row or document to one the resource may have gives a table.
LEMMA TableUpdate ==
  ASSUME NEW f \in Tables, NEW r \in Resources, NEW d \in DocsOf[r] \cup {NoDoc}
  PROVE  [f EXCEPT ![r] = d] \in Tables
<1>1. d \in Docs \cup {NoDoc}
  BY Zenon
<1> QED
  BY <1>1, Zenon DEF Tables

\* Removing everything gives a table, too.
LEMMA NoDocsTable == NoDocs \in Tables
BY Zenon DEF NoDocs, Tables

\* The indexes built from a table are well typed.
LEMMA IndexTypes ==
  ASSUME NEW f \in Tables
  PROVE  /\ ForeignIndexes(f) \subseteq [Refs -> [id : Zones, doc : Docs] \cup {NoEntry}]
         /\ ProviderIndex(f) \in [Refs -> SUBSET [id : Trackables, doc : Docs]]
<1>1. \A x \in Refs, z \in Zones : z \in Referring(Zones, f, x) => Entry(z, f[z]) \in [id : Zones, doc : Docs]
  BY Zenon DEF Referring, Tables, Entry, Resources
<1>2. \A x \in Refs, t \in Trackables :
        t \in Referring(Trackables, f, x) => Entry(t, f[t]) \in [id : Trackables, doc : Docs]
  BY Zenon DEF Referring, Tables, Entry, Resources
<1>3. \A x \in Refs : Referring(Zones, f, x) \subseteq Zones /\ Referring(Trackables, f, x) \subseteq Trackables
  BY Zenon DEF Referring
<1>4. ASSUME NEW index \in ForeignIndexes(f)
      PROVE  index \in [Refs -> [id : Zones, doc : Docs] \cup {NoEntry}]
  <2>1. /\ index \in [Refs -> {NoEntry} \cup {Entry(z, f[z]) : z \in Zones}]
        /\ \A x \in Refs : index[x] \in IF Referring(Zones, f, x) = {} THEN {NoEntry}
                                        ELSE {Entry(z, f[z]) : z \in Referring(Zones, f, x)}
    BY Zenon DEF ForeignIndexes
  <2>2. \A x \in Refs : index[x] \in [id : Zones, doc : Docs] \cup {NoEntry}
    BY <1>1, <1>3, <2>1
  <2> QED
    BY <2>1, <2>2, Zenon
<1>5. ProviderIndex(f) \in [Refs -> SUBSET [id : Trackables, doc : Docs]]
  BY <1>2, <1>3 DEF ProviderIndex
<1> QED
  BY <1>4, <1>5, Zenon

\* An upsert of the foreign id index is well typed.
LEMMA ForeignUpsertType ==
  ASSUME NEW index \in [Refs -> [id : Zones, doc : Docs] \cup {NoEntry}],
         NEW z \in Zones, NEW d \in Docs \cup {NoDoc}
  PROVE  ForeignUpsert(index, z, d) \in [Refs -> [id : Zones, doc : Docs] \cup {NoEntry}]
BY Zenon DEF ForeignUpsert, Entry

\* An upsert of the provider index is well typed.
LEMMA ProviderUpsertType ==
  ASSUME NEW index \in [Refs -> SUBSET [id : Trackables, doc : Docs]],
         NEW t \in Trackables, NEW d \in Docs \cup {NoDoc}
  PROVE  ProviderUpsert(index, t, d) \in [Refs -> SUBSET [id : Trackables, doc : Docs]]
BY DEF ProviderUpsert, Entry

-----------------------------------------------------------------------------
(* Type correctness *)

RowTypes == db \in Tables /\ dirty \in BOOLEAN /\ drifted \in BOOLEAN
SnapshotTypes ==
  /\ docs \in Tables
  /\ byForeign \in [Refs -> [id : Zones, doc : Docs] \cup {NoEntry}]
  /\ byProvider \in [Refs -> SUBSET [id : Trackables, doc : Docs]]
HandlerTypes ==
  /\ handlerPc \in [Clients -> {"idle", "write", "cache", "notify"}]
  /\ req \in [Clients -> Requests \cup {NoRequest}]
  /\ \A c \in Clients : handlerPc[c] # "idle" => req[c] \in Requests
  /\ writes \in 0..MaxWrites
LoopTypes ==
  /\ next \in Tables
  /\ loopPc \in {"idle", "load", "notify"} /\ loaded \in 0..Len(LoadOrder)
  /\ changes \in SUBSET [id : Resources, op : Operations]
ViewTypes == view \in Tables

\* MetadataTypeOK is the conjunction of its parts.
LEMMA MetadataTypeParts ==
  MetadataTypeOK <=> RowTypes /\ SnapshotTypes /\ HandlerTypes /\ LoopTypes /\ ViewTypes
BY Zenon DEF MetadataTypeOK, RowTypes, SnapshotTypes, HandlerTypes, LoopTypes, ViewTypes

\* A request in progress names a resource and a document it may have.
LEMMA RequestType ==
  ASSUME NEW q \in Requests
  PROVE  q.id \in Resources /\ q.doc \in DocsOf[q.id] \cup {NoDoc} /\ q.doc \in Docs \cup {NoDoc}
BY Zenon DEF Requests

\* diffSignatures yields changes of resources.
LEMMA DifferenceType ==
  ASSUME NEW f, NEW g
  PROVE  Difference(f, g) \subseteq [id : Resources, op : Operations]
BY DEF Difference, Operations

\* Every step keeps the types.
LEMMA MetadataTypeStep == MetadataTypeOK /\ [MetadataNext]_metadataVars => MetadataTypeOK'
<1> SUFFICES ASSUME MetadataTypeOK, [MetadataNext]_metadataVars PROVE MetadataTypeOK'
  BY Zenon
<1>0. RowTypes /\ SnapshotTypes /\ HandlerTypes /\ LoopTypes /\ ViewTypes
  BY MetadataTypeParts, Zenon
<1>r. ASSUME UNCHANGED rows PROVE RowTypes'
  BY <1>0, <1>r, Zenon DEF rows, RowTypes
<1>s. ASSUME UNCHANGED snapshot PROVE SnapshotTypes'
  BY <1>0, <1>s, Zenon DEF snapshot, SnapshotTypes
<1>h. ASSUME UNCHANGED handlers PROVE HandlerTypes'
  BY <1>0, <1>h, Zenon DEF handlers, HandlerTypes
<1>l. ASSUME UNCHANGED loop PROVE LoopTypes'
  BY <1>0, <1>l, Zenon DEF loop, LoopTypes
<1>v. ASSUME UNCHANGED view PROVE ViewTypes'
  BY <1>0, <1>v, Zenon DEF ViewTypes
<1>q. RowTypes' /\ SnapshotTypes' /\ HandlerTypes' /\ LoopTypes' /\ ViewTypes' => MetadataTypeOK'
  BY Zenon DEF MetadataTypeOK, RowTypes, SnapshotTypes, HandlerTypes, LoopTypes, ViewTypes
<1>w. ASSUME NEW r \in Resources, NEW d \in DocsOf[r] \cup {NoDoc}, WriteRow(r, d),
             drifted' \in BOOLEAN
      PROVE  RowTypes'
  BY <1>0, <1>w, TableUpdate, Zenon DEF WriteRow, RowTypes
<1>x. ASSUME NEW c \in Clients, Return(c) PROVE HandlerTypes'
  BY <1>0, <1>x, Zenon DEF Return, HandlerTypes
<1>1. ASSUME NEW c \in Clients, NEW op \in Operations, NEW r \in Resources,
             NEW d \in Docs \cup {NoDoc}, Request(c, op, r, d)
      PROVE  MetadataTypeOK'
  <2>1. [op |-> op, id |-> r, doc |-> d] \in Requests
    BY <1>1, Zenon DEF Request, Requests
  <2>2. HandlerTypes'
    BY <1>0, <1>1, <2>1 DEF Request, HandlerTypes
  <2> QED
    BY <1>1, <1>r, <1>s, <1>l, <1>v, <1>q, <2>2, Zenon DEF Request
<1>2. ASSUME NEW c \in Clients, DbWrite(c) PROVE MetadataTypeOK'
  <2>1. req[c] \in Requests
    BY <1>0, <1>2, Zenon DEF DbWrite, HandlerTypes
  <2>2. RowTypes'
    BY <1>0, <1>2, <1>w, <2>1, RequestType, Zenon DEF DbWrite, RowTypes
  <2>3. HandlerTypes'
    BY <1>0, <1>2, <2>1, Zenon DEF DbWrite, HandlerTypes
  <2> QED
    BY <1>2, <1>s, <1>l, <1>v, <1>q, <2>2, <2>3, Zenon DEF DbWrite
<1>3. ASSUME NEW c \in Clients, DbReject(c) PROVE MetadataTypeOK'
  BY <1>3, <1>r, <1>s, <1>x, <1>l, <1>v, <1>q, Zenon DEF DbReject
<1>4. ASSUME NEW c \in Clients, DbUnacknowledged(c) PROVE MetadataTypeOK'
  <2>1. req[c] \in Requests
    BY <1>0, <1>4, Zenon DEF DbUnacknowledged, HandlerTypes
  <2>2. RowTypes'
    BY <1>4, <1>w, <2>1, RequestType, Zenon DEF DbUnacknowledged
  <2> QED
    BY <1>4, <1>s, <1>x, <1>l, <1>v, <1>q, <2>2, Zenon DEF DbUnacknowledged
<1>5. ASSUME NEW c \in Clients, CacheWrite(c) PROVE MetadataTypeOK'
  <2>1. req[c] \in Requests
    BY <1>0, <1>5, Zenon DEF CacheWrite, HandlerTypes
  <2>2. SetDoc(req[c].id, req[c].doc)
    BY <1>5, Zenon DEF CacheWrite
  <2>3. docs' \in Tables
    BY <1>0, <2>1, <2>2, RequestType, TableUpdate, Zenon DEF SetDoc, SnapshotTypes
  <2>4. byForeign' \in [Refs -> [id : Zones, doc : Docs] \cup {NoEntry}]
    BY <1>0, <2>1, <2>2, RequestType, ForeignUpsertType, Zenon DEF SetDoc, SnapshotTypes
  <2>5. byProvider' \in [Refs -> SUBSET [id : Trackables, doc : Docs]]
    BY <1>0, <2>1, <2>2, RequestType, ProviderUpsertType, Zenon DEF SetDoc, SnapshotTypes
  <2>6. SnapshotTypes'
    BY <2>3, <2>4, <2>5, Zenon DEF SnapshotTypes
  <2>7. HandlerTypes'
    BY <1>0, <1>5, <2>1, Zenon DEF CacheWrite, HandlerTypes
  <2> QED
    BY <1>5, <1>r, <1>l, <1>v, <1>q, <2>6, <2>7, Zenon DEF CacheWrite
<1>6. ASSUME NEW c \in Clients, Notify(c) PROVE MetadataTypeOK'
  <2>1. req[c].id \in Resources
    BY <1>0, <1>6, RequestType, Zenon DEF Notify, HandlerTypes
  <2>2. docs[req[c].id] \in DocsOf[req[c].id] \cup {NoDoc}
    BY <1>0, <2>1, Zenon DEF SnapshotTypes, Tables
  <2>3. ViewTypes'
    BY <1>0, <1>6, <2>1, <2>2, TableUpdate, Zenon DEF Notify, ViewTypes
  <2> QED
    BY <1>6, <1>r, <1>s, <1>x, <1>l, <1>q, <2>3, Zenon DEF Notify
<1>7. ASSUME NEW r \in Resources, NEW d \in Docs \cup {NoDoc}, OutOfBand(r, d) PROVE MetadataTypeOK'
  <2>1. RowTypes'
    BY <1>7, <1>w, Zenon DEF OutOfBand
  <2>2. HandlerTypes'
    BY <1>0, <1>7 DEF OutOfBand, HandlerTypes
  <2> QED
    BY <1>7, <1>s, <1>l, <1>v, <1>q, <2>1, <2>2, Zenon DEF OutOfBand
<1>8. CASE Tick
  <2>1. LoopTypes'
    BY <1>0, <1>8, Zenon DEF Tick, LoopTypes
  <2> QED
    BY <1>8, <1>r, <1>s, <1>h, <1>v, <1>q, <2>1, Zenon DEF Tick
<1>9. CASE LoadTable
  <2>1. next' \in Tables
    BY <1>0, <1>9, Zenon DEF LoadTable, LoopTypes, RowTypes, Tables
  <2>2. LoopTypes'
    BY <1>0, <1>9, <2>1 DEF LoadTable, LoopTypes
  <2> QED
    BY <1>9, <1>r, <1>s, <1>h, <1>v, <1>q, <2>2, Zenon DEF LoadTable
<1>f. ASSUME Forget, UNCHANGED <<db, drifted>>
      PROVE  RowTypes' /\ next' \in Tables /\ loaded' \in 0..Len(LoadOrder)
  <2>1. Len(LoadOrder) \in Nat
    OBVIOUS
  <2>2. loaded' \in 0..Len(LoadOrder)
    BY <1>f, <2>1 DEF Forget
  <2>3. dirty' \in BOOLEAN
    BY <1>f, Zenon DEF Forget
  <2> QED
    BY <1>0, <1>f, <2>2, <2>3, NoDocsTable, Zenon DEF Forget, RowTypes
<1>10. CASE LoadFails
  <2>1. LoopTypes'
    BY <1>0, <1>10, <1>f, Zenon DEF LoadFails, LoopTypes
  <2> QED
    BY <1>10, <1>f, <1>s, <1>h, <1>v, <1>q, <2>1, Zenon DEF LoadFails
<1>11. CASE Install
  <2>1. LoopTypes'
    BY <1>0, <1>11, <1>f, DifferenceType, Zenon DEF Install, LoopTypes
  <2>2. SnapshotTypes'
    BY <1>0, <1>11, IndexTypes, Zenon DEF Install, LoopTypes, SnapshotTypes
  <2> QED
    BY <1>11, <1>f, <1>h, <1>v, <1>q, <2>1, <2>2, Zenon DEF Install
<1>12. CASE NotifyChange
  <2>1. PICK ch \in changes : changes' = changes \ {ch} /\ view' = [view EXCEPT ![ch.id] = docs[ch.id]]
    BY <1>12, Zenon DEF NotifyChange
  <2>2. ch.id \in Resources
    BY <1>0, <2>1, Zenon DEF LoopTypes
  <2>3. docs[ch.id] \in DocsOf[ch.id] \cup {NoDoc}
    BY <1>0, <2>2, Zenon DEF SnapshotTypes, Tables
  <2>4. ViewTypes'
    BY <1>0, <2>1, <2>2, <2>3, TableUpdate, Zenon DEF ViewTypes
  <2>5. LoopTypes'
    BY <1>0, <1>12, <2>1, Zenon DEF NotifyChange, LoopTypes
  <2> QED
    BY <1>12, <1>r, <1>s, <1>h, <1>q, <2>4, <2>5, Zenon DEF NotifyChange
<1>13. CASE Reconciled
  <2>1. LoopTypes'
    BY <1>0, <1>13, Zenon DEF Reconciled, LoopTypes
  <2> QED
    BY <1>13, <1>r, <1>s, <1>h, <1>v, <1>q, <2>1, Zenon DEF Reconciled
<1>14. CASE UNCHANGED metadataVars
  BY <1>14, <1>r, <1>s, <1>h, <1>l, <1>v, <1>q, Zenon DEF metadataVars
<1> QED
  BY <1>1, <1>2, <1>3, <1>4, <1>5, <1>6, <1>7, <1>8, <1>9, <1>10, <1>11, <1>12, <1>13, <1>14
     DEF MetadataNext, HandlerNext, Handle, Reconcile

\* Initially every variable has its type.
LEMMA InitMetadataType == InitMetadata => MetadataTypeOK
<1> SUFFICES ASSUME InitMetadata PROVE MetadataTypeOK
  BY Zenon
<1>1. SnapshotTypes
  BY IndexTypes, Zenon DEF InitMetadata, SnapshotTypes
<1>2. HandlerTypes
  BY DEF InitMetadata, HandlerTypes
<1>3. LoopTypes
  BY NoDocsTable DEF InitMetadata, LoopTypes
<1>4. RowTypes /\ ViewTypes
  BY Zenon DEF InitMetadata, RowTypes, ViewTypes
<1> QED
  BY <1>1, <1>2, <1>3, <1>4, MetadataTypeParts, Zenon

\* Rows, snapshot, handlers and reload keep their types, for every number of
\* handlers and resources (the CRUD methods and Reconcile).
THEOREM MetadataTyped == MetadataSpec => []MetadataTypeOK
BY InitMetadataType, MetadataTypeStep, PTL DEF MetadataSpec

-----------------------------------------------------------------------------
(* The indexes *)

\* UpsertTrackable and DeleteTrackable turn the index of one snapshot into the
\* index of the next.
LEMMA ProviderUpsertExact ==
  ASSUME NEW f \in Tables, NEW t \in Trackables, NEW d \in DocsOf[t] \cup {NoDoc}
  PROVE  ProviderUpsert(ProviderIndex(f), t, d) = ProviderIndex([f EXCEPT ![t] = d])
<1> DEFINE g == [f EXCEPT ![t] = d]
<1>1. /\ t \in Resources /\ g[t] = d
      /\ \A u \in Trackables : u \in Resources /\ (u # t => g[u] = f[u])
  BY Zenon DEF Resources, Tables
<1> HIDE DEF g
<1>2. ASSUME NEW x \in Refs
      PROVE  {e \in {Entry(u, f[u]) : u \in Referring(Trackables, f, x)} : e.id # t}
               \cup (IF d # NoDoc /\ x \in RefsOf[d] THEN {Entry(t, d)} ELSE {})
             = {Entry(u, g[u]) : u \in Referring(Trackables, g, x)}
  BY <1>1 DEF Referring, Entry
<1>3. ProviderUpsert(ProviderIndex(f), t, d) = ProviderIndex(g)
  BY <1>2, Zenon DEF ProviderUpsert, ProviderIndex
<1> QED
  BY <1>3, Zenon DEF g

\* Writing another kind of resource leaves the index by provider as it is.
LEMMA ProviderIndexLocal ==
  ASSUME NEW f \in Tables, NEW r \in Resources \ Trackables, NEW d
  PROVE  ProviderIndex([f EXCEPT ![r] = d]) = ProviderIndex(f)
<1> DEFINE g == [f EXCEPT ![r] = d]
<1>1. \A u \in Trackables : g[u] = f[u]
  BY Zenon DEF Resources, Tables
<1> HIDE DEF g
<1>2. \A x \in Refs : /\ Referring(Trackables, g, x) = Referring(Trackables, f, x)
                      /\ {Entry(u, g[u]) : u \in Referring(Trackables, g, x)}
                         = {Entry(u, f[u]) : u \in Referring(Trackables, f, x)}
  BY <1>1 DEF Referring
<1>3. ProviderIndex(g) = ProviderIndex(f)
  BY <1>2, Zenon DEF ProviderIndex
<1> QED
  BY <1>3, Zenon DEF g

\* The index that the hot path uses to find the trackables of a provider is
\* always the one a reload of the same documents would build.
THEOREM ProviderIndexCorrect == MetadataSpec => []ProviderIndexExact
<1>1. InitMetadata => ProviderIndexExact
  BY Zenon DEF InitMetadata, ProviderIndexExact
<1>2. MetadataTypeOK /\ ProviderIndexExact /\ [MetadataNext]_metadataVars => ProviderIndexExact'
  <2> SUFFICES ASSUME MetadataTypeOK, ProviderIndexExact, [MetadataNext]_metadataVars PROVE ProviderIndexExact'
    BY Zenon
  <2>1. CASE UNCHANGED snapshot
    BY <2>1, Zenon DEF snapshot, ProviderIndexExact
  <2>2. CASE Install
    BY <2>2, Zenon DEF Install, ProviderIndexExact
  <2>3. ASSUME NEW c \in Clients, CacheWrite(c) PROVE ProviderIndexExact'
    <3>1. /\ req[c].id \in Resources /\ req[c].doc \in DocsOf[req[c].id] \cup {NoDoc}
          /\ docs \in Tables
      BY <2>3, RequestType, Zenon DEF CacheWrite, MetadataTypeOK
    <3>2. CASE req[c].id \in Trackables
      BY <2>3, <3>1, <3>2, ProviderUpsertExact, Zenon DEF CacheWrite, SetDoc, ProviderIndexExact
    <3>3. CASE req[c].id \notin Trackables
      BY <2>3, <3>1, <3>3, ProviderIndexLocal, Zenon DEF CacheWrite, SetDoc, ProviderIndexExact
    <3> QED
      BY <3>2, <3>3, Zenon
  <2> QED
    BY <2>1, <2>2, <2>3, Zenon DEF MetadataNext, HandlerNext, Handle, Reconcile, Request, DbWrite, DbReject,
       DbUnacknowledged, Notify, OutOfBand, Tick, LoadTable, LoadFails, NotifyChange, Reconciled, metadataVars
<1> QED
  BY <1>1, <1>2, MetadataTyped, PTL DEF MetadataSpec

\* The index by foreign id, one entry at a time: what ForeignIndexSound says.
ForeignSoundAt(index, f, x) ==
  /\ index[x] # NoEntry => index[x] \in {Entry(z, f[z]) : z \in Referring(Zones, f, x)}
  /\ Exclusive(x) /\ Referring(Zones, f, x) # {} => index[x] # NoEntry

\* A rebuilt index is sound.
LEMMA ForeignIndexesSound ==
  ASSUME NEW f \in Tables, NEW index \in ForeignIndexes(f), NEW x \in Refs
  PROVE  ForeignSoundAt(index, f, x)
<1>1. index[x] \in IF Referring(Zones, f, x) = {} THEN {NoEntry}
                   ELSE {Entry(z, f[z]) : z \in Referring(Zones, f, x)}
  BY Zenon DEF ForeignIndexes
<1>2. \A z \in Zones : Entry(z, f[z]) # NoEntry
  BY Zenon DEF Entry, NoEntry, Resources
<1>3. Referring(Zones, f, x) \subseteq Zones
  BY Zenon DEF Referring
<1> QED
  BY <1>1, <1>2, <1>3, Zenon DEF ForeignSoundAt

\* UpsertZone and DeleteZone keep it sound.
LEMMA ForeignUpsertSound ==
  ASSUME NEW f \in Tables, NEW index \in [Refs -> [id : Zones, doc : Docs] \cup {NoEntry}],
         NEW z \in Zones, NEW d \in DocsOf[z] \cup {NoDoc},
         NEW x \in Refs, ForeignSoundAt(index, f, x)
  PROVE  ForeignSoundAt(ForeignUpsert(index, z, d), [f EXCEPT ![z] = d], x)
<1> DEFINE g == [f EXCEPT ![z] = d]
           next_index == ForeignUpsert(index, z, d)
<1>1. /\ z \in Resources /\ g[z] = d /\ \A u \in Zones : u # z => g[u] = f[u]
      /\ \A u \in Zones : f[u] \in DocsOf[u] \cup {NoDoc}
  BY Zenon DEF Resources, Tables
<1>2. next_index[x] = IF d # NoDoc /\ x \in RefsOf[d] THEN Entry(z, d)
                      ELSE IF index[x].id = z THEN NoEntry
                      ELSE index[x]
  BY Zenon DEF ForeignUpsert
<1> SUFFICES ForeignSoundAt(next_index, g, x)
  BY Zenon
<1> HIDE DEF g, next_index
<1>3. \A u \in Zones : u # z => (u \in Referring(Zones, g, x) <=> u \in Referring(Zones, f, x))
  BY <1>1, Zenon DEF Referring
<1>4. z \in Referring(Zones, g, x) <=> d # NoDoc /\ x \in RefsOf[d]
  BY <1>1, Zenon DEF Referring
<1>5. \A u \in Zones : \A e : Entry(u, e).id = u /\ Entry(u, e) # NoEntry
  BY Zenon DEF Entry, NoEntry, Resources
<1>6. /\ Referring(Zones, f, x) \subseteq Zones /\ Referring(Zones, g, x) \subseteq Zones
  BY Zenon DEF Referring
<1>7. CASE d # NoDoc /\ x \in RefsOf[d]
  BY <1>1, <1>2, <1>4, <1>5, <1>7 DEF ForeignSoundAt
<1>8. CASE ~(d # NoDoc /\ x \in RefsOf[d]) /\ index[x].id = z
  <2>1. next_index[x] = NoEntry
    BY <1>2, <1>8, Zenon
  <2>2. ASSUME Exclusive(x), NEW u \in Referring(Zones, g, x) PROVE FALSE
    <3>1. u \in Zones /\ u # z /\ u \in Referring(Zones, f, x)
      BY <1>3, <1>4, <1>6, <1>8, <2>2, Zenon
    <3>2. index[x] # NoEntry
      BY <2>2, <3>1, Zenon DEF ForeignSoundAt
    <3>3. z \in Referring(Zones, f, x)
      BY <1>5, <1>6, <1>8, <3>2 DEF ForeignSoundAt
    <3>4. /\ \E e \in DocsOf[u] : x \in RefsOf[e]
          /\ \E e \in DocsOf[z] : x \in RefsOf[e]
      BY <1>1, <3>1, <3>3, Zenon DEF Referring
    <3> QED
      BY <2>2, <3>1, <3>4, Zenon DEF Exclusive
  <2> QED
    BY <2>1, <2>2, Zenon DEF ForeignSoundAt
<1>9. CASE ~(d # NoDoc /\ x \in RefsOf[d]) /\ index[x].id # z
  <2>1. next_index[x] = index[x]
    BY <1>2, <1>9, Zenon
  <2>2. ASSUME index[x] # NoEntry
        PROVE  index[x] \in {Entry(u, g[u]) : u \in Referring(Zones, g, x)}
    <3>1. PICK u \in Referring(Zones, f, x) : index[x] = Entry(u, f[u])
      BY <2>2, Zenon DEF ForeignSoundAt
    <3>2. u \in Zones /\ u # z
      BY <1>5, <1>6, <1>9, <3>1, Zenon
    <3> QED
      BY <1>1, <1>3, <3>1, <3>2, Zenon
  <2>3. Referring(Zones, g, x) # {} => Referring(Zones, f, x) # {}
    BY <1>3, <1>4, <1>6, <1>9
  <2> QED
    BY <2>1, <2>2, <2>3, Zenon DEF ForeignSoundAt
<1> QED
  BY <1>7, <1>8, <1>9, Zenon

\* Writing another kind of resource leaves it sound.
LEMMA ForeignIndexLocal ==
  ASSUME NEW f \in Tables, NEW index, NEW r \in Resources \ Zones, NEW d,
         NEW x \in Refs, ForeignSoundAt(index, f, x)
  PROVE  ForeignSoundAt(index, [f EXCEPT ![r] = d], x)
<1> DEFINE g == [f EXCEPT ![r] = d]
<1>1. \A u \in Zones : g[u] = f[u]
  BY Zenon DEF Resources, Tables
<1> HIDE DEF g
<1>2. /\ Referring(Zones, g, x) = Referring(Zones, f, x)
      /\ {Entry(u, g[u]) : u \in Referring(Zones, g, x)}
         = {Entry(u, f[u]) : u \in Referring(Zones, f, x)}
  BY <1>1 DEF Referring
<1>3. ForeignSoundAt(index, g, x)
  BY <1>2, Zenon DEF ForeignSoundAt
<1> QED
  BY <1>3, Zenon DEF g

\* Looking a zone up by foreign id never yields a zone that is gone or a stale
\* copy, and misses none whose foreign id is its own.
THEOREM ForeignIndexCorrect == MetadataSpec => []ForeignIndexSound
<1>0. ForeignIndexSound <=> \A x \in Refs : ForeignSoundAt(byForeign, docs, x)
  BY Zenon DEF ForeignIndexSound, ForeignSoundAt
<1>1. InitMetadata => ForeignIndexSound
  BY <1>0, ForeignIndexesSound, Zenon DEF InitMetadata
<1>2. MetadataTypeOK /\ ForeignIndexSound /\ [MetadataNext]_metadataVars => ForeignIndexSound'
  <2> SUFFICES ASSUME MetadataTypeOK, ForeignIndexSound, [MetadataNext]_metadataVars PROVE ForeignIndexSound'
    BY Zenon
  <2>0. ForeignIndexSound' <=> \A x \in Refs : ForeignSoundAt(byForeign', docs', x)
    BY Zenon DEF ForeignIndexSound, ForeignSoundAt
  <2>1. CASE UNCHANGED snapshot
    BY <1>0, <2>0, <2>1, Zenon DEF snapshot
  <2>2. CASE Install
    BY <2>0, <2>2, ForeignIndexesSound, Zenon DEF Install, MetadataTypeOK
  <2>3. ASSUME NEW c \in Clients, CacheWrite(c) PROVE ForeignIndexSound'
    <3>1. /\ req[c].id \in Resources /\ req[c].doc \in DocsOf[req[c].id] \cup {NoDoc}
          /\ docs \in Tables
          /\ byForeign \in [Refs -> [id : Zones, doc : Docs] \cup {NoEntry}]
      BY <2>3, RequestType, Zenon DEF CacheWrite, MetadataTypeOK
    <3>2. CASE req[c].id \in Zones
      BY <1>0, <2>0, <2>3, <3>1, <3>2, ForeignUpsertSound, Zenon DEF CacheWrite, SetDoc
    <3>3. CASE req[c].id \notin Zones
      BY <1>0, <2>0, <2>3, <3>1, <3>3, ForeignIndexLocal, Zenon DEF CacheWrite, SetDoc
    <3> QED
      BY <3>2, <3>3, Zenon
  <2> QED
    BY <2>1, <2>2, <2>3, Zenon DEF MetadataNext, HandlerNext, Handle, Reconcile, Request, DbWrite, DbReject,
       DbUnacknowledged, Notify, OutOfBand, Tick, LoadTable, LoadFails, NotifyChange, Reconciled, metadataVars
<1> QED
  BY <1>1, <1>2, MetadataTyped, PTL DEF MetadataSpec

-----------------------------------------------------------------------------
(* Notifications *)

\* Another program changes some row.
OutOfBandStep == \E r \in Resources, d \in Docs \cup {NoDoc} : OutOfBand(r, d)

\* Differences are left to notify only while the loop is notifying.
ChangesOwned == loopPc # "notify" => changes = {}

\* Who has still to notify resource r.
Owed(r) ==
  \/ \E c \in Clients : handlerPc[c] = "notify" /\ req[c].id = r
  \/ \E ch \in changes : ch.id = r

\* The step of the induction for NoSilentChange.
LEMMA NoSilentStep ==
  ASSUME MetadataTypeOK, ChangesOwned, NoSilentChange, [MetadataNext]_metadataVars
  PROVE  ChangesOwned' /\ NoSilentChange'
<1>0. \A r \in Resources : view[r] # docs[r] => Owed(r)
  BY Zenon DEF NoSilentChange, Owed
<1>00. SUFFICES ChangesOwned' /\ \A r \in Resources : view'[r] # docs'[r] => Owed(r)'
  BY Zenon DEF NoSilentChange, Owed
<1>t. /\ handlerPc \in [Clients -> {"idle", "write", "cache", "notify"}]
      /\ req \in [Clients -> Requests \cup {NoRequest}]
      /\ docs \in Tables /\ view \in Tables /\ next \in Tables
      /\ \A c \in Clients : handlerPc[c] # "idle" => req[c] \in Requests
  BY Zenon DEF MetadataTypeOK
<1>v. \A f \in Tables : f \in [Resources -> Docs \cup {NoDoc}]
  BY Zenon DEF Tables
<1>1. CASE UNCHANGED metadataVars
  BY <1>0, <1>1, Zenon DEF Owed, ChangesOwned, metadataVars, rows, snapshot, handlers, loop
<1>2. ASSUME NEW c \in Clients, handlerPc[c] # "notify", UNCHANGED <<docs, view, loopPc, changes>>,
             \A b \in Clients : b # c => handlerPc'[b] = handlerPc[b] /\ req'[b] = req[b]
      PROVE  ChangesOwned' /\ \A r \in Resources : view'[r] # docs'[r] => Owed(r)'
  BY <1>0, <1>2 DEF Owed, ChangesOwned
<1>3. ASSUME NEW c \in Clients, NEW op \in Operations, NEW r \in Resources,
             NEW d \in Docs \cup {NoDoc}, Request(c, op, r, d)
      PROVE  ChangesOwned' /\ \A x \in Resources : view'[x] # docs'[x] => Owed(x)'
  BY <1>2, <1>3, <1>t, Zenon DEF Request, snapshot, loop
<1>4. ASSUME NEW c \in Clients, DbWrite(c) \/ DbReject(c) \/ DbUnacknowledged(c)
      PROVE  ChangesOwned' /\ \A x \in Resources : view'[x] # docs'[x] => Owed(x)'
  <2>1. /\ handlerPc[c] = "write"
        /\ UNCHANGED <<docs, view, loopPc, changes>>
        /\ \A b \in Clients : b # c => handlerPc'[b] = handlerPc[b] /\ req'[b] = req[b]
    BY <1>4, <1>t, Zenon DEF DbWrite, DbReject, DbUnacknowledged, Return, snapshot, loop
  <2> QED
    BY <1>2, <2>1, Zenon
<1>5. ASSUME NEW c \in Clients, CacheWrite(c)
      PROVE  ChangesOwned' /\ \A x \in Resources : view'[x] # docs'[x] => Owed(x)'
  <2>1. /\ \A x \in Resources : x # req[c].id => docs'[x] = docs[x]
        /\ handlerPc'[c] = "notify" /\ req' = req
        /\ \A b \in Clients : b # c => handlerPc'[b] = handlerPc[b]
        /\ handlerPc[c] = "cache"
        /\ UNCHANGED <<view, loopPc, changes>>
    BY <1>5, <1>t, <1>v, Zenon DEF CacheWrite, SetDoc, loop
  <2> QED
    BY <1>0, <2>1 DEF Owed, ChangesOwned
<1>6. ASSUME NEW c \in Clients, Notify(c)
      PROVE  ChangesOwned' /\ \A x \in Resources : view'[x] # docs'[x] => Owed(x)'
  <2>1. /\ \A b \in Clients : b # c => handlerPc'[b] = handlerPc[b] /\ req'[b] = req[b]
        /\ UNCHANGED <<docs, loopPc, changes>>
    BY <1>6, <1>t, Zenon DEF Notify, Return, snapshot, loop
  <2>2. \A x \in Resources : view'[x] = IF x = req[c].id THEN docs[x] ELSE view[x]
    BY <1>6, <1>t, <1>v, Zenon DEF Notify
  <2> QED
    BY <1>0, <2>1, <2>2 DEF Owed, ChangesOwned
<1>7. CASE OutOfBandStep \/ Tick \/ LoadTable \/ LoadFails \/ Reconciled
  <2>1. /\ UNCHANGED <<docs, view, handlerPc, req, changes>>
        /\ loopPc' = "notify" => loopPc = "notify"
        /\ loopPc = "notify" /\ loopPc' # "notify" => changes = {}
    BY <1>7, Zenon DEF OutOfBandStep, OutOfBand, Tick, LoadTable, LoadFails, Reconciled, snapshot, handlers, loop
  <2> QED
    BY <1>0, <2>1, Zenon DEF Owed, ChangesOwned
<1>8. CASE Install
  <2>1. /\ docs' = next /\ changes' = Difference(docs, next) /\ loopPc' = "notify"
        /\ UNCHANGED <<handlerPc, req, view>> /\ changes = {}
    BY <1>8, Zenon DEF Install, handlers, ChangesOwned
  <2>2. ASSUME NEW r \in Resources, docs[r] # next[r]
        PROVE  \E ch \in Difference(docs, next) : ch.id = r
    <3>1. CASE next[r] # NoDoc
      <4> DEFINE ch == [id |-> r, op |-> IF docs[r] = NoDoc THEN "create" ELSE "update"]
      <4>1. ch \in Difference(docs, next) /\ ch.id = r
        BY <2>2, <3>1, Zenon DEF Difference
      <4> QED
        BY <4>1, Zenon
    <3>2. CASE next[r] = NoDoc
      <4> DEFINE ch == [id |-> r, op |-> "delete"]
      <4>1. ch \in Difference(docs, next) /\ ch.id = r
        BY <2>2, <3>2, Zenon DEF Difference
      <4> QED
        BY <4>1, Zenon
    <3> QED
      BY <3>1, <3>2, Zenon
  <2> QED
    BY <1>0, <2>1, <2>2, Zenon DEF Owed, ChangesOwned
<1>9. CASE NotifyChange
  <2>1. PICK ch \in changes : /\ changes' = changes \ {ch}
                              /\ view' = [view EXCEPT ![ch.id] = docs[ch.id]]
    BY <1>9, Zenon DEF NotifyChange
  <2>2. UNCHANGED <<docs, handlerPc, req, loopPc>> /\ loopPc = "notify"
    BY <1>9, Zenon DEF NotifyChange, snapshot, handlers
  <2>3. \A x \in Resources : view'[x] = IF x = ch.id THEN docs[x] ELSE view[x]
    BY <1>t, <1>v, <2>1, Zenon
  <2> QED
    BY <1>0, <2>1, <2>2, <2>3, Zenon DEF Owed, ChangesOwned
<1> QED
  BY <1>1, <1>3, <1>4, <1>5, <1>6, <1>7, <1>8, <1>9
  DEF MetadataNext, HandlerNext, Handle, Reconcile, OutOfBandStep

\* The cache never changes without a metadata_changes notification to follow,
\* whether a handler or the reconcile loop made the change.
THEOREM ChangesNotified == MetadataSpec => []NoSilentChange
<1>1. InitMetadata => ChangesOwned /\ NoSilentChange
  BY Zenon DEF InitMetadata, ChangesOwned, NoSilentChange
<1>2. MetadataTypeOK /\ (ChangesOwned /\ NoSilentChange) /\ [MetadataNext]_metadataVars
        => (ChangesOwned /\ NoSilentChange)'
  BY NoSilentStep, Zenon
<1> QED
  BY <1>1, <1>2, MetadataTyped, PTL DEF MetadataSpec

\* Both indexes agree with the documents after every step, for every number of
\* handlers, zones and trackables.
THEOREM IndexesCorrect == MetadataSpec => []IndexesAgree
<1>1. ProviderIndexExact /\ ForeignIndexSound => IndexesAgree
  BY Zenon DEF IndexesAgree
<1> QED
  BY <1>1, ProviderIndexCorrect, ForeignIndexCorrect, PTL

-----------------------------------------------------------------------------
(* Reloading *)

\* What a load has listed is what the rows hold, as long as none has changed.
LoadedExact ==
  /\ loopPc # "load" => loaded = 0
  /\ loopPc = "load" /\ ~dirty =>
       \A i \in 1..loaded : \A r \in LoadOrder[i] : next[r] = db[r]

\* Every step keeps it: a write while loading marks the load as dirty.
LEMMA LoadedExactStep ==
  ASSUME MetadataTypeOK, LoadedExact, [MetadataNext]_metadataVars
  PROVE  LoadedExact'
<1>0. loaded \in Nat
  BY DEF MetadataTypeOK
<1>1. ASSUME loopPc' = loopPc, loaded' = loaded,
             next' = next, (db' = db /\ dirty' = dirty) \/ (loopPc = "load" => dirty')
      PROVE  LoadedExact'
  BY <1>1, Zenon DEF LoadedExact
<1>2. ASSUME NEW r, NEW d, WriteRow(r, d), UNCHANGED loop
      PROVE  LoadedExact'
  BY <1>1, <1>2, Zenon DEF WriteRow, loop
<1>3. CASE HandlerNext \/ UNCHANGED metadataVars
  <2>1. (UNCHANGED <<db, dirty>> \/ \E r, d : WriteRow(r, d)) /\ UNCHANGED loop
    BY <1>3, Zenon DEF HandlerNext, Handle, Request, DbWrite, DbReject, DbUnacknowledged, CacheWrite,
       Notify, metadataVars, rows
  <2> QED
    BY <1>1, <1>2, <2>1, Zenon DEF loop
<1>4. CASE OutOfBandStep
  BY <1>2, <1>4, Zenon DEF OutOfBandStep, OutOfBand
<1>5. CASE LoadTable
  <2>1. /\ loopPc = "load" /\ loopPc' = "load" /\ loaded' = loaded + 1
        /\ next' = [r \in Resources |-> IF r \in LoadOrder[loaded + 1] THEN db[r] ELSE next[r]]
        /\ db' = db /\ dirty' = dirty /\ loaded < Len(LoadOrder)
    BY <1>5, Zenon DEF LoadTable, rows
  <2>2. ASSUME ~dirty, NEW i \in 1..(loaded + 1), NEW r \in LoadOrder[i]
        PROVE  next'[r] = db[r]
    <3>1. r \in Resources
      BY <1>0, <2>1, MetadataAssumption
    <3>2. CASE i = loaded + 1
      BY <2>1, <3>1, <3>2, Zenon
    <3>3. CASE i \in 1..loaded
      BY <2>1, <2>2, <3>1, <3>3, Zenon DEF LoadedExact
    <3> QED
      BY <1>0, <3>2, <3>3
  <2> QED
    BY <2>1, <2>2, Zenon DEF LoadedExact
<1>6. CASE Tick
  BY <1>6 DEF Tick, LoadedExact
<1>7. CASE LoadFails \/ Install
  BY <1>7, Zenon DEF LoadFails, Install, Forget, LoadedExact
<1>8. CASE NotifyChange \/ Reconciled
  BY <1>8, Zenon DEF NotifyChange, Reconciled, LoadedExact
<1> QED
  BY <1>3, <1>4, <1>5, <1>6, <1>7, <1>8, Zenon DEF MetadataNext, Reconcile, OutOfBandStep

\* A reload that no write overlaps installs exactly the rows.
THEOREM ReloadCorrect == MetadataSpec => ReloadExact
<1>1. InitMetadata => LoadedExact
  BY Zenon DEF InitMetadata, LoadedExact
<1>2. MetadataTypeOK /\ LoadedExact /\ [MetadataNext]_metadataVars => LoadedExact'
  BY LoadedExactStep, Zenon
<1>3. MetadataTypeOK /\ LoadedExact /\ [MetadataNext]_metadataVars => [Install /\ ~dirty => docs' = db]_metadataVars
  <2> SUFFICES ASSUME MetadataTypeOK, LoadedExact, Install, ~dirty PROVE docs' = db
    BY Zenon
  <2>1. loopPc = "load" /\ loaded = Len(LoadOrder) /\ docs' = next
    BY Zenon DEF Install
  <2>2. \A r \in Resources : next[r] = db[r]
    BY <2>1, MetadataAssumption DEF LoadedExact
  <2>3. next \in [Resources -> Docs \cup {NoDoc}] /\ db \in [Resources -> Docs \cup {NoDoc}]
    BY Zenon DEF MetadataTypeOK, Tables
  <2> QED
    BY <2>1, <2>2, <2>3
<1> QED
  BY <1>1, <1>2, <1>3, MetadataTyped, PTL DEF MetadataSpec, ReloadExact
=============================================================================
