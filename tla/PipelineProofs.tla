--------------------------- MODULE PipelineProofs ---------------------------
(***************************************************************************)
(* Proofs about Pipeline, for every set of clients, locations, streams and *)
(* trackables, every hash and every size of the queues and batches.        *)
(***************************************************************************)
EXTENDS Pipeline, FiniteSetTheorems, TLAPS

-----------------------------------------------------------------------------
Items == [loc : Locations, by : Clients, at : Nat, n : Nat]
Busy(c) == pc[c] \in {"store", "trackables", "submit"}

(* One item comes before another: an earlier one of the same request.      *)
Before(i, j) == i.by = j.by => i.n < j.n
Ordered(q) == \A a, b \in 1..Len(q) : a < b => Before(q[a], q[b])
Precede(P, Q) == \A i \in P, j \in Q : Before(i, j)

TypeInv ==
  /\ now \in Nat /\ issued \in Nat /\ derived \in Nat
  /\ pc \in [Clients -> {"idle", "next", "store", "trackables", "submit"}]
  /\ cur \in [Clients -> Items \cup {NoItem}]
  /\ seen \in [Locations -> Nat]
  /\ latest \in [Streams -> [item : Items \cup {NoItem}, until : Nat]]
  /\ tlatest \in [Trackables -> [item : Items \cup {NoItem}, until : Nat]]
  /\ native \in Seq(Items) /\ working \in Seq(Items) /\ Len(working) <= 1
  /\ queue \in [Shards -> Seq(Items)] /\ batch \in [Shards -> Seq(Items)]
  /\ phase \in [Shards -> {"wait", "drain", "process"}]
  /\ drops \in [native : Nat, decision : Nat]
  /\ lastOf \in [Clients -> [Streams -> Nat]]

(* A request has an item of its own in hand, numbered once it is stored;   *)
(* and a worker that is not waiting has a batch.                           *)
StepInv ==
  /\ \A c \in Clients : Busy(c) =>
        cur[c] \in Items /\ cur[c].by = c /\ (pc[c] = "store" => cur[c].n = 0)
  /\ \A s \in Shards : phase[s] # "wait" => batch[s] # <<>>

(* The items on their way follow each other in the order of their numbers, *)
(* those of each request.                                                  *)
FlowInv ==
  /\ Ordered(native) /\ Precede(Range2(working), Range2(native))
  /\ \A s \in Shards :
       /\ Ordered(queue[s]) /\ Ordered(batch[s])
       /\ Precede(Range2(batch[s]), Range2(queue[s]))
       /\ Precede(Range2(batch[s]) \cup Range2(queue[s]), Range2(working) \cup Range2(native))
       /\ \A i \in Range2(batch[s]) \cup Range2(queue[s]) : ShardOf(i) = s
  /\ \A c \in Clients : Pending(c) => Precede(Queued, {cur[c]})

(* What is known of an item on its way.                                    *)
ItemOK(i) ==
  /\ i.n \in 1..issued
  /\ lastOf[i.by][StreamOf[i.loc]] < i.n
  /\ latest[StreamOf[i.loc]].item.n >= i.n

Tracked(i) ==
  \A t \in TrackablesFor(i.loc) : tlatest[t].item.n >= i.n \/ tlatest[t].item.by # i.by

ItemsInv ==
  /\ \A i \in InFlight : ItemOK(i)
  /\ \A i \in Queued : Tracked(i)
  /\ \A c \in Clients : pc[c] = "submit" => Tracked(cur[c])
  /\ \A c \in Clients, k \in Streams : lastOf[c][k] <= issued

CountInv == IsFiniteSet(InFlight) /\ DropsAccounted

(* The items accepted, whether stored yet or not.                          *)
Accepted == Queued \cup {cur[c] : c \in {c \in Clients : Busy(c)}}
Apart(i, j) == i.at >= j.at + DedupTTL \/ j.at >= i.at + DedupTTL

WindowInv ==
  /\ \A i \in Accepted : i.at + DedupTTL <= seen[i.loc]
  /\ \A i, j \in Accepted : i.loc = j.loc /\ i # j => Apart(i, j)

Inv ==
  /\ TypeInv /\ StepInv /\ FlowInv /\ ItemsInv /\ CountInv /\ WindowInv
  /\ SuppressedWasRecorded

-----------------------------------------------------------------------------
(* Sequences of items.                                                     *)

\* An item joins a queue.
LEMMA Joined ==
  ASSUME NEW q \in Seq(Items), NEW x \in Items
  PROVE  /\ Append(q, x) \in Seq(Items) /\ Range2(Append(q, x)) = Range2(q) \cup {x}
         /\ Ordered(q) /\ Precede(Range2(q), {x}) => Ordered(Append(q, x))
<1> DEFINE t == Append(q, x)
<1>1. /\ t \in Seq(Items) /\ Len(q) \in Nat /\ Len(t) = Len(q) + 1
      /\ 1..Len(t) = 1..Len(q) \cup {Len(q) + 1}
      /\ \A i \in 1..Len(q) : t[i] = q[i]
      /\ t[Len(q) + 1] = x
  OBVIOUS
<1> HIDE DEF t
<1>2. ASSUME NEW y \in Range2(t) PROVE y \in Range2(q) \cup {x}
  <2>1. PICK i \in 1..Len(t) : y = t[i]
    BY <1>2 DEF Range2
  <2> QED
    BY <1>1, <2>1, Zenon DEF Range2
<1>3. ASSUME NEW y \in Range2(q) \cup {x} PROVE y \in Range2(t)
  BY <1>1, <1>3, Zenon DEF Range2
<1>4. ASSUME Ordered(q), Precede(Range2(q), {x}), NEW a \in 1..Len(t), NEW b \in 1..Len(t), a < b
      PROVE  Before(t[a], t[b])
  <2>1. a \in 1..Len(q) /\ t[a] = q[a] /\ q[a] \in Range2(q)
    BY <1>1, <1>4 DEF Range2
  <2>2. CASE b \in 1..Len(q)
    BY <1>1, <1>4, <2>1, <2>2, Zenon DEF Ordered
  <2>3. CASE b = Len(q) + 1
    BY <1>1, <1>4, <2>1, <2>3, Zenon DEF Precede
  <2> QED
    BY <1>1, <2>2, <2>3, Zenon
<1>5. Ordered(q) /\ Precede(Range2(q), {x}) => Ordered(t)
  BY <1>4, Zenon DEF Ordered
<1>6. Range2(t) = Range2(q) \cup {x}
  BY <1>2, <1>3, Zenon
<1> QED
  BY <1>1, <1>5, <1>6, Zenon DEF t

\* The first item leaves a queue.
LEMMA Left ==
  ASSUME NEW q \in Seq(Items), q # <<>>
  PROVE  /\ Tail(q) \in Seq(Items) /\ Head(q) \in Items
         /\ Range2(q) = Range2(Tail(q)) \cup {Head(q)}
         /\ Ordered(q) => Ordered(Tail(q)) /\ Precede({Head(q)}, Range2(Tail(q)))
<1> DEFINE t == Tail(q)
           x == Head(q)
<1>1. /\ t \in Seq(Items) /\ x \in Items /\ Len(q) \in Nat /\ Len(t) = Len(q) - 1
      /\ \A i \in 1..Len(t) : t[i] = q[i + 1] /\ i + 1 \in 1..Len(q) /\ i + 1 > 1
      /\ \A j \in 1..Len(q) : j # 1 => j - 1 \in 1..Len(t) /\ t[j - 1] = q[j]
      /\ 1 \in 1..Len(q) /\ x = q[1]
  OBVIOUS
<1> HIDE DEF t, x
<1>2. ASSUME NEW y \in Range2(q) PROVE y \in Range2(t) \cup {x}
  <2>1. PICK j \in 1..Len(q) : y = q[j]
    BY <1>2 DEF Range2
  <2> QED
    BY <1>1, <2>1, Zenon DEF Range2
<1>3. ASSUME NEW y \in Range2(t) \cup {x} PROVE y \in Range2(q)
  BY <1>1, <1>3 DEF Range2
<1>4. ASSUME Ordered(q) PROVE Ordered(t)
  BY <1>1, <1>4 DEF Ordered
<1>5. ASSUME Ordered(q) PROVE Precede({x}, Range2(t))
  <2>1. \A i \in 1..Len(t) : Before(q[1], q[i + 1])
    BY <1>1, <1>5, Zenon DEF Ordered
  <2> QED
    BY <1>1, <2>1 DEF Precede, Range2
<1>6. Range2(q) = Range2(t) \cup {x}
  BY <1>2, <1>3, Zenon
<1> QED
  BY <1>1, <1>4, <1>5, <1>6, Zenon DEF t, x

\* What the native worker has in hand is nothing or one item.
LEMMA InHand ==
  ASSUME NEW w \in Seq(Items), Len(w) <= 1
  PROVE  /\ w # <<>> => w[1] \in Items /\ Range2(w) = {w[1]}
         /\ Range2(<<>>) = {}
         /\ \A x \in Items : <<x>> \in Seq(Items) /\ Range2(<<x>>) = {x} /\ Len(<<x>>) <= 1
<1>1. Range2(<<>>) = {}
  BY DEF Range2
<1>2. ASSUME w # <<>> PROVE w[1] \in Items /\ Range2(w) = {w[1]}
  BY <1>2 DEF Range2
<1>3. ASSUME NEW x \in Items PROVE <<x>> \in Seq(Items) /\ Range2(<<x>>) = {x} /\ Len(<<x>>) <= 1
  BY DEF Range2
<1> QED
  BY <1>1, <1>2, <1>3, Zenon

\* The places a queued item may be in.
LEMMA QueuedIs ==
  ASSUME NEW i
  PROVE  i \in Queued <=>
           \/ i \in Range2(native) \/ i \in Range2(working)
           \/ \E s \in Shards : i \in Range2(queue[s]) \cup Range2(batch[s])
BY Zenon DEF Queued

\* The same after a step.
LEMMA QueuedNext ==
  ASSUME NEW i
  PROVE  i \in Queued' <=>
           \/ i \in Range2(native') \/ i \in Range2(working')
           \/ \E s \in Shards : i \in Range2(queue'[s]) \cup Range2(batch'[s])
BY Zenon DEF Queued

\* Every location has a shard.
LEMMA ShardFacts ==
  ASSUME NEW i \in Items
  PROVE  /\ ShardOf(i) \in Shards /\ StreamOf[i.loc] \in Streams
         /\ i.loc \in Locations /\ i.by \in Clients /\ i.at \in Nat /\ i.n \in Nat
<1>1. i.loc \in Locations /\ i.by \in Clients /\ i.at \in Nat /\ i.n \in Nat
  BY DEF Items
<1>2. StreamOf[i.loc] \in Streams /\ Hash[StreamOf[i.loc]] \in Nat
  BY <1>1, PipelineAssumption, Zenon
<1>3. WorkerCount \in Nat \ {0}
  BY PipelineAssumption DEF WorkerCount, DefaultWorkers
<1>4. \A h \in Nat, k \in Nat \ {0} : h % k \in 0..(k - 1)
  OBVIOUS
<1> QED
  BY <1>1, <1>2, <1>3, <1>4, Zenon DEF ShardOf, Shards

\* The items in hand or queued.
LEMMA InFlightIs ==
  ASSUME NEW i
  PROVE  /\ i \in InFlight <=> i \in Queued \/ \E c \in Clients : Pending(c) /\ i = cur[c]
         /\ i \in Accepted <=> i \in Queued \/ \E c \in Clients : Busy(c) /\ i = cur[c]
BY Zenon DEF InFlight, Accepted

\* The kinds of items, and what is known of them.
LEMMA ItemFacts ==
  ASSUME TypeInv, StepInv
  PROVE  /\ Queued \subseteq Items /\ InFlight \subseteq Items /\ Accepted \subseteq Items
         /\ \A c \in Clients : Pending(c) => Busy(c)
         /\ \A c \in Clients : Busy(c) => cur[c] \in Items /\ cur[c].by = c
<1>1. \A q \in Seq(Items) : Range2(q) \subseteq Items
  BY DEF Range2
<1>2. ASSUME NEW i \in Queued PROVE i \in Items
  <2>1. CASE i \in Range2(native) \/ i \in Range2(working)
    BY <1>1, <2>1, Zenon DEF TypeInv
  <2>2. ASSUME NEW s \in Shards, i \in Range2(queue[s]) \cup Range2(batch[s]) PROVE i \in Items
    <3>1. queue[s] \in Seq(Items) /\ batch[s] \in Seq(Items)
      BY Zenon DEF TypeInv
    <3> QED
      BY <1>1, <2>2, <3>1, Zenon
  <2> QED
    BY <1>2, <2>1, <2>2, QueuedIs, Zenon
<1>3. \A c \in Clients : Pending(c) => Busy(c)
  BY DEF Pending, Busy
<1>4. \A c \in Clients : Busy(c) => cur[c] \in Items /\ cur[c].by = c
  BY Zenon DEF StepInv
<1>5. InFlight \subseteq Items /\ Accepted \subseteq Items
  BY <1>2, <1>3, <1>4, InFlightIs, Zenon
<1> QED
  BY <1>2, <1>3, <1>4, <1>5, Zenon

-----------------------------------------------------------------------------
(* What a step that does not concern a part of the invariant leaves of it. *)

\* Items that were accepted keep their distance.
LEMMA WindowKept ==
  ASSUME WindowInv, UNCHANGED seen, Accepted' \subseteq Accepted
  PROVE  WindowInv'
BY Zenon DEF WindowInv, Apart

\* Content that is about to be recorded is still about to be.
LEMMA SuppressedKept ==
  ASSUME SuppressedWasRecorded, TypeInv, now' \in Nat, now' >= now,
         UNCHANGED <<seen, recorded>>,
         \A c \in Clients : pc[c] = "store" => pc'[c] = "store" /\ cur'[c] = cur[c]
  PROVE  SuppressedWasRecorded'
<1> SUFFICES ASSUME NEW l \in Locations, seen'[l] > now'
             PROVE  l \in recorded' \/ \E c \in Clients : pc'[c] = "store" /\ cur'[c].loc = l
  BY Zenon DEF SuppressedWasRecorded
<1>1. seen[l] > now
  BY DEF TypeInv
<1> QED
  BY <1>1, Zenon DEF SuppressedWasRecorded

\* Queues that nobody touches.
LEMMA QueuesKept ==
  ASSUME FlowInv, UNCHANGED <<native, working, queue, batch>>,
         \A c \in Clients : Pending(c)' => Precede(Queued, {cur'[c]})
  PROVE  FlowInv' /\ Queued' = Queued
<1>1. Queued' = Queued
  BY Zenon DEF Queued
<1>2. /\ Ordered(native)' /\ Precede(Range2(working), Range2(native))'
      /\ \A s \in Shards :
           /\ Ordered(queue[s])' /\ Ordered(batch[s])'
           /\ Precede(Range2(batch[s]), Range2(queue[s]))'
           /\ Precede(Range2(batch[s]) \cup Range2(queue[s]), Range2(working) \cup Range2(native))'
           /\ \A i \in (Range2(batch[s]) \cup Range2(queue[s]))' : ShardOf(i) = s
  BY Zenon DEF FlowInv
<1> QED
  BY <1>1, <1>2, Zenon DEF FlowInv

\* Steps that leave every stored item where it is.
LEMMA Unmoved ==
  ASSUME Inv, UNCHANGED <<native, working, queue, batch>>,
         UNCHANGED <<latest, tlatest, issued, drops, derived, lastOf>>,
         \A c \in Clients : /\ Pending(c)' <=> Pending(c)
                            /\ pc'[c] = "submit" => pc[c] = "submit"
                            /\ Pending(c) => cur'[c] = cur[c]
  PROVE  FlowInv' /\ ItemsInv' /\ CountInv' /\ Queued' = Queued
<1>1. FlowInv /\ ItemsInv /\ CountInv
  BY Zenon DEF Inv
<1>2. FlowInv' /\ Queued' = Queued
  <2>1. \A c \in Clients : Pending(c)' => Precede(Queued, {cur'[c]})
    BY <1>1, Zenon DEF FlowInv
  <2> QED
    BY <1>1, <2>1, QueuesKept, Zenon
<1>3. InFlight' = InFlight
  <2>1. {cur[c] : c \in {c \in Clients : Pending(c)}}' = {cur[c] : c \in {c \in Clients : Pending(c)}}
    BY Zenon
  <2> QED
    BY <1>2, <2>1, Zenon DEF InFlight
<1>4. \A i : (ItemOK(i)' <=> ItemOK(i)) /\ (Tracked(i)' <=> Tracked(i))
  BY Zenon DEF ItemOK, Tracked
<1>5. ItemsInv'
  <2>1. \A i \in InFlight' : ItemOK(i)'
    BY <1>1, <1>3, <1>4, Zenon DEF ItemsInv
  <2>2. \A i \in Queued' : Tracked(i)'
    BY <1>1, <1>2, <1>4, Zenon DEF ItemsInv
  <2>3. ASSUME NEW c \in Clients, pc'[c] = "submit" PROVE Tracked(cur[c])'
    <3>1. cur'[c] = cur[c] /\ Tracked(cur[c])
      BY <1>1, <2>3, Zenon DEF ItemsInv, Pending
    <3> QED
      BY <3>1, Zenon DEF Tracked
  <2> QED
    BY <1>1, <2>1, <2>2, <2>3, Zenon DEF ItemsInv
<1>6. CountInv'
  BY <1>1, <1>3, Zenon DEF CountInv, DropsAccounted
<1> QED
  BY <1>2, <1>5, <1>6, Zenon

-----------------------------------------------------------------------------
(* The steps of ingest.                                                    *)

\* Steps between two locations of a request, and the clock's.
LEMMA QuietStep ==
  ASSUME Inv, UNCHANGED <<cur, state, native, working, decision, drops, history>>,
         now' \in Nat, now' >= now,
         \/ UNCHANGED pc
         \/ \E c \in Clients, x \in {"idle", "next"} :
              pc[c] \in {"idle", "next"} /\ pc' = [pc EXCEPT ![c] = x]
  PROVE  Inv'
<1>1. TypeInv /\ StepInv /\ WindowInv /\ SuppressedWasRecorded
  BY Zenon DEF Inv
<1>2. /\ UNCHANGED <<cur, seen, latest, tlatest, issued, native, working>>
      /\ UNCHANGED <<queue, batch, phase, drops, derived, lastOf, recorded>>
  BY Zenon DEF state, decision, history
<1>3. /\ pc' \in [Clients -> {"idle", "next", "store", "trackables", "submit"}]
      /\ \A c \in Clients : pc'[c] = pc[c] \/ {pc'[c], pc[c]} \subseteq {"idle", "next"}
  BY <1>1, Zenon DEF TypeInv
<1>4. \A c \in Clients : /\ Pending(c)' <=> Pending(c)
                         /\ Busy(c)' <=> Busy(c)
                         /\ pc'[c] = "submit" <=> pc[c] = "submit"
                         /\ pc'[c] = "store" <=> pc[c] = "store"
  BY <1>3, Zenon DEF Pending, Busy
<1>5. TypeInv'
  BY <1>1, <1>2, <1>3, Zenon DEF TypeInv
<1>6. StepInv'
  BY <1>1, <1>2, <1>4, Zenon DEF StepInv
<1>7. FlowInv' /\ ItemsInv' /\ CountInv' /\ Queued' = Queued
  BY <1>2, <1>4, Unmoved, Zenon
<1>8. Accepted' = Accepted
  BY <1>2, <1>4, <1>7, Zenon DEF Accepted
<1>9. WindowInv'
  BY <1>1, <1>2, <1>8, WindowKept, Zenon
<1>10. SuppressedWasRecorded'
  BY <1>1, <1>2, <1>4, SuppressedKept, Zenon
<1> QED
  BY <1>5, <1>6, <1>7, <1>9, <1>10, Zenon DEF Inv

\* A location is accepted: the suppression of its content had ended.
LEMMA AcceptStep ==
  ASSUME Inv, NEW c \in Clients, pc[c] = "next", NEW l \in Locations, ~(seen[l] > now),
         Accept(c, l), UNCHANGED <<now, latest, tlatest, issued, native, working, decision>>,
         UNCHANGED <<drops, history>>
  PROVE  Inv'
<1> DEFINE i == [loc |-> l, by |-> c, at |-> now, n |-> 0]
<1>1. TypeInv /\ StepInv /\ WindowInv /\ SuppressedWasRecorded
  BY Zenon DEF Inv
<1>2. /\ UNCHANGED <<now, latest, tlatest, issued, native, working>>
      /\ UNCHANGED <<queue, batch, phase, drops, derived, lastOf, recorded>>
  BY Zenon DEF decision, history
<1>3. /\ seen' = [seen EXCEPT ![l] = now + DedupTTL] /\ cur' = [cur EXCEPT ![c] = i]
      /\ pc' = [pc EXCEPT ![c] = "store"]
  BY Zenon DEF Accept
<1>4. i \in Items /\ i.loc = l /\ i.by = c /\ i.at = now /\ i.n = 0
  BY <1>1, Zenon DEF TypeInv, Items
<1> HIDE DEF i
<1>5. /\ now \in Nat /\ DedupTTL \in Nat \ {0} /\ now + DedupTTL \in Nat
      /\ seen'[l] = now + DedupTTL /\ \A k \in Locations : seen'[k] >= seen[k] /\ seen[k] \in Nat
      /\ \A k \in Locations \ {l} : seen'[k] = seen[k]
      /\ seen[l] <= now /\ seen' \in [Locations -> Nat]
  BY <1>1, <1>3, PipelineAssumption DEF TypeInv
<1>6. /\ cur' \in [Clients -> Items \cup {NoItem}] /\ cur'[c] = i
      /\ \A d \in Clients \ {c} : cur'[d] = cur[d]
  BY <1>1, <1>3, <1>4, Zenon DEF TypeInv
<1>7. /\ pc' \in [Clients -> {"idle", "next", "store", "trackables", "submit"}]
      /\ pc'[c] = "store" /\ \A d \in Clients \ {c} : pc'[d] = pc[d]
  BY <1>1, <1>3, Zenon DEF TypeInv
<1>8. TypeInv'
  BY <1>1, <1>2, <1>5, <1>6, <1>7, Zenon DEF TypeInv
<1>9. StepInv'
  BY <1>1, <1>2, <1>4, <1>6, <1>7 DEF StepInv, Busy
<1>10. FlowInv' /\ ItemsInv' /\ CountInv' /\ Queued' = Queued
  <2>1. \A d \in Clients : /\ Pending(d)' <=> Pending(d)
                           /\ pc'[d] = "submit" => pc[d] = "submit"
                           /\ Pending(d) => cur'[d] = cur[d]
    BY <1>6, <1>7, Zenon DEF Pending
  <2> QED
    BY <1>2, <2>1, Unmoved, Zenon
<1>11. \A j \in Accepted' : j \in Accepted \/ j = i
  <2>1. \A d \in Clients \ {c} : Busy(d)' <=> Busy(d)
    BY <1>7, Zenon DEF Busy
  <2> QED
    BY <1>6, <1>10, <2>1, Zenon DEF Accepted
<1>12. Accepted \subseteq Items
  BY <1>1, ItemFacts, Zenon
<1>13. ASSUME NEW j \in Accepted
       PROVE  /\ j.loc \in Locations /\ j.at \in Nat
              /\ j.at + DedupTTL <= seen[j.loc] /\ j.at + DedupTTL <= seen'[j.loc]
              /\ j.loc = l => Apart(i, j) /\ Apart(j, i)
  <2>1. j.loc \in Locations /\ j.at \in Nat
    BY <1>12, ShardFacts, Zenon
  <2>2. j.at + DedupTTL <= seen[j.loc]
    BY <1>1, Zenon DEF WindowInv
  <2>3. j.loc = l => now >= j.at + DedupTTL
    BY <1>5, <2>1, <2>2
  <2> QED
    BY <1>4, <1>5, <2>1, <2>2, <2>3 DEF Apart
<1>14. WindowInv'
  <2>1. \A j \in Accepted' : j.at + DedupTTL <= seen'[j.loc]
    BY <1>4, <1>5, <1>11, <1>13
  <2>2. \A j, k \in Accepted' : j.loc = k.loc /\ j # k => Apart(j, k)
    BY <1>1, <1>4, <1>11, <1>13, Zenon DEF WindowInv
  <2> QED
    BY <2>1, <2>2, Zenon DEF WindowInv, Apart
<1>15. SuppressedWasRecorded'
  <2> SUFFICES ASSUME NEW k \in Locations, seen'[k] > now'
               PROVE  k \in recorded' \/ \E d \in Clients : pc'[d] = "store" /\ cur'[d].loc = k
    BY Zenon DEF SuppressedWasRecorded
  <2>1. CASE k = l
    BY <1>4, <1>6, <1>7, <2>1, Zenon
  <2>2. CASE k # l
    <3>1. k \in recorded \/ \E d \in Clients : pc[d] = "store" /\ cur[d].loc = k
      BY <1>1, <1>2, <1>5, <2>2 DEF SuppressedWasRecorded
    <3>2. \A d \in Clients : pc[d] = "store" => d # c
      BY Zenon
    <3> QED
      BY <1>2, <1>6, <1>7, <3>1, <3>2, Zenon
  <2> QED
    BY <2>1, <2>2, Zenon
<1> QED
  BY <1>8, <1>9, <1>10, <1>14, <1>15, Zenon DEF Inv

\* A location is stored: its number is the greatest yet.
LEMMA StoreStep ==
  ASSUME Inv, NEW c \in Clients, SetLatestLocation(c)
  PROVE  Inv'
<1> DEFINE i == [cur[c] EXCEPT !.n = issued + 1]
           k == StreamOf[i.loc]
           e == [item |-> i, until |-> now + LocationTTL]
<1>1. TypeInv /\ StepInv /\ FlowInv /\ ItemsInv /\ CountInv /\ WindowInv /\ SuppressedWasRecorded
  BY DEF Inv
<1>2. /\ UNCHANGED <<now, seen, tlatest, native, working>>
      /\ UNCHANGED <<queue, batch, phase, drops, derived, lastOf>>
      /\ issued' = issued + 1 /\ pc[c] = "store"
  BY Zenon DEF SetLatestLocation, decision
<1>3. /\ cur' = [cur EXCEPT ![c] = i] /\ latest' = [latest EXCEPT ![k] = e]
      /\ recorded' = recorded \cup {i.loc} /\ pc' = [pc EXCEPT ![c] = "trackables"]
  BY Zenon DEF SetLatestLocation
<1>4. cur[c] \in Items /\ cur[c].by = c /\ cur[c].n = 0 /\ issued \in Nat
  BY <1>1, <1>2, Zenon DEF StepInv, Busy, TypeInv
<1>5. /\ i \in Items /\ i.loc = cur[c].loc /\ i.by = c /\ i.at = cur[c].at /\ i.n = issued + 1
      /\ k \in Streams
  <2>1. i \in Items /\ i.loc = cur[c].loc /\ i.by = c /\ i.at = cur[c].at /\ i.n = issued + 1
    BY <1>4 DEF Items
  <2> HIDE DEF i
  <2> QED
    BY <2>1, ShardFacts, Zenon
<1> HIDE DEF i, k
<1>6. e \in [item : Items \cup {NoItem}, until : Nat] /\ e.item = i
  BY <1>1, <1>5, PipelineAssumption DEF TypeInv
<1> HIDE DEF e
<1>7. /\ cur' \in [Clients -> Items \cup {NoItem}] /\ cur'[c] = i
      /\ \A d \in Clients \ {c} : cur'[d] = cur[d]
  BY <1>1, <1>3, <1>5, Zenon DEF TypeInv
<1>8. /\ pc' \in [Clients -> {"idle", "next", "store", "trackables", "submit"}]
      /\ pc'[c] = "trackables" /\ \A d \in Clients \ {c} : pc'[d] = pc[d]
  BY <1>1, <1>3, Zenon DEF TypeInv
<1>9. /\ latest' \in [Streams -> [item : Items \cup {NoItem}, until : Nat]]
      /\ \A m \in Streams : latest'[m] = IF m = k THEN e ELSE latest[m]
  <2>1. latest \in [Streams -> [item : Items \cup {NoItem}, until : Nat]]
    BY <1>1, Zenon DEF TypeInv
  <2> QED
    BY <1>3, <1>6, <2>1, Zenon
<1>10. TypeInv'
  BY <1>1, <1>2, <1>7, <1>8, <1>9 DEF TypeInv
<1>11. StepInv'
  BY <1>1, <1>2, <1>5, <1>7, <1>8 DEF StepInv, Busy
<1>12. /\ InFlight \subseteq Items /\ Accepted \subseteq Items /\ Queued \subseteq InFlight
       /\ \A j \in InFlight : ItemOK(j) /\ j.n \in Nat /\ 1 <= j.n /\ j.n <= issued
  BY <1>1, <1>4, ItemFacts DEF ItemsInv, ItemOK, InFlight
<1>13. FlowInv' /\ Queued' = Queued
  <2>1. ASSUME NEW d \in Clients, Pending(d)' PROVE Precede(Queued, {cur'[d]})
    <3>1. CASE d = c
      BY <1>4, <1>5, <1>7, <1>12, <3>1 DEF Precede, Before
    <3>2. CASE d # c
      BY <1>1, <1>7, <1>8, <2>1, <3>2, Zenon DEF FlowInv, Pending
    <3> QED
      BY <3>1, <3>2
  <2> QED
    BY <1>1, <1>2, <2>1, QueuesKept, Zenon
<1>14. InFlight' = InFlight \cup {i}
  <2>1. \A d \in Clients \ {c} : Pending(d)' <=> Pending(d)
    BY <1>8 DEF Pending
  <2>2. Pending(c)' /\ ~Pending(c)
    BY <1>2, <1>8, Zenon DEF Pending
  <2> QED
    BY <1>7, <1>13, <2>1, <2>2, Zenon DEF InFlight
<1>15. ItemsInv'
  <2>1. ASSUME NEW j \in InFlight' PROVE ItemOK(j)'
    <3>1. CASE j = i
      <4>1. lastOf[c][k] <= issued /\ lastOf[c][k] \in Nat
        BY <1>1, <1>5, Zenon DEF ItemsInv, TypeInv
      <4> QED
        BY <1>2, <1>4, <1>5, <1>6, <1>9, <3>1, <4>1 DEF ItemOK, k
    <3>2. CASE j \in InFlight
      <4>1. ItemOK(j) /\ j.n \in Nat /\ j.n <= issued /\ StreamOf[j.loc] \in Streams
        BY <1>12, <3>2, ShardFacts, Zenon
      <4>2. latest'[StreamOf[j.loc]].item.n >= j.n
        BY <1>4, <1>5, <1>6, <1>9, <4>1 DEF ItemOK
      <4> QED
        BY <1>2, <1>4, <4>1, <4>2 DEF ItemOK
    <3> QED
      BY <1>14, <2>1, <3>1, <3>2, Zenon
  <2>2. \A j \in Queued' : Tracked(j)'
    BY <1>1, <1>2, <1>13, Zenon DEF ItemsInv, Tracked
  <2>3. ASSUME NEW d \in Clients, pc'[d] = "submit" PROVE Tracked(cur[d])'
    <3>1. cur'[d] = cur[d] /\ Tracked(cur[d])
      BY <1>1, <1>7, <1>8, <2>3, Zenon DEF ItemsInv
    <3> QED
      BY <1>2, <3>1, Zenon DEF Tracked
  <2>4. \A d \in Clients, m \in Streams : lastOf'[d][m] <= issued'
    BY <1>1, <1>2, <1>4 DEF ItemsInv, TypeInv
  <2> QED
    BY <2>1, <2>2, <2>3, <2>4, Zenon DEF ItemsInv
<1>16. CountInv'
  <2>1. i \notin InFlight
    BY <1>4, <1>5, <1>12
  <2>2. /\ IsFiniteSet(InFlight') /\ Cardinality(InFlight') = Cardinality(InFlight) + 1
    BY <1>1, <1>14, <2>1, FS_AddElement, Zenon DEF CountInv
  <2>3. Cardinality(InFlight) \in Nat
    BY <1>1, FS_CardinalityType DEF CountInv
  <2> QED
    BY <1>1, <1>2, <1>4, <2>2, <2>3 DEF CountInv, DropsAccounted, TypeInv
<1>17. \A j \in Accepted' : j = i \/ (j \in Accepted /\ j # cur[c])
  <2>1. \A d \in Clients \ {c} : Busy(d)' <=> Busy(d)
    BY <1>8 DEF Busy
  <2>2. \A d \in Clients \ {c} : Busy(d) => cur[d] # cur[c]
    BY <1>1, <1>4, Zenon DEF StepInv
  <2>3. \A j \in Queued : j # cur[c]
    BY <1>4, <1>12
  <2> QED
    BY <1>7, <1>13, <2>1, <2>2, <2>3, Zenon DEF Accepted
<1>18. WindowInv'
  <2>1. cur[c] \in Accepted
    BY <1>2, Zenon DEF Accepted, Busy
  <2>2. \A j \in Accepted' : j.at + DedupTTL <= seen[j.loc]
    BY <1>1, <1>5, <1>17, <2>1, Zenon DEF WindowInv
  <2>3. \A j, m \in Accepted' : j.loc = m.loc /\ j # m => Apart(j, m)
    <3>1. \A j \in Accepted : j # cur[c] /\ j.loc = i.loc => Apart(j, i) /\ Apart(i, j)
      <4>1. \A j \in Accepted :
              j # cur[c] /\ j.loc = i.loc => Apart(j, cur[c]) /\ Apart(cur[c], j)
        BY <1>1, <1>5, <2>1, Zenon DEF WindowInv
      <4> QED
        BY <1>5, <4>1, Zenon DEF Apart
    <3> QED
      BY <1>1, <1>17, <3>1, Zenon DEF WindowInv
  <2> QED
    BY <1>2, <2>2, <2>3, Zenon DEF WindowInv, Apart
<1>19. SuppressedWasRecorded'
  <2> SUFFICES ASSUME NEW l \in Locations, seen'[l] > now'
               PROVE  l \in recorded' \/ \E d \in Clients : pc'[d] = "store" /\ cur'[d].loc = l
    BY Zenon DEF SuppressedWasRecorded
  <2>1. l \in recorded \/ \E d \in Clients : pc[d] = "store" /\ cur[d].loc = l
    BY <1>1, <1>2, Zenon DEF SuppressedWasRecorded
  <2> QED
    BY <1>3, <1>5, <1>7, <1>8, <2>1
<1> QED
  BY <1>10, <1>11, <1>13, <1>15, <1>16, <1>18, <1>19, Zenon DEF Inv

\* Its trackables have it too; a later item of the request comes only after.
LEMMA TrackStep ==
  ASSUME Inv, NEW c \in Clients, SetTrackableLocations(c)
  PROVE  Inv'
<1> DEFINE e == [item |-> cur[c], until |-> now + LocationTTL]
<1>1. TypeInv /\ StepInv /\ FlowInv /\ ItemsInv /\ CountInv /\ WindowInv /\ SuppressedWasRecorded
  BY DEF Inv
<1>2. /\ UNCHANGED <<now, cur, seen, latest, issued, native, working>>
      /\ UNCHANGED <<queue, batch, phase, drops, derived, lastOf, recorded>>
      /\ pc[c] = "trackables" /\ pc' = [pc EXCEPT ![c] = "submit"]
      /\ tlatest' = [t \in Trackables |-> IF t \in TrackablesFor(cur[c].loc) THEN e ELSE tlatest[t]]
  BY Zenon DEF SetTrackableLocations, decision, history
<1>3. cur[c] \in Items /\ cur[c].by = c /\ Pending(c)
  BY <1>1, <1>2, Zenon DEF StepInv, Busy, Pending
<1>4. e \in [item : Items \cup {NoItem}, until : Nat] /\ e.item = cur[c]
  BY <1>1, <1>3, PipelineAssumption DEF TypeInv
<1> HIDE DEF e
<1>5. /\ pc' \in [Clients -> {"idle", "next", "store", "trackables", "submit"}]
      /\ pc'[c] = "submit" /\ \A d \in Clients \ {c} : pc'[d] = pc[d]
  BY <1>1, <1>2, Zenon DEF TypeInv
<1>6. tlatest' \in [Trackables -> [item : Items \cup {NoItem}, until : Nat]]
  <2>1. tlatest \in [Trackables -> [item : Items \cup {NoItem}, until : Nat]]
    BY <1>1, Zenon DEF TypeInv
  <2> QED
    BY <1>2, <1>4, <2>1, Zenon
<1>7. \A d \in Clients : /\ Pending(d)' <=> Pending(d)
                         /\ Busy(d)' <=> Busy(d)
                         /\ pc'[d] = "store" <=> pc[d] = "store"
  BY <1>2, <1>5, Zenon DEF Pending, Busy
<1>8. TypeInv'
  BY <1>1, <1>2, <1>5, <1>6, Zenon DEF TypeInv
<1>9. StepInv'
  BY <1>1, <1>2, <1>7, Zenon DEF StepInv
<1>10. FlowInv' /\ Queued' = Queued
  <2>1. \A d \in Clients : Pending(d)' => Precede(Queued, {cur'[d]})
    BY <1>1, <1>2, <1>7, Zenon DEF FlowInv
  <2> QED
    BY <1>1, <1>2, <2>1, QueuesKept, Zenon
<1>11. InFlight' = InFlight /\ Accepted' = Accepted
  BY <1>2, <1>7, <1>10, Zenon DEF InFlight, Accepted
<1>12. \A l \in Locations : TrackablesFor(l) \subseteq Trackables
  BY PipelineAssumption, Zenon DEF TrackablesFor
<1>13. ASSUME NEW j \in Items, j.by = c => j.n <= cur[c].n, Tracked(j) \/ j = cur[c]
       PROVE  Tracked(j)'
  <2> SUFFICES ASSUME NEW t \in TrackablesFor(j.loc)
               PROVE  tlatest'[t].item.n >= j.n \/ tlatest'[t].item.by # j.by
    BY Zenon DEF Tracked
  <2>1. t \in Trackables /\ j.n \in Nat /\ cur[c].n \in Nat
    BY <1>3, <1>12, ShardFacts, Zenon
  <2>2. CASE t \in TrackablesFor(cur[c].loc)
    BY <1>2, <1>3, <1>4, <1>13, <2>1, <2>2, Zenon
  <2>3. CASE t \notin TrackablesFor(cur[c].loc)
    BY <1>2, <1>13, <2>1, <2>3, Zenon DEF Tracked
  <2> QED
    BY <2>2, <2>3, Zenon
<1>14. ItemsInv'
  <2>1. \A j \in InFlight' : ItemOK(j)'
    BY <1>1, <1>2, <1>11, Zenon DEF ItemsInv, ItemOK
  <2>2. ASSUME NEW j \in Queued' PROVE Tracked(j)'
    <3>1. j \in Queued /\ j \in Items /\ Tracked(j)
      BY <1>1, <1>10, <2>2, ItemFacts, Zenon DEF ItemsInv
    <3>2. j.by = c => j.n < cur[c].n
      BY <1>1, <1>3, <3>1, Zenon DEF FlowInv, Precede, Before
    <3>3. j.n \in Nat /\ cur[c].n \in Nat
      BY <1>3, <3>1, ShardFacts, Zenon
    <3> QED
      BY <1>13, <3>1, <3>2, <3>3
  <2>3. ASSUME NEW d \in Clients, pc'[d] = "submit" PROVE Tracked(cur[d])'
    <3>1. CASE d = c
      <4>1. cur[c].n <= cur[c].n
        BY <1>3, ShardFacts
      <4>2. PICK j : j = cur[c]
        OBVIOUS
      <4>3. Tracked(j)'
        BY <1>3, <1>13, <4>1, <4>2, Zenon
      <4> QED
        BY <1>2, <3>1, <4>2, <4>3, Zenon DEF Tracked
    <3>2. CASE d # c
      <4>1. PICK j : j = cur[d]
        OBVIOUS
      <4>2. j \in Items /\ j.by = d /\ Tracked(j)
        BY <1>1, <1>5, <2>3, <3>2, <4>1, ItemFacts, Zenon DEF ItemsInv, Pending
      <4>3. Tracked(j)'
        BY <1>13, <3>2, <4>2, Zenon
      <4> QED
        BY <1>2, <4>1, <4>3, Zenon DEF Tracked
    <3> QED
      BY <3>1, <3>2
  <2> QED
    BY <1>1, <1>2, <2>1, <2>2, <2>3, Zenon DEF ItemsInv
<1>15. CountInv'
  BY <1>1, <1>2, <1>11, Zenon DEF CountInv, DropsAccounted
<1>16. WindowInv'
  BY <1>1, <1>2, <1>11, WindowKept, Zenon
<1>17. SuppressedWasRecorded'
  <2>1. now' \in Nat /\ now' >= now
    BY <1>1, <1>2 DEF TypeInv
  <2> QED
    BY <1>1, <1>2, <1>7, <2>1, SuppressedKept, Zenon
<1> QED
  BY <1>8, <1>9, <1>10, <1>14, <1>15, <1>16, <1>17, Zenon DEF Inv

\* An item that leaves the pipeline is one less on its way.
LEMMA OneOut ==
  ASSUME CountInv, TypeInv, NEW x \in InFlight, InFlight' = InFlight \ {x},
         derived' + drops'.native + drops'.decision = derived + drops.native + drops.decision + 1,
         derived' \in Nat, drops' \in [native : Nat, decision : Nat], UNCHANGED issued
  PROVE  CountInv'
<1>1. /\ IsFiniteSet(InFlight') /\ Cardinality(InFlight') = Cardinality(InFlight) - 1
      /\ Cardinality(InFlight) \in Nat
  BY FS_RemoveElement, FS_CardinalityType, Zenon DEF CountInv
<1>2. /\ issued \in Nat /\ derived \in Nat /\ drops.native \in Nat /\ drops.decision \in Nat
      /\ drops'.native \in Nat /\ drops'.decision \in Nat
  BY Zenon DEF TypeInv
<1>3. issued = derived + drops.native + drops.decision + Cardinality(InFlight)
  BY Zenon DEF CountInv, DropsAccounted
<1>4. issued' = derived' + drops'.native + drops'.decision + Cardinality(InFlight')
  BY <1>1, <1>2, <1>3
<1> QED
  BY <1>1, <1>4, Zenon DEF CountInv, DropsAccounted

\* A drop is counted.
LEMMA Counted ==
  ASSUME TypeInv,
         \/ drops' = [drops EXCEPT !.native = @ + 1]
         \/ drops' = [drops EXCEPT !.decision = @ + 1]
  PROVE  /\ drops' \in [native : Nat, decision : Nat]
         /\ derived + drops'.native + drops'.decision = derived + drops.native + drops.decision + 1
<1>1. drops \in [native : Nat, decision : Nat] /\ derived \in Nat
  BY Zenon DEF TypeInv
<1>2. drops.native \in Nat /\ drops.decision \in Nat
  BY <1>1
<1>3. drops.native + 1 \in Nat /\ drops.decision + 1 \in Nat
  BY <1>2
<1>4. CASE drops' = [drops EXCEPT !.native = drops.native + 1]
  <2>1. drops' \in [native : Nat, decision : Nat]
    BY <1>1, <1>3, <1>4, Zenon
  <2>2. drops'.native = drops.native + 1 /\ drops'.decision = drops.decision
    BY <1>1, <1>4, Zenon
  <2> QED
    BY <1>1, <1>2, <2>1, <2>2
<1>5. CASE drops' = [drops EXCEPT !.decision = drops.decision + 1]
  <2>1. drops' \in [native : Nat, decision : Nat]
    BY <1>1, <1>3, <1>5, Zenon
  <2>2. drops'.decision = drops.decision + 1 /\ drops'.native = drops.native
    BY <1>1, <1>5, Zenon
  <2> QED
    BY <1>1, <1>2, <2>1, <2>2
<1> QED
  BY <1>4, <1>5, Zenon

\* Items that stay in the pipeline are still in order.
LEMMA StillThere ==
  ASSUME ItemsInv, InFlight' \subseteq InFlight,
         \A j \in Queued' : j \in Queued \/ \E c \in Clients : pc[c] = "submit" /\ j = cur[c],
         UNCHANGED <<issued, latest, tlatest, lastOf>>,
         \A c \in Clients : pc'[c] = "submit" => pc[c] = "submit" /\ cur'[c] = cur[c]
  PROVE  ItemsInv'
<1>1. \A i \in InFlight' : ItemOK(i)'
  BY Zenon DEF ItemsInv, ItemOK
<1>2. \A i \in Queued' : Tracked(i)'
  BY DEF ItemsInv, Tracked
<1>3. ASSUME NEW c \in Clients, pc'[c] = "submit" PROVE Tracked(cur[c])'
  <2>1. cur'[c] = cur[c] /\ Tracked(cur[c])
    BY <1>3, Zenon DEF ItemsInv
  <2> QED
    BY <2>1, Zenon DEF Tracked
<1> QED
  BY <1>1, <1>2, <1>3, Zenon DEF ItemsInv

\* A stored location is handed to the native queue, or dropped.
LEMMA SubmitStep ==
  ASSUME Inv, NEW c \in Clients, Submit(c)
  PROVE  Inv'
<1> DEFINE x == cur[c]
<1>1. TypeInv /\ StepInv /\ FlowInv /\ ItemsInv /\ CountInv /\ WindowInv /\ SuppressedWasRecorded
  BY DEF Inv
<1>2. /\ UNCHANGED <<now, seen, latest, tlatest, issued, working>>
      /\ UNCHANGED <<queue, batch, phase, derived, lastOf, recorded>>
      /\ pc[c] = "submit" /\ pc' = [pc EXCEPT ![c] = "next"] /\ cur' = [cur EXCEPT ![c] = NoItem]
  BY Zenon DEF Submit, state, decision, history
<1>3. x \in Items /\ x.by = c /\ x.n \in Nat /\ Pending(c) /\ Precede(Queued, {x})
  BY <1>1, <1>2, ShardFacts, Zenon DEF StepInv, Busy, Pending, FlowInv
<1>4. /\ pc' \in [Clients -> {"idle", "next", "store", "trackables", "submit"}]
      /\ pc'[c] = "next" /\ \A d \in Clients \ {c} : pc'[d] = pc[d]
  BY <1>1, <1>2, Zenon DEF TypeInv
<1>5. /\ cur' \in [Clients -> Items \cup {NoItem}]
      /\ \A d \in Clients \ {c} : cur'[d] = cur[d]
  BY <1>1, <1>2, Zenon DEF TypeInv
<1>6. /\ \A d \in Clients \ {c} : (Pending(d)' <=> Pending(d)) /\ (Busy(d)' <=> Busy(d))
      /\ ~Pending(c)' /\ ~Busy(c)' /\ Busy(c)
  BY <1>2, <1>4, Zenon DEF Pending, Busy
<1>7. StepInv'
  BY <1>1, <1>2, <1>4, <1>5, <1>6, Zenon DEF StepInv
<1>8. SuppressedWasRecorded'
  <2>1. now' \in Nat /\ now' >= now
    BY <1>1, <1>2 DEF TypeInv
  <2>2. \A d \in Clients : pc[d] = "store" => pc'[d] = "store" /\ cur'[d] = cur[d]
    BY <1>2, <1>4, <1>5, Zenon
  <2> QED
    BY <1>1, <1>2, <2>1, <2>2, SuppressedKept, Zenon
<1>9. \A d \in Clients : pc'[d] = "submit" => pc[d] = "submit" /\ cur'[d] = cur[d]
  BY <1>4, <1>5, Zenon
<1>10. \A d \in Clients \ {c} : Pending(d) => cur[d].by # c /\ Precede(Queued \cup {x}, {cur[d]})
  BY <1>1, <1>3, ItemFacts, Zenon DEF FlowInv, Precede, Before
<1> HIDE DEF x
<1>11. CASE native' = Append(native, x) /\ UNCHANGED drops
  <2>1. /\ native \in Seq(Items) /\ Range2(native) \subseteq Queued
        /\ Ordered(native)
    BY <1>1, Zenon DEF TypeInv, FlowInv, Queued
  <2>2. Precede(Range2(native), {x})
    BY <1>3, <2>1, Zenon DEF Precede
  <2>3. native' \in Seq(Items) /\ Range2(native') = Range2(native) \cup {x} /\ Ordered(native')
    BY <1>3, <1>11, <2>1, <2>2, Joined, Zenon
  <2>4. Queued' = Queued \cup {x}
    BY <1>2, <2>3, Zenon DEF Queued
  <2>5. InFlight' = InFlight /\ Accepted' \subseteq Accepted
    BY <1>3, <1>5, <1>6, <2>4, Zenon DEF InFlight, Accepted, x
  <2>6. TypeInv'
    BY <1>1, <1>2, <1>4, <1>5, <1>11, <2>3, Zenon DEF TypeInv
  <2>7. FlowInv'
    <3>1. Precede(Range2(working), Range2(native'))
      <4>1. Range2(working) \subseteq Queued
        BY DEF Queued
      <4> QED
        BY <1>1, <1>3, <2>3, <4>1, Zenon DEF FlowInv, Precede
    <3>2. ASSUME NEW s \in Shards
          PROVE  Precede(Range2(batch[s]) \cup Range2(queue[s]), Range2(working) \cup Range2(native'))
      <4>1. Range2(batch[s]) \cup Range2(queue[s]) \subseteq Queued
        BY QueuedIs, Zenon
      <4> QED
        BY <1>1, <1>3, <2>3, <4>1 DEF FlowInv, Precede
    <3>3. \A d \in Clients : Pending(d)' => Precede(Queued', {cur'[d]})
      BY <1>5, <1>6, <1>10, <2>4, Zenon
    <3> QED
      BY <1>1, <1>2, <2>3, <3>1, <3>2, <3>3, Zenon DEF FlowInv
  <2>8. ItemsInv'
    <3>1. \A j \in Queued' : j \in Queued \/ \E d \in Clients : pc[d] = "submit" /\ j = cur[d]
      BY <1>2, <2>4, Zenon DEF x
    <3> QED
      BY <1>1, <1>2, <1>9, <2>5, <3>1, StillThere, Zenon
  <2>9. CountInv'
    BY <1>1, <1>2, <1>11, <2>5, Zenon DEF CountInv, DropsAccounted
  <2>10. WindowInv'
    BY <1>1, <1>2, <2>5, WindowKept, Zenon
  <2> QED
    BY <1>7, <1>8, <2>6, <2>7, <2>8, <2>9, <2>10, Zenon DEF Inv
<1>12. CASE drops' = [drops EXCEPT !.native = @ + 1] /\ UNCHANGED native
  <2>1. /\ drops' \in [native : Nat, decision : Nat]
        /\ derived + drops'.native + drops'.decision = derived + drops.native + drops.decision + 1
    BY <1>1, <1>12, Counted, Zenon
  <2>2. TypeInv'
    BY <1>1, <1>2, <1>4, <1>5, <1>12, <2>1, Zenon DEF TypeInv
  <2>3. FlowInv' /\ Queued' = Queued
    <3>1. \A d \in Clients : Pending(d)' => Precede(Queued, {cur'[d]})
      BY <1>1, <1>5, <1>6, Zenon DEF FlowInv
    <3> QED
      BY <1>1, <1>2, <1>12, <3>1, QueuesKept, Zenon
  <2>4. x \notin Queued
    BY <1>3 DEF Precede, Before
  <2>5. \A d \in Clients \ {c} : Pending(d) => cur[d] # x
    BY <1>3, <1>10, Zenon
  <2>6. /\ InFlight' = InFlight \ {x} /\ x \in InFlight /\ Accepted' \subseteq Accepted
    BY <1>3, <1>5, <1>6, <2>3, <2>4, <2>5, Zenon DEF InFlight, Accepted, x
  <2>7. ItemsInv'
    BY <1>1, <1>2, <1>9, <2>3, <2>6, StillThere, Zenon
  <2>8. CountInv'
    <3>1. derived' = derived /\ derived \in Nat
      BY <1>1, <1>2, Zenon DEF TypeInv
    <3> QED
      BY <1>1, <1>2, <2>1, <2>6, <3>1, OneOut, Zenon
  <2>9. WindowInv'
    BY <1>1, <1>2, <2>6, WindowKept, Zenon
  <2> QED
    BY <1>7, <1>8, <2>2, <2>3, <2>7, <2>8, <2>9, Zenon DEF Inv
<1> QED
  BY <1>11, <1>12, Zenon DEF Submit, x

-----------------------------------------------------------------------------
(* The steps of the workers.                                               *)

(* FlowInv without the items in hand.                                      *)
Lanes ==
  /\ Ordered(native) /\ Precede(Range2(working), Range2(native))
  /\ \A s \in Shards :
       /\ Ordered(queue[s]) /\ Ordered(batch[s])
       /\ Precede(Range2(batch[s]), Range2(queue[s]))
       /\ Precede(Range2(batch[s]) \cup Range2(queue[s]), Range2(working) \cup Range2(native))
       /\ \A i \in Range2(batch[s]) \cup Range2(queue[s]) : ShardOf(i) = s

\* What a worker leaves alone.
LEMMA WorkerFrame ==
  ASSUME Inv, UNCHANGED <<now, pc, cur, seen, issued, recorded>>, Lanes', Queued' \subseteq Queued,
         \A s \in Shards : phase'[s] # "wait" => batch'[s] # <<>>
  PROVE  /\ StepInv' /\ FlowInv' /\ WindowInv' /\ SuppressedWasRecorded'
         /\ InFlight' \subseteq InFlight /\ Queued \subseteq InFlight
         /\ Queued' = Queued => InFlight' = InFlight
         /\ \A x \in Queued : Queued' = Queued \ {x} => InFlight' = InFlight \ {x}
<1>1. TypeInv /\ StepInv /\ FlowInv /\ ItemsInv /\ WindowInv /\ SuppressedWasRecorded
  BY DEF Inv
<1>2. \A c \in Clients : (Pending(c)' <=> Pending(c)) /\ (Busy(c)' <=> Busy(c))
  BY DEF Pending, Busy
<1>3. StepInv'
  BY <1>1, <1>2, Zenon DEF StepInv
<1>4. FlowInv'
  <2>1. \A c \in Clients : Pending(c)' => Precede(Queued', {cur'[c]})
    BY <1>1, <1>2, Zenon DEF FlowInv, Precede
  <2> QED
    BY <2>1, Zenon DEF FlowInv, Lanes
<1>5. Accepted' \subseteq Accepted
  BY <1>2, Zenon DEF Accepted
<1>6. WindowInv'
  BY <1>1, <1>5, WindowKept, Zenon
<1>7. SuppressedWasRecorded'
  <2>1. now' \in Nat /\ now' >= now
    BY <1>1 DEF TypeInv
  <2> QED
    BY <1>1, <2>1, SuppressedKept, Zenon
<1> DEFINE hands == {cur[c] : c \in {c \in Clients : Pending(c)}}
<1>8. InFlight = Queued \cup hands /\ InFlight' = Queued' \cup hands
  BY <1>2, Zenon DEF InFlight
<1>9. ASSUME NEW x \in Queued PROVE x \notin hands
  <2>1. x.n \in Nat
    BY <1>1, <1>9, ItemFacts, ShardFacts, Zenon
  <2>2. \A c \in Clients : Pending(c) => Before(x, cur[c])
    BY <1>1, <1>9, Zenon DEF FlowInv, Precede
  <2> QED
    BY <2>1, <2>2 DEF Before
<1> HIDE DEF hands
<1> QED
  BY <1>3, <1>4, <1>6, <1>7, <1>8, <1>9, Zenon

\* A worker that moves an item on, or drops it and counts it.
LEMMA WorkerMoves ==
  ASSUME Inv, UNCHANGED <<now, pc, cur, seen, issued, recorded>>, Lanes',
         UNCHANGED <<latest, tlatest, lastOf, derived>>, TypeInv',
         \A s \in Shards : phase'[s] # "wait" => batch'[s] # <<>>,
         \/ Queued' = Queued /\ UNCHANGED drops
         \/ /\ \E x \in Queued : Queued' = Queued \ {x}
            /\ drops' = [drops EXCEPT !.decision = @ + 1]
  PROVE  Inv'
<1>1. TypeInv /\ ItemsInv /\ CountInv
  BY Zenon DEF Inv
<1>2. Queued' \subseteq Queued
  OBVIOUS
<1>3. /\ StepInv' /\ FlowInv' /\ WindowInv' /\ SuppressedWasRecorded'
      /\ InFlight' \subseteq InFlight /\ Queued \subseteq InFlight
      /\ Queued' = Queued => InFlight' = InFlight
      /\ \A x \in Queued : Queued' = Queued \ {x} => InFlight' = InFlight \ {x}
  BY <1>2, WorkerFrame, Zenon
<1>4. ItemsInv'
  BY <1>1, <1>2, <1>3, StillThere, Zenon
<1>5. CountInv'
  <2>1. CASE Queued' = Queued /\ UNCHANGED drops
    BY <1>1, <1>3, <2>1, Zenon DEF CountInv, DropsAccounted
  <2>2. ASSUME NEW x \in Queued, Queued' = Queued \ {x},
               drops' = [drops EXCEPT !.decision = @ + 1]
        PROVE  CountInv'
    <3>1. /\ drops' \in [native : Nat, decision : Nat]
          /\ derived + drops'.native + drops'.decision = derived + drops.native + drops.decision + 1
      BY <1>1, <2>2, Counted, Zenon
    <3>2. derived' = derived /\ derived \in Nat /\ x \in InFlight /\ InFlight' = InFlight \ {x}
      BY <1>1, <1>3, <2>2, Zenon DEF TypeInv
    <3> QED
      BY <1>1, <3>1, <3>2, OneOut, Zenon
  <2> QED
    BY <2>1, <2>2, Zenon
<1> QED
  BY <1>3, <1>4, <1>5, Zenon DEF Inv

\* The native worker takes the next item.
LEMMA TakeStep ==
  ASSUME Inv, TakeNative
  PROVE  Inv'
<1>1. TypeInv /\ StepInv /\ FlowInv
  BY DEF Inv
<1>2. /\ UNCHANGED <<now, pc, cur, seen, issued, recorded>>
      /\ UNCHANGED <<latest, tlatest, lastOf, derived, drops>>
      /\ UNCHANGED <<queue, batch, phase>>
      /\ working = <<>> /\ native # <<>> /\ working' = <<Head(native)>> /\ native' = Tail(native)
  BY Zenon DEF TakeNative, ingest, state, decision, history
<1>3. native \in Seq(Items) /\ Ordered(native)
  BY <1>1, Zenon DEF TypeInv, FlowInv
<1> DEFINE x == Head(native)
<1>4. /\ native' \in Seq(Items) /\ x \in Items /\ Range2(native) = Range2(native') \cup {x}
      /\ Ordered(native') /\ Precede({x}, Range2(native'))
  BY <1>2, <1>3, Left, Zenon
<1>5. /\ Range2(working) = {} /\ working' \in Seq(Items) /\ Range2(working') = {x}
      /\ Len(working') <= 1
  <2>1. working \in Seq(Items) /\ Len(working) <= 1
    BY <1>1, Zenon DEF TypeInv
  <2> QED
    BY <1>2, <1>4, <2>1, InHand, Zenon
<1> HIDE DEF x
<1>6. Range2(working') \cup Range2(native') = Range2(working) \cup Range2(native)
  BY <1>4, <1>5, Zenon
<1>7. Queued' = Queued
  BY <1>2, <1>6, Zenon DEF Queued
<1>8. TypeInv'
  BY <1>1, <1>2, <1>4, <1>5, Zenon DEF TypeInv
<1>9. Lanes'
  BY <1>1, <1>2, <1>4, <1>5, <1>6, Zenon DEF FlowInv, Lanes
<1> QED
  BY <1>1, <1>2, <1>7, <1>8, <1>9, WorkerMoves, Zenon DEF StepInv

\* It hands the item to the shard of its stream, or drops it.
LEMMA ProcessNativeStep ==
  ASSUME Inv, ProcessNative
  PROVE  Inv'
<1> DEFINE x == working[1]
           s == ShardOf(x)
<1>1. TypeInv /\ StepInv /\ FlowInv
  BY DEF Inv
<1>2. /\ UNCHANGED <<now, pc, cur, seen, issued, recorded>>
      /\ UNCHANGED <<latest, tlatest, lastOf, derived, native, batch, phase>>
      /\ working # <<>> /\ working' = <<>>
  BY Zenon DEF ProcessNative, ingest, state, history
<1>3. x \in Items /\ Range2(working) = {x} /\ Range2(working') = {}
  <2>1. working \in Seq(Items) /\ Len(working) <= 1
    BY <1>1, Zenon DEF TypeInv
  <2> QED
    BY <1>2, <2>1, InHand, Zenon
<1>4. \/ queue' = [queue EXCEPT ![s] = Append(queue[s], x)] /\ UNCHANGED drops
      \/ drops' = [drops EXCEPT !.decision = @ + 1] /\ UNCHANGED queue
  BY Zenon DEF ProcessNative
<1>5. working' \in Seq(Items) /\ Len(working') <= 1
  BY <1>2
<1>6. x.n \in Nat /\ s \in Shards /\ queue[s] \in Seq(Items)
  BY <1>1, <1>3, ShardFacts, Zenon DEF TypeInv
<1> HIDE DEF x
<1>7. /\ Precede({x}, Range2(native))
      /\ \A r \in Shards : Precede(Range2(batch[r]) \cup Range2(queue[r]), {x} \cup Range2(native))
  BY <1>1, <1>3, Zenon DEF FlowInv
<1>8. CASE queue' = [queue EXCEPT ![s] = Append(queue[s], x)] /\ UNCHANGED drops
  <2>1. Precede(Range2(queue[s]), {x}) /\ Ordered(queue[s])
    BY <1>1, <1>6, <1>7, Zenon DEF Precede, FlowInv
  <2>2. /\ Append(queue[s], x) \in Seq(Items)
        /\ Range2(Append(queue[s], x)) = Range2(queue[s]) \cup {x}
        /\ Ordered(Append(queue[s], x))
    BY <1>3, <1>6, <2>1, Joined, Zenon
  <2>3. /\ queue' \in [Shards -> Seq(Items)] /\ queue'[s] = Append(queue[s], x)
        /\ \A r \in Shards \ {s} : queue'[r] = queue[r]
    <3>1. queue \in [Shards -> Seq(Items)]
      BY <1>1, Zenon DEF TypeInv
    <3> QED
      BY <1>6, <1>8, <2>2, <3>1, Zenon
  <2>4. TypeInv'
    BY <1>1, <1>2, <1>5, <1>8, <2>3, Zenon DEF TypeInv
  <2>5. Queued' = Queued
    <3> SUFFICES ASSUME NEW j PROVE j \in Queued' <=> j \in Queued
      BY Zenon
    <3>1. (j \in Range2(working')
             \/ \E r \in Shards : j \in Range2(queue'[r]) \cup Range2(batch'[r]))
          <=> (j \in Range2(working)
                 \/ \E r \in Shards : j \in Range2(queue[r]) \cup Range2(batch[r]))
      BY <1>2, <1>3, <1>6, <2>2, <2>3, Zenon
    <3> QED
      BY <1>2, <3>1, QueuedIs, QueuedNext, Zenon
  <2>6. Lanes'
    <3>1. Ordered(native)' /\ Precede(Range2(working), Range2(native))'
      BY <1>1, <1>2, <1>3, Zenon DEF FlowInv, Precede
    <3>2. ASSUME NEW r \in Shards
          PROVE  /\ Ordered(queue'[r]) /\ Ordered(batch[r])
                 /\ Precede(Range2(batch[r]), Range2(queue'[r]))
                 /\ Precede(Range2(batch[r]) \cup Range2(queue'[r]), Range2(native))
                 /\ \A i \in Range2(batch[r]) \cup Range2(queue'[r]) : ShardOf(i) = r
      <4>1. CASE r = s
        BY <1>1, <1>7, <2>2, <2>3, <4>1, Zenon DEF FlowInv, Precede
      <4>2. CASE r # s
        BY <1>1, <1>7, <2>3, <4>2, Zenon DEF FlowInv, Precede
      <4> QED
        BY <4>1, <4>2, Zenon
    <3>3. Range2(working') \cup Range2(native) = Range2(native)
      BY <1>3
    <3> QED
      BY <1>2, <3>1, <3>2, <3>3, Zenon DEF Lanes
  <2> QED
    BY <1>1, <1>2, <1>8, <2>4, <2>5, <2>6, WorkerMoves, Zenon DEF StepInv
<1>9. CASE drops' = [drops EXCEPT !.decision = @ + 1] /\ UNCHANGED queue
  <2>1. drops' \in [native : Nat, decision : Nat]
    BY <1>1, <1>9, Counted, Zenon
  <2>2. TypeInv'
    BY <1>1, <1>2, <1>5, <1>9, <2>1, Zenon DEF TypeInv
  <2>3. x \notin Range2(native)
        /\ \A r \in Shards : x \notin Range2(batch[r]) \cup Range2(queue[r])
    BY <1>6, <1>7 DEF Precede, Before
  <2>4. x \in Queued /\ Queued' = Queued \ {x}
    <3>1. ASSUME NEW j PROVE j \in Queued' <=> j \in Queued /\ j # x
      BY <1>2, <1>3, <1>9, <2>3, QueuedIs, QueuedNext, Zenon
    <3>2. x \in Queued
      BY <1>3, QueuedIs, Zenon
    <3> QED
      BY <3>1, <3>2
  <2>5. Lanes'
    <3>1. Range2(working') \cup Range2(native) = Range2(native)
      BY <1>3
    <3>2. Precede(Range2(working'), Range2(native))
      BY <1>3 DEF Precede
    <3>3. \A r \in Shards : Precede(Range2(batch[r]) \cup Range2(queue[r]), Range2(native))
      BY <1>7, Zenon DEF Precede
    <3> QED
      BY <1>1, <1>2, <1>9, <3>1, <3>2, <3>3, Zenon DEF Lanes, FlowInv
  <2> QED
    BY <1>1, <1>2, <1>9, <2>2, <2>4, <2>5, WorkerMoves, Zenon DEF StepInv
<1> QED
  BY <1>4, <1>8, <1>9, Zenon

\* A decision worker takes an item into its batch.
LEMMA DequeueStep ==
  ASSUME Inv, NEW s \in Shards, Dequeue(s)
  PROVE  Inv'
<1> DEFINE x == Head(queue[s])
<1>1. TypeInv /\ StepInv /\ FlowInv
  BY DEF Inv
<1>2. /\ UNCHANGED <<now, pc, cur, seen, issued, recorded>>
      /\ UNCHANGED <<latest, tlatest, lastOf, derived, native, working, drops>>
      /\ queue[s] # <<>>
      /\ batch' = [batch EXCEPT ![s] = Append(batch[s], x)]
      /\ queue' = [queue EXCEPT ![s] = Tail(queue[s])]
      /\ phase' = [phase EXCEPT ![s] = "drain"]
  BY Zenon DEF Dequeue, ingest, state, history
<1>3. /\ queue[s] \in Seq(Items) /\ batch[s] \in Seq(Items) /\ Ordered(queue[s]) /\ Ordered(batch[s])
      /\ Precede(Range2(batch[s]), Range2(queue[s]))
  BY <1>1, Zenon DEF TypeInv, FlowInv
<1>4. /\ Tail(queue[s]) \in Seq(Items) /\ x \in Items
      /\ Range2(queue[s]) = Range2(Tail(queue[s])) \cup {x}
      /\ Ordered(Tail(queue[s])) /\ Precede({x}, Range2(Tail(queue[s])))
  BY <1>2, <1>3, Left, Zenon
<1>5. Append(batch[s], x) # <<>>
  BY <1>3, <1>4
<1> HIDE DEF x
<1>6. Precede(Range2(batch[s]), {x})
  BY <1>3, <1>4, Zenon DEF Precede
<1>7. /\ Append(batch[s], x) \in Seq(Items)
      /\ Range2(Append(batch[s], x)) = Range2(batch[s]) \cup {x}
      /\ Ordered(Append(batch[s], x))
  BY <1>3, <1>4, <1>6, Joined, Zenon
<1>8. /\ queue' \in [Shards -> Seq(Items)] /\ queue'[s] = Tail(queue[s])
      /\ batch' \in [Shards -> Seq(Items)] /\ batch'[s] = Append(batch[s], x)
      /\ \A r \in Shards \ {s} : queue'[r] = queue[r] /\ batch'[r] = batch[r]
  <2>1. queue \in [Shards -> Seq(Items)] /\ batch \in [Shards -> Seq(Items)]
    BY <1>1, Zenon DEF TypeInv
  <2> QED
    BY <1>2, <1>4, <1>7, <2>1, Zenon
<1>9. /\ phase' \in [Shards -> {"wait", "drain", "process"}]
      /\ \A r \in Shards \ {s} : phase'[r] = phase[r]
  BY <1>1, <1>2, Zenon DEF TypeInv
<1>10. TypeInv'
  BY <1>1, <1>2, <1>8, <1>9, Zenon DEF TypeInv
<1>11. \A r \in Shards : phase'[r] # "wait" => batch'[r] # <<>>
  BY <1>1, <1>5, <1>8, <1>9, Zenon DEF StepInv
<1>12. \A r \in Shards : Range2(batch'[r]) \cup Range2(queue'[r]) = Range2(batch[r]) \cup Range2(queue[r])
  BY <1>4, <1>7, <1>8, Zenon
<1>13. Queued' = Queued
  <2>1. {Range2(queue[r]) \cup Range2(batch[r]) : r \in Shards}'
          = {Range2(queue[r]) \cup Range2(batch[r]) : r \in Shards}
    BY <1>12, Zenon
  <2> QED
    BY <1>2, <2>1, Zenon DEF Queued
<1>14. Lanes'
  <2>1. ASSUME NEW r \in Shards
        PROVE  /\ Ordered(queue'[r]) /\ Ordered(batch'[r])
               /\ Precede(Range2(batch'[r]), Range2(queue'[r]))
    <3>1. CASE r = s
      BY <1>3, <1>4, <1>7, <1>8, <3>1, Zenon DEF Precede
    <3>2. CASE r # s
      BY <1>1, <1>8, <3>2, Zenon DEF FlowInv
    <3> QED
      BY <3>1, <3>2, Zenon
  <2> QED
    BY <1>1, <1>2, <1>12, <2>1, Zenon DEF FlowInv, Lanes
<1> QED
  BY <1>2, <1>10, <1>11, <1>13, <1>14, WorkerMoves, Zenon

\* It closes its batch.
LEMMA CloseStep ==
  ASSUME Inv, NEW s \in Shards, CloseBatch(s)
  PROVE  Inv'
<1>1. TypeInv /\ StepInv /\ FlowInv
  BY DEF Inv
<1>2. /\ UNCHANGED <<now, pc, cur, seen, issued, recorded>>
      /\ UNCHANGED <<latest, tlatest, lastOf, derived, native, working, drops>>
      /\ UNCHANGED <<queue, batch>> /\ phase[s] = "drain"
      /\ phase' = [phase EXCEPT ![s] = "process"]
  BY Zenon DEF CloseBatch, ingest, state, history
<1>3. /\ phase' \in [Shards -> {"wait", "drain", "process"}]
      /\ \A r \in Shards : phase'[r] # "wait" => phase[r] # "wait"
  BY <1>1, <1>2, Zenon DEF TypeInv
<1>4. TypeInv'
  BY <1>1, <1>2, <1>3, Zenon DEF TypeInv
<1>5. \A r \in Shards : phase'[r] # "wait" => batch'[r] # <<>>
  BY <1>1, <1>2, <1>3, Zenon DEF StepInv
<1>6. Queued' = Queued /\ Lanes'
  BY <1>1, <1>2, Zenon DEF Queued, FlowInv, Lanes
<1> QED
  BY <1>2, <1>4, <1>5, <1>6, WorkerMoves, Zenon

\* It processes the first item of its batch: the items of the same request and
\* stream that are still on their way are later ones.
LEMMA DecisionStep ==
  ASSUME Inv, NEW s \in Shards, ProcessDecision(s)
  PROVE  /\ Inv'
         /\ \A c \in Clients, k \in Streams : lastOf'[c][k] >= lastOf[c][k]
<1> DEFINE x == Head(batch[s])
           k == StreamOf[x.loc]
<1>1. TypeInv /\ StepInv /\ FlowInv /\ ItemsInv /\ CountInv
  BY DEF Inv
<1>2. /\ UNCHANGED <<now, pc, cur, seen, issued, recorded>>
      /\ UNCHANGED <<latest, tlatest, native, working, queue, drops>>
      /\ phase[s] = "process"
      /\ lastOf' = [lastOf EXCEPT ![x.by][k] = x.n] /\ derived' = derived + 1
      /\ batch' = [batch EXCEPT ![s] = Tail(batch[s])]
      /\ phase' = [phase EXCEPT ![s] = IF Len(batch[s]) = 1 THEN "wait" ELSE "process"]
  BY Zenon DEF ProcessDecision, ingest, state
<1>3. /\ batch[s] \in Seq(Items) /\ batch[s] # <<>> /\ Ordered(batch[s])
      /\ Precede(Range2(batch[s]), Range2(queue[s]))
      /\ Precede(Range2(batch[s]) \cup Range2(queue[s]), Range2(working) \cup Range2(native))
  BY <1>1, <1>2, Zenon DEF TypeInv, StepInv, FlowInv
<1>4. /\ Tail(batch[s]) \in Seq(Items) /\ x \in Items
      /\ Range2(batch[s]) = Range2(Tail(batch[s])) \cup {x}
      /\ Ordered(Tail(batch[s])) /\ Precede({x}, Range2(Tail(batch[s])))
  BY <1>3, Left, Zenon
<1>5. Len(batch[s]) # 1 => Tail(batch[s]) # <<>>
  <2>1. Len(batch[s]) \in Nat \ {0} /\ Len(Tail(batch[s])) = Len(batch[s]) - 1
    BY <1>3
  <2>2. Len(<<>>) = 0
    OBVIOUS
  <2>3. Len(batch[s]) # 1 => Len(Tail(batch[s])) # 0
    BY <2>1
  <2> QED
    BY <2>2, <2>3, Zenon
<1>6. /\ x.by \in Clients /\ k \in Streams /\ x.n \in Nat /\ ShardOf(x) = s
  BY <1>1, <1>4, ShardFacts, Zenon DEF FlowInv
<1> HIDE DEF x, k
<1>7. /\ batch' \in [Shards -> Seq(Items)] /\ batch'[s] = Tail(batch[s])
      /\ \A r \in Shards \ {s} : batch'[r] = batch[r]
  <2>1. batch \in [Shards -> Seq(Items)]
    BY <1>1, Zenon DEF TypeInv
  <2> QED
    BY <1>2, <1>4, <2>1, Zenon
<1>8. /\ phase' \in [Shards -> {"wait", "drain", "process"}]
      /\ \A r \in Shards : phase'[r] # "wait" => batch'[r] # <<>>
  <2>1. phase \in [Shards -> {"wait", "drain", "process"}]
    BY <1>1, Zenon DEF TypeInv
  <2>2. /\ phase' \in [Shards -> {"wait", "drain", "process"}]
        /\ phase'[s] # "wait" => Len(batch[s]) # 1
        /\ \A r \in Shards \ {s} : phase'[r] = phase[r]
    BY <1>2, <2>1, Zenon
  <2> QED
    BY <1>1, <1>5, <1>7, <2>2, Zenon DEF StepInv
<1>9. /\ lastOf' \in [Clients -> [Streams -> Nat]]
      /\ \A c \in Clients, m \in Streams :
           lastOf'[c][m] = IF c = x.by /\ m = k THEN x.n ELSE lastOf[c][m]
  BY <1>1, <1>2, <1>6, Zenon DEF TypeInv
<1>10. derived' \in Nat /\ derived' = derived + 1
  BY <1>1, <1>2 DEF TypeInv
<1>11. TypeInv'
  BY <1>1, <1>2, <1>7, <1>8, <1>9, <1>10, Zenon DEF TypeInv
<1>12. \A r \in Shards : Range2(batch'[r]) \subseteq Range2(batch[r])
  BY <1>4, <1>7, Zenon
<1>13. Lanes'
  <2>1. ASSUME NEW r \in Shards
        PROVE  /\ Ordered(queue[r]) /\ Ordered(batch'[r])
               /\ Precede(Range2(batch'[r]), Range2(queue[r]))
               /\ Precede(Range2(batch'[r]) \cup Range2(queue[r]), Range2(working) \cup Range2(native))
               /\ \A i \in Range2(batch'[r]) \cup Range2(queue[r]) : ShardOf(i) = r
    <3>1. Ordered(batch'[r])
      BY <1>1, <1>4, <1>7, Zenon DEF FlowInv
    <3>2. /\ Ordered(queue[r]) /\ Precede(Range2(batch[r]), Range2(queue[r]))
          /\ Precede(Range2(batch[r]) \cup Range2(queue[r]), Range2(working) \cup Range2(native))
          /\ \A i \in Range2(batch[r]) \cup Range2(queue[r]) : ShardOf(i) = r
      BY <1>1, Zenon DEF FlowInv
    <3> QED
      BY <1>12, <3>1, <3>2, Zenon DEF Precede
  <2> QED
    BY <1>1, <1>2, <2>1, Zenon DEF FlowInv, Lanes
<1>14. ASSUME NEW j, \/ j \in Range2(native) \/ j \in Range2(working)
                     \/ \E r \in Shards : j \in Range2(queue[r]) \cup Range2(batch'[r])
       PROVE  ShardOf(j) = s => Before(x, j)
  <2>1. CASE j \in Range2(native) \/ j \in Range2(working)
    BY <1>3, <1>4, <2>1, Zenon DEF Precede
  <2>2. ASSUME NEW r \in Shards, j \in Range2(queue[r]) \cup Range2(batch'[r]), ShardOf(j) = s
        PROVE  Before(x, j)
    <3>1. r = s
      BY <1>1, <1>12, <2>2, Zenon DEF FlowInv
    <3>2. CASE j \in Range2(queue[s])
      BY <1>3, <1>4, <3>2, Zenon DEF Precede
    <3>3. CASE j \in Range2(Tail(batch[s]))
      BY <1>4, <3>3, Zenon DEF Precede
    <3> QED
      BY <1>7, <2>2, <3>1, <3>2, <3>3, Zenon
  <2> QED
    BY <1>14, <2>1, <2>2, Zenon
<1>15. x \in Queued /\ Queued' = Queued \ {x}
  <2>1. x \in Queued
    BY <1>4, QueuedIs, Zenon
  <2>2. ~Before(x, x)
    BY <1>6 DEF Before
  <2>3. ASSUME NEW j \in Queued' PROVE j \in Queued /\ j # x
    <3>1. \/ j \in Range2(native) \/ j \in Range2(working)
          \/ \E r \in Shards : j \in Range2(queue[r]) \cup Range2(batch'[r])
      BY <1>2, <2>3, QueuedNext, Zenon
    <3>2. j # x
      BY <1>6, <1>14, <2>2, <3>1, Zenon
    <3> QED
      BY <1>12, <3>1, <3>2, QueuedIs, Zenon
  <2>4. ASSUME NEW j \in Queued, j # x PROVE j \in Queued'
    <3>1. \/ j \in Range2(native) \/ j \in Range2(working)
          \/ \E r \in Shards : j \in Range2(queue[r]) \cup Range2(batch[r])
      BY <2>4, QueuedIs, Zenon
    <3>2. \A r \in Shards : j \in Range2(batch[r]) => j \in Range2(batch'[r])
      BY <1>4, <1>7, <2>4, Zenon
    <3> QED
      BY <1>2, <3>1, <3>2, QueuedNext, Zenon
  <2> QED
    BY <2>1, <2>3, <2>4, Zenon
<1>16. /\ StepInv' /\ FlowInv' /\ WindowInv' /\ SuppressedWasRecorded'
       /\ InFlight' = InFlight \ {x} /\ x \in InFlight
  <2>1. Queued' \subseteq Queued
    BY <1>15
  <2> QED
    BY <1>2, <1>8, <1>13, <1>15, <2>1, WorkerFrame, Zenon
<1>17. CountInv'
  <2>1. /\ derived' + drops'.native + drops'.decision = derived + drops.native + drops.decision + 1
        /\ drops' \in [native : Nat, decision : Nat]
    BY <1>1, <1>2, <1>10 DEF TypeInv
  <2> QED
    BY <1>1, <1>2, <1>10, <1>16, <2>1, OneOut, Zenon
<1>18. ASSUME NEW j \in InFlight', j.by = x.by, StreamOf[j.loc] = k PROVE x.n < j.n
  <2>1. ShardOf(j) = s
    BY <1>6, <1>18, Zenon DEF ShardOf, k
  <2>2. CASE j \in Queued'
    <3>1. \/ j \in Range2(native) \/ j \in Range2(working)
          \/ \E r \in Shards : j \in Range2(queue[r]) \cup Range2(batch'[r])
      BY <1>2, <2>2, QueuedNext, Zenon
    <3> QED
      BY <1>14, <1>18, <2>1, <3>1, Zenon DEF Before
  <2>3. ASSUME NEW c \in Clients, Pending(c), j = cur[c] PROVE x.n < j.n
    BY <1>1, <1>15, <1>18, <2>3, Zenon DEF FlowInv, Precede, Before
  <2>4. j \in Queued' \/ \E c \in Clients : Pending(c) /\ j = cur[c]
    BY <1>2, Zenon DEF InFlight, Pending
  <2> QED
    BY <2>2, <2>3, <2>4, Zenon
<1>19. ItemsInv'
  <2>1. ASSUME NEW j \in InFlight' PROVE ItemOK(j)'
    <3>1. j \in InFlight /\ ItemOK(j) /\ j \in Items
      BY <1>1, <1>16, ItemFacts, Zenon DEF ItemsInv
    <3>2. j.by \in Clients /\ StreamOf[j.loc] \in Streams
      BY <3>1, ShardFacts, Zenon
    <3>3. lastOf'[j.by][StreamOf[j.loc]] < j.n
      BY <1>9, <1>18, <3>1, <3>2, Zenon DEF ItemOK
    <3> QED
      BY <1>2, <3>1, <3>3, Zenon DEF ItemOK
  <2>2. \A j \in Queued' : Tracked(j)'
    BY <1>1, <1>2, <1>15, Zenon DEF ItemsInv, Tracked
  <2>3. \A c \in Clients : pc'[c] = "submit" => Tracked(cur[c])'
    BY <1>1, <1>2, Zenon DEF ItemsInv, Tracked
  <2>4. \A c \in Clients, m \in Streams : lastOf'[c][m] <= issued'
    <3>1. x.n <= issued
      BY <1>1, <1>16 DEF ItemsInv, ItemOK, TypeInv
    <3> QED
      BY <1>1, <1>2, <1>9, <3>1, Zenon DEF ItemsInv
  <2> QED
    BY <2>1, <2>2, <2>3, <2>4, Zenon DEF ItemsInv
<1>20. \A c \in Clients, m \in Streams : lastOf'[c][m] >= lastOf[c][m]
  <2>1. lastOf[x.by][k] < x.n
    BY <1>1, <1>16, Zenon DEF ItemsInv, ItemOK, k
  <2>2. \A c \in Clients, m \in Streams : lastOf[c][m] \in Nat
    BY <1>1 DEF TypeInv
  <2> QED
    BY <1>6, <1>9, <2>1, <2>2
<1> QED
  BY <1>11, <1>16, <1>17, <1>19, <1>20, Zenon DEF Inv

-----------------------------------------------------------------------------
\* At first nothing is on its way.
LEMMA Initially == Init => Inv
<1> SUFFICES ASSUME Init PROVE Inv
  OBVIOUS
<1>1. /\ now = 0 /\ pc = [c \in Clients |-> "idle"] /\ cur = [c \in Clients |-> NoItem]
      /\ seen = [l \in Locations |-> 0] /\ latest = [k \in Streams |-> Absent]
      /\ tlatest = [t \in Trackables |-> Absent] /\ issued = 0
      /\ native = <<>> /\ working = <<>>
      /\ queue = [s \in Shards |-> <<>>] /\ batch = [s \in Shards |-> <<>>]
      /\ phase = [s \in Shards |-> "wait"] /\ drops = [native |-> 0, decision |-> 0]
      /\ derived = 0 /\ lastOf = [c \in Clients |-> [k \in Streams |-> 0]]
  BY Zenon DEF Init
<1>2. Absent \in [item : Items \cup {NoItem}, until : Nat]
  BY DEF Absent
<1>3. <<>> \in Seq(Items) /\ Len(<<>>) = 0 /\ Range2(<<>>) = {}
  BY DEF Range2
<1>4. TypeInv
  <2>1. drops \in [native : Nat, decision : Nat]
    BY <1>1, Zenon
  <2> QED
    BY <1>1, <1>2, <1>3, <2>1 DEF TypeInv
<1>5. \A c \in Clients : ~Pending(c) /\ ~Busy(c) /\ pc[c] # "submit"
  BY <1>1, Zenon DEF Pending, Busy
<1>6. StepInv
  BY <1>1, <1>5, Zenon DEF StepInv
<1>7. Queued = {}
  BY <1>1, <1>3, QueuedIs, Zenon
<1>8. InFlight = {} /\ Accepted = {}
  BY <1>5, <1>7, InFlightIs, Zenon
<1>9. FlowInv
  <2>1. Ordered(<<>>) /\ Precede({}, {})
    BY DEF Ordered, Precede
  <2> QED
    BY <1>1, <1>3, <1>5, <2>1, Zenon DEF FlowInv
<1>10. ItemsInv
  BY <1>1, <1>5, <1>7, <1>8 DEF ItemsInv
<1>11. CountInv
  BY <1>1, <1>8, FS_EmptySet DEF CountInv, DropsAccounted
<1>12. WindowInv
  BY <1>8 DEF WindowInv
<1>13. SuppressedWasRecorded
  BY <1>1 DEF SuppressedWasRecorded
<1> QED
  BY <1>4, <1>6, <1>9, <1>10, <1>11, <1>12, <1>13, Zenon DEF Inv

\* Every step preserves the invariant, and takes back nothing that was
\* processed.
LEMMA Preserved ==
  Inv /\ [Next]_vars => Inv' /\ \A c \in Clients, k \in Streams : lastOf'[c][k] >= lastOf[c][k]
<1> DEFINE Same == UNCHANGED lastOf
           Later == \A c \in Clients, k \in Streams : lastOf'[c][k] >= lastOf[c][k]
<1> SUFFICES ASSUME Inv, [Next]_vars PROVE Inv' /\ Later
  OBVIOUS
<1>1. Same => Later
  BY DEF Inv, TypeInv
<1>2. now \in Nat /\ Valid \subseteq Locations
  BY PipelineAssumption, Zenon DEF Inv, TypeInv
<1> HIDE DEF Later
<1>3. ASSUME NEW c \in Clients, NEW r \in Requests, Post(c, r) PROVE Inv' /\ Later
  <2>1. /\ UNCHANGED <<cur, state, native, working, decision, drops, history>> /\ now' = now
        /\ pc[c] \in {"idle", "next"} /\ pc' = [pc EXCEPT ![c] = "next"]
    BY <1>3, Zenon DEF Post
  <2>2. now' \in Nat /\ now' >= now
    BY <1>2, <2>1
  <2>3. \E d \in Clients, x \in {"idle", "next"} :
          pc[d] \in {"idle", "next"} /\ pc' = [pc EXCEPT ![d] = x]
    BY <2>1, Zenon
  <2>4. Inv' /\ Same
    BY <2>1, <2>2, <2>3, QuietStep, Zenon DEF history
  <2> QED
    BY <1>1, <2>4
<1>4. ASSUME NEW c \in Clients, Finish(c) PROVE Inv' /\ Later
  <2>1. /\ UNCHANGED <<cur, state, native, working, decision, drops, history>> /\ now' = now
        /\ pc[c] \in {"idle", "next"} /\ pc' = [pc EXCEPT ![c] = "idle"]
    BY <1>4, Zenon DEF Finish
  <2>2. now' \in Nat /\ now' >= now
    BY <1>2, <2>1
  <2>3. \E d \in Clients, x \in {"idle", "next"} :
          pc[d] \in {"idle", "next"} /\ pc' = [pc EXCEPT ![d] = x]
    BY <2>1, Zenon
  <2>4. Inv' /\ Same
    BY <2>1, <2>2, <2>3, QuietStep, Zenon DEF history
  <2> QED
    BY <1>1, <2>4
<1>5. ASSUME NEW c \in Clients, Deduplicate(c) PROVE Inv' /\ Later
  <2>1. CASE seen[Head(todo[c])] > now
    BY <1>1, <1>2, <1>5, <2>1, QuietStep DEF Deduplicate, state, history
  <2>2. CASE ~(seen[Head(todo[c])] > now)
    BY <1>1, <1>2, <1>5, <2>2, AcceptStep, Zenon DEF Deduplicate, history
  <2> QED
    BY <2>1, <2>2, Zenon
<1>6. ASSUME NEW c \in Clients, SetLatestLocation(c) PROVE Inv' /\ Later
  BY <1>1, <1>6, StoreStep, Zenon DEF SetLatestLocation
<1>7. ASSUME NEW c \in Clients, SetTrackableLocations(c) PROVE Inv' /\ Later
  BY <1>1, <1>7, TrackStep, Zenon DEF SetTrackableLocations, history
<1>8. ASSUME NEW c \in Clients, Submit(c) PROVE Inv' /\ Later
  BY <1>1, <1>8, SubmitStep, Zenon DEF Submit, history
<1>9. CASE TakeNative
  BY <1>1, <1>9, TakeStep, Zenon DEF TakeNative, history
<1>10. CASE ProcessNative
  BY <1>1, <1>10, ProcessNativeStep, Zenon DEF ProcessNative, history
<1>11. ASSUME NEW s \in Shards, Dequeue(s) PROVE Inv' /\ Later
  BY <1>1, <1>11, DequeueStep, Zenon DEF Dequeue, history
<1>12. ASSUME NEW s \in Shards, CloseBatch(s) PROVE Inv' /\ Later
  BY <1>1, <1>12, CloseStep, Zenon DEF CloseBatch, history
<1>13. ASSUME NEW s \in Shards, ProcessDecision(s) PROVE Inv' /\ Later
  BY <1>13, DecisionStep, Zenon DEF Later
<1>14. CASE Tick
  BY <1>1, <1>2, <1>14, QuietStep DEF Tick, ingest, history
<1>15. CASE UNCHANGED vars
  BY <1>1, <1>2, <1>15, QuietStep DEF vars, ingest, history
<1> QED
  BY <1>3, <1>4, <1>5, <1>6, <1>7, <1>8, <1>9, <1>10, <1>11, <1>12, <1>13, <1>14, <1>15, Zenon
     DEF Next, Record, Decide

\* The pipeline's invariant.
THEOREM PipelineInvariant == Spec => []Inv
<1>1. Init => Inv
  BY Initially
<1>2. Inv /\ [Next]_vars => Inv'
  BY Preserved
<1> QED
  BY <1>1, <1>2, PTL DEF Spec

\* A stored location is processed or counted as dropped, and readers have it, or
\* a newer one, before the subscribers do (recordLocation, the two queues).
THEOREM StoredIsAccounted == Spec => []StoredAndAccounted
<1>1. Inv => StoredAndAccounted
  <2> SUFFICES ASSUME Inv PROVE StoredAndAccounted
    OBVIOUS
  <2>1. DropsAccounted /\ Queued \subseteq InFlight
    BY DEF Inv, CountInv, InFlight
  <2>2. ReadableWhenQueued
    BY <2>1, Zenon DEF Inv, ItemsInv, ItemOK, Tracked, ReadableWhenQueued
  <2> QED
    BY <2>1, <2>2 DEF StoredAndAccounted
<1> QED
  BY <1>1, PipelineInvariant, PTL

\* Content is suppressed exactly while its window is open and its location was
\* recorded or is about to be (ProcessingState.Deduplicate).
THEOREM DedupIsExact == Spec => []DedupExact
<1>1. Inv => DedupExact
  <2> SUFFICES ASSUME Inv PROVE DedupExact
    OBVIOUS
  <2>1. InFlight \subseteq Accepted
    BY Zenon DEF InFlight, Accepted, Pending, Busy
  <2>2. NoDuplicateInFlight
    BY <2>1, Zenon DEF Inv, WindowInv, Apart, NoDuplicateInFlight
  <2> QED
    BY <2>2 DEF Inv, DedupExact
<1> QED
  BY <1>1, PipelineInvariant, PTL

\* The decision stage gets the locations of a request's stream in their order
\* (decisionShardIndex, the queues and the batches).
THEOREM StreamsStayOrdered == Spec => StreamOrder
<1>1. Inv /\ [Next]_vars =>
        [\A c \in Clients, k \in Streams : lastOf'[c][k] >= lastOf[c][k]]_vars
  BY Preserved, Zenon
<1> QED
  BY <1>1, PipelineInvariant, PTL DEF Spec, StreamOrder
=============================================================================
