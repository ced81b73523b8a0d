------------------------- MODULE WsConnectionProofs -------------------------
(***************************************************************************)
(* Proofs about WsConnection for every set of events and messages, every   *)
(* buffer and batch size and every number of subscriptions: what is lost   *)
(* is counted or replaced by newer data, what is delivered was asked for,  *)
(* and the connection implements WsDelivery.                               *)
(***************************************************************************)
EXTENDS WsConnection, WellFoundedInduction, FiniteSetTheorems, TLAPS

Rising(b) == \A i, j \in 1..Len(b) : i < j => b[i] < b[j]

-----------------------------------------------------------------------------
(* Selecting from a batch.                                                 *)

\* Induction: a set of numbers that is not empty has a least element.
LEMMA Least ==
  ASSUME NEW S \in SUBSET Nat, S # {}
  PROVE  \E n \in S : \A m \in S : n <= m
<1> DEFINE R == {ss \in Nat \X Nat : ss[1] < ss[2]}
<1>1. IsWellFoundedOn(R, Nat)
  BY NatLessThanWellFounded DEF OpToRel
<1> HIDE DEF R
<1>2. PICK x \in S : \A y \in S : ~ (<<y, x>> \in R)
  BY <1>1, WFMin, Zenon
<1>3. x \in Nat /\ \A y \in S : y \in Nat
  OBVIOUS
<1>4. \A y \in S : y < x => <<y, x>> \in R
  BY <1>3 DEF R
<1>5. \A y \in S : ~ (y < x)
  BY <1>2, <1>4, Zenon
<1>6. \A y \in S : x <= y
  BY <1>3, <1>5
<1> QED
  BY <1>6, Zenon

\* The loop of payloadBatchForSubscription over the first n events of a batch.
Loops(g, n, topic, f) ==
  g = [i \in 0..n |->
         IF i = 0 THEN <<>>
         ELSE IF Selects(topic, f, log[outgoing[i]].kind, log[outgoing[i]].item)
           THEN Append(g[i - 1], outgoing[i])
           ELSE g[i - 1]]

\* The loop comes to an end, with the payload.
LEMMA PayloadIs ==
  ASSUME outgoing \in Seq(Nat), NEW topic, NEW f
  PROVE  \E g : Loops(g, Len(outgoing), topic, f) /\ PayloadBatch(topic, f) = g[Len(outgoing)]
<1> DEFINE N == Len(outgoing)
           G == CHOOSE g : Loops(g, N, topic, f)
<1>1. PayloadBatch(topic, f) = G[N]
  BY Zenon DEF PayloadBatch, Loops
<1>2. \A n \in 0..N : \E g : Loops(g, n, topic, f)
  <2> DEFINE B == {n \in 0..N : ~ \E g : Loops(g, n, topic, f)}
  <2>1. SUFFICES ASSUME B # {} PROVE FALSE
    BY Zenon
  <2>2. B \in SUBSET Nat
    OBVIOUS
  <2>3. PICK n \in B : \A m \in B : n <= m
    BY <2>1, <2>2, Least, Zenon
  <2>4. n # 0
    <3>1. Loops([i \in 0..0 |-> <<>>], 0, topic, f)
      BY DEF Loops
    <3> QED
      BY <3>1, Zenon
  <2>5. n \in Nat /\ n - 1 \in 0..N /\ n - 1 \notin B
    BY <2>3, <2>4
  <2>6. PICK g : Loops(g, n - 1, topic, f)
    BY <2>5, Zenon
  <2> DEFINE last == IF Selects(topic, f, log[outgoing[n]].kind, log[outgoing[n]].item)
                       THEN Append(g[n - 1], outgoing[n])
                       ELSE g[n - 1]
             h == [i \in 0..n |-> IF i = n THEN last ELSE g[i]]
             e(k, i) == IF i = 0 THEN <<>>
                        ELSE IF Selects(topic, f, log[outgoing[i]].kind, log[outgoing[i]].item)
                          THEN Append(k[i - 1], outgoing[i])
                          ELSE k[i - 1]
  <2>7. /\ \A i \in 0..(n - 1) : i \in 0..n /\ i # n
        /\ \A i \in 0..n : i = n \/ i \in 0..(n - 1)
        /\ \A i \in 0..n : i # 0 => i - 1 \in 0..(n - 1)
        /\ n \in 0..n
    BY <2>5
  <2> HIDE DEF last
  <2>8. \A i \in 0..n : h[i] = e(h, i)
    <3>1. \A i \in 0..(n - 1) : g[i] = e(g, i)
      BY <2>6, Zenon DEF Loops
    <3>2. \A i \in 0..(n - 1) : h[i] = g[i]
      BY <2>7, Zenon
    <3>3. h[n] = last
      BY <2>7, Zenon
    <3>4. \A i \in 0..n : i # 0 => h[i - 1] = g[i - 1]
      BY <2>7, <3>2, Zenon
    <3> HIDE DEF h
    <3>5. \A i \in 0..n : e(h, i) = e(g, i)
      BY <3>4, Zenon
    <3>6. e(g, n) = last
      BY <2>4, Zenon DEF last
    <3> QED
      BY <2>7, <3>1, <3>2, <3>3, <3>5, <3>6, Zenon
  <2>9. Loops(h, n, topic, f)
    BY <2>8, Zenon DEF Loops
  <2> QED
    BY <2>9, Zenon
<1>3. Loops(G, N, topic, f)
  <2>1. N \in 0..N
    OBVIOUS
  <2> QED
    BY <1>2, <2>1, Zenon
<1> QED
  BY <1>1, <1>3, Zenon

\* What the payload has: events of the batch that the filter selects, in the
\* order of the batch.
LEMMA PayloadFacts ==
  ASSUME outgoing \in Seq(Nat), Rising(outgoing), NEW topic, NEW f
  PROVE  LET b == PayloadBatch(topic, f)
         IN  /\ b \in Seq(Nat) /\ Rising(b)
             /\ \A i \in 1..Len(b) :
                  /\ \E j \in 1..Len(outgoing) : b[i] = outgoing[j]
                  /\ Selects(topic, f, log[b[i]].kind, log[b[i]].item)
<1> DEFINE N == Len(outgoing)
           P(n) == Selects(topic, f, log[n].kind, log[n].item)
           Good(b, n) == /\ b \in Seq(Nat) /\ Rising(b)
                         /\ \A i \in 1..Len(b) : /\ \E j \in 1..n : b[i] = outgoing[j]
                                                 /\ P(b[i])
<1>1. PICK g : Loops(g, N, topic, f) /\ PayloadBatch(topic, f) = g[N]
  BY PayloadIs, Zenon
<1> HIDE DEF P
<1>2. g[0] = <<>> /\ \A i \in 1..N : g[i] = IF P(outgoing[i]) THEN Append(g[i - 1], outgoing[i])
                                            ELSE g[i - 1]
  <2>1. 0 \in 0..N /\ \A i \in 1..N : i \in 0..N /\ i # 0
    OBVIOUS
  <2> QED
    BY <1>1, <2>1, Zenon DEF Loops, P
<1>3. \A n \in 0..N : Good(g[n], n)
  <2> DEFINE B == {n \in 0..N : ~ Good(g[n], n)}
  <2> HIDE DEF Good
  <2>1. SUFFICES ASSUME B # {} PROVE FALSE
    BY Zenon
  <2>2. B \in SUBSET Nat
    OBVIOUS
  <2>3. PICK n \in B : \A m \in B : n <= m
    BY <2>1, <2>2, Least, Zenon
  <2>4. n # 0
    <3>1. <<>> \in Seq(Nat) /\ 1..Len(<<>>) = {}
      OBVIOUS
    <3>2. Good(g[0], 0)
      BY <1>2, <3>1, Zenon DEF Good, Rising
    <3> QED
      BY <3>2, Zenon
  <2>5. n \in 1..N /\ n - 1 \in 0..N /\ n - 1 \notin B
    BY <2>3, <2>4
  <2>6. Good(g[n - 1], n - 1)
    BY <2>5, Zenon
  <2> DEFINE b == g[n - 1]
             x == outgoing[n]
  <2>7. x \in Nat /\ \A j \in 1..(n - 1) : outgoing[j] \in Nat /\ outgoing[j] < x
    BY <2>5 DEF Rising
  <2>8. b \in Seq(Nat) /\ Rising(b)
        /\ \A i \in 1..Len(b) : P(b[i]) /\ b[i] < x /\ \E j \in 1..n : b[i] = outgoing[j]
    <3>1. \A i \in 1..Len(b) : P(b[i]) /\ \E j \in 1..(n - 1) : b[i] = outgoing[j]
      BY <2>6, Zenon DEF Good
    <3>2. \A j \in 1..(n - 1) : j \in 1..n
      BY <2>5
    <3> QED
      BY <2>6, <2>7, <3>1, <3>2, Zenon DEF Good
  <2> HIDE DEF b, x
  <2>9. CASE ~ P(x)
    <3>1. g[n] = b
      BY <1>2, <2>5, <2>9, Zenon DEF b, x
    <3>2. Good(b, n)
      BY <2>8, Zenon DEF Good
    <3> QED
      BY <3>1, <3>2, Zenon
  <2>10. CASE P(x)
    <3> DEFINE c == Append(b, x)
    <3>1. g[n] = c
      BY <1>2, <2>5, <2>10, Zenon DEF b, x
    <3>2. /\ c \in Seq(Nat) /\ Len(c) = Len(b) + 1 /\ c[Len(b) + 1] = x
          /\ \A i \in 1..Len(b) : c[i] = b[i]
          /\ Len(b) \in Nat
      BY <2>7, <2>8
    <3> HIDE DEF c
    <3>3. Rising(c)
      <4> SUFFICES ASSUME NEW i \in 1..Len(c), NEW j \in 1..Len(c), i < j PROVE c[i] < c[j]
        BY Zenon DEF Rising
      <4>1. i \in 1..Len(b) /\ (j = Len(b) + 1 \/ j \in 1..Len(b))
        BY <3>2
      <4> QED
        BY <2>8, <3>2, <4>1, Zenon DEF Rising
    <3>4. \A i \in 1..Len(c) : P(c[i]) /\ \E j \in 1..n : c[i] = outgoing[j]
      <4>1. \A i \in 1..Len(c) : i = Len(b) + 1 \/ i \in 1..Len(b)
        BY <3>2
      <4>2. n \in 1..n
        BY <2>5
      <4> QED
        BY <2>8, <2>10, <3>2, <4>1, <4>2, Zenon DEF x
    <3> QED
      BY <3>1, <3>2, <3>3, <3>4, Zenon DEF Good
  <2> QED
    BY <2>9, <2>10
<1>4. Good(g[N], N)
  <2>1. N \in 0..N
    OBVIOUS
  <2> QED
    BY <1>3, <2>1, Zenon
<1> QED
  BY <1>1, <1>4, Zenon DEF P

\* Rising numbers from 1 to n are at most n.
LEMMA RisingIsShort ==
  ASSUME NEW n \in Nat, NEW b \in Seq(1..n), Rising(b)
  PROVE  Len(b) <= n
<1> DEFINE B == {i \in 1..Len(b) : b[i] < i}
<1>1. B = {}
  <2>1. SUFFICES ASSUME B # {} PROVE FALSE
    OBVIOUS
  <2>2. PICK i \in B : \A m \in B : i <= m
    <3>1. B \in SUBSET Nat
      OBVIOUS
    <3> QED
      BY <2>1, <3>1, Least, Zenon
  <2>3. i \in 1..Len(b) /\ b[i] \in 1..n /\ b[i] < i
    OBVIOUS
  <2>4. i # 1 /\ i - 1 \in 1..Len(b) /\ b[i - 1] \in 1..n
    BY <2>3
  <2>5. b[i - 1] >= i - 1
    BY <2>2, <2>3, <2>4
  <2>6. b[i - 1] < b[i]
    BY <2>3, <2>4 DEF Rising
  <2> QED
    BY <2>3, <2>4, <2>5, <2>6
<1>2. CASE Len(b) = 0
  BY <1>2
<1>3. CASE Len(b) # 0
  <2>1. Len(b) \in 1..Len(b) /\ b[Len(b)] \in 1..n
    BY <1>3
  <2> QED
    BY <1>1, <2>1
<1> QED
  BY <1>2, <1>3

-----------------------------------------------------------------------------
(* The way of the events of a subscription: what has reached the client,   *)
(* the frame being written, the buffer.  The events of a discrete topic    *)
(* are in order along it, no event of any topic is in two places.          *)

Mine(w, s) == w # None /\ w.event = "message" /\ w.sub = s

Carried(w, s) == IF Mine(w, s) THEN {w.items[i] : i \in 1..Len(w.items)} ELSE {}

Reached(g) == {g[i] : i \in 1..Len(g)}

Apart(d, A, B) == \A x \in A, y \in B : IF d THEN x < y ELSE x # y

Queued(s, g, f, q) ==
  Reached(g) \cup Carried(f, s) \cup UNION {Carried(q[i], s) : i \in 1..Len(q)}

QueueOrder(d, s, g, f, q) ==
  /\ Apart(d, Reached(g), Carried(f, s))
  /\ \A i \in 1..Len(q) : Apart(d, Reached(g) \cup Carried(f, s), Carried(q[i], s))
  /\ \A i, j \in 1..Len(q) : i < j => Apart(d, Carried(q[i], s), Carried(q[j], s))

\* Where a queued event is.
LEMMA QueuedIs ==
  ASSUME NEW s, NEW g, NEW f, NEW q, NEW x
  PROVE  x \in Queued(s, g, f, q) <=>
           \/ x \in Reached(g) \/ x \in Carried(f, s)
           \/ \E i \in 1..Len(q) : x \in Carried(q[i], s)
BY Zenon DEF Queued

\* A wrapper is queued behind everything else.
LEMMA Enqueued ==
  ASSUME NEW d, NEW s, NEW g, NEW f, NEW q \in Seq(Wrappers), NEW w \in Wrappers,
         QueueOrder(d, s, g, f, q), Apart(d, Queued(s, g, f, q), Carried(w, s))
  PROVE  /\ QueueOrder(d, s, g, f, Append(q, w))
         /\ Queued(s, g, f, Append(q, w)) = Queued(s, g, f, q) \cup Carried(w, s)
<1> DEFINE r == Append(q, w)
<1>1. /\ Len(q) \in Nat /\ Len(r) = Len(q) + 1 /\ r[Len(q) + 1] = w
      /\ \A i \in 1..Len(q) : r[i] = q[i]
  OBVIOUS
<1> HIDE DEF r
<1>2. /\ \A i \in 1..Len(r) : i \in 1..Len(q) \/ i = Len(q) + 1
      /\ \A i \in 1..Len(q) : i \in 1..Len(r)
      /\ Len(q) + 1 \in 1..Len(r)
      /\ \A i, j \in 1..Len(r) : i < j => i \in 1..Len(q)
  BY <1>1
<1>3. /\ Apart(d, Reached(g) \cup Carried(f, s), Carried(w, s))
      /\ \A i \in 1..Len(q) : Apart(d, Carried(q[i], s), Carried(w, s))
  BY QueuedIs, Zenon DEF Apart
<1>4. QueueOrder(d, s, g, f, r)
  <2>1. \A i \in 1..Len(r) : Apart(d, Reached(g) \cup Carried(f, s), Carried(r[i], s))
    BY <1>1, <1>2, <1>3, Zenon DEF QueueOrder
  <2>2. \A i, j \in 1..Len(r) : i < j => Apart(d, Carried(r[i], s), Carried(r[j], s))
    BY <1>1, <1>2, <1>3, Zenon DEF QueueOrder
  <2> QED
    BY <2>1, <2>2, Zenon DEF QueueOrder
<1>5. \A x : x \in Queued(s, g, f, r) <=> x \in Queued(s, g, f, q) \/ x \in Carried(w, s)
  <2> TAKE x
  <2>1. x \in UNION {Carried(r[i], s) : i \in 1..Len(r)} <=>
          x \in UNION {Carried(q[i], s) : i \in 1..Len(q)} \/ x \in Carried(w, s)
    BY <1>1, <1>2, Zenon
  <2> QED
    BY <2>1, Zenon DEF Queued
<1> QED
  BY <1>4, <1>5, Zenon DEF r

\* The head of the buffer becomes the frame.
LEMMA HeadTaken ==
  ASSUME NEW d, NEW s, NEW g, NEW q \in Seq(Wrappers), q # <<>>,
         QueueOrder(d, s, g, None, q)
  PROVE  /\ QueueOrder(d, s, g, Head(q), Tail(q))
         /\ Queued(s, g, Head(q), Tail(q)) = Queued(s, g, None, q)
<1> DEFINE h == Head(q)
           t == Tail(q)
<1>1. /\ 1 \in 1..Len(q) /\ h = q[1] /\ t \in Seq(Wrappers)
      /\ \A i \in 1..Len(t) : i + 1 \in 1..Len(q) /\ t[i] = q[i + 1] /\ 1 < i + 1
      /\ \A i \in 1..Len(q) : i = 1 \/ \E j \in 1..Len(t) : i = j + 1
      /\ \A i, j \in 1..Len(t) : i < j => i + 1 < j + 1
  <2>1. Len(q) \in Nat /\ Len(q) # 0 /\ Len(t) = Len(q) - 1 /\ h = q[1] /\ t \in Seq(Wrappers)
    OBVIOUS
  <2>2. \A i \in 1..Len(t) : t[i] = q[i + 1]
    OBVIOUS
  <2> HIDE DEF h, t
  <2>3. \A i \in 1..Len(q) : i = 1 \/ (i - 1 \in 1..Len(t) /\ i = (i - 1) + 1)
    BY <2>1
  <2> QED
    BY <2>1, <2>2, <2>3
<1> HIDE DEF h, t
<1>2. Carried(None, s) = {}
  BY Zenon DEF Carried, Mine
<1>3. QueueOrder(d, s, g, h, t)
  <2>1. Apart(d, Reached(g), Carried(h, s))
    BY <1>1, <1>2, Zenon DEF QueueOrder, Apart
  <2>2. \A i \in 1..Len(t) : Apart(d, Reached(g), Carried(t[i], s))
    BY <1>1, <1>2, Zenon DEF QueueOrder, Apart
  <2>3. \A i \in 1..Len(t) : Apart(d, Carried(h, s), Carried(t[i], s))
    BY <1>1, Zenon DEF QueueOrder
  <2>4. \A i, j \in 1..Len(t) : i < j => Apart(d, Carried(t[i], s), Carried(t[j], s))
    BY <1>1, Zenon DEF QueueOrder
  <2> QED
    BY <2>1, <2>2, <2>3, <2>4, Zenon DEF QueueOrder, Apart
<1>4. \A x : x \in Queued(s, g, h, t) <=> x \in Queued(s, g, None, q)
  <2> TAKE x
  <2>1. (\E i \in 1..Len(q) : x \in Carried(q[i], s)) <=>
          x \in Carried(h, s) \/ \E i \in 1..Len(t) : x \in Carried(t[i], s)
    BY <1>1, Zenon
  <2> QED
    BY <1>2, <2>1, QueuedIs, Zenon
<1> QED
  BY <1>3, <1>4, Zenon DEF h, t

\* The frame is written.
LEMMA FrameWritten ==
  ASSUME NEW d, NEW s, NEW g \in Seq(Nat), NEW w \in Wrappers, NEW q,
         Mine(w, s), QueueOrder(d, s, g, w, q)
  PROVE  /\ QueueOrder(d, s, g \o w.items, None, q)
         /\ Queued(s, g \o w.items, None, q) = Queued(s, g, w, q)
         /\ Reached(g \o w.items) = Reached(g) \cup Carried(w, s)
<1>1. w.items \in Seq(Nat)
  BY DEF Wrappers
<1> DEFINE b == w.items
           c == g \o b
<1>2. Carried(w, s) = {b[i] : i \in 1..Len(b)} /\ Carried(None, s) = {}
  BY Zenon DEF Carried, Mine
<1> HIDE DEF b
<1>3. /\ Len(c) = Len(g) + Len(b) /\ Len(g) \in Nat /\ Len(b) \in Nat
      /\ \A i \in 1..Len(g) : c[i] = g[i]
      /\ \A i \in 1..Len(b) : c[Len(g) + i] = b[i]
  BY <1>1 DEF b
<1> HIDE DEF c
<1>4. /\ \A i \in 1..Len(g) : i \in 1..Len(c)
      /\ \A i \in 1..Len(b) : Len(g) + i \in 1..Len(c)
      /\ \A i \in 1..Len(c) : i \in 1..Len(g) \/ \E j \in 1..Len(b) : i = Len(g) + j
  <2>1. \A i \in 1..Len(c) : i \in 1..Len(g) \/ (i - Len(g) \in 1..Len(b) /\ i = Len(g) + (i - Len(g)))
    BY <1>3
  <2>2. /\ \A i \in 1..Len(g) : i \in 1..Len(c)
        /\ \A i \in 1..Len(b) : Len(g) + i \in 1..Len(c)
    BY <1>3
  <2> QED
    BY <2>1, <2>2, Zenon
<1>5. Reached(c) = Reached(g) \cup Carried(w, s)
  <2>1. \A x : x \in Reached(c) <=> x \in Reached(g) \/ \E i \in 1..Len(b) : x = b[i]
    <3>1. ASSUME NEW i \in 1..Len(c)
          PROVE  c[i] \in Reached(g) \/ \E j \in 1..Len(b) : c[i] = b[j]
      BY <1>3, <1>4, Zenon DEF Reached
    <3>2. \A i \in 1..Len(g) : g[i] \in Reached(c)
      BY <1>3, <1>4, Zenon DEF Reached
    <3>3. \A i \in 1..Len(b) : b[i] \in Reached(c)
      BY <1>3, <1>4, Zenon DEF Reached
    <3> QED
      BY <3>1, <3>2, <3>3, Zenon DEF Reached
  <2> QED
    BY <1>2, <2>1, Zenon
<1>6. QueueOrder(d, s, c, None, q)
  BY <1>2, <1>5, Zenon DEF QueueOrder, Apart
<1>7. Queued(s, c, None, q) = Queued(s, g, w, q)
  BY <1>2, <1>5, Zenon DEF Queued
<1> QED
  BY <1>5, <1>6, <1>7, Zenon DEF b, c

\* The frame is lost.
LEMMA FrameLost ==
  ASSUME NEW d, NEW s, NEW g, NEW w, NEW q, QueueOrder(d, s, g, w, q)
  PROVE  /\ QueueOrder(d, s, g, None, q)
         /\ Queued(s, g, None, q) \subseteq Queued(s, g, w, q)
<1>1. Carried(None, s) = {}
  BY Zenon DEF Carried, Mine
<1> QED
  BY <1>1, Zenon DEF QueueOrder, Queued, Apart

-----------------------------------------------------------------------------
(* The inductive invariant.                                                *)

Subscriptions ==
  {[topic |-> m.topic, filter |-> ParseFilter(m.topic, m.params), token |-> m.token] :
     m \in {x \in Messages : x.event = "subscribe"}}

TypeInv ==
  /\ log \in Seq(Events) /\ all \in Seq(Subscriptions)
  /\ batch \in Seq(Nat) /\ outgoing \in Seq(Nat)
  /\ received \in Nat /\ received <= MaxMessages
  /\ nextID = Len(all) + 1 /\ Len(all) <= received
  /\ send \in Seq(Wrappers) /\ pending \in [Ids -> Wrappers \cup {None}]
  /\ frame \in Wrappers \cup {None} /\ held \in Wrappers \cup {None}
  /\ drops \in [0..MaxMessages -> Nat]
  /\ made \in [Ids -> Nat] /\ written \in [Ids -> Nat]
  /\ newest \in [Ids -> Seq(Nat)] /\ got \in [Ids -> Seq(Nat)]

(* What each goroutine has in hand in each of its states.                  *)
HandInv ==
  /\ disp = "collect" => outgoing = <<>> /\ DOMAIN targets = {}
  /\ disp # "collect" => batch = <<>>
  /\ disp = "store" <=> held # None
  /\ writer = "write" <=> frame # None
  /\ reader = "reply" => reply \in Wrappers /\ reply.event # "message"

Allowed(x) ==
  /\ AuthEnabled => <<x.token, "subscribe", x.topic>> \in Grants
  /\ x.topic = "collision_events" => CollisionsEnabled

(* Subscriptions in use are those that were made, which were allowed, and  *)
(* nothing is known of one that is still to come.                          *)
SubsInv ==
  /\ \A s \in DOMAIN subs : s \in 1..Len(all) /\ subs[s] = all[s]
  /\ \A s \in DOMAIN targets : s \in 1..Len(all) /\ targets[s] = all[s]
  /\ \A s \in 1..Len(all) : Allowed(all[s])
  /\ \A s \in Ids : s > Len(all) =>
       /\ made[s] = 0 /\ written[s] = 0 /\ drops[s] = 0
       /\ newest[s] = <<>> /\ got[s] = <<>> /\ pending[s] = None

Emitted(b) == Rising(b) /\ \A i \in 1..Len(b) : b[i] \in 1..Len(log)

BatchInv == Emitted(batch) /\ Emitted(outgoing)

(* An event that a subscription selects.                                   *)
Asked(s, n) ==
  n \in 1..Len(log) /\ Selects(all[s].topic, all[s].filter, log[n].kind, log[n].item)

Sound(w) ==
  w.event = "message" =>
    /\ w.sub \in 1..Len(all)
    /\ w.items # <<>> /\ Rising(w.items)
    /\ \A i \in 1..Len(w.items) : Asked(w.sub, w.items[i])

(* A wrapper that is kept is one of a hot topic, the one in hand the       *)
(* newest of its subscription.                                             *)
KeptInv ==
  /\ \A s \in Ids : pending[s] # None =>
       pending[s].event = "message" /\ pending[s].sub = s /\ s \notin Discrete
  /\ held # None =>
       /\ held.event = "message" /\ held.sub \in Ids /\ held.sub \notin Discrete
       /\ held.items = newest[held.sub]

SoundInv ==
  /\ \A i \in 1..Len(send) : Sound(send[i])
  /\ \A s \in Ids : pending[s] # None => Sound(pending[s])
  /\ frame # None => Sound(frame)
  /\ held # None => Sound(held)
  /\ \A s \in Ids : \A i \in 1..Len(got[s]) : Asked(s, got[s][i])

Way(s) == Queued(s, got[s], frame, send)

(* The events of a subscription, along their way, are followed by those of *)
(* the batch being sent and of the next one.                               *)
Before(x, s) ==
  /\ x \in 1..Len(log)
  /\ \A i \in 1..Len(batch) : x < batch[i]
  /\ s \in DOMAIN targets => \A i \in 1..Len(outgoing) : x < outgoing[i]

OrderOf(s) ==
  /\ QueueOrder(s \in Discrete, s, got[s], frame, send)
  /\ Apart(s \in Discrete, Way(s), Carried(pending[s], s))
  /\ Apart(s \in Discrete, Way(s) \cup Carried(pending[s], s), Carried(held, s))
  /\ \A x \in Way(s) \cup Carried(pending[s], s) \cup Carried(held, s) : Before(x, s)

OrderInv == \A s \in Ids : OrderOf(s)

(* The newest wrapper of a subscription, if it is this one.                *)
Newest(w, s) == Mine(w, s) /\ w.items = newest[s]

NewestOf(s) ==
  newest[s] # <<>> =>
    \/ newest[s][1] \in Reached(got[s])
    \/ \E i \in 1..Len(send) : Newest(send[i], s)
    \/ Newest(frame, s) \/ Newest(pending[s], s) \/ Newest(held, s)

NewestInv == conn = "open" => \A s \in (1..Len(all)) \ Discrete : NewestOf(s)

Inv ==
  /\ TypeInv /\ HandInv /\ SubsInv /\ BatchInv /\ KeptInv /\ SoundInv /\ OrderInv
  /\ EdgesAccounted /\ NewestInv

-----------------------------------------------------------------------------
(* The beginning, and steps that move no event.                            *)

\* Nothing is carried by no wrapper.
LEMMA NothingCarried == \A s : Carried(None, s) = {}
BY Zenon DEF Carried, Mine

\* The invariant holds at the beginning.
LEMMA Initially == Init => Inv
<1> SUFFICES ASSUME Init PROVE Inv
  OBVIOUS
<1> USE DEF Init
<1>1. MaxMessages \in Nat
  BY WsAssumption
<1>2. TypeInv
  BY <1>1 DEF TypeInv, Ids
<1>3. HandInv
  BY DEF HandInv
<1>4. Len(all) = 0 /\ Len(send) = 0 /\ 1..0 = {} /\ Len(<<>>) = 0
  OBVIOUS
<1>5. SubsInv
  <2>1. DOMAIN <<>> = {}
    OBVIOUS
  <2>2. \A s \in Ids : s \in 0..MaxMessages
    BY <1>1 DEF Ids
  <2>3. \A s \in Ids : /\ made[s] = 0 /\ written[s] = 0 /\ drops[s] = 0
                       /\ newest[s] = <<>> /\ got[s] = <<>> /\ pending[s] = None
    BY <2>2, Zenon
  <2> QED
    BY <1>4, <2>1, <2>3, Zenon DEF SubsInv
<1>6. BatchInv
  BY <1>4, Zenon DEF BatchInv, Emitted, Rising
<1>7. Discrete = {}
  BY <1>4, Zenon DEF Discrete
<1>8. KeptInv
  BY Zenon DEF KeptInv
<1>9. SoundInv
  BY <1>4, Zenon DEF SoundInv
<1>10. OrderInv
  <2> SUFFICES ASSUME NEW s \in Ids PROVE OrderOf(s)
    BY Zenon DEF OrderInv
  <2>1. Carried(frame, s) = {} /\ Carried(pending[s], s) = {} /\ Carried(held, s) = {}
    BY NothingCarried, Zenon
  <2>2. Reached(got[s]) = {}
    BY <1>4, Zenon DEF Reached
  <2>3. Way(s) = {}
    BY <1>4, <2>1, <2>2, Zenon DEF Way, Queued
  <2>4. QueueOrder(s \in Discrete, s, got[s], frame, send)
    BY <1>4, <2>1, Zenon DEF QueueOrder, Apart
  <2> QED
    BY <2>1, <2>3, <2>4, Zenon DEF OrderOf, Apart
<1>11. EdgesAccounted
  BY <1>7, Zenon DEF EdgesAccounted
<1>12. NewestInv
  BY <1>4, Zenon DEF NewestInv
<1> QED
  BY <1>2, <1>3, <1>5, <1>6, <1>8, <1>9, <1>10, <1>11, <1>12, Zenon DEF Inv

\* The names of the invariant's parts, for the proofs below.
LEMMA Parts ==
  ASSUME Inv
  PROVE  /\ TypeInv /\ HandInv /\ SubsInv /\ BatchInv /\ KeptInv /\ SoundInv /\ OrderInv
         /\ EdgesAccounted /\ NewestInv
         /\ send \in Seq(Wrappers)
         /\ \A s \in Ids : OrderOf(s)
BY Zenon DEF Inv, TypeInv, OrderInv

\* The subscriptions made have identifiers, of which there are enough.
LEMMA Bounds ==
  ASSUME Inv
  PROVE  /\ all \in Seq(Subscriptions) /\ Len(all) \in Nat /\ Len(all) <= received
         /\ received \in Nat /\ received <= MaxMessages /\ MaxMessages \in Nat
         /\ \A s \in 1..Len(all) : s \in Ids /\ ~(s > Len(all))
         /\ \A s \in Ids : s \in 0..MaxMessages /\ (s > Len(all) \/ s \in 1..Len(all))
         /\ Discrete \subseteq 1..Len(all) /\ Discrete \subseteq Ids
<1>1. /\ all \in Seq(Subscriptions) /\ Len(all) <= received
      /\ received \in Nat /\ received <= MaxMessages /\ MaxMessages \in Nat
  BY Parts, WsAssumption, Zenon DEF TypeInv
<1>2. Len(all) \in Nat
  BY <1>1
<1>3. /\ \A s \in 1..Len(all) : s \in 1..MaxMessages /\ ~(s > Len(all))
      /\ \A s \in 1..MaxMessages : s \in 0..MaxMessages /\ (s > Len(all) \/ s \in 1..Len(all))
  BY <1>1, <1>2
<1>4. Discrete \subseteq 1..Len(all)
  BY Zenon DEF Discrete
<1> QED
  BY <1>1, <1>2, <1>3, <1>4, Zenon DEF Ids

\* What is known of a subscription and of a wrapper depends on the events and
\* on the subscriptions made.
LEMMA SameKnown ==
  ASSUME log' = log, all' = all
  PROVE  /\ Discrete' = Discrete
         /\ \A w : Sound(w)' <=> Sound(w)
         /\ \A s, n : Asked(s, n)' <=> Asked(s, n)
<1>1. Discrete' = Discrete
  BY Zenon DEF Discrete
<1>2. \A s, n : Asked(s, n)' <=> Asked(s, n)
  BY Zenon DEF Asked
<1>3. \A w : Sound(w)' <=> Sound(w)
  BY <1>2, Zenon DEF Sound
<1> QED
  BY <1>1, <1>2, <1>3, Zenon

\* The loops come and go, the connection is closed, a subscription is removed,
\* a payload is handed on.
LEMMA NeutralStep ==
  ASSUME Inv, UNCHANGED <<dispatcher, nextID, all, send, pending, frame, written, got, drops>>,
         received' \in Nat, received <= received', received' <= MaxMessages,
         \A s \in DOMAIN subs' : s \in DOMAIN subs /\ subs'[s] = subs[s],
         conn' = "open" => conn = "open",
         writer' = "write" <=> writer = "write",
         reader' = "reply" => reply' \in Wrappers /\ reply'.event # "message"
  PROVE  Inv'
<1>1. /\ TypeInv /\ HandInv /\ SubsInv /\ BatchInv /\ KeptInv /\ SoundInv /\ OrderInv
      /\ EdgesAccounted /\ NewestInv
  BY Parts, Zenon
<1>2. UNCHANGED <<log, batch, timer, disp, outgoing, targets, held, made, newest>>
  BY Zenon DEF dispatcher
<1>3. /\ Discrete' = Discrete
      /\ \A w : Sound(w)' <=> Sound(w)
      /\ \A s, n : Asked(s, n)' <=> Asked(s, n)
  BY <1>2, SameKnown, Zenon
<1>4. TypeInv'
  <2>1. Len(all) <= received /\ received \in Nat /\ all \in Seq(Subscriptions)
    BY <1>1, Zenon DEF TypeInv
  <2>2. Len(all) <= received'
    BY <2>1
  <2> QED
    BY <1>1, <1>2, <2>2, Zenon DEF TypeInv
<1>5. HandInv'
  BY <1>1, <1>2, Zenon DEF HandInv
<1>6. SubsInv'
  BY <1>1, <1>2, Zenon DEF SubsInv
<1>7. BatchInv'
  BY <1>1, <1>2, Zenon DEF BatchInv, Emitted
<1>8. KeptInv'
  BY <1>1, <1>2, <1>3, Zenon DEF KeptInv
<1>9. SoundInv'
  BY <1>1, <1>2, <1>3, Zenon DEF SoundInv
<1>10. OrderInv'
  <2> SUFFICES ASSUME NEW s \in Ids PROVE OrderOf(s)'
    BY Zenon DEF OrderInv
  <2>1. OrderOf(s) /\ Way(s)' = Way(s)
    BY <1>1, Zenon DEF OrderInv, Way
  <2>2. \A x : Before(x, s)' <=> Before(x, s)
    BY <1>2, Zenon DEF Before
  <2> QED
    BY <1>2, <1>3, <2>1, <2>2, Zenon DEF OrderOf
<1>11. EdgesAccounted'
  <2>1. \A s : InFlight(s)' = InFlight(s)
    BY Zenon DEF InFlight
  <2> QED
    BY <1>1, <1>2, <1>3, <2>1, Zenon DEF EdgesAccounted
<1>12. NewestInv'
  <2>1. \A s : NewestOf(s)' <=> NewestOf(s)
    BY <1>2, Zenon DEF NewestOf, Newest
  <2> QED
    BY <1>1, <1>3, <2>1, Zenon DEF NewestInv
<1> QED
  BY <1>4, <1>5, <1>6, <1>7, <1>8, <1>9, <1>10, <1>11, <1>12, Zenon DEF Inv

\* The loops come and go and the connection is closed.
LEMMA ControlStep ==
  ASSUME Inv, UNCHANGED <<dispatcher, nextID, all, send, pending, frame, written, got, drops>>,
         UNCHANGED <<received, subs>>,
         conn' = "open" => conn = "open",
         writer' = "write" <=> writer = "write",
         reader' = "reply" => reader = "reply" /\ reply' = reply
  PROVE  Inv'
<1>1. TypeInv /\ HandInv
  BY Parts, Zenon
<1>2. received \in Nat /\ received <= MaxMessages /\ received' = received
  BY <1>1, Zenon DEF TypeInv
<1>3. received' \in Nat /\ received <= received' /\ received' <= MaxMessages
  BY <1>2
<1>4. \A s \in DOMAIN subs' : s \in DOMAIN subs /\ subs'[s] = subs[s]
  BY Zenon
<1>5. reader' = "reply" => reply' \in Wrappers /\ reply'.event # "message"
  BY <1>1, Zenon DEF HandInv
<1> QED
  BY <1>3, <1>4, <1>5, NeutralStep, Zenon

-----------------------------------------------------------------------------
(* The steps of the read loop.                                             *)

\* What is known of an event and of a wrapper does not depend on what comes
\* after them.
LEMMA Remains ==
  ASSUME TypeInv, log' = log \/ \E e : log' = Append(log, e),
         all' = all \/ \E x : all' = Append(all, x)
  PROVE  /\ \A s \in 1..Len(all) : s \in 1..Len(all') /\ all'[s] = all[s]
         /\ \A n \in 1..Len(log) : n \in 1..Len(log') /\ log'[n] = log[n]
         /\ \A s \in 1..Len(all) : \A n : Asked(s, n) => Asked(s, n)'
         /\ \A w : Sound(w) => Sound(w)'
<1>1. log \in Seq(Events) /\ all \in Seq(Subscriptions)
  BY Zenon DEF TypeInv
<1>2. \A s \in 1..Len(all) : s \in 1..Len(all') /\ all'[s] = all[s]
  BY <1>1
<1>3. \A n \in 1..Len(log) : n \in 1..Len(log') /\ log'[n] = log[n]
  BY <1>1
<1>4. \A s \in 1..Len(all) : \A n : Asked(s, n) => Asked(s, n)'
  BY <1>2, <1>3, Zenon DEF Asked
<1>5. \A w : Sound(w) => Sound(w)'
  BY <1>2, <1>4, Zenon DEF Sound
<1> QED
  BY <1>2, <1>3, <1>4, <1>5, Zenon

\* A subscription is made.
LEMMA SubscribeStep ==
  ASSUME Inv, NEW m \in Messages, received < MaxMessages, received' = received + 1,
         HandleSubscribe(m), UNCHANGED <<dispatcher, pending, writing, conn, lost>>
  PROVE  Inv'
<1> DEFINE new == [topic |-> m.topic, filter |-> ParseFilter(m.topic, m.params), token |-> m.token]
           n == Len(all) + 1
<1>1. /\ UNCHANGED <<dispatcher, pending, writing, conn, send, drops>>
      /\ nextID = n /\ nextID' = nextID + 1 /\ all' = Append(all, new)
      /\ subs' = [s \in DOMAIN subs \cup {nextID} |-> IF s = nextID THEN new ELSE subs[s]]
      /\ reply' = Control("subscribed", nextID) /\ reader' = "reply"
      /\ ~SubscribeFails(m)
      /\ TypeInv /\ HandInv /\ SubsInv /\ BatchInv /\ KeptInv /\ SoundInv /\ OrderInv
      /\ EdgesAccounted /\ NewestInv
  BY Zenon DEF HandleSubscribe, Inv, TypeInv
<1>2. new \in Subscriptions
  <2>1. m.event = "subscribe"
    BY Zenon DEF HandleSubscribe
  <2> QED
    BY <2>1, Zenon DEF Subscriptions
<1> HIDE DEF new
<1>3. /\ all \in Seq(Subscriptions) /\ all' \in Seq(Subscriptions) /\ n \in Ids
      /\ Len(all') = n /\ all'[n] = new /\ n > Len(all) /\ n \notin 1..Len(all)
      /\ \A s \in 1..Len(all) : s \in 1..Len(all') /\ all'[s] = all[s]
      /\ \A s \in 1..Len(all') : s = n \/ s \in 1..Len(all)
      /\ \A s \in Ids : s > Len(all') => s > Len(all)
      /\ \A s \in Ids : s # n => (s \in 1..Len(all') <=> s \in 1..Len(all))
      /\ 1..Len(all') \subseteq Ids
  <2>1. all \in Seq(Subscriptions) /\ Len(all) < MaxMessages /\ MaxMessages \in Nat /\ Len(all) \in Nat
    <3>1. /\ all \in Seq(Subscriptions) /\ Len(all) \in Nat /\ Len(all) <= received
          /\ received \in Nat /\ MaxMessages \in Nat
      BY Bounds, Zenon
    <3> QED
      BY <3>1
  <2>2. /\ all' \in Seq(Subscriptions) /\ Len(all') = n /\ all'[n] = new
        /\ \A s \in 1..Len(all) : all'[s] = all[s]
    BY <1>1, <1>2, <2>1
  <2> QED
    BY <2>1, <2>2 DEF Ids
<1>4. TypeInv'
  <2>1. received' \in Nat /\ received' <= MaxMessages /\ Len(all') <= received'
    <3>1. Len(all) <= received /\ received \in Nat /\ Len(all) \in Nat /\ MaxMessages \in Nat
      BY Bounds, Zenon
    <3> QED
      BY <1>3, <3>1
  <2>2. nextID' = Len(all') + 1
    BY <1>1, <1>3, Zenon
  <2> QED
    BY <1>1, <1>3, <2>1, <2>2, Zenon DEF TypeInv, dispatcher, writing
<1>5. HandInv'
  <2>1. Control("subscribed", n) \in Wrappers /\ Control("subscribed", n).event # "message"
    <3>1. n \in 0..MaxMessages /\ <<>> \in Seq(Nat)
      BY <1>3, WsAssumption DEF Ids
    <3> QED
      BY <3>1 DEF Control, Wrappers
  <2> QED
    BY <1>1, <2>1, Zenon DEF HandInv, dispatcher, writing
<1>6. SubsInv'
  <2>1. new.topic = m.topic /\ new.token = m.token
    BY Zenon DEF new
  <2>2. Allowed(new)
    BY <1>1, <2>1, Zenon DEF Allowed, SubscribeFails, Authenticated
  <2>3. \A s \in DOMAIN subs' : s \in 1..Len(all') /\ subs'[s] = all'[s]
    <3>1. \A s \in DOMAIN subs' : s = n \/ s \in DOMAIN subs
      BY <1>1, Zenon
    <3>2. n \in 1..Len(all')
      BY <1>3 DEF Ids
    <3>3. subs'[n] = new
      BY <1>1, Zenon
    <3>4. \A s \in DOMAIN subs : s \in 1..Len(all) /\ s # n /\ subs'[s] = subs[s]
      BY <1>1, <1>3, Zenon DEF SubsInv
    <3> QED
      BY <1>1, <1>3, <3>1, <3>2, <3>3, <3>4, Zenon DEF SubsInv
  <2>4. \A s \in DOMAIN targets' : s \in 1..Len(all') /\ targets'[s] = all'[s]
    BY <1>1, <1>3, Zenon DEF SubsInv, dispatcher
  <2>5. \A s \in 1..Len(all') : Allowed(all'[s])
    BY <1>1, <1>3, <2>2, Zenon DEF SubsInv
  <2>6. \A s \in Ids : s > Len(all') =>
          /\ made'[s] = 0 /\ written'[s] = 0 /\ drops'[s] = 0
          /\ newest'[s] = <<>> /\ got'[s] = <<>> /\ pending'[s] = None
    BY <1>1, <1>3, Zenon DEF SubsInv, dispatcher, writing
  <2> QED
    BY <2>3, <2>4, <2>5, <2>6, Zenon DEF SubsInv, Allowed
<1>7. BatchInv'
  BY <1>1, Zenon DEF BatchInv, Emitted, dispatcher
<1>8. /\ \A s \in Ids : s # n => (s \in Discrete' <=> s \in Discrete)
      /\ \A s \in Ids : s # n => (s \in Discrete)' = (s \in Discrete)
  <2>1. \A s \in Ids : s # n => (s \in Discrete' <=> s \in Discrete)
    BY <1>3, Zenon DEF Discrete
  <2> QED
    BY <2>1
<1>9. /\ made[n] = 0 /\ written[n] = 0 /\ drops[n] = 0
      /\ newest[n] = <<>> /\ got[n] = <<>> /\ pending[n] = None
  BY <1>1, <1>3, Zenon DEF SubsInv
<1>10. /\ \A w : Sound(w) => Sound(w)' /\ (w.event = "message" => w.sub # n)
       /\ \A s \in 1..Len(all) : \A x : Asked(s, x) => Asked(s, x)'
  <2>1. \A w : Sound(w) => (w.event = "message" => w.sub # n)
    BY <1>3, Zenon DEF Sound
  <2> QED
    BY <1>1, <2>1, Remains, Zenon DEF dispatcher
<1>11. SoundInv'
  <2>1. ASSUME NEW s \in Ids, NEW i \in 1..Len(got[s]) PROVE Asked(s, got[s][i])'
    <3>1. s \in 1..Len(all)
      <4>1. CASE s > Len(all)
        <5>1. got[s] = <<>>
          BY <1>1, <4>1, Zenon DEF SubsInv
        <5> QED
          BY <5>1
      <4>2. CASE ~(s > Len(all))
        BY <4>2, Bounds, Zenon
      <4> QED
        BY <4>1, <4>2
    <3>2. Asked(s, got[s][i])
      BY <1>1, Zenon DEF SoundInv
    <3> QED
      BY <1>1, <1>10, <3>1, <3>2, Zenon DEF writing, Asked
  <2> QED
    BY <1>1, <1>10, <2>1, Zenon DEF SoundInv, dispatcher, writing
<1>12. KeptInv'
  BY <1>1, <1>8, <1>9, <1>10, Zenon DEF KeptInv, SoundInv, dispatcher
<1>13. Reached(got[n]) = {} /\ \A w : Sound(w) => ~Mine(w, n)
  <2>1. 1..Len(<<>>) = {}
    OBVIOUS
  <2> QED
    BY <1>9, <1>10, <2>1, Zenon DEF Reached, Mine
<1>14. OrderInv'
  <2> SUFFICES ASSUME NEW s \in Ids PROVE OrderOf(s)'
    BY Zenon DEF OrderInv
  <2>1. CASE s # n
    <3>1. OrderOf(s) /\ (s \in Discrete)' = (s \in Discrete)
      BY <1>1, <1>8, <2>1, Zenon DEF OrderInv
    <3>2. Way(s)' = Way(s) /\ \A x : Before(x, s)' <=> Before(x, s)
      BY <1>1, Zenon DEF Way, Before, dispatcher, writing
    <3> QED
      BY <1>1, <3>1, <3>2, Zenon DEF OrderOf, dispatcher, writing
  <2>2. CASE s = n
    <3>1. /\ \A i \in 1..Len(send) : Carried(send[i], n) = {}
          /\ Carried(frame, n) = {} /\ Carried(pending[n], n) = {} /\ Carried(held, n) = {}
      BY <1>1, <1>9, <1>13, NothingCarried, Zenon DEF Carried, SoundInv
    <3>2. Way(n) = {}
      BY <1>13, <3>1, Zenon DEF Way, Queued
    <3>3. \A d : QueueOrder(d, n, got[n], frame, send)
      BY <1>13, <3>1, Zenon DEF QueueOrder, Apart
    <3> QED
      BY <1>1, <2>2, <3>1, <3>2, <3>3, Zenon DEF OrderOf, Way, Apart, dispatcher, writing
  <2> QED
    BY <2>1, <2>2, Zenon
<1>15. \A s : InFlight(s)' = InFlight(s)
  BY <1>1, Zenon DEF InFlight, writing
<1>16. EdgesAccounted'
  <2> SUFFICES ASSUME conn = "open", NEW s \in Discrete'
               PROVE  made[s] = written[s] + Cardinality(InFlight(s)) + drops[s]
    BY <1>1, <1>15, Zenon DEF EdgesAccounted, dispatcher, writing
  <2>1. CASE s # n
    BY <1>1, <1>3, <1>8, <2>1, Zenon DEF EdgesAccounted, Discrete
  <2>2. CASE s = n
    <3>1. InFlight(n) = {}
      <4>1. \A i \in 1..Len(send) : ~(send[i].event = "message" /\ send[i].sub = n)
        BY <1>1, <1>10, Zenon DEF SoundInv
      <4>2. ~(frame # None /\ frame.event = "message" /\ frame.sub = n)
        BY <1>1, <1>10, Zenon DEF SoundInv
      <4> QED
        BY <4>1, <4>2, Zenon DEF InFlight
    <3>2. Cardinality({}) = 0
      BY FS_EmptySet
    <3>3. made[s] = 0 /\ written[s] = 0 /\ drops[s] = 0 /\ Cardinality(InFlight(s)) = 0
      BY <1>9, <2>2, <3>1, <3>2, Zenon
    <3> QED
      BY <3>3
  <2> QED
    BY <2>1, <2>2, Zenon
<1>17. NewestInv'
  <2> SUFFICES ASSUME conn = "open", NEW s \in (1..Len(all')) \ Discrete' PROVE NewestOf(s)'
    BY <1>1, Zenon DEF NewestInv
  <2>1. CASE s # n
    BY <1>1, <1>3, <1>8, <2>1, Zenon DEF NewestInv, NewestOf, Newest, dispatcher, writing
  <2>2. CASE s = n
    BY <1>1, <1>9, <2>2, Zenon DEF NewestOf, dispatcher
  <2> QED
    BY <2>1, <2>2
<1> QED
  BY <1>4, <1>5, <1>6, <1>7, <1>11, <1>12, <1>14, <1>16, <1>17, Zenon DEF Inv

-----------------------------------------------------------------------------
(* Counting the wrappers of a subscription between sendWrapper and the     *)
(* socket.                                                                 *)

Waiting(s, f, q) ==
  {i \in 1..Len(q) : q[i].event = "message" /\ q[i].sub = s}
    \cup (IF f # None /\ f.event = "message" /\ f.sub = s THEN {0} ELSE {})

\* InFlight counts them, now and after a step.
LEMMA InFlightIs == \A s : InFlight(s) = Waiting(s, frame, send)
                           /\ InFlight(s)' = Waiting(s, frame', send')
BY Zenon DEF InFlight, Waiting

\* There are finitely many.
LEMMA WaitingFinite ==
  ASSUME NEW s, NEW f, NEW q \in Seq(Wrappers)
  PROVE  IsFiniteSet(Waiting(s, f, q)) /\ Cardinality(Waiting(s, f, q)) \in Nat
<1>1. Len(q) \in Nat /\ 0 \in 0..Len(q) /\ \A i \in 1..Len(q) : i \in 0..Len(q)
  OBVIOUS
<1>2. Waiting(s, f, q) \in SUBSET (0..Len(q))
  BY <1>1, Zenon DEF Waiting
<1>3. IsFiniteSet(0..Len(q))
  BY <1>1, FS_Interval
<1>4. IsFiniteSet(Waiting(s, f, q))
  BY <1>2, <1>3, FS_Subset, Zenon
<1> QED
  BY <1>4, FS_CardinalityType, Zenon

\* A wrapper is queued.
LEMMA CountQueued ==
  ASSUME NEW s, NEW f, NEW q \in Seq(Wrappers), NEW w \in Wrappers
  PROVE  Cardinality(Waiting(s, f, Append(q, w))) =
           Cardinality(Waiting(s, f, q)) + (IF w.event = "message" /\ w.sub = s THEN 1 ELSE 0)
<1> DEFINE r == Append(q, w)
           n == Len(q) + 1
           W == Waiting(s, f, q)
           V == Waiting(s, f, r)
<1>1. /\ Len(r) = n /\ r[n] = w /\ n \notin 0..Len(q) /\ n # 0 /\ n \in 1..n
      /\ \A i \in 1..Len(q) : r[i] = q[i] /\ i \in 1..n /\ i # n
      /\ \A i \in 1..n : i = n \/ i \in 1..Len(q)
  OBVIOUS
<1>2. n \notin W
  BY <1>1, Zenon DEF Waiting
<1>3. IsFiniteSet(W) /\ Cardinality(W) \in Nat
  BY WaitingFinite, Zenon
<1> HIDE DEF r, n
<1>4. CASE w.event = "message" /\ w.sub = s
  <2>1. V = W \cup {n}
    BY <1>1, <1>4, Zenon DEF Waiting
  <2>2. Cardinality(V) = Cardinality(W) + 1
    BY <1>2, <1>3, <2>1, FS_AddElement, Zenon
  <2> QED
    BY <1>4, <2>2 DEF r
<1>5. CASE ~(w.event = "message" /\ w.sub = s)
  <2>1. V = W
    BY <1>1, <1>5, Zenon DEF Waiting
  <2> QED
    BY <1>3, <1>5, <2>1 DEF r
<1> QED
  BY <1>4, <1>5, Zenon

\* The head of the buffer becomes the frame.
LEMMA CountTaken ==
  ASSUME NEW s, NEW q \in Seq(Wrappers), q # <<>>
  PROVE  Cardinality(Waiting(s, Head(q), Tail(q))) = Cardinality(Waiting(s, None, q))
<1> DEFINE h == Head(q)
           t == Tail(q)
           W == Waiting(s, None, q)
           V == Waiting(s, h, t)
           P(w) == w.event = "message" /\ w.sub = s
<1>1. /\ Len(q) \in Nat /\ 1 \in 1..Len(q) /\ h = q[1] /\ h \in Wrappers
      /\ Len(t) = Len(q) - 1 /\ \A i \in 1..Len(t) : t[i] = q[i + 1]
  OBVIOUS
<1>2. h # None
  BY <1>1, WsAssumption, Zenon
<1> HIDE DEF h, t
<1>3. W = {i \in 1..Len(q) : P(q[i])}
  BY Zenon DEF Waiting
<1>4. V = {i \in 1..Len(t) : P(t[i])} \cup (IF P(h) THEN {0} ELSE {})
  BY <1>2, Zenon DEF Waiting
<1> HIDE DEF W, V, P
<1>5. \A i \in 0..(Len(q) - 1) : i \in V <=> i + 1 \in W
  <2> SUFFICES ASSUME NEW i \in 0..(Len(q) - 1) PROVE i \in V <=> i + 1 \in W
    OBVIOUS
  <2>1. i + 1 \in 1..Len(q)
    BY <1>1
  <2>2. CASE i = 0
    <3>1. 0 \notin 1..Len(t) /\ 0 + 1 = 1
      OBVIOUS
    <3> QED
      BY <1>1, <1>3, <1>4, <2>2, <3>1, Zenon
  <2>3. CASE i # 0
    <3>1. i \in 1..Len(t)
      BY <1>1, <2>3
    <3> QED
      BY <1>1, <1>3, <1>4, <2>1, <2>3, <3>1, Zenon
  <2> QED
    BY <2>2, <2>3
<1>6. V \subseteq 0..(Len(q) - 1) /\ W \subseteq 1..Len(q)
  <2>1. \A i \in 1..Len(t) : i \in 0..(Len(q) - 1)
    BY <1>1
  <2>2. 0 \in 0..(Len(q) - 1)
    BY <1>1
  <2> QED
    BY <1>3, <1>4, <2>1, <2>2, Zenon
<1> DEFINE F == [i \in W |-> i - 1]
<1>7. F \in [W -> V]
  BY <1>1, <1>5, <1>6
<1>8. \A i, j \in W : F[i] = F[j] => i = j
  BY <1>6
<1>9. \A v \in V : \E i \in W : F[i] = v
  <2> TAKE v \in V
  <2>1. v + 1 \in W /\ (v + 1) - 1 = v
    BY <1>5, <1>6
  <2> QED
    BY <2>1, Zenon
<1>10. ExistsBijection(W, V)
  BY <1>7, <1>8, <1>9, Zenon DEF ExistsBijection, Bijection, Injection, Surjection, IsInjective
<1>11. IsFiniteSet(W)
  BY WaitingFinite, Zenon DEF W
<1> QED
  BY <1>10, <1>11, FS_Bijection, Zenon DEF V, W, h, t

\* The frame is written.
LEMMA CountWritten ==
  ASSUME NEW s, NEW f, NEW q \in Seq(Wrappers), f # None
  PROVE  Cardinality(Waiting(s, f, q)) =
           Cardinality(Waiting(s, None, q)) + (IF f.event = "message" /\ f.sub = s THEN 1 ELSE 0)
<1> DEFINE W == Waiting(s, None, q)
           V == Waiting(s, f, q)
<1>1. 0 \notin 1..Len(q)
  OBVIOUS
<1>2. 0 \notin W
  BY <1>1, Zenon DEF Waiting
<1>3. IsFiniteSet(W) /\ Cardinality(W) \in Nat
  BY WaitingFinite, Zenon
<1>4. CASE f.event = "message" /\ f.sub = s
  <2>1. V = W \cup {0}
    BY <1>4, Zenon DEF Waiting
  <2>2. Cardinality(V) = Cardinality(W) + 1
    BY <1>2, <1>3, <2>1, FS_AddElement, Zenon
  <2> QED
    BY <1>4, <2>2
<1>5. CASE ~(f.event = "message" /\ f.sub = s)
  <2>1. V = W
    BY <1>5, Zenon DEF Waiting
  <2> QED
    BY <1>3, <1>5, <2>1
<1> QED
  BY <1>4, <1>5, Zenon

-----------------------------------------------------------------------------
(* Steps that queue a wrapper.                                             *)

\* An acknowledgement or an error is sent, dropped, or too late.
LEMMA ControlSent ==
  ASSUME Inv, NEW w \in Wrappers, w.event # "message", SendControl(w),
         UNCHANGED <<dispatcher, subs, nextID, all, pending, writing, conn>>,
         received' \in Nat, received <= received', received' <= MaxMessages,
         reader' = "reply" => reply' \in Wrappers /\ reply'.event # "message"
  PROVE  Inv'
<1>1. /\ TypeInv /\ HandInv /\ SubsInv /\ BatchInv /\ KeptInv /\ SoundInv /\ OrderInv
      /\ EdgesAccounted /\ NewestInv /\ send \in Seq(Wrappers)
  BY Parts, Zenon
<1>2. /\ send' = send \/ send' = Append(send, w)
      /\ drops' = drops \/ drops' = [drops EXCEPT ![0] = drops[0] + 1]
  BY Zenon DEF SendControl
<1>3. /\ send' \in Seq(Wrappers)
      /\ \A i \in 1..Len(send') : \/ i \in 1..Len(send) /\ send'[i] = send[i]
                                  \/ send'[i] = w
      /\ \A i \in 1..Len(send) : i \in 1..Len(send') /\ send'[i] = send[i]
  BY <1>1, <1>2
<1>4. /\ drops' \in [0..MaxMessages -> Nat] /\ \A s \in Ids : drops'[s] = drops[s]
      /\ Ids \subseteq 0..MaxMessages /\ 0 \notin Ids
  <2>1. drops \in [0..MaxMessages -> Nat] /\ MaxMessages \in Nat
    BY <1>1, WsAssumption, Zenon DEF TypeInv
  <2>2. Ids \subseteq 0..MaxMessages /\ 0 \notin Ids /\ 0 \in 0..MaxMessages
    BY <2>1 DEF Ids
  <2>3. drops[0] + 1 \in Nat
    BY <2>1, <2>2
  <2> QED
    BY <1>2, <2>1, <2>2, <2>3, Zenon
<1>5. TypeInv'
  <2>1. Len(all) <= received'
    <3>1. Len(all) \in Nat /\ received \in Nat /\ Len(all) <= received
      BY Bounds, Zenon
    <3> QED
      BY <3>1
  <2> QED
    BY <1>1, <1>3, <1>4, <2>1, Zenon DEF TypeInv, dispatcher, writing
<1>6. HandInv'
  BY <1>1, Zenon DEF HandInv, dispatcher, writing
<1>7. SubsInv' /\ BatchInv'
  BY <1>1, <1>4, Zenon DEF SubsInv, BatchInv, Emitted, dispatcher, writing
<1>8. Discrete' = Discrete /\ KeptInv'
  BY <1>1, Zenon DEF Discrete, KeptInv, dispatcher
<1>9. SoundInv'
  <2>1. Sound(w)
    BY Zenon DEF Sound
  <2>2. UNCHANGED <<log, all, held, got, frame, pending>>
    BY Zenon DEF dispatcher, writing
  <2>3. (\A v : Sound(v)' <=> Sound(v)) /\ \A s, n : Asked(s, n)' <=> Asked(s, n)
    BY <2>2, SameKnown, Zenon
  <2> QED
    BY <1>1, <1>3, <2>1, <2>2, <2>3, Zenon DEF SoundInv
<1>10. \A s \in Ids : Cardinality(InFlight(s)') = Cardinality(InFlight(s))
  <2> TAKE s \in Ids
  <2>1. frame' = frame
    BY Zenon DEF writing
  <2>2. CASE send' = send
    BY <2>1, <2>2, InFlightIs, Zenon
  <2>3. CASE send' = Append(send, w)
    <3>1. Cardinality(Waiting(s, frame, Append(send, w))) = Cardinality(Waiting(s, frame, send)) + 0
      BY <1>1, CountQueued, Zenon
    <3>2. Cardinality(Waiting(s, frame, send)) \in Nat
      BY <1>1, WaitingFinite, Zenon
    <3>3. Cardinality(Waiting(s, frame, Append(send, w))) = Cardinality(Waiting(s, frame, send))
      BY <3>1, <3>2
    <3> QED
      BY <2>1, <2>3, <3>3, InFlightIs, Zenon
  <2> QED
    BY <1>2, <2>2, <2>3, Zenon
<1>11. OrderInv'
  <2> SUFFICES ASSUME NEW s \in Ids PROVE OrderOf(s)'
    BY Zenon DEF OrderInv
  <2>1. OrderOf(s)
    BY <1>1, Zenon DEF OrderInv
  <2>2. Carried(w, s) = {}
    BY Zenon DEF Carried, Mine
  <2>3. /\ QueueOrder(s \in Discrete, s, got[s], frame, send')
        /\ Queued(s, got[s], frame, send') = Queued(s, got[s], frame, send)
    <3>1. CASE send' = send
      BY <2>1, <3>1, Zenon DEF OrderOf
    <3>2. CASE send' = Append(send, w)
      <4>1. Apart(s \in Discrete, Queued(s, got[s], frame, send), Carried(w, s))
        BY <2>2, Zenon DEF Apart
      <4>2. QueueOrder(s \in Discrete, s, got[s], frame, send)
        BY <2>1, Zenon DEF OrderOf
      <4>3. /\ QueueOrder(s \in Discrete, s, got[s], frame, Append(send, w))
            /\ Queued(s, got[s], frame, Append(send, w)) =
                 Queued(s, got[s], frame, send) \cup Carried(w, s)
        <5> DEFINE d == s \in Discrete
        <5>1. send \in Seq(Wrappers) /\ Apart(d, Queued(s, got[s], frame, send), Carried(w, s))
              /\ QueueOrder(d, s, got[s], frame, send)
          BY <1>1, <4>1, <4>2, Zenon
        <5> HIDE DEF d
        <5>2. /\ QueueOrder(d, s, got[s], frame, Append(send, w))
              /\ Queued(s, got[s], frame, Append(send, w)) =
                   Queued(s, got[s], frame, send) \cup Carried(w, s)
          BY <5>1, Enqueued
        <5> QED
          BY <5>2, Zenon DEF d
      <4> QED
        BY <2>2, <3>2, <4>3, Zenon
    <3> QED
      BY <1>2, <3>1, <3>2, Zenon
  <2>4. Way(s)' = Way(s) /\ \A x : Before(x, s)' <=> Before(x, s)
    BY <2>3, Zenon DEF Way, Before, dispatcher, writing
  <2> QED
    BY <1>8, <2>1, <2>3, <2>4, Zenon DEF OrderOf, dispatcher, writing
<1>12. Discrete \subseteq Ids
  BY Bounds, Zenon
<1>13. EdgesAccounted'
  BY <1>1, <1>4, <1>8, <1>10, <1>12, Zenon DEF EdgesAccounted, dispatcher, writing
<1>14. NewestInv'
  <2>1. UNCHANGED <<all, newest, held, got, frame, pending>>
    BY Zenon DEF dispatcher, writing
  <2>2. \A s : NewestOf(s) => NewestOf(s)'
    BY <1>3, <2>1, Zenon DEF NewestOf, Newest
  <2> QED
    BY <1>1, <1>8, <2>1, <2>2, Zenon DEF NewestInv
<1> QED
  BY <1>5, <1>6, <1>7, <1>8, <1>9, <1>11, <1>13, <1>14, Zenon DEF Inv

\* The write loop takes the head of the buffer.
LEMMA TakeStep ==
  ASSUME Inv, Take
  PROVE  Inv'
<1>1. /\ TypeInv /\ HandInv /\ SubsInv /\ BatchInv /\ KeptInv /\ SoundInv /\ OrderInv
      /\ EdgesAccounted /\ NewestInv /\ send \in Seq(Wrappers)
  BY Parts, Zenon
<1>2. /\ writer = "select" /\ send # <<>> /\ frame' = Head(send) /\ send' = Tail(send)
      /\ writer' = "write"
      /\ UNCHANGED <<dispatcher, reading, pending, written, got, conn, lost, drops>>
  BY Zenon DEF Take
<1>3. frame = None
  BY <1>1, <1>2, Zenon DEF HandInv
<1>4. /\ 1 \in 1..Len(send) /\ frame' = send[1] /\ frame' \in Wrappers /\ send' \in Seq(Wrappers)
      /\ \A i \in 1..Len(send') : i + 1 \in 1..Len(send) /\ send'[i] = send[i + 1]
      /\ \A i \in 1..Len(send) : i = 1 \/ (i - 1 \in 1..Len(send') /\ send[i] = send'[i - 1])
  <2>1. /\ Len(send) \in Nat /\ Len(send) # 0 /\ Len(send') = Len(send) - 1
        /\ frame' = send[1] /\ frame' \in Wrappers /\ send' \in Seq(Wrappers)
        /\ \A i \in 1..Len(send') : send'[i] = send[i + 1]
    BY <1>1, <1>2
  <2>2. \A i \in 1..Len(send) : i = 1 \/ (i - 1 \in 1..Len(send') /\ send'[i - 1] = send[(i - 1) + 1])
    BY <2>1
  <2>3. \A i \in 1..Len(send) : (i - 1) + 1 = i
    OBVIOUS
  <2>4. 1 \in 1..Len(send) /\ \A i \in 1..Len(send') : i + 1 \in 1..Len(send)
    BY <2>1
  <2> QED
    BY <2>1, <2>2, <2>3, <2>4, Zenon
<1>5. frame' # None
  BY <1>4, WsAssumption, Zenon
<1>6. TypeInv'
  BY <1>1, <1>2, <1>4, Zenon DEF TypeInv, dispatcher, reading
<1>7. HandInv'
  BY <1>1, <1>2, <1>5, Zenon DEF HandInv, dispatcher, reading
<1>8. SubsInv' /\ BatchInv'
  BY <1>1, <1>2, Zenon DEF SubsInv, BatchInv, Emitted, dispatcher, reading
<1>9. Discrete' = Discrete /\ KeptInv'
  BY <1>1, <1>2, Zenon DEF Discrete, KeptInv, dispatcher, reading
<1>10. SoundInv'
  <2>1. UNCHANGED <<log, all, held, got, pending>>
    BY <1>2, Zenon DEF dispatcher, reading
  <2>2. (\A w : Sound(w)' <=> Sound(w)) /\ \A s, n : Asked(s, n)' <=> Asked(s, n)
    BY <2>1, SameKnown, Zenon
  <2> QED
    BY <1>1, <1>4, <2>1, <2>2, Zenon DEF SoundInv
<1>11. OrderInv'
  <2> SUFFICES ASSUME NEW s \in Ids PROVE OrderOf(s)'
    BY Zenon DEF OrderInv
  <2>1. OrderOf(s)
    BY <1>1, Zenon DEF OrderInv
  <2>2. QueueOrder(s \in Discrete, s, got[s], None, send)
    BY <1>3, <2>1, Zenon DEF OrderOf
  <2>3. /\ QueueOrder(s \in Discrete, s, got[s], Head(send), Tail(send))
        /\ Queued(s, got[s], Head(send), Tail(send)) = Queued(s, got[s], None, send)
    BY <1>1, <1>2, <2>2, HeadTaken, Zenon
  <2>4. Way(s)' = Way(s) /\ \A x : Before(x, s)' <=> Before(x, s)
    BY <1>2, <1>3, <2>3, Zenon DEF Way, Before, dispatcher, reading
  <2> QED
    BY <1>2, <1>9, <2>1, <2>3, <2>4, Zenon DEF OrderOf, dispatcher, reading
<1>12. \A s : Cardinality(InFlight(s)') = Cardinality(InFlight(s))
  BY <1>1, <1>2, <1>3, CountTaken, InFlightIs, Zenon
<1>13. EdgesAccounted'
  BY <1>1, <1>2, <1>9, <1>12, Zenon DEF EdgesAccounted, dispatcher, reading
<1>14. NewestInv'
  <2> SUFFICES ASSUME conn = "open", NEW s \in (1..Len(all)) \ Discrete PROVE NewestOf(s)'
    BY <1>2, <1>9, Zenon DEF NewestInv, reading
  <2>1. NewestOf(s)
    BY <1>1, Zenon DEF NewestInv
  <2>2. ~Newest(frame, s)
    BY <1>3, Zenon DEF Newest, Mine
  <2>3. /\ \A w : Newest(w, s)' <=> Newest(w, s)
        /\ newest' = newest /\ got' = got /\ pending' = pending /\ held' = held
    BY <1>2, Zenon DEF Newest, dispatcher
  <2>4. ASSUME NEW i \in 1..Len(send), Newest(send[i], s)
        PROVE  Newest(frame', s) \/ \E j \in 1..Len(send') : Newest(send'[j], s)
    BY <1>4, <2>4, Zenon
  <2> QED
    BY <2>1, <2>2, <2>3, <2>4, Zenon DEF NewestOf
<1> QED
  BY <1>6, <1>7, <1>8, <1>9, <1>10, <1>11, <1>13, <1>14, Zenon DEF Inv

\* A wrapper is queued behind the events of a subscription.
LEMMA QueuedBehind ==
  ASSUME NEW s, NEW w \in Wrappers, send \in Seq(Wrappers), OrderOf(s),
         Apart(s \in Discrete, Way(s), Carried(w, s))
  PROVE  /\ QueueOrder(s \in Discrete, s, got[s], frame, Append(send, w))
         /\ Queued(s, got[s], frame, Append(send, w)) = Way(s) \cup Carried(w, s)
<1> DEFINE d == s \in Discrete
<1>1. Apart(d, Queued(s, got[s], frame, send), Carried(w, s))
      /\ QueueOrder(d, s, got[s], frame, send)
  BY Zenon DEF OrderOf, Way
<1> HIDE DEF d
<1>2. /\ QueueOrder(d, s, got[s], frame, Append(send, w))
      /\ Queued(s, got[s], frame, Append(send, w)) =
           Queued(s, got[s], frame, send) \cup Carried(w, s)
  BY <1>1, Enqueued
<1> QED
  BY <1>2, Zenon DEF d, Way

\* What an appended sequence of wrappers is.
LEMMA Appended ==
  ASSUME NEW q \in Seq(Wrappers), NEW w \in Wrappers
  PROVE  /\ Append(q, w) \in Seq(Wrappers)
         /\ \A i \in 1..Len(Append(q, w)) : \/ i \in 1..Len(q) /\ Append(q, w)[i] = q[i]
                                            \/ Append(q, w)[i] = w
         /\ \A i \in 1..Len(q) : i \in 1..Len(Append(q, w)) /\ Append(q, w)[i] = q[i]
         /\ \E i \in 1..Len(Append(q, w)) : Append(q, w)[i] = w
<1> DEFINE r == Append(q, w)
           n == Len(q) + 1
<1>1. /\ r \in Seq(Wrappers) /\ Len(r) = n /\ r[n] = w /\ n \in 1..n
      /\ \A i \in 1..Len(q) : r[i] = q[i] /\ i \in 1..n
      /\ \A i \in 1..n : i = n \/ i \in 1..Len(q)
  OBVIOUS
<1> HIDE DEF r, n
<1> QED
  BY <1>1, Zenon DEF r

\* A pending wrapper is queued.
LEMMA FlushStep ==
  ASSUME Inv, NEW s \in Ids, Flush(s)
  PROVE  Inv'
<1> DEFINE w == pending[s]
<1>1. /\ TypeInv /\ HandInv /\ SubsInv /\ BatchInv /\ KeptInv /\ SoundInv /\ OrderInv
      /\ EdgesAccounted /\ NewestInv /\ send \in Seq(Wrappers)
  BY Parts, Zenon
<1>2. /\ w # None /\ send' = Append(send, w) /\ pending' = [pending EXCEPT ![s] = None]
      /\ UNCHANGED <<dispatcher, reading, writing, conn, lost, drops>>
  BY Zenon DEF Flush
<1>3. /\ w \in Wrappers /\ w.event = "message" /\ w.sub = s /\ s \notin Discrete /\ Sound(w)
  BY <1>1, <1>2, Zenon DEF TypeInv, KeptInv, SoundInv
<1>4. /\ pending' \in [Ids -> Wrappers \cup {None}] /\ pending'[s] = None
      /\ \A t \in Ids : t # s => pending'[t] = pending[t]
  BY <1>1, <1>2, Zenon DEF TypeInv
<1>5. /\ send' \in Seq(Wrappers)
      /\ \A i \in 1..Len(send') : \/ i \in 1..Len(send) /\ send'[i] = send[i]
                                  \/ send'[i] = w
      /\ \A i \in 1..Len(send) : i \in 1..Len(send') /\ send'[i] = send[i]
      /\ \E i \in 1..Len(send') : send'[i] = w
  <2> HIDE DEF w
  <2> DEFINE r == Append(send, w)
  <2>1. /\ r \in Seq(Wrappers)
        /\ \A i \in 1..Len(r) : (i \in 1..Len(send) /\ r[i] = send[i]) \/ r[i] = w
        /\ \A i \in 1..Len(send) : i \in 1..Len(r) /\ r[i] = send[i]
        /\ \E i \in 1..Len(r) : r[i] = w
    BY <1>1, <1>3, Appended, Zenon
  <2> QED
    BY <1>2, <2>1, Zenon
<1> HIDE DEF w
<1>6. TypeInv'
  BY <1>1, <1>2, <1>4, <1>5, Zenon DEF TypeInv, dispatcher, reading, writing
<1>7. HandInv'
  BY <1>1, <1>2, Zenon DEF HandInv, dispatcher, reading, writing
<1>8. SubsInv' /\ BatchInv'
  <2>1. SubsInv'
    BY <1>1, <1>2, <1>4, Zenon DEF SubsInv, dispatcher, reading, writing
  <2> QED
    BY <1>1, <1>2, <2>1, Zenon DEF BatchInv, Emitted, dispatcher
<1>9. Discrete' = Discrete
  BY <1>2, Zenon DEF Discrete, reading
<1>10. KeptInv'
  BY <1>1, <1>2, <1>4, <1>9, Zenon DEF KeptInv, dispatcher
<1>11. SoundInv'
  <2>1. UNCHANGED <<log, all, held, got, frame>>
    BY <1>2, Zenon DEF dispatcher, reading, writing
  <2>2. (\A v : Sound(v)' <=> Sound(v)) /\ \A t, n : Asked(t, n)' <=> Asked(t, n)
    BY <2>1, SameKnown, Zenon
  <2>3. \A i \in 1..Len(send') : Sound(send'[i])
    BY <1>1, <1>3, <1>5, Zenon DEF SoundInv
  <2>4. \A t \in Ids : pending'[t] # None => Sound(pending'[t])
    BY <1>1, <1>4, Zenon DEF SoundInv
  <2> QED
    BY <1>1, <2>1, <2>2, <2>3, <2>4, Zenon DEF SoundInv
<1>12. OrderInv'
  <2> SUFFICES ASSUME NEW t \in Ids PROVE OrderOf(t)'
    BY Zenon DEF OrderInv
  <2>1. OrderOf(t)
    BY <1>1, Zenon DEF OrderInv
  <2>2. \A x : Before(x, t)' <=> Before(x, t)
    BY <1>2, Zenon DEF Before, dispatcher
  <2>3. Apart(t \in Discrete, Way(t), Carried(w, t))
    <3>1. CASE t = s
      BY <2>1, <3>1, Zenon DEF OrderOf, w
    <3>2. CASE t # s
      <4>1. Carried(w, t) = {}
        BY <1>3, <3>2, Zenon DEF Carried, Mine
      <4> QED
        BY <4>1, Zenon DEF Apart
    <3> QED
      BY <3>1, <3>2, Zenon
  <2>4. /\ QueueOrder(t \in Discrete, t, got[t], frame, send')
        /\ Queued(t, got[t], frame, send') = Way(t) \cup Carried(w, t)
    BY <1>1, <1>2, <1>3, <2>1, <2>3, QueuedBehind, Zenon
  <2>5. Way(t)' = Way(t) \cup Carried(w, t)
    BY <1>2, <2>4, Zenon DEF Way, writing
  <2>6. /\ Carried(pending'[t], t) \cup Carried(w, t) = Carried(pending[t], t)
        /\ t = s => Carried(pending'[t], t) = {}
        /\ t # s => Carried(w, t) = {} /\ pending'[t] = pending[t]
    <3>1. CASE t = s
      BY <1>4, <3>1, NothingCarried, Zenon DEF w
    <3>2. CASE t # s
      <4>1. Carried(w, t) = {} /\ pending'[t] = pending[t]
        BY <1>3, <1>4, <3>2, Zenon DEF Carried, Mine
      <4> QED
        BY <3>2, <4>1, Zenon
    <3> QED
      BY <3>1, <3>2, Zenon
  <2>7. Apart(t \in Discrete, Way(t)', Carried(pending'[t], t))
    BY <2>1, <2>5, <2>6, Zenon DEF OrderOf, Apart
  <2>8. Way(t)' \cup Carried(pending'[t], t) = Way(t) \cup Carried(pending[t], t)
    BY <2>5, <2>6, Zenon
  <2>9. got' = got /\ frame' = frame /\ held' = held
    BY <1>2, Zenon DEF dispatcher, writing
  <2> QED
    BY <1>9, <2>1, <2>2, <2>4, <2>7, <2>8, <2>9, Zenon DEF OrderOf
<1>13. \A t \in Discrete : Cardinality(InFlight(t)') = Cardinality(InFlight(t))
  <2> TAKE t \in Discrete
  <2>1. t # s /\ frame' = frame
    BY <1>2, <1>3, Zenon DEF writing
  <2>2. Cardinality(Waiting(t, frame, Append(send, w))) = Cardinality(Waiting(t, frame, send)) + 0
    BY <1>1, <1>3, <2>1, CountQueued, Zenon
  <2>3. Cardinality(Waiting(t, frame, send)) \in Nat
    BY <1>1, WaitingFinite, Zenon
  <2>4. Cardinality(Waiting(t, frame, Append(send, w))) = Cardinality(Waiting(t, frame, send))
    BY <2>2, <2>3
  <2> QED
    BY <1>2, <2>1, <2>4, InFlightIs, Zenon
<1>14. EdgesAccounted'
  BY <1>1, <1>2, <1>9, <1>13, Zenon DEF EdgesAccounted, dispatcher, writing
<1>15. NewestInv'
  <2> SUFFICES ASSUME conn = "open", NEW t \in (1..Len(all)) \ Discrete PROVE NewestOf(t)'
    BY <1>2, <1>9, Zenon DEF NewestInv, reading
  <2>1. NewestOf(t)
    BY <1>1, Zenon DEF NewestInv
  <2>2. /\ \A v : Newest(v, t)' <=> Newest(v, t)
        /\ newest' = newest /\ got' = got /\ frame' = frame /\ held' = held
    BY <1>2, Zenon DEF Newest, dispatcher, writing
  <2>3. t \in Ids
    BY Bounds, Zenon
  <2>4. Newest(pending[t], t) => Newest(pending'[t], t) \/ \E i \in 1..Len(send') : Newest(send'[i], t)
    BY <1>4, <1>5, <2>3, Zenon DEF w
  <2> QED
    BY <1>5, <2>1, <2>2, <2>4, Zenon DEF NewestOf
<1> QED
  BY <1>6, <1>7, <1>8, <1>10, <1>11, <1>12, <1>14, <1>15, Zenon DEF Inv

-----------------------------------------------------------------------------
(* Steps that write a frame, or fail to.                                   *)

\* The frame is of no concern to a subscription.
LEMMA FrameForeign ==
  ASSUME NEW d, NEW s, NEW g, NEW w, NEW q, QueueOrder(d, s, g, w, q), ~Mine(w, s)
  PROVE  /\ QueueOrder(d, s, g, None, q)
         /\ Queued(s, g, None, q) = Queued(s, g, w, q)
<1>1. Carried(None, s) = {} /\ Carried(w, s) = {}
  BY NothingCarried, Zenon DEF Carried
<1> QED
  BY <1>1, Zenon DEF QueueOrder, Queued

\* The write of a frame fails, or a ping, and the connection is closed.
LEMMA WriteFailsStep ==
  ASSUME Inv, WriteFails
  PROVE  Inv'
<1>1. /\ TypeInv /\ HandInv /\ SubsInv /\ BatchInv /\ KeptInv /\ SoundInv /\ OrderInv
      /\ EdgesAccounted /\ NewestInv /\ send \in Seq(Wrappers)
  BY Parts, Zenon
<1>2. /\ conn' # "open" /\ writer' = "gone" /\ frame' = None
      /\ UNCHANGED <<dispatcher, reading, send, pending, written, got, lost, drops>>
  BY DEF WriteFails, Close
<1>3. TypeInv'
  BY <1>1, <1>2, Zenon DEF TypeInv, dispatcher, reading
<1>4. HandInv'
  BY <1>1, <1>2, Zenon DEF HandInv, dispatcher, reading
<1>5. SubsInv' /\ BatchInv'
  BY <1>1, <1>2, Zenon DEF SubsInv, BatchInv, Emitted, dispatcher, reading
<1>6. Discrete' = Discrete /\ KeptInv'
  BY <1>1, <1>2, Zenon DEF Discrete, KeptInv, dispatcher, reading
<1>7. SoundInv'
  <2>1. UNCHANGED <<log, all, held, got, send, pending>>
    BY <1>2, Zenon DEF dispatcher, reading
  <2>2. (\A w : Sound(w)' <=> Sound(w)) /\ \A s, n : Asked(s, n)' <=> Asked(s, n)
    BY <2>1, SameKnown, Zenon
  <2> QED
    BY <1>1, <1>2, <2>1, <2>2, Zenon DEF SoundInv
<1>8. OrderInv'
  <2> SUFFICES ASSUME NEW s \in Ids PROVE OrderOf(s)'
    BY Zenon DEF OrderInv
  <2>1. OrderOf(s)
    BY <1>1, Zenon DEF OrderInv
  <2>2. \A x : Before(x, s)' <=> Before(x, s)
    BY <1>2, Zenon DEF Before, dispatcher
  <2>3. QueueOrder(s \in Discrete, s, got[s], frame, send)
    BY <2>1, Zenon DEF OrderOf
  <2>4. /\ QueueOrder(s \in Discrete, s, got[s], None, send)
        /\ Queued(s, got[s], None, send) \subseteq Queued(s, got[s], frame, send)
    BY <2>3, FrameLost, Zenon
  <2>5. Way(s)' \subseteq Way(s)
    BY <1>2, <2>4, Zenon DEF Way
  <2>6. Apart(s \in Discrete, Way(s)', Carried(pending[s], s))
        /\ Apart(s \in Discrete, Way(s)' \cup Carried(pending[s], s), Carried(held, s))
    BY <2>1, <2>5, Zenon DEF OrderOf, Apart
  <2>7. \A x \in Way(s)' \cup Carried(pending[s], s) \cup Carried(held, s) : Before(x, s)
    BY <2>1, <2>5, Zenon DEF OrderOf
  <2>8. got' = got /\ frame' = None /\ send' = send /\ held' = held /\ pending' = pending
    BY <1>2, Zenon DEF dispatcher
  <2> QED
    BY <1>6, <2>2, <2>4, <2>6, <2>7, <2>8, Zenon DEF OrderOf
<1>9. EdgesAccounted' /\ NewestInv'
  BY <1>2, Zenon DEF EdgesAccounted, NewestInv
<1> QED
  BY <1>3, <1>4, <1>5, <1>6, <1>7, <1>8, <1>9, Zenon DEF Inv

\* A frame is written.
LEMMA WriteFrameStep ==
  ASSUME Inv, WriteFrame
  PROVE  Inv'
<1>1. /\ TypeInv /\ HandInv /\ SubsInv /\ BatchInv /\ KeptInv /\ SoundInv /\ OrderInv
      /\ EdgesAccounted /\ NewestInv /\ send \in Seq(Wrappers)
  BY Parts, Zenon
<1>2. /\ writer = "write" /\ writer' = "flush" /\ frame' = None
      /\ UNCHANGED <<dispatcher, reading, send, pending, conn, lost, drops>>
  BY Zenon DEF WriteFrame
<1>3. frame # None /\ frame \in Wrappers /\ Sound(frame)
  BY <1>1, <1>2, Zenon DEF HandInv, TypeInv, SoundInv
<1>4. 1..Len(all) \subseteq Ids /\ Discrete \subseteq 1..Len(all)
  BY Bounds, Zenon
<1> DEFINE f == frame
           c == f.sub
<1>5. frame.event = "message" => c \in 1..Len(all) /\ c \in Ids
  BY <1>3, <1>4, Zenon DEF Sound
<1>6. frame.items \in Seq(Nat)
  BY <1>3 DEF Wrappers
<1>7. /\ written' \in [Ids -> Nat] /\ got' \in [Ids -> Seq(Nat)]
      /\ \A s \in Ids : ~Mine(f, s) => written'[s] = written[s] /\ got'[s] = got[s]
      /\ \A s \in Ids : Mine(f, s) => written'[s] = written[s] + 1 /\ got'[s] = got[s] \o f.items
  <2>1. CASE frame.event = "message"
    <3>1. /\ written' = [written EXCEPT ![c] = written[c] + 1]
          /\ got' = [got EXCEPT ![c] = got[c] \o frame.items]
      BY <2>1, Zenon DEF WriteFrame
    <3>2. written \in [Ids -> Nat] /\ got \in [Ids -> Seq(Nat)]
      BY <1>1, Zenon DEF TypeInv
    <3>3. c \in Ids
      BY <1>5, <2>1, Zenon
    <3>4. got[c] \o frame.items \in Seq(Nat) /\ written[c] + 1 \in Nat
      BY <1>6, <3>2, <3>3
    <3>5. \A s : Mine(f, s) <=> s = c
      BY <1>3, <2>1, Zenon DEF Mine
    <3> HIDE DEF c
    <3> QED
      BY <3>1, <3>2, <3>3, <3>4, <3>5, Zenon
  <2>2. CASE frame.event # "message"
    <3>1. written' = written /\ got' = got
      BY <2>2, Zenon DEF WriteFrame
    <3>2. \A s : ~Mine(f, s)
      BY <2>2, Zenon DEF Mine
    <3> QED
      BY <1>1, <3>1, <3>2, Zenon DEF TypeInv
  <2> QED
    BY <2>1, <2>2, Zenon
<1>8. TypeInv'
  BY <1>1, <1>2, <1>7, Zenon DEF TypeInv, dispatcher, reading
<1>9. HandInv'
  BY <1>1, <1>2, Zenon DEF HandInv, dispatcher, reading
<1>10. \A s \in Ids : s > Len(all) => ~Mine(f, s)
  <2>1. \A s \in 1..Len(all) : ~(s > Len(all))
    BY Bounds, Zenon
  <2> QED
    BY <1>5, <2>1, Zenon DEF Mine
<1>11. SubsInv' /\ BatchInv'
  <2>1. SubsInv'
    BY <1>1, <1>2, <1>7, <1>10, Zenon DEF SubsInv, dispatcher, reading
  <2> QED
    BY <1>1, <1>2, <2>1, Zenon DEF BatchInv, Emitted, dispatcher
<1>12. Discrete' = Discrete /\ KeptInv'
  BY <1>1, <1>2, Zenon DEF Discrete, KeptInv, dispatcher, reading
<1>13. \A s \in Ids :
         /\ QueueOrder(s \in Discrete, s, got'[s], None, send)
         /\ Queued(s, got'[s], None, send) = Way(s)
         /\ Reached(got'[s]) = Reached(got[s]) \cup Carried(f, s)
  <2> TAKE s \in Ids
  <2> DEFINE d == s \in Discrete
             g == got[s]
  <2>1. QueueOrder(d, s, g, f, send) /\ g \in Seq(Nat) /\ Way(s) = Queued(s, g, f, send)
    BY <1>1, Zenon DEF OrderInv, OrderOf, TypeInv, Way
  <2> HIDE DEF d, g, f
  <2>2. CASE Mine(f, s)
    <3>1. /\ QueueOrder(d, s, g \o f.items, None, send)
          /\ Queued(s, g \o f.items, None, send) = Queued(s, g, f, send)
          /\ Reached(g \o f.items) = Reached(g) \cup Carried(f, s)
      <4>1. f \in Wrappers
        BY <1>3, Zenon DEF f
      <4> QED
        BY <2>1, <2>2, <4>1, FrameWritten
    <3>2. got'[s] = g \o f.items
      BY <1>7, <2>2, Zenon DEF g
    <3> QED
      BY <2>1, <3>1, <3>2, Zenon DEF d, g
  <2>3. CASE ~Mine(f, s)
    <3>1. /\ QueueOrder(d, s, g, None, send)
          /\ Queued(s, g, None, send) = Queued(s, g, f, send)
      BY <2>1, <2>3, FrameForeign
    <3>2. Carried(f, s) = {}
      BY <2>3, Zenon DEF Carried
    <3>3. got'[s] = g
      BY <1>7, <2>3, Zenon DEF g
    <3> QED
      BY <2>1, <3>1, <3>2, <3>3, Zenon DEF d, g
  <2> QED
    BY <2>2, <2>3, Zenon
<1>14. SoundInv'
  <2>1. \A w : (Sound(w)' <=> Sound(w)) /\ \A s, n : Asked(s, n)' <=> Asked(s, n)
    BY <1>2, SameKnown, Zenon DEF dispatcher, reading
  <2>2. ASSUME NEW s \in Ids, NEW i \in 1..Len(got'[s]) PROVE Asked(s, got'[s][i])
    <3>1. got'[s][i] \in Reached(got[s]) \cup Carried(f, s)
      BY <1>13, Zenon DEF Reached
    <3>2. \A x \in Reached(got[s]) : Asked(s, x)
      BY <1>1, Zenon DEF SoundInv, Reached
    <3>3. \A x \in Carried(f, s) : Asked(s, x)
      BY <1>3, Zenon DEF Carried, Mine, Sound
    <3> QED
      BY <3>1, <3>2, <3>3, Zenon
  <2> QED
    BY <1>1, <1>2, <2>1, <2>2, Zenon DEF SoundInv, dispatcher
<1>15. OrderInv'
  <2> SUFFICES ASSUME NEW s \in Ids PROVE OrderOf(s)'
    BY Zenon DEF OrderInv
  <2>1. OrderOf(s)
    BY <1>1, Zenon DEF OrderInv
  <2>2. Way(s)' = Way(s) /\ \A x : Before(x, s)' <=> Before(x, s)
    BY <1>2, <1>13, Zenon DEF Way, Before, dispatcher
  <2> QED
    BY <1>2, <1>12, <1>13, <2>1, <2>2, Zenon DEF OrderOf, dispatcher
<1>16. EdgesAccounted'
  <2> SUFFICES ASSUME conn = "open", NEW s \in Discrete
               PROVE  made[s] = written'[s] + Cardinality(InFlight(s)') + drops[s]
    BY <1>2, <1>12, Zenon DEF EdgesAccounted, dispatcher
  <2>1. /\ s \in Ids /\ made[s] \in Nat /\ written[s] \in Nat /\ drops[s] \in Nat
    <3>1. s \in Ids /\ s \in 0..MaxMessages
      BY Bounds, Zenon
    <3> QED
      BY <1>1, <3>1, Zenon DEF TypeInv
  <2>2. made[s] = written[s] + Cardinality(Waiting(s, f, send)) + drops[s]
    BY <1>1, InFlightIs, Zenon DEF EdgesAccounted
  <2>3. Cardinality(Waiting(s, f, send)) =
          Cardinality(Waiting(s, None, send)) + (IF f.event = "message" /\ f.sub = s THEN 1 ELSE 0)
    BY <1>1, <1>3, CountWritten, Zenon
  <2>4. Cardinality(Waiting(s, None, send)) \in Nat
    BY <1>1, WaitingFinite, Zenon
  <2>5. InFlight(s)' = Waiting(s, None, send)
    BY <1>2, InFlightIs, Zenon
  <2> HIDE DEF f
  <2>6. written'[s] = written[s] + (IF f.event = "message" /\ f.sub = s THEN 1 ELSE 0)
    <3>1. Mine(f, s) <=> f.event = "message" /\ f.sub = s
      BY <1>3, Zenon DEF Mine, f
    <3>2. CASE Mine(f, s)
      BY <1>7, <2>1, <3>1, <3>2, Zenon
    <3>3. CASE ~Mine(f, s)
      <4>1. written'[s] = written[s] /\ written[s] = written[s] + 0
        <5>1. written'[s] = written[s]
          BY <1>7, <2>1, <3>3, Zenon
        <5> QED
          BY <2>1, <5>1
      <4> QED
        BY <3>1, <3>3, <4>1, Zenon
    <3> QED
      BY <3>2, <3>3, Zenon
  <2> DEFINE k == IF f.event = "message" /\ f.sub = s THEN 1 ELSE 0
             v == Cardinality(Waiting(s, None, send))
  <2>7. k \in Nat
    OBVIOUS
  <2> HIDE DEF k, v
  <2>8. made[s] = written[s] + (v + k) + drops[s] /\ written'[s] = written[s] + k /\ v \in Nat
    BY <2>2, <2>3, <2>4, <2>6, Zenon DEF k, v
  <2>9. made[s] = written'[s] + v + drops[s]
    BY <2>1, <2>7, <2>8
  <2> QED
    BY <2>5, <2>9, Zenon DEF v
<1>17. NewestInv'
  <2> SUFFICES ASSUME conn = "open", NEW s \in (1..Len(all)) \ Discrete PROVE NewestOf(s)'
    BY <1>2, <1>12, Zenon DEF NewestInv, reading
  <2>1. NewestOf(s) /\ s \in Ids
    BY <1>1, <1>4, Zenon DEF NewestInv
  <2>2. /\ \A w : Newest(w, s)' <=> Newest(w, s)
        /\ newest' = newest /\ pending' = pending /\ held' = held /\ send' = send
    BY <1>2, Zenon DEF Newest, dispatcher
  <2>3. Newest(frame, s) => newest[s][1] \in Carried(f, s)
    <3> SUFFICES ASSUME Newest(frame, s) PROVE newest[s][1] \in Carried(f, s)
      OBVIOUS
    <3>1. Mine(f, s) /\ f.items = newest[s] /\ f.items # <<>>
      BY <1>3, Zenon DEF Newest, Mine, Sound
    <3>2. 1 \in 1..Len(f.items)
      BY <1>6, <3>1
    <3> QED
      BY <3>1, <3>2, Zenon DEF Carried
  <2>4. Reached(got'[s]) = Reached(got[s]) \cup Carried(f, s)
    BY <1>13, <2>1, Zenon
  <2> QED
    BY <2>1, <2>2, <2>3, <2>4, Zenon DEF NewestOf
<1> QED
  BY <1>8, <1>9, <1>11, <1>12, <1>14, <1>15, <1>16, <1>17, Zenon DEF Inv

-----------------------------------------------------------------------------
(* The steps of the dispatcher.                                            *)

\* An event is collected, or the timer fires; the batch is broadcast or kept.
LEMMA CollectStep ==
  ASSUME Inv, disp = "collect", log' = log \/ \E e \in Events : log' = Append(log, e),
         NEW b \in Seq(Nat), Rising(b), \A i \in 1..Len(b) : b[i] \in 1..Len(log'),
         \A x \in 1..Len(log) :
           (\A i \in 1..Len(batch) : x < batch[i]) => \A i \in 1..Len(b) : x < b[i],
         Broadcast(b) \/ (batch' = b /\ UNCHANGED <<outgoing, targets, disp>>),
         UNCHANGED <<held, made, newest, reading, send, pending, writing, conn, lost, drops>>
  PROVE  Inv'
<1>1. /\ TypeInv /\ HandInv /\ SubsInv /\ BatchInv /\ KeptInv /\ SoundInv /\ OrderInv
      /\ EdgesAccounted /\ NewestInv
  BY Parts, Zenon
<1>2. <<>> \in Seq(Nat) /\ 1..Len(<<>>) = {} /\ DOMAIN <<>> = {}
  OBVIOUS
<1>3. outgoing = <<>> /\ DOMAIN targets = {} /\ held = None
  BY <1>1, Zenon DEF HandInv
<1>4. /\ batch' = b \/ batch' = <<>>
      /\ outgoing' = b \/ outgoing' = <<>>
      /\ DOMAIN targets' = {} \/ targets' = subs
      /\ disp' = "collect" => outgoing' = <<>> /\ DOMAIN targets' = {}
      /\ disp' # "collect" => batch' = <<>>
      /\ disp' \in {"collect", "send"}
  <2>1. CASE Broadcast(b)
    <3>1. /\ targets' = subs \/ targets' = <<>>
          /\ batch' = <<>> /\ (outgoing' = b \/ outgoing' = <<>>)
          /\ disp' = "collect" => outgoing' = <<>> /\ targets' = <<>>
          /\ disp' \in {"collect", "send"}
      BY <2>1, Zenon DEF Broadcast
    <3> QED
      BY <1>2, <3>1, Zenon
  <2>2. CASE batch' = b /\ UNCHANGED <<outgoing, targets, disp>>
    BY <1>3, <2>2, Zenon
  <2> QED
    BY <2>1, <2>2, Zenon
<1>5. log' \in Seq(Events)
  <2>1. log \in Seq(Events)
    BY <1>1, Zenon DEF TypeInv
  <2>2. \A e \in Events : Append(log, e) \in Seq(Events)
    BY <2>1
  <2> QED
    BY <2>1, <2>2, Zenon
<1>6. /\ \A n \in 1..Len(log) : n \in 1..Len(log')
      /\ \A s \in 1..Len(all) : \A n : Asked(s, n) => Asked(s, n)'
      /\ \A w : Sound(w) => Sound(w)'
  <2>1. all' = all
    BY Zenon DEF reading
  <2> QED
    BY <1>1, <2>1, Remains, Zenon
<1>7. TypeInv'
  BY <1>1, <1>2, <1>4, <1>5, Zenon DEF TypeInv, reading, writing
<1>8. HandInv'
  <2>1. disp' # "store"
    BY <1>4, Zenon
  <2> QED
    BY <1>1, <1>3, <1>4, <2>1, Zenon DEF HandInv, reading, writing
<1>9. SubsInv'
  BY <1>1, <1>4, Zenon DEF SubsInv, reading, writing
<1>10. BatchInv'
  BY <1>2, <1>4, Zenon DEF BatchInv, Emitted, Rising
<1>11. Discrete' = Discrete /\ KeptInv'
  BY <1>1, Zenon DEF Discrete, KeptInv, reading
<1>12. SoundInv'
  <2>1. ASSUME NEW s \in Ids, NEW i \in 1..Len(got[s]) PROVE Asked(s, got[s][i])'
    <3>1. s \in 1..Len(all)
      <4>1. CASE s > Len(all)
        <5>1. got[s] = <<>>
          BY <1>1, <4>1, Zenon DEF SubsInv
        <5> QED
          BY <5>1
      <4>2. CASE ~(s > Len(all))
        BY <4>2, Bounds, Zenon
      <4> QED
        BY <4>1, <4>2, Zenon
    <3>2. Asked(s, got[s][i])
      BY <1>1, Zenon DEF SoundInv
    <3>3. got' = got
      BY Zenon DEF writing
    <3>4. \A n : Asked(s, n) => Asked(s, n)'
      BY <1>6, <3>1, Zenon
    <3> QED
      BY <3>2, <3>3, <3>4, Zenon DEF Asked
  <2> QED
    BY <1>1, <1>6, <2>1, Zenon DEF SoundInv, writing
<1>13. OrderInv'
  <2> SUFFICES ASSUME NEW s \in Ids PROVE OrderOf(s)'
    BY Zenon DEF OrderInv
  <2>1. OrderOf(s)
    BY <1>1, Zenon DEF OrderInv
  <2>2. \A x : Before(x, s) => Before(x, s)'
    <3> TAKE x
    <3>1. Before(x, s) => x \in 1..Len(log) /\ \A i \in 1..Len(b) : x < b[i]
      BY Zenon DEF Before
    <3> QED
      BY <1>2, <1>4, <1>6, <3>1, Zenon DEF Before
  <2>3. Way(s)' = Way(s)
    BY Zenon DEF Way, writing
  <2> QED
    BY <1>11, <2>1, <2>2, <2>3, Zenon DEF OrderOf, writing
<1>14. EdgesAccounted'
  <2>1. \A s : InFlight(s)' = InFlight(s)
    BY Zenon DEF InFlight, writing
  <2> QED
    BY <1>1, <1>11, <2>1, Zenon DEF EdgesAccounted, writing
<1>15. NewestInv'
  BY <1>1, <1>11, Zenon DEF NewestInv, NewestOf, Newest, reading, writing
<1> QED
  BY <1>7, <1>8, <1>9, <1>10, <1>11, <1>12, <1>13, <1>14, <1>15, Zenon DEF Inv

\* An event arrives.
LEMMA ReceiveStep ==
  ASSUME Inv, NEW e \in Events, Receive(e)
  PROVE  Inv'
<1> DEFINE n == Len(log) + 1
           b == Append(batch, n)
<1>1. /\ disp = "collect" /\ log' = Append(log, e)
      /\ Broadcast(b) \/ (batch' = b /\ UNCHANGED <<outgoing, targets, disp>>)
      /\ UNCHANGED <<held, made, newest, reading, send, pending, writing, conn, lost, drops>>
  BY Zenon DEF Receive
<1>2. log \in Seq(Events) /\ batch \in Seq(Nat) /\ Emitted(batch)
  BY Parts, Zenon DEF TypeInv, BatchInv
<1>3. /\ Len(log) \in Nat /\ n \in Nat /\ Len(log') = n
      /\ \A x \in 1..Len(log) : x \in Nat /\ x < n /\ x \in 1..n
      /\ n \in 1..n
  BY <1>1, <1>2
<1>4. /\ b \in Seq(Nat) /\ Len(b) = Len(batch) + 1 /\ b[Len(batch) + 1] = n
      /\ \A i \in 1..Len(batch) : b[i] = batch[i]
      /\ Len(batch) \in Nat
  BY <1>2, <1>3
<1> HIDE DEF b, n
<1>5. /\ \A i \in 1..Len(b) : i = Len(batch) + 1 \/ i \in 1..Len(batch)
      /\ \A i, j \in 1..Len(b) : i < j => i \in 1..Len(batch)
  BY <1>4
<1>6. Rising(b)
  BY <1>2, <1>3, <1>4, <1>5, Zenon DEF Rising, Emitted
<1>7. \A i \in 1..Len(b) : b[i] \in 1..Len(log')
  BY <1>2, <1>3, <1>4, <1>5, Zenon DEF Emitted
<1>8. \A x \in 1..Len(log) :
        (\A i \in 1..Len(batch) : x < batch[i]) => \A i \in 1..Len(b) : x < b[i]
  BY <1>3, <1>4, <1>5, Zenon
<1> QED
  BY <1>1, <1>4, <1>6, <1>7, <1>8, CollectStep, Zenon

\* The timer fires.
LEMMA TimerStep ==
  ASSUME Inv, TimerFires
  PROVE  Inv'
<1>1. batch \in Seq(Nat) /\ Rising(batch) /\ \A i \in 1..Len(batch) : batch[i] \in 1..Len(log)
  BY Parts, Zenon DEF TypeInv, BatchInv, Emitted
<1>2. /\ disp = "collect" /\ log' = log /\ Broadcast(batch)
      /\ UNCHANGED <<held, made, newest, reading, send, pending, writing, conn, lost, drops>>
  BY Zenon DEF TimerFires
<1> QED
  BY <1>1, <1>2, CollectStep, Zenon

\* The kept wrapper becomes the pending one of its subscription.
LEMMA StoreStep ==
  ASSUME Inv, StorePending
  PROVE  Inv'
<1> DEFINE w == held
           c == held.sub
<1>1. /\ TypeInv /\ HandInv /\ SubsInv /\ BatchInv /\ KeptInv /\ SoundInv /\ OrderInv
      /\ EdgesAccounted /\ NewestInv
  BY Parts, Zenon
<1>2. /\ disp = "store" /\ pending' = [pending EXCEPT ![c] = w] /\ held' = None
      /\ UNCHANGED <<log, batch, timer, targets, made, newest, reading, send, writing, conn, lost,
                     drops>>
  BY Zenon DEF StorePending
<1>3. /\ disp' = "collect" => outgoing' = <<>> /\ targets = <<>>
      /\ outgoing' = outgoing \/ outgoing' = <<>>
      /\ disp' \in {"collect", "send"}
  BY DEF StorePending, Resume
<1>4. <<>> \in Seq(Nat) /\ 1..Len(<<>>) = {} /\ DOMAIN <<>> = {} /\ "store" # "collect"
  OBVIOUS
<1>5. w # None /\ w \in Wrappers /\ w.event = "message" /\ c \in Ids /\ c \notin Discrete
      /\ w.items = newest[c] /\ Sound(w) /\ batch = <<>>
  BY <1>1, <1>2, <1>4, Zenon DEF HandInv, TypeInv, KeptInv, SoundInv
<1>6. c \in 1..Len(all)
  BY <1>5, Zenon DEF Sound
<1> HIDE DEF w, c
<1>7. /\ pending' \in [Ids -> Wrappers \cup {None}] /\ pending'[c] = w
      /\ \A s \in Ids : s # c => pending'[s] = pending[s]
  BY <1>1, <1>2, <1>5, Zenon DEF TypeInv
<1>8. TypeInv'
  BY <1>1, <1>2, <1>3, <1>4, <1>7, Zenon DEF TypeInv, reading, writing
<1>9. HandInv'
  <2>1. disp' # "store"
    BY <1>3
  <2>2. batch' = <<>> /\ (disp' = "collect" => outgoing' = <<>> /\ DOMAIN targets' = {})
    BY <1>2, <1>3, <1>4, <1>5, Zenon
  <2> QED
    BY <1>1, <1>2, <2>1, <2>2, Zenon DEF HandInv, reading, writing
<1>10. SubsInv'
  <2>1. \A s \in 1..Len(all) : ~(s > Len(all))
    BY Bounds, Zenon
  <2>2. \A s \in Ids : s > Len(all) => pending'[s] = pending[s]
    BY <1>6, <1>7, <2>1, Zenon
  <2> QED
    BY <1>1, <1>2, <2>2, Zenon DEF SubsInv, reading, writing
<1>11. BatchInv'
  BY <1>1, <1>2, <1>3, <1>4, Zenon DEF BatchInv, Emitted, Rising
<1>12. Discrete' = Discrete
  BY <1>2, Zenon DEF Discrete, reading
<1>13. KeptInv'
  <2>1. w.sub = c
    BY Zenon DEF w, c
  <2> QED
    BY <1>1, <1>2, <1>5, <1>7, <1>12, <2>1, Zenon DEF KeptInv
<1>14. SoundInv'
  <2>1. \A v : (Sound(v)' <=> Sound(v)) /\ \A s, n : Asked(s, n)' <=> Asked(s, n)
    BY <1>2, SameKnown, Zenon DEF reading
  <2> QED
    BY <1>1, <1>2, <1>5, <1>7, <2>1, Zenon DEF SoundInv, writing
<1>15. OrderInv'
  <2> SUFFICES ASSUME NEW s \in Ids PROVE OrderOf(s)'
    BY Zenon DEF OrderInv
  <2>1. OrderOf(s)
    BY <1>1, Zenon DEF OrderInv
  <2>2. \A x : Before(x, s) => Before(x, s)'
    BY <1>2, <1>3, <1>4, Zenon DEF Before
  <2>3. Way(s)' = Way(s) /\ Carried(held', s) = {}
    BY <1>2, NothingCarried, Zenon DEF Way, writing
  <2>4. \/ pending'[s] = pending[s]
        \/ pending'[s] = held
    BY <1>7, Zenon DEF w
  <2>5. /\ Apart(s \in Discrete, Way(s), Carried(pending'[s], s))
        /\ \A x \in Carried(pending'[s], s) : Before(x, s)
    BY <2>1, <2>4, Zenon DEF OrderOf, Apart
  <2>6. Apart(s \in Discrete, Way(s) \cup Carried(pending'[s], s), Carried(held', s))
    BY <2>3, Zenon DEF Apart
  <2>7. \A x \in Way(s) : Before(x, s)
    BY <2>1, Zenon DEF OrderOf
  <2>8. \A x \in Way(s) \cup Carried(pending'[s], s) \cup Carried(held', s) : Before(x, s)'
    BY <2>2, <2>3, <2>5, <2>7, Zenon
  <2>9. QueueOrder(s \in Discrete, s, got'[s], frame', send')
    BY <1>2, <2>1, Zenon DEF OrderOf, writing
  <2> QED
    BY <1>12, <2>3, <2>5, <2>6, <2>8, <2>9, Zenon DEF OrderOf
<1>16. EdgesAccounted'
  <2>1. \A s : InFlight(s)' = InFlight(s)
    BY <1>2, Zenon DEF InFlight, writing
  <2> QED
    BY <1>1, <1>2, <1>12, <2>1, Zenon DEF EdgesAccounted, writing
<1>17. NewestInv'
  <2> SUFFICES ASSUME conn = "open", NEW s \in (1..Len(all)) \ Discrete PROVE NewestOf(s)'
    BY <1>2, <1>12, Zenon DEF NewestInv, reading
  <2>1. NewestOf(s) /\ s \in Ids
    <3>1. s \in Ids
      BY Bounds, Zenon
    <3> QED
      BY <1>1, <3>1, Zenon DEF NewestInv
  <2>2. /\ \A v : Newest(v, s)' <=> Newest(v, s)
        /\ newest' = newest /\ frame' = frame /\ got' = got /\ send' = send
    BY <1>2, Zenon DEF Newest, writing
  <2>3. CASE s = c
    <3>1. Newest(w, c)
      BY <1>5, Zenon DEF Newest, Mine, w, c
    <3> QED
      BY <1>7, <2>2, <2>3, <3>1, Zenon DEF NewestOf
  <2>4. CASE s # c
    <3>1. ~Newest(held, s) /\ pending'[s] = pending[s]
      BY <1>7, <2>1, <2>4, Zenon DEF Newest, Mine, c
    <3> QED
      BY <2>1, <2>2, <3>1, Zenon DEF NewestOf
  <2> QED
    BY <2>3, <2>4, Zenon
<1> QED
  BY <1>8, <1>9, <1>10, <1>11, <1>13, <1>14, <1>15, <1>16, <1>17, Zenon DEF Inv

-----------------------------------------------------------------------------
(* A broadcast, one subscription at a time.                                *)

(* The payload of a subscription and its wrapper.                          *)
MadeFor(s, b, w) ==
  b = PayloadBatch(targets[s].topic, targets[s].filter) /\ w = Message(s, b)

\* The wrapper made for a subscription has events of the batch that it asked
\* for, all later than what it was sent before.
LEMMA MessageFacts ==
  ASSUME Inv, NEW s \in DOMAIN targets,
         NEW b, NEW w, MadeFor(s, b, w)
  PROVE  /\ s \in 1..Len(all) /\ s \in Ids
         /\ w \in Wrappers /\ b \in Seq(Nat)
         /\ w.event = "message" /\ w.sub = s /\ w.items = b
         /\ b # <<>> => Sound(w)
         /\ \A x \in Carried(w, s) : x \in 1..Len(log)
         /\ \A A : (\A x \in A : Before(x, s)) =>
              Apart(TRUE, A, Carried(w, s)) /\ Apart(FALSE, A, Carried(w, s))
<1>1. TypeInv /\ SubsInv /\ BatchInv
  BY Parts, Zenon
<1>2. s \in 1..Len(all) /\ targets[s] = all[s]
  BY <1>1, Zenon DEF SubsInv
<1>3. s \in Ids /\ s \in 0..MaxMessages
  BY <1>2, Bounds, Zenon
<1>4. /\ outgoing \in Seq(Nat) /\ Rising(outgoing)
      /\ \A j \in 1..Len(outgoing) : outgoing[j] \in 1..Len(log)
  BY <1>1, Zenon DEF TypeInv, BatchInv, Emitted
<1>5. /\ b \in Seq(Nat) /\ Rising(b)
      /\ \A i \in 1..Len(b) :
           /\ \E j \in 1..Len(outgoing) : b[i] = outgoing[j]
           /\ Selects(targets[s].topic, targets[s].filter, log[b[i]].kind, log[b[i]].item)
  <2> DEFINE p == PayloadBatch(targets[s].topic, targets[s].filter)
  <2>1. /\ p \in Seq(Nat) /\ Rising(p)
        /\ \A i \in 1..Len(p) :
             /\ \E j \in 1..Len(outgoing) : p[i] = outgoing[j]
             /\ Selects(targets[s].topic, targets[s].filter, log[p[i]].kind, log[p[i]].item)
    BY <1>4, PayloadFacts, Zenon
  <2>2. p = b
    BY Zenon DEF MadeFor
  <2> QED
    BY <2>1, <2>2, Zenon
<1>6. w \in Wrappers /\ w.event = "message" /\ w.sub = s /\ w.items = b
  BY <1>3, <1>5, Zenon DEF Message, Wrappers, MadeFor
<1>7. \A i \in 1..Len(b) : b[i] \in 1..Len(log) /\ Asked(s, b[i])
  BY <1>2, <1>4, <1>5, Zenon DEF Asked
<1>8. b # <<>> => Sound(w)
  BY <1>2, <1>5, <1>6, <1>7, Zenon DEF Sound
<1>9. w # None
  BY <1>6, WsAssumption, Zenon
<1>10. \A x : x \in Carried(w, s) => \E i \in 1..Len(b) : x = b[i]
  BY <1>6, <1>9, Zenon DEF Carried, Mine
<1>11. ASSUME NEW A, \A x \in A : Before(x, s)
       PROVE  \A x \in A, y \in Carried(w, s) : x < y /\ x # y
  <2> TAKE x \in A, y \in Carried(w, s)
  <2>1. x < y
    <3>1. PICK i \in 1..Len(b) : y = b[i]
      BY <1>10, Zenon
    <3>2. PICK j \in 1..Len(outgoing) : b[i] = outgoing[j]
      BY <1>5, Zenon
    <3>3. x < outgoing[j]
      BY <1>11, Zenon DEF Before
    <3> QED
      BY <3>1, <3>2, <3>3, Zenon
  <2>2. x \in Nat /\ y \in Nat
    <3>1. x \in 1..Len(log) /\ y \in 1..Len(log)
      BY <1>7, <1>10, <1>11, Zenon DEF Before
    <3> QED
      BY <3>1
  <2> QED
    BY <2>1, <2>2
<1>12. \A A : (\A x \in A : Before(x, s)) =>
         Apart(TRUE, A, Carried(w, s)) /\ Apart(FALSE, A, Carried(w, s))
  BY <1>11, Zenon DEF Apart
<1>13. \A x \in Carried(w, s) : x \in 1..Len(log)
  BY <1>7, <1>10, Zenon
<1>14. b \in Seq(Nat)
  BY <1>5, Zenon
<1> QED
  BY <1>2, <1>3, <1>6, <1>8, <1>12, <1>13, <1>14, Zenon

\* What every outcome of sendWrapper leaves to the rest of the broadcast.
LEMMA ServedFacts ==
  ASSUME Inv, disp = "send", NEW s \in DOMAIN targets, targets' = Without(targets, s),
         Resume(targets') \/ (disp' = "store" /\ UNCHANGED outgoing),
         UNCHANGED <<log, batch, timer, reading, pending, writing, conn, lost>>
  PROVE  /\ disp' = "collect" => outgoing' = <<>> /\ DOMAIN targets' = {}
         /\ batch' = <<>> /\ outgoing' \in Seq(Nat) /\ BatchInv'
         /\ \A t \in DOMAIN targets' : t \in 1..Len(all') /\ targets'[t] = all'[t]
         /\ Discrete' = Discrete
         /\ \A v : (Sound(v)' <=> Sound(v)) /\ \A t, n : Asked(t, n)' <=> Asked(t, n)
         /\ \A t, x : Before(x, t) => Before(x, t)'
         /\ \A x \in 1..Len(log) : Before(x, s)'
<1>1. TypeInv /\ HandInv /\ SubsInv /\ BatchInv
  BY Parts, Zenon
<1>2. <<>> \in Seq(Nat) /\ 1..Len(<<>>) = {} /\ DOMAIN <<>> = {} /\ "send" # "collect"
  OBVIOUS
<1>3. /\ \A t : t \in DOMAIN targets' <=> t \in DOMAIN targets /\ t # s
      /\ \A t \in DOMAIN targets' : targets'[t] = targets[t]
  BY Zenon DEF Without
<1>4. /\ outgoing' = outgoing \/ outgoing' = <<>>
      /\ disp' = "collect" => outgoing' = <<>> /\ targets' = <<>>
  BY DEF Resume
<1>5. batch' = <<>>
  BY <1>1, <1>2, Zenon DEF HandInv
<1>6. disp' = "collect" => outgoing' = <<>> /\ DOMAIN targets' = {}
  BY <1>2, <1>4, Zenon
<1>7. outgoing' \in Seq(Nat)
  BY <1>1, <1>2, <1>4, Zenon DEF TypeInv
<1>8. BatchInv'
  BY <1>1, <1>2, <1>4, <1>5, Zenon DEF BatchInv, Emitted, Rising
<1>9. \A t \in DOMAIN targets' : t \in 1..Len(all') /\ targets'[t] = all'[t]
  BY <1>1, <1>3, Zenon DEF SubsInv, reading
<1>10. Discrete' = Discrete
  BY Zenon DEF Discrete, reading
<1>11. \A v : (Sound(v)' <=> Sound(v)) /\ \A t, n : Asked(t, n)' <=> Asked(t, n)
  BY SameKnown, Zenon DEF reading
<1>12. \A t, x : Before(x, t) => Before(x, t)'
  BY <1>2, <1>3, <1>4, Zenon DEF Before
<1>13. \A x \in 1..Len(log) : Before(x, s)'
  BY <1>2, <1>3, <1>5, Zenon DEF Before
<1> QED
  BY <1>5, <1>6, <1>7, <1>8, <1>9, <1>10, <1>11, <1>12, <1>13, Zenon

\* Nothing selected, or the connection was closed: the subscription is passed
\* over.
LEMMA PassedOver ==
  ASSUME Inv, disp = "send", NEW s \in DOMAIN targets, targets' = Without(targets, s),
         Resume(targets'),
         UNCHANGED <<log, batch, timer, reading, pending, writing, conn, lost>>,
         UNCHANGED <<held, made, newest, send, drops>>
  PROVE  Inv'
<1>1. /\ TypeInv /\ HandInv /\ SubsInv /\ KeptInv /\ SoundInv /\ OrderInv
      /\ EdgesAccounted /\ NewestInv
  BY Parts, Zenon
<1>2. /\ disp' = "collect" => outgoing' = <<>> /\ DOMAIN targets' = {}
      /\ batch' = <<>> /\ outgoing' \in Seq(Nat) /\ BatchInv'
      /\ \A t \in DOMAIN targets' : t \in 1..Len(all') /\ targets'[t] = all'[t]
      /\ Discrete' = Discrete
      /\ \A v : (Sound(v)' <=> Sound(v)) /\ \A t, n : Asked(t, n)' <=> Asked(t, n)
      /\ \A t, x : Before(x, t) => Before(x, t)'
  BY ServedFacts, Zenon
<1>3. held = None /\ disp' # "store"
  BY <1>1, Zenon DEF HandInv, Resume
<1>4. TypeInv'
  BY <1>1, <1>2, Zenon DEF TypeInv, reading, writing
<1>5. HandInv'
  BY <1>1, <1>2, <1>3, Zenon DEF HandInv, reading, writing
<1>6. SubsInv'
  BY <1>1, <1>2, Zenon DEF SubsInv, reading, writing
<1>7. KeptInv'
  BY <1>1, <1>2, Zenon DEF KeptInv
<1>8. SoundInv'
  BY <1>1, <1>2, Zenon DEF SoundInv, writing
<1>9. OrderInv'
  <2> SUFFICES ASSUME NEW t \in Ids PROVE OrderOf(t)'
    BY Zenon DEF OrderInv
  <2>1. OrderOf(t)
    BY <1>1, Zenon DEF OrderInv
  <2>2. Way(t)' = Way(t)
    BY Zenon DEF Way, writing
  <2> QED
    BY <1>2, <2>1, <2>2, Zenon DEF OrderOf, writing
<1>10. EdgesAccounted'
  <2>1. \A t : InFlight(t)' = InFlight(t)
    BY Zenon DEF InFlight, writing
  <2> QED
    BY <1>1, <1>2, <2>1, Zenon DEF EdgesAccounted, writing
<1>11. NewestInv'
  BY <1>1, <1>2, Zenon DEF NewestInv, NewestOf, Newest, reading, writing
<1> QED
  BY <1>2, <1>4, <1>5, <1>6, <1>7, <1>8, <1>9, <1>10, <1>11, Zenon DEF Inv

\* The events of the wrapper of a subscription come behind its other ones, and
\* are of no concern to the other subscriptions.
LEMMA MessageBehind ==
  ASSUME Inv, NEW s \in DOMAIN targets,
         NEW b, NEW w, MadeFor(s, b, w), NEW t \in Ids
  PROVE  /\ Apart(t \in Discrete,
                  Way(t) \cup Carried(pending[t], t) \cup Carried(held, t), Carried(w, t))
         /\ t # s => Carried(w, t) = {}
<1>1. /\ w.sub = s
      /\ \A A : (\A x \in A : Before(x, s)) =>
           Apart(TRUE, A, Carried(w, s)) /\ Apart(FALSE, A, Carried(w, s))
  BY MessageFacts, Zenon
<1>2. t # s => Carried(w, t) = {}
  BY <1>1, Zenon DEF Carried, Mine
<1> DEFINE A == Way(t) \cup Carried(pending[t], t) \cup Carried(held, t)
<1>3. \A x \in A : Before(x, t)
  BY Parts, Zenon DEF OrderOf
<1> HIDE DEF A
<1>4. CASE t = s
  <2>1. Apart(TRUE, A, Carried(w, t)) /\ Apart(FALSE, A, Carried(w, t))
    BY <1>1, <1>3, <1>4, Zenon
  <2>2. Apart(t \in Discrete, A, Carried(w, t))
    BY <2>1, Zenon DEF Apart
  <2> QED
    BY <1>4, <2>2, Zenon DEF A
<1>5. CASE t # s
  BY <1>2, <1>5, Zenon DEF Apart
<1> QED
  BY <1>4, <1>5, Zenon

\* What sendWrapper does with the wrapper of an open connection: it is queued,
\* kept or dropped.
Queues(w) ==
  send' = Append(send, w) /\ Resume(targets') /\ UNCHANGED <<held, drops>>

Keeps(s, w) ==
  /\ s \notin Discrete
  /\ disp' = "store" /\ held' = w /\ UNCHANGED <<outgoing, send, drops>>

Drops(s) ==
  /\ s \in Discrete
  /\ drops' = [drops EXCEPT ![s] = drops[s] + 1] /\ Resume(targets') /\ UNCHANGED <<held, send>>

\* The wrapper of a subscription is queued, kept or dropped.
LEMMA SentStep ==
  ASSUME Inv, disp = "send", NEW s \in DOMAIN targets, targets' = Without(targets, s),
         NEW b, NEW w, MadeFor(s, b, w), b # <<>>,
         made' = [made EXCEPT ![s] = made[s] + 1], newest' = [newest EXCEPT ![s] = b],
         Queues(w) \/ Keeps(s, w) \/ Drops(s),
         UNCHANGED <<log, batch, timer, reading, pending, writing, conn, lost>>
  PROVE  Inv'
<1>1. /\ TypeInv /\ HandInv /\ SubsInv /\ KeptInv /\ SoundInv /\ OrderInv
      /\ EdgesAccounted /\ NewestInv /\ send \in Seq(Wrappers)
  BY Parts, Zenon
<1>2. /\ disp' = "collect" => outgoing' = <<>> /\ DOMAIN targets' = {}
      /\ batch' = <<>> /\ outgoing' \in Seq(Nat) /\ BatchInv'
      /\ \A t \in DOMAIN targets' : t \in 1..Len(all') /\ targets'[t] = all'[t]
      /\ Discrete' = Discrete
      /\ \A v : (Sound(v)' <=> Sound(v)) /\ \A t, n : Asked(t, n)' <=> Asked(t, n)
      /\ \A t, x : Before(x, t) => Before(x, t)'
      /\ \A x \in 1..Len(log) : Before(x, s)'
  <2>1. Resume(targets') \/ (disp' = "store" /\ UNCHANGED outgoing)
    BY Zenon DEF Queues, Keeps, Drops
  <2> QED
    BY <2>1, ServedFacts, Zenon
<1>3. /\ s \in 1..Len(all) /\ s \in Ids
      /\ w \in Wrappers /\ b \in Seq(Nat)
      /\ w.event = "message" /\ w.sub = s /\ w.items = b /\ Sound(w)
      /\ \A x \in Carried(w, s) : x \in 1..Len(log)
  BY MessageFacts, Zenon
<1>4. \A t \in Ids :
        /\ Apart(t \in Discrete,
                 Way(t) \cup Carried(pending[t], t) \cup Carried(held, t), Carried(w, t))
        /\ t # s => Carried(w, t) = {}
  BY MessageBehind, Zenon
<1>5. held = None /\ w # None
  <2>1. "send" # "store"
    OBVIOUS
  <2> QED
    BY <1>1, <1>3, <2>1, WsAssumption, Zenon DEF HandInv
<1>6. /\ \A t \in 1..Len(all) : t \in Ids /\ ~(t > Len(all))
      /\ \A t \in Ids : t \in 0..MaxMessages
      /\ Discrete \subseteq 1..Len(all)
  BY Bounds, Zenon
<1>7. /\ made' \in [Ids -> Nat] /\ newest' \in [Ids -> Seq(Nat)]
      /\ made'[s] = made[s] + 1 /\ newest'[s] = b
      /\ \A t \in Ids : t # s => made'[t] = made[t] /\ newest'[t] = newest[t]
  <2>1. made \in [Ids -> Nat] /\ newest \in [Ids -> Seq(Nat)]
    BY <1>1, Zenon DEF TypeInv
  <2>2. made[s] + 1 \in Nat
    BY <1>3, <2>1
  <2> QED
    BY <1>3, <2>1, <2>2, Zenon
<1>8. \/ Queues(w) /\ send' = Append(send, w) /\ held' = None /\ drops' = drops /\ disp' # "store"
      \/ Keeps(s, w) /\ send' = send /\ held' = w /\ drops' = drops /\ disp' = "store"
           /\ s \notin Discrete
      \/ Drops(s) /\ send' = send /\ held' = None /\ drops' = [drops EXCEPT ![s] = drops[s] + 1]
           /\ disp' # "store" /\ s \in Discrete
  <2>1. Resume(targets') => disp' # "store"
    BY Zenon DEF Resume
  <2> QED
    BY <1>5, <2>1, Zenon DEF Queues, Keeps, Drops
<1>9. /\ send' \in Seq(Wrappers)
      /\ \A i \in 1..Len(send') : (i \in 1..Len(send) /\ send'[i] = send[i]) \/ send'[i] = w
      /\ \A i \in 1..Len(send) : i \in 1..Len(send') /\ send'[i] = send[i]
      /\ Queues(w) => \E i \in 1..Len(send') : send'[i] = w
  <2>1. CASE send' = Append(send, w)
    <3> DEFINE r == Append(send, w)
    <3>1. /\ r \in Seq(Wrappers)
          /\ \A i \in 1..Len(r) : (i \in 1..Len(send) /\ r[i] = send[i]) \/ r[i] = w
          /\ \A i \in 1..Len(send) : i \in 1..Len(r) /\ r[i] = send[i]
          /\ \E i \in 1..Len(r) : r[i] = w
      BY <1>1, <1>3, Appended, Zenon
    <3> HIDE DEF r
    <3>2. send' = r
      BY <2>1, Zenon DEF r
    <3> QED
      BY <3>1, <3>2, Zenon
  <2>2. CASE send' # Append(send, w)
    <3>1. ~Queues(w) /\ send' = send
      BY <1>8, <2>2, Zenon DEF Queues
    <3> QED
      BY <1>1, <3>1, Zenon
  <2> QED
    BY <2>1, <2>2, Zenon
<1>10. /\ drops' \in [0..MaxMessages -> Nat]
       /\ \A t \in Ids : t # s => drops'[t] = drops[t]
       /\ Drops(s) => drops'[s] = drops[s] + 1
  <2>1. drops \in [0..MaxMessages -> Nat] /\ s \in 0..MaxMessages
    BY <1>1, <1>3, <1>6, Zenon DEF TypeInv
  <2>2. drops[s] + 1 \in Nat
    BY <2>1
  <2>3. CASE drops' = drops
    BY <2>1, <2>3, Zenon DEF Drops
  <2>4. CASE drops' = [drops EXCEPT ![s] = drops[s] + 1]
    BY <1>6, <2>1, <2>2, <2>4, Zenon
  <2> QED
    BY <1>8, <2>3, <2>4, Zenon
<1>11. TypeInv'
  <2>1. held' \in Wrappers \cup {None}
    BY <1>3, <1>8, Zenon
  <2> QED
    BY <1>1, <1>2, <1>7, <1>9, <1>10, <2>1, Zenon DEF TypeInv, reading, writing
<1>12. HandInv'
  BY <1>1, <1>2, <1>5, <1>8, Zenon DEF HandInv, reading, writing
<1>13. SubsInv'
  <2>1. \A t \in Ids : t > Len(all) => t # s
    BY <1>3, <1>6, Zenon
  <2>2. \A t \in Ids : t > Len(all) => made'[t] = made[t] /\ newest'[t] = newest[t] /\ drops'[t] = drops[t]
    BY <1>7, <1>10, <2>1, Zenon
  <2> QED
    BY <1>1, <1>2, <2>2, Zenon DEF SubsInv, reading, writing
<1>14. KeptInv'
  BY <1>1, <1>2, <1>3, <1>7, <1>8, Zenon DEF KeptInv
<1>15. SoundInv'
  BY <1>1, <1>2, <1>3, <1>8, <1>9, Zenon DEF SoundInv, writing
<1>16. OrderInv'
  <2> SUFFICES ASSUME NEW t \in Ids PROVE OrderOf(t)'
    BY Zenon DEF OrderInv
  <2> DEFINE p == Carried(pending[t], t)
             d == t \in Discrete
  <2>1. OrderOf(t) /\ Carried(None, t) = {}
    BY <1>1, NothingCarried, Zenon DEF OrderInv
  <2>2. Apart(d, Way(t), Carried(w, t)) /\ Apart(d, p, Carried(w, t))
    BY <1>4, Zenon DEF Apart
  <2>3. \A x \in Carried(w, t) : Before(x, t)'
    BY <1>2, <1>3, <1>4, Zenon
  <2>4. \A x \in Way(t) \cup p : Before(x, t)'
    BY <1>2, <2>1, Zenon DEF OrderOf
  <2>5. got' = got /\ frame' = frame /\ pending' = pending
    BY Zenon DEF writing
  <2>6. Apart(d, Way(t), p)
    BY <2>1, Zenon DEF OrderOf
  <2>7. CASE Queues(w)
    <3>1. send' = Append(send, w) /\ held' = None
      BY <1>5, <2>7, Zenon DEF Queues
    <3>2. /\ QueueOrder(d, t, got[t], frame, Append(send, w))
          /\ Queued(t, got[t], frame, Append(send, w)) = Way(t) \cup Carried(w, t)
      BY <1>1, <1>3, <2>1, <2>2, QueuedBehind, Zenon
    <3>3. Way(t)' = Way(t) \cup Carried(w, t)
      BY <2>5, <3>1, <3>2, Zenon DEF Way
    <3>4. Apart(d, Carried(w, t), p)
      <4>1. CASE d
        <5>1. p = {}
          BY <1>1, <2>1, <4>1, Zenon DEF KeptInv
        <5> QED
          BY <5>1, Zenon DEF Apart
      <4>2. CASE ~d
        BY <2>2, <4>2, Zenon DEF Apart
      <4> QED
        BY <4>1, <4>2, Zenon
    <3> HIDE DEF p, d
    <3>5. Apart(d, Way(t)', p)
      BY <2>6, <3>3, <3>4, Zenon DEF Apart
    <3>6. Carried(held', t) = {}
      BY <2>1, <3>1, Zenon
    <3>7. \A x \in Way(t)' \cup p \cup Carried(held', t) : Before(x, t)'
      BY <2>3, <2>4, <3>3, <3>6, Zenon
    <3>8. Apart(d, Way(t)' \cup p, Carried(held', t))
      BY <3>6, Zenon DEF Apart
    <3>9. QueueOrder(d, t, got'[t], frame', send')
      BY <2>5, <3>1, <3>2, Zenon
    <3> QED
      BY <1>2, <2>5, <3>5, <3>7, <3>8, <3>9, Zenon DEF OrderOf, p, d
  <2>8. CASE ~Queues(w)
    <3>1. send' = send /\ (held' = w \/ held' = None)
      BY <1>8, <2>8, Zenon
    <3>2. Way(t)' = Way(t)
      BY <2>5, <3>1, Zenon DEF Way
    <3>3. Carried(held', t) = Carried(w, t) \/ Carried(held', t) = {}
      BY <2>1, <3>1, Zenon
    <3>4. QueueOrder(d, t, got'[t], frame', send')
      BY <2>1, <2>5, <3>1, Zenon DEF OrderOf
    <3> HIDE DEF p, d
    <3>5. Apart(d, Way(t) \cup p, Carried(held', t))
      BY <2>2, <3>3, Zenon DEF Apart
    <3>6. \A x \in Way(t) \cup p \cup Carried(held', t) : Before(x, t)'
      BY <2>3, <2>4, <3>3, Zenon
    <3> QED
      BY <1>2, <2>5, <2>6, <3>2, <3>4, <3>5, <3>6, Zenon DEF OrderOf, p, d
  <2> QED
    BY <2>7, <2>8, Zenon
<1>17. EdgesAccounted'
  <2> SUFFICES ASSUME conn = "open", NEW t \in Discrete
               PROVE  made'[t] = written[t] + Cardinality(InFlight(t)') + drops'[t]
    BY <1>2, Zenon DEF EdgesAccounted, writing
  <2> DEFINE v == Cardinality(Waiting(t, frame, send))
             u == Cardinality(InFlight(t)')
  <2>1. /\ t \in Ids /\ made[t] \in Nat /\ written[t] \in Nat /\ drops[t] \in Nat /\ v \in Nat
    <3>1. t \in Ids /\ t \in 0..MaxMessages
      BY <1>6, Zenon
    <3> QED
      BY <1>1, <3>1, WaitingFinite, Zenon DEF TypeInv
  <2>2. made[t] = written[t] + v + drops[t]
    BY <1>1, InFlightIs, Zenon DEF EdgesAccounted
  <2>3. frame' = frame
    BY Zenon DEF writing
  <2>4. CASE Queues(w)
    <3>1. send' = Append(send, w) /\ drops' = drops
      BY <2>4, Zenon DEF Queues
    <3>2. u = v + (IF w.event = "message" /\ w.sub = t THEN 1 ELSE 0)
      <4>1. Cardinality(Waiting(t, frame, Append(send, w))) =
              v + (IF w.event = "message" /\ w.sub = t THEN 1 ELSE 0)
        BY <1>1, <1>3, CountQueued, Zenon
      <4> QED
        BY <2>3, <3>1, <4>1, InFlightIs, Zenon
    <3> HIDE DEF u, v
    <3>3. CASE t = s
      <4>1. u = v + 1 /\ made'[t] = made[t] + 1
        BY <1>3, <1>7, <3>2, <3>3, Zenon
      <4>2. made'[t] = written[t] + u + drops[t]
        BY <2>1, <2>2, <4>1
      <4> QED
        BY <3>1, <4>2, Zenon DEF u
    <3>4. CASE t # s
      <4>1. u = v + 0 /\ made'[t] = made[t]
        BY <1>3, <1>7, <2>1, <3>2, <3>4, Zenon
      <4>2. made'[t] = written[t] + u + drops[t]
        BY <2>1, <2>2, <4>1
      <4> QED
        BY <3>1, <4>2, Zenon DEF u
    <3> QED
      BY <3>3, <3>4, Zenon
  <2>5. CASE ~Queues(w)
    <3>1. u = v
      <4>1. send' = send
        BY <1>8, <2>5, Zenon
      <4> QED
        BY <2>3, <4>1, InFlightIs, Zenon
    <3> HIDE DEF u, v
    <3>2. CASE t = s
      <4>1. made'[t] = made[t] + 1 /\ drops'[t] = drops[t] + 1
        BY <1>7, <1>8, <1>10, <2>5, <3>2, Zenon
      <4>2. made'[t] = written[t] + u + drops'[t]
        BY <2>1, <2>2, <3>1, <4>1
      <4> QED
        BY <4>2, Zenon DEF u
    <3>3. CASE t # s
      <4>1. made'[t] = made[t] /\ drops'[t] = drops[t]
        BY <1>7, <1>10, <2>1, <3>3, Zenon
      <4> QED
        BY <2>2, <3>1, <4>1, Zenon DEF u
    <3> QED
      BY <3>2, <3>3, Zenon
  <2> QED
    BY <2>4, <2>5, Zenon
<1>18. NewestInv'
  <2> SUFFICES ASSUME conn = "open", NEW t \in (1..Len(all)) \ Discrete PROVE NewestOf(t)'
    BY <1>2, Zenon DEF NewestInv, reading
  <2>1. NewestOf(t) /\ t \in Ids
    BY <1>1, <1>6, Zenon DEF NewestInv
  <2>2. got' = got /\ frame' = frame /\ pending' = pending
    BY Zenon DEF writing
  <2>3. CASE t = s
    <3>1. Newest(w, t)'
      BY <1>3, <1>5, <1>7, <2>3, Zenon DEF Newest, Mine
    <3>2. held' = w \/ \E i \in 1..Len(send') : send'[i] = w
      BY <1>8, <1>9, <2>3, Zenon
    <3> QED
      BY <3>1, <3>2, Zenon DEF NewestOf, Newest
  <2>4. CASE t # s
    <3>1. newest'[t] = newest[t] /\ \A v : Newest(v, t)' <=> Newest(v, t)
      BY <1>7, <2>1, <2>4, Zenon DEF Newest
    <3>2. ~Newest(held, t)
      BY <1>5, Zenon DEF Newest, Mine
    <3> QED
      BY <1>9, <2>1, <2>2, <3>1, <3>2, Zenon DEF NewestOf
  <2> QED
    BY <2>3, <2>4, Zenon
<1> QED
  BY <1>2, <1>11, <1>12, <1>13, <1>14, <1>15, <1>16, <1>17, <1>18, Zenon DEF Inv

\* A subscription is served.
LEMMA SendStep ==
  ASSUME Inv, NEW s \in DOMAIN targets, SendMessage(s)
  PROVE  Inv'
<1> DEFINE b == PayloadBatch(targets[s].topic, targets[s].filter)
           w == Message(s, b)
<1>1. /\ disp = "send" /\ targets' = Without(targets, s)
      /\ UNCHANGED <<log, batch, timer, reading, pending, writing, conn, lost>>
  BY Zenon DEF SendMessage
<1>2. \/ Resume(targets') /\ UNCHANGED <<held, made, newest, send, drops>>
      \/ /\ b # <<>>
         /\ made' = [made EXCEPT ![s] = made[s] + 1] /\ newest' = [newest EXCEPT ![s] = b]
         /\ \/ Queues(w)
            \/ /\ Hot(targets[s].topic)
               /\ disp' = "store" /\ held' = w /\ UNCHANGED <<outgoing, send, drops>>
            \/ /\ ~Hot(targets[s].topic)
               /\ drops' = [drops EXCEPT ![s] = drops[s] + 1]
               /\ Resume(targets') /\ UNCHANGED <<held, send>>
  BY Zenon DEF SendMessage, Queues
<1>3. s \in 1..Len(all) /\ targets[s] = all[s]
  BY Parts, Zenon DEF SubsInv
<1>4. s \in Discrete <=> ~Hot(targets[s].topic)
  BY <1>3, Zenon DEF Discrete
<1>5. MadeFor(s, b, w)
  BY Zenon DEF MadeFor
<1> HIDE DEF b, w
<1>6. CASE Resume(targets') /\ UNCHANGED <<held, made, newest, send, drops>>
  BY <1>1, <1>6, PassedOver, Zenon
<1>7. CASE ~(Resume(targets') /\ UNCHANGED <<held, made, newest, send, drops>>)
  <2>1. /\ b # <<>>
        /\ made' = [made EXCEPT ![s] = made[s] + 1] /\ newest' = [newest EXCEPT ![s] = b]
        /\ Queues(w) \/ Keeps(s, w) \/ Drops(s)
    BY <1>2, <1>4, <1>7, Zenon DEF Keeps, Drops
  <2> QED
    BY <1>1, <1>5, <2>1, SentStep, Zenon
<1> QED
  BY <1>6, <1>7, Zenon

-----------------------------------------------------------------------------
(* The invariant of the connection.                                        *)

\* A message is read.
LEMMA MessageRead ==
  ASSUME Inv, NEW m \in Messages, ReadMessage(m)
  PROVE  Inv'
<1>1. /\ reader = "read" /\ received < MaxMessages /\ received' = received + 1
      /\ UNCHANGED <<dispatcher, pending, writing, conn, lost>>
      /\ HandleSubscribe(m) \/ HandleUnsubscribe(m) \/ HandleMessage(m) \/ HandleError(m)
  BY Zenon DEF ReadMessage
<1>2. "read" # "reply"
  OBVIOUS
<1>3. TypeInv /\ SubsInv /\ MaxMessages \in Nat
  BY Parts, WsAssumption, Zenon
<1>4. received \in Nat /\ Len(all) <= received /\ all \in Seq(Subscriptions)
  BY <1>3, Zenon DEF TypeInv
<1>5. received' \in Nat /\ received <= received' /\ received' <= MaxMessages
  BY <1>1, <1>3, <1>4
<1>6. CASE HandleSubscribe(m)
  BY <1>1, <1>6, SubscribeStep, Zenon
<1>7. CASE HandleUnsubscribe(m)
  <2>1. /\ m.sub \in DOMAIN subs /\ subs' = Without(subs, m.sub)
        /\ reply' = Control("unsubscribed", m.sub)
        /\ UNCHANGED <<nextID, all, published, send, drops>>
    BY <1>7, Zenon DEF HandleUnsubscribe
  <2>2. \A s \in DOMAIN subs' : s \in DOMAIN subs /\ subs'[s] = subs[s]
    BY <2>1, Zenon DEF Without
  <2>3. m.sub \in 1..Len(all)
    BY <1>3, <2>1, Zenon DEF SubsInv
  <2>4. m.sub \in 0..MaxMessages /\ <<>> \in Seq(Nat)
    BY <1>1, <1>3, <1>4, <2>3
  <2>5. Control("unsubscribed", m.sub) \in Wrappers
        /\ Control("unsubscribed", m.sub).event # "message"
    BY <2>4 DEF Control, Wrappers
  <2> QED
    BY <1>1, <1>5, <2>1, <2>2, <2>5, NeutralStep, Zenon DEF writing
<1>8. CASE HandleMessage(m)
  <2>1. UNCHANGED <<reader, reply, subs, nextID, all, send, drops>>
    BY <1>8, Zenon DEF HandleMessage
  <2>2. \A s \in DOMAIN subs' : s \in DOMAIN subs /\ subs'[s] = subs[s]
    BY <2>1, Zenon
  <2> QED
    BY <1>1, <1>2, <1>5, <2>1, <2>2, NeutralStep, Zenon DEF writing
<1>9. CASE HandleError(m)
  <2>1. SendControl(Control("error", 0)) /\ UNCHANGED <<reader, reply, subs, nextID, all>>
    BY <1>9, Zenon DEF HandleError
  <2>2. Control("error", 0) \in Wrappers /\ Control("error", 0).event # "message"
    BY <1>3 DEF Control, Wrappers
  <2> QED
    BY <1>1, <1>2, <1>5, <2>1, <2>2, ControlSent, Zenon
<1> QED
  BY <1>1, <1>6, <1>7, <1>8, <1>9, Zenon

\* Every step keeps the invariant.
LEMMA StepKeeps ==
  ASSUME Inv, [Next]_vars
  PROVE  Inv'
<1>1. TypeInv /\ HandInv
  BY Parts, Zenon
<1>3. CASE UNCHANGED vars
  <2>1. /\ UNCHANGED <<dispatcher, nextID, all, send, pending, frame, written, got, drops>>
        /\ UNCHANGED <<received, subs, conn, writer, reader, reply>>
    BY <1>3, Zenon DEF vars, reading, writing
  <2> QED
    BY <2>1, ControlStep, Zenon
<1>4. CASE Dispatch
  BY <1>4, TimerStep, StoreStep, SendStep, Zenon DEF Dispatch
<1>5. CASE \E e \in Events : Receive(e)
  BY <1>5, ReceiveStep, Zenon
<1>6. CASE \E m \in Messages : ReadMessage(m)
  BY <1>6, MessageRead, Zenon
<1>7. CASE Acknowledge
  <2>1. /\ reader = "reply" /\ SendControl(reply) /\ reader' = "read"
        /\ UNCHANGED <<dispatcher, received, published, subs, nextID, all, pending, writing, conn,
                       lost>>
    BY <1>7, Zenon DEF Acknowledge
  <2>2. reply \in Wrappers /\ reply.event # "message"
    BY <1>1, <2>1, Zenon DEF HandInv
  <2>3. received' \in Nat /\ received <= received' /\ received' <= MaxMessages
    <3>1. received \in Nat /\ received <= MaxMessages /\ received' = received
      BY <1>1, <2>1, Zenon DEF TypeInv
    <3> QED
      BY <3>1
  <2>4. reader' # "reply"
    BY <2>1
  <2> QED
    BY <2>1, <2>2, <2>3, <2>4, ControlSent, Zenon
<1>8. CASE ReadFails
  <2>1. /\ UNCHANGED <<dispatcher, nextID, all, send, pending, frame, written, got, drops>>
        /\ UNCHANGED <<received, subs>>
        /\ writer' = writer
    BY <1>8, Zenon DEF ReadFails, writing
  <2>2. (conn' = "open" => conn = "open") /\ reader' # "reply"
    BY <1>8 DEF ReadFails, Close
  <2> QED
    BY <2>1, <2>2, ControlStep, Zenon
<1>9. CASE WriteLoop
  <2>1. CASE Take
    BY <2>1, TakeStep, Zenon
  <2>2. CASE WriteFails
    BY <2>2, WriteFailsStep, Zenon
  <2>3. CASE \E s \in Ids : Flush(s)
    BY <2>3, FlushStep, Zenon
  <2>4. CASE FlushEnds \/ Tick \/ WriterDone
    <3>1. /\ UNCHANGED <<dispatcher, nextID, all, send, pending, frame, written, got, drops>>
          /\ UNCHANGED <<received, subs>>
          /\ conn' = conn /\ reader' = reader /\ reply' = reply
      BY <2>4, Zenon DEF FlushEnds, Tick, WriterDone, reading
    <3>2. writer # "write" /\ writer' # "write"
      BY <2>4, Zenon DEF FlushEnds, Tick, WriterDone
    <3> QED
      BY <3>1, <3>2, ControlStep, Zenon
  <2> QED
    BY <1>9, <2>1, <2>2, <2>3, <2>4, Zenon DEF WriteLoop
<1>10. CASE WriteFrame
  BY <1>10, WriteFrameStep, Zenon
<1>11. CASE Unregister \/ CloseSocket \/ LosePeer
  <2>1. /\ UNCHANGED <<dispatcher, nextID, all, send, pending, frame, written, got, drops>>
        /\ UNCHANGED <<received, subs>>
        /\ writer' = writer /\ reader' = reader /\ reply' = reply
    BY <1>11, Zenon DEF Unregister, CloseSocket, LosePeer, reading, writing
  <2>2. conn' = "open" => conn = "open"
    BY <1>11 DEF Unregister, CloseSocket, LosePeer
  <2> QED
    BY <2>1, <2>2, ControlStep, Zenon
<1> QED
  BY <1>3, <1>4, <1>5, <1>6, <1>7, <1>8, <1>9, <1>10, <1>11, Zenon DEF Next

\* The inductive invariant of the connection holds in every reachable state,
\* whatever the three goroutines of hub.go and the peer do.
THEOREM WsInvariant == Spec => []Inv
<1>1. Init => Inv
  BY Initially, Zenon
<1>2. Inv /\ [Next]_vars => Inv'
  BY StepKeeps, Zenon
<1> QED
  BY <1>1, <1>2, PTL DEF Spec

\* A full buffer loses nothing that is not counted or replaced by newer data:
\* sendWrapper, storePending, flushPending and the write loop account for every
\* wrapper of a discrete topic, and keep the newest one of a hot topic, as long
\* as the connection is open.
THEOREM LossIsAccounted == Spec => []LossAccounted
<1>1. Inv => LossAccounted
  <2> SUFFICES ASSUME Inv PROVE NewestKept
    BY Zenon DEF LossAccounted, Inv
  <2> SUFFICES ASSUME conn = "open", NEW s \in (1..Len(all)) \ Discrete, newest[s] # <<>>
               PROVE  \/ \E i \in 1..Len(got[s]) : got[s][i] = newest[s][1]
                      \/ \E w \in {send[i] : i \in 1..Len(send)} \cup {frame, pending[s], held} :
                           w # None /\ w.event = "message" /\ w.sub = s /\ w.items = newest[s]
    BY Zenon DEF NewestKept
  <2>1. \/ newest[s][1] \in Reached(got[s])
        \/ \E i \in 1..Len(send) : Newest(send[i], s)
        \/ Newest(frame, s) \/ Newest(pending[s], s) \/ Newest(held, s)
    BY Parts, Zenon DEF NewestInv, NewestOf
  <2>2. CASE newest[s][1] \in Reached(got[s])
    BY <2>2, Zenon DEF Reached
  <2>3. CASE \E i \in 1..Len(send) : Newest(send[i], s)
    BY <2>3, Zenon DEF Newest, Mine
  <2>4. CASE Newest(frame, s) \/ Newest(pending[s], s) \/ Newest(held, s)
    BY <2>4, Zenon DEF Newest, Mine
  <2> QED
    BY <2>1, <2>2, <2>3, <2>4, Zenon
<1> QED
  BY <1>1, WsInvariant, PTL

\* What is delivered was asked for and allowed: payloadBatchForSubscription
\* selects by the topic and the filter of a subscription, which authenticate and
\* handleSubscribe let in, and nothing on the way mixes two subscriptions up.
THEOREM DeliveredIsAsked == Spec => []DeliveredAsAsked
<1>1. Inv => DeliveredAsAsked
  <2> SUFFICES ASSUME Inv, NEW s \in 1..Len(all), NEW i \in 1..Len(got[s])
               PROVE  Asked(s, got[s][i]) /\ Allowed(all[s])
    BY Zenon DEF DeliveredAsAsked, Asked, Allowed
  <2>1. s \in Ids
    BY Bounds, Zenon
  <2>2. SoundInv /\ SubsInv
    BY Parts, Zenon
  <2> QED
    BY <2>1, <2>2, Zenon DEF SoundInv, SubsInv
<1> QED
  BY <1>1, WsInvariant, PTL

-----------------------------------------------------------------------------
(* The connection implements WsDelivery.                                   *)

\* An event is emitted.
LEMMA ReceiveEmits ==
  ASSUME Inv, NEW e \in Events, Receive(e)
  PROVE  Delivery!EmitEvent
<1>1. /\ Len(log) < MaxEvents /\ log' = Append(log, e) /\ all' = all /\ got' = got
  BY Zenon DEF Receive, reading, writing
<1>2. log \in Seq(Events)
  BY Parts, Zenon DEF TypeInv
<1>3. Len(log') = Len(log) + 1
  BY <1>1, <1>2
<1>4. Discrete' = Discrete
  BY <1>1, Zenon DEF Discrete
<1> QED
  BY <1>1, <1>3, <1>4, Zenon DEF Delivery!EmitEvent

\* A subscription is made before anything was delivered to it.
LEMMA SubscribeSubscribes ==
  ASSUME Inv, NEW m \in Messages, ReadMessage(m), HandleSubscribe(m)
  PROVE  UNCHANGED Delivery!vars \/ \E s \in Ids : Delivery!Subscribe(s)
<1> DEFINE new == [topic |-> m.topic, filter |-> ParseFilter(m.topic, m.params), token |-> m.token]
           n == Len(all) + 1
<1>1. all' = Append(all, new) /\ log' = log /\ got' = got /\ received < MaxMessages
  BY Zenon DEF HandleSubscribe, ReadMessage, dispatcher, writing
<1>2. /\ all \in Seq(Subscriptions) /\ Len(all) <= received /\ received \in Nat /\ MaxMessages \in Nat
  BY Bounds, Zenon
<1>3. new \in Subscriptions
  <2>1. m.event = "subscribe"
    BY Zenon DEF HandleSubscribe
  <2> QED
    BY <2>1, Zenon DEF Subscriptions
<1> HIDE DEF new
<1>4. /\ n \in Ids /\ n > Len(all) /\ Len(all') = n /\ n \notin 1..Len(all)
      /\ \A s \in 1..Len(all) : all'[s] = all[s]
      /\ \A s : s \in 1..n <=> s \in 1..Len(all) \/ s = n
  BY <1>1, <1>2, <1>3 DEF Ids
<1>5. got[n] = <<>>
  BY <1>4, Parts, Zenon DEF SubsInv
<1>6. CASE Hot(all'[n].topic)
  <2>1. Discrete' = Discrete
    BY <1>4, <1>6, Zenon DEF Discrete
  <2> QED
    BY <1>1, <2>1, Zenon DEF Delivery!vars
<1>7. CASE ~Hot(all'[n].topic)
  <2>1. Discrete' = Discrete \cup {n}
    <3> HIDE DEF n
    <3>1. \A s : s \in Discrete' <=> s \in Discrete \/ s = n
      BY <1>4, <1>7, Zenon DEF Discrete
    <3> QED
      BY <3>1, Zenon
  <2>2. Delivery!Subscribe(n)
    BY <1>1, <1>5, <2>1, Zenon DEF Delivery!Subscribe
  <2> QED
    BY <1>4, <2>2, Zenon
<1> QED
  BY <1>6, <1>7, Zenon

\* A frame with events is delivered.
LEMMA WriteDelivers ==
  ASSUME Inv, WriteFrame, frame.event = "message"
  PROVE  \E s \in Ids : \E b \in UNION {[1..n -> 1..Len(log)] : n \in 1..Len(log)} :
           Delivery!Deliver(s, b)
<1> DEFINE c == frame.sub
           b == frame.items
<1>1. /\ writer = "write" /\ got' = [got EXCEPT ![c] = got[c] \o b] /\ log' = log /\ all' = all
  BY Zenon DEF WriteFrame, dispatcher, reading
<1>2. frame # None /\ frame \in Wrappers /\ Sound(frame)
  BY <1>1, Parts, Zenon DEF HandInv, TypeInv, SoundInv
<1>3. /\ c \in 1..Len(all) /\ b # <<>> /\ Rising(b)
      /\ \A i \in 1..Len(b) : b[i] \in 1..Len(log)
  BY <1>2, Zenon DEF Sound, Asked
<1>4. b \in Seq(Nat)
  BY <1>2 DEF Wrappers
<1>5. log \in Seq(Events)
  BY Parts, Zenon DEF TypeInv
<1>6. c \in Ids
  BY <1>3, Bounds, Zenon
<1>7. Apart(c \in Discrete, Reached(got[c]), Carried(frame, c))
  BY <1>6, Parts, Zenon DEF OrderOf, QueueOrder
<1>8. Carried(frame, c) = {b[i] : i \in 1..Len(b)}
  BY <1>2, Zenon DEF Carried, Mine
<1> HIDE DEF b, c
<1>9. Delivery!Fresh(c, b)
  <2> SUFFICES ASSUME NEW i \in 1..Len(b), NEW j \in 1..Len(got[c])
               PROVE  IF c \in Discrete THEN got[c][j] < b[i] ELSE got[c][j] # b[i]
    BY Zenon DEF Delivery!Fresh
  <2>1. got[c][j] \in Reached(got[c]) /\ b[i] \in Carried(frame, c)
    BY <1>8, Zenon DEF Reached
  <2> QED
    BY <1>7, <2>1, Zenon DEF Apart
<1>10. Delivery!Increasing(b)
  BY <1>3, Zenon DEF Rising, Delivery!Increasing
<1>11. Discrete' = Discrete
  BY <1>1, Zenon DEF Discrete
<1>12. Delivery!Deliver(c, b)
  BY <1>1, <1>3, <1>9, <1>10, <1>11, Zenon DEF Delivery!Deliver
<1>13. \E n \in 1..Len(log) : b \in [1..n -> 1..Len(log)]
  <2>1. b \in Seq(1..Len(log)) /\ b \in [1..Len(b) -> 1..Len(log)] /\ Len(log) \in Nat
    <3> DEFINE S == 1..Len(log)
    <3>1. \A i \in 1..Len(b) : b[i] \in S
      BY <1>3, Zenon
    <3>2. Len(log) \in Nat
      BY <1>5
    <3> HIDE DEF S
    <3>3. b \in [1..Len(b) -> S] /\ b \in Seq(S)
      BY <1>4, <3>1
    <3> QED
      BY <3>2, <3>3, Zenon DEF S
  <2>2. Len(b) <= Len(log)
    BY <1>3, <2>1, RisingIsShort, Zenon
  <2>3. Len(b) \in 1..Len(log)
    BY <1>3, <1>4, <2>1, <2>2
  <2> QED
    BY <2>1, <2>3, Zenon
<1> QED
  BY <1>6, <1>12, <1>13, Zenon

\* Every step is a step of WsDelivery or changes nothing there.
LEMMA StepDelivers ==
  ASSUME Inv, [Next]_vars
  PROVE  [Delivery!Next]_(Delivery!vars)
<1>1. CASE \E e \in Events : Receive(e)
  BY <1>1, ReceiveEmits, Zenon DEF Delivery!Next
<1>2. CASE \E m \in Messages : ReadMessage(m)
  <2>1. PICK m \in Messages : ReadMessage(m)
    BY <1>2, Zenon
  <2>2. CASE HandleSubscribe(m)
    BY <2>1, <2>2, SubscribeSubscribes, Zenon DEF Delivery!Next
  <2>3. CASE ~HandleSubscribe(m)
    <3>1. log' = log /\ all' = all /\ got' = got
      BY <2>1, <2>3, Zenon DEF ReadMessage, HandleUnsubscribe, HandleMessage, HandleError,
        dispatcher, writing
    <3> QED
      BY <3>1, Zenon DEF Delivery!vars, Discrete
  <2> QED
    BY <2>2, <2>3, Zenon
<1>3. CASE WriteFrame
  <2>1. CASE frame.event = "message"
    BY <1>3, <2>1, WriteDelivers, Zenon DEF Delivery!Next
  <2>2. CASE frame.event # "message"
    <3>1. log' = log /\ all' = all /\ got' = got
      BY <1>3, <2>2, Zenon DEF WriteFrame, dispatcher, reading
    <3> QED
      BY <3>1, Zenon DEF Delivery!vars, Discrete
  <2> QED
    BY <2>1, <2>2, Zenon
<1>4. CASE \/ Dispatch \/ Acknowledge \/ ReadFails \/ WriteLoop \/ Unregister \/ CloseSocket
           \/ LosePeer \/ UNCHANGED vars
  <2>1. Dispatch => log' = log /\ all' = all /\ got' = got
    BY Zenon DEF Dispatch, TimerFires, StorePending, SendMessage, reading, writing
  <2>2. Acknowledge \/ ReadFails => log' = log /\ all' = all /\ got' = got
    BY Zenon DEF Acknowledge, ReadFails, dispatcher, writing
  <2>3. WriteLoop => log' = log /\ all' = all /\ got' = got
    BY Zenon DEF WriteLoop, Take, WriteFails, Flush, FlushEnds, Tick, WriterDone, dispatcher,
      reading, writing
  <2>4. Unregister \/ CloseSocket \/ LosePeer \/ UNCHANGED vars =>
          log' = log /\ all' = all /\ got' = got
    BY Zenon DEF Unregister, CloseSocket, LosePeer, vars, dispatcher, reading, writing
  <2>5. log' = log /\ all' = all /\ got' = got
    BY <1>4, <2>1, <2>2, <2>3, <2>4, Zenon
  <2> QED
    BY <2>5, Zenon DEF Delivery!vars, Discrete
<1> QED
  BY <1>1, <1>2, <1>3, <1>4, Zenon DEF Next

\* The connection implements WsDelivery: through the batches of consume, the
\* outbound channel, the pending wrappers and the frame being written, no event
\* is delivered twice to a subscription and discrete topics arrive in order.
THEOREM DeliveryRefined == Spec => DeliverySpec
<1>1. Init => Delivery!Init
  <2> SUFFICES ASSUME Init PROVE Delivery!Init
    OBVIOUS
  <2>1. Len(<<>>) = 0 /\ 1..0 = {}
    OBVIOUS
  <2>2. Discrete = {}
    BY <2>1, Zenon DEF Init, Discrete
  <2> QED
    BY <2>1, <2>2, Zenon DEF Init, Delivery!Init
<1>2. Inv /\ [Next]_vars => [Delivery!Next]_(Delivery!vars)
  BY StepDelivers, Zenon
<1> QED
  BY <1>1, <1>2, WsInvariant, PTL DEF Spec, DeliverySpec, Delivery!Spec
=============================================================================
