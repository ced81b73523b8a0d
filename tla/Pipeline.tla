------------------------------ MODULE Pipeline ------------------------------
(***************************************************************************)
(* The path of a provider location through the hub: ingest records it      *)
(* (ProcessLocations and recordLocation, src/internal/hub/service.go), the *)
(* native worker publishes it and hands it on, and the sharded decision    *)
(* workers take it in batches (src/internal/hub/derived_processor.go).     *)
(*                                                                         *)
(* A submitter never waits: a full queue drops the location and counts it. *)
(* Requests of several clients interleave; each access to the processing   *)
(* state (src/internal/hub/processing_state.go) is one step.  What the     *)
(* decision stage does with a location is the subject of other modules.    *)
(***************************************************************************)
EXTENDS Integers, Sequences, FiniteSets

CONSTANTS
  Clients,        \* ingest requests in progress: HTTP, WebSocket or MQTT
  Locations,      \* contents of locations; equal contents have one dedup key
  Valid,          \* the ones that validateLocation accepts
  Streams,        \* pairs of a provider and a source
  StreamOf,       \* StreamOf[l]: the stream of location l
  Hash,           \* Hash[k]: fnv32a of provider and source
  Trackables,
  Named,          \* Named[l]: the trackables that location l names itself
  Claimants,      \* Claimants[k]: trackables whose metadata name the provider
  Requests,       \* the bodies of requests: sequences of locations
  NativeBuffer,   \* NATIVE_LOCATION_BUFFER
  DerivedBuffer,  \* DERIVED_LOCATION_BUFFER
  BatchSize,      \* decisionQueueBatchSize
  DedupTTL, LocationTTL,
  MaxRequests, MaxTime  \* bounds

DefaultWorkers == 4

\* startShardedDerivedLocationProcessor: no more workers than buffer slots, and
\* the buffer is divided among them, rounded up.
WorkerCount == IF DerivedBuffer < DefaultWorkers THEN DerivedBuffer ELSE DefaultWorkers
ShardBuffer == (DerivedBuffer + WorkerCount - 1) \div WorkerCount
Shards == 0..(WorkerCount - 1)

\* Mutant of ShardOf: the worker depends on the location, not on its stream.
ShardOfItem(i) == i.n % WorkerCount

\* decisionShardIndex
ShardOf(i) == Hash[StreamOf[i.loc]] % WorkerCount

ASSUME PipelineAssumption ==
  /\ Valid \subseteq Locations
  /\ StreamOf \in [Locations -> Streams]
  /\ Hash \in [Streams -> Nat]
  /\ Named \in [Locations -> SUBSET Trackables]
  /\ Claimants \in [Streams -> SUBSET Trackables]
  /\ Requests \subseteq Seq(Locations)
  /\ NativeBuffer \in Nat \ {0} /\ DerivedBuffer \in Nat \ {0} /\ BatchSize \in Nat \ {0}
  /\ DedupTTL \in Nat \ {0} /\ LocationTTL \in Nat \ {0}
  /\ MaxRequests \in Nat /\ MaxTime \in Nat

VARIABLES
  now,       \* the clock
  pc,        \* where each request is: idle, next, store, trackables, submit
  todo,      \* the locations it has still to record
  cur,       \* the item it is recording
  posted,    \* how many requests were posted
  seen,      \* dedup: when the suppression of each content ends
  latest,    \* latestLocations: the stored item and its expiry, by stream
  tlatest,   \* latestTrackableLocation: the same, by trackable
  issued,    \* items stored so far; an item's number is its place among them
  native,    \* the native queue ...
  working,   \* ... and what its worker has taken, a sequence of at most one
  queue,     \* the queue of each decision worker ...
  batch,     \* ... the batch it has taken ...
  phase,     \* ... and whether it waits, drains its queue or processes
  drops,     \* RuntimeStats: nativeQueueDrops and decisionQueueDrops
  derived,   \* history: how many items were processed,
  lastOf,    \* the last one of each client and stream,
  recorded   \* and the contents that were ever stored

ingest  == <<pc, todo, cur, posted>>
state   == <<seen, latest, tlatest, issued>>
decision == <<queue, batch, phase>>
history == <<derived, lastOf, recorded>>
vars    == <<now, ingest, state, native, working, decision, drops, history>>

\* An item: a location, the request it came with, when it was accepted, and its
\* number, 0 until it is stored.
NoItem == [loc |-> CHOOSE l \in Locations : TRUE, by |-> CHOOSE c \in Clients : TRUE,
           at |-> 0, n |-> 0]
Absent == [item |-> NoItem, until |-> 0]

\* The getters of ProcessingState: an entry whose time has come is not there.
Live(e) == e.until > now

\* resolveLocationTrackables: a location without trackables is associated with
\* the one trackable that claims its provider, if there is exactly one.
TrackablesFor(l) ==
  IF Named[l] = {} /\ Cardinality(Claimants[StreamOf[l]]) = 1 THEN Claimants[StreamOf[l]]
  ELSE Named[l]

Init ==
  /\ now = 0
  /\ pc = [c \in Clients |-> "idle"]
  /\ todo = [c \in Clients |-> <<>>]
  /\ cur = [c \in Clients |-> NoItem]
  /\ posted = 0
  /\ seen = [l \in Locations |-> 0]
  /\ latest = [k \in Streams |-> Absent]
  /\ tlatest = [t \in Trackables |-> Absent]
  /\ issued = 0
  /\ native = <<>> /\ working = <<>>
  /\ queue = [s \in Shards |-> <<>>]
  /\ batch = [s \in Shards |-> <<>>]
  /\ phase = [s \in Shards |-> "wait"]
  /\ drops = [native |-> 0, decision |-> 0]
  /\ derived = 0
  /\ lastOf = [c \in Clients |-> [k \in Streams |-> 0]] /\ recorded = {}

-----------------------------------------------------------------------------
(* Ingest: ProcessLocations and recordLocation *)

Post(c, r) ==
  /\ pc[c] = "idle" /\ posted < MaxRequests
  /\ pc' = [pc EXCEPT ![c] = "next"]
  /\ todo' = [todo EXCEPT ![c] = r]
  /\ posted' = posted + 1
  /\ UNCHANGED <<now, cur, state, native, working, decision, drops, history>>

Accept(c, l) ==
  /\ seen' = [seen EXCEPT ![l] = now + DedupTTL]
  /\ cur' = [cur EXCEPT ![c] = [loc |-> l, by |-> c, at |-> now, n |-> 0]]
  /\ pc' = [pc EXCEPT ![c] = "store"]

\* The loop of ProcessLocations: the request ends after its last location, or
\* at the first one that is not valid; the ones before it stay recorded.
Finish(c) ==
  /\ pc[c] = "next"
  /\ todo[c] # <<>> => Head(todo[c]) \notin Valid
  /\ pc' = [pc EXCEPT ![c] = "idle"]
  /\ todo' = [todo EXCEPT ![c] = <<>>]
  /\ UNCHANGED <<now, cur, posted, state, native, working, decision, drops, history>>

\* Mutant of Deduplicate: the window ends when its last moment begins.
DeduplicateEarly(c) ==
  /\ pc[c] = "next"
  /\ todo[c] # <<>> /\ Head(todo[c]) \in Valid
  /\ LET l == Head(todo[c]) IN
     IF seen[l] > now + 1
       THEN /\ pc' = pc
            /\ todo' = [todo EXCEPT ![c] = Tail(@)]
            /\ UNCHANGED <<seen, cur>>
       ELSE /\ Accept(c, l)
            /\ UNCHANGED todo
  /\ UNCHANGED <<now, posted, latest, tlatest, issued, native, working, decision, drops, history>>

\* A valid location: ProcessingState.Deduplicate passes over content that was
\* accepted within DedupTTL.
Deduplicate(c) ==
  /\ pc[c] = "next"
  /\ todo[c] # <<>> /\ Head(todo[c]) \in Valid
  /\ LET l == Head(todo[c]) IN
     IF seen[l] > now
       THEN /\ pc' = pc
            /\ todo' = [todo EXCEPT ![c] = Tail(@)]
            /\ UNCHANGED <<seen, cur>>
       ELSE /\ Accept(c, l)
            /\ UNCHANGED todo
  /\ UNCHANGED <<now, posted, latest, tlatest, issued, native, working, decision, drops, history>>

\* ProcessingState.SetLatestLocation; the item is numbered as it is stored.
SetLatestLocation(c) ==
  /\ pc[c] = "store"
  /\ LET i == [cur[c] EXCEPT !.n = issued + 1] IN
     /\ cur' = [cur EXCEPT ![c] = i]
     /\ latest' = [latest EXCEPT ![StreamOf[i.loc]] = [item |-> i, until |-> now + LocationTTL]]
     /\ recorded' = recorded \cup {i.loc}
  /\ issued' = issued + 1
  /\ pc' = [pc EXCEPT ![c] = "trackables"]
  /\ UNCHANGED <<now, todo, posted, seen, tlatest, native, working, decision, drops,
                 derived, lastOf>>

\* ProcessingState.SetTrackableLocation, for each trackable of the location.
SetTrackableLocations(c) ==
  /\ pc[c] = "trackables"
  /\ tlatest' = [t \in Trackables |->
                   IF t \in TrackablesFor(cur[c].loc)
                     THEN [item |-> cur[c], until |-> now + LocationTTL] ELSE tlatest[t]]
  /\ pc' = [pc EXCEPT ![c] = "submit"]
  /\ UNCHANGED <<now, todo, cur, posted, seen, latest, issued, native, working, decision,
                 drops, history>>

\* Mutant of Submit: a location that finds the queue full is not counted.
SubmitUncounted(c) ==
  /\ pc[c] = "submit"
  /\ native' = IF Len(native) < NativeBuffer THEN Append(native, cur[c]) ELSE native
  /\ pc' = [pc EXCEPT ![c] = "next"]
  /\ todo' = [todo EXCEPT ![c] = Tail(@)]
  /\ cur' = [cur EXCEPT ![c] = NoItem]
  /\ UNCHANGED <<now, posted, state, working, decision, drops, history>>

\* derivedLocationProcessor.Submit on the native queue.
Submit(c) ==
  /\ pc[c] = "submit"
  /\ IF Len(native) < NativeBuffer
       THEN native' = Append(native, cur[c]) /\ UNCHANGED drops
       ELSE drops' = [drops EXCEPT !.native = @ + 1] /\ UNCHANGED native
  /\ pc' = [pc EXCEPT ![c] = "next"]
  /\ todo' = [todo EXCEPT ![c] = Tail(@)]
  /\ cur' = [cur EXCEPT ![c] = NoItem]
  /\ UNCHANGED <<now, posted, state, working, decision, history>>

-----------------------------------------------------------------------------
(* The native worker *)

\* derivedLocationProcessor.run
TakeNative ==
  /\ working = <<>> /\ native # <<>>
  /\ working' = <<Head(native)>>
  /\ native' = Tail(native)
  /\ UNCHANGED <<now, ingest, state, decision, drops, history>>

\* processNativeLocation: publish, then submit to the shard of the stream.
ProcessNative ==
  /\ working # <<>>
  /\ LET i == working[1]
         s == ShardOf(i) IN
     IF Len(queue[s]) < ShardBuffer
       THEN queue' = [queue EXCEPT ![s] = Append(@, i)] /\ UNCHANGED drops
       ELSE drops' = [drops EXCEPT !.decision = @ + 1] /\ UNCHANGED queue
  /\ working' = <<>>
  /\ UNCHANGED <<now, ingest, state, native, batch, phase, history>>

-----------------------------------------------------------------------------
(* The decision workers *)

\* run takes the first location, and dequeueBatch more while there are any.
Dequeue(s) ==
  /\ queue[s] # <<>>
  /\ \/ phase[s] = "wait"
     \/ phase[s] = "drain" /\ Len(batch[s]) < BatchSize
  /\ batch' = [batch EXCEPT ![s] = Append(@, Head(queue[s]))]
  /\ queue' = [queue EXCEPT ![s] = Tail(@)]
  /\ phase' = [phase EXCEPT ![s] = "drain"]
  /\ UNCHANGED <<now, ingest, state, native, working, drops, history>>

\* Mutant of CloseBatch: a batch is closed only when it is full.
CloseFullBatch(s) ==
  /\ phase[s] = "drain"
  /\ Len(batch[s]) = BatchSize
  /\ phase' = [phase EXCEPT ![s] = "process"]
  /\ UNCHANGED <<now, ingest, state, native, working, queue, batch, drops, history>>

\* The batch is full, or the queue was found empty.
CloseBatch(s) ==
  /\ phase[s] = "drain"
  /\ queue[s] = <<>> \/ Len(batch[s]) = BatchSize
  /\ phase' = [phase EXCEPT ![s] = "process"]
  /\ UNCHANGED <<now, ingest, state, native, working, queue, batch, drops, history>>

\* processDecisionLocationBatch, one location: an error is kept for the log and
\* the loop goes on, so whether the stage failed makes no difference here.
ProcessDecision(s) ==
  /\ phase[s] = "process"
  /\ LET i == Head(batch[s]) IN
     lastOf' = [lastOf EXCEPT ![i.by][StreamOf[i.loc]] = i.n]
  /\ derived' = derived + 1
  /\ batch' = [batch EXCEPT ![s] = Tail(@)]
  /\ phase' = [phase EXCEPT ![s] = IF Len(batch[s]) = 1 THEN "wait" ELSE "process"]
  /\ UNCHANGED <<now, ingest, state, native, working, queue, drops, recorded>>

-----------------------------------------------------------------------------
(* Time *)

Tick ==
  /\ now < MaxTime
  /\ now' = now + 1
  /\ UNCHANGED <<ingest, state, native, working, decision, drops, history>>

Record(c) ==
  \/ Finish(c) \/ Deduplicate(c) \/ SetLatestLocation(c) \/ SetTrackableLocations(c)
  \/ Submit(c)

Decide(s) == Dequeue(s) \/ CloseBatch(s) \/ ProcessDecision(s)

Next ==
  \/ \E c \in Clients : Record(c) \/ \E r \in Requests : Post(c, r)
  \/ TakeNative \/ ProcessNative
  \/ \E s \in Shards : Decide(s)
  \/ Tick

Spec == Init /\ [][Next]_vars

\* The goroutines of requests and workers are scheduled; nothing obliges a
\* client to post or the clock to advance.  (The workers return when the
\* service's context is cancelled: module Lifecycle.)
FairSpec ==
  /\ Spec
  /\ \A c \in Clients : WF_vars(Record(c))
  /\ WF_vars(TakeNative \/ ProcessNative)
  /\ \A s \in Shards : WF_vars(Decide(s))

-----------------------------------------------------------------------------
(* Properties *)

Range2(q) == {q[i] : i \in 1..Len(q)}
Pending(c) == pc[c] \in {"trackables", "submit"}
Queued == Range2(native) \cup Range2(working)
            \cup UNION {Range2(queue[s]) \cup Range2(batch[s]) : s \in Shards}
InFlight == Queued \cup {cur[c] : c \in {c \in Clients : Pending(c)}}

\* Updates of one stream stay ordered (docs/architecture.md:34): however the
\* shards and their batches interleave, and whatever the queues drop, the
\* decision stage gets the locations of a request's stream in their order.
StreamOrder ==
  [][\A c \in Clients, k \in Streams : lastOf'[c][k] >= lastOf[c][k]]_vars

\* Every stored location is on its way, or was processed, or was counted as a
\* drop of one of the two queues: none is lost without a trace.
DropsAccounted ==
  issued = derived + drops.native + drops.decision + Cardinality(InFlight)

\* A location is published after it can be read: while an item is queued, its
\* stream's latest location is this item or a later one, and a trackable's is
\* not an earlier one of the same request - unless it expired.
ReadableWhenQueued ==
  \A i \in Queued :
    /\ LET e == latest[StreamOf[i.loc]] IN Live(e) => e.item.n >= i.n
    /\ \A t \in TrackablesFor(i.loc) :
         Live(tlatest[t]) => tlatest[t].item.n >= i.n \/ tlatest[t].item.by # i.by

\* A location that was stored is processed or counted, and readers have it, or a
\* newer one, before the subscribers do.
StoredAndAccounted == DropsAccounted /\ ReadableWhenQueued

\* Two items of one content are never in the pipeline together unless they were
\* accepted a suppression window apart, whichever requests they came with.
NoDuplicateInFlight ==
  \A i, j \in InFlight :
    i.loc = j.loc /\ i # j => i.at >= j.at + DedupTTL \/ j.at >= i.at + DedupTTL

\* A retry is suppressed only if its content was recorded or is just about to
\* be: the part of a rejected batch that was not recorded can be sent again.
SuppressedWasRecorded ==
  \A l \in Locations :
    seen[l] > now => l \in recorded \/ \E c \in Clients : pc[c] = "store" /\ cur[c].loc = l

\* Suppression by content takes out the duplicates and nothing else.
DedupExact == NoDuplicateInFlight /\ SuppressedWasRecorded

\* The pipeline drains: when the requests end, every location that was stored
\* is processed or dropped in the end; none stays in a queue or in a batch.
PipelineDrains == InFlight # {} ~> InFlight = {}
=============================================================================
