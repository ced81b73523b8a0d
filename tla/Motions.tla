------------------------------- MODULE Motions -------------------------------
(***************************************************************************)
(* The decision stage and the collision stage (internal/hub:               *)
(* kalman_decision.go, processDerivedLocation and publishCollisionEvents   *)
(* in service.go, collisionMotionProcessor in derived_processor.go).       *)
(*                                                                         *)
(* Decision workers normalise the locations of trackables, throttle what   *)
(* is published and hand every point to one collision worker, through a    *)
(* bounded queue that drops.  The collision worker compares a motion with  *)
(* the active motions of other trackables and keeps a state per pair.      *)
(*                                                                         *)
(* Collisions are enabled, the trackables are known and every location has *)
(* a WGS84 form; one without it is never compared.  What                   *)
(* processDerivedLocation does about fences is module FenceMembership.     *)
(*                                                                         *)
(* The filter's arithmetic is left out: a normalised point is the measured *)
(* one or the estimate so far.  Filter states are kept by trackable and    *)
(* CRS, so the CRS of a state never changes, and there is one here.        *)
(***************************************************************************)
EXTENDS Expiry, Sequences, FiniteSets

CONSTANTS
    Trackables,       \* trackables, numbered
    Positions,        \* points
    Relation,         \* Relation[p, q]: how two points lie
    Deciders,         \* decision workers
    Locations,        \* Locations[filter]: trackables, position, age of the
                      \* timestamp and the worker of the stream
    FilterEnabled,    \* KALMAN_FILTER_ENABLED, the values to look at
    EmitInterval,     \* 1 / KALMAN_EMIT_MAX_FREQUENCY_HZ, 0 for unlimited
    MaxAge,           \* KALMAN_LOCATION_MAX_AGE
    MaxPoints,        \* KALMAN_LOCATION_MAX_POINTS
    TrackTTL,         \* STATE_LOCATION_TTL
    Debounce,         \* COLLISION_COLLIDING_DEBOUNCE
    CollisionTTL,     \* COLLISION_STATE_TTL
    CollisionBuffer,  \* capacity of the collision queue
    MaxLocations      \* bound by filter: locations, and deletions of providers

(* Two points overlap: they collide.  corner: each axis is within the      *)
(* radii, the distance is not.  apart: only the grid takes them for close. *)
(* remote: the grid tells them apart.                                      *)
ASSUME MotionsAssumption ==
    /\ Relation \in [Positions \X Positions -> {"overlap", "corner", "apart", "remote"}]
    /\ \A p, q \in Positions : Relation[p, q] = Relation[q, p]
    /\ \A p \in Positions : Relation[p, p] = "overlap"
    /\ "none" \notin Positions
    /\ MaxPoints \in Nat \ {0, 1}
    /\ {MaxAge, TrackTTL, CollisionTTL} \subseteq Nat \ {0}
    /\ {EmitInterval, Debounce} \subseteq Nat
    /\ FilterEnabled \subseteq BOOLEAN
    /\ \A filtered \in FilterEnabled : \A location \in Locations[filtered] :
          /\ location.worker \in Deciders /\ location.position \in Positions
          /\ location.ts \in Seq(Trackables) \ {<<>>} /\ location.age \in Nat

Never    == -1
NoTrack  == [samples |-> <<>>, decided |-> Never, emitted |-> Never,
             estimate |-> "none", expires |-> 0]
NoMotion == [at |-> "none", expires |-> 0]
NoPair   == [start |-> 0, emitted |-> 0, expires |-> 0]
NoCollision == [kind |-> "none", start |-> 0, at |-> 0, turn |-> 0]
NoWork   == [pc |-> "idle"]
Pairs    == {pair \in SUBSET Trackables : Cardinality(pair) = 2}

VARIABLES
    filter,     \* KALMAN_FILTER_ENABLED
    tracks,     \* trackable -> kalmanTrackState
    workers,    \* worker -> the location it decides on
    queue,      \* the collision queue
    collider,   \* what the collision worker has taken
    motions,    \* trackable -> its active motion
    pairs,      \* pair -> activeCollisionState
    located,    \* locations, and deletions of providers, so far
    latest,     \* history: the latest collision event of a pair
    points,     \* history: the latest point of a trackable that was decided on
    published,  \* history: timestamp of its latest published location, when
                \* the filter is on,
    irregular,  \* trackables whose locations were late or overlapped or
                \* whose filter state expired,
    missed      \* trackables whose motion was dropped or deleted since

motionVars == <<filter, tracks, workers, queue, collider, motions, pairs, located,
                latest, points, published, irregular, missed>>

InitMotions ==
    /\ filter \in FilterEnabled
    /\ tracks = [t \in Trackables |-> NoTrack]
    /\ workers = [w \in Deciders |-> NoWork]
    /\ queue = <<>>
    /\ collider = [todo |-> <<>>, active |-> [t \in Trackables |-> "none"]]
    /\ motions = [t \in Trackables |-> NoMotion]
    /\ pairs = [pair \in Pairs |-> NoPair]
    /\ located = 0
    /\ latest = [pair \in Pairs |-> NoCollision]
    /\ points = [t \in Trackables |-> "none"]
    /\ published = [t \in Trackables |-> Never]
    /\ irregular = {}
    /\ missed = {}

-----------------------------------------------------------------------------
(* The Kalman stage.                                                       *)

(* trimKalmanSamples: leading samples that are too old go, then as many as *)
(* leave room for one more.                                                *)
TrimKalmanSamples(samples, at) ==
    LET fresh == CHOOSE i \in 1..(Len(samples) + 1) :
                    /\ \A j \in 1..(i - 1) : at - samples[j] > MaxAge
                    /\ i <= Len(samples) => at - samples[i] <= MaxAge
        kept  == SubSeq(samples, fresh, Len(samples))
    IN  IF Len(kept) > MaxPoints - 1
          THEN SubSeq(kept, Len(kept) - MaxPoints + 2, Len(kept)) ELSE kept

(* The state normalizeTrackable starts from: reset after a gap that is     *)
(* longer than the age window, trimmed otherwise.                          *)
Refreshed(track, at) ==
    LET samples == TrimKalmanSamples(track.samples, at)
        gap     == \/ track.decided # Never /\ at - track.decided > MaxAge
                   \/ samples # <<>> /\ at - samples[Len(samples)] > MaxAge
    IN  IF gap THEN NoTrack ELSE [track EXCEPT !.samples = samples]

(* Every point may be published.                                           *)
EmitsAlways(track, at) == TRUE

Emits(track, at) ==
    ~(EmitInterval > 0 /\ track.emitted # Never /\ at - track.emitted < EmitInterval)

(* normalizeTrackable: the new state, for a point the filter has chosen.   *)
Normalized(track, at, point) ==
    LET fresh == Refreshed(track, at)
    IN  [samples  |-> TrimKalmanSamples(Append(fresh.samples, at), at),
         decided  |-> at,
         emitted  |-> IF Emits(fresh, at) THEN at ELSE fresh.emitted,
         estimate |-> point]

(* A location for some trackables reaches the worker of its stream.        *)
Take(location, at) ==
    /\ workers[location.worker].pc = "idle"
    /\ located < MaxLocations[filter]
    /\ located' = located + 1
    /\ workers' = [workers EXCEPT ![location.worker] =
           IF filter THEN [pc |-> "read", todo |-> location.ts, at |-> at,
                           position |-> location.position, results |-> <<>>]
                     ELSE [pc |-> "derive", at |-> Never,
                           results |-> <<[ts |-> location.ts, point |-> location.position,
                                          emit |-> TRUE]>>]]
    /\ irregular' = irregular \cup
           {t \in {location.ts[i] : i \in DOMAIN location.ts} :
               \/ at < published[t] \/ at < tracks[t].decided
               \/ filter /\ \E w \in Deciders : workers[w].pc # "idle"}
    /\ UNCHANGED <<now, filter, tracks, queue, collider, motions, pairs, latest,
                   points, published, missed>>

(* GetKalmanTrackState for the next trackable, and its normalisation.      *)
Read(w) ==
    /\ workers[w].pc = "read"
    /\ LET work  == workers[w]
           t     == Head(work.todo)
           track == Kept(tracks[t], NoTrack)
           old   == Refreshed(track, work.at).estimate
       IN  /\ \E point \in {work.position} \cup ({old} \ {"none"}) :
                  workers' = [workers EXCEPT ![w] =
                      [pc |-> "write", todo |-> work.todo, at |-> work.at,
                       position |-> work.position, results |-> work.results,
                       emit |-> Emits(Refreshed(track, work.at), work.at),
                       track |-> Normalized(track, work.at, point)]]
           /\ tracks' = [tracks EXCEPT ![t] = track]
           /\ irregular' = IF track = NoTrack /\ published[t] # Never
                             THEN irregular \cup {t} ELSE irregular
    /\ UNCHANGED <<now, filter, queue, collider, motions, pairs, located, latest,
                   points, published, missed>>

(* SetKalmanTrackState; when it was the last one the results are passed on.*)
Write(w) ==
    /\ workers[w].pc = "write"
    /\ LET work    == workers[w]
           t       == Head(work.todo)
           results == Append(work.results,
                             [ts |-> <<t>>, point |-> work.track.estimate, emit |-> work.emit])
       IN  /\ tracks' = [tracks EXCEPT ![t] =
                  [samples |-> work.track.samples, decided |-> work.track.decided,
                   emitted |-> work.track.emitted, estimate |-> work.track.estimate,
                   expires |-> Until(TrackTTL)]]
           /\ workers' = [workers EXCEPT ![w] =
                  IF Len(work.todo) = 1
                    THEN [pc |-> "derive", at |-> work.at, results |-> results]
                    ELSE [pc |-> "read", todo |-> Tail(work.todo), at |-> work.at,
                          position |-> work.position, results |-> results]]
    /\ UNCHANGED <<now, filter, queue, collider, motions, pairs, located, latest,
                   points, published, irregular, missed>>

-----------------------------------------------------------------------------
(* One result is passed on: publication when it may be, collision work in  *)
(* any case.                                                               *)

Passed(w) ==
    workers' = [workers EXCEPT ![w] =
        IF Len(@.results) = 1 THEN NoWork ELSE [@ EXCEPT !.results = Tail(workers[w].results)]]

(* Collision work only for points that are published.                      *)
DerivePublished(w) ==
    /\ workers[w].pc = "derive"
    /\ LET result == Head(workers[w].results)
           ts     == {result.ts[i] : i \in DOMAIN result.ts}
       IN  /\ IF result.emit /\ Len(queue) < CollisionBuffer
                THEN /\ queue' = Append(queue, [ts |-> result.ts, point |-> result.point])
                     /\ UNCHANGED missed
                ELSE UNCHANGED <<queue, missed>>
           /\ points' = [t \in Trackables |-> IF t \in ts THEN result.point ELSE points[t]]
           /\ published' = [t \in Trackables |->
                  IF t \in ts /\ result.emit THEN workers[w].at ELSE published[t]]
    /\ Passed(w)
    /\ UNCHANGED <<now, filter, tracks, collider, motions, pairs, located, latest, irregular>>

(* processDerivedLocation and enqueueCollisionWork.  A full queue drops    *)
(* the motions.                                                            *)
Derive(w) ==
    /\ workers[w].pc = "derive"
    /\ LET result == Head(workers[w].results)
           ts     == {result.ts[i] : i \in DOMAIN result.ts}
       IN  /\ IF Len(queue) < CollisionBuffer
                THEN /\ queue' = Append(queue, [ts |-> result.ts, point |-> result.point])
                     /\ missed' = missed \ ts
                ELSE missed' = missed \cup ts /\ UNCHANGED queue
           /\ points' = [t \in Trackables |-> IF t \in ts THEN result.point ELSE points[t]]
           /\ published' = [t \in Trackables |->
                  IF t \in ts /\ result.emit THEN workers[w].at ELSE published[t]]
    /\ Passed(w)
    /\ UNCHANGED <<now, filter, tracks, collider, motions, pairs, located, latest, irregular>>

-----------------------------------------------------------------------------
(* The collision worker.                                                   *)

(* Work is taken and the active motions are listed, once for all motions   *)
(* of the work.                                                            *)
TakeCollisionWork ==
    /\ collider.todo = <<>>
    /\ queue # <<>>
    /\ LET active == [t \in Trackables |-> Kept(motions[t], NoMotion)]
       IN  /\ motions' = active
           /\ collider' =
                  [todo   |-> [i \in DOMAIN Head(queue).ts |->
                                  [t |-> Head(queue).ts[i], point |-> Head(queue).point]],
                   active |-> [t \in Trackables |-> active[t].at]]
    /\ queue' = Tail(queue)
    /\ UNCHANGED <<now, filter, tracks, workers, pairs, located, latest, points,
                   published, irregular, missed>>

(* The state of a pair at its evaluation.                                  *)
PairLive(pair) == Alive(pairs[pair])

Debounced(pair) ==
    PairLive(pair) /\ Debounce > 0 /\ now - pairs[pair].emitted < Debounce

(* Nearby: what the grid offers for comparison.                            *)
Nearby(p, q) == Relation[p, q] # "remote"

MotionsMayCollide(p, q) == Relation[p, q] \in {"overlap", "corner"}

MotionsCollide(p, q) == Relation[p, q] = "overlap"

(* evaluateCollision for a pair that may collide: the event, if any.       *)
EvaluateCollision(pair, colliding) ==
    IF ~colliding THEN (IF PairLive(pair) THEN {"end"} ELSE {})
    ELSE IF ~PairLive(pair) THEN {"start"}
    ELSE IF Debounced(pair) THEN {} ELSE {"colliding"}

(* The state is kept when a collision ends.                                *)
EvaluatedKeeping(pair, p, q) ==
    IF ~MotionsMayCollide(p, q) THEN NoPair
    ELSE IF ~MotionsCollide(p, q) \/ EvaluateCollision(pair, TRUE) = {} THEN pairs[pair]
    ELSE [start   |-> IF PairLive(pair) THEN pairs[pair].start ELSE now,
          emitted |-> now, expires |-> Until(CollisionTTL)]

(* What becomes of the state of a pair.                                    *)
Evaluated(pair, p, q) ==
    IF ~MotionsMayCollide(p, q) \/ ~MotionsCollide(p, q) THEN NoPair
    ELSE IF EvaluateCollision(pair, TRUE) = {} THEN pairs[pair]
    ELSE [start   |-> IF PairLive(pair) THEN pairs[pair].start ELSE now,
          emitted |-> now, expires |-> Until(CollisionTTL)]

CollisionEventForPair(pair, kind) ==
    [kind |-> kind, start |-> IF kind = "start" THEN now ELSE pairs[pair].start,
     at |-> now, turn |-> 1 - latest[pair].turn]

(* One motion of the work: recorded, then compared with every other        *)
(* trackable's motion as it was listed.                                    *)
Collide ==
    /\ collider.todo # <<>>
    /\ LET motion       == Head(collider.todo)
           p            == motion.point
           q(pair)      == collider.active[CHOOSE u \in pair : u # motion.t]
           compared     == {pair \in Pairs : motion.t \in pair /\ q(pair) # "none"
                                             /\ Nearby(p, q(pair))}
           events(pair) == IF MotionsMayCollide(p, q(pair))
                             THEN EvaluateCollision(pair, MotionsCollide(p, q(pair))) ELSE {}
       IN  /\ motions' = [motions EXCEPT ![motion.t] =
                  [at |-> p, expires |-> Until(CollisionTTL)]]
           /\ pairs' = [pair \in Pairs |->
                  IF pair \in compared THEN Evaluated(pair, p, q(pair)) ELSE pairs[pair]]
           /\ latest' = [pair \in Pairs |->
                  IF pair \in compared /\ events(pair) # {}
                    THEN CollisionEventForPair(pair, CHOOSE kind \in events(pair) : TRUE)
                    ELSE latest[pair]]
    /\ collider' = IF Len(collider.todo) = 1
                     THEN [todo |-> <<>>, active |-> [t \in Trackables |-> "none"]]
                     ELSE [collider EXCEPT !.todo = Tail(@)]
    /\ UNCHANGED <<now, filter, tracks, workers, queue, located, points, published,
                   irregular, missed>>

(* deleteProviderState of the trackable's provider.                        *)
DeleteMotion(t) ==
    /\ motions[t] # NoMotion
    /\ located < MaxLocations[filter]
    /\ located' = located + 1
    /\ motions' = [motions EXCEPT ![t] = NoMotion]
    /\ missed' = missed \cup {t}
    /\ UNCHANGED <<now, filter, tracks, workers, queue, collider, pairs, latest,
                   points, published, irregular>>

MotionsNext ==
    \/ \E location \in Locations[filter] :
           now >= location.age /\ Take(location, now - location.age)
    \/ \E w \in Deciders : Read(w) \/ Write(w) \/ Derive(w)
    \/ TakeCollisionWork \/ Collide
    \/ \E t \in Trackables : DeleteMotion(t)

(* The sweeper's part.                                                     *)
SweptTracks  == [t \in Trackables |-> Kept(tracks[t], NoTrack)]
SweptMotions == [t \in Trackables |-> Kept(motions[t], NoMotion)]
SweptPairs   == [pair \in Pairs |-> Kept(pairs[pair], NoPair)]

-----------------------------------------------------------------------------
(* A trackable without irregularities is published again an interval later.*)
PublishesInTime ==
    \A t \in Trackables :
        /\ filter /\ t \notin irregular /\ EmitInterval <= MaxAge
        /\ published[t] # Never /\ published'[t] # published[t]
        => published'[t] - published[t] >= EmitInterval

(* The published locations of a trackable keep the configured distance in  *)
(* time, when its locations come in order, one by one, its filter state    *)
(* does not expire and the interval is not longer than the age window      *)
(* (KALMAN_EMIT_MAX_FREQUENCY_HZ; normalizeTrackable).                     *)
Throttled == [][PublishesInTime]_published

(* Collision decisions use every point, the ones whose publication is      *)
(* throttled included (docs/configuration.md on KALMAN_EMIT_MAX_FREQUENCY_ *)
(* HZ): once the work is done, a trackable's active motion is its latest   *)
(* point, unless the queue was full or its provider was deleted.           *)
EveryPointDecides ==
    (\A w \in Deciders : workers[w].pc = "idle") /\ queue = <<>> /\ collider.todo = <<>>
    => \A t \in Trackables \ missed :
          motions[t].at \in {"none", points[t]}

(* An event other than a start goes on with the collision before it.       *)
StoryGoesOn ==
    \A pair \in Pairs :
        latest'[pair] # latest[pair] /\ latest'[pair].kind # "start"
        => /\ latest[pair].kind \in {"start", "colliding"}
           /\ latest'[pair].start = latest[pair].start

(* A colliding event leaves the interval to the event before it.           *)
IntervalKept ==
    \A pair \in Pairs :
        latest'[pair] # latest[pair] /\ latest'[pair].kind = "colliding"
        => latest'[pair].at - latest[pair].at >= Debounce

(* The events of a pair tell a story: colliding and collision_end follow a *)
(* collision_start, with its start time and with no end in between         *)
(* (publishCollisionEvents).                                               *)
PairStory == [][StoryGoesOn]_latest

(* Two colliding events of a pair, or a start and a colliding, are the     *)
(* debounce interval apart (COLLISION_COLLIDING_DEBOUNCE;                  *)
(* evaluateCollision).                                                     *)
DebounceHonoured == [][IntervalKept]_latest

(* What a subscriber hears of a pair is one collision after another, each  *)
(* begun, debounced and ended at most once.                                *)
PairEvents == PairStory /\ DebounceHonoured
=============================================================================
