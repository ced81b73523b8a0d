--------------------------- MODULE TrackingProofs ---------------------------
(***************************************************************************)
(* Proofs about Tracking for every set of zones, policies, trackables and  *)
(* places and any number of calls and workers: a tag's zone is sticky      *)
(* within bounds and keeps its dwell, a pair's events tell its story, every*)
(* point decides, and publication is throttled.                            *)
(***************************************************************************)
EXTENDS Tracking, TLAPS

\* A function that is updated at an argument.
LEMMA Updated ==
  ASSUME NEW S, NEW T, NEW f \in [S -> T], NEW x, NEW v \in T
  PROVE  /\ [f EXCEPT ![x] = v] \in [S -> T]
         /\ \A y \in S : [f EXCEPT ![x] = v][y] = IF y = x THEN v ELSE f[y]
BY Zenon

-----------------------------------------------------------------------------
(* Proximities *)

ZoneMap == [Zones -> ZoneVersions]
State == [zone : Zones, entered : Nat, confirmed : Nat]
Stored == [zone : Zones, entered : Nat, confirmed : Nat, expires : Int]
LoadCall == [pc : {"load"}, tag : Tags, source : Zones, at : Nat, zones : ZoneMap]
StoreCall == [pc : {"store"}, tag : Tags, at : Nat, zones : ZoneMap, state : State]
Report == [zone : Zones, at : Nat, since : Nat, grace : Int, dwell : Int, stale : Int, expires : Int]

ProximityType ==
  /\ now \in Nat /\ edits \in Nat
  /\ zones \in ZoneMap
  /\ states \in [Tags -> Stored \cup {NoState}]
  /\ calls \in [Callers -> LoadCall \cup StoreCall \cup {NoCall}]
  /\ heard \in [Tags -> [Zones -> Int]]
  /\ reports \in [Tags -> Report \cup {NoReport}]

GraceOf(zone) == ProximityPolicyForZone(zone).exitGrace

\* What a call to resolve, and one to store, know of the tag.
LoadSound(call) ==
  call.at <= heard[call.tag][call.source] /\ Candidate(call.zones[call.source])

StoreSound(call) ==
  /\ call.zones[call.state.zone] # Gone
  /\ call.state.confirmed <= heard[call.tag][call.state.zone]
  /\ call.at - call.state.confirmed <= GraceOf(call.zones[call.state.zone])

StickyInv ==
  /\ \A tag \in Tags : \A z \in Zones : heard[tag][z] <= now
  /\ \A tag \in Tags : states[tag].zone # "none" =>
       states[tag].confirmed <= heard[tag][states[tag].zone]
  /\ \A c \in Callers : calls[c].pc = "load" => LoadSound(calls[c])
  /\ \A c \in Callers : calls[c].pc = "store" => StoreSound(calls[c])
  /\ StickyBounded

\* A version of a zone is one of the versions.
LEMMA VersionOfZone ==
  ASSUME NEW z \in Zones, NEW i \in DOMAIN Versions[z]
  PROVE  Versions[z][i] \in ZoneVersions
<1> DEFINE V(y) == {Versions[y][j] : j \in DOMAIN Versions[y]}
<1>1. Versions[z][i] \in V(z)
  BY Zenon
<1>2. V(z) \in {V(y) : y \in Zones}
  BY Zenon
<1>3. ZoneVersions = UNION {V(y) : y \in Zones}
  BY Zenon DEF ZoneVersions
<1> HIDE DEF V
<1> QED
  BY <1>1, <1>2, <1>3, Zenon

\* The durations of a zone's policy are numbers.
LEMMA PolicyIsInt ==
  ASSUME NEW zone \in ZoneVersions, zone # Gone
  PROVE  /\ ProximityPolicyForZone(zone).exitGrace \in Int
         /\ ProximityPolicyForZone(zone).dwell \in Int
         /\ ProximityPolicyForZone(zone).stale \in Int
<1>1. \A field \in DOMAIN PolicyDefaults : ProximityPolicyForZone(zone)[field] \in Int
  <2> SUFFICES ASSUME NEW field \in DOMAIN PolicyDefaults
               PROVE  ProximityPolicyForZone(zone)[field] \in Int
    BY Zenon
  <2>1. ProximityPolicyForZone(zone)[field] =
          IF field \in DOMAIN zone.overrides THEN zone.overrides[field] ELSE PolicyDefaults[field]
    BY Zenon DEF ProximityPolicyForZone
  <2> QED
    BY <2>1, ProximityAssumption, Zenon
<1>2. {"exitGrace", "dwell", "stale"} \subseteq DOMAIN PolicyDefaults
  BY ProximityAssumption, Zenon
<1> QED
  BY <1>1, <1>2, Zenon

\* A usable zone is there and has a positive exit grace.
LEMMA UsableZone ==
  ASSUME NEW zone \in ZoneVersions, Usable(zone)
  PROVE  zone # Gone /\ GraceOf(zone) \in Int /\ GraceOf(zone) > 0
<1>1. zone # Gone /\ GraceOf(zone) > 0
  BY Zenon DEF Usable, ValidPolicy, GraceOf
<1> QED
  BY <1>1, PolicyIsInt, Zenon DEF GraceOf

\* What resolveProximity comes to, and on what account.
Resolution(call, state, r) ==
  LET current == call.zones[state.zone]
      policy == ProximityPolicyForZone(current)
      stays == Stays(call, state, current, call.zones[call.source], policy)
      expired == ProximityStateExpired(state, policy, call.at)
      live == state.zone # "none" /\ Usable(current) /\ ~expired
  IN \/ r.pc = "failed" /\ state.zone # "none" /\ current # Gone /\ ~Usable(current)
     \/ /\ r.pc = "store" /\ r.state = Enter(call.source, call.at)
        /\ \/ state.zone = "none" \/ current = Gone
           \/ Usable(current) /\ expired
           \/ live /\ state.zone # call.source /\ ~stays
     \/ /\ r.pc = "store" /\ live /\ state.zone = call.source
        /\ r.state = [zone |-> state.zone, entered |-> state.entered, confirmed |-> call.at]
     \/ /\ r.pc = "store" /\ live /\ state.zone # call.source /\ stays
        /\ r.state = [zone |-> state.zone, entered |-> state.entered, confirmed |-> state.confirmed]

\* resolveProximity, case by case.
LEMMA Resolutions ==
  ASSUME NEW call, NEW state
  PROVE  Resolution(call, state, ResolveProximity(call, state))
<1> DEFINE current == call.zones[state.zone]
           policy == ProximityPolicyForZone(current)
           stays == Stays(call, state, current, call.zones[call.source], policy)
           expired == ProximityStateExpired(state, policy, call.at)
           entered == Enter(call.source, call.at)
           kept == [zone |-> state.zone, entered |-> state.entered, confirmed |-> state.confirmed]
           r == ResolveProximity(call, state)
<1>1. r = IF state.zone = "none" \/ (state.zone # "none" /\ current = Gone)
            THEN [pc |-> "store", state |-> entered]
          ELSE IF ~Usable(current) THEN [pc |-> "failed"]
          ELSE IF expired THEN [pc |-> "store", state |-> entered]
          ELSE [pc |-> "store",
                state |-> IF state.zone = call.source THEN [kept EXCEPT !.confirmed = call.at]
                          ELSE IF stays THEN kept ELSE entered]
  BY Zenon DEF ResolveProximity
<1>2. [kept EXCEPT !.confirmed = call.at] =
        [zone |-> state.zone, entered |-> state.entered, confirmed |-> call.at]
  OBVIOUS
<1>3. \A x : [pc |-> "store", state |-> x].pc = "store" /\ [pc |-> "store", state |-> x].state = x
  BY Zenon
<1>4. [pc |-> "failed"].pc = "failed"
  BY Zenon
<1> HIDE DEF current, policy, stays, expired, entered, r
<1>5. \/ r.pc = "failed" /\ state.zone # "none" /\ current # Gone /\ ~Usable(current)
      \/ /\ r.pc = "store" /\ r.state = entered
         /\ \/ state.zone = "none" \/ current = Gone
            \/ Usable(current) /\ expired
            \/ /\ state.zone # "none" /\ Usable(current) /\ ~expired
               /\ state.zone # call.source /\ ~stays
      \/ /\ r.pc = "store" /\ state.zone # "none" /\ Usable(current) /\ ~expired
         /\ state.zone = call.source /\ r.state = [kept EXCEPT !.confirmed = call.at]
      \/ /\ r.pc = "store" /\ state.zone # "none" /\ Usable(current) /\ ~expired
         /\ state.zone # call.source /\ stays /\ r.state = kept
  <2> HIDE DEF kept
  <2> QED
    BY <1>1, <1>3, <1>4, Zenon
<1> QED
  BY <1>2, <1>5, Zenon DEF Resolution, current, policy, stays, expired, entered, r

\* A call in progress is one to resolve or one to store.
LEMMA CallKinds ==
  ASSUME ProximityType, NEW c \in Callers
  PROVE  /\ calls[c].pc = "load" => calls[c] \in LoadCall
         /\ calls[c].pc = "store" => calls[c] \in StoreCall
         /\ calls[c].pc \in {"idle", "load", "store"}
         /\ calls[c].pc # "idle" => calls[c].tag \in Tags
         /\ calls[c].pc = "idle" => calls[c] = NoCall
<1>1. calls[c] \in LoadCall \cup StoreCall \cup {NoCall}
  BY Zenon DEF ProximityType
<1>2. /\ \A x \in LoadCall : x.pc = "load" /\ x.tag \in Tags
      /\ \A x \in StoreCall : x.pc = "store" /\ x.tag \in Tags
      /\ NoCall.pc = "idle"
  BY Zenon DEF LoadCall, StoreCall, NoCall
<1> QED
  BY <1>1, <1>2, Zenon

\* A state is one of a zone, or none.
LEMMA StateKinds ==
  ASSUME NEW s \in Stored \cup {NoState}
  PROVE  /\ s.zone # "none" => s \in Stored /\ s.zone \in Zones
         /\ s \in Stored => s.zone # "none"
         /\ s.expires \in Int
         /\ NoState.zone = "none"
<1>1. NoState.zone = "none" /\ NoState.expires \in Int
  BY DEF NoState
<1>2. \A x \in Stored : x.zone \in Zones /\ x.expires \in Int
  BY Zenon DEF Stored
<1>3. "none" \notin Zones
  BY ProximityAssumption, Zenon
<1> QED
  BY <1>1, <1>2, <1>3, Zenon

\* A caller has taken up a proximity.
NewCall(c, tag, z) ==
  /\ calls[c].pc = "idle" /\ Candidate(zones[z])
  /\ calls'[c] = [pc |-> "load", tag |-> tag, source |-> z, at |-> now, zones |-> zones]
  /\ calls'[c] \in LoadCall /\ calls' \in [Callers -> LoadCall \cup StoreCall \cup {NoCall}]
  /\ \A d \in Callers \ {c} : calls'[d] = calls[d]
  /\ heard' \in [Tags -> [Zones -> Int]]
  /\ \A u \in Tags : \A y \in Zones : heard'[u][y] = IF u = tag /\ y = z THEN now ELSE heard[u][y]
  /\ raced' = IF \E d \in Callers : calls[d].pc # "idle" /\ calls[d].tag = tag
                THEN raced \cup {tag} ELSE raced

\* A proximity is taken up, or nothing changes.
LEMMA BeginCall ==
  ASSUME ProximityType, NEW c \in Callers, NEW tag \in Tags, NEW z \in Zones, NEW confidence,
         BeginProximity(c, tag, z, confidence)
  PROVE  NewCall(c, tag, z) \/ UNCHANGED <<calls, proximities, heard, raced>>
<1> SUFFICES ASSUME ~UNCHANGED <<calls, proximities, heard, raced>>
             PROVE  NewCall(c, tag, z)
  BY Zenon
<1> DEFINE new == [pc |-> "load", tag |-> tag, source |-> z, at |-> now, zones |-> zones]
<1>1. /\ calls[c].pc = "idle" /\ Candidate(zones[z])
      /\ calls' = [calls EXCEPT ![c] = new]
      /\ heard' = [heard EXCEPT ![tag][z] = now]
      /\ raced' = IF \E d \in Callers : calls[d].pc # "idle" /\ calls[d].tag = tag
                    THEN raced \cup {tag} ELSE raced
  BY Zenon DEF BeginProximity
<1>2. new \in LoadCall
  BY Zenon DEF LoadCall, ProximityType
<1> HIDE DEF new
<1>3. calls' \in [Callers -> LoadCall \cup StoreCall \cup {NoCall}]
  BY <1>1, <1>2, Zenon DEF ProximityType
<1>4. calls'[c] = new /\ \A d \in Callers \ {c} : calls'[d] = calls[d]
  BY <1>1, Zenon DEF ProximityType
<1>5. heard \in [Tags -> [Zones -> Int]] /\ now \in Int
  BY DEF ProximityType
<1>6. heard' \in [Tags -> [Zones -> Int]]
  BY <1>1, <1>5, Zenon
<1>7. \A u \in Tags : \A y \in Zones : heard'[u][y] = IF u = tag /\ y = z THEN now ELSE heard[u][y]
  BY <1>1, <1>5, Zenon
<1> QED
  BY <1>1, <1>2, <1>3, <1>4, <1>6, <1>7, Zenon DEF new, NewCall

\* A call resolves its proximity.
LEMMA LoadCallStep ==
  ASSUME ProximityType, NEW c \in Callers, Load(c)
  PROVE  LET call == calls[c]
             state == Kept(states[call.tag], NoState)
             r == ResolveProximity(call, state)
         IN /\ call.pc = "load" /\ call \in LoadCall /\ call.tag \in Tags
            /\ state = NoState \/ (state = states[call.tag] /\ Alive(state))
            /\ state = states[call.tag] \/ ~Alive(states[call.tag])
            /\ state \in Stored \cup {NoState}
            /\ states'[call.tag] = state /\ \A u \in Tags \ {call.tag} : states'[u] = states[u]
            /\ states' \in [Tags -> Stored \cup {NoState}]
            /\ \A d \in Callers \ {c} : calls'[d] = calls[d]
            /\ calls'[c] = IF r.pc = "failed" THEN NoCall
                           ELSE [pc |-> "store", tag |-> call.tag, at |-> call.at,
                                 zones |-> call.zones, state |-> r.state]
            /\ calls' = [calls EXCEPT ![c] = calls'[c]]
            /\ UNCHANGED <<now, zones, proximities, edits, heard, reports, raced>>
<1> DEFINE call == calls[c]
           state == Kept(states[call.tag], NoState)
           r == ResolveProximity(call, state)
           new == IF r.pc = "failed" THEN NoCall
                  ELSE [pc |-> "store", tag |-> call.tag, at |-> call.at,
                        zones |-> call.zones, state |-> r.state]
<1>1. /\ call.pc = "load" /\ calls' = [calls EXCEPT ![c] = new]
      /\ states' = [states EXCEPT ![call.tag] = state]
      /\ UNCHANGED <<now, zones, proximities, edits, heard, reports, raced>>
  BY Zenon DEF Load
<1>2. call \in LoadCall /\ call.tag \in Tags
  BY <1>1, CallKinds, Zenon
<1>3. /\ state = NoState \/ (state = states[call.tag] /\ Alive(state))
      /\ state = states[call.tag] \/ ~Alive(states[call.tag])
  BY Zenon DEF Kept
<1>4. states[call.tag] \in Stored \cup {NoState}
  BY <1>2, Zenon DEF ProximityType
<1>5. state \in Stored \cup {NoState}
  BY <1>3, <1>4, Zenon
<1> HIDE DEF state, new, call
<1>6. /\ states'[call.tag] = state /\ \A u \in Tags \ {call.tag} : states'[u] = states[u]
      /\ states' \in [Tags -> Stored \cup {NoState}]
  BY <1>1, <1>2, <1>5, Zenon DEF ProximityType
<1>7. calls'[c] = new /\ (\A d \in Callers \ {c} : calls'[d] = calls[d])
  BY <1>1, Zenon DEF ProximityType
<1>8. calls' = [calls EXCEPT ![c] = calls'[c]]
  BY <1>1, <1>7, Zenon
<1> QED
  BY <1>1, <1>2, <1>3, <1>5, <1>6, <1>7, <1>8, Zenon DEF state, new, call

\* A call to store, for a state that is sound.
LEMMA StoreCallSound ==
  ASSUME NEW call \in LoadCall, NEW s \in State, NEW new,
         new = [pc |-> "store", tag |-> call.tag, at |-> call.at, zones |-> call.zones, state |-> s],
         call.zones[s.zone] # Gone, s.confirmed <= heard[call.tag][s.zone],
         call.at - s.confirmed <= GraceOf(call.zones[s.zone])
  PROVE  new \in StoreCall /\ StoreSound(new)
<1>1. call.tag \in Tags /\ call.at \in Nat /\ call.zones \in ZoneMap
  BY Zenon DEF LoadCall
<1>2. new.tag = call.tag /\ new.at = call.at /\ new.zones = call.zones /\ new.state = s
  BY Zenon
<1>3. new \in StoreCall
  BY <1>1, Zenon DEF StoreCall
<1> QED
  BY <1>2, <1>3, Zenon DEF StoreSound

\* What a call has resolved is within the grace of the zone.
LEMMA LoadedSound ==
  ASSUME ProximityType, StickyInv, NEW c \in Callers, Load(c)
  PROVE  calls'[c] = NoCall \/ (calls'[c] \in StoreCall /\ StoreSound(calls'[c]))
<1> DEFINE call == calls[c]
           state == Kept(states[call.tag], NoState)
           r == ResolveProximity(call, state)
           current == call.zones[state.zone]
           new == [pc |-> "store", tag |-> call.tag, at |-> call.at,
                   zones |-> call.zones, state |-> r.state]
           Sound == new \in StoreCall /\ StoreSound(new)
<1>1. /\ call.pc = "load" /\ call \in LoadCall
      /\ state = NoState \/ state = states[call.tag]
      /\ state \in Stored \cup {NoState}
      /\ calls'[c] = IF r.pc = "failed" THEN NoCall ELSE new
  BY LoadCallStep, Zenon
<1>2. LoadSound(call)
  BY <1>1, Zenon DEF StickyInv
<1>3. call.tag \in Tags /\ call.source \in Zones /\ call.at \in Nat /\ call.zones \in ZoneMap
  BY <1>1, Zenon DEF LoadCall
<1>4. \A z \in Zones : call.zones[z] \in ZoneVersions
  BY <1>3, Zenon DEF ZoneMap
<1>5. call.zones[call.source] # Gone /\ GraceOf(call.zones[call.source]) \in Int
      /\ GraceOf(call.zones[call.source]) > 0
  BY <1>2, <1>3, <1>4, UsableZone, Zenon DEF LoadSound, Candidate
<1>6. \/ r.pc = "failed"
      \/ r.pc = "store" /\ r.state = Enter(call.source, call.at)
      \/ /\ r.pc = "store" /\ state.zone # "none" /\ state.zone = call.source
         /\ r.state = [zone |-> state.zone, entered |-> state.entered, confirmed |-> call.at]
      \/ /\ r.pc = "store" /\ state.zone # "none" /\ Usable(current)
         /\ ~ProximityStateExpired(state, ProximityPolicyForZone(current), call.at)
         /\ r.state = [zone |-> state.zone, entered |-> state.entered, confirmed |-> state.confirmed]
  <2>1. Resolution(call, state, r)
    BY Resolutions, Zenon
  <2> HIDE DEF call, state, r
  <2> QED
    BY <2>1, Zenon DEF Resolution
<1> HIDE DEF call, state, r
<1>7. state.zone # "none" => /\ state = states[call.tag] /\ state.zone \in Zones
                             /\ state.entered \in Nat /\ state.confirmed \in Nat
  <2>1. state.zone # "none" => state \in Stored /\ state.zone \in Zones /\ state # NoState
    BY <1>1, StateKinds, Zenon
  <2>2. \A x \in Stored : x.entered \in Nat /\ x.confirmed \in Nat
    BY Zenon DEF Stored
  <2> QED
    BY <1>1, <2>1, <2>2, Zenon
<1>8. ASSUME NEW entered \in Nat,
             r.state = [zone |-> call.source, entered |-> entered, confirmed |-> call.at]
      PROVE  Sound
  <2> DEFINE s == r.state
  <2>1. s \in State /\ s.zone = call.source /\ s.confirmed = call.at
    BY <1>3, <1>8 DEF State
  <2> HIDE DEF s
  <2>2. call.at - s.confirmed <= GraceOf(call.zones[s.zone])
    BY <1>3, <1>5, <2>1
  <2>3. s.confirmed <= heard[call.tag][s.zone] /\ call.zones[s.zone] # Gone
    BY <1>2, <1>5, <2>1, Zenon DEF LoadSound
  <2> DEFINE n == [pc |-> "store", tag |-> call.tag, at |-> call.at, zones |-> call.zones, state |-> s]
  <2>4. \A x : x = n => x \in StoreCall /\ StoreSound(x)
    BY <1>1, <2>1, <2>2, <2>3, StoreCallSound, Zenon
  <2> QED
    BY <2>4, Zenon DEF s
<1>9. CASE r.pc = "store" /\ r.state = Enter(call.source, call.at)
  BY <1>1, <1>3, <1>8, <1>9, Zenon DEF Enter
<1>10. CASE /\ r.pc = "store" /\ state.zone # "none" /\ state.zone = call.source
            /\ r.state = [zone |-> state.zone, entered |-> state.entered, confirmed |-> call.at]
  BY <1>1, <1>3, <1>7, <1>8, <1>10, Zenon
<1>11. CASE /\ r.pc = "store" /\ state.zone # "none" /\ Usable(current)
            /\ ~ProximityStateExpired(state, ProximityPolicyForZone(current), call.at)
            /\ r.state = [zone |-> state.zone, entered |-> state.entered, confirmed |-> state.confirmed]
  <2> DEFINE s == r.state
  <2>1. s \in State /\ s.zone = state.zone /\ s.confirmed = state.confirmed
    BY <1>7, <1>11 DEF State
  <2>2. current # Gone /\ GraceOf(current) \in Int
    BY <1>4, <1>7, <1>11, UsableZone, Zenon
  <2>3. ~(call.at - state.confirmed > GraceOf(current))
    BY <1>11, Zenon DEF ProximityStateExpired, GraceOf
  <2> HIDE DEF s
  <2>4. call.at - state.confirmed <= GraceOf(current)
    <3> HIDE DEF current
    <3> QED
      BY <1>3, <1>7, <1>11, <2>2, <2>3
  <2>5. states[call.tag].zone # "none" => states[call.tag].confirmed <= heard[call.tag][states[call.tag].zone]
    BY <1>3, Zenon DEF StickyInv
  <2>6. /\ s.confirmed <= heard[call.tag][s.zone] /\ call.zones[s.zone] # Gone
        /\ call.at - s.confirmed <= GraceOf(call.zones[s.zone])
    BY <1>7, <1>11, <2>1, <2>2, <2>4, <2>5, Zenon
  <2> DEFINE n == [pc |-> "store", tag |-> call.tag, at |-> call.at, zones |-> call.zones, state |-> s]
  <2>7. \A x : x = n => x \in StoreCall /\ StoreSound(x)
    BY <1>1, <2>1, <2>6, StoreCallSound, Zenon
  <2> QED
    BY <1>1, <1>11, <2>7, Zenon DEF s
<1> QED
  BY <1>1, <1>6, <1>9, <1>10, <1>11, Zenon

\* A call stores what it has resolved.
LEMMA StoreCallStep ==
  ASSUME ProximityType, StickyInv, NEW c \in Callers, Store(c)
  PROVE  LET call == calls[c]
             s == call.state
             policy == ProximityPolicyForZone(call.zones[s.zone])
             since == IF reports[call.tag].zone = s.zone THEN reports[call.tag].since ELSE call.at
         IN /\ call.pc = "store" /\ call \in StoreCall /\ StoreSound(call)
            /\ calls' = [calls EXCEPT ![c] = NoCall]
            /\ states' = [states EXCEPT ![call.tag] =
                 [zone |-> s.zone, entered |-> s.entered, confirmed |-> s.confirmed,
                  expires |-> now + policy.stale]]
            /\ reports' = [reports EXCEPT ![call.tag] =
                 [zone |-> s.zone, at |-> call.at, since |-> since, grace |-> policy.exitGrace,
                  dwell |-> policy.dwell, stale |-> policy.stale, expires |-> now + policy.stale]]
            /\ policy.exitGrace \in Int /\ policy.dwell \in Int /\ policy.stale \in Int
            /\ now + policy.stale \in Int /\ since \in Nat
            /\ UNCHANGED <<now, zones, proximities, edits, heard, raced>>
<1> DEFINE call == calls[c]
           s == call.state
           zone == call.zones[s.zone]
           policy == ProximityPolicyForZone(zone)
           since == IF reports[call.tag].zone = s.zone THEN reports[call.tag].since ELSE call.at
<1>1. call.pc = "store"
  BY Zenon DEF Store
<1>2. call \in StoreCall /\ StoreSound(call)
  BY <1>1, CallKinds, Zenon DEF StickyInv
<1>3. call.tag \in Tags /\ call.at \in Nat /\ call.zones \in ZoneMap /\ s.zone \in Zones
  BY <1>2, Zenon DEF StoreCall, State
<1>4. zone \in ZoneVersions /\ zone # Gone
  BY <1>2, <1>3, Zenon DEF ZoneMap, StoreSound
<1>5. policy.exitGrace \in Int /\ policy.dwell \in Int /\ policy.stale \in Int
  BY <1>4, PolicyIsInt, Zenon
<1>6. now + policy.stale \in Int
  <2> HIDE DEF policy
  <2>1. now \in Int
    BY DEF ProximityType
  <2> QED
    BY <1>5, <2>1
<1>7. since \in Nat
  <2>1. reports[call.tag] \in Report \cup {NoReport}
    BY <1>3, Zenon DEF ProximityType
  <2>2. \A x \in Report \cup {NoReport} : x.since \in Nat
    BY DEF Report, NoReport
  <2> QED
    BY <1>3, <2>1, <2>2, Zenon
<1>8. /\ calls' = [calls EXCEPT ![c] = NoCall]
      /\ states' = [states EXCEPT ![call.tag] =
           [zone |-> s.zone, entered |-> s.entered, confirmed |-> s.confirmed,
            expires |-> now + policy.stale]]
      /\ reports' = [reports EXCEPT ![call.tag] =
           [zone |-> s.zone, at |-> call.at, since |-> since, grace |-> policy.exitGrace,
            dwell |-> policy.dwell, stale |-> policy.stale, expires |-> now + policy.stale]]
      /\ UNCHANGED <<now, zones, proximities, edits, heard, raced>>
  BY Zenon DEF Store, Until
<1> QED
  BY <1>1, <1>2, <1>5, <1>6, <1>7, <1>8, Zenon

\* The stored state and the report are typed.
LEMMA StoreTyped ==
  ASSUME ProximityType, StickyInv, NEW c \in Callers, Store(c)
  PROVE  /\ states' \in [Tags -> Stored \cup {NoState}]
         /\ reports' \in [Tags -> Report \cup {NoReport}]
         /\ calls' \in [Callers -> LoadCall \cup StoreCall \cup {NoCall}]
<1> DEFINE call == calls[c]
           s == call.state
           policy == ProximityPolicyForZone(call.zones[s.zone])
           since == IF reports[call.tag].zone = s.zone THEN reports[call.tag].since ELSE call.at
           grace == policy.exitGrace
           dwell == policy.dwell
           stale == policy.stale
           expires == now + stale
<1>1. /\ call \in StoreCall
      /\ calls' = [calls EXCEPT ![c] = NoCall]
      /\ states' = [states EXCEPT ![call.tag] =
           [zone |-> s.zone, entered |-> s.entered, confirmed |-> s.confirmed, expires |-> expires]]
      /\ reports' = [reports EXCEPT ![call.tag] =
           [zone |-> s.zone, at |-> call.at, since |-> since, grace |-> grace,
            dwell |-> dwell, stale |-> stale, expires |-> expires]]
      /\ grace \in Int /\ dwell \in Int /\ stale \in Int /\ expires \in Int /\ since \in Nat
  BY StoreCallStep, Zenon
<1>2. call.tag \in Tags /\ call.at \in Nat /\ s.zone \in Zones /\ s.entered \in Nat /\ s.confirmed \in Nat
  <2>1. call.tag \in Tags /\ call.at \in Nat /\ s \in State
    <3> HIDE DEF s, call
    <3>1. call \in StoreCall
      BY <1>1, Zenon
    <3>2. call.tag \in Tags /\ call.at \in Nat /\ call.state \in State
      BY <3>1, Zenon DEF StoreCall
    <3> QED
      BY <3>2, Zenon DEF s
  <2> HIDE DEF s, call
  <2> QED
    BY <2>1, Zenon DEF State
<1> HIDE DEF call, s, grace, dwell, stale, expires, since
<1>3. [zone |-> s.zone, entered |-> s.entered, confirmed |-> s.confirmed, expires |-> expires] \in Stored
  BY <1>1, <1>2, Zenon DEF Stored
<1>4. [zone |-> s.zone, at |-> call.at, since |-> since, grace |-> grace,
       dwell |-> dwell, stale |-> stale, expires |-> expires] \in Report
  BY <1>1, <1>2, Zenon DEF Report
<1> DEFINE state == [zone |-> s.zone, entered |-> s.entered, confirmed |-> s.confirmed, expires |-> expires]
           report == [zone |-> s.zone, at |-> call.at, since |-> since, grace |-> grace,
                      dwell |-> dwell, stale |-> stale, expires |-> expires]
<1> HIDE DEF state, report
<1>5. states' \in [Tags -> Stored \cup {NoState}]
  <2>1. states' = [states EXCEPT ![call.tag] = state] /\ state \in Stored
    BY <1>1, <1>3, Zenon DEF state
  <2>2. states \in [Tags -> Stored \cup {NoState}]
    BY Zenon DEF ProximityType
  <2>3. state \in Stored \cup {NoState}
    BY <2>1, Zenon
  <2> QED
    BY <2>1, <2>2, <2>3, Updated, Zenon
<1>6. reports' \in [Tags -> Report \cup {NoReport}]
  <2>1. reports' = [reports EXCEPT ![call.tag] = report] /\ report \in Report
    BY <1>1, <1>4, Zenon DEF report
  <2>2. reports \in [Tags -> Report \cup {NoReport}]
    BY Zenon DEF ProximityType
  <2>3. report \in Report \cup {NoReport}
    BY <2>1, Zenon
  <2> QED
    BY <2>1, <2>2, <2>3, Updated, Zenon
<1>7. calls' \in [Callers -> LoadCall \cup StoreCall \cup {NoCall}]
  <2>1. calls \in [Callers -> LoadCall \cup StoreCall \cup {NoCall}]
    BY Zenon DEF ProximityType
  <2>2. calls' = [calls EXCEPT ![c] = NoCall]
    BY <1>1, Zenon
  <2> QED
    BY <2>1, <2>2, Zenon
<1> QED
  BY <1>5, <1>6, <1>7, Zenon

\* Everything but a step of the proximity stage leaves its calls alone.
Around == PassTime \/ SweepTracking \/ (MotionsNext /\ UNCHANGED proximityVars) \/ UNCHANGED trackingVars

\* What happens around the stage to what it knows: time passes, entries expire.
LEMMA AroundCalls ==
  ASSUME ProximityType, Around
  PROVE  /\ now' \in Nat /\ now' >= now
         /\ UNCHANGED <<zones, calls, proximities, edits, heard, reports, raced>>
         /\ \A tag \in Tags : \/ states'[tag] = states[tag]
                              \/ states'[tag] = NoState /\ ~Alive(states[tag])
         /\ states' \in [Tags -> Stored \cup {NoState}]
         /\ now' # now => states' = states
<1>1. now' = now \/ (now' = now + 1 /\ states' = states)
  BY Zenon DEF Around, PassTime, SweepTracking, MotionsNext, Take, Read, Write, Derive,
     TakeCollisionWork, Collide, DeleteMotion, trackingVars, proximityVars
<1>2. UNCHANGED <<zones, calls, proximities, edits, heard, reports, raced>>
  BY Zenon DEF Around, PassTime, SweepTracking, trackingVars, proximityVars
<1>3. states' = SweptStates \/ states' = states
  BY Zenon DEF Around, PassTime, SweepTracking, trackingVars, proximityVars
<1>4. \A tag \in Tags : \/ states'[tag] = states[tag]
                        \/ states'[tag] = NoState /\ ~Alive(states[tag])
  BY <1>3, Zenon DEF SweptStates, Kept
<1>5. SweptStates \in [Tags -> Stored \cup {NoState}]
  BY Zenon DEF SweptStates, Kept, ProximityType
<1>6. states \in [Tags -> Stored \cup {NoState}] /\ now \in Nat
  BY Zenon DEF ProximityType
<1>7. now' \in Nat /\ now' >= now
  BY <1>1, <1>6
<1>8. now' # now => states' = states
  BY <1>1, Zenon
<1> QED
  BY <1>2, <1>3, <1>4, <1>5, <1>6, <1>7, <1>8, Zenon

\* When a tag is heard again, what was sound stays so.
LEMMA HeardAgain ==
  ASSUME heard \in [Tags -> [Zones -> Int]], heard' \in [Tags -> [Zones -> Int]],
         \A tag \in Tags : \A z \in Zones : heard[tag][z] <= heard'[tag][z]
  PROVE  /\ \A call \in LoadCall : LoadSound(call) => LoadSound(call)'
         /\ \A call \in StoreCall : StoreSound(call) => StoreSound(call)'
         /\ \A s \in Stored, tag \in Tags : s.confirmed <= heard[tag][s.zone] => s.confirmed <= heard'[tag][s.zone]
         /\ \A r \in Report, tag \in Tags : r.at - heard[tag][r.zone] <= r.grace => r.at - heard'[tag][r.zone] <= r.grace
<1>1. \A tag \in Tags : \A z \in Zones :
        heard[tag][z] \in Int /\ heard'[tag][z] \in Int /\ heard[tag][z] <= heard'[tag][z]
  BY Zenon
<1>2. \A a \in Int, b \in Int, n \in Int, g \in Int :
        a <= b => (n <= a => n <= b) /\ (n - a <= g => n - b <= g)
  OBVIOUS
<1>3. \A call \in LoadCall : LoadSound(call) => LoadSound(call)'
  <2>1. \A call \in LoadCall : call.tag \in Tags /\ call.source \in Zones /\ call.at \in Int
    BY DEF LoadCall
  <2> QED
    BY <1>1, <1>2, <2>1, Zenon DEF LoadSound
<1>4. \A call \in StoreCall : StoreSound(call) => StoreSound(call)'
  <2>1. \A call \in StoreCall : call.tag \in Tags /\ call.state \in State
    BY Zenon DEF StoreCall
  <2>2. \A s \in State : s.zone \in Zones /\ s.confirmed \in Int
    BY DEF State
  <2> SUFFICES ASSUME NEW call \in StoreCall, StoreSound(call) PROVE StoreSound(call)'
    BY Zenon
  <2>3. call.state.confirmed <= heard'[call.tag][call.state.zone]
    <3> DEFINE n == call.state.confirmed
               a == heard[call.tag][call.state.zone]
               b == heard'[call.tag][call.state.zone]
    <3>1. n \in Int /\ a \in Int /\ b \in Int /\ a <= b /\ n <= a
      BY <1>1, <2>1, <2>2, Zenon DEF StoreSound
    <3> HIDE DEF n, a, b
    <3>2. n <= b
      BY <3>1
    <3> QED
      BY <3>2, Zenon DEF n, b
  <2> QED
    BY <2>3, Zenon DEF StoreSound
<1>5. \A s \in Stored, tag \in Tags : s.confirmed <= heard[tag][s.zone] => s.confirmed <= heard'[tag][s.zone]
  <2>1. \A s \in Stored : s.zone \in Zones /\ s.confirmed \in Int
    BY DEF Stored
  <2> QED
    BY <1>1, <1>2, <2>1, Zenon
<1>6. \A r \in Report, tag \in Tags : r.at - heard[tag][r.zone] <= r.grace => r.at - heard'[tag][r.zone] <= r.grace
  <2>1. \A r \in Report : r.zone \in Zones /\ r.at \in Int /\ r.grace \in Int
    BY DEF Report
  <2> SUFFICES ASSUME NEW r \in Report, NEW tag \in Tags, r.at - heard[tag][r.zone] <= r.grace
               PROVE  r.at - heard'[tag][r.zone] <= r.grace
    BY Zenon
  <2>2. r.at \in Int /\ r.grace \in Int /\ heard[tag][r.zone] \in Int /\ heard'[tag][r.zone] \in Int
        /\ heard[tag][r.zone] <= heard'[tag][r.zone]
    BY <1>1, <2>1, Zenon
  <2> QED
    BY <2>2
<1> QED
  BY <1>3, <1>4, <1>5, <1>6, Zenon

\* Reports are of a zone, or there is none.
LEMMA ReportKinds ==
  ASSUME NEW r \in Report \cup {NoReport}
  PROVE  (r.zone # "none" => r \in Report) /\ (r \in Report => r.zone \in Zones /\ r.zone # "none")
<1>1. NoReport.zone = "none"
  BY Zenon DEF NoReport
<1>2. \A x \in Report : x.zone \in Zones
  BY Zenon DEF Report
<1> QED
  BY <1>1, <1>2, ProximityAssumption, Zenon

\* A new call is sound.
LEMMA BeginSound ==
  ASSUME ProximityType, StickyInv, NEW c \in Callers, NEW tag \in Tags, NEW z \in Zones,
         NEW confidence, BeginProximity(c, tag, z, confidence)
  PROVE  ProximityType' /\ StickyInv'
<1>1. UNCHANGED <<now, zones, states, edits, reports>>
  BY Zenon DEF BeginProximity
<1>2. CASE UNCHANGED <<calls, proximities, heard, raced>>
  <2>1. ProximityType'
    BY <1>1, <1>2, Zenon DEF ProximityType
  <2>2. StickyInv'
    BY <1>1, <1>2, Zenon DEF StickyInv, StickyBounded, LoadSound, StoreSound
  <2> QED
    BY <2>1, <2>2, Zenon
<1>3. CASE NewCall(c, tag, z)
  <2> DEFINE new == [pc |-> "load", tag |-> tag, source |-> z, at |-> now, zones |-> zones]
  <2>1. /\ Candidate(zones[z]) /\ calls'[c] = new /\ calls'[c] \in LoadCall
        /\ calls' \in [Callers -> LoadCall \cup StoreCall \cup {NoCall}]
        /\ \A d \in Callers \ {c} : calls'[d] = calls[d]
        /\ heard' \in [Tags -> [Zones -> Int]]
        /\ \A u \in Tags : \A y \in Zones : heard'[u][y] = IF u = tag /\ y = z THEN now ELSE heard[u][y]
    BY <1>3, Zenon DEF NewCall
  <2>2. ProximityType'
    BY <1>1, <2>1, Zenon DEF ProximityType
  <2>3. now \in Int /\ heard \in [Tags -> [Zones -> Int]] /\ now <= now
    BY DEF ProximityType
  <2>4. \A u \in Tags : \A y \in Zones : heard[u][y] <= heard[u][y] /\ heard[u][y] <= now
    <3>1. \A u \in Tags : \A y \in Zones : heard[u][y] \in Int
      BY <2>3, Zenon
    <3>2. \A a \in Int : a <= a
      OBVIOUS
    <3> QED
      BY <3>1, <3>2, Zenon DEF StickyInv
  <2>5. \A u \in Tags : \A y \in Zones : heard[u][y] <= heard'[u][y] /\ heard'[u][y] <= now'
    BY <1>1, <2>1, <2>3, <2>4, Zenon
  <2>6. /\ \A call \in LoadCall : LoadSound(call) => LoadSound(call)'
        /\ \A call \in StoreCall : StoreSound(call) => StoreSound(call)'
        /\ \A s \in Stored, u \in Tags : s.confirmed <= heard[u][s.zone] => s.confirmed <= heard'[u][s.zone]
        /\ \A r \in Report, u \in Tags : r.at - heard[u][r.zone] <= r.grace => r.at - heard'[u][r.zone] <= r.grace
    BY <2>1, <2>3, <2>5, HeardAgain, Zenon
  <2>7. LoadSound(new)' /\ new.pc = "load"
    <3>1. new.tag = tag /\ new.source = z /\ new.at = now /\ new.zones = zones /\ new.pc = "load"
      BY Zenon
    <3>2. heard'[tag][z] = now
      BY <2>1, Zenon
    <3>3. new' = new
      BY <1>1, Zenon
    <3> HIDE DEF new
    <3> QED
      BY <2>1, <2>3, <3>1, <3>2, <3>3, Zenon DEF LoadSound
  <2>8. \A d \in Callers : /\ calls'[d].pc = "load" => LoadSound(calls[d])'
                           /\ calls'[d].pc = "store" => StoreSound(calls[d])'
    <3> HIDE DEF new
    <3> SUFFICES ASSUME NEW d \in Callers
                 PROVE  /\ calls'[d].pc = "load" => LoadSound(calls[d])'
                        /\ calls'[d].pc = "store" => StoreSound(calls[d])'
      BY Zenon
    <3>1. CASE d = c
      <4>1. calls'[d] = new /\ new' = new
        BY <1>1, <2>1, <3>1, Zenon DEF new
      <4>2. LoadSound(calls[d])'
        BY <2>7, <4>1, Zenon DEF LoadSound
      <4>3. calls'[d].pc # "store"
        BY <2>7, <4>1, Zenon
      <4> QED
        BY <4>2, <4>3, Zenon
    <3>2. CASE d # c
      <4>1. calls'[d] = calls[d]
        BY <2>1, <3>2, Zenon
      <4>2. /\ calls[d].pc = "load" => calls[d] \in LoadCall /\ LoadSound(calls[d])
            /\ calls[d].pc = "store" => calls[d] \in StoreCall /\ StoreSound(calls[d])
        BY CallKinds, Zenon DEF StickyInv
      <4> QED
        BY <2>6, <4>1, <4>2, Zenon DEF LoadSound, StoreSound
    <3> QED
      BY <3>1, <3>2, Zenon
  <2>9. \A u \in Tags : states[u].zone # "none" =>
          states[u].confirmed <= heard'[u][states[u].zone]
    <3>1. \A u \in Tags : states[u].zone # "none" => states[u] \in Stored
      BY StateKinds, Zenon DEF ProximityType
    <3> QED
      BY <2>6, <3>1, Zenon DEF StickyInv
  <2>10. StickyBounded'
    <3>1. \A u \in Tags : reports[u].zone # "none" => reports[u] \in Report
      BY ReportKinds, Zenon DEF ProximityType
    <3> QED
      BY <1>1, <2>6, <3>1, Zenon DEF StickyInv, StickyBounded
  <2> QED
    BY <1>1, <2>2, <2>5, <2>8, <2>9, <2>10, Zenon DEF StickyInv
<1> QED
  BY <1>2, <1>3, BeginCall, Zenon

\* A call that resolves keeps what is known.
LEMMA LoadKeeps ==
  ASSUME ProximityType, StickyInv, NEW c \in Callers, Load(c)
  PROVE  ProximityType' /\ StickyInv'
<1> DEFINE call == calls[c]
           state == Kept(states[call.tag], NoState)
           Types == LoadCall \cup StoreCall \cup {NoCall}
<1>1. /\ call.tag \in Tags /\ (state = NoState \/ state = states[call.tag])
      /\ states'[call.tag] = state /\ \A u \in Tags \ {call.tag} : states'[u] = states[u]
      /\ states' \in [Tags -> Stored \cup {NoState}]
      /\ \A d \in Callers \ {c} : calls'[d] = calls[d]
      /\ calls' = [calls EXCEPT ![c] = calls'[c]]
      /\ UNCHANGED <<now, zones, proximities, edits, heard, reports, raced>>
  BY LoadCallStep, Zenon
<1>2. calls'[c] = NoCall \/ (calls'[c] \in StoreCall /\ StoreSound(calls'[c]))
  BY LoadedSound, Zenon
<1>3. ProximityType'
  <2>1. calls'[c] \in Types /\ calls \in [Callers -> Types]
    BY <1>2, Zenon DEF ProximityType
  <2>2. calls' \in [Callers -> Types]
    BY <1>1, <2>1, Updated, Zenon
  <2> QED
    BY <1>1, <2>2, Zenon DEF ProximityType
<1>4. \A d \in Callers : /\ calls'[d].pc = "load" => LoadSound(calls[d])'
                         /\ calls'[d].pc = "store" => StoreSound(calls[d])'
  <2> SUFFICES ASSUME NEW d \in Callers
               PROVE  /\ calls'[d].pc = "load" => LoadSound(calls[d])'
                      /\ calls'[d].pc = "store" => StoreSound(calls[d])'
    BY Zenon
  <2>1. NoCall.pc = "idle" /\ \A x \in StoreCall : x.pc = "store"
    BY Zenon DEF NoCall, StoreCall
  <2>2. CASE d = c
    <3>1. calls'[d].pc # "load" /\ (calls'[d].pc = "store" => StoreSound(calls'[d]))
      BY <1>2, <2>1, <2>2, Zenon
    <3> QED
      BY <1>1, <3>1, Zenon DEF StoreSound
  <2>3. CASE d # c
    BY <1>1, <2>3, Zenon DEF StickyInv, LoadSound, StoreSound
  <2> QED
    BY <2>2, <2>3, Zenon
<1>5. \A u \in Tags : states'[u] = states[u] \/ states'[u].zone = "none"
  <2>1. NoState.zone = "none"
    BY Zenon DEF NoState
  <2> HIDE DEF state, call
  <2> QED
    BY <1>1, <2>1, Zenon
<1>6. UNCHANGED <<now, heard, reports>>
  BY <1>1, Zenon
<1> QED
  BY <1>3, <1>4, <1>5, <1>6, Zenon DEF StickyInv, StickyBounded

\* What a call stores and reports is within the grace of the zone.
LEMMA StoreKeeps ==
  ASSUME ProximityType, StickyInv, NEW c \in Callers, Store(c)
  PROVE  ProximityType' /\ StickyInv'
<1> DEFINE call == calls[c]
           s == call.state
           policy == ProximityPolicyForZone(call.zones[s.zone])
           since == IF reports[call.tag].zone = s.zone THEN reports[call.tag].since ELSE call.at
           state == [zone |-> s.zone, entered |-> s.entered, confirmed |-> s.confirmed,
                     expires |-> now + policy.stale]
           report == [zone |-> s.zone, at |-> call.at, since |-> since, grace |-> policy.exitGrace,
                      dwell |-> policy.dwell, stale |-> policy.stale, expires |-> now + policy.stale]
<1>1. /\ call.pc = "store" /\ call \in StoreCall /\ StoreSound(call)
      /\ calls' = [calls EXCEPT ![c] = NoCall]
      /\ states' = [states EXCEPT ![call.tag] = state]
      /\ reports' = [reports EXCEPT ![call.tag] = report]
      /\ UNCHANGED <<now, zones, proximities, edits, heard, raced>>
  BY StoreCallStep, Zenon
<1>2. ProximityType'
  BY <1>1, StoreTyped, Zenon DEF ProximityType
<1>3. /\ state.zone = s.zone /\ state.confirmed = s.confirmed
      /\ report.zone = s.zone /\ report.at = call.at /\ report.grace = policy.exitGrace
  BY Zenon
<1> HIDE DEF state, report
<1>4. /\ states \in [Tags -> Stored \cup {NoState}] /\ reports \in [Tags -> Report \cup {NoReport}]
      /\ calls \in [Callers -> LoadCall \cup StoreCall \cup {NoCall}]
  BY Zenon DEF ProximityType
<1>5. /\ \A u \in Tags : states'[u] = IF u = call.tag THEN state ELSE states[u]
      /\ \A u \in Tags : reports'[u] = IF u = call.tag THEN report ELSE reports[u]
      /\ \A d \in Callers : calls'[d] = IF d = c THEN NoCall ELSE calls[d]
  BY <1>1, <1>4, Zenon
<1>6. \A d \in Callers : /\ calls'[d].pc = "load" => LoadSound(calls[d])'
                         /\ calls'[d].pc = "store" => StoreSound(calls[d])'
  <2> SUFFICES ASSUME NEW d \in Callers
               PROVE  /\ calls'[d].pc = "load" => LoadSound(calls[d])'
                      /\ calls'[d].pc = "store" => StoreSound(calls[d])'
    BY Zenon
  <2>1. NoCall.pc = "idle"
    BY Zenon DEF NoCall
  <2>2. d # c => calls'[d] = calls[d]
    BY <1>5, Zenon
  <2>3. d = c => calls'[d].pc = "idle"
    BY <1>5, <2>1, Zenon
  <2>4. heard' = heard
    BY <1>1, Zenon
  <2> QED
    BY <2>2, <2>3, <2>4, Zenon DEF StickyInv, LoadSound, StoreSound
<1>7. s.confirmed <= heard[call.tag][s.zone] /\ call.at - s.confirmed <= policy.exitGrace
  BY <1>1, Zenon DEF StoreSound, GraceOf
<1>8. call.at - heard[call.tag][s.zone] <= policy.exitGrace
  <2>1. call.at \in Int /\ s.confirmed \in Int /\ call.tag \in Tags /\ s.zone \in Zones /\ call.zones \in ZoneMap
    BY <1>1 DEF StoreCall, State
  <2>2. heard[call.tag][s.zone] \in Int
    BY <2>1, Zenon DEF ProximityType
  <2>3. policy.exitGrace \in Int
    BY StoreCallStep, Zenon
  <2> HIDE DEF call, s, policy
  <2> QED
    BY <1>7, <2>1, <2>2, <2>3
<1>9. UNCHANGED <<now, heard>>
  BY <1>1, Zenon
<1> HIDE DEF call, s, policy, since
<1>10. StickyBounded'
  BY <1>3, <1>5, <1>8, <1>9, Zenon DEF StickyInv, StickyBounded
<1>11. \A u \in Tags : states'[u].zone # "none" => states'[u].confirmed <= heard'[u][states'[u].zone]
  BY <1>3, <1>5, <1>7, <1>9, Zenon DEF StickyInv
<1> QED
  BY <1>2, <1>6, <1>9, <1>10, <1>11, Zenon DEF StickyInv

\* Edits of zones, and what happens around the stage.
LEMMA ElsewhereKeeps ==
  ASSUME ProximityType, StickyInv,
         \/ Around
         \/ \E z \in Zones : \E i \in DOMAIN Versions[z] : EditZone(z, Versions[z][i])
  PROVE  ProximityType' /\ StickyInv'
<1>1. CASE Around
  <2>1. /\ now' \in Nat /\ now' >= now
        /\ UNCHANGED <<zones, calls, proximities, edits, heard, reports, raced>>
        /\ \A tag \in Tags : states'[tag] = states[tag] \/ states'[tag] = NoState
        /\ states' \in [Tags -> Stored \cup {NoState}]
    BY <1>1, AroundCalls, Zenon
  <2>2. ProximityType'
    BY <2>1, Zenon DEF ProximityType
  <2>3. \A tag \in Tags : \A z \in Zones : heard[tag][z] <= now'
    <3> SUFFICES ASSUME NEW tag \in Tags, NEW z \in Zones PROVE heard[tag][z] <= now'
      BY Zenon
    <3>1. heard[tag][z] \in Int /\ heard[tag][z] <= now /\ now \in Nat
      BY Zenon DEF ProximityType, StickyInv
    <3> QED
      BY <2>1, <3>1
  <2>4. NoState.zone = "none"
    BY Zenon DEF NoState
  <2> QED
    BY <2>1, <2>2, <2>3, <2>4, Zenon DEF StickyInv, StickyBounded, LoadSound, StoreSound
<1>2. ASSUME NEW z \in Zones, NEW i \in DOMAIN Versions[z], EditZone(z, Versions[z][i])
      PROVE  ProximityType' /\ StickyInv'
  <2>1. /\ zones' = [zones EXCEPT ![z] = Versions[z][i]] /\ edits' = edits + 1
        /\ UNCHANGED <<now, states, calls, proximities, heard, reports, raced>>
    BY <1>2, Zenon DEF EditZone
  <2>2. Versions[z][i] \in ZoneVersions
    BY VersionOfZone, Zenon
  <2>3. zones' \in ZoneMap
    BY <2>1, <2>2, Updated, Zenon DEF ProximityType, ZoneMap
  <2>4. edits' \in Nat
    BY <2>1 DEF ProximityType
  <2>5. ProximityType'
    BY <2>1, <2>3, <2>4, Zenon DEF ProximityType
  <2> QED
    BY <2>1, <2>5, Zenon DEF StickyInv, StickyBounded, LoadSound, StoreSound
<1> QED
  BY <1>1, <1>2, Zenon

\* The stage starts with nothing known.
LEMMA ProximityStarts ==
  ASSUME InitTracking
  PROVE  ProximityType /\ StickyInv
<1>1. /\ now = 0 /\ edits = 0 /\ zones = [z \in Zones |-> Versions[z][1]]
      /\ states = [tag \in Tags |-> NoState] /\ calls = [c \in Callers |-> NoCall]
      /\ heard = [tag \in Tags |-> [z \in Zones |-> -1]]
      /\ reports = [tag \in Tags |-> NoReport]
  BY Zenon DEF InitTracking, InitProximity
<1>2. zones \in ZoneMap
  BY <1>1, ProximityAssumption, VersionOfZone, Zenon DEF ZoneMap
<1>3. heard \in [Tags -> [Zones -> Int]] /\ \A tag \in Tags : \A z \in Zones : heard[tag][z] <= now
  BY <1>1
<1>4. /\ states \in [Tags -> Stored \cup {NoState}]
      /\ calls \in [Callers -> LoadCall \cup StoreCall \cup {NoCall}]
      /\ reports \in [Tags -> Report \cup {NoReport}]
  BY <1>1, Zenon
<1>5. now \in Nat /\ edits \in Nat
  BY <1>1, Zenon
<1>6. NoState.zone = "none" /\ NoReport.zone = "none" /\ NoCall.pc = "idle"
  BY Zenon DEF NoState, NoReport, NoCall
<1>7. /\ \A tag \in Tags : states[tag].zone = "none" /\ reports[tag].zone = "none"
      /\ \A c \in Callers : calls[c].pc = "idle"
  BY <1>1, <1>6, Zenon
<1> QED
  BY <1>2, <1>3, <1>4, <1>5, <1>7, Zenon DEF ProximityType, StickyInv, StickyBounded

\* Every step is one of the stage or happens around it.
LEMMA ProximitySteps ==
  ASSUME [TrackingNext]_trackingVars
  PROVE  \/ Around
         \/ \E c \in Callers, tag \in Tags, z \in Zones, confidence \in 0..1 :
              BeginProximity(c, tag, z, confidence)
         \/ \E c \in Callers : Load(c) \/ Store(c)
         \/ \E z \in Zones : \E i \in DOMAIN Versions[z] : EditZone(z, Versions[z][i])
BY Zenon DEF TrackingNext, Around, ProximityNext

\* What proximity resolution knows of a tag is never older than it takes it for.
LEMMA StickyInductive == TrackingSpec => [](ProximityType /\ StickyInv)
<1>1. InitTracking => ProximityType /\ StickyInv
  BY ProximityStarts, Zenon
<1>2. ProximityType /\ StickyInv /\ [TrackingNext]_trackingVars => (ProximityType /\ StickyInv)'
  <2> SUFFICES ASSUME ProximityType, StickyInv, [TrackingNext]_trackingVars
               PROVE  ProximityType' /\ StickyInv'
    BY Zenon
  <2> QED
    BY ProximitySteps, BeginSound, LoadKeeps, StoreKeeps, ElsewhereKeeps, Zenon
<1> QED
  BY <1>1, <1>2, PTL DEF TrackingSpec

\* A tag is never reported in a zone it was not near within that zone's exit grace,
\* for any number of calls, tags and zones, any policies and any edits.
THEOREM StickinessBounded == TrackingSpec => []StickyBounded
<1>1. StickyInv => StickyBounded
  BY Zenon DEF StickyInv
<1> QED
  BY <1>1, StickyInductive, PTL

-----------------------------------------------------------------------------
(* Dwell *)

Zones0 == [z \in Zones |-> Versions[z][1]]

CallOf(c, tag) == calls[c].pc # "idle" /\ calls[c].tag = tag

\* Why the tag may be reported elsewhere.
Cause(tag, t) ==
  LET old == reports[tag]
  IN \/ t - old.since >= old.dwell
     \/ t - heard[tag][old.zone] > old.grace
     \/ t - heard[tag][old.zone] > old.stale
     \/ now >= old.expires

\* The state of a tag is what was last reported, or has expired.
Remembers(tag) ==
  LET r == reports[tag]
      s == states[tag]
      policy == ProximityPolicyForZone(Zones0[r.zone])
  IN /\ r.zone = "none" => s.zone = "none"
     /\ r.zone # "none" =>
          /\ r.grace = policy.exitGrace /\ r.dwell = policy.dwell /\ r.stale = policy.stale
          /\ Candidate(Zones0[r.zone])
          /\ r.since <= now
          /\ \/ s.zone = "none" /\ now >= r.expires
             \/ s.zone = r.zone /\ r.since <= s.entered /\ s.expires = r.expires

Confirmed(tag) == states[tag].zone # "none" => states[tag].confirmed = heard[tag][states[tag].zone]

LoadQuiet(call) ==
  /\ call.zones = Zones0
  /\ call.at = heard[call.tag][call.source]
  /\ reports[call.tag].zone # "none" => reports[call.tag].since <= call.at
  /\ states[call.tag].zone # call.source => Confirmed(call.tag)

StoreQuiet(call) ==
  LET r == reports[call.tag]
      s == call.state
  IN /\ call.zones = Zones0 /\ call.at <= now
     /\ Candidate(Zones0[s.zone])
     /\ s.confirmed = heard[call.tag][s.zone]
     /\ s.zone = r.zone => r.since <= s.entered
     /\ s.zone # r.zone => s.entered = call.at /\ (r.zone # "none" => Cause(call.tag, call.at))

QuietInv(tag) ==
  /\ Remembers(tag)
  /\ \A c, d \in Callers : CallOf(c, tag) /\ CallOf(d, tag) => c = d
  /\ (\A c \in Callers : ~CallOf(c, tag)) => Confirmed(tag)
  /\ \A c \in Callers : calls[c].pc = "load" /\ calls[c].tag = tag => LoadQuiet(calls[c])
  /\ \A c \in Callers : calls[c].pc = "store" /\ calls[c].tag = tag => StoreQuiet(calls[c])

DwellInv == edits = 0 => zones = Zones0 /\ \A tag \in Tags \ raced : QuietInv(tag)

\* A step that does not concern the tag.
LEMMA SameQuiet ==
  ASSUME NEW tag \in Tags, QuietInv(tag), now' = now,
         reports'[tag] = reports[tag], states'[tag] = states[tag], heard'[tag] = heard[tag],
         \A d \in Callers : calls'[d] = calls[d] \/ (~CallOf(d, tag) /\ ~CallOf(d, tag)')
  PROVE  QuietInv(tag)'
<1>1. Remembers(tag)'
  BY Zenon DEF QuietInv, Remembers
<1>2. \A d \in Callers : CallOf(d, tag)' => CallOf(d, tag) /\ calls'[d] = calls[d]
  BY Zenon DEF CallOf
<1>3. \A c, d \in Callers : CallOf(c, tag)' /\ CallOf(d, tag)' => c = d
  BY <1>2, Zenon DEF QuietInv
<1>4. Confirmed(tag)' <=> Confirmed(tag)
  BY Zenon DEF Confirmed
<1>5. (\A c \in Callers : ~CallOf(c, tag)') => Confirmed(tag)'
  BY <1>4, Zenon DEF QuietInv, CallOf
<1>6. \A c \in Callers : calls'[c].pc = "load" /\ calls'[c].tag = tag => LoadQuiet(calls[c])'
  <2> SUFFICES ASSUME NEW c \in Callers, calls'[c].pc = "load", calls'[c].tag = tag
               PROVE  LoadQuiet(calls[c])'
    BY Zenon
  <2>1. calls'[c] = calls[c]
    BY <1>2, Zenon DEF CallOf
  <2>2. LoadQuiet(calls[c])
    BY <2>1, Zenon DEF QuietInv
  <2> QED
    BY <1>4, <2>1, <2>2, Zenon DEF LoadQuiet
<1>7. \A c \in Callers : calls'[c].pc = "store" /\ calls'[c].tag = tag => StoreQuiet(calls[c])'
  <2> SUFFICES ASSUME NEW c \in Callers, calls'[c].pc = "store", calls'[c].tag = tag
               PROVE  StoreQuiet(calls[c])'
    BY Zenon
  <2>1. calls'[c] = calls[c]
    BY <1>2, Zenon DEF CallOf
  <2>2. StoreQuiet(calls[c])
    BY <2>1, Zenon DEF QuietInv
  <2>3. \A t : Cause(tag, t) => Cause(tag, t)'
    BY Zenon DEF Cause
  <2> QED
    BY <2>1, <2>2, <2>3, Zenon DEF StoreQuiet
<1> QED
  BY <1>1, <1>3, <1>5, <1>6, <1>7, Zenon DEF QuietInv

\* What is remembered of a tag is forgotten only when it has expired.
LEMMA RemembersLater ==
  ASSUME ProximityType, NEW tag \in Tags, Remembers(tag), now' \in Nat, now' >= now,
         reports'[tag] = reports[tag],
         states'[tag] = states[tag] \/ (states'[tag] = NoState /\ ~Alive(states[tag]))
  PROVE  Remembers(tag)'
<1> DEFINE r == reports[tag]
           s == states[tag]
<1>1. NoState.zone = "none" /\ now \in Nat
  BY Zenon DEF NoState, ProximityType
<1>2. CASE r.zone = "none"
  BY <1>1, <1>2, Zenon DEF Remembers
<1>3. CASE r.zone # "none"
  <2>1. r.since \in Nat /\ r.expires \in Int
    <3>1. r \in Report
      BY <1>3, ReportKinds, Zenon DEF ProximityType
    <3> HIDE DEF r
    <3> QED
      BY <3>1, Zenon DEF Report
  <2>2. /\ r.since <= now
        /\ \/ s.zone = "none" /\ now >= r.expires
           \/ s.zone = r.zone /\ r.since <= s.entered /\ s.expires = r.expires
    BY <1>3, Zenon DEF Remembers
  <2>3. r.since <= now' /\ (now >= r.expires => now' >= r.expires)
    <3> HIDE DEF r
    <3> QED
      BY <1>1, <2>1, <2>2
  <2>4. s.expires = r.expires /\ ~Alive(s) => now' >= r.expires
    <3>1. s.expires = r.expires /\ ~Alive(s) => ~(r.expires > now)
      BY Zenon DEF Alive
    <3> HIDE DEF r, s
    <3> QED
      BY <1>1, <2>1, <3>1
  <2>5. \/ states'[tag].zone = "none" /\ now' >= r.expires
        \/ states'[tag].zone = r.zone /\ r.since <= states'[tag].entered /\ states'[tag].expires = r.expires
    BY <1>1, <2>2, <2>3, <2>4, Zenon
  <2> QED
    BY <1>3, <2>3, <2>5, Zenon DEF Remembers
<1> QED
  BY <1>2, <1>3, Zenon

\* Time passes, or entries expire.
LEMMA AroundQuiet ==
  ASSUME ProximityType, Around, NEW tag \in Tags, QuietInv(tag)
  PROVE  QuietInv(tag)'
<1>1. /\ now' \in Nat /\ now' >= now
      /\ UNCHANGED <<zones, calls, proximities, edits, heard, reports, raced>>
      /\ states'[tag] = states[tag] \/ (states'[tag] = NoState /\ ~Alive(states[tag]))
  BY AroundCalls, Zenon
<1>2. Remembers(tag)'
  BY <1>1, RemembersLater, Zenon DEF QuietInv
<1>3. Confirmed(tag) => Confirmed(tag)'
  <2>1. NoState.zone = "none"
    BY Zenon DEF NoState
  <2> QED
    BY <1>1, <2>1, Zenon DEF Confirmed
<1>4. \A c \in Callers : CallOf(c, tag)' <=> CallOf(c, tag)
  BY <1>1, Zenon DEF CallOf
<1>5. \A c \in Callers : calls'[c].pc = "load" /\ calls'[c].tag = tag => LoadQuiet(calls[c])'
  <2> SUFFICES ASSUME NEW c \in Callers, calls[c].pc = "load", calls[c].tag = tag
               PROVE  LoadQuiet(calls[c])'
    BY <1>1, Zenon
  <2>1. LoadQuiet(calls[c])
    BY Zenon DEF QuietInv
  <2>2. states'[tag].zone # calls[c].source => Confirmed(tag)'
    <3>1. NoState.zone = "none"
      BY Zenon DEF NoState
    <3> QED
      BY <1>1, <1>3, <2>1, <3>1, Zenon DEF LoadQuiet, Confirmed
  <2> QED
    BY <1>1, <2>1, <2>2, Zenon DEF LoadQuiet
<1>6. \A c \in Callers : calls'[c].pc = "store" /\ calls'[c].tag = tag => StoreQuiet(calls[c])'
  <2> SUFFICES ASSUME NEW c \in Callers, calls[c].pc = "store", calls[c].tag = tag
               PROVE  StoreQuiet(calls[c])'
    BY <1>1, Zenon
  <2>1. StoreQuiet(calls[c])
    BY Zenon DEF QuietInv
  <2>2. calls[c].at \in Nat /\ now \in Nat
    <3>1. calls[c] \in StoreCall
      BY CallKinds, Zenon
    <3> QED
      BY <3>1, Zenon DEF StoreCall, ProximityType
  <2>3. calls[c].at <= now'
    <3>1. calls[c].at <= now
      BY <2>1, Zenon DEF StoreQuiet
    <3> QED
      BY <1>1, <2>2, <3>1
  <2>4. reports[tag].zone # "none" => \A t : Cause(tag, t) => Cause(tag, t)'
    <3> SUFFICES ASSUME reports[tag].zone # "none", NEW t, Cause(tag, t) PROVE Cause(tag, t)'
      BY Zenon
    <3>1. reports[tag].expires \in Int
      <4>1. reports[tag] \in Report
        BY ReportKinds, Zenon DEF ProximityType
      <4> QED
        BY <4>1, Zenon DEF Report
    <3>2. now >= reports[tag].expires => now' >= reports[tag].expires
      BY <1>1, <2>2, <3>1
    <3> QED
      BY <1>1, <3>2, Zenon DEF Cause
  <2> QED
    BY <1>1, <2>1, <2>3, <2>4, Zenon DEF StoreQuiet
<1> QED
  BY <1>2, <1>3, <1>4, <1>5, <1>6, Zenon DEF QuietInv

\* A proximity is taken up.
LEMMA BeginQuiet ==
  ASSUME ProximityType, StickyInv, NEW c \in Callers, NEW u \in Tags, NEW z \in Zones, NewCall(c, u, z),
         UNCHANGED <<now, states, reports>>, zones = Zones0,
         NEW tag \in Tags, tag \notin raced', QuietInv(tag)
  PROVE  QuietInv(tag)'
<1> DEFINE new == [pc |-> "load", tag |-> u, source |-> z, at |-> now, zones |-> zones]
<1>1. /\ calls[c].pc = "idle" /\ calls'[c] = new
      /\ \A d \in Callers \ {c} : calls'[d] = calls[d]
      /\ \A y \in Zones : heard'[u][y] = IF y = z THEN now ELSE heard[u][y]
      /\ raced' = IF \E d \in Callers : calls[d].pc # "idle" /\ calls[d].tag = u
                    THEN raced \cup {u} ELSE raced
  BY Zenon DEF NewCall
<1>2. new.pc = "load" /\ new.tag = u /\ new.source = z /\ new.at = now /\ new.zones = zones
  BY Zenon
<1> HIDE DEF new
<1>3. CASE tag # u
  <2>1. heard'[tag] = heard[tag]
    <3>1. heard[tag] \in [Zones -> Int] /\ heard'[tag] \in [Zones -> Int]
      BY Zenon DEF ProximityType, NewCall
    <3>2. \A y \in Zones : heard'[tag][y] = heard[tag][y]
      BY <1>3, Zenon DEF NewCall
    <3> QED
      BY <3>1, <3>2
  <2>2. \A d \in Callers : calls'[d] = calls[d] \/ (~CallOf(d, tag) /\ ~CallOf(d, tag)')
    BY <1>1, <1>2, <1>3, Zenon DEF CallOf
  <2> QED
    BY <2>1, <2>2, SameQuiet, Zenon
<1>4. CASE tag = u
  <2>1. \A d \in Callers : ~CallOf(d, u)
    BY <1>1, <1>4, Zenon DEF CallOf
  <2>2. \A d \in Callers : CallOf(d, u)' => d = c
    BY <1>1, <2>1, Zenon DEF CallOf
  <2>3. CallOf(c, u)'
    <3>1. "load" # "idle"
      BY Zenon
    <3> QED
      BY <1>1, <1>2, <3>1, Zenon DEF CallOf
  <2>4. Remembers(u) /\ Remembers(u)'
    BY <1>4, Zenon DEF QuietInv, Remembers
  <2>5. states[u].zone # z => Confirmed(u)'
    <3>1. Confirmed(u)
      BY <1>4, <2>1, Zenon DEF QuietInv
    <3>2. states[u].zone # "none" => states[u].zone \in Zones
      <4>1. states[u].zone # "none" => states[u] \in Stored
        BY StateKinds, Zenon DEF ProximityType
      <4>2. \A s \in Stored : s.zone \in Zones
        BY Zenon DEF Stored
      <4> QED
        BY <4>1, <4>2, Zenon
    <3> QED
      BY <1>1, <3>1, <3>2, Zenon DEF Confirmed
  <2>6. LoadQuiet(calls[c])'
    <3>1. heard'[u][z] = now
      BY <1>1, Zenon
    <3>2. reports'[u].zone # "none" => reports'[u].since <= now
      BY <2>4, Zenon DEF Remembers
    <3> QED
      BY <1>1, <1>2, <2>5, <3>1, <3>2, Zenon DEF LoadQuiet
  <2>7. calls'[c].pc # "store"
    BY <1>1, <1>2, Zenon
  <2>8. \A d \in Callers : calls'[d].pc \in {"load", "store"} /\ calls'[d].tag = u => d = c
    <3>1. "load" # "idle" /\ "store" # "idle"
      BY Zenon
    <3> QED
      BY <2>2, <3>1, Zenon DEF CallOf
  <2>9. QuietInv(u)'
    BY <2>2, <2>3, <2>4, <2>6, <2>7, <2>8, Zenon DEF QuietInv
  <2> QED
    BY <1>4, <2>9, Zenon
<1> QED
  BY <1>3, <1>4, Zenon

\* A call stores: the tag is reported where the call has put it.
LEMMA StoreQuietStep ==
  ASSUME ProximityType, StickyInv, NEW c \in Callers, Store(c), NEW tag \in Tags, QuietInv(tag)
  PROVE  QuietInv(tag)'
<1> DEFINE call == calls[c]
           s == call.state
           policy == ProximityPolicyForZone(call.zones[s.zone])
           since == IF reports[call.tag].zone = s.zone THEN reports[call.tag].since ELSE call.at
           state == [zone |-> s.zone, entered |-> s.entered, confirmed |-> s.confirmed,
                     expires |-> now + policy.stale]
           report == [zone |-> s.zone, at |-> call.at, since |-> since, grace |-> policy.exitGrace,
                      dwell |-> policy.dwell, stale |-> policy.stale, expires |-> now + policy.stale]
<1>1. /\ call.pc = "store" /\ call \in StoreCall
      /\ calls' = [calls EXCEPT ![c] = NoCall]
      /\ states' = [states EXCEPT ![call.tag] = state]
      /\ reports' = [reports EXCEPT ![call.tag] = report]
      /\ UNCHANGED <<now, zones, proximities, edits, heard, raced>>
  BY StoreCallStep, Zenon
<1>2. /\ state.zone = s.zone /\ state.entered = s.entered /\ state.confirmed = s.confirmed
      /\ state.expires = report.expires
      /\ report.zone = s.zone /\ report.since = since /\ report.grace = policy.exitGrace
      /\ report.dwell = policy.dwell /\ report.stale = policy.stale
  BY Zenon
<1>3. call.at \in Nat /\ s.zone \in Zones /\ NoCall.pc = "idle" /\ "store" # "idle"
  BY <1>1, Zenon DEF StoreCall, State, NoCall
<1> HIDE DEF state, report
<1>4. /\ \A u \in Tags : states'[u] = IF u = call.tag THEN state ELSE states[u]
      /\ \A u \in Tags : reports'[u] = IF u = call.tag THEN report ELSE reports[u]
      /\ \A d \in Callers : calls'[d] = IF d = c THEN NoCall ELSE calls[d]
  BY <1>1, Zenon DEF ProximityType
<1>5. CASE tag # call.tag
  <2>1. \A d \in Callers : calls'[d] = calls[d] \/ (~CallOf(d, tag) /\ ~CallOf(d, tag)')
    BY <1>3, <1>4, <1>5, Zenon DEF CallOf
  <2>2. now' = now /\ reports'[tag] = reports[tag] /\ states'[tag] = states[tag] /\ heard'[tag] = heard[tag]
    BY <1>1, <1>4, <1>5, Zenon
  <2> QED
    BY <2>1, <2>2, SameQuiet, Zenon
<1>6. CASE tag = call.tag
  <2>1. StoreQuiet(call) /\ Remembers(tag)
    BY <1>1, <1>6, Zenon DEF QuietInv
  <2>2. \A d \in Callers : CallOf(d, tag) => d = c
    BY <1>1, <1>3, <1>6, Zenon DEF QuietInv, CallOf
  <2>3. \A d \in Callers : ~CallOf(d, tag)'
    BY <1>3, <1>4, <2>2, Zenon DEF CallOf
  <2>4. states'[tag] = state /\ reports'[tag] = report /\ now' = now /\ heard' = heard
    BY <1>1, <1>4, <1>6, Zenon
  <2>5. /\ call.zones = Zones0 /\ call.at <= now /\ Candidate(Zones0[s.zone])
        /\ s.confirmed = heard[tag][s.zone]
        /\ s.zone = reports[tag].zone => reports[tag].since <= s.entered
        /\ s.zone # reports[tag].zone => s.entered = call.at
    BY <1>6, <2>1, Zenon DEF StoreQuiet
  <2>6. s.zone # "none"
    BY <1>3, ProximityAssumption, Zenon
  <2>7. since <= now /\ since <= s.entered
    <3>1. CASE s.zone = reports[tag].zone
      <4>1. since = reports[tag].since
        BY <1>6, <3>1, Zenon
      <4>2. reports[tag].since <= now
        BY <2>1, <2>6, <3>1, Zenon DEF Remembers
      <4> QED
        BY <2>5, <3>1, <4>1, <4>2, Zenon
    <3>2. CASE s.zone # reports[tag].zone
      <4>1. since = call.at /\ s.entered = call.at
        BY <1>6, <2>5, <3>2, Zenon
      <4>2. call.at <= call.at
        BY <1>3
      <4> QED
        BY <2>5, <4>1, <4>2, Zenon
    <3> QED
      BY <3>1, <3>2, Zenon
  <2> HIDE DEF since, s, call
  <2>8. Remembers(tag)'
    <3>1. policy = ProximityPolicyForZone(Zones0[s.zone])
      BY <2>5, Zenon
    <3> HIDE DEF policy
    <3> QED
      BY <1>2, <2>4, <2>5, <2>6, <2>7, <3>1, Zenon DEF Remembers
  <2>9. Confirmed(tag)'
    BY <1>2, <2>4, <2>5, Zenon DEF Confirmed
  <2>10. \A d \in Callers : ~(calls'[d].pc \in {"load", "store"} /\ calls'[d].tag = tag)
    <3>1. "load" # "idle" /\ "store" # "idle"
      BY Zenon
    <3> QED
      BY <2>3, <3>1, Zenon DEF CallOf
  <2> QED
    BY <2>3, <2>8, <2>9, <2>10, Zenon DEF QuietInv
<1> QED
  BY <1>5, <1>6, Zenon

\* What resolveProximity makes of a proximity of the tag, with its reason.
LEMMA LoadedQuiet ==
  ASSUME ProximityType, StickyInv, NEW c \in Callers, Load(c), NEW tag \in Tags, calls[c].tag = tag,
         QuietInv(tag)
  PROVE  calls'[c].pc = "store" /\ calls'[c].tag = tag /\ StoreQuiet(calls[c])'
<1> DEFINE call == calls[c]
           state == Kept(states[tag], NoState)
           r == ResolveProximity(call, state)
           current == call.zones[state.zone]
           policy == ProximityPolicyForZone(current)
           old == reports[tag]
           new == [pc |-> "store", tag |-> tag, at |-> call.at, zones |-> call.zones, state |-> r.state]
<1>1. /\ call.pc = "load" /\ call \in LoadCall
      /\ state = NoState \/ (state = states[tag] /\ Alive(state))
      /\ state = states[tag] \/ ~Alive(states[tag])
      /\ state \in Stored \cup {NoState}
      /\ states'[tag] = state
      /\ calls'[c] = IF r.pc = "failed" THEN NoCall ELSE new
      /\ UNCHANGED <<now, heard, reports>>
  BY LoadCallStep, Zenon
<1>2. Resolution(call, state, r)
  BY Resolutions, Zenon
<1>3. /\ LoadQuiet(call) /\ LoadSound(call) /\ Remembers(tag)
  BY <1>1, Zenon DEF QuietInv, StickyInv
<1>4. Remembers(tag)'
  <2>1. now \in Nat /\ now >= now
    BY DEF ProximityType
  <2>2. states'[tag] = states[tag] \/ (states'[tag] = NoState /\ ~Alive(states[tag]))
    BY <1>1, Zenon
  <2> QED
    BY <1>1, <1>3, <2>1, <2>2, RemembersLater, Zenon
<1>5. /\ call.source \in Zones /\ call.at \in Nat /\ call.source # "none"
      /\ new.pc = "store" /\ new.tag = tag /\ new.at = call.at /\ new.zones = call.zones
      /\ new.state = r.state /\ NoState.zone = "none"
  <2>1. call.source \in Zones /\ call.at \in Nat
    BY <1>1, Zenon DEF LoadCall
  <2> QED
    BY <2>1, ProximityAssumption, Zenon DEF NoState
<1>6. /\ call.zones = Zones0 /\ call.at = heard[tag][call.source]
      /\ old.zone # "none" => old.since <= call.at
      /\ state.zone # "none" /\ state.zone # call.source => state.confirmed = heard[tag][state.zone]
  BY <1>1, <1>3, <1>5, Zenon DEF LoadQuiet, Confirmed
<1>7. call.at <= now
  BY <1>1, <1>5, <1>6, Zenon DEF StickyInv
<1>8. Candidate(Zones0[call.source])
  BY <1>3, <1>6, Zenon DEF LoadSound
<1> HIDE DEF new, r, state
<1>9. /\ old.zone = "none" => state.zone = "none"
      /\ state.zone # "none" => state.zone = old.zone /\ old.since <= state.entered
      /\ old.zone # "none" /\ state.zone = "none" => now >= old.expires
      /\ old.zone # "none" => /\ Candidate(Zones0[old.zone])
                              /\ old.grace = ProximityPolicyForZone(Zones0[old.zone]).exitGrace
                              /\ old.dwell = ProximityPolicyForZone(Zones0[old.zone]).dwell
                              /\ old.stale = ProximityPolicyForZone(Zones0[old.zone]).stale
  BY <1>1, <1>4, Zenon DEF Remembers
<1>10. state.zone # "none" => /\ Usable(current) /\ current # Gone /\ Candidate(Zones0[state.zone])
                              /\ old.grace = policy.exitGrace /\ old.dwell = policy.dwell
                              /\ old.stale = policy.stale
  BY <1>6, <1>9, Zenon DEF Candidate, Usable
<1>11. r.pc # "failed" /\ calls'[c] = new
  <2>1. "store" # "failed"
    BY Zenon
  <2>2. r.pc # "failed"
    BY <1>2, <1>10, <2>1, Zenon DEF Resolution
  <2> QED
    BY <1>1, <2>2, Zenon
<1>12. /\ Candidate(Zones0[r.state.zone])
       /\ r.state.confirmed = heard[tag][r.state.zone]
       /\ r.state.zone = old.zone => old.since <= r.state.entered
       /\ r.state.zone # old.zone => r.state.entered = call.at /\ (old.zone # "none" => Cause(tag, call.at))
  <2>1. CASE r.state = Enter(call.source, call.at) /\ (state.zone = "none" \/ current = Gone \/ ProximityStateExpired(state, policy, call.at)
              \/ (state.zone # call.source /\ ~Stays(call, state, current, call.zones[call.source], policy)))
    <3>1. r.state.zone = call.source /\ r.state.entered = call.at /\ r.state.confirmed = call.at
      BY <2>1 DEF Enter
    <3>2. ASSUME call.source # old.zone, old.zone # "none", state.zone # "none",
                 ProximityStateExpired(state, policy, call.at)
          PROVE  Cause(tag, call.at)
      <4>1. state.zone = old.zone /\ state.confirmed = heard[tag][old.zone]
        BY <1>6, <1>9, <3>2, Zenon
      <4> QED
        BY <1>10, <3>2, <4>1, Zenon DEF Cause, ProximityStateExpired
    <3>3. ASSUME call.source # old.zone, old.zone # "none", state.zone # "none",
                 ~Stays(call, state, current, call.zones[call.source], policy)
          PROVE  Cause(tag, call.at)
      <4>1. ~(call.at - state.entered < old.dwell) /\ old.since <= state.entered
        BY <1>9, <1>10, <3>3, Zenon DEF Stays
      <4>2. state.entered \in Nat
        <5>1. state \in Stored
          BY <1>1, <1>5, <3>3, Zenon
        <5> QED
          BY <5>1, Zenon DEF Stored
      <4>3. old.since \in Nat /\ old.dwell \in Int
        <5>1. old \in Report
          BY <1>1, <3>3, ReportKinds, Zenon DEF ProximityType
        <5> HIDE DEF old
        <5> QED
          BY <5>1, Zenon DEF Report
      <4>4. call.at - old.since >= old.dwell
        <5> HIDE DEF old, call
        <5> QED
          BY <1>5, <4>1, <4>2, <4>3
      <4> QED
        BY <4>4, Zenon DEF Cause
    <3>4. call.source # old.zone /\ old.zone # "none" => Cause(tag, call.at)
      <4>1. old.zone # "none" /\ state.zone = "none" => Cause(tag, call.at)
        BY <1>9, Zenon DEF Cause
      <4> QED
        BY <1>10, <2>1, <3>2, <3>3, <4>1, Zenon
    <3> QED
      BY <1>5, <1>6, <1>8, <3>1, <3>4, Zenon
  <2>2. CASE state.zone # "none" /\ state.zone = call.source
             /\ r.state = [zone |-> state.zone, entered |-> state.entered, confirmed |-> call.at]
    <3>1. r.state.zone = state.zone /\ r.state.entered = state.entered /\ r.state.confirmed = call.at
      BY <2>2
    <3> QED
      BY <1>6, <1>8, <1>9, <2>2, <3>1, Zenon
  <2>3. CASE state.zone # "none" /\ state.zone # call.source
             /\ r.state = [zone |-> state.zone, entered |-> state.entered, confirmed |-> state.confirmed]
    <3>1. r.state.zone = state.zone /\ r.state.entered = state.entered /\ r.state.confirmed = state.confirmed
      BY <2>3
    <3> QED
      BY <1>6, <1>9, <1>10, <2>3, <3>1, Zenon
  <2> QED
    BY <1>2, <1>11, <2>1, <2>2, <2>3, Zenon DEF Resolution
<1> QED
  BY <1>1, <1>5, <1>6, <1>7, <1>11, <1>12, Zenon DEF StoreQuiet, Cause

\* A call resolves: what it is about to store is for the tag it was for.
LEMMA LoadQuietStep ==
  ASSUME ProximityType, StickyInv, NEW c \in Callers, Load(c), NEW tag \in Tags, QuietInv(tag)
  PROVE  QuietInv(tag)'
<1> DEFINE call == calls[c]
           state == Kept(states[call.tag], NoState)
<1>1. /\ call.pc = "load"
      /\ state = NoState \/ state = states[call.tag]
      /\ state = states[call.tag] \/ ~Alive(states[call.tag])
      /\ states'[call.tag] = state /\ \A u \in Tags \ {call.tag} : states'[u] = states[u]
      /\ \A d \in Callers \ {c} : calls'[d] = calls[d]
      /\ UNCHANGED <<now, heard, reports>>
  BY LoadCallStep, Zenon
<1>2. "load" # "idle" /\ "store" # "idle" /\ "store" # "load" /\ NoCall.pc = "idle"
  BY Zenon DEF NoCall
<1>3. CASE tag # call.tag
  <2>1. calls'[c] = NoCall \/ calls'[c].tag = call.tag
    <3> DEFINE new == [pc |-> "store", tag |-> call.tag, at |-> call.at, zones |-> call.zones,
                       state |-> ResolveProximity(call, state).state]
    <3>1. calls'[c] = NoCall \/ calls'[c] = new
      BY LoadCallStep, Zenon
    <3>2. new.tag = call.tag
      BY Zenon
    <3> HIDE DEF new
    <3> QED
      BY <3>1, <3>2, Zenon
  <2>2. \A d \in Callers : calls'[d] = calls[d] \/ (~CallOf(d, tag) /\ ~CallOf(d, tag)')
    BY <1>1, <1>2, <1>3, <2>1, Zenon DEF CallOf
  <2>3. now' = now /\ reports'[tag] = reports[tag] /\ states'[tag] = states[tag] /\ heard'[tag] = heard[tag]
    BY <1>1, <1>3, Zenon
  <2> QED
    BY <2>2, <2>3, SameQuiet, Zenon
<1>4. CASE tag = call.tag
  <2>1. calls'[c].pc = "store" /\ calls'[c].tag = tag /\ StoreQuiet(calls[c])'
    BY <1>4, LoadedQuiet, Zenon
  <2>2. Remembers(tag)'
    <3>1. now' \in Nat /\ now' >= now
      BY <1>1 DEF ProximityType
    <3>2. states'[tag] = states[tag] \/ (states'[tag] = NoState /\ ~Alive(states[tag]))
      BY <1>1, <1>4, Zenon
    <3>3. reports'[tag] = reports[tag]
      BY <1>1, Zenon
    <3> QED
      BY <3>1, <3>2, <3>3, RemembersLater, Zenon DEF QuietInv
  <2>3. \A d \in Callers : CallOf(d, tag) => d = c
    BY <1>1, <1>2, <1>4, Zenon DEF QuietInv, CallOf
  <2>4. \A d \in Callers : CallOf(d, tag)' => d = c
    BY <1>1, <2>3, Zenon DEF CallOf
  <2>5. CallOf(c, tag)'
    BY <1>2, <2>1, Zenon DEF CallOf
  <2>6. \A d \in Callers : calls'[d].pc \in {"load", "store"} /\ calls'[d].tag = tag => d = c
    BY <1>2, <2>4, Zenon DEF CallOf
  <2> QED
    BY <1>2, <2>1, <2>2, <2>4, <2>5, <2>6, Zenon DEF QuietInv
<1> QED
  BY <1>3, <1>4, Zenon

\* The stage starts with nothing reported.
LEMMA DwellStarts ==
  ASSUME InitTracking
  PROVE  DwellInv
<1>1. /\ zones = Zones0 /\ states = [tag \in Tags |-> NoState] /\ calls = [c \in Callers |-> NoCall]
      /\ reports = [tag \in Tags |-> NoReport]
  BY Zenon DEF InitTracking, InitProximity, Zones0
<1>2. NoState.zone = "none" /\ NoReport.zone = "none" /\ NoCall.pc = "idle" /\ "load" # "idle" /\ "store" # "idle"
  BY Zenon DEF NoState, NoReport, NoCall
<1>3. /\ \A tag \in Tags : states[tag].zone = "none" /\ reports[tag].zone = "none"
      /\ \A c \in Callers : calls[c].pc = "idle"
  BY <1>1, <1>2, Zenon
<1> QED
  BY <1>1, <1>2, <1>3, Zenon DEF DwellInv, QuietInv, Remembers, Confirmed, CallOf

\* A step keeps what is known of the tags whose calls do not overlap.
LEMMA DwellSteps ==
  ASSUME ProximityType, StickyInv, DwellInv, [TrackingNext]_trackingVars
  PROVE  DwellInv'
<1>1. CASE Around
  <2>1. UNCHANGED <<zones, calls, proximities, edits, heard, reports, raced>>
    BY <1>1, AroundCalls, Zenon
  <2> QED
    BY <1>1, <2>1, AroundQuiet, Zenon DEF DwellInv, Zones0
<1>2. ASSUME NEW c \in Callers, NEW u \in Tags, NEW z \in Zones, NEW confidence,
             BeginProximity(c, u, z, confidence)
      PROVE  DwellInv'
  <2>1. UNCHANGED <<now, zones, states, edits, reports>>
    BY <1>2, Zenon DEF BeginProximity
  <2>2. CASE NewCall(c, u, z)
    <3>1. raced \subseteq raced'
      BY <2>2, Zenon DEF NewCall
    <3>2. ASSUME NEW tag \in Tags, tag \notin raced', edits = 0
          PROVE  QuietInv(tag)'
      BY <2>1, <2>2, <3>1, <3>2, BeginQuiet, Zenon DEF DwellInv
    <3> QED
      BY <2>1, <3>2, Zenon DEF DwellInv, Zones0
  <2>3. CASE UNCHANGED <<calls, proximities, heard, raced>>
    BY <2>1, <2>3, SameQuiet, Zenon DEF DwellInv, Zones0
  <2> QED
    BY <1>2, <2>2, <2>3, BeginCall, Zenon
<1>3. ASSUME NEW c \in Callers, Load(c)
      PROVE  DwellInv'
  <2>1. UNCHANGED <<zones, edits, raced>>
    BY <1>3, Zenon DEF Load
  <2> QED
    BY <1>3, <2>1, LoadQuietStep, Zenon DEF DwellInv, Zones0
<1>4. ASSUME NEW c \in Callers, Store(c)
      PROVE  DwellInv'
  <2>1. UNCHANGED <<zones, edits, raced>>
    BY <1>4, Zenon DEF Store
  <2> QED
    BY <1>4, <2>1, StoreQuietStep, Zenon DEF DwellInv, Zones0
<1>5. ASSUME NEW z \in Zones, NEW i \in DOMAIN Versions[z], EditZone(z, Versions[z][i])
      PROVE  DwellInv'
  <2>1. edits' # 0
    BY <1>5 DEF EditZone, ProximityType
  <2> QED
    BY <2>1, Zenon DEF DwellInv
<1> QED
  BY <1>1, <1>2, <1>3, <1>4, <1>5, ProximitySteps, Zenon

\* A report in another zone than the one before has its reason.
LEMMA LeavingHasCause ==
  ASSUME ProximityType, StickyInv, DwellInv, [TrackingNext]_trackingVars
  PROVE  [LeavesForCause]_reports
<1> SUFFICES ASSUME reports' # reports, NEW tag \in Tags, reports[tag].zone # "none",
                    reports'[tag].zone # reports[tag].zone, tag \notin raced, edits = 0
             PROVE  Cause(tag, reports'[tag].at)
  BY Zenon DEF LeavesForCause, Cause
<1>1. ASSUME Around PROVE FALSE
  BY <1>1, AroundCalls, Zenon
<1>2. ASSUME NEW c \in Callers, Store(c)
      PROVE  Cause(tag, reports'[tag].at)
  <2> DEFINE call == calls[c]
             s == call.state
             policy == ProximityPolicyForZone(call.zones[s.zone])
             since == IF reports[call.tag].zone = s.zone THEN reports[call.tag].since ELSE call.at
             report == [zone |-> s.zone, at |-> call.at, since |-> since, grace |-> policy.exitGrace,
                        dwell |-> policy.dwell, stale |-> policy.stale, expires |-> now + policy.stale]
  <2>1. call.pc = "store" /\ reports' = [reports EXCEPT ![call.tag] = report]
    BY <1>2, StoreCallStep, Zenon
  <2>2. report.zone = s.zone /\ report.at = call.at
    BY Zenon
  <2> HIDE DEF report
  <2>3. tag = call.tag /\ reports'[tag] = report
    BY <2>1, Zenon DEF ProximityType
  <2>4. StoreQuiet(call)
    BY <2>1, <2>3, Zenon DEF DwellInv, QuietInv
  <2> QED
    BY <2>2, <2>3, <2>4, Zenon DEF StoreQuiet
<1>3. ASSUME NEW c \in Callers, Load(c) PROVE FALSE
  BY <1>3, Zenon DEF Load
<1>4. ASSUME NEW c \in Callers, NEW u \in Tags, NEW z \in Zones, NEW confidence,
             BeginProximity(c, u, z, confidence)
      PROVE  FALSE
  BY <1>4, Zenon DEF BeginProximity
<1>5. ASSUME NEW z \in Zones, NEW i \in DOMAIN Versions[z], EditZone(z, Versions[z][i])
      PROVE  FALSE
  BY <1>5, Zenon DEF EditZone
<1> QED
  BY <1>1, <1>2, <1>3, <1>4, <1>5, ProximitySteps, Zenon

\* A tag whose calls do not overlap leaves a zone only after the minimum dwell, or
\* because it was not near the zone for too long or the stored state had expired;
\* for any number of calls, tags and zones and any policies.
THEOREM DwellIsHonoured == TrackingSpec => DwellHonoured
<1>1. InitTracking => DwellInv
  BY DwellStarts, Zenon
<1>2. ProximityType /\ StickyInv /\ DwellInv /\ [TrackingNext]_trackingVars => DwellInv'
  BY DwellSteps, Zenon
<1>3. ProximityType /\ StickyInv /\ DwellInv /\ [TrackingNext]_trackingVars => [LeavesForCause]_reports
  BY LeavingHasCause, Zenon
<1> QED
  BY <1>1, <1>2, <1>3, StickyInductive, PTL DEF TrackingSpec, DwellHonoured

-----------------------------------------------------------------------------
(* Collisions *)

PairState == [start : Nat, emitted : Nat, expires : Nat]
CollisionEvent == [kind : {"none", "start", "colliding", "end"}, start : Nat, at : Nat, turn : Int]

PairInv ==
  /\ now \in Nat
  /\ pairs \in [Pairs -> PairState]
  /\ latest \in [Pairs -> CollisionEvent]
  /\ \A pair \in Pairs :
       /\ pairs[pair].emitted <= now
       /\ pairs[pair].expires > 0 => /\ latest[pair].kind \in {"start", "colliding"}
                                     /\ latest[pair].start = pairs[pair].start
                                     /\ latest[pair].at = pairs[pair].emitted

\* What the evaluation of a pair comes to.
PairOutcome(pair) ==
  \/ pairs'[pair] \in {pairs[pair], NoPair} /\ latest'[pair] = latest[pair]
  \/ PairLive(pair) /\ pairs'[pair] = NoPair /\ latest'[pair] = CollisionEventForPair(pair, "end")
  \/ /\ ~PairLive(pair) /\ latest'[pair] = CollisionEventForPair(pair, "start")
     /\ pairs'[pair] = [start |-> now, emitted |-> now, expires |-> Until(CollisionTTL)]
  \/ /\ PairLive(pair) /\ ~Debounced(pair) /\ latest'[pair] = CollisionEventForPair(pair, "colliding")
     /\ pairs'[pair] = [start |-> pairs[pair].start, emitted |-> now, expires |-> Until(CollisionTTL)]

\* The collision worker evaluates each pair in one of these ways.
LEMMA CollideOutcome ==
  ASSUME Collide, NEW pair \in Pairs
  PROVE  PairOutcome(pair)
<1> DEFINE motion == Head(collider.todo)
           p == motion.point
           q(x) == collider.active[CHOOSE u \in x : u # motion.t]
           compared == {x \in Pairs : motion.t \in x /\ q(x) # "none" /\ Nearby(p, q(x))}
           events(x) == IF MotionsMayCollide(p, q(x))
                          THEN EvaluateCollision(x, MotionsCollide(p, q(x))) ELSE {}
<1>1. /\ pairs' = [x \in Pairs |-> IF x \in compared THEN Evaluated(x, p, q(x)) ELSE pairs[x]]
      /\ latest' = [x \in Pairs |-> IF x \in compared /\ events(x) # {}
                                      THEN CollisionEventForPair(x, CHOOSE kind \in events(x) : TRUE) ELSE latest[x]]
  BY Zenon DEF Collide
<1> DEFINE may == MotionsMayCollide(p, q(pair))
           hit == MotionsCollide(p, q(pair))
<1>2. may \in BOOLEAN /\ hit \in BOOLEAN
  <2> HIDE DEF p, q
  <2> QED
    BY DEF MotionsMayCollide, MotionsCollide
<1> HIDE DEF compared, events
<1>3. /\ pairs'[pair] = IF pair \in compared THEN Evaluated(pair, p, q(pair)) ELSE pairs[pair]
      /\ latest'[pair] = IF pair \in compared /\ events(pair) # {}
                           THEN CollisionEventForPair(pair, CHOOSE kind \in events(pair) : TRUE) ELSE latest[pair]
  BY <1>1, Zenon
<1>4. events(pair) = IF may THEN EvaluateCollision(pair, hit) ELSE {}
  BY Zenon DEF events
<1>5. Evaluated(pair, p, q(pair)) =
        IF ~may \/ ~hit THEN NoPair
        ELSE IF EvaluateCollision(pair, TRUE) = {} THEN pairs[pair]
        ELSE [start   |-> IF PairLive(pair) THEN pairs[pair].start ELSE now,
              emitted |-> now, expires |-> Until(CollisionTTL)]
  BY Zenon DEF Evaluated
<1> HIDE DEF q, p, may, hit
<1>6. \A k : {k} # {} /\ (CHOOSE kind \in {k} : TRUE) = k
  <2> SUFFICES ASSUME NEW k PROVE {k} # {} /\ (CHOOSE kind \in {k} : TRUE) = k
    BY Zenon
  <2>1. \E kind \in {k} : TRUE
    OBVIOUS
  <2>2. (CHOOSE kind \in {k} : TRUE) \in {k}
    BY <2>1, Zenon
  <2> QED
    BY <2>2, Zenon
<1>7. CASE pair \notin compared
  BY <1>3, <1>7, Zenon DEF PairOutcome
<1>8. CASE pair \in compared /\ ~may
  BY <1>3, <1>4, <1>5, <1>8, Zenon DEF PairOutcome
<1>9. CASE pair \in compared /\ may /\ ~hit
  <2>1. EvaluateCollision(pair, hit) = IF PairLive(pair) THEN {"end"} ELSE {}
    BY <1>9, Zenon DEF EvaluateCollision
  <2>2. pairs'[pair] = NoPair
    BY <1>3, <1>5, <1>9, Zenon
  <2>3. PairLive(pair) => latest'[pair] = CollisionEventForPair(pair, "end")
    BY <1>3, <1>4, <1>6, <1>9, <2>1, Zenon
  <2>4. ~PairLive(pair) => latest'[pair] = latest[pair]
    BY <1>3, <1>4, <1>9, <2>1, Zenon
  <2> QED
    BY <2>2, <2>3, <2>4, Zenon DEF PairOutcome
<1>10. CASE pair \in compared /\ may /\ hit
  <2>1. hit = TRUE
    BY <1>2, <1>10, Zenon
  <2>2. EvaluateCollision(pair, TRUE) =
          IF ~PairLive(pair) THEN {"start"} ELSE IF Debounced(pair) THEN {} ELSE {"colliding"}
    BY Zenon DEF EvaluateCollision
  <2>3. events(pair) = EvaluateCollision(pair, TRUE)
    BY <1>4, <1>10, <2>1, Zenon
  <2>4. CASE ~PairLive(pair)
    <3>1. events(pair) = {"start"}
      BY <2>2, <2>3, <2>4, Zenon
    <3>2. latest'[pair] = CollisionEventForPair(pair, "start")
      BY <1>3, <1>6, <1>10, <3>1, Zenon
    <3>3. pairs'[pair] = [start |-> now, emitted |-> now, expires |-> Until(CollisionTTL)]
      BY <1>3, <1>5, <1>6, <1>10, <2>3, <2>4, <3>1, Zenon
    <3> QED
      BY <2>4, <3>2, <3>3, Zenon DEF PairOutcome
  <2>5. CASE PairLive(pair) /\ Debounced(pair)
    BY <1>3, <1>5, <1>10, <2>2, <2>3, <2>5, Zenon DEF PairOutcome
  <2>6. CASE PairLive(pair) /\ ~Debounced(pair)
    <3>1. events(pair) = {"colliding"}
      BY <2>2, <2>3, <2>6, Zenon
    <3>2. latest'[pair] = CollisionEventForPair(pair, "colliding")
      BY <1>3, <1>6, <1>10, <3>1, Zenon
    <3>3. pairs'[pair] = [start |-> pairs[pair].start, emitted |-> now, expires |-> Until(CollisionTTL)]
      BY <1>3, <1>5, <1>6, <1>10, <2>3, <2>6, <3>1, Zenon
    <3> QED
      BY <2>6, <3>2, <3>3, Zenon DEF PairOutcome
  <2> QED
    BY <2>4, <2>5, <2>6, Zenon
<1> QED
  BY <1>7, <1>8, <1>9, <1>10, Zenon

\* What becomes of one pair keeps what is known of it, and its event, if there is
\* one, goes on with the story in time.
LEMMA PairKept ==
  ASSUME PairInv, now' = now, NEW pair \in Pairs, PairOutcome(pair)
  PROVE  /\ pairs'[pair] \in PairState /\ latest'[pair] \in CollisionEvent
         /\ pairs'[pair].emitted <= now
         /\ pairs'[pair].expires > 0 => /\ latest'[pair].kind \in {"start", "colliding"}
                                        /\ latest'[pair].start = pairs'[pair].start
                                        /\ latest'[pair].at = pairs'[pair].emitted
         /\ latest'[pair] # latest[pair] /\ latest'[pair].kind # "start" =>
              latest[pair].kind \in {"start", "colliding"} /\ latest'[pair].start = latest[pair].start
         /\ latest'[pair] # latest[pair] /\ latest'[pair].kind = "colliding" =>
              latest'[pair].at - latest[pair].at >= Debounce
<1> DEFINE old == pairs[pair]
           before == latest[pair]
           new == pairs'[pair]
           event == latest'[pair]
<1>1. /\ old \in PairState /\ before \in CollisionEvent /\ now \in Nat /\ old.emitted <= now
      /\ old.expires > 0 => before.kind \in {"start", "colliding"} /\ before.start = old.start /\ before.at = old.emitted
  BY Zenon DEF PairInv
<1>2. CollisionTTL \in Nat /\ Debounce \in Nat
  BY MotionsAssumption, Zenon
<1>3. PairLive(pair) => old.expires > 0
  BY <1>1 DEF PairLive, Alive, PairState
<1>4. NoPair \in PairState /\ NoPair.emitted = 0 /\ NoPair.expires = 0
  BY Zenon DEF NoPair, PairState
<1>5. /\ CollisionEventForPair(pair, "end") = [kind |-> "end", start |-> old.start, at |-> now, turn |-> 1 - before.turn]
      /\ CollisionEventForPair(pair, "colliding") = [kind |-> "colliding", start |-> old.start, at |-> now, turn |-> 1 - before.turn]
      /\ CollisionEventForPair(pair, "start") = [kind |-> "start", start |-> now, at |-> now, turn |-> 1 - before.turn]
  BY Zenon DEF CollisionEventForPair
<1>6. Debounced(pair) <=> PairLive(pair) /\ Debounce > 0 /\ now - old.emitted < Debounce
  BY Zenon DEF Debounced
<1>7. \/ new \in {old, NoPair} /\ event = before
      \/ PairLive(pair) /\ new = NoPair /\ event = CollisionEventForPair(pair, "end")
      \/ /\ ~PairLive(pair) /\ event = CollisionEventForPair(pair, "start")
         /\ new = [start |-> now, emitted |-> now, expires |-> now + CollisionTTL]
      \/ /\ PairLive(pair) /\ ~Debounced(pair) /\ event = CollisionEventForPair(pair, "colliding")
         /\ new = [start |-> old.start, emitted |-> now, expires |-> now + CollisionTTL]
  BY Zenon DEF PairOutcome, Until
<1> HIDE DEF old, before, new, event
<1>8. old.start \in Nat /\ 1 - before.turn \in Int
  BY <1>1 DEF PairState, CollisionEvent
<1>9. CASE new \in {old, NoPair} /\ event = before
  <2>1. new.emitted <= now /\ (new.expires > 0 => new = old)
    BY <1>1, <1>4, <1>9
  <2> QED
    BY <1>1, <1>4, <1>9, <2>1, Zenon DEF new, event, old, before
<1>10. CASE PairLive(pair) /\ new = NoPair /\ event = CollisionEventForPair(pair, "end")
  <2>1. event.kind = "end" /\ event.start = old.start /\ event \in CollisionEvent
    BY <1>1, <1>5, <1>10, <1>8 DEF CollisionEvent
  <2>2. new.emitted <= now /\ ~(new.expires > 0)
    BY <1>1, <1>4, <1>10
  <2>3. "end" # "colliding"
    OBVIOUS
  <2> QED
    BY <1>1, <1>3, <1>4, <1>10, <2>1, <2>2, <2>3, Zenon DEF new, event, old, before
<1>11. CASE /\ ~PairLive(pair) /\ event = CollisionEventForPair(pair, "start")
            /\ new = [start |-> now, emitted |-> now, expires |-> now + CollisionTTL]
  <2>1. event.kind = "start" /\ event.start = now /\ event.at = now /\ event \in CollisionEvent
    BY <1>1, <1>5, <1>11, <1>8 DEF CollisionEvent
  <2>2. new.emitted = now /\ new.start = now /\ new \in PairState /\ now <= now
    BY <1>1, <1>2, <1>11 DEF PairState
  <2>3. "start" # "colliding"
    OBVIOUS
  <2> QED
    BY <2>1, <2>2, <2>3, Zenon DEF new, event, old, before
<1>12. CASE /\ PairLive(pair) /\ ~Debounced(pair) /\ event = CollisionEventForPair(pair, "colliding")
            /\ new = [start |-> old.start, emitted |-> now, expires |-> now + CollisionTTL]
  <2>1. event.kind = "colliding" /\ event.start = old.start /\ event.at = now /\ event \in CollisionEvent
    BY <1>1, <1>5, <1>12, <1>8 DEF CollisionEvent
  <2>2. new.emitted = now /\ new.start = old.start /\ new \in PairState /\ now <= now
    BY <1>1, <1>2, <1>12 DEF PairState
  <2>3. now - old.emitted >= Debounce
    <3>1. old.emitted \in Nat
      BY <1>1, Zenon DEF PairState
    <3>2. ~(Debounce > 0 /\ now - old.emitted < Debounce)
      BY <1>6, <1>12, Zenon
    <3> QED
      BY <1>1, <1>2, <3>1, <3>2
  <2> QED
    BY <1>1, <1>3, <1>12, <2>1, <2>2, <2>3, Zenon DEF new, event, old, before
<1> QED
  BY <1>7, <1>9, <1>10, <1>11, <1>12, Zenon

\* Of the steps only a comparison and the expiry of a state touch the pairs.
LEMMA PairSteps ==
  ASSUME PairInv, [TrackingNext]_trackingVars
  PROVE  \/ Collide
         \/ /\ UNCHANGED latest /\ now' \in Nat /\ now' >= now
            /\ pairs' = pairs \/ pairs' = [pair \in Pairs |-> Kept(pairs[pair], NoPair)]
<1>1. now \in Nat
  BY Zenon DEF PairInv
<1>2. CASE PassTime
  BY <1>1, <1>2 DEF PassTime, motionVars
<1>3. ASSUME now' = now, UNCHANGED latest,
             pairs' = pairs \/ pairs' = [pair \in Pairs |-> Kept(pairs[pair], NoPair)]
      PROVE  /\ UNCHANGED latest /\ now' \in Nat /\ now' >= now
             /\ pairs' = pairs \/ pairs' = [pair \in Pairs |-> Kept(pairs[pair], NoPair)]
  BY <1>1, <1>3
<1>4. CASE SweepTracking
  BY <1>3, <1>4, Zenon DEF SweepTracking, SweptPairs
<1>5. CASE ProximityNext /\ UNCHANGED motionVars
  <2>1. now' = now
    BY <1>5, Zenon DEF ProximityNext, BeginProximity, Load, Store, EditZone
  <2> QED
    BY <1>3, <1>5, <2>1, Zenon DEF motionVars
<1>6. CASE UNCHANGED trackingVars
  BY <1>3, <1>6, Zenon DEF trackingVars, motionVars
<1>7. CASE MotionsNext
  <2>1. ASSUME ~Collide PROVE now' = now /\ UNCHANGED latest /\ pairs' = pairs
    BY <1>7, <2>1, Zenon DEF MotionsNext, Take, Read, Write, Derive, TakeCollisionWork, DeleteMotion
  <2> QED
    BY <1>3, <2>1, Zenon
<1> QED
  BY <1>2, <1>4, <1>5, <1>6, <1>7, Zenon DEF TrackingNext

\* The states of the pairs agree with the events.
LEMMA PairsInductive == TrackingSpec => []PairInv
<1>1. InitTracking => PairInv
  <2> SUFFICES ASSUME InitTracking PROVE PairInv
    OBVIOUS
  <2>1. now = 0 /\ pairs = [pair \in Pairs |-> NoPair] /\ latest = [pair \in Pairs |-> NoCollision]
    BY Zenon DEF InitTracking, InitMotions
  <2>2. NoPair \in PairState /\ NoCollision \in CollisionEvent /\ NoPair.emitted <= 0 /\ ~(NoPair.expires > 0) /\ 0 \in Nat
    BY DEF NoPair, NoCollision, PairState, CollisionEvent
  <2>3. /\ pairs \in [Pairs -> PairState] /\ latest \in [Pairs -> CollisionEvent]
        /\ \A pair \in Pairs : pairs[pair] = NoPair
    BY <2>1, <2>2, Zenon
  <2> QED
    BY <2>1, <2>2, <2>3, Zenon DEF PairInv
<1>2. PairInv /\ [TrackingNext]_trackingVars => PairInv'
  <2> SUFFICES ASSUME PairInv, [TrackingNext]_trackingVars PROVE PairInv'
    BY Zenon
  <2>1. CASE Collide
    <3>1. now' = now /\ now \in Nat
      BY <2>1, Zenon DEF Collide, PairInv
    <3>2. \A pair \in Pairs :
            /\ pairs'[pair] \in PairState /\ latest'[pair] \in CollisionEvent
            /\ pairs'[pair].emitted <= now
            /\ pairs'[pair].expires > 0 => /\ latest'[pair].kind \in {"start", "colliding"}
                                           /\ latest'[pair].start = pairs'[pair].start
                                           /\ latest'[pair].at = pairs'[pair].emitted
      BY <2>1, <3>1, CollideOutcome, PairKept, Zenon
    <3>3. pairs' = [pair \in Pairs |-> pairs'[pair]] /\ latest' = [pair \in Pairs |-> latest'[pair]]
      <4> DEFINE motion == Head(collider.todo)
                 p == motion.point
                 q(x) == collider.active[CHOOSE u \in x : u # motion.t]
                 compared == {x \in Pairs : motion.t \in x /\ q(x) # "none" /\ Nearby(p, q(x))}
                 events(x) == IF MotionsMayCollide(p, q(x))
                                THEN EvaluateCollision(x, MotionsCollide(p, q(x))) ELSE {}
                 F(x) == IF x \in compared THEN Evaluated(x, p, q(x)) ELSE pairs[x]
                 G(x) == IF x \in compared /\ events(x) # {}
                           THEN CollisionEventForPair(x, CHOOSE kind \in events(x) : TRUE) ELSE latest[x]
      <4>1. pairs' = [x \in Pairs |-> F(x)] /\ latest' = [x \in Pairs |-> G(x)]
        BY <2>1, Zenon DEF Collide
      <4> HIDE DEF F, G
      <4> QED
        BY <4>1, Zenon
    <3>4. pairs' \in [Pairs -> PairState] /\ latest' \in [Pairs -> CollisionEvent]
      BY <3>2, <3>3, Zenon
    <3> QED
      BY <3>1, <3>2, <3>4, Zenon DEF PairInv
  <2>2. CASE /\ UNCHANGED latest /\ now' \in Nat /\ now' >= now
             /\ pairs' = pairs \/ pairs' = [pair \in Pairs |-> Kept(pairs[pair], NoPair)]
    <3>1. NoPair \in PairState /\ NoPair.emitted = 0 /\ NoPair.expires = 0
      BY Zenon DEF NoPair, PairState
    <3>2. \A pair \in Pairs : pairs[pair] \in PairState /\ pairs'[pair] \in {pairs[pair], NoPair}
      BY <2>2, Zenon DEF Kept, PairInv
    <3>3. pairs' \in [Pairs -> PairState]
      BY <2>2, <3>1, <3>2, Zenon DEF PairInv, Kept
    <3>4. \A pair \in Pairs : pairs[pair].emitted <= now' /\ NoPair.emitted <= now' /\ ~(NoPair.expires > 0)
      <4> SUFFICES ASSUME NEW pair \in Pairs PROVE pairs[pair].emitted <= now' /\ NoPair.emitted <= now' /\ ~(NoPair.expires > 0)
        BY Zenon
      <4>1. pairs[pair].emitted \in Nat
        <5>1. pairs[pair] \in PairState
          BY <3>2, Zenon
        <5> QED
          BY <5>1, Zenon DEF PairState
      <4>2. pairs[pair].emitted <= now /\ now \in Nat
        BY Zenon DEF PairInv
      <4> QED
        BY <2>2, <3>1, <4>1, <4>2
    <3>5. \A pair \in Pairs : /\ pairs'[pair].emitted <= now'
                              /\ pairs'[pair].expires > 0 => pairs'[pair] = pairs[pair]
      BY <3>2, <3>4, Zenon
    <3> QED
      BY <2>2, <3>3, <3>5, Zenon DEF PairInv
  <2> QED
    BY <2>1, <2>2, PairSteps, Zenon
<1> QED
  BY <1>1, <1>2, PTL DEF TrackingSpec

\* What a subscriber hears of a pair is one collision after another: colliding and
\* end events follow a start, with its start time, and a colliding event leaves the
\* debounce interval to the event before it; for any number of trackables and points.
THEOREM PairEventsTold == TrackingSpec => PairEvents
<1>1. PairInv /\ [TrackingNext]_trackingVars => [StoryGoesOn /\ IntervalKept]_latest
  <2> SUFFICES ASSUME PairInv, [TrackingNext]_trackingVars, latest' # latest
               PROVE  StoryGoesOn /\ IntervalKept
    BY Zenon
  <2>1. Collide
    BY PairSteps, Zenon
  <2>2. now' = now
    BY <2>1, Zenon DEF Collide
  <2> QED
    BY <2>1, <2>2, CollideOutcome, PairKept, Zenon DEF StoryGoesOn, IntervalKept
<1>2. PairInv /\ [TrackingNext]_trackingVars => [StoryGoesOn]_latest /\ [IntervalKept]_latest
  BY <1>1, Zenon
<1> QED
  BY <1>2, PairsInductive, PTL DEF TrackingSpec, PairEvents, PairStory, DebounceHonoured

-----------------------------------------------------------------------------
(* Points *)

Point == Positions \cup {"none"}
Work == [ts : Seq(Trackables), point : Positions]
Item == [t : Trackables, point : Positions]
Result == [ts : Seq(Trackables), point : Positions, emit : BOOLEAN]
Motion == [at : Point, expires : Nat]

\* What a decision worker has in hand.
Handled(work) ==
  /\ work.pc \in {"read", "write"} => /\ work.todo \in Seq(Trackables) /\ work.todo # <<>>
                                      /\ work.position \in Positions /\ work.results \in Seq(Result)
  /\ work.pc = "write" => work.track.estimate \in Positions /\ work.emit \in BOOLEAN
  /\ work.pc = "derive" => /\ work.results \in Seq(Result) /\ work.results # <<>>
                           /\ work = [pc |-> "derive", at |-> work.at, results |-> work.results]

Estimated(track) == "estimate" \in DOMAIN track /\ track.estimate \in Point

DecisionType ==
  /\ tracks = [t \in Trackables |-> tracks[t]]
  /\ \A t \in Trackables : Estimated(tracks[t])
  /\ workers = [w \in Deciders |-> workers[w]]
  /\ \A w \in Deciders : Handled(workers[w])
  /\ points \in [Trackables -> Point]

CollisionType ==
  /\ now \in Nat
  /\ queue \in Seq(Work)
  /\ collider \in [todo : Seq(Item), active : [Trackables -> Point]]
  /\ motions \in [Trackables -> Motion]

\* The work is for the trackable.
For(work, t) == \E i \in DOMAIN work.ts : work.ts[i] = t

\* No work for the trackable is in the queue after its k-th place.
LastFor(q, t, k) == \A m \in 1..Len(q) : m > k => ~For(q[m], t)

\* The latest point of a trackable is the last one in the queue, else what the
\* collision worker has in hand, else the active motion, if there is one.
PointKept(t) ==
  /\ \A k \in 1..Len(queue) : For(queue[k], t) /\ LastFor(queue, t, k) => queue[k].point = points[t]
  /\ LastFor(queue, t, 0) =>
       /\ \A k \in 1..Len(collider.todo) : collider.todo[k].t = t => collider.todo[k].point = points[t]
       /\ (\A k \in 1..Len(collider.todo) : collider.todo[k].t # t) => motions[t].at \in {"none", points[t]}

PointInv == \A t \in Trackables \ missed : PointKept(t)

\* Work that is queued is the last work for its trackables.
LEMMA QueuedPoint ==
  ASSUME queue \in Seq(Work), NEW x \in Work, queue' = Append(queue, x), UNCHANGED <<collider, motions>>,
         NEW t, IF For(x, t) THEN points'[t] = x.point ELSE points'[t] = points[t] /\ PointKept(t)
  PROVE  PointKept(t)'
<1> PICK n \in Nat : n = Len(queue)
  OBVIOUS
<1>1. /\ Len(queue') = n + 1 /\ queue'[n + 1] = x
      /\ \A k \in 1..n : queue'[k] = queue[k]
  OBVIOUS
<1>2. /\ 1..Len(queue') = 1..n \cup {n + 1} /\ (\A k \in 1..n : n + 1 > k) /\ n + 1 > 0
      /\ n + 1 \in 1..Len(queue')
  BY <1>1
<1>3. CASE For(x, t)
  <2>1. For(queue[n + 1], t)'
    BY <1>1, <1>3, Zenon DEF For
  <2>2. \A k \in 1..n \cup {0} : ~LastFor(queue, t, k)'
    BY <1>2, <2>1, Zenon DEF LastFor
  <2> QED
    BY <1>1, <1>2, <1>3, <2>2, Zenon DEF PointKept
<1>4. CASE ~For(x, t)
  <2>1. \A k \in 1..n : For(queue[k], t)' <=> For(queue[k], t)
    BY <1>1, Zenon DEF For
  <2>2. ~For(queue[n + 1], t)'
    BY <1>1, <1>4, Zenon DEF For
  <2>3. \A k : LastFor(queue, t, k)' => LastFor(queue, t, k)
    BY <1>2, <2>1, Zenon DEF LastFor
  <2>4. \A k \in 1..Len(queue') : For(queue[k], t)' /\ LastFor(queue, t, k)' => queue'[k].point = points'[t]
    <3> SUFFICES ASSUME NEW k \in 1..n, For(queue[k], t)', LastFor(queue, t, k)'
                 PROVE  queue'[k].point = points'[t]
      BY <1>2, <2>2, Zenon
    <3>1. For(queue[k], t) /\ LastFor(queue, t, k)
      BY <2>1, <2>3, Zenon
    <3> QED
      BY <1>1, <1>4, <3>1, Zenon DEF PointKept
  <2> QED
    BY <1>4, <2>3, <2>4, Zenon DEF PointKept
<1> QED
  BY <1>3, <1>4, Zenon

\* Work that is taken is in hand.
LEMMA TakenPoint ==
  ASSUME queue \in Seq(Work), queue # <<>>, collider.todo = <<>>, queue' = Tail(queue),
         NEW t \in Trackables, points'[t] = points[t], motions'[t].at \in {"none", motions[t].at},
         collider'.todo = [i \in DOMAIN Head(queue).ts |-> [t |-> Head(queue).ts[i], point |-> Head(queue).point]],
         PointKept(t)
  PROVE  PointKept(t)'
<1> DEFINE n == Len(queue)
           head == Head(queue)
           todo == collider'.todo
<1>1. /\ n \in Nat /\ n > 0 /\ Len(queue') = n - 1 /\ head = queue[1] /\ head \in Work
      /\ \A k \in 1..(n - 1) : queue'[k] = queue[k + 1]
  OBVIOUS
<1>2. 1..Len(queue') = 1..(n - 1) /\ 1 \in 1..n /\ (\A k \in 1..(n - 1) : k + 1 \in 1..n)
  BY <1>1
<1>3. \A k \in 1..(n - 1) : For(queue[k], t)' <=> For(queue[k + 1], t)
  BY <1>1, Zenon DEF For
<1>4. \A k \in 0..(n - 1) : LastFor(queue, t, k)' => LastFor(queue, t, k + 1)
  <2> SUFFICES ASSUME NEW k \in 0..(n - 1), LastFor(queue, t, k)', NEW m \in 1..n, m > k + 1, For(queue[m], t)
               PROVE  FALSE
    BY Zenon DEF LastFor
  <2>1. m - 1 \in 1..(n - 1) /\ m - 1 > k /\ (m - 1) + 1 = m
    BY <1>1
  <2> QED
    BY <1>2, <1>3, <2>1, Zenon DEF LastFor
<1>5. \A k \in 1..Len(queue') : For(queue[k], t)' /\ LastFor(queue, t, k)' => queue'[k].point = points'[t]
  <2> SUFFICES ASSUME NEW k \in 1..(n - 1), For(queue[k], t)', LastFor(queue, t, k)'
               PROVE  queue'[k].point = points[t]
    BY <1>2, Zenon
  <2>1. k \in 0..(n - 1)
    BY <1>1
  <2>2. For(queue[k + 1], t) /\ LastFor(queue, t, k + 1)
    BY <1>3, <1>4, <2>1, Zenon
  <2> QED
    BY <1>1, <1>2, <2>2, Zenon DEF PointKept
<1>6. ASSUME LastFor(queue, t, 0)'
      PROVE  LastFor(queue, t, 1)
  <2>1. 0 \in 0..(n - 1) /\ 0 + 1 = 1
    BY <1>1
  <2> QED
    BY <1>4, <1>6, <2>1, Zenon
<1>7. head.ts \in Seq(Trackables)
  BY <1>1, Zenon DEF Work
<1> HIDE DEF n, head
<1>8. /\ DOMAIN todo = DOMAIN head.ts
      /\ \A i \in DOMAIN head.ts : todo[i].t = head.ts[i] /\ todo[i].point = head.point
  BY DEF head
<1>9. 1..Len(todo) = DOMAIN head.ts
  <2>1. todo = [i \in 1..Len(head.ts) |-> [t |-> head.ts[i], point |-> head.point]]
    BY <1>7 DEF head
  <2>2. Len(head.ts) \in Nat /\ DOMAIN head.ts = 1..Len(head.ts)
    BY <1>7
  <2> HIDE DEF todo
  <2>3. Len(todo) = Len(head.ts)
    BY <2>1, <2>2
  <2> QED
    BY <2>2, <2>3, Zenon
<1>10. ASSUME LastFor(queue, t, 1), For(head, t)
       PROVE  head.point = points[t]
  BY <1>1, <1>2, <1>10, Zenon DEF PointKept, n
<1>11. ASSUME LastFor(queue, t, 1), ~For(head, t)
       PROVE  motions[t].at \in {"none", points[t]}
  <2>1. LastFor(queue, t, 0)
    <3> SUFFICES ASSUME NEW m \in 1..Len(queue), For(queue[m], t) PROVE FALSE
      BY Zenon DEF LastFor
    <3>1. m = 1 \/ m > 1
      BY <1>1 DEF n
    <3> QED
      BY <1>1, <1>11, <3>1, Zenon DEF LastFor
  <2>2. \A k \in 1..Len(collider.todo) : FALSE
    OBVIOUS
  <2> QED
    BY <2>1, <2>2, Zenon DEF PointKept
<1>12. ASSUME LastFor(queue, t, 0)', NEW k \in 1..Len(todo), todo[k].t = t
       PROVE  todo[k].point = points'[t]
  BY <1>6, <1>8, <1>9, <1>10, <1>12, Zenon DEF For
<1>13. ASSUME LastFor(queue, t, 0)', \A k \in 1..Len(todo) : todo[k].t # t
       PROVE  motions'[t].at \in {"none", points'[t]}
  <2>1. LastFor(queue, t, 1) /\ ~For(head, t)
    BY <1>6, <1>8, <1>9, <1>13, Zenon DEF For
  <2> QED
    BY <1>11, <2>1, Zenon
<1>14. PointKept(t)'
  <2> HIDE DEF todo
  <2>1. todo = collider'.todo
    BY Zenon DEF todo
  <2> QED
    BY <1>5, <1>12, <1>13, <2>1, Zenon DEF PointKept
<1> QED
  BY <1>14, Zenon

\* What is left of a sequence.
LEMMA Rest ==
  ASSUME NEW S, NEW s \in Seq(S), s # <<>>
  PROVE  /\ Head(s) \in S /\ Tail(s) \in Seq(S) /\ Len(s) \in Nat
         /\ Len(s) = 1 => Tail(s) = <<>>
         /\ Len(s) # 1 => Tail(s) # <<>>
<1>1. Head(s) \in S /\ Tail(s) \in Seq(S) /\ Len(s) \in Nat /\ Len(Tail(s)) = Len(s) - 1
  OBVIOUS
<1>2. \A r \in Seq(S) : Len(r) = 0 <=> r = <<>>
  OBVIOUS
<1>3. Len(s) = 1 <=> Len(Tail(s)) = 0
  BY <1>1
<1> QED
  BY <1>1, <1>2, <1>3, Zenon

\* A record for the collision worker.
LEMMA ColliderTyped ==
  ASSUME NEW T, NEW A, NEW todo \in T, NEW active \in A
  PROVE  [todo |-> todo, active |-> active] \in [todo : T, active : A] /\ [todo |-> todo, active |-> active].todo = todo
BY Zenon

\* The collision worker goes on to the next motion in hand.
LEMMA CollideStep ==
  ASSUME CollisionType, Collide
  PROVE  /\ collider.todo \in Seq(Item) /\ collider.todo # <<>> /\ Head(collider.todo) \in Item
         /\ collider'.todo = Tail(collider.todo)
         /\ collider' \in [todo : Seq(Item), active : [Trackables -> Point]]
         /\ motions' \in [Trackables -> Motion]
         /\ motions'[Head(collider.todo).t].at = Head(collider.todo).point
         /\ \A u \in Trackables \ {Head(collider.todo).t} : motions'[u] = motions[u]
         /\ UNCHANGED <<now, queue, points, missed, tracks, workers>>
<1> DEFINE motion == Head(collider.todo)
           new == [at |-> motion.point, expires |-> now + CollisionTTL]
           none == [t \in Trackables |-> "none"]
<1>1. /\ collider.todo # <<>>
      /\ motions' = [motions EXCEPT ![motion.t] = new]
      /\ collider' = IF Len(collider.todo) = 1 THEN [todo |-> <<>>, active |-> none]
                     ELSE [collider EXCEPT !.todo = Tail(collider.todo)]
      /\ UNCHANGED <<now, queue, points, missed, tracks, workers>>
  BY Zenon DEF Collide, Until
<1>2. collider.todo \in Seq(Item) /\ collider.active \in [Trackables -> Point]
  BY Zenon DEF CollisionType
<1>3. motion \in Item
  BY <1>1, <1>2, Rest, Zenon
<1>4. none \in [Trackables -> Point]
  BY Zenon DEF Point
<1>5. Tail(collider.todo) \in Seq(Item) /\ (Len(collider.todo) = 1 => Tail(collider.todo) = <<>>)
  BY <1>1, <1>2, Rest, Zenon
<1>6. ASSUME Len(collider.todo) = 1
      PROVE  collider'.todo = Tail(collider.todo) /\ collider' \in [todo : Seq(Item), active : [Trackables -> Point]]
  <2>1. collider' = [todo |-> <<>>, active |-> none]
    BY <1>1, <1>6, Zenon
  <2> HIDE DEF none
  <2>2. Tail(collider.todo) = <<>>
    BY <1>5, <1>6, Zenon
  <2> QED
    BY <1>4, <1>5, <2>1, <2>2, ColliderTyped, Zenon
<1>7. ASSUME Len(collider.todo) # 1
      PROVE  collider'.todo = Tail(collider.todo) /\ collider' \in [todo : Seq(Item), active : [Trackables -> Point]]
  <2>1. collider' = [collider EXCEPT !.todo = Tail(collider.todo)]
    BY <1>1, <1>7, Zenon
  <2>2. collider \in [todo : Seq(Item), active : [Trackables -> Point]]
    BY Zenon DEF CollisionType
  <2>3. collider' = [todo |-> Tail(collider.todo), active |-> collider.active]
    BY <2>1, <2>2, Zenon
  <2> QED
    BY <1>2, <1>5, <2>3, ColliderTyped, Zenon
<1>8. new \in Motion /\ new.at = motion.point /\ motion.t \in Trackables
  <2>1. now + CollisionTTL \in Nat
    <3>1. CollisionTTL \in Nat
      BY MotionsAssumption, Zenon
    <3> QED
      BY <3>1 DEF CollisionType
  <2>2. motion.point \in Point /\ motion.t \in Trackables
    <3> HIDE DEF motion
    <3> QED
      BY <1>3, Zenon DEF Item, Point
  <2> HIDE DEF motion
  <2> QED
    BY <2>1, <2>2, Zenon DEF Motion
<1> HIDE DEF new, motion
<1>9. motions' \in [Trackables -> Motion] /\ motions'[motion.t] = new
      /\ \A u \in Trackables \ {motion.t} : motions'[u] = motions[u]
  BY <1>1, <1>8, Updated, Zenon DEF CollisionType
<1>10. /\ motions'[motion.t].at = motion.point
       /\ \A u \in Trackables \ {motion.t} : motions'[u] = motions[u]
  BY <1>8, <1>9, Zenon
<1>11. collider'.todo = Tail(collider.todo) /\ collider' \in [todo : Seq(Item), active : [Trackables -> Point]]
  BY <1>6, <1>7, Zenon
<1> QED
  BY <1>1, <1>2, <1>3, <1>9, <1>10, <1>11, Zenon DEF motion

\* A motion that was in hand is recorded.
LEMMA ComparedPoint ==
  ASSUME CollisionType, Collide, NEW t \in Trackables, PointKept(t)
  PROVE  PointKept(t)'
<1> DEFINE todo == collider.todo
           n == Len(todo)
           motion == Head(todo)
<1>1. /\ todo \in Seq(Item) /\ todo # <<>>
      /\ collider'.todo = Tail(todo)
      /\ motions'[motion.t].at = motion.point
      /\ \A u \in Trackables \ {motion.t} : motions'[u] = motions[u]
      /\ UNCHANGED <<queue, points>>
  BY CollideStep, Zenon
<1>2. /\ n \in Nat /\ n > 0 /\ Len(collider'.todo) = n - 1 /\ motion = todo[1] /\ 1 \in 1..n
      /\ \A k \in 1..(n - 1) : collider'.todo[k] = todo[k + 1] /\ k + 1 \in 1..n
  <2> HIDE DEF todo
  <2> QED
    BY <1>1
<1>3. \A k \in 1..n : k = 1 \/ (k - 1 \in 1..(n - 1) /\ (k - 1) + 1 = k)
  <2> HIDE DEF n
  <2> QED
    BY <1>2
<1>4. LastFor(queue, t, 0)' => LastFor(queue, t, 0)
  BY <1>1, Zenon DEF LastFor, For
<1>5. \A k \in 1..Len(queue') : For(queue[k], t)' /\ LastFor(queue, t, k)' => queue'[k].point = points'[t]
  BY <1>1, Zenon DEF PointKept, LastFor, For
<1>6. ASSUME LastFor(queue, t, 0), NEW k \in 1..(n - 1), collider'.todo[k].t = t
      PROVE  collider'.todo[k].point = points[t]
  BY <1>2, <1>6, Zenon DEF PointKept
<1>7. ASSUME LastFor(queue, t, 0), \A k \in 1..(n - 1) : collider'.todo[k].t # t
      PROVE  motions'[t].at \in {"none", points[t]}
  <2>1. CASE motion.t = t
    BY <1>1, <1>2, <1>7, <2>1, Zenon DEF PointKept
  <2>2. CASE motion.t # t
    <3>1. \A k \in 1..n : todo[k].t # t
      BY <1>2, <1>3, <1>7, <2>2, Zenon
    <3>2. motions'[t] = motions[t]
      BY <1>1, <2>2, Zenon
    <3> QED
      BY <1>7, <3>1, <3>2, Zenon DEF PointKept
  <2> QED
    BY <2>1, <2>2, Zenon
<1>8. Len(collider'.todo) = n - 1 /\ points' = points
  BY <1>1, <1>2, Zenon
<1> HIDE DEF n, todo, motion
<1>9. LastFor(queue, t, 0)' =>
        /\ \A k \in 1..Len(collider'.todo) : collider'.todo[k].t = t => collider'.todo[k].point = points'[t]
        /\ (\A k \in 1..Len(collider'.todo) : collider'.todo[k].t # t) => motions'[t].at \in {"none", points'[t]}
  BY <1>4, <1>6, <1>7, <1>8, Zenon
<1> QED
  BY <1>5, <1>9, Zenon DEF PointKept

\* An array is replaced at an index.
LEMMA Replaced ==
  ASSUME NEW S, NEW f, f = [x \in S |-> f[x]], NEW a, NEW v, NEW g, g = [f EXCEPT ![a] = v]
  PROVE  g = [x \in S |-> g[x]] /\ \A x \in S : g[x] = IF x = a THEN v ELSE f[x]
<1>1. DOMAIN f = S
  BY Zenon
<1>2. g = [x \in S |-> IF x = a THEN v ELSE f[x]]
  BY <1>1, Zenon
<1> QED
  BY <1>2, Zenon

\* A location is taken.
LEMMA TakeHandled ==
  ASSUME NEW location \in Locations[filter], filter \in FilterEnabled, NEW at, Take(location, at), DecisionType
  PROVE  DecisionType'
<1> DEFINE w == location.worker
           read == [pc |-> "read", todo |-> location.ts, at |-> at,
                    position |-> location.position, results |-> <<>>]
           derive == [pc |-> "derive", at |-> Never,
                      results |-> <<[ts |-> location.ts, point |-> location.position, emit |-> TRUE]>>]
           new == IF filter THEN read ELSE derive
<1>1. workers' = [workers EXCEPT ![w] = new] /\ UNCHANGED <<tracks, points>>
  BY Zenon DEF Take
<1>2. location.position \in Positions /\ location.ts \in Seq(Trackables) /\ location.ts # <<>>
  BY MotionsAssumption, Zenon
<1>3. Handled(read)
  <2>1. /\ read.pc = "read" /\ read.todo = location.ts /\ read.position = location.position
        /\ read.results = <<>> /\ <<>> \in Seq(Result) /\ "read" # "write" /\ "read" # "derive"
    OBVIOUS
  <2> HIDE DEF read
  <2> QED
    BY <1>2, <2>1, Zenon DEF Handled
<1>4. Handled(derive)
  <2> DEFINE result == [ts |-> location.ts, point |-> location.position, emit |-> TRUE]
  <2>1. result \in Result
    BY <1>2, Zenon DEF Result
  <2> HIDE DEF result
  <2>2. <<result>> \in Seq(Result) /\ <<result>> # <<>>
    BY <2>1
  <2>3. derive = [pc |-> "derive", at |-> Never, results |-> <<result>>]
    BY Zenon DEF result
  <2> HIDE DEF derive
  <2>4. /\ derive.pc = "derive" /\ derive.results = <<result>> /\ "derive" \notin {"read", "write"}
        /\ derive.at = Never
    BY <2>3, Zenon
  <2> QED
    BY <2>2, <2>3, <2>4, Zenon DEF Handled
<1>5. Handled(new)
  BY <1>3, <1>4, Zenon
<1> HIDE DEF new
<1>6. workers' = [x \in Deciders |-> workers'[x]]
      /\ \A x \in Deciders : workers'[x] = IF x = w THEN new ELSE workers[x]
  BY <1>1, Replaced, Zenon DEF DecisionType
<1>7. \A x \in Deciders : Handled(workers'[x])
  BY <1>5, <1>6, Zenon DEF DecisionType
<1> QED
  BY <1>1, <1>6, <1>7, Zenon DEF DecisionType, Handled

\* A state that is refreshed has the estimate it had, or none.
LEMMA RefreshedEstimate ==
  ASSUME NEW track, Estimated(track), NEW at
  PROVE  Refreshed(track, at).estimate \in Point
<1> DEFINE samples == TrimKalmanSamples(track.samples, at)
<1>1. Refreshed(track, at) \in {NoTrack, [track EXCEPT !.samples = samples]}
  BY Zenon DEF Refreshed
<1>2. NoTrack.estimate = "none"
  BY Zenon DEF NoTrack
<1>3. [track EXCEPT !.samples = samples].estimate = track.estimate
  <2>1. "estimate" # "samples"
    OBVIOUS
  <2> HIDE DEF samples
  <2> QED
    BY <2>1, Zenon DEF Estimated
<1> QED
  BY <1>1, <1>2, <1>3, Zenon DEF Estimated, Point

\* A state is read and normalised.
LEMMA ReadHandled ==
  ASSUME NEW w \in Deciders, Read(w), DecisionType
  PROVE  DecisionType'
<1> DEFINE work == workers[w]
           t == Head(work.todo)
           track == Kept(tracks[t], NoTrack)
           old == Refreshed(track, work.at).estimate
           emit == Emits(Refreshed(track, work.at), work.at)
<1>1. /\ work.pc = "read" /\ tracks' = [tracks EXCEPT ![t] = track] /\ UNCHANGED points
      /\ \E point \in {work.position} \cup ({old} \ {"none"}) :
           workers' = [workers EXCEPT ![w] =
             [pc |-> "write", todo |-> work.todo, at |-> work.at, position |-> work.position,
              results |-> work.results, emit |-> emit, track |-> Normalized(track, work.at, point)]]
  BY Zenon DEF Read
<1>2. /\ work.todo \in Seq(Trackables) /\ work.todo # <<>> /\ work.position \in Positions
      /\ work.results \in Seq(Result)
  BY <1>1, Zenon DEF DecisionType, Handled
<1>3. t \in Trackables
  BY <1>2, Rest, Zenon
<1>4. Estimated(track)
  <2>1. Estimated(NoTrack)
    BY Zenon DEF NoTrack, Estimated, Point
  <2>2. Estimated(tracks[t])
    BY <1>3, Zenon DEF DecisionType
  <2> QED
    BY <2>1, <2>2, Zenon DEF Kept
<1>5. old \in Point
  BY <1>4, RefreshedEstimate, Zenon
<1>6. emit \in BOOLEAN
  <2>1. \A x, y : Emits(x, y) \in BOOLEAN
    BY Zenon DEF Emits
  <2> QED
    BY <2>1, Zenon
<1> HIDE DEF track, old, emit
<1>7. /\ tracks' = [x \in Trackables |-> tracks'[x]]
      /\ \A x \in Trackables : tracks'[x] = IF x = t THEN track ELSE tracks[x]
  BY <1>1, Replaced, Zenon DEF DecisionType
<1>8. \A x \in Trackables : Estimated(tracks'[x])
  BY <1>4, <1>7, Zenon DEF DecisionType
<1>9. PICK point \in {work.position} \cup ({old} \ {"none"}) :
           workers' = [workers EXCEPT ![w] =
             [pc |-> "write", todo |-> work.todo, at |-> work.at, position |-> work.position,
              results |-> work.results, emit |-> emit, track |-> Normalized(track, work.at, point)]]
  BY <1>1, Zenon
<1>10. point \in Positions
  BY <1>2, <1>5, Zenon DEF Point
<1> DEFINE next == Normalized(track, work.at, point)
           new == [pc |-> "write", todo |-> work.todo, at |-> work.at, position |-> work.position,
                   results |-> work.results, emit |-> emit, track |-> next]
<1>11. next.estimate = point
  BY Zenon DEF Normalized
<1>12. Handled(new)
  <2> HIDE DEF next
  <2>1. /\ new.pc = "write" /\ new.todo = work.todo /\ new.position = work.position
        /\ new.results = work.results /\ new.emit = emit /\ new.track = next /\ "write" # "derive"
    <3> HIDE DEF work
    <3> QED
      BY Zenon
  <2> HIDE DEF new
  <2> QED
    BY <1>2, <1>6, <1>10, <1>11, <2>1, Zenon DEF Handled
<1> HIDE DEF new
<1>13. /\ workers' = [x \in Deciders |-> workers'[x]]
       /\ \A x \in Deciders : workers'[x] = IF x = w THEN new ELSE workers[x]
  BY <1>9, Replaced, Zenon DEF DecisionType, new
<1>14. \A x \in Deciders : Handled(workers'[x])
  BY <1>12, <1>13, Zenon DEF DecisionType
<1> QED
  BY <1>1, <1>7, <1>8, <1>13, <1>14, Zenon DEF DecisionType, Handled, Estimated

\* A state is stored, and its result is kept until the last one.
LEMMA WriteHandled ==
  ASSUME NEW w \in Deciders, Write(w), DecisionType
  PROVE  DecisionType'
<1> DEFINE work == workers[w]
           t == Head(work.todo)
           result == [ts |-> <<t>>, point |-> work.track.estimate, emit |-> work.emit]
           results == Append(work.results, result)
           stored == [samples |-> work.track.samples, decided |-> work.track.decided,
                      emitted |-> work.track.emitted, estimate |-> work.track.estimate,
                      expires |-> Until(TrackTTL)]
           derive == [pc |-> "derive", at |-> work.at, results |-> results]
           read == [pc |-> "read", todo |-> Tail(work.todo), at |-> work.at,
                    position |-> work.position, results |-> results]
           new == IF Len(work.todo) = 1 THEN derive ELSE read
<1>1. /\ work.pc = "write" /\ tracks' = [tracks EXCEPT ![t] = stored] /\ UNCHANGED points
      /\ workers' = [workers EXCEPT ![w] = new]
  BY Zenon DEF Write
<1>2. /\ work.todo \in Seq(Trackables) /\ work.todo # <<>> /\ work.position \in Positions
      /\ work.results \in Seq(Result) /\ work.track.estimate \in Positions /\ work.emit \in BOOLEAN
  BY <1>1, Zenon DEF DecisionType, Handled
<1>3. t \in Trackables /\ Tail(work.todo) \in Seq(Trackables) /\ (Len(work.todo) # 1 => Tail(work.todo) # <<>>)
  BY <1>2, Rest, Zenon
<1>4. Estimated(stored)
  <2>1. stored.estimate = work.track.estimate /\ "estimate" \in DOMAIN stored
    <3> HIDE DEF work
    <3> QED
      BY Zenon
  <2> HIDE DEF stored
  <2> QED
    BY <1>2, <2>1, Zenon DEF Estimated, Point
<1>5. results \in Seq(Result) /\ results # <<>>
  <2>1. result \in Result
    <3> HIDE DEF work, t
    <3>1. <<t>> \in Seq(Trackables)
      BY <1>3
    <3> QED
      BY <1>2, <3>1, Zenon DEF Result
  <2> HIDE DEF result, work
  <2> QED
    BY <1>2, <2>1
<1> HIDE DEF stored, results
<1>6. Handled(derive)
  <2>1. /\ derive.pc = "derive" /\ derive.results = results /\ "derive" \notin {"read", "write"}
        /\ derive.at = work.at /\ derive = [pc |-> "derive", at |-> work.at, results |-> results]
    <3> HIDE DEF work
    <3> QED
      BY Zenon
  <2> HIDE DEF derive
  <2> QED
    BY <1>5, <2>1, Zenon DEF Handled
<1>7. Len(work.todo) # 1 => Handled(read)
  <2>1. /\ read.pc = "read" /\ read.todo = Tail(work.todo) /\ read.position = work.position
        /\ read.results = results /\ "read" # "write" /\ "read" # "derive"
    <3> HIDE DEF work
    <3> QED
      BY Zenon
  <2> HIDE DEF read
  <2> QED
    BY <1>2, <1>3, <1>5, <2>1, Zenon DEF Handled
<1>8. Handled(new)
  BY <1>6, <1>7, Zenon
<1> HIDE DEF new
<1>9. /\ tracks' = [x \in Trackables |-> tracks'[x]]
      /\ \A x \in Trackables : tracks'[x] = IF x = t THEN stored ELSE tracks[x]
  BY <1>1, Replaced, Zenon DEF DecisionType
<1>10. \A x \in Trackables : Estimated(tracks'[x])
  BY <1>4, <1>9, Zenon DEF DecisionType
<1>11. /\ workers' = [x \in Deciders |-> workers'[x]]
       /\ \A x \in Deciders : workers'[x] = IF x = w THEN new ELSE workers[x]
  BY <1>1, Replaced, Zenon DEF DecisionType
<1>12. \A x \in Deciders : Handled(workers'[x])
  BY <1>8, <1>11, Zenon DEF DecisionType
<1> QED
  BY <1>1, <1>9, <1>10, <1>11, <1>12, Zenon DEF DecisionType, Handled, Estimated

\* A result is passed on: to the queue, or it is missed.
LEMMA DeriveStep ==
  ASSUME NEW w \in Deciders, Derive(w), DecisionType
  PROVE  /\ DecisionType'
         /\ \E x \in Work :
              /\ \/ queue' = Append(queue, x) /\ missed' = missed \ {x.ts[i] : i \in DOMAIN x.ts}
                 \/ queue' = queue /\ missed' = missed \cup {x.ts[i] : i \in DOMAIN x.ts}
              /\ \A t \in Trackables : points'[t] = IF For(x, t) THEN x.point ELSE points[t]
<1> DEFINE work == workers[w]
           result == Head(work.results)
           ts == {result.ts[i] : i \in DOMAIN result.ts}
           x == [ts |-> result.ts, point |-> result.point]
           new == IF Len(work.results) = 1 THEN NoWork ELSE [work EXCEPT !.results = Tail(work.results)]
<1>1. /\ work.pc = "derive"
      /\ \/ queue' = Append(queue, x) /\ missed' = missed \ ts
         \/ queue' = queue /\ missed' = missed \cup ts
      /\ points' = [t \in Trackables |-> IF t \in ts THEN result.point ELSE points[t]]
      /\ workers' = [workers EXCEPT ![w] = new]
      /\ tracks' = tracks
  BY Zenon DEF Derive, Passed
<1>2. work.results \in Seq(Result) /\ work.results # <<>>
  BY <1>1, Zenon DEF DecisionType, Handled
<1>3. /\ result \in Result /\ Tail(work.results) \in Seq(Result)
      /\ Len(work.results) # 1 => Tail(work.results) # <<>>
  BY <1>2, Rest, Zenon
<1>4. result.ts \in Seq(Trackables) /\ result.point \in Positions
  <2> HIDE DEF result
  <2> QED
    BY <1>3, Zenon DEF Result
<1>5. x \in Work /\ x.ts = result.ts /\ x.point = result.point
  <2> HIDE DEF result
  <2> QED
    BY <1>4, Zenon DEF Work
<1>6. Handled(new)
  <2>1. Handled(NoWork)
    BY Zenon DEF NoWork, Handled
  <2>2. ASSUME Len(work.results) # 1
        PROVE  Handled([work EXCEPT !.results = Tail(work.results)])
    <3> DEFINE rest == [pc |-> "derive", at |-> work.at, results |-> Tail(work.results)]
    <3>1. PICK a, r : work = [pc |-> "derive", at |-> a, results |-> r]
      BY <1>1, Zenon DEF DecisionType, Handled
    <3> HIDE DEF work
    <3>2. [work EXCEPT !.results = Tail(work.results)] = rest
      <4>1. work.at = a
        BY <3>1, Zenon
      <4>2. ASSUME NEW tail
            PROVE  [work EXCEPT !.results = tail] = [pc |-> "derive", at |-> a, results |-> tail]
        BY <3>1
      <4> QED
        BY <4>1, <4>2, Zenon
    <3>3. rest.pc = "derive" /\ rest.at = work.at /\ rest.results = Tail(work.results) /\ "derive" \notin {"read", "write"}
      BY Zenon
    <3>4. Handled(rest)
      <4>1. rest = [pc |-> "derive", at |-> rest.at, results |-> rest.results]
        BY <3>3, Zenon
      <4> HIDE DEF rest
      <4> QED
        BY <1>3, <2>2, <3>3, <4>1, Zenon DEF Handled
    <3> QED
      BY <3>2, <3>4, Zenon
  <2> QED
    BY <2>1, <2>2, Zenon
<1> HIDE DEF new
<1>7. /\ workers' = [v \in Deciders |-> workers'[v]]
      /\ \A v \in Deciders : workers'[v] = IF v = w THEN new ELSE workers[v]
  BY <1>1, Replaced, Zenon DEF DecisionType
<1>8. \A v \in Deciders : Handled(workers'[v])
  BY <1>6, <1>7, Zenon DEF DecisionType
<1>9. \A t : t \in ts <=> For(x, t)
  BY <1>5, Zenon DEF For
<1>10. points' \in [Trackables -> Point]
  BY <1>1, <1>4, Zenon DEF DecisionType, Point
<1>11. DecisionType'
  BY <1>1, <1>7, <1>8, <1>10, Zenon DEF DecisionType, Handled, Estimated
<1>12. \A t \in Trackables : points'[t] = IF For(x, t) THEN x.point ELSE points[t]
  BY <1>1, <1>5, <1>9, Zenon
<1>13. ts = {x.ts[i] : i \in DOMAIN x.ts}
  BY <1>5, Zenon
<1> QED
  BY <1>1, <1>5, <1>11, <1>12, <1>13, Zenon

MotionInv == filter \in FilterEnabled /\ DecisionType /\ CollisionType /\ PointInv

\* The latest point of a trackable, its work and what is in hand stay.
LEMMA SamePoint ==
  ASSUME NEW t, queue' = queue, collider' = collider, points'[t] = points[t],
         motions'[t].at \in {"none", motions[t].at}, PointKept(t)
  PROVE  PointKept(t)'
<1>1. \A k : For(queue[k], t)' <=> For(queue[k], t)
  BY Zenon DEF For
<1>2. \A k : LastFor(queue, t, k)' <=> LastFor(queue, t, k)
  BY <1>1, Zenon DEF LastFor
<1>3. \A k \in 1..Len(queue') : For(queue[k], t)' /\ LastFor(queue, t, k)' => queue'[k].point = points'[t]
  BY <1>1, <1>2, Zenon DEF PointKept
<1>4. LastFor(queue, t, 0)' =>
        \A k \in 1..Len(collider'.todo) : collider'.todo[k].t = t => collider'.todo[k].point = points'[t]
  BY <1>2, Zenon DEF PointKept
<1>5. LastFor(queue, t, 0)' /\ (\A k \in 1..Len(collider'.todo) : collider'.todo[k].t # t) =>
        motions'[t].at \in {"none", points'[t]}
  BY <1>2, Zenon DEF PointKept
<1> QED
  BY <1>3, <1>4, <1>5, Zenon DEF PointKept

\* A step that leaves points, queue and motions alone.
LEMMA SamePoints ==
  ASSUME CollisionType, PointInv, UNCHANGED <<now, queue, collider, motions, points, missed>>
  PROVE  CollisionType' /\ PointInv'
<1>1. CollisionType'
  BY Zenon DEF CollisionType
<1>2. \A t : PointKept(t) => PointKept(t)'
  BY SamePoint, Zenon
<1> QED
  BY <1>1, <1>2, Zenon DEF PointInv

\* A point is decided on.
LEMMA DerivePoints ==
  ASSUME MotionInv, NEW w \in Deciders, Derive(w)
  PROVE  MotionInv'
<1>1. DecisionType /\ CollisionType /\ PointInv
  BY Zenon DEF MotionInv
<1>2. UNCHANGED <<now, filter, collider, motions>>
  BY Zenon DEF Derive
<1>3. DecisionType'
  BY <1>1, DeriveStep, Zenon
<1>4. PICK x \in Work :
              /\ \/ queue' = Append(queue, x) /\ missed' = missed \ {x.ts[i] : i \in DOMAIN x.ts}
                 \/ queue' = queue /\ missed' = missed \cup {x.ts[i] : i \in DOMAIN x.ts}
              /\ \A t \in Trackables : points'[t] = IF For(x, t) THEN x.point ELSE points[t]
  BY <1>1, DeriveStep, Zenon
<1>5. \A t : t \in {x.ts[i] : i \in DOMAIN x.ts} <=> For(x, t)
  BY Zenon DEF For
<1>6. CASE queue' = Append(queue, x) /\ missed' = missed \ {x.ts[i] : i \in DOMAIN x.ts}
  <2>1. queue \in Seq(Work)
    BY <1>1, Zenon DEF CollisionType
  <2>2. queue' \in Seq(Work)
    BY <1>6, <2>1
  <2>3. CollisionType'
    BY <1>1, <1>2, <2>2, Zenon DEF CollisionType
  <2>4. \A t \in Trackables \ missed' : IF For(x, t) THEN points'[t] = x.point ELSE points'[t] = points[t] /\ PointKept(t)
    BY <1>1, <1>4, <1>5, <1>6, Zenon DEF PointInv
  <2>5. PointInv'
    BY <1>2, <1>6, <2>1, <2>4, QueuedPoint, Zenon DEF PointInv
  <2> QED
    BY <1>2, <1>3, <2>3, <2>5, Zenon DEF MotionInv
<1>7. CASE queue' = queue /\ missed' = missed \cup {x.ts[i] : i \in DOMAIN x.ts}
  <2>1. CollisionType'
    BY <1>1, <1>2, <1>7, Zenon DEF CollisionType
  <2>2. \A t \in Trackables \ missed' : t \notin missed /\ points'[t] = points[t]
    BY <1>4, <1>5, <1>7, Zenon
  <2>3. \A t : points'[t] = points[t] /\ PointKept(t) => PointKept(t)'
    BY <1>2, <1>7, SamePoint, Zenon
  <2>4. PointInv'
    BY <1>1, <2>2, <2>3, Zenon DEF PointInv
  <2> QED
    BY <1>2, <1>3, <2>1, <2>4, Zenon DEF MotionInv
<1> QED
  BY <1>4, <1>6, <1>7, Zenon

\* Motions that expire or are deleted.
LEMMA FadingPoints ==
  ASSUME CollisionType, PointInv, UNCHANGED <<queue, collider, points>>, now' \in Nat, missed \subseteq missed',
         motions' \in [Trackables -> Motion],
         \A t \in Trackables : motions'[t] = motions[t] \/ motions'[t] = NoMotion
  PROVE  CollisionType' /\ PointInv'
<1>1. CollisionType'
  BY Zenon DEF CollisionType
<1>2. \A t \in Trackables : motions'[t].at \in {"none", motions[t].at}
  <2>1. NoMotion.at = "none"
    BY Zenon DEF NoMotion
  <2> QED
    BY <2>1, Zenon
<1>3. \A t \in Trackables : PointKept(t) => PointKept(t)'
  BY <1>2, SamePoint, Zenon
<1> QED
  BY <1>1, <1>3, Zenon DEF PointInv

\* What is left of the motions.
LEMMA KeptMotions ==
  ASSUME CollisionType
  PROVE  /\ [t \in Trackables |-> Kept(motions[t], NoMotion)] \in [Trackables -> Motion]
         /\ NoMotion \in Motion /\ NoMotion.at = "none"
         /\ \A t \in Trackables : Kept(motions[t], NoMotion) \in {motions[t], NoMotion}
<1>1. NoMotion \in Motion /\ NoMotion.at = "none"
  BY Zenon DEF NoMotion, Motion, Point
<1>2. \A t \in Trackables : Kept(motions[t], NoMotion) \in {motions[t], NoMotion}
  BY Zenon DEF Kept
<1>3. \A t \in Trackables : motions[t] \in Motion
  BY Zenon DEF CollisionType
<1> QED
  BY <1>1, <1>2, <1>3, Zenon

\* Work is taken from the queue.
LEMMA TakePoints ==
  ASSUME MotionInv, TakeCollisionWork
  PROVE  MotionInv'
<1> DEFINE active == [t \in Trackables |-> Kept(motions[t], NoMotion)]
           head == Head(queue)
           todo == [i \in DOMAIN head.ts |-> [t |-> head.ts[i], point |-> head.point]]
           ats == [t \in Trackables |-> active[t].at]
<1>1. DecisionType /\ CollisionType /\ PointInv
  BY Zenon DEF MotionInv
<1>2. /\ collider.todo = <<>> /\ queue # <<>> /\ motions' = active /\ queue' = Tail(queue)
      /\ collider' = [todo |-> todo, active |-> ats]
      /\ UNCHANGED <<now, filter, tracks, workers, points, missed>>
  BY Zenon DEF TakeCollisionWork
<1>3. /\ active \in [Trackables -> Motion] /\ NoMotion.at = "none"
      /\ \A t \in Trackables : active[t] \in {motions[t], NoMotion}
  BY <1>1, KeptMotions, Zenon
<1>4. queue \in Seq(Work)
  BY <1>1, Zenon DEF CollisionType
<1>5. head \in Work /\ queue' \in Seq(Work)
  BY <1>2, <1>4, Rest, Zenon
<1> HIDE DEF active, head
<1>6. head.ts \in Seq(Trackables) /\ head.point \in Positions
  BY <1>5, Zenon DEF Work
<1>7. todo \in Seq(Item)
  <2>1. todo = [i \in 1..Len(head.ts) |-> [t |-> head.ts[i], point |-> head.point]] /\ Len(head.ts) \in Nat
    BY <1>6
  <2>2. \A i \in 1..Len(head.ts) : [t |-> head.ts[i], point |-> head.point] \in Item
    BY <1>6 DEF Item
  <2> QED
    BY <2>1, <2>2
<1>8. ats \in [Trackables -> Point]
  <2>1. \A m \in Motion : m.at \in Point
    BY DEF Motion
  <2> QED
    BY <1>3, <2>1, Zenon
<1> HIDE DEF ats
<1>9. collider' \in [todo : Seq(Item), active : [Trackables -> Point]] /\ collider'.todo = todo
  <2> HIDE DEF todo
  <2> QED
    BY <1>2, <1>7, <1>8, ColliderTyped, Zenon
<1>10. CollisionType'
  BY <1>1, <1>2, <1>3, <1>5, <1>9, Zenon DEF CollisionType
<1>11. DecisionType'
  BY <1>1, <1>2, Zenon DEF DecisionType, Handled, Estimated
<1>12. \A t \in Trackables : motions'[t].at \in {"none", motions[t].at}
  BY <1>2, <1>3, Zenon
<1>13. collider'.todo = [i \in DOMAIN Head(queue).ts |-> [t |-> Head(queue).ts[i], point |-> Head(queue).point]]
  BY <1>9, Zenon DEF head
<1>14. \A t \in Trackables : PointKept(t) => PointKept(t)'
  BY <1>2, <1>4, <1>12, <1>13, TakenPoint, Zenon
<1>15. PointInv'
  BY <1>1, <1>2, <1>14, Zenon DEF PointInv
<1> QED
  BY <1>2, <1>10, <1>11, <1>15, Zenon DEF MotionInv

\* The steps of the two stages.
LEMMA MotionSteps ==
  ASSUME MotionInv, MotionsNext
  PROVE  MotionInv'
<1>1. filter \in FilterEnabled /\ DecisionType /\ CollisionType /\ PointInv
  BY Zenon DEF MotionInv
<1>2. ASSUME NEW location \in Locations[filter], NEW at, Take(location, at)
      PROVE  MotionInv'
  <2>1. UNCHANGED <<now, filter, queue, collider, motions, points, missed>>
    BY <1>2, Zenon DEF Take
  <2>2. DecisionType'
    BY <1>1, <1>2, TakeHandled, Zenon
  <2> QED
    BY <1>1, <2>1, <2>2, SamePoints, Zenon DEF MotionInv
<1>3. ASSUME NEW w \in Deciders, Read(w)
      PROVE  MotionInv'
  <2>1. UNCHANGED <<now, filter, queue, collider, motions, points, missed>>
    BY <1>3, Zenon DEF Read
  <2>2. DecisionType'
    BY <1>1, <1>3, ReadHandled, Zenon
  <2> QED
    BY <1>1, <2>1, <2>2, SamePoints, Zenon DEF MotionInv
<1>4. ASSUME NEW w \in Deciders, Write(w)
      PROVE  MotionInv'
  <2>1. UNCHANGED <<now, filter, queue, collider, motions, points, missed>>
    BY <1>4, Zenon DEF Write
  <2>2. DecisionType'
    BY <1>1, <1>4, WriteHandled, Zenon
  <2> QED
    BY <1>1, <2>1, <2>2, SamePoints, Zenon DEF MotionInv
<1>5. CASE Collide
  <2>1. /\ collider' \in [todo : Seq(Item), active : [Trackables -> Point]]
        /\ motions' \in [Trackables -> Motion]
        /\ UNCHANGED <<now, queue, points, missed, tracks, workers>>
    BY <1>1, <1>5, CollideStep, Zenon
  <2>2. filter' = filter
    BY <1>5, Zenon DEF Collide
  <2>3. CollisionType'
    BY <1>1, <2>1, Zenon DEF CollisionType
  <2>4. DecisionType'
    BY <1>1, <2>1, Zenon DEF DecisionType, Handled, Estimated
  <2>5. PointInv'
    BY <1>1, <1>5, <2>1, ComparedPoint, Zenon DEF PointInv
  <2> QED
    BY <1>1, <2>2, <2>3, <2>4, <2>5, Zenon DEF MotionInv
<1>6. ASSUME NEW t \in Trackables, DeleteMotion(t)
      PROVE  MotionInv'
  <2>1. /\ motions' = [motions EXCEPT ![t] = NoMotion] /\ missed' = missed \cup {t}
        /\ UNCHANGED <<now, filter, tracks, workers, queue, collider, points>>
    BY <1>6, Zenon DEF DeleteMotion
  <2>2. /\ motions' \in [Trackables -> Motion]
        /\ \A u \in Trackables : motions'[u] = motions[u] \/ motions'[u] = NoMotion
    BY <1>1, <2>1, KeptMotions, Updated, Zenon DEF CollisionType
  <2>3. now' \in Nat /\ missed \subseteq missed'
    BY <1>1, <2>1, Zenon DEF CollisionType
  <2>4. DecisionType'
    BY <1>1, <2>1, Zenon DEF DecisionType, Handled, Estimated
  <2> QED
    BY <1>1, <2>1, <2>2, <2>3, <2>4, FadingPoints, Zenon DEF MotionInv
<1> QED
  BY <1>2, <1>3, <1>4, <1>5, <1>6, DerivePoints, TakePoints, Zenon DEF MotionsNext

\* The latest point of a trackable is on its way to the collision worker, or there.
LEMMA PointsInductive == TrackingSpec => []MotionInv
<1>1. InitTracking => MotionInv
  <2> SUFFICES ASSUME InitTracking PROVE MotionInv
    OBVIOUS
  <2> DEFINE none == [t \in Trackables |-> "none"]
  <2>1. /\ now = 0 /\ filter \in FilterEnabled /\ tracks = [t \in Trackables |-> NoTrack]
        /\ workers = [w \in Deciders |-> NoWork] /\ queue = <<>>
        /\ collider = [todo |-> <<>>, active |-> none]
        /\ motions = [t \in Trackables |-> NoMotion] /\ points = none
    BY Zenon DEF InitTracking, InitMotions
  <2>2. Estimated(NoTrack) /\ Handled(NoWork) /\ NoMotion \in Motion /\ NoMotion.at = "none"
    BY Zenon DEF NoTrack, Estimated, Point, NoWork, Handled, NoMotion, Motion
  <2>3. none \in [Trackables -> Point]
    BY Zenon DEF Point
  <2> HIDE DEF none
  <2>4. DecisionType
    BY <2>1, <2>2, <2>3, Zenon DEF DecisionType
  <2>5. <<>> \in Seq(Item) /\ <<>> \in Seq(Work) /\ 0 \in Nat
    OBVIOUS
  <2>6. collider \in [todo : Seq(Item), active : [Trackables -> Point]] /\ collider.todo = <<>>
    BY <2>1, <2>3, <2>5, ColliderTyped, Zenon
  <2>7. CollisionType
    BY <2>1, <2>2, <2>5, <2>6, Zenon DEF CollisionType
  <2>8. \A k \in 1..Len(queue) : FALSE
    BY <2>1
  <2>9. \A k \in 1..Len(collider.todo) : FALSE
    BY <2>6
  <2>10. PointInv
    BY <2>1, <2>2, <2>8, <2>9, Zenon DEF PointInv, PointKept
  <2> QED
    BY <2>1, <2>4, <2>7, <2>10, Zenon DEF MotionInv
<1>2. MotionInv /\ [TrackingNext]_trackingVars => MotionInv'
  <2> SUFFICES ASSUME MotionInv, [TrackingNext]_trackingVars PROVE MotionInv'
    BY Zenon
  <2>1. filter \in FilterEnabled /\ DecisionType /\ CollisionType /\ PointInv
    BY Zenon DEF MotionInv
  <2>2. ASSUME UNCHANGED motionVars, now' \in Nat
        PROVE  MotionInv'
    <3>1. UNCHANGED <<filter, tracks, workers, queue, collider, motions, points, missed>>
      BY <2>2, Zenon DEF motionVars
    <3>2. DecisionType'
      BY <2>1, <3>1, Zenon DEF DecisionType, Handled, Estimated
    <3>3. motions' \in [Trackables -> Motion] /\ missed \subseteq missed'
      BY <2>1, <3>1, Zenon DEF CollisionType
    <3> QED
      BY <2>1, <2>2, <3>1, <3>2, <3>3, FadingPoints, Zenon DEF MotionInv
  <2>3. now \in Nat
    BY <2>1, Zenon DEF CollisionType
  <2>4. CASE PassTime
    <3>1. now' \in Nat
      BY <2>3, <2>4 DEF PassTime
    <3> QED
      BY <2>2, <2>4, <3>1, Zenon DEF PassTime
  <2>5. CASE SweepTracking
    <3>1. /\ tracks' = [t \in Trackables |-> Kept(tracks[t], NoTrack)]
          /\ motions' = [t \in Trackables |-> Kept(motions[t], NoMotion)]
          /\ UNCHANGED <<now, filter, workers, queue, collider, points, missed>>
      BY <2>5, Zenon DEF SweepTracking, SweptTracks, SweptMotions
    <3>2. Estimated(NoTrack)
      BY Zenon DEF NoTrack, Estimated, Point
    <3>3. tracks' = [t \in Trackables |-> tracks'[t]] /\ \A t \in Trackables : Estimated(tracks'[t])
      BY <2>1, <3>1, <3>2, Zenon DEF DecisionType, Kept
    <3>4. DecisionType'
      BY <2>1, <3>1, <3>3, Zenon DEF DecisionType, Handled, Estimated
    <3>5. /\ motions' \in [Trackables -> Motion]
          /\ \A t \in Trackables : motions'[t] = motions[t] \/ motions'[t] = NoMotion
      BY <2>1, <3>1, KeptMotions, Zenon
    <3>6. now' \in Nat /\ missed \subseteq missed'
      BY <2>3, <3>1, Zenon
    <3> QED
      BY <2>1, <3>1, <3>4, <3>5, <3>6, FadingPoints, Zenon DEF MotionInv
  <2>6. CASE ProximityNext /\ UNCHANGED motionVars
    <3>1. now' = now
      BY <2>6, Zenon DEF ProximityNext, BeginProximity, Load, Store, EditZone
    <3> QED
      BY <2>2, <2>3, <2>6, <3>1, Zenon
  <2>7. CASE UNCHANGED trackingVars
    <3>1. now' = now /\ UNCHANGED motionVars
      BY <2>7, Zenon DEF trackingVars
    <3> QED
      BY <2>2, <2>3, <3>1, Zenon
  <2>8. CASE MotionsNext
    BY <2>8, MotionSteps, Zenon
  <2> QED
    BY <2>4, <2>5, <2>6, <2>7, <2>8, Zenon DEF TrackingNext
<1> QED
  BY <1>1, <1>2, PTL DEF TrackingSpec

\* Once the work is done a trackable's active motion is its latest point, published or
\* not, unless the queue was full or its provider was deleted; for any number of
\* trackables, workers and points and any capacity of the queue.
THEOREM PointsDecide == TrackingSpec => []EveryPointDecides
<1>1. MotionInv => EveryPointDecides
  <2> SUFFICES ASSUME MotionInv, queue = <<>>, collider.todo = <<>>, NEW t \in Trackables \ missed
               PROVE  motions[t].at \in {"none", points[t]}
    BY Zenon DEF EveryPointDecides
  <2>1. (\A k \in 1..Len(queue) : FALSE) /\ (\A k \in 1..Len(collider.todo) : FALSE)
    OBVIOUS
  <2>2. PointKept(t)
    BY Zenon DEF MotionInv, PointInv
  <2> QED
    BY <2>1, <2>2, Zenon DEF PointKept, LastFor
<1> QED
  BY <1>1, PointsInductive, PTL

-----------------------------------------------------------------------------
(* Publication *)

W == INSTANCE WellFoundedInduction

\* Induction: a set of numbers that is not empty has a least element.
LEMMA LeastNumber ==
  ASSUME NEW S \in SUBSET Nat, S # {}
  PROVE  \E n \in S : \A m \in S : n <= m
<1> DEFINE R == {ss \in Nat \X Nat : ss[1] < ss[2]}
<1>1. W!IsWellFoundedOn(R, Nat)
  BY W!NatLessThanWellFounded, Zenon DEF W!OpToRel
<1> HIDE DEF R
<1>2. PICK x \in S : \A y \in S : ~ (<<y, x>> \in R)
  BY <1>1, W!WFMin, Zenon
<1>3. x \in Nat /\ \A y \in S : y \in Nat
  OBVIOUS
<1>4. \A y \in S : y < x => <<y, x>> \in R
  BY <1>3, Zenon DEF R
<1>5. \A y \in S : ~ (y < x)
  BY <1>2, <1>4, Zenon
<1>6. \A y \in S : x <= y
  BY <1>3, <1>5
<1> QED
  BY <1>6, Zenon

\* Samples are trimmed at the front: what is left ends with the newest one, which
\* stays when it is within the age window.
LEMMA TrimmedLast ==
  ASSUME NEW s \in Seq(Nat), NEW at \in Nat, NEW r, r = TrimKalmanSamples(s, at)
  PROVE  /\ r \in Seq(Nat)
         /\ r # <<>> => s # <<>> /\ r[Len(r)] = s[Len(s)]
         /\ s # <<>> /\ at - s[Len(s)] <= MaxAge => r # <<>>
<1> DEFINE Leading(i) == /\ \A j \in 1..(i - 1) : at - s[j] > MaxAge
                         /\ i <= Len(s) => at - s[i] <= MaxAge
           fresh == CHOOSE i \in 1..(Len(s) + 1) : Leading(i)
           kept == SubSeq(s, fresh, Len(s))
<1> PICK n \in Nat : n = Len(s)
  OBVIOUS
<1>1. MaxAge \in Nat /\ MaxPoints \in Nat /\ MaxPoints >= 2
  <2>1. MaxAge \in Nat /\ MaxPoints \in Nat \ {0, 1}
    BY MotionsAssumption, Zenon
  <2> QED
    BY <2>1
<1>2. \A j \in 1..n : s[j] \in Nat
  OBVIOUS
<1>3. \E i \in 1..(Len(s) + 1) : Leading(i)
  <2> DEFINE S == {i \in 1..n : at - s[i] <= MaxAge}
  <2>1. CASE S = {}
    <3>1. n + 1 \in 1..(Len(s) + 1) /\ Leading(n + 1)
      BY <1>1, <1>2, <2>1
    <3> QED
      BY <3>1, Zenon
  <2>2. CASE S # {}
    <3>1. S \in SUBSET Nat
      OBVIOUS
    <3> HIDE DEF S
    <3>2. PICK x \in S : \A y \in S : x <= y
      BY <2>2, <3>1, LeastNumber, Zenon
    <3>3. x \in 1..n /\ at - s[x] <= MaxAge
      BY <3>2, Zenon DEF S
    <3>4. \A j \in 1..(x - 1) : j \in 1..n /\ ~ (x <= j)
      BY <3>3
    <3>5. \A j \in 1..(x - 1) : at - s[j] > MaxAge
      <4>1. \A j \in 1..(x - 1) : ~ (at - s[j] <= MaxAge)
        BY <3>2, <3>4, Zenon DEF S
      <4> QED
        BY <1>1, <1>2, <3>4, <4>1
    <3>6. x \in 1..(Len(s) + 1)
      BY <3>3
    <3> QED
      BY <3>3, <3>5, <3>6, Zenon
  <2> QED
    BY <2>1, <2>2, Zenon
<1>4. fresh \in 1..(n + 1) /\ Leading(fresh)
  <2> HIDE DEF Leading
  <2> QED
    BY <1>3, Zenon
<1>5. r = IF Len(kept) > MaxPoints - 1 THEN SubSeq(kept, Len(kept) - MaxPoints + 2, Len(kept)) ELSE kept
  BY Zenon DEF TrimKalmanSamples
<1> HIDE DEF fresh
<1>6. /\ kept \in Seq(Nat) /\ Len(kept) = (n + 1) - fresh
      /\ fresh <= n => kept[Len(kept)] = s[n]
  BY <1>4
<1>7. s # <<>> /\ at - s[Len(s)] <= MaxAge => fresh <= n
  <2> SUFFICES ASSUME s # <<>>, at - s[n] <= MaxAge, fresh = n + 1 PROVE FALSE
    BY <1>4
  <2>1. n \in 1..(fresh - 1) /\ ~ (at - s[n] > MaxAge)
    BY <1>1, <1>2
  <2> QED
    BY <1>4, <2>1, Zenon
<1> HIDE DEF kept, Leading
<1>8. \A q \in Seq(Nat) : Len(q) \in Nat /\ (q = <<>> <=> Len(q) = 0)
  OBVIOUS
<1>9. CASE Len(kept) > MaxPoints - 1
  <2>1. r = SubSeq(kept, Len(kept) - MaxPoints + 2, Len(kept))
    BY <1>5, <1>9, Zenon
  <2>2. ASSUME NEW q \in Seq(Nat), NEW m \in Nat, m >= 2, Len(q) > m - 1
        PROVE  /\ SubSeq(q, Len(q) - m + 2, Len(q)) \in Seq(Nat)
               /\ Len(SubSeq(q, Len(q) - m + 2, Len(q))) = m - 1
               /\ SubSeq(q, Len(q) - m + 2, Len(q))[m - 1] = q[Len(q)]
    <3> PICK k \in Nat : k = Len(q)
      OBVIOUS
    <3>1. k - m + 2 \in 1..k /\ (k - m + 2) + (m - 1) - 1 = k
      BY <2>2
    <3> QED
      BY <2>2, <3>1
  <2>3. r \in Seq(Nat) /\ Len(r) = MaxPoints - 1 /\ r[MaxPoints - 1] = kept[Len(kept)]
    <3>1. kept \in Seq(Nat)
      BY <1>6, Zenon
    <3>2. /\ SubSeq(kept, Len(kept) - MaxPoints + 2, Len(kept)) \in Seq(Nat)
          /\ Len(SubSeq(kept, Len(kept) - MaxPoints + 2, Len(kept))) = MaxPoints - 1
          /\ SubSeq(kept, Len(kept) - MaxPoints + 2, Len(kept))[MaxPoints - 1] = kept[Len(kept)]
      BY <1>1, <1>9, <2>2, <3>1, Zenon
    <3> QED
      BY <2>1, <3>2, Zenon
  <2>4. \A k, f, m \in Nat : k = (n + 1) - f /\ k > m - 1 /\ m >= 2 /\ f >= 1 => f <= n /\ n # 0 /\ m - 1 # 0
    OBVIOUS
  <2>5. fresh \in Nat /\ fresh >= 1 /\ Len(kept) \in Nat
    BY <1>4, <1>6
  <2>6. fresh <= n /\ n # 0 /\ Len(r) # 0
    BY <1>1, <1>6, <1>9, <2>3, <2>4, <2>5, Zenon
  <2> QED
    BY <1>6, <1>8, <2>3, <2>6, Zenon
<1>10. CASE ~ (Len(kept) > MaxPoints - 1)
  <2>1. r = kept
    BY <1>5, <1>10, Zenon
  <2>2. kept # <<>> <=> fresh <= n
    BY <1>4, <1>6, <1>8
  <2>3. fresh <= n => s # <<>>
    BY <1>4, <1>8
  <2> QED
    BY <1>6, <1>7, <2>1, <2>2, <2>3, Zenon
<1> QED
  BY <1>9, <1>10, Zenon

\* A filter state that is not older than a publication: its last sample is the last
\* decision.
Newest(track, p) ==
  /\ {"samples", "decided", "emitted"} \subseteq DOMAIN track
  /\ track.samples \in Seq(Nat) /\ track.samples # <<>>
  /\ track.decided \in Nat /\ track.emitted \in Nat
  /\ track.samples[Len(track.samples)] = track.decided
  /\ p <= track.decided /\ p <= track.emitted

\* A state that is refreshed for a later point is empty, or as it was but for old samples.
LEMMA RefreshedNewest ==
  ASSUME EmitInterval <= MaxAge, NEW at \in Nat, NEW p \in Int, NEW track, Newest(track, p)
  PROVE  \/ Refreshed(track, at) = NoTrack /\ at - p >= EmitInterval
         \/ /\ Refreshed(track, at).samples \in Seq(Nat)
            /\ Refreshed(track, at).emitted = track.emitted
<1> DEFINE samples == TrimKalmanSamples(track.samples, at)
           old == \/ track.decided # Never /\ at - track.decided > MaxAge
                  \/ samples # <<>> /\ at - samples[Len(samples)] > MaxAge
<1>1. Refreshed(track, at) = IF old THEN NoTrack ELSE [track EXCEPT !.samples = samples]
  BY Zenon DEF Refreshed
<1>2. track.samples \in Seq(Nat) /\ {"samples", "decided", "emitted"} \subseteq DOMAIN track
  BY Zenon DEF Newest
<1>3. samples \in Seq(Nat) /\ (samples # <<>> => samples[Len(samples)] = track.decided)
  BY <1>2, TrimmedLast, Zenon DEF Newest
<1> HIDE DEF samples
<1>4. ASSUME old PROVE at - p >= EmitInterval
  <2>1. at - track.decided > MaxAge
    BY <1>3, <1>4, Zenon
  <2>2. track.decided \in Nat /\ p <= track.decided /\ MaxAge \in Nat /\ EmitInterval \in Nat
    <3>1. MaxAge \in Nat /\ EmitInterval \in Nat
      BY MotionsAssumption, Zenon
    <3> QED
      BY <3>1, Zenon DEF Newest
  <2> QED
    BY <2>1, <2>2
<1>5. /\ [track EXCEPT !.samples = samples].samples = samples
      /\ [track EXCEPT !.samples = samples].emitted = track.emitted
  <2>1. "samples" # "emitted"
    OBVIOUS
  <2> QED
    BY <1>2, <2>1, Zenon
<1> QED
  BY <1>1, <1>3, <1>4, <1>5, Zenon

\* The state a trackable starts from.
LEMMA RefreshedNone ==
  ASSUME NEW at \in Nat
  PROVE  Refreshed(NoTrack, at).samples \in Seq(Nat) /\ Refreshed(NoTrack, at).emitted = Never
<1> DEFINE samples == TrimKalmanSamples(NoTrack.samples, at)
<1>1. NoTrack.samples = <<>> /\ NoTrack.decided = Never /\ NoTrack.emitted = Never /\ <<>> \in Seq(Nat)
      /\ {"samples", "emitted"} \subseteq DOMAIN NoTrack /\ "samples" # "emitted"
  BY DEF NoTrack
<1>2. samples = <<>>
  BY <1>1, TrimmedLast, Zenon
<1> HIDE DEF samples
<1>3. Refreshed(NoTrack, at) = [NoTrack EXCEPT !.samples = samples]
  BY <1>1, <1>2, Zenon DEF Refreshed, samples
<1>4. /\ [NoTrack EXCEPT !.samples = samples].samples = samples
      /\ [NoTrack EXCEPT !.samples = samples].emitted = NoTrack.emitted
  BY <1>1, Zenon
<1> QED
  BY <1>1, <1>2, <1>3, <1>4, Zenon

\* The normalised state is newer than a publication when the point and the state are;
\* a point that may be published leaves the interval to it.
LEMMA NormalizedNewest ==
  ASSUME EmitInterval <= MaxAge, NEW at \in Nat, NEW p \in Int, p <= at, NEW point,
         NEW track, track = NoTrack \/ Newest(track, p)
  PROVE  /\ Newest(Normalized(track, at, point), p)
         /\ Emits(Refreshed(track, at), at) => Newest(Normalized(track, at, point), at)
         /\ Emits(Refreshed(track, at), at) /\ track # NoTrack => at - p >= EmitInterval
<1> DEFINE fresh == Refreshed(track, at)
           more == Append(fresh.samples, at)
           samples == TrimKalmanSamples(more, at)
           emitted == IF Emits(fresh, at) THEN at ELSE fresh.emitted
           next == Normalized(track, at, point)
<1>1. next = [samples |-> samples, decided |-> at, emitted |-> emitted, estimate |-> point]
  BY Zenon DEF Normalized
<1>2. EmitInterval \in Nat /\ MaxAge \in Nat
  BY MotionsAssumption, Zenon
<1>3. NoTrack.emitted = Never /\ NoTrack.samples = <<>> /\ <<>> \in Seq(Nat)
  BY DEF NoTrack
<1>4. fresh.samples \in Seq(Nat)
  BY <1>3, RefreshedNone, RefreshedNewest, Zenon
<1>5. more \in Seq(Nat) /\ more # <<>> /\ more[Len(more)] = at
  <2> HIDE DEF fresh
  <2> QED
    BY <1>4
<1>6. samples \in Seq(Nat) /\ samples # <<>> /\ samples[Len(samples)] = at
  <2>1. at - at <= MaxAge
    BY <1>2
  <2> HIDE DEF more
  <2> QED
    BY <1>5, <2>1, TrimmedLast, Zenon
<1>7. \/ Emits(fresh, at) /\ (track # NoTrack => at - p >= EmitInterval)
      \/ ~Emits(fresh, at) /\ fresh.emitted \in Nat /\ p <= fresh.emitted
  <2>1. ASSUME fresh.emitted = Never PROVE Emits(fresh, at)
    BY <2>1, Zenon DEF Emits
  <2>2. CASE track = NoTrack
    <3>1. fresh.emitted = Never
      BY <2>2, RefreshedNone, Zenon
    <3> QED
      BY <2>1, <2>2, <3>1, Zenon
  <2>3. CASE track # NoTrack /\ fresh = NoTrack
    <3>1. Emits(fresh, at)
      BY <1>3, <2>1, <2>3, Zenon
    <3>2. at - p >= EmitInterval
      <4>1. Newest(track, p)
        BY <2>3, Zenon
      <4>2. \/ fresh = NoTrack /\ at - p >= EmitInterval
            \/ fresh.samples \in Seq(Nat) /\ fresh.emitted = track.emitted
        BY <4>1, RefreshedNewest, Zenon
      <4>3. track.emitted \in Nat /\ Never \notin Nat
        BY <4>1 DEF Newest, Never
      <4> QED
        BY <1>3, <2>3, <4>2, <4>3, Zenon
    <3> QED
      BY <3>1, <3>2, Zenon
  <2>4. CASE track # NoTrack /\ fresh # NoTrack
    <3>1. fresh.emitted = track.emitted
      BY <2>4, RefreshedNewest, Zenon
    <3>2. track.emitted \in Nat /\ p <= track.emitted
      BY <2>4, Zenon DEF Newest
    <3> PICK e \in Nat : e = fresh.emitted
      BY <3>1, <3>2, Zenon
    <3>3. p <= e
      BY <3>1, <3>2, Zenon
    <3> HIDE DEF fresh
    <3>4. Emits(fresh, at) => at - p >= EmitInterval
      BY <1>2, <3>3 DEF Emits, Never
    <3> QED
      BY <3>3, <3>4, Zenon
  <2> QED
    BY <2>2, <2>3, <2>4, Zenon
<1> HIDE DEF fresh, samples
<1>8. /\ next.samples = samples /\ next.decided = at /\ next.emitted = emitted
      /\ {"samples", "decided", "emitted"} \subseteq DOMAIN next
  <2> HIDE DEF next, emitted
  <2> QED
    BY <1>1, Zenon
<1> HIDE DEF next
<1>9. Emits(fresh, at) => Newest(next, p) /\ Newest(next, at)
  <2>1. at <= at
    OBVIOUS
  <2> QED
    BY <1>6, <1>8, <2>1, Zenon DEF Newest
<1>10. ~Emits(fresh, at) => Newest(next, p)
  BY <1>6, <1>7, <1>8, Zenon DEF Newest
<1> QED
  BY <1>7, <1>9, <1>10, Zenon DEF fresh, next

Spaced(at, p) == p = Never \/ at = p \/ at - p >= EmitInterval

\* The worker has a state of the trackable to normalise, a point of it to publish, or
\* a state to store.
Awaits(work, t) == work.pc \in {"read", "write"} /\ \E i \in 1..Len(work.todo) : work.todo[i] = t
Sends(work, t) == work.pc # "idle" /\ \E i \in 1..Len(work.results) : For(work.results[i], t) /\ work.results[i].emit
Busy(work, t) == Awaits(work, t) \/ Sends(work, t)
Stores(work, t) == work.pc = "write" /\ Head(work.todo) = t

\* What the worker has for the trackable is in time after publication p, with filter
\* state k.
InTime(work, t, p, k) ==
  /\ work.at \in Nat /\ p <= work.at
  /\ Sends(work, t) => Spaced(work.at, p) /\ (k # NoTrack => Newest(k, work.at))
  /\ Stores(work, t) =>
       /\ Newest(work.track, p)
       /\ work.emit => Spaced(work.at, p)
       /\ work.emit \/ Sends(work, t) => Newest(work.track, work.at)

Regular(t) ==
  /\ published[t] \in Int
  /\ tracks[t] # NoTrack => Newest(tracks[t], published[t])
  /\ \A w \in Deciders : Busy(workers[w], t) =>
       /\ InTime(workers[w], t, published[t], tracks[t])
       /\ \A v \in Deciders : Busy(workers[v], t) => v = w

ThrottleInv == filter /\ EmitInterval <= MaxAge => \A t \in Trackables \ irregular : Regular(t)

\* Another worker's work stays in time when the filter state expires.
LEMMA StaysInTime ==
  ASSUME NEW work, NEW t, NEW p, NEW k, InTime(work, t, p, k), NEW l \in {k, NoTrack}
  PROVE  InTime(work, t, p, l)
<1>1. l # NoTrack => l = k
  BY Zenon
<1> QED
  BY <1>1, Zenon DEF InTime

\* A step of one worker.
LEMMA OneWorker ==
  ASSUME NEW t, NEW w \in Deciders, Regular(t),
         \A v \in Deciders \ {w} : workers'[v] = workers[v],
         published'[t] \in Int, tracks'[t] # NoTrack => Newest(tracks'[t], published'[t]),
         Busy(workers'[w], t) => /\ InTime(workers'[w], t, published'[t], tracks'[t])
                                 /\ \A v \in Deciders \ {w} : ~Busy(workers[v], t),
         \/ published'[t] = published[t] /\ tracks'[t] \in {tracks[t], NoTrack}
         \/ \A v \in Deciders \ {w} : ~Busy(workers[v], t)
  PROVE  Regular(t)'
<1>1. ASSUME NEW v \in Deciders \ {w}, Busy(workers[v], t)
      PROVE  /\ InTime(workers[v], t, published'[t], tracks'[t]) /\ ~Busy(workers'[w], t)
             /\ \A u \in Deciders : Busy(workers[u], t) => u = v
  <2>1. InTime(workers[v], t, published[t], tracks[t]) /\ \A u \in Deciders : Busy(workers[u], t) => u = v
    BY <1>1, Zenon DEF Regular
  <2>2. published'[t] = published[t] /\ tracks'[t] \in {tracks[t], NoTrack}
    BY <1>1, Zenon
  <2>3. InTime(workers[v], t, published'[t], tracks'[t])
    BY <2>1, <2>2, StaysInTime, Zenon
  <2> QED
    BY <1>1, <2>1, <2>3, Zenon
<1>2. ASSUME NEW v \in Deciders, Busy(workers'[v], t)
      PROVE  /\ InTime(workers'[v], t, published'[t], tracks'[t])
             /\ \A u \in Deciders : Busy(workers'[u], t) => u = v
  <2>1. CASE v = w
    BY <1>2, <2>1, Zenon
  <2>2. CASE v # w
    <3>1. workers'[v] = workers[v] /\ Busy(workers[v], t)
      BY <1>2, <2>2, Zenon
    <3> QED
      BY <1>1, <2>2, <3>1, Zenon
  <2> QED
    BY <2>1, <2>2, Zenon
<1>3. \A v \in Deciders : Busy(workers[v], t)' <=> Busy(workers'[v], t)
  BY Zenon DEF Busy, Awaits, Sends, For
<1>4. \A v \in Deciders : InTime(workers'[v], t, published'[t], tracks'[t]) <=> InTime(workers[v], t, published[t], tracks[t])'
  BY Zenon DEF InTime, Sends, Stores, Newest, Spaced, For, NoTrack
<1>5. (tracks[t] # NoTrack => Newest(tracks[t], published[t]))' <=> (tracks'[t] # NoTrack => Newest(tracks'[t], published'[t]))
  BY Zenon DEF Newest, NoTrack
<1> QED
  BY <1>2, <1>3, <1>4, <1>5, Zenon DEF Regular

\* Nothing happens but that filter states expire.
LEMMA NoWorker ==
  ASSUME NEW t, Regular(t), workers' = workers, published' = published, tracks'[t] \in {tracks[t], NoTrack}
  PROVE  Regular(t)'
<1>1. \A w \in Deciders : InTime(workers[w], t, published[t], tracks[t]) => InTime(workers[w], t, published[t], tracks'[t])
  BY StaysInTime, Zenon
<1>2. tracks'[t] # NoTrack => Newest(tracks'[t], published[t])
  BY Zenon DEF Regular
<1> QED
  BY <1>1, <1>2, Zenon DEF Regular

\* A location is taken: for a trackable without irregularities, when no other worker
\* has one, and not for a point that is older than the last one published.
LEMMA TakeRegular ==
  ASSUME DecisionType, filter = TRUE, filter \in FilterEnabled, NEW location \in Locations[filter], NEW at \in Nat,
         Take(location, at), NEW t \in Trackables \ irregular', Regular(t)
  PROVE  Regular(t)'
<1> DEFINE w == location.worker
           new == [pc |-> "read", todo |-> location.ts, at |-> at,
                   position |-> location.position, results |-> <<>>]
           ts == {location.ts[i] : i \in DOMAIN location.ts}
           odd == {u \in ts : \/ at < published[u] \/ at < tracks[u].decided
                              \/ filter /\ \E v \in Deciders : workers[v].pc # "idle"}
<1>1. /\ workers[w].pc = "idle" /\ workers' = [workers EXCEPT ![w] = new]
      /\ irregular' = irregular \cup odd /\ UNCHANGED <<tracks, published>>
  BY Zenon DEF Take
<1>2. w \in Deciders /\ location.ts \in Seq(Trackables)
  BY MotionsAssumption, Zenon
<1>3. \A v \in Deciders : workers'[v] = IF v = w THEN new ELSE workers[v]
  BY <1>1, Replaced, Zenon DEF DecisionType
<1>4. /\ new.pc = "read" /\ new.todo = location.ts /\ new.at = at /\ new.results = <<>>
      /\ (\A i \in 1..Len(<<>>) : FALSE) /\ "read" # "write" /\ DOMAIN location.ts = 1..Len(location.ts)
  BY <1>2
<1> HIDE DEF new
<1>5. ~Sends(new, t) /\ ~Stores(new, t)
  BY <1>4, Zenon DEF Sends, Stores
<1>6. ASSUME Busy(new, t)
      PROVE  InTime(new, t, published[t], tracks[t]) /\ \A v \in Deciders \ {w} : ~Busy(workers[v], t)
  <2>1. t \in ts
    BY <1>4, <1>5, <1>6, Zenon DEF Busy, Awaits
  <2>2. ~(at < published[t]) /\ \A v \in Deciders : workers[v].pc = "idle"
    BY <1>1, <2>1, Zenon
  <2>3. published[t] <= at
    BY <2>2 DEF Regular
  <2>4. "idle" \notin {"read", "write"}
    BY Zenon
  <2>5. \A v \in Deciders : ~Busy(workers[v], t)
    BY <2>2, <2>4, Zenon DEF Busy, Awaits, Sends
  <2> QED
    BY <1>4, <1>5, <2>3, <2>5, Zenon DEF InTime
<1>7. published'[t] = published[t] /\ tracks'[t] = tracks[t]
  BY <1>1, Zenon
<1>8. published'[t] \in Int /\ (tracks'[t] # NoTrack => Newest(tracks'[t], published'[t]))
  BY <1>7, Zenon DEF Regular
<1>9. workers'[w] = new /\ \A v \in Deciders \ {w} : workers'[v] = workers[v]
  BY <1>2, <1>3, Zenon
<1>10. Busy(workers'[w], t) => /\ InTime(workers'[w], t, published'[t], tracks'[t])
                               /\ \A v \in Deciders \ {w} : ~Busy(workers[v], t)
  BY <1>6, <1>7, <1>9, Zenon
<1> HIDE DEF w
<1> QED
  BY <1>2, <1>7, <1>8, <1>9, <1>10, OneWorker, Zenon

\* A state is read and normalised.
LEMMA ReadRegular ==
  ASSUME DecisionType, EmitInterval <= MaxAge, NEW w \in Deciders, Read(w),
         NEW t \in Trackables \ irregular', Regular(t)
  PROVE  Regular(t)'
<1> DEFINE work == workers[w]
           x == Head(work.todo)
           track == Kept(tracks[x], NoTrack)
           emit == Emits(Refreshed(track, work.at), work.at)
<1>1. /\ work.pc = "read" /\ tracks' = [tracks EXCEPT ![x] = track] /\ UNCHANGED published
      /\ irregular' = IF track = NoTrack /\ published[x] # Never THEN irregular \cup {x} ELSE irregular
      /\ \E point : workers' = [workers EXCEPT ![w] =
             [pc |-> "write", todo |-> work.todo, at |-> work.at, position |-> work.position,
              results |-> work.results, emit |-> emit, track |-> Normalized(track, work.at, point)]]
  BY Zenon DEF Read
<1>2. PICK point : workers' = [workers EXCEPT ![w] =
             [pc |-> "write", todo |-> work.todo, at |-> work.at, position |-> work.position,
              results |-> work.results, emit |-> emit, track |-> Normalized(track, work.at, point)]]
  BY <1>1, Zenon
<1> DEFINE next == Normalized(track, work.at, point)
           new == [pc |-> "write", todo |-> work.todo, at |-> work.at, position |-> work.position,
                   results |-> work.results, emit |-> emit, track |-> next]
<1>3. work.todo \in Seq(Trackables) /\ work.todo # <<>>
  BY <1>1, Zenon DEF DecisionType, Handled
<1>4. /\ x \in Trackables /\ 1 \in 1..Len(work.todo) /\ work.todo[1] = x
  <2>1. x \in Trackables
    BY <1>3, Rest, Zenon
  <2> HIDE DEF work
  <2> QED
    BY <1>3, <2>1
<1>5. \A u \in Trackables : tracks'[u] = IF u = x THEN track ELSE tracks[u]
  BY <1>1, Replaced, Zenon DEF DecisionType
<1>6. track \in {tracks[x], NoTrack}
  BY Zenon DEF Kept
<1>7. /\ new.pc = "write" /\ new.todo = work.todo /\ new.at = work.at /\ new.results = work.results
      /\ new.emit = emit /\ new.track = next /\ "write" # "idle" /\ "read" # "idle"
  <2> HIDE DEF work, emit, next
  <2> QED
    BY Zenon
<1>8. workers'[w] = new /\ \A v \in Deciders \ {w} : workers'[v] = workers[v]
  BY <1>2, Replaced, Zenon DEF DecisionType
<1> HIDE DEF new
<1>9. (Busy(new, t) <=> Busy(work, t)) /\ (Sends(new, t) <=> Sends(work, t)) /\ (Stores(new, t) <=> x = t)
  BY <1>1, <1>7, Zenon DEF Busy, Awaits, Sends, Stores
<1>10. ASSUME Busy(work, t)
       PROVE  InTime(work, t, published[t], tracks[t]) /\ \A v \in Deciders \ {w} : ~Busy(workers[v], t)
  BY <1>10, Zenon DEF Regular
<1>11. /\ published'[t] = published[t] /\ tracks'[t] \in {tracks[t], NoTrack} /\ published[t] \in Int
       /\ tracks'[t] # NoTrack => Newest(tracks'[t], published'[t])
  BY <1>1, <1>5, <1>6, Zenon DEF Regular
<1>12. ASSUME x = t
       PROVE  /\ Newest(next, published[t]) /\ (emit => Spaced(work.at, published[t]))
              /\ emit \/ Sends(work, t) => Newest(next, work.at)
  <2>1. Busy(work, t)
    BY <1>1, <1>4, <1>12, Zenon DEF Busy, Awaits
  <2>2. InTime(work, t, published[t], tracks[t])
    BY <1>10, <2>1, Zenon
  <2>3. work.at \in Nat /\ published[t] <= work.at /\ work.at \in Int /\ work.at <= work.at
    <3>1. work.at \in Nat /\ published[t] <= work.at
      BY <2>2, Zenon DEF InTime
    <3>2. \A n \in Nat : n \in Int /\ n <= n
      OBVIOUS
    <3> QED
      BY <3>1, <3>2, Zenon
  <2>4. track = NoTrack \/ Newest(track, published[t])
    BY <1>6, <1>12, Zenon DEF Regular
  <2>5. track = NoTrack => published[t] = Never
    BY <1>1, <1>12, Zenon
  <2> HIDE DEF track, work
  <2>6. /\ Newest(next, published[t]) /\ (emit => Newest(next, work.at))
        /\ emit /\ track # NoTrack => work.at - published[t] >= EmitInterval
    <3>1. published[t] \in Int
      BY <1>11, Zenon
    <3> HIDE DEF emit, next
    <3>2. ASSUME NEW p \in Int, p <= work.at, track = NoTrack \/ Newest(track, p)
          PROVE  /\ Newest(next, p) /\ (emit => Newest(next, work.at))
                 /\ emit /\ track # NoTrack => work.at - p >= EmitInterval
      BY <2>3, <3>2, NormalizedNewest, Zenon DEF emit, next
    <3> QED
      BY <2>3, <2>4, <3>1, <3>2, Zenon
  <2>7. ASSUME Sends(work, t) PROVE Newest(next, work.at)
    <3>1. track = NoTrack \/ Newest(track, work.at)
      BY <1>6, <1>12, <2>2, <2>7, Zenon DEF InTime
    <3> QED
      BY <2>3, <3>1, NormalizedNewest, Zenon
  <2> QED
    BY <2>5, <2>6, <2>7, Zenon DEF Spaced
<1>13. ASSUME Busy(new, t)
       PROVE  InTime(new, t, published'[t], tracks'[t])
  <2>1. InTime(work, t, published'[t], tracks'[t])
    BY <1>9, <1>10, <1>11, <1>13, StaysInTime, Zenon
  <2> QED
    BY <1>7, <1>9, <1>11, <1>12, <2>1, Zenon DEF InTime
<1> QED
  BY <1>8, <1>9, <1>10, <1>11, <1>13, OneWorker, Zenon

\* A sequence at its head, at the place of one that is appended, and elsewhere.
LEMMA Places ==
  ASSUME NEW S, NEW s \in Seq(S)
  PROVE  /\ \A e \in S : /\ Len(Append(s, e)) = Len(s) + 1
                         /\ \A i \in 1..(Len(s) + 1) : Append(s, e)[i] = IF i = Len(s) + 1 THEN e ELSE s[i]
                         /\ \A i \in 1..(Len(s) + 1) : i = Len(s) + 1 \/ i \in 1..Len(s)
         /\ s # <<>> => /\ 1 \in 1..Len(s) /\ s[1] = Head(s)
                        /\ \A i \in 1..Len(Tail(s)) : i + 1 \in 1..Len(s) /\ Tail(s)[i] = s[i + 1]
<1>1. ASSUME NEW e \in S
      PROVE  /\ Len(Append(s, e)) = Len(s) + 1
             /\ \A i \in 1..(Len(s) + 1) : Append(s, e)[i] = IF i = Len(s) + 1 THEN e ELSE s[i]
             /\ \A i \in 1..(Len(s) + 1) : i = Len(s) + 1 \/ i \in 1..Len(s)
  OBVIOUS
<1>2. s # <<>> => /\ 1 \in 1..Len(s) /\ s[1] = Head(s)
                  /\ \A i \in 1..Len(Tail(s)) : i + 1 \in 1..Len(s) /\ Tail(s)[i] = s[i + 1]
  OBVIOUS
<1> QED
  BY <1>1, <1>2, Zenon

\* A state is stored, with its result for publication.
LEMMA WriteRegular ==
  ASSUME DecisionType, NEW w \in Deciders, Write(w), NEW t \in Trackables, Regular(t)
  PROVE  Regular(t)'
<1> DEFINE work == workers[w]
           x == Head(work.todo)
           result == [ts |-> <<x>>, point |-> work.track.estimate, emit |-> work.emit]
           results == Append(work.results, result)
           stored == [samples |-> work.track.samples, decided |-> work.track.decided,
                      emitted |-> work.track.emitted, estimate |-> work.track.estimate,
                      expires |-> Until(TrackTTL)]
           derive == [pc |-> "derive", at |-> work.at, results |-> results]
           read == [pc |-> "read", todo |-> Tail(work.todo), at |-> work.at,
                    position |-> work.position, results |-> results]
           new == IF Len(work.todo) = 1 THEN derive ELSE read
<1>1. /\ work.pc = "write" /\ tracks' = [tracks EXCEPT ![x] = stored] /\ UNCHANGED published
      /\ workers' = [workers EXCEPT ![w] = new]
  BY Zenon DEF Write
<1>2. /\ work.todo \in Seq(Trackables) /\ work.todo # <<>> /\ work.results \in Seq(Result)
      /\ work.track.estimate \in Positions /\ work.emit \in BOOLEAN
  BY <1>1, Zenon DEF DecisionType, Handled
<1>3. x \in Trackables
  BY <1>2, Rest, Zenon
<1>4. result \in Result /\ result.emit = work.emit /\ (For(result, t) <=> x = t)
  <2> HIDE DEF work, x
  <2>1. /\ <<x>> \in Seq(Trackables) /\ DOMAIN <<x>> = {1} /\ <<x>>[1] = x
        /\ result.ts = <<x>> /\ result.emit = work.emit
    BY <1>3
  <2>2. result \in Result
    BY <1>2, <2>1, Zenon DEF Result
  <2>3. For(result, t) <=> x = t
    <3> HIDE DEF result
    <3> QED
      BY <2>1, Zenon DEF For
  <2> QED
    BY <2>1, <2>2, <2>3, Zenon
<1>5. \A u \in Trackables : tracks'[u] = IF u = x THEN stored ELSE tracks[u]
  BY <1>1, Replaced, Zenon DEF DecisionType
<1>6. workers'[w] = new /\ \A v \in Deciders \ {w} : workers'[v] = workers[v]
  BY <1>1, Replaced, Zenon DEF DecisionType
<1>7. \A p : Newest(work.track, p) => Newest(stored, p)
  <2>1. /\ stored.samples = work.track.samples /\ stored.decided = work.track.decided
        /\ stored.emitted = work.track.emitted /\ {"samples", "decided", "emitted"} \subseteq DOMAIN stored
    <3> HIDE DEF work
    <3> QED
      BY Zenon
  <2> HIDE DEF stored
  <2> QED
    BY <2>1, Zenon DEF Newest
<1> HIDE DEF stored, result
<1>8. \/ new.pc = "derive" /\ new.at = work.at /\ new.results = results
      \/ new.pc = "read" /\ new.todo = Tail(work.todo) /\ new.at = work.at /\ new.results = results
  <2>1. derive.pc = "derive" /\ derive.at = work.at /\ derive.results = results
    <3> HIDE DEF work, results
    <3> QED
      BY Zenon
  <2>2. read.pc = "read" /\ read.todo = Tail(work.todo) /\ read.at = work.at /\ read.results = results
    <3> HIDE DEF work, results
    <3> QED
      BY Zenon
  <2> HIDE DEF derive, read
  <2> QED
    BY <2>1, <2>2, Zenon
<1> HIDE DEF new
<1>9. "derive" \notin {"read", "write"} /\ "read" # "write" /\ "write" # "idle"
  OBVIOUS
<1>10. new.at = work.at /\ ~Stores(new, t)
  BY <1>8, <1>9, Zenon DEF Stores
<1>11. Sends(new, t) => Sends(work, t) \/ (x = t /\ work.emit)
  <2>1. /\ Len(results) = Len(work.results) + 1
        /\ \A i \in 1..(Len(work.results) + 1) : results[i] = IF i = Len(work.results) + 1 THEN result ELSE work.results[i]
        /\ \A i \in 1..(Len(work.results) + 1) : i = Len(work.results) + 1 \/ i \in 1..Len(work.results)
    BY <1>2, <1>4, Places, Zenon
  <2> HIDE DEF results
  <2> SUFFICES ASSUME Sends(new, t) PROVE Sends(work, t) \/ (x = t /\ work.emit)
    BY Zenon
  <2>2. PICK i \in 1..(Len(work.results) + 1) : For(results[i], t) /\ results[i].emit
    BY <1>8, <2>1, Zenon DEF Sends
  <2>3. CASE i = Len(work.results) + 1
    BY <1>4, <2>1, <2>2, <2>3, Zenon
  <2>4. CASE i # Len(work.results) + 1
    BY <1>1, <1>9, <2>1, <2>2, <2>4, Zenon DEF Sends
  <2> QED
    BY <2>3, <2>4, Zenon
<1>12. Awaits(new, t) \/ x = t => Awaits(work, t)
  <2>1. /\ 1 \in 1..Len(work.todo) /\ work.todo[1] = x
        /\ \A i \in 1..Len(Tail(work.todo)) : i + 1 \in 1..Len(work.todo) /\ Tail(work.todo)[i] = work.todo[i + 1]
    BY <1>2, Places, Zenon
  <2> HIDE DEF work
  <2> QED
    BY <1>1, <1>8, <1>9, <2>1, Zenon DEF Awaits
<1>13. Busy(new, t) \/ x = t => Busy(work, t)
  BY <1>11, <1>12, Zenon DEF Busy
<1>14. ASSUME Busy(work, t)
       PROVE  InTime(work, t, published[t], tracks[t]) /\ \A v \in Deciders \ {w} : ~Busy(workers[v], t)
  BY <1>14, Zenon DEF Regular
<1>15. published'[t] = published[t] /\ published[t] \in Int
  BY <1>1, Zenon DEF Regular
<1>16. CASE x = t
  <2>1. InTime(work, t, published[t], tracks[t]) /\ \A v \in Deciders \ {w} : ~Busy(workers[v], t)
    BY <1>13, <1>14, <1>16, Zenon
  <2>2. Stores(work, t)
    BY <1>1, <1>16, Zenon DEF Stores
  <2>3. Newest(stored, published[t]) /\ (Sends(new, t) => Spaced(work.at, published[t]) /\ Newest(stored, work.at))
    BY <1>7, <1>11, <2>1, <2>2, Zenon DEF InTime
  <2>4. tracks'[t] = stored
    BY <1>5, <1>16, Zenon
  <2>5. InTime(new, t, published'[t], tracks'[t])
    BY <1>10, <1>15, <2>1, <2>3, <2>4, Zenon DEF InTime
  <2> QED
    BY <1>6, <1>15, <2>1, <2>3, <2>4, <2>5, OneWorker, Zenon
<1>17. CASE x # t
  <2>1. tracks'[t] = tracks[t]
    BY <1>5, <1>17, Zenon
  <2>2. Busy(new, t) => InTime(new, t, published'[t], tracks'[t])
    BY <1>10, <1>11, <1>13, <1>14, <1>15, <1>17, <2>1, Zenon DEF InTime
  <2>3. tracks'[t] # NoTrack => Newest(tracks'[t], published'[t])
    BY <1>15, <2>1, Zenon DEF Regular
  <2> QED
    BY <1>6, <1>13, <1>14, <1>15, <2>1, <2>2, <2>3, OneWorker, Zenon
<1> QED
  BY <1>16, <1>17, Zenon

\* A point is published, or not; with the interval to the one before.
LEMMA DeriveRegular ==
  ASSUME DecisionType, NEW w \in Deciders, Derive(w), NEW t \in Trackables, Regular(t)
  PROVE  /\ Regular(t)'
         /\ published[t] # Never /\ published'[t] # published[t] => published'[t] - published[t] >= EmitInterval
<1> DEFINE work == workers[w]
           result == Head(work.results)
           ts == {result.ts[i] : i \in DOMAIN result.ts}
           new == IF Len(work.results) = 1 THEN NoWork ELSE [work EXCEPT !.results = Tail(work.results)]
<1>1. /\ work.pc = "derive"
      /\ published' = [u \in Trackables |-> IF u \in ts /\ result.emit THEN work.at ELSE published[u]]
      /\ workers' = [workers EXCEPT ![w] = new]
      /\ tracks' = tracks
  BY Zenon DEF Derive, Passed
<1>2. work.results \in Seq(Result) /\ work.results # <<>>
  BY <1>1, Zenon DEF DecisionType, Handled
<1>3. /\ 1 \in 1..Len(work.results) /\ work.results[1] = result
      /\ \A i \in 1..Len(Tail(work.results)) :
           i + 1 \in 1..Len(work.results) /\ Tail(work.results)[i] = work.results[i + 1]
  BY <1>2, Places, Zenon
<1>4. \/ new.pc = "idle"
      \/ new.pc = "derive" /\ new.at = work.at /\ new.results = Tail(work.results)
  <2>1. NoWork.pc = "idle"
    BY Zenon DEF NoWork
  <2>2. PICK a, r : work = [pc |-> "derive", at |-> a, results |-> r]
    BY <1>1, Zenon DEF DecisionType, Handled
  <2> DEFINE rest(tail) == [work EXCEPT !.results = tail]
  <2>3. ASSUME NEW tail PROVE rest(tail).pc = "derive" /\ rest(tail).at = a /\ rest(tail).results = tail
    <3> HIDE DEF work
    <3> QED
      BY <2>2, Zenon
  <2>4. work.at = a
    <3> HIDE DEF work
    <3> QED
      BY <2>2, Zenon
  <2>5. new = NoWork \/ new = rest(Tail(work.results))
    BY Zenon
  <2> HIDE DEF rest, work, new
  <2> QED
    BY <2>1, <2>3, <2>4, <2>5, Zenon
<1>5. workers'[w] = new /\ \A v \in Deciders \ {w} : workers'[v] = workers[v]
  BY <1>1, Replaced, Zenon DEF DecisionType
<1>6. published'[t] = IF For(result, t) /\ result.emit THEN work.at ELSE published[t]
  BY <1>1, Zenon DEF For
<1> HIDE DEF new, result, work
<1>7. "derive" \notin {"read", "write", "idle"} /\ "idle" \notin {"read", "write"}
  OBVIOUS
<1>8. ASSUME Busy(new, t)
      PROVE  Sends(new, t) /\ Sends(work, t) /\ new.at = work.at
  BY <1>1, <1>3, <1>4, <1>7, <1>8, Zenon DEF Busy, Awaits, Sends
<1>9. ~Stores(new, t)
  BY <1>4, <1>7, Zenon DEF Stores
<1>10. ASSUME Sends(work, t)
       PROVE  InTime(work, t, published[t], tracks[t]) /\ \A v \in Deciders \ {w} : ~Busy(workers[v], t)
  BY <1>10, Zenon DEF Regular, Busy, work
<1>11. published[t] \in Int /\ (tracks[t] # NoTrack => Newest(tracks[t], published[t])) /\ tracks'[t] = tracks[t]
  BY <1>1, Zenon DEF Regular
<1>12. CASE For(result, t) /\ result.emit
  <2>1. Sends(work, t)
    BY <1>1, <1>3, <1>7, <1>12, Zenon DEF Sends
  <2>2. InTime(work, t, published[t], tracks[t]) /\ \A v \in Deciders \ {w} : ~Busy(workers[v], t)
    BY <1>10, <2>1, Zenon
  <2>3. /\ work.at \in Nat /\ Spaced(work.at, published[t])
        /\ tracks[t] # NoTrack => Newest(tracks[t], work.at)
    BY <2>1, <2>2, Zenon DEF InTime
  <2>4. published'[t] = work.at
    BY <1>6, <1>12, Zenon
  <2>5. work.at \in Int /\ work.at <= work.at
    BY <2>3
  <2>6. Busy(new, t) => InTime(new, t, work.at, tracks[t])
    BY <1>8, <1>9, <2>3, <2>5, Zenon DEF InTime, Spaced
  <2>7. Regular(t)'
    BY <1>5, <1>11, <2>2, <2>3, <2>4, <2>5, <2>6, OneWorker, Zenon
  <2> QED
    BY <2>3, <2>4, <2>7, Zenon DEF Spaced
<1>13. CASE ~(For(result, t) /\ result.emit)
  <2>1. published'[t] = published[t]
    BY <1>6, <1>13, Zenon
  <2>2. Busy(new, t) => InTime(new, t, published[t], tracks[t]) /\ \A v \in Deciders \ {w} : ~Busy(workers[v], t)
    BY <1>8, <1>9, <1>10, Zenon DEF InTime
  <2>3. Regular(t)'
    BY <1>5, <1>11, <2>1, <2>2, OneWorker, Zenon
  <2> QED
    BY <2>1, <2>3, Zenon
<1> QED
  BY <1>12, <1>13, Zenon

\* Every step keeps the trackables without irregularities in time.
LEMMA ThrottleSteps ==
  ASSUME MotionInv, ThrottleInv, [TrackingNext]_trackingVars
  PROVE  ThrottleInv' /\ (published' # published => PublishesInTime)
<1>1. filter \in FilterEnabled /\ DecisionType /\ now \in Nat
  BY Zenon DEF MotionInv, CollisionType
<1>2. /\ filter' = filter /\ irregular \subseteq irregular' /\ (irregular' = irregular \/ published' = published)
      /\ \/ UNCHANGED <<tracks, workers, published>>
         \/ SweepTracking
         \/ MotionsNext
  <2>1. CASE UNCHANGED motionVars
    BY <2>1, Zenon DEF motionVars
  <2>2. CASE SweepTracking
    BY <2>2, Zenon DEF SweepTracking
  <2>3. CASE MotionsNext
    BY <2>3, Zenon DEF MotionsNext, Take, Read, Write, Derive, TakeCollisionWork, Collide, DeleteMotion
  <2> QED
    BY <2>1, <2>2, <2>3, Zenon DEF TrackingNext, PassTime, trackingVars
<1> SUFFICES ASSUME filter = TRUE, EmitInterval <= MaxAge, NEW t \in Trackables \ irregular', Regular(t)
             PROVE  /\ Regular(t)'
                    /\ published[t] # Never /\ published'[t] # published[t]
                       => published'[t] - published[t] >= EmitInterval
  <2>1. filter \in BOOLEAN
    BY <1>1, MotionsAssumption, Zenon
  <2>2. ASSUME filter = TRUE, EmitInterval <= MaxAge
        PROVE  /\ \A t \in Trackables \ irregular' : Regular(t)'
               /\ \A t \in Trackables \ irregular' :
                     published[t] # Never /\ published'[t] # published[t]
                     => published'[t] - published[t] >= EmitInterval
    <3>1. \A t \in Trackables \ irregular' : Regular(t)
      BY <1>2, <2>2, Zenon DEF ThrottleInv
    <3> QED
      BY <2>2, <3>1, Zenon
  <2>3. ThrottleInv'
    BY <1>2, <2>1, <2>2, Zenon DEF ThrottleInv
  <2>4. published' # published => PublishesInTime
    BY <1>2, <2>1, <2>2, Zenon DEF PublishesInTime
  <2> QED
    BY <2>3, <2>4, Zenon
<1>3. ASSUME workers' = workers, published' = published, tracks'[t] \in {tracks[t], NoTrack}
      PROVE  Regular(t)' /\ published'[t] = published[t]
  BY <1>3, NoWorker, Zenon
<1>4. CASE UNCHANGED <<tracks, workers, published>>
  BY <1>3, <1>4, Zenon
<1>5. CASE SweepTracking
  <2>1. workers' = workers /\ published' = published /\ tracks'[t] \in {tracks[t], NoTrack}
    BY <1>5, Zenon DEF SweepTracking, SweptTracks, Kept
  <2> QED
    BY <1>3, <2>1, Zenon
<1>6. ASSUME NEW location \in Locations[filter], now >= location.age, Take(location, now - location.age)
      PROVE  Regular(t)' /\ published'[t] = published[t]
  <2>1. location.age \in Nat
    BY <1>1, MotionsAssumption, Zenon
  <2> DEFINE at == now - location.age
  <2>2. at \in Nat
    BY <1>1, <1>6, <2>1
  <2>3. published' = published /\ Take(location, at)
    BY <1>6, Zenon DEF Take
  <2> HIDE DEF at
  <2> QED
    BY <1>1, <2>2, <2>3, TakeRegular, Zenon
<1>7. ASSUME NEW w \in Deciders, Read(w)
      PROVE  Regular(t)' /\ published'[t] = published[t]
  <2>1. published' = published
    BY <1>7, Zenon DEF Read
  <2> QED
    BY <1>1, <1>7, <2>1, ReadRegular, Zenon
<1>8. ASSUME NEW w \in Deciders, Write(w)
      PROVE  Regular(t)' /\ published'[t] = published[t]
  <2>1. published' = published
    BY <1>8, Zenon DEF Write
  <2> QED
    BY <1>1, <1>8, <2>1, WriteRegular, Zenon
<1>9. CASE TakeCollisionWork \/ Collide \/ \E u \in Trackables : DeleteMotion(u)
  <2>1. UNCHANGED <<tracks, workers, published>>
    BY <1>9, Zenon DEF TakeCollisionWork, Collide, DeleteMotion
  <2> QED
    BY <1>4, <2>1, Zenon
<1>10. CASE MotionsNext
  BY <1>1, <1>6, <1>7, <1>8, <1>9, <1>10, DeriveRegular, Zenon DEF MotionsNext
<1> QED
  BY <1>2, <1>4, <1>5, <1>10, Zenon

\* The published locations of a trackable keep the configured interval when its
\* locations come in order and one by one, its filter state does not expire and the
\* interval is not longer than the age window; for any number of workers, trackables
\* and samples, and however trackables share locations.
THEOREM PublicationThrottled == TrackingSpec => Throttled
<1>1. InitTracking => ThrottleInv
  <2> SUFFICES ASSUME InitTracking, NEW t \in Trackables PROVE Regular(t)
    BY Zenon DEF ThrottleInv
  <2>1. /\ tracks = [u \in Trackables |-> NoTrack] /\ workers = [w \in Deciders |-> NoWork]
        /\ published = [u \in Trackables |-> Never]
    BY Zenon DEF InitTracking, InitMotions
  <2>2. NoWork.pc = "idle" /\ "idle" \notin {"read", "write"} /\ Never \in Int
    BY DEF NoWork, Never
  <2>3. \A w \in Deciders : ~Busy(workers[w], t)
    BY <2>1, <2>2, Zenon DEF Busy, Awaits, Sends
  <2> QED
    BY <2>1, <2>2, <2>3, Zenon DEF Regular
<1>2. MotionInv /\ ThrottleInv /\ [TrackingNext]_trackingVars => ThrottleInv' /\ [PublishesInTime]_published
  BY ThrottleSteps, Zenon
<1> QED
  BY <1>1, <1>2, PointsInductive, PTL DEF TrackingSpec, Throttled
=============================================================================
