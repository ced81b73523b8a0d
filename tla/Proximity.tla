------------------------------ MODULE Proximity ------------------------------
(***************************************************************************)
(* Proximity updates become locations (locationFromProximity and what it   *)
(* calls, internal/hub/service.go).  The zone a tag is reported in is      *)
(* sticky: it gives way to another one only after a minimum dwell, and not *)
(* to a neighbour as long as it was confirmed a short while ago.           *)
(*                                                                         *)
(* Ingest calls run concurrently, those of one tag too: MQTT messages are  *)
(* handled on goroutines of their own.  A call reads the clock and the     *)
(* zones, then the tag's state, and stores the state it has resolved; each *)
(* of the three is a step.                                                 *)
(***************************************************************************)
EXTENDS Expiry

CONSTANTS
    Tags,            \* providers that send proximities
    Zones,           \* zones, which are the sources of proximities
    Versions,        \* Versions[z]: what zone z is, and what it may be edited to
    PolicyDefaults,  \* defaultProximityResolutionPolicy
    Callers,         \* ingest calls in progress
    MaxProximities,  \* bound: accepted proximities
    MaxEdits         \* bound: edits of zones

Gone     == [kind |-> "gone"]

(* What a zone may be, in its time.                                        *)
ZoneVersions == UNION {{Versions[z][i] : i \in DOMAIN Versions[z]} : z \in Zones}

ASSUME ProximityAssumption ==
    /\ "none" \notin Zones
    /\ \A z \in Zones : 1 \in DOMAIN Versions[z]
    /\ {"exitGrace", "dwell", "stale"} \subseteq DOMAIN PolicyDefaults
    /\ \A field \in DOMAIN PolicyDefaults :
          /\ PolicyDefaults[field] \in Int
          /\ \A zone \in ZoneVersions \ {Gone} :
                field \in DOMAIN zone.overrides => zone.overrides[field] \in Int

NoRadius == -1
NoState  == [zone |-> "none", entered |-> 0, confirmed |-> 0, expires |-> 0]
NoReport == [zone |-> "none", at |-> 0, since |-> 0, grace |-> 0, dwell |-> 0,
             stale |-> 0, expires |-> 0]
NoCall   == [pc |-> "idle"]

VARIABLES
    zones,        \* zone -> its metadata
    states,       \* tag -> proximityResolutionState
    calls,        \* caller -> its call
    proximities,  \* proximities accepted so far
    edits,        \* edits so far
    heard,        \* history: when a tag was last near a zone, -1 for never
    reports,      \* history: the latest location of a tag
    raced         \* history: tags with two calls in progress at once

proximityVars == <<zones, states, calls, proximities, edits, heard, reports, raced>>

InitProximity ==
    /\ zones = [z \in Zones |-> Versions[z][1]]
    /\ states = [tag \in Tags |-> NoState]
    /\ calls = [c \in Callers |-> NoCall]
    /\ proximities = 0
    /\ edits = 0
    /\ heard = [tag \in Tags |-> [z \in Zones |-> -1]]
    /\ reports = [tag \in Tags |-> NoReport]
    /\ raced = {}

-----------------------------------------------------------------------------
(* The policy of a zone: the defaults with the zone's overrides.  -1 is an *)
(* override that cannot be parsed, or a position mode that is not known,   *)
(* both refused like a negative one.                                       *)

ProximityPolicyForZone(zone) ==
    [field \in DOMAIN PolicyDefaults |->
        IF field \in DOMAIN zone.overrides THEN zone.overrides[field]
                                           ELSE PolicyDefaults[field]]

ValidPolicy(policy) ==
    /\ policy.exitGrace > 0 /\ policy.stale > 0
    /\ \A field \in DOMAIN policy : policy[field] >= 0

Usable(zone) ==
    /\ zone # Gone
    /\ zone.positioned
    /\ ValidPolicy(ProximityPolicyForZone(zone))

(* resolveProximityCandidate                                               *)
Candidate(zone) == Usable(zone) /\ zone.kind \in {"rfid", "ibeacon"}

Confident(zone, confidence) ==
    LET least == ProximityPolicyForZone(zone).confidence
    IN  least > 0 => confidence >= least

ZoneRadius(zone) ==
    IF zone.radius = NoRadius THEN ProximityPolicyForZone(zone).fallback ELSE zone.radius

(* zonesWithinBoundaryGrace: the distance of the centres squared, against  *)
(* the radii and the wider margin.                                         *)
WithinBoundaryGrace(current, candidate) ==
    LET a     == ProximityPolicyForZone(current).boundary
        b     == ProximityPolicyForZone(candidate).boundary
        reach == ZoneRadius(current) + ZoneRadius(candidate) + (IF a > b THEN a ELSE b)
        dx    == candidate.at[1] - current.at[1]
        dy    == candidate.at[2] - current.at[2]
    IN  dx * dx + dy * dy <= reach * reach

(* Stale state forgotten, a lapsed grace not.                              *)
ExpiredWhenStale(state, policy, at) == at - state.confirmed > policy.stale

ProximityStateExpired(state, policy, at) ==
    \/ at - state.confirmed > policy.exitGrace
    \/ at - state.confirmed > policy.stale

Enter(source, at) == [zone |-> source, entered |-> at, confirmed |-> at]

(* The dwell not looked at.                                                *)
StaysNear(call, state, current, candidate, policy) ==
    /\ WithinBoundaryGrace(current, candidate)
    /\ call.at - state.confirmed <= policy.exitGrace

(* resolveProximity keeps the current zone although another was heard.     *)
Stays(call, state, current, candidate, policy) ==
    \/ call.at - state.entered < policy.dwell
    \/ /\ WithinBoundaryGrace(current, candidate)
       /\ call.at - state.confirmed <= policy.exitGrace

(* resolveProximity, for a candidate that was accepted: "failed" when the  *)
(* current zone cannot be used any more, or the state and the zone that    *)
(* the location is derived from.                                           *)
ResolveProximity(call, state) ==
    LET current   == call.zones[state.zone]
        candidate == call.zones[call.source]
        policy    == ProximityPolicyForZone(current)
        entered   == Enter(call.source, call.at)
    IN  IF state.zone = "none" \/ (state.zone # "none" /\ current = Gone)
          THEN [pc |-> "store", state |-> entered]
        ELSE IF ~Usable(current) THEN [pc |-> "failed"]
        ELSE IF ProximityStateExpired(state, policy, call.at)
          THEN [pc |-> "store", state |-> entered]
        ELSE LET kept == [zone |-> state.zone, entered |-> state.entered,
                          confirmed |-> state.confirmed]
             IN  [pc |-> "store",
                  state |-> IF state.zone = call.source
                              THEN [kept EXCEPT !.confirmed = call.at]
                            ELSE IF Stays(call, state, current, candidate, policy)
                              THEN kept ELSE entered]

-----------------------------------------------------------------------------
(* ProcessProximities up to the state: the clock and the zones are read,   *)
(* and a proximity that is not acceptable changes nothing.                 *)
BeginProximity(c, tag, source, confidence) ==
    /\ calls[c].pc = "idle"
    /\ proximities < MaxProximities
    /\ IF Candidate(zones[source]) /\ Confident(zones[source], confidence)
         THEN /\ calls' = [calls EXCEPT ![c] =
                     [pc |-> "load", tag |-> tag, source |-> source, at |-> now,
                      zones |-> zones]]
              /\ proximities' = proximities + 1
              /\ heard' = [heard EXCEPT ![tag][source] = now]
              /\ raced' = IF \E d \in Callers : calls[d].pc # "idle" /\ calls[d].tag = tag
                            THEN raced \cup {tag} ELSE raced
         ELSE UNCHANGED <<calls, proximities, heard, raced>>
    /\ UNCHANGED <<now, zones, states, edits, reports>>

(* loadProximityState and resolveProximity; an expired entry is deleted.   *)
Load(c) ==
    /\ calls[c].pc = "load"
    /\ LET tag      == calls[c].tag
           state    == Kept(states[tag], NoState)
           resolved == ResolveProximity(calls[c], state)
       IN  /\ calls' = [calls EXCEPT ![c] =
                  IF resolved.pc = "failed" THEN NoCall
                  ELSE [pc |-> "store", tag |-> tag, at |-> calls[c].at,
                        zones |-> calls[c].zones, state |-> resolved.state]]
           /\ states' = [states EXCEPT ![tag] = state]
    /\ UNCHANGED <<now, zones, proximities, edits, heard, reports, raced>>

(* storeProximityState, and the location is derived from the zone.         *)
Store(c) ==
    /\ calls[c].pc = "store"
    /\ LET tag    == calls[c].tag
           state  == calls[c].state
           policy == ProximityPolicyForZone(calls[c].zones[state.zone])
           since  == IF reports[tag].zone = state.zone THEN reports[tag].since
                                                       ELSE calls[c].at
       IN  /\ states' = [states EXCEPT ![tag] =
                  [zone |-> state.zone, entered |-> state.entered,
                   confirmed |-> state.confirmed, expires |-> Until(policy.stale)]]
           /\ reports' = [reports EXCEPT ![tag] =
                  [zone |-> state.zone, at |-> calls[c].at, since |-> since,
                   grace |-> policy.exitGrace, dwell |-> policy.dwell,
                   stale |-> policy.stale, expires |-> Until(policy.stale)]]
    /\ calls' = [calls EXCEPT ![c] = NoCall]
    /\ UNCHANGED <<now, zones, proximities, edits, heard, raced>>

(* A zone is edited or deleted through the metadata API.                   *)
EditZone(z, version) ==
    /\ edits < MaxEdits
    /\ version # zones[z]
    /\ zones' = [zones EXCEPT ![z] = version]
    /\ edits' = edits + 1
    /\ UNCHANGED <<now, states, calls, proximities, heard, reports, raced>>

ProximityNext ==
    \/ \E c \in Callers, tag \in Tags, z \in Zones, confidence \in 0..1 :
           BeginProximity(c, tag, z, confidence)
    \/ \E c \in Callers : Load(c) \/ Store(c)
    \/ \E z \in Zones : \E i \in DOMAIN Versions[z] : EditZone(z, Versions[z][i])

(* The sweeper's part.                                                     *)
SweptStates ==
    [tag \in Tags |-> Kept(states[tag], NoState)]

-----------------------------------------------------------------------------
(* Stickiness is bounded: a tag is never reported in a zone it was not     *)
(* near within that zone's exit grace, however calls overtake one another  *)
(* and whatever happens to the zones (resolveProximity).                   *)
StickyBounded ==
    \A tag \in Tags :
        reports[tag].zone # "none" =>
            reports[tag].at - heard[tag][reports[tag].zone] <= reports[tag].grace

(* A report in another zone than the one before has its reason.            *)
LeavesForCause ==
    \A tag \in Tags :
        LET old == reports[tag]
            new == reports'[tag]
        IN  /\ old.zone # "none" /\ new.zone # old.zone
            /\ tag \notin raced /\ edits = 0
            => \/ new.at - old.since >= old.dwell
               \/ new.at - heard[tag][old.zone] > old.grace
               \/ new.at - heard[tag][old.zone] > old.stale
               \/ now >= old.expires

(* A tag whose calls do not overlap does not flap: it is reported in a     *)
(* zone for the minimum dwell at least, unless it was not near that zone   *)
(* for longer than the exit grace or the stale time, or the stored state   *)
(* expired before it was read again (MinDwellDuration in resolveProximity).*)
DwellHonoured == [][LeavesForCause]_reports
=============================================================================
