--------------------------- MODULE FenceMembership --------------------------
(***************************************************************************)
(* Geofencing of one trackable: publishFenceEvents and its exit policy     *)
(* (src/internal/hub/service.go) on the expiring fence memberships of      *)
(* ProcessingState (src/internal/hub/processing_state.go).                 *)
(*                                                                         *)
(* A decision worker evaluates a location by a series of critical          *)
(* sections: it lists the active memberships, then sets, reads, updates    *)
(* and clears them one fence at a time.  Between them the clock moves, the *)
(* sweeper runs, the metadata changes, a REST client deletes the           *)
(* provider's state, and another worker may handle the same trackable.     *)
(* Memberships of different trackables do not interact.                    *)
(***************************************************************************)
EXTENDS Integers, Sequences

CONSTANTS
  Workers,        \* decision workers that get locations of the trackable
  Fences,
  Scopes,         \* coordinate spaces: a zone's local one, WGS84
  ScopeOf,        \* ScopeOf[f]: the one in which fence f is drawn
  Routes,         \* the scopes in which a location is evaluated, in order
  Places,         \* where the trackable can be
  Distance,       \* Distance[s][p][f]: how far outside f is the point that place p
                  \* has in scope s; 0 is inside
  OtherFloor,     \* the distance of a place whose floor is not the fence's
  FencePolicy,    \* exit settings of a fence ...
  ProviderPolicy, \* ... of the provider whose locations a worker gets ...
  TrackablePolicy,\* ... and of the trackable
  Unset,          \* a setting that is not given
  Disabled,       \* a setting of -1
  LocationTTL,
  None,           \* no membership, no time
  MaxTime         \* bound: the last reading of the clock

Times == 0..MaxTime

Settings ==
  LET duration == (Nat \ {0}) \cup {Unset, Disabled}
  IN [tolerance : Nat, timeout : duration, delay : duration]

ASSUME FenceAssumption ==
  /\ ScopeOf \in [Fences -> Scopes]
  /\ Routes \subseteq Seq(Scopes) \ {<<>>}
  /\ OtherFloor \notin Nat
  /\ Distance \in [Scopes -> [Places -> [Fences -> Nat \cup {OtherFloor}]]]
  /\ FencePolicy \in [Fences -> Settings]
  /\ ProviderPolicy \in [Workers -> Settings]
  /\ TrackablePolicy \in Settings
  /\ Unset \notin Nat /\ Disabled \notin Nat /\ Unset # Disabled
  /\ LocationTTL \in Nat \ {0} /\ MaxTime \in Nat
  /\ None \notin Nat /\ None \notin Fences
  /\ None \notin [expires : Nat, tolerance : Times \cup {None}, pending : Times \cup {None}]

VARIABLES
  clock,
  exists,      \* the fences in the metadata cache
  member,      \* fenceMembership of the trackable
  pc,          \* where each worker is
  place,       \* the location it evaluates ...
  route,       \* ... the scopes still to evaluate it in ...
  at,          \* ... and its now in the scope at hand
  active,      \* activeFenceSet: memberships listed at the start
  lookup,      \* activeFenceIDs still to look up
  todo,        \* trackableCandidates still to evaluate
  cur,         \* the fence being evaluated
  mine,        \* the worker's copy of its membership
  last,        \* history: the last event announced for each fence
  forgotten,   \* history: a membership went without an event since then
  outSince,    \* history: since when all locations have been outside the fence
  readySince,  \* history: since when they have all called for an exit
  seen         \* history: when a location was last evaluated for the membership

world   == <<clock, exists>>
local   == <<place, route, at, active, lookup, todo, cur, mine>>
events  == <<last, forgotten>>
watched == <<outSince, readySince, seen>>
vars    == <<world, member, pc, local, events, watched>>

-----------------------------------------------------------------------------
(* Exit policy *)

\* applyFencePolicyOverride: a positive tolerance overrides; a positive time
\* overrides and -1 takes the wider one back.
Override(policy, s) ==
  [tolerance |-> IF s.tolerance > 0 THEN s.tolerance ELSE policy.tolerance,
   timeout   |-> IF s.timeout = Unset THEN policy.timeout
                 ELSE IF s.timeout = Disabled THEN None ELSE s.timeout,
   delay     |-> IF s.delay = Unset THEN policy.delay
                 ELSE IF s.delay = Disabled THEN 0 ELSE s.delay]

\* resolveFenceExitPolicy; without a timeout the band holds for ever.
Policy(w, f) ==
  LET immediate == [tolerance |-> 0, timeout |-> None, delay |-> 0]
  IN Override(Override(Override(immediate, FencePolicy[f]), ProviderPolicy[w]), TrackablePolicy)

InBand(policy, d) == d > 0 /\ d <= policy.tolerance

\* Mutant of ExitReady: coming back into the band does not restart the delay.
ExitReadyKeepsPending(d, policy, now, m) ==
  LET started == IF m.tolerance = None THEN now ELSE m.tolerance
      ready == policy.timeout # None /\ now - started >= policy.timeout
  IN IF ~InBand(policy, d)
       THEN [ready |-> TRUE, tolerance |-> None, pending |-> m.pending]
       ELSE [ready |-> ready, tolerance |-> started, pending |-> m.pending]

\* exitReady for a point outside: is the trackable out, as far as the tolerance
\* is concerned, and what is remembered of it.
ExitReady(d, policy, now, m) ==
  LET started == IF m.tolerance = None THEN now ELSE m.tolerance
      ready == policy.timeout # None /\ now - started >= policy.timeout
  IN IF ~InBand(policy, d)
       THEN [ready |-> TRUE, tolerance |-> None, pending |-> m.pending]
       ELSE [ready |-> ready, tolerance |-> started,
             pending |-> IF ready THEN m.pending ELSE None]

-----------------------------------------------------------------------------
(* The memberships *)

Membership(tolerance, pending) ==
  [expires |-> clock + LocationTTL, tolerance |-> tolerance, pending |-> pending]

Live(f) == member[f] # None /\ member[f].expires > clock

\* Memberships that are dropped without an event.
Lose(S) ==
  /\ member' = [f \in Fences |-> IF f \in S THEN None ELSE member[f]]
  /\ forgotten' = [f \in Fences |-> forgotten[f] \/ (f \in S /\ member[f] # None)]

Expired == {f \in Fences : member[f] # None /\ ~Live(f)}

-----------------------------------------------------------------------------
(* One location: processDerivedLocation, publishFenceEvents *)

Goto(w, label) == pc' = [pc EXCEPT ![w] = label]

Begin(w, p, r) ==
  /\ pc[w] = "idle"
  /\ place' = [place EXCEPT ![w] = p]
  /\ route' = [route EXCEPT ![w] = r]
  /\ Goto(w, "candidates")
  /\ UNCHANGED <<world, member, at, active, lookup, todo, cur, mine, events, watched>>

\* The distance of the worker's location, in the scope it is working on.
Outside(w, f) == Distance[Head(route[w])][place[w]][f]

\* fenceCandidatesForLocation: the fences of the scope and floor whose bounding
\* box has the point, which includes those that contain it.
Candidates(w) ==
  LET fits == {f \in exists : ScopeOf[f] = Head(route[w]) /\ Outside(w, f) # OtherFloor}
  IN {S \in SUBSET fits : \A f \in fits : Outside(w, f) = 0 => f \in S}

FindCandidates(w) ==
  /\ pc[w] = "candidates"
  /\ todo' \in {[todo EXCEPT ![w] = S] : S \in Candidates(w)}
  /\ at' = [at EXCEPT ![w] = clock]
  /\ Goto(w, "list")
  /\ UNCHANGED <<world, member, place, route, active, lookup, cur, mine, events, watched>>

\* ListInsideFences
ListInside(w) ==
  /\ pc[w] = "list"
  /\ active' = [active EXCEPT ![w] = {f \in Fences : Live(f)}]
  /\ lookup' = [lookup EXCEPT ![w] = {f \in Fences : Live(f)} \ todo[w]]
  /\ Lose(Expired)
  /\ Goto(w, "fences")
  /\ UNCHANGED <<world, place, route, at, todo, cur, mine, last, watched>>

\* An active fence that is not among the candidates is looked up by its id; one
\* that is gone, or on another floor, loses its membership (ClearInsideFence).
LookUp(w, f) ==
  /\ pc[w] = "fences"
  /\ f \in lookup[w]
  /\ lookup' = [lookup EXCEPT ![w] = @ \ {f}]
  /\ IF f \in exists /\ Outside(w, f) # OtherFloor
       THEN todo' = [todo EXCEPT ![w] = @ \cup {f}] /\ UNCHANGED <<member, forgotten>>
       ELSE Lose({f}) /\ UNCHANGED todo
  /\ UNCHANGED <<world, pc, place, route, at, active, cur, mine, last, watched>>

\* The worker takes up the next candidate.
Evaluate(w, f) ==
  /\ pc[w] = "fences"
  /\ lookup[w] = {}
  /\ f \in todo[w]
  /\ todo' = [todo EXCEPT ![w] = @ \ {f}]
  /\ cur' = [cur EXCEPT ![w] = f]

\* What the history has to say of a location inside, and of one outside.
WatchInside(w, f) ==
  /\ outSince' = [outSince EXCEPT ![f] = None]
  /\ readySince' = [readySince EXCEPT ![f] = None]
  /\ seen' = [seen EXCEPT ![f] = clock]

WatchOutside(w, f) ==
  LET out == IF outSince[f] = None THEN at[w] ELSE outSince[f]
      timeout == Policy(w, f).timeout
      ready == \/ ~InBand(Policy(w, f), Outside(w, f))
               \/ timeout # None /\ at[w] - out >= timeout
  IN /\ outSince' = [outSince EXCEPT ![f] = out]
     /\ readySince' = [readySince EXCEPT ![f] = IF ~ready THEN None
                                                ELSE IF @ = None THEN at[w] ELSE @]
     /\ seen' = [seen EXCEPT ![f] = clock]

\* Mutant of SetInside: an entry is announced on every location inside.
SetInsideAnnounces(w, f) ==
  /\ Evaluate(w, f)
  /\ Outside(w, f) = 0
  /\ member' = [member EXCEPT ![f] = Membership(None, None)]
  /\ Goto(w, "entry")
  /\ WatchInside(w, f)
  /\ UNCHANGED <<world, place, route, at, active, lookup, mine, events>>

\* Mutant of SetInside: the first location inside is recorded but not announced.
SetInsideSilent(w, f) ==
  /\ Evaluate(w, f)
  /\ Outside(w, f) = 0
  /\ member' = [member EXCEPT ![f] = Membership(None, None)]
  /\ Goto(w, "fences")
  /\ WatchInside(w, f)
  /\ UNCHANGED <<world, place, route, at, active, lookup, mine, events>>

\* Inside: SetInsideFence, and an entry unless the fence was active.
SetInside(w, f) ==
  /\ Evaluate(w, f)
  /\ Outside(w, f) = 0
  /\ member' = [member EXCEPT ![f] = Membership(None, None)]
  /\ Goto(w, IF f \in active[w] THEN "fences" ELSE "entry")
  /\ WatchInside(w, f)
  /\ UNCHANGED <<world, place, route, at, active, lookup, mine, events>>

\* Outside a fence that was not active: nothing to do.
StayOutside(w, f) ==
  /\ Evaluate(w, f)
  /\ Outside(w, f) # 0
  /\ f \notin active[w]
  /\ UNCHANGED <<world, member, pc, place, route, at, active, lookup, mine, events, watched>>

\* FenceMembershipState has nothing, or nothing valid, any more.
MissMembership(w, f) ==
  /\ Evaluate(w, f)
  /\ Outside(w, f) # 0
  /\ f \in active[w]
  /\ ~Live(f)
  /\ Lose({f})
  /\ UNCHANGED <<world, pc, place, route, at, active, lookup, mine, last, watched>>

\* FenceMembershipState, exitReady, and what to do next: write the membership
\* back, wait for the delay, or leave.
ReadMembership(w, f) ==
  /\ Evaluate(w, f)
  /\ Outside(w, f) # 0
  /\ f \in active[w]
  /\ Live(f)
  /\ LET m == ExitReady(Outside(w, f), Policy(w, f), at[w], member[f])
         begun == m.ready /\ m.pending = None
         since == IF begun THEN at[w] ELSE m.pending
     IN /\ mine' = [mine EXCEPT ![w] = [tolerance |-> m.tolerance, pending |-> since]]
        /\ Goto(w, IF ~m.ready THEN "hold"
                   ELSE IF begun THEN "begin"
                   ELSE IF at[w] - since < Policy(w, f).delay THEN "fences"
                   ELSE "clear")
  /\ WatchOutside(w, f)
  /\ UNCHANGED <<world, member, place, route, at, active, lookup, events>>

\* UpdateFenceMembershipState, which recreates a membership that has gone.
WriteMembership(w) ==
  /\ pc[w] \in {"hold", "begin"}
  /\ member' = [member EXCEPT ![cur[w]] = Membership(mine[w].tolerance, mine[w].pending)]
  /\ Goto(w, IF pc[w] = "begin" /\ Policy(w, cur[w]).delay = 0 THEN "clear" ELSE "fences")
  /\ UNCHANGED <<world, local, events, watched>>

\* ClearInsideFence before an exit.
ClearInside(w) ==
  /\ pc[w] = "clear"
  /\ member' = [member EXCEPT ![cur[w]] = None]
  /\ Goto(w, "exit")
  /\ UNCHANGED <<world, local, events, watched>>

\* publishFenceEvent; the membership of an entry may already be gone again.
Emit(w) ==
  /\ pc[w] \in {"entry", "exit"}
  /\ last' = [last EXCEPT ![cur[w]] = pc[w]]
  /\ forgotten' = [forgotten EXCEPT ![cur[w]] = pc[w] = "entry" /\ member[cur[w]] = None]
  /\ Goto(w, "fences")
  /\ UNCHANGED <<world, member, local, watched>>

\* The fences are done: on to the next scope, or the next location.
Finish(w) ==
  /\ pc[w] = "fences"
  /\ lookup[w] = {} /\ todo[w] = {}
  /\ route' = [route EXCEPT ![w] = Tail(@)]
  /\ Goto(w, IF Len(route[w]) > 1 THEN "candidates" ELSE "idle")
  /\ at' = [at EXCEPT ![w] = 0]
  /\ active' = [active EXCEPT ![w] = {}]
  /\ cur' = [cur EXCEPT ![w] = None]
  /\ mine' = [mine EXCEPT ![w] = [tolerance |-> None, pending |-> None]]
  /\ UNCHANGED <<world, member, place, lookup, todo, events, watched>>

Step(w) ==
  \/ FindCandidates(w) \/ ListInside(w) \/ Finish(w)
  \/ WriteMembership(w) \/ ClearInside(w) \/ Emit(w)
  \/ \E f \in Fences : \/ LookUp(w, f) \/ SetInside(w, f) \/ StayOutside(w, f)
                       \/ MissMembership(w, f) \/ ReadMembership(w, f)

-----------------------------------------------------------------------------
(* The rest of the hub *)

Tick ==
  /\ clock < MaxTime
  /\ clock' = clock + 1
  /\ UNCHANGED <<exists, member, pc, local, events, watched>>

SweepExpired ==
  /\ Expired # {}
  /\ Lose(Expired)
  /\ UNCHANGED <<world, pc, local, last, watched>>

\* A fence is created or deleted in the metadata cache.
ChangeFences ==
  /\ exists' \in (SUBSET Fences) \ {exists}
  /\ UNCHANGED <<clock, member, pc, local, events, watched>>

\* deleteProviderState clears the fences it has listed, one by one.
DeleteProviderState(f) ==
  /\ member[f] # None
  /\ Lose({f})
  /\ UNCHANGED <<world, pc, local, last, watched>>

Init ==
  /\ clock = 0
  /\ exists = Fences
  /\ member = [f \in Fences |-> None]
  /\ pc = [w \in Workers |-> "idle"]
  /\ place \in [Workers -> Places]
  /\ route = [w \in Workers |-> <<>>]
  /\ at = [w \in Workers |-> 0]
  /\ active = [w \in Workers |-> {}]
  /\ lookup = [w \in Workers |-> {}]
  /\ todo = [w \in Workers |-> {}]
  /\ cur = [w \in Workers |-> None]
  /\ mine = [w \in Workers |-> [tolerance |-> None, pending |-> None]]
  /\ last = [f \in Fences |-> "none"]
  /\ forgotten = [f \in Fences |-> FALSE]
  /\ outSince = [f \in Fences |-> None]
  /\ readySince = [f \in Fences |-> None]
  /\ seen = [f \in Fences |-> 0]

Next ==
  \/ \E w \in Workers : Step(w) \/ \E p \in Places, r \in Routes : Begin(w, p, r)
  \/ Tick
  \/ SweepExpired
  \/ ChangeFences
  \/ \E f \in Fences : DeleteProviderState(f)

Spec == Init /\ [][Next]_vars

-----------------------------------------------------------------------------
(* Properties *)

Labels == {"idle", "candidates", "list", "fences", "hold", "begin", "clear", "entry", "exit"}

\* Every variable has its type; times lie between 0 and the clock, and a worker
\* that is busy with one fence has one.
TypeOK ==
  /\ clock \in Times /\ exists \subseteq Fences
  /\ member \in [Fences -> [expires : Nat, tolerance : Times \cup {None},
                            pending : Times \cup {None}] \cup {None}]
  /\ pc \in [Workers -> Labels]
  /\ place \in [Workers -> Places] /\ route \in [Workers -> Seq(Scopes)]
  /\ at \in [Workers -> Times]
  /\ active \in [Workers -> SUBSET Fences]
  /\ lookup \in [Workers -> SUBSET Fences]
  /\ todo \in [Workers -> SUBSET Fences]
  /\ cur \in [Workers -> Fences \cup {None}]
  /\ mine \in [Workers -> [tolerance : Times \cup {None}, pending : Times \cup {None}]]
  /\ last \in [Fences -> {"none", "entry", "exit"}] /\ forgotten \in [Fences -> BOOLEAN]
  /\ outSince \in [Fences -> Times \cup {None}]
  /\ readySince \in [Fences -> Times \cup {None}] /\ seen \in [Fences -> Times]
  /\ \A w \in Workers :
       /\ pc[w] \in {"hold", "begin", "clear", "entry", "exit"} => cur[w] \in Fences
       /\ pc[w] # "idle" => route[w] # <<>>

\* A worker is about to announce an event of the fence.
Announcing(f, kind) == \E w \in Workers : pc[w] = kind /\ cur[w] = f

\* Subscribers know what the hub knows: a fence with a membership was last
\* announced as entered, and one last announced as entered has a membership unless
\* it was dropped silently.
AnnouncedState ==
  \A f \in Fences :
    /\ member[f] # None => last[f] = "entry" \/ Announcing(f, "entry")
    /\ last[f] = "entry" /\ ~forgotten[f] => member[f] # None \/ Announcing(f, "exit")

\* The event a worker announces does not repeat the one before.
EmitAlternates ==
  \A w \in Workers : Emit(w) =>
    IF pc[w] = "entry" THEN last[cur[w]] # "entry" \/ forgotten[cur[w]]
    ELSE last[cur[w]] = "entry"

\* Entries and exits of a fence alternate; a second entry in a row means that the
\* membership was dropped silently in between.
EdgesAlternate == [][EmitAlternates]_vars

\* An exit that a worker announces has been due for the exit delay.
ExitWasDue ==
  \A w \in Workers : Emit(w) /\ pc[w] = "exit" =>
    LET since == readySince[cur[w]]
    IN since # None /\ at[w] - since >= Policy(w, cur[w]).delay

\* An exit is announced only when every location evaluated during the exit delay
\* was outside the fence and beyond what the tolerance allows.
ExitDebounced == [][ExitWasDue]_vars

\* An exit is announced only for a trackable whose place is outside the fence.
ExitOnlyOutside ==
  [][\A w \in Workers : Emit(w) /\ pc[w] = "exit" =>
       Distance[ScopeOf[cur[w]]][place[w]][cur[w]] # 0]_vars

\* A membership outlasts the latest location evaluated for it by LocationTTL, so
\* that the next location can make a delayed exit final.
KeptWhileSeen ==
  (\A w \in Workers : pc[w] = "idle") =>
    \A f \in Fences : member[f] # None /\ ~Live(f) => clock - seen[f] >= LocationTTL
=============================================================================
