--------------------------- MODULE RestApiProofs ---------------------------
(***************************************************************************)
(* What the REST API does for every set of requests, tokens, permissions   *)
(* and catalogues: the verifier is shared soundly, answers say what became *)
(* of the rows, and nothing is changed for a request that the registry     *)
(* does not allow.                                                         *)
(*                                                                         *)
(* How a request matches a route and which of a role's rules decides are   *)
(* left opaque (Matched, Refusals, Allowed): the arguments hold whatever   *)
(* they are.                                                               *)
(***************************************************************************)
EXTENDS RestApi, TLAPS

Pcs == {"idle", "fresh", "refresh", "fetch", "authorize", "unauthorized",
        "route", "sensors", "deleting", "done"}

(* The route a request is served by, and the identifiers requests name.    *)
RouteFor(r) == CHOOSE x \in Matched[r] : TRUE

Named ==
    Ids \cup {Requests[r].id : r \in DOMAIN Requests}
        \cup {IdOf(RouteFor(r), Requests[r].path) :
                  r \in {q \in DOMAIN Requests : Matched[q] # {}}}

Calls == [pc : Pcs, req : DOMAIN Requests \cup {NoRequest}, todo : SUBSET Named,
          listed : SUBSET (Ids \X (Nat \ {Absent})), changed : SUBSET Named,
          status : Nat]

Types ==
    /\ rows \in [Kinds -> [Ids -> Nat]]
    /\ cache \in [Kinds -> [Ids -> Nat]]
    /\ changes \in Nat /\ failures \in Nat
    /\ fresh \in BOOLEAN
    /\ refreshing \in Slots \cup {Nobody}
    /\ expiries \in Nat /\ refreshes \in Nat
    /\ call \in [Slots -> Calls]
    /\ \A s \in Slots : call[s].pc # "idle" => call[s].req \in DOMAIN Requests

(* A request has a route, and it is for one of these acts.                 *)
Routed(r, acts) == Matched[r] # {} /\ RouteFor(r).act \in acts

Crud == {"create", "update", "delete", "sensors"}

(* The row a request is about.                                             *)
AskedFor(r) == IF RouteFor(r).act = "create" THEN Requests[r].id
               ELSE IdOf(RouteFor(r), Requests[r].path)

(* What the fields of a call say of each other, up to its answer; a call   *)
(* that gets past the middleware with a route may do so.                   *)
SoundOf(r, pc, status, todo, changed) ==
    /\ pc # "done" => status = 0
    /\ pc \notin {"deleting", "done"} => changed = {}
    /\ pc # "deleting" => todo = {}
    /\ pc = "unauthorized" => Requests[r].token = NoToken
    /\ pc = "sensors" => Routed(r, {"sensors"})
    /\ pc = "deleting" => Routed(r, {"deleteAll"})
    /\ status = 401 => ~Acceptable(Requests[r].token)
    /\ pc = "done" /\ Routed(r, Crud) /\ status < 400 => changed = {AskedFor(r)}
    /\ pc = "done" /\ Routed(r, Crud) /\ status \in 400..499 => changed = {}
    /\ Routed(r, Crud) => changed \subseteq {AskedFor(r)}
    /\ changed # {} => Matched[r] # {}
    /\ /\ pc \in {"route", "sensors", "deleting"} \/ changed # {}
       /\ AuthMode # "none" /\ Matched[r] # {}
       => Acceptable(Requests[r].token) /\ Allowed[r]

Sound(c) == SoundOf(c.req, c.pc, c.status, c.todo, c.changed)

CallsInv == \A s \in Slots : Sound(call[s])

(* The verifier's lock is held by the request that fetches, and a verifier *)
(* is fetched only when one has run out.                                   *)
LockInv ==
    /\ \A s \in Slots : call[s].pc = "fetch" <=> refreshing = s
    /\ refreshing # Nobody => ~fresh
    /\ refreshes + (IF fresh THEN 0 ELSE 1) = expiries

(* Rows are numbered by the change that wrote them, so that what a bulk    *)
(* delete has listed and deleted never comes back under its number.        *)
Lists(r, pc, status) ==
    \/ pc = "deleting"
    \/ pc = "done" /\ status = 204 /\ Routed(r, {"deleteAll"})

RowsInv ==
    /\ \A k \in Kinds, id \in Ids : rows[k][id] <= changes /\ cache[k][id] <= changes
    /\ \A s \in Slots : \A row \in call[s].listed : row[2] <= changes
    /\ \A s \in Slots : Lists(call[s].req, call[s].pc, call[s].status) =>
           \A row \in call[s].listed :
               row[1] \in call[s].todo \/ rows[RouteFor(call[s].req).kind][row[1]] # row[2]

(* The inductive invariant.                                                *)
RestInv == Types /\ CallsInv /\ LockInv /\ RowsInv

(* Whatever a request changes, the token that came with it was accepted    *)
(* and the registry allows the request (Middleware before the router).     *)
OnlyAllowed ==
    \A s \in Slots : call[s].changed # {} /\ AuthMode # "none" =>
        Acceptable(Request(s).token) /\ Allowed[call[s].req]
-----------------------------------------------------------------------------
(* Where the invariant comes from, and what it says.                       *)

(* The hub starts with idle slots and numbered rows.                       *)
LEMMA InitRest ==
    Init => RestInv
<1> SUFFICES ASSUME Init PROVE RestInv
  BY Zenon
<1>1. /\ call = [s \in Slots |-> Idle] /\ changes = 1 /\ fresh = TRUE
      /\ refreshing = Nobody /\ expiries = 0 /\ refreshes = 0
      /\ rows \in [Kinds -> [Ids -> {Absent, 1}]] /\ cache = rows /\ failures = 0
  BY RestAssumption, Zenon DEF Init
<1>2. Idle \in Calls
  BY Zenon DEF Idle, Calls, Pcs, NoRequest
<1>3. \A s \in Slots : /\ call[s] = Idle /\ call[s].pc = "idle" /\ call[s].listed = {}
  BY <1>1, Zenon DEF Idle
<1>4. Types
  BY <1>1, <1>2, <1>3 DEF Types, Absent
<1>5. CallsInv
  BY <1>3 DEF CallsInv, Sound, SoundOf, Idle
<1>6. LockInv
  BY <1>1, <1>3, RestAssumption DEF LockInv, Nobody
<1>7. RowsInv
  BY <1>1, <1>3 DEF RowsInv, Absent
<1> QED
  BY <1>4, <1>5, <1>6, <1>7, Zenon DEF RestInv

(* What is known of a call.                                                *)
LEMMA CallFacts ==
    ASSUME RestInv, NEW s \in Slots
    PROVE  /\ call[s] \in Calls /\ Sound(call[s])
           /\ call[s].pc # "idle" => call[s].req \in DOMAIN Requests
BY Zenon DEF RestInv, Types, CallsInv

(* The verifier, as the invariant has it.                                  *)
LEMMA InvShared ==
    ASSUME RestInv
    PROVE  VerifierShared
<1>1. OutageTolerated
  BY CallFacts, Zenon DEF Sound, SoundOf, OutageTolerated, Request
<1>2. OneRefreshPerExpiry
  BY DEF RestInv, Types, LockInv, OneRefreshPerExpiry
<1> QED
  BY <1>1, <1>2, Zenon DEF VerifierShared

(* The answers, as the invariant has them.                                 *)
LEMMA InvTruthful ==
    ASSUME RestInv
    PROVE  AnswersTruthful
<1>1. \A s \in Slots : RouteOf(s) = RouteFor(call[s].req)
  BY Zenon DEF RouteOf, RouteFor
<1>2. StatusTruthful
  <2>1. \A s \in Slots : Asked(s) = AskedFor(call[s].req)
    BY <1>1, Zenon DEF Asked, AskedFor, Target, Request
  <2> QED
    BY <1>1, <2>1, CallFacts, Zenon DEF Sound, SoundOf, Routed, Crud, StatusTruthful, Done
<1>3. BulkDeleteTruthful
  <2> SUFFICES ASSUME NEW s \in Slots, Done(s, {"deleteAll"}), call[s].status = 204,
                      NEW row \in call[s].listed
               PROVE  rows[RouteOf(s).kind][row[1]] # row[2]
    BY Zenon DEF BulkDeleteTruthful
  <2>1. Lists(call[s].req, call[s].pc, call[s].status)
    BY <1>1, Zenon DEF Done, Lists, Routed
  <2>2. call[s].todo = {}
    BY CallFacts, Zenon DEF Done, Sound, SoundOf
  <2> QED
    BY <1>1, <2>1, <2>2 DEF RestInv, RowsInv
<1> QED
  BY <1>2, <1>3, Zenon DEF AnswersTruthful

(* The permissions, as the invariant has them.                             *)
LEMMA InvAllowed ==
    ASSUME RestInv
    PROVE  OnlyAllowed
BY CallFacts, Zenon DEF Sound, SoundOf, OnlyAllowed, Request

-----------------------------------------------------------------------------
(* What the helpers of the actions do to the fields of a call.             *)

(* The calls of the other slots.                                           *)
OthersKept(s) == \A t \in Slots \ {s} : call'[t] = call[t]

(* A step of the call in slot s, to these fields; what it asks for and     *)
(* what it listed stay.                                                    *)
Moved(s, pc, status, todo, changed) ==
    /\ call' \in [Slots -> Calls] /\ OthersKept(s)
    /\ call'[s].req = call[s].req /\ call'[s].listed = call[s].listed
    /\ call'[s].pc = pc /\ call'[s].status = status
    /\ call'[s].todo = todo /\ call'[s].changed = changed

(* Replacing the fields of one call.                                       *)
LEMMA CallMoved ==
    ASSUME RestInv, NEW s \in Slots, NEW pc \in Pcs, NEW status \in Nat,
           NEW todo \in SUBSET Named, NEW changed \in SUBSET Named,
           Move(s, pc, status, todo, changed)
    PROVE  Moved(s, pc, status, todo, changed)
<1> DEFINE d == [call[s] EXCEPT !.pc = pc, !.status = status, !.todo = todo,
                                !.changed = changed]
<1>1. call[s] \in Calls /\ call \in [Slots -> Calls]
  BY Zenon DEF RestInv, Types
<1>2. d \in Calls
  BY <1>1, Zenon DEF Calls
<1>3. /\ d.pc = pc /\ d.status = status /\ d.todo = todo /\ d.changed = changed
      /\ d.req = call[s].req /\ d.listed = call[s].listed
  BY <1>1, Zenon DEF Calls
<1>4. call' = [call EXCEPT ![s] = d]
  BY Zenon DEF Move
<1> HIDE DEF d
<1> QED
  BY <1>1, <1>2, <1>3, <1>4, Zenon DEF Moved, OthersKept

(* A row is left, removed, or written under the next number; the cache has *)
(* no later one.                                                           *)
RowStep ==
    /\ rows' \in [Kinds -> [Ids -> Nat]]
    /\ cache' \in [Kinds -> [Ids -> Nat]]
    /\ changes' \in Nat /\ changes <= changes' /\ failures' \in Nat
    /\ \A k \in Kinds, id \in Ids : cache'[k][id] <= changes'
    /\ \A k \in Kinds, id \in Ids :
           \/ rows'[k][id] \in {rows[k][id], Absent}
           \/ rows'[k][id] = changes + 1 /\ changes' = changes + 1

(* The route of a request is one of those that match it, and about a kind  *)
(* in play unless it is for the RPC bridge.                                *)
LEMMA RouteChosen ==
    ASSUME NEW r \in DOMAIN Requests, Matched[r] # {}
    PROVE  /\ RouteFor(r) \in Matched[r]
           /\ RouteFor(r).act \notin {"discover", "invoke"} => RouteFor(r).kind \in Kinds
<1>1. RouteFor(r) \in Matched[r]
  BY Zenon DEF RouteFor
<1> QED
  BY <1>1, KindsAssumption, Zenon

(* A listed row that is gone stays gone: its number is not used again.     *)
LEMMA GoneStaysGone ==
    ASSUME RestInv, RowStep, NEW s \in Slots, NEW row \in call[s].listed,
           Routed(call[s].req, {"deleteAll"}), call[s].pc # "idle",
           rows[RouteFor(call[s].req).kind][row[1]] # row[2]
    PROVE  rows'[RouteFor(call[s].req).kind][row[1]] # row[2]
<1> DEFINE kind == RouteFor(call[s].req).kind
<1>1. call[s] \in Calls /\ call[s].req \in DOMAIN Requests
  BY Zenon DEF RestInv, Types
<1>2. kind \in Kinds
  BY <1>1, RouteChosen, Zenon DEF Routed
<1>3. row[1] \in Ids /\ row[2] \in Nat \ {Absent}
  BY <1>1, Zenon DEF Calls
<1>4. row[2] <= changes /\ changes \in Nat /\ rows \in [Kinds -> [Ids -> Nat]]
  BY Zenon DEF RestInv, Types, RowsInv
<1> HIDE DEF kind
<1> QED
  BY <1>2, <1>3, <1>4 DEF RowStep, kind

(* A bulk delete that has listed the rows is routed as one.                *)
LEMMA ListsRouted ==
    ASSUME RestInv, NEW s \in Slots, Lists(call[s].req, call[s].pc, call[s].status)
    PROVE  Routed(call[s].req, {"deleteAll"}) /\ call[s].pc # "idle"
BY CallFacts, Zenon DEF Sound, SoundOf, Lists

(* What the rows listed by a call must not be once it has moved on.        *)
ListKept(s, pc, status, todo) ==
    Lists(call[s].req, pc, status) =>
        /\ Lists(call[s].req, call[s].pc, call[s].status)
        /\ \A row \in call[s].listed : row[1] \in call[s].todo =>
               \/ row[1] \in todo
               \/ rows'[RouteFor(call[s].req).kind][row[1]] # row[2]

(* What a step makes of the verifier.                                      *)
OidcStep(s, pc) ==
    /\ fresh' \in BOOLEAN /\ refreshing' \in Slots \cup {Nobody}
    /\ expiries' \in Nat /\ refreshes' \in Nat
    /\ OthersKept(s) /\ call'[s].pc = pc => LockInv'

(* Rows keep their numbers, and the numbers listed stay below the next.    *)
LEMMA RowsKept ==
    ASSUME RestInv, RowStep
    PROVE  /\ changes \in Nat /\ changes' \in Nat /\ changes <= changes'
           /\ \A k \in Kinds, id \in Ids : rows'[k][id] <= changes' /\ cache'[k][id] <= changes'
           /\ \A t \in Slots : \A row \in call[t].listed : row[2] <= changes'
<1>1. changes \in Nat /\ changes' \in Nat /\ changes <= changes'
  BY Zenon DEF RestInv, Types, RowStep
<1>2. ASSUME NEW k \in Kinds, NEW id \in Ids
      PROVE  rows'[k][id] <= changes'
  <2>1. rows[k][id] \in Nat /\ rows[k][id] <= changes
    BY Zenon DEF RestInv, Types, RowsInv
  <2> QED
    BY <1>1, <2>1 DEF RowStep, Absent
<1>3. ASSUME NEW t \in Slots, NEW row \in call[t].listed
      PROVE  row[2] <= changes'
  <2>1. row[2] \in Nat /\ row[2] <= changes
    BY DEF RestInv, Types, Calls, RowsInv
  <2> QED
    BY <1>1, <2>1
<1>4. \A k \in Kinds, id \in Ids : cache'[k][id] <= changes'
  BY Zenon DEF RowStep
<1> QED
  BY <1>1, <1>2, <1>3, <1>4, Zenon

(* The lists of the calls that a step leaves as they are.                  *)
LEMMA ListStays ==
    ASSUME RestInv, RowStep, NEW t \in Slots,
           Lists(call[t].req, call[t].pc, call[t].status),
           NEW row \in call[t].listed, row[1] \notin call[t].todo
    PROVE  rows'[RouteFor(call[t].req).kind][row[1]] # row[2]
<1>1. rows[RouteFor(call[t].req).kind][row[1]] # row[2]
  BY Zenon DEF RestInv, RowsInv
<1> QED
  BY <1>1, ListsRouted, GoneStaysGone, Zenon

(* What is left to show of a step that moves a call on.                    *)
LEMMA MoveStep ==
    ASSUME RestInv, NEW s \in Slots, NEW pc \in Pcs \ {"idle"}, NEW status \in Nat,
           NEW todo \in SUBSET Named, NEW changed \in SUBSET Named,
           Move(s, pc, status, todo, changed), call[s].pc # "idle", RowStep,
           SoundOf(call[s].req, pc, status, todo, changed),
           ListKept(s, pc, status, todo), OidcStep(s, pc)
    PROVE  RestInv'
<1>1. Moved(s, pc, status, todo, changed)
  BY CallMoved, Zenon
<1>2. /\ call' \in [Slots -> Calls] /\ OthersKept(s) /\ call'[s].pc = pc
      /\ call'[s].req = call[s].req /\ call'[s].listed = call[s].listed
      /\ call'[s].todo = todo /\ call'[s].status = status
      /\ call'[s].changed = changed
  BY <1>1, Zenon DEF Moved
<1>3. Types'
  <2>1. \A t \in Slots : call'[t].pc # "idle" => call'[t].req \in DOMAIN Requests
    BY <1>2, Zenon DEF RestInv, Types, OthersKept
  <2> QED
    BY <1>2, <2>1, Zenon DEF Types, RowStep, OidcStep
<1>4. CallsInv'
  BY <1>2, Zenon DEF RestInv, CallsInv, OthersKept, Sound
<1>5. \A t \in Slots : \A row \in call'[t].listed : row[2] <= changes'
  BY <1>2, RowsKept, Zenon DEF OthersKept
<1>6. ASSUME NEW t \in Slots, Lists(call'[t].req, call'[t].pc, call'[t].status),
             NEW row \in call'[t].listed, row[1] \notin call'[t].todo
      PROVE  rows'[RouteFor(call'[t].req).kind][row[1]] # row[2]
  <2>1. CASE t # s
    <3>1. call'[t] = call[t]
      BY <1>2, <2>1, Zenon DEF OthersKept
    <3> QED
      BY <1>6, <3>1, ListStays, Zenon
  <2>2. CASE t = s
    <3>1. /\ Lists(call[s].req, pc, status) /\ row \in call[s].listed
          /\ row[1] \notin todo /\ call'[t].req = call[s].req
      BY <1>2, <1>6, <2>2, Zenon
    <3>2. CASE row[1] \in call[s].todo
      BY <3>1, <3>2, Zenon DEF ListKept
    <3>3. CASE row[1] \notin call[s].todo
      <4>1. Lists(call[s].req, call[s].pc, call[s].status)
        BY <3>1, Zenon DEF ListKept
      <4> QED
        BY <3>1, <3>3, <4>1, ListStays, Zenon
    <3> QED
      BY <3>2, <3>3, Zenon
  <2> QED
    BY <2>1, <2>2, Zenon
<1>7. RowsInv'
  BY <1>5, <1>6, RowsKept, Zenon DEF RowsInv
<1> QED
  BY <1>2, <1>3, <1>4, <1>7, Zenon DEF RestInv, OidcStep

(* The lock is not touched by a step of a handler.                         *)
LEMMA LockLeft ==
    ASSUME RestInv, NEW s \in Slots, UNCHANGED oidc, OthersKept(s),
           call[s].pc # "fetch", call'[s].pc # "fetch"
    PROVE  LockInv'
BY Zenon DEF RestInv, LockInv, oidc, OthersKept

(* A step that leaves the verifier alone.                                  *)
LEMMA OidcLeft ==
    ASSUME RestInv, UNCHANGED oidc, NEW s \in Slots, NEW pc, pc # "fetch",
           call[s].pc # "fetch"
    PROVE  OidcStep(s, pc)
<1>1. OthersKept(s) /\ call'[s].pc = pc => LockInv'
  BY LockLeft, Zenon
<1> QED
  BY <1>1, Zenon DEF RestInv, Types, oidc, OidcStep

(* A step that leaves the rows and the cache alone.                        *)
RowsLeft == UNCHANGED <<rows, cache, changes>> /\ failures' \in Nat

\* What such a step does to the rows.
LEMMA RowsLeftStep ==
    ASSUME RestInv, RowsLeft
    PROVE  RowStep
BY DEF RestInv, Types, RowsInv, RowStep, RowsLeft

\* The store as a whole is left alone.
LEMMA StoreLeft ==
    ASSUME RestInv, UNCHANGED store
    PROVE  RowsLeft
BY Zenon DEF RestInv, Types, RowsLeft, store

(* A step of a call that leaves the rows and the verifier alone.           *)
LEMMA PlainStep ==
    ASSUME RestInv, NEW s \in Slots, NEW pc \in Pcs \ {"idle", "fetch"}, NEW status \in Nat,
           NEW todo \in SUBSET Named, NEW changed \in SUBSET Named,
           Move(s, pc, status, todo, changed), call[s].pc \notin {"idle", "fetch"},
           RowsLeft, UNCHANGED oidc,
           SoundOf(call[s].req, pc, status, todo, changed),
           Lists(call[s].req, pc, status) =>
               Lists(call[s].req, call[s].pc, call[s].status) /\ call[s].todo = {}
    PROVE  RestInv'
<1>1. RowStep
  BY RowsLeftStep, Zenon
<1>2. ListKept(s, pc, status, todo)
  BY Zenon DEF ListKept
<1> QED
  BY <1>1, <1>2, OidcLeft, MoveStep, Zenon

(* Before anything is removed a call has nothing changed, listed or        *)
(* answered.                                                               *)
LEMMA NothingYet ==
    ASSUME RestInv, NEW s \in Slots, call[s].pc \notin {"deleting", "done"}
    PROVE  call[s].status = 0 /\ call[s].todo = {} /\ call[s].changed = {}
BY CallFacts, Zenon DEF Sound, SoundOf

(* A step of a call that leaves the rows and holds or frees the lock.      *)
LEMMA LockStep ==
    ASSUME RestInv, NEW s \in Slots, NEW pc \in {"fetch", "authorize"}, Goto(s, pc),
           call[s].pc \in {"refresh", "fetch"}, UNCHANGED store, OidcStep(s, pc)
    PROVE  RestInv'
<1>1. Move(s, pc, 0, {}, {}) /\ pc \in Pcs \ {"idle"} /\ {} \in SUBSET Named
  BY NothingYet, Zenon DEF Goto, Pcs
<1>2. SoundOf(call[s].req, pc, 0, {}, {})
  BY DEF SoundOf
<1>3. ListKept(s, pc, 0, {})
  BY Zenon DEF Lists, ListKept
<1>4. RowStep
  BY StoreLeft, RowsLeftStep, Zenon
<1> QED
  BY <1>1, <1>2, <1>3, <1>4, MoveStep, Zenon
-----------------------------------------------------------------------------
(* The steps of authentication.                                            *)

(* A step of a call that has changed nothing, or nothing but what a bulk   *)
(* delete removed, to its answer.                                          *)
LEMMA AnswerWith ==
    ASSUME RestInv, NEW s \in Slots, NEW status \in Nat \ {0}, Answer(s, status),
           RowsLeft, UNCHANGED oidc,
           call[s].pc \in {"authorize", "unauthorized", "route", "sensors", "deleting"},
           status = 401 => ~Acceptable(Requests[call[s].req].token),
           Routed(call[s].req, Crud) => status >= 400,
           status = 204 /\ Routed(call[s].req, {"deleteAll"}) =>
               call[s].pc = "deleting" /\ call[s].todo = {}
    PROVE  RestInv'
<1>1. /\ call[s] \in Calls /\ Sound(call[s]) /\ call[s].pc \notin {"idle", "fetch", "done"}
  BY CallFacts, Zenon
<1>2. Move(s, "done", status, {}, call[s].changed) /\ call[s].changed \in SUBSET Named
  BY <1>1, Zenon DEF Answer, Calls
<1>3. Routed(call[s].req, Crud) => call[s].changed = {}
  BY <1>1, Zenon DEF Sound, SoundOf, Routed, Crud
<1>4. SoundOf(call[s].req, "done", status, {}, call[s].changed)
  BY <1>1, <1>3 DEF Sound, SoundOf
<1>5. Lists(call[s].req, "done", status) =>
          Lists(call[s].req, call[s].pc, call[s].status) /\ call[s].todo = {}
  BY Zenon DEF Lists
<1>6. "done" \in Pcs \ {"idle", "fetch"} /\ {} \in SUBSET Named
  BY Zenon DEF Pcs
<1> QED
  BY <1>1, <1>2, <1>4, <1>5, <1>6, PlainStep, Zenon

(* The same when nothing at all is stored.                                 *)
LEMMA AnswerStep ==
    ASSUME RestInv, NEW s \in Slots, NEW status \in Nat \ {0}, Answer(s, status),
           UNCHANGED <<store, oidc>>,
           call[s].pc \in {"authorize", "unauthorized", "route", "sensors", "deleting"},
           status = 401 => ~Acceptable(Requests[call[s].req].token),
           Routed(call[s].req, Crud) => status >= 400,
           status = 204 /\ Routed(call[s].req, {"deleteAll"}) =>
               call[s].pc = "deleting" /\ call[s].todo = {}
    PROVE  RestInv'
BY StoreLeft, AnswerWith, Zenon

(* A step to a further stage before any change.                            *)
LEMMA GotoStep ==
    ASSUME RestInv, NEW s \in Slots, NEW pc \in {"refresh", "authorize", "route", "sensors"},
           Goto(s, pc), UNCHANGED <<store, oidc>>,
           call[s].pc \in {"fresh", "refresh", "authorize", "route"},
           pc = "sensors" => Routed(call[s].req, {"sensors"}),
           pc \in {"route", "sensors"} =>
               \/ call[s].pc = "route"
               \/ Acceptable(Requests[call[s].req].token) /\ Allowed[call[s].req]
    PROVE  RestInv'
<1>1. call[s].pc \notin {"idle", "fetch", "deleting", "done"} /\ Sound(call[s])
  BY CallFacts, Zenon
<1>2. RowsLeft
  BY StoreLeft, Zenon
<1>3. Move(s, pc, 0, {}, {}) /\ pc \in Pcs \ {"idle", "fetch"} /\ {} \in SUBSET Named
  BY <1>1, NothingYet, Zenon DEF Goto, Pcs
<1>4. SoundOf(call[s].req, pc, 0, {}, {})
  BY <1>1, Zenon DEF Sound, SoundOf
<1>5. ~Lists(call[s].req, pc, 0)
  BY Zenon DEF Lists
<1> QED
  BY <1>1, <1>2, <1>3, <1>4, <1>5, PlainStep, Zenon

(* ensureFresh.                                                            *)
LEMMA EnsureFreshKeeps ==
    ASSUME RestInv, NEW s \in Slots, EnsureFresh(s)
    PROVE  RestInv'
BY GotoStep, Zenon DEF EnsureFresh

(* The second look under the lock in refreshVerifier.                      *)
LEMMA LockKeeps ==
    ASSUME RestInv, NEW s \in Slots, Lock(s)
    PROVE  RestInv'
<1>1. CASE fresh
  BY <1>1, GotoStep, Zenon DEF Lock, oidc
<1>2. CASE ~fresh
  <2>1. /\ Goto(s, "fetch") /\ refreshing' = s /\ refreshing = Nobody
        /\ UNCHANGED <<store, fresh, expiries, refreshes>> /\ call[s].pc = "refresh"
    BY <1>2, Zenon DEF Lock
  <2>2. ASSUME OthersKept(s), call'[s].pc = "fetch"
        PROVE  LockInv'
    BY <1>2, <2>1, <2>2, RestAssumption, Zenon DEF RestInv, LockInv, OthersKept, Nobody
  <2>3. OidcStep(s, "fetch")
    BY <2>1, <2>2, Zenon DEF RestInv, Types, OidcStep
  <2> QED
    BY <2>1, <2>3, LockStep, Zenon
<1> QED
  BY <1>1, <1>2, Zenon

(* The issuer answers or does not, and the lock is released either way.    *)
LEMMA FetchKeeps ==
    ASSUME RestInv, NEW s \in Slots, Fetch(s)
    PROVE  RestInv'
<1>1. /\ call[s].pc = "fetch" /\ UNCHANGED store /\ Goto(s, "authorize")
      /\ refreshing' = Nobody /\ expiries' = expiries
  BY Zenon DEF Fetch
<1>2. PICK ok \in BOOLEAN : /\ fresh' = ok
                            /\ refreshes' = refreshes + (IF ok THEN 1 ELSE 0)
  BY Zenon DEF Fetch
<1>3. refreshing = s /\ s # Nobody /\ ~fresh /\ expiries \in Nat /\ refreshes \in Nat
  BY <1>1, RestAssumption, Zenon DEF RestInv, Types, LockInv, Nobody
<1>4. refreshes' + (IF fresh' THEN 0 ELSE 1) = expiries' /\ refreshes' \in Nat
  BY <1>1, <1>2, <1>3 DEF RestInv, LockInv
<1>5. ASSUME OthersKept(s), call'[s].pc = "authorize"
      PROVE  LockInv'
  BY <1>1, <1>3, <1>4, <1>5, RestAssumption, Zenon DEF RestInv, LockInv, OthersKept, Nobody
<1>6. OidcStep(s, "authorize")
  BY <1>1, <1>2, <1>3, <1>4, <1>5, Zenon DEF OidcStep
<1> QED
  BY <1>1, <1>6, LockStep, Zenon

(* The middleware's decision.                                              *)
LEMMA AuthorizeKeeps ==
    ASSUME RestInv, NEW s \in Slots, AuthorizeRequest(s)
    PROVE  RestInv'
<1>1. call[s].pc = "authorize" /\ UNCHANGED <<store, oidc>>
  BY Zenon DEF AuthorizeRequest
<1>2. CASE Answer(s, 401) /\ ~Acceptable(Requests[call[s].req].token)
  BY <1>1, <1>2, AnswerStep
<1>3. CASE Answer(s, 403)
  BY <1>1, <1>3, AnswerStep
<1>4. CASE /\ Goto(s, "route") /\ Acceptable(Requests[call[s].req].token)
           /\ Allowed[call[s].req]
  BY <1>1, <1>4, GotoStep, Zenon
<1> QED
  BY <1>2, <1>3, <1>4, Zenon DEF AuthorizeRequest, Request

(* A request without a token.                                              *)
LEMMA UnauthorizedKeeps ==
    ASSUME RestInv, NEW s \in Slots, Unauthorized(s)
    PROVE  RestInv'
<1>1. /\ call[s].pc = "unauthorized" /\ UNCHANGED <<store, oidc>> /\ Answer(s, 401)
      /\ Requests[call[s].req].token = NoToken
  BY CallFacts, Zenon DEF Sound, SoundOf, Unauthorized
<1>2. ~Acceptable(NoToken)
  BY Zenon DEF Acceptable
<1> QED
  BY <1>1, <1>2, AnswerStep

(* The verifier's TTL runs out.                                            *)
LEMMA ExpireKeeps ==
    ASSUME RestInv, Expire
    PROVE  RestInv'
<1>1. /\ fresh /\ ~fresh' /\ fresh' \in BOOLEAN /\ expiries' = expiries + 1
      /\ UNCHANGED <<rows, cache, changes, failures, refreshing, refreshes, call>>
      /\ refreshing = Nobody
  BY Zenon DEF Expire, store
<1>2. Types' /\ CallsInv' /\ RowsInv'
  BY <1>1 DEF RestInv, Types, CallsInv, RowsInv
<1>3. LockInv'
  BY <1>1 DEF RestInv, Types, LockInv
<1> QED
  BY <1>2, <1>3, Zenon DEF RestInv
(* The cache gets the rows as they are.                                    *)
LEMMA ReconcileKeeps ==
    ASSUME RestInv, Reconcile
    PROVE  RestInv'
<1>1. /\ cache' = rows
      /\ UNCHANGED <<rows, changes, failures, fresh, refreshing, expiries, refreshes, call>>
  BY Zenon DEF Reconcile, oidc
<1>2. Types' /\ CallsInv' /\ LockInv'
  BY <1>1, Zenon DEF RestInv, Types, CallsInv, LockInv
<1>3. RowsInv'
  BY <1>1, Zenon DEF RestInv, RowsInv
<1> QED
  BY <1>2, <1>3, Zenon DEF RestInv
-----------------------------------------------------------------------------
(* The steps of the handlers.                                              *)

(* What routing refuses a request with, and when it does not refuse it.    *)
LEMMA RefusalCodes ==
    ASSUME NEW r \in DOMAIN Requests
    PROVE  /\ Refusals[r] \in {0, 400, 404, 405}
           /\ Refusals[r] = 0 => Matched[r] # {}
<1>1. Refusals[r] = Refusal(Requests[r], Matched[r])
  BY Zenon DEF Refusals
<1>2. Matched[r] = {} => Refusals[r] \in {404, 405}
  BY <1>1, Zenon DEF Refusal
<1>3. Matched[r] # {} => Refusals[r] \in {400, 0}
  BY <1>1, Zenon DEF Refusal
<1> QED
  BY <1>2, <1>3

(* What a call that has a route is about: a kind in play, unless it is for *)
(* the RPC bridge, and identifiers that requests name.                     *)
RouteTaken(s) ==
    /\ RouteOf(s) = RouteFor(call[s].req) /\ Matched[call[s].req] # {}
    /\ Target(s) \in Named /\ Request(s).id \in Named
    /\ RouteOf(s).act \notin {"discover", "invoke"} => RouteOf(s).kind \in Kinds

(* The route of a call past routing.                                       *)
LEMMA RouteIsTaken ==
    ASSUME NEW s \in Slots, call[s].req \in DOMAIN Requests, Matched[call[s].req] # {}
    PROVE  RouteTaken(s)
<1>1. RouteOf(s) = RouteFor(call[s].req)
  BY Zenon DEF RouteOf, RouteFor
<1>2. Target(s) \in Named /\ Request(s).id \in Named
  BY <1>1, Zenon DEF Target, Named, Request
<1> QED
  BY <1>1, <1>2, RouteChosen, Zenon DEF RouteTaken

(* What serving an act says of the call.                                   *)
Served1(s, acts) ==
    /\ call[s].pc = "route" /\ RouteTaken(s)
    /\ RouteOf(s).act \in acts /\ Routed(call[s].req, acts)
    /\ call[s].changed = {} /\ call[s].todo = {} /\ call[s].status = 0

\* What the invariant says of such a call.
LEMMA ServingFacts ==
    ASSUME RestInv, NEW s \in Slots, NEW acts, Serving(s, acts)
    PROVE  Served1(s, acts)
<1>1. /\ call[s].pc = "route" /\ call[s].req \in DOMAIN Requests
      /\ Refusals[call[s].req] = 0 /\ RouteOf(s).act \in acts /\ Sound(call[s])
  BY CallFacts, Zenon DEF Serving
<1>2. Matched[call[s].req] # {}
  BY <1>1, RefusalCodes, Zenon
<1>3. RouteTaken(s)
  BY <1>1, <1>2, RouteIsTaken, Zenon
<1> QED
  BY <1>1, <1>3, Zenon DEF Sound, SoundOf, Routed, Served1, RouteTaken

(* Routing refuses.                                                        *)
LEMMA RefuseKeeps ==
    ASSUME RestInv, NEW s \in Slots, Refuse(s)
    PROVE  RestInv'
<1>1. /\ call[s].pc = "route" /\ call[s].req \in DOMAIN Requests
      /\ UNCHANGED <<store, oidc>>
      /\ Answer(s, Refusals[call[s].req]) /\ Refusals[call[s].req] # 0
  BY Zenon DEF RestInv, Types, Refuse
<1>2. Refusals[call[s].req] \in {400, 404, 405}
  BY <1>1, RefusalCodes
<1> QED
  BY <1>1, <1>2, AnswerStep

(* What neither changes rows nor deletes all of them.                      *)
Harmless == {"list", "viewAll", "get", "view", "transform", "discover",
             "ingest", "forget", "forgetAll", "invoke"}

(* The answers of the handlers that change no row.                         *)
LEMMA HarmlessKeeps ==
    ASSUME RestInv, NEW s \in Slots, Read(s) \/ Forward(s)
    PROVE  RestInv'
<1>1. /\ call[s].pc = "route" /\ UNCHANGED <<store, oidc>> /\ RouteOf(s).act \in Harmless
  BY Zenon DEF Read, Forward, Serving, Harmless
<1>2. PICK status \in {200, 202, 204, 400, 403, 404, 500} : Answer(s, status)
  <2>1. CASE Read(s)
    BY <2>1 DEF Read
  <2>2. CASE Forward(s)
    BY <2>2 DEF Forward
  <2> QED
    BY <2>1, <2>2, Zenon
<1>3. ~Routed(call[s].req, Crud) /\ ~Routed(call[s].req, {"deleteAll"})
  BY <1>1, Zenon DEF Routed, Crud, Harmless, RouteOf, RouteFor
<1> QED
  BY <1>1, <1>2, <1>3, AnswerStep

(* One entry of a table replaced.                                          *)
Replaced(table, kind, id, v) == [table EXCEPT ![kind][id] = v]

\* It is a table again, different in that entry.
LEMMA EntryReplaced ==
    ASSUME NEW table \in [Kinds -> [Ids -> Nat]], NEW kind, NEW id, NEW v \in Nat
    PROVE  /\ Replaced(table, kind, id, v) \in [Kinds -> [Ids -> Nat]]
           /\ \A k \in Kinds, i \in Ids : Replaced(table, kind, id, v)[k][i] =
                  IF k = kind /\ i = id THEN v ELSE table[k][i]
<1> DEFINE row == [table[kind] EXCEPT ![id] = v]
           new == [table EXCEPT ![kind] = row]
<1>1. Replaced(table, kind, id, v) = new
  BY Zenon DEF Replaced
<1>2. kind \in Kinds => row \in [Ids -> Nat]
  BY Zenon
<1>3. \A k \in Kinds, i \in Ids : new[k][i] = IF k = kind /\ i = id THEN v ELSE table[k][i]
  BY Zenon
<1>4. new \in [Kinds -> [Ids -> Nat]]
  <2> HIDE DEF row
  <2> QED
    BY <1>2, Zenon
<1> HIDE DEF new
<1> QED
  BY <1>1, <1>3, <1>4, Zenon

(* A row is written or removed, and the cache follows it or does not.      *)
Written(kind, id, v) ==
    /\ rows' = Replaced(rows, kind, id, v)
    /\ cache' \in {cache, Replaced(cache, kind, id, v)}
    /\ \/ v = Absent /\ changes' = changes
       \/ v = changes + 1 /\ changes' = changes + 1
    /\ failures' \in Nat

\* What that leaves.
LEMMA RowWritten ==
    ASSUME RestInv, NEW kind, NEW id, NEW v, Written(kind, id, v)
    PROVE  /\ RowStep
           /\ \A k \in Kinds, i \in Ids : rows'[k][i] =
                  IF k = kind /\ i = id THEN v ELSE rows[k][i]
<1>1. /\ rows \in [Kinds -> [Ids -> Nat]] /\ cache \in [Kinds -> [Ids -> Nat]]
      /\ changes \in Nat /\ \A k \in Kinds, i \in Ids : cache[k][i] <= changes
  BY Zenon DEF RestInv, Types, RowsInv
<1>2. v \in Nat /\ changes' \in Nat /\ changes <= changes' /\ v <= changes'
  BY <1>1 DEF Written, Absent
<1>3. /\ rows' \in [Kinds -> [Ids -> Nat]]
      /\ \A k \in Kinds, i \in Ids : rows'[k][i] =
             IF k = kind /\ i = id THEN v ELSE rows[k][i]
  <2>1. /\ Replaced(rows, kind, id, v) \in [Kinds -> [Ids -> Nat]]
        /\ \A k \in Kinds, i \in Ids : Replaced(rows, kind, id, v)[k][i] =
               IF k = kind /\ i = id THEN v ELSE rows[k][i]
    BY <1>1, <1>2, EntryReplaced
  <2> QED
    BY <2>1, Zenon DEF Written
<1>4. /\ cache' \in [Kinds -> [Ids -> Nat]]
      /\ \A k \in Kinds, i \in Ids : cache'[k][i] = v \/ cache'[k][i] = cache[k][i]
  <2>1. CASE cache' = cache
    BY <1>1, <2>1, Zenon
  <2>2. CASE cache' = Replaced(cache, kind, id, v)
    <3>1. /\ Replaced(cache, kind, id, v) \in [Kinds -> [Ids -> Nat]]
          /\ \A k \in Kinds, i \in Ids : Replaced(cache, kind, id, v)[k][i] =
                 IF k = kind /\ i = id THEN v ELSE cache[k][i]
      BY <1>1, <1>2, EntryReplaced
    <3> QED
      BY <2>2, <3>1, Zenon
  <2> QED
    BY <2>1, <2>2, Zenon DEF Written
<1>5. ASSUME NEW k \in Kinds, NEW i \in Ids
      PROVE  cache'[k][i] <= changes'
  <2>1. /\ cache[k][i] \in Nat /\ cache[k][i] <= changes
        /\ cache'[k][i] = v \/ cache'[k][i] = cache[k][i]
    BY <1>1, <1>4, Zenon
  <2> QED
    BY <1>1, <1>2, <2>1
<1>6. ASSUME NEW k \in Kinds, NEW i \in Ids
      PROVE  \/ rows'[k][i] \in {rows[k][i], Absent}
             \/ rows'[k][i] = changes + 1 /\ changes' = changes + 1
  <2>1. rows'[k][i] = v \/ rows'[k][i] = rows[k][i]
    BY <1>3, Zenon
  <2> QED
    BY <2>1, Zenon DEF Written
<1>7. RowStep
  BY <1>2, <1>3, <1>4, <1>5, <1>6, Zenon DEF RowStep, Written
<1> QED
  BY <1>3, <1>7, Zenon

(* A failing call, without effect: the answer is an error.                 *)
LEMMA DbRefusesKeeps ==
    ASSUME RestInv, NEW s \in Slots, DbRefuses(s), UNCHANGED oidc,
           call[s].pc \in {"route", "sensors", "deleting"}
    PROVE  RestInv'
<1>1. Answer(s, 500) /\ RowsLeft
  BY DEF DbRefuses, DbFails, Answer, RestInv, Types, RowsLeft
<1> QED
  BY <1>1, AnswerWith

(* A row changed by a call that this ends, with success or without an      *)
(* answer of the database.                                                 *)
LEMMA ChangeStep ==
    ASSUME RestInv, NEW s \in Slots, NEW kind, NEW v,
           NEW status \in {200, 201, 204, 500},
           Written(kind, AskedFor(call[s].req), v),
           Move(s, "done", status, {}, call[s].changed \cup {AskedFor(call[s].req)}),
           AskedFor(call[s].req) \in Named, UNCHANGED oidc,
           call[s].pc \in {"route", "sensors"}, Routed(call[s].req, Crud)
    PROVE  RestInv'
<1> DEFINE id == AskedFor(call[s].req)
<1>1. Sound(call[s]) /\ call[s].pc \notin {"idle", "fetch", "deleting", "done"}
  BY CallFacts, Zenon
<1>2. call[s].changed \cup {id} = {id}
  BY <1>1, NothingYet
<1>3. Move(s, "done", status, {}, {id}) /\ RowStep
  BY <1>2, RowWritten, Zenon
<1>4. /\ "done" \in Pcs \ {"idle"} /\ {} \in SUBSET Named /\ {id} \in SUBSET Named
      /\ status \in Nat /\ status \notin 400..499 /\ status # 401 /\ status # 0
  BY DEF Pcs
<1>5. SoundOf(call[s].req, "done", status, {}, {id})
  BY <1>1, <1>4, Zenon DEF Sound, SoundOf, Routed
<1>6. ListKept(s, "done", status, {})
  BY Zenon DEF Lists, ListKept, Routed, Crud
<1>7. OidcStep(s, "done")
  BY <1>1, OidcLeft, Zenon
<1> QED
  BY <1>1, <1>3, <1>4, <1>5, <1>6, <1>7, MoveStep

(* A write of the row a request is about.                                  *)
LEMMA PutStep ==
    ASSUME RestInv, NEW s \in Slots, NEW kind,
           NEW status \in {200, 201}, Put(s, kind, AskedFor(call[s].req), status),
           UNCHANGED oidc, AskedFor(call[s].req) \in Named,
           call[s].pc \in {"route", "sensors"}, Routed(call[s].req, Crud)
    PROVE  RestInv'
<1> DEFINE id == AskedFor(call[s].req)
<1>1. Written(kind, id, changes + 1)
  BY DEF Put, DbFails, Written, Replaced, RestInv, Types
<1>2. PICK code \in {status, 500} : Move(s, "done", code, {}, call[s].changed \cup {id})
  BY Zenon DEF Put, DbFails
<1> QED
  BY <1>1, <1>2, ChangeStep

(* The error answer of a handler that would have written a row.            *)
LEMMA ErrorStep ==
    ASSUME RestInv, NEW s \in Slots, NEW status \in {404, 409}, Answer(s, status),
           UNCHANGED <<store, oidc>>, call[s].pc \in {"route", "sensors", "deleting"}
    PROVE  RestInv'
BY AnswerStep

(* The handlers that create and update a resource.                         *)
LEMMA WriteKeeps ==
    ASSUME RestInv, NEW s \in Slots, Create(s) \/ Update(s)
    PROVE  RestInv'
<1>1. /\ Serving(s, {"create"}) \/ Serving(s, {"update"})
      /\ UNCHANGED oidc
  BY Zenon DEF Create, Update
<1>2. call[s].pc = "route" /\ RouteTaken(s) /\ Routed(call[s].req, Crud)
  BY <1>1, ServingFacts, Zenon DEF Served1, Routed, Crud
<1>3. \/ RouteOf(s).act = "create" /\ Put(s, RouteOf(s).kind, Request(s).id, 201)
      \/ RouteOf(s).act = "update" /\ Put(s, RouteOf(s).kind, Target(s), 200)
      \/ \E status \in {404, 409} : Answer(s, status) /\ UNCHANGED store
      \/ DbRefuses(s)
  BY Zenon DEF Create, Update, Serving
<1>4. /\ RouteOf(s).act = "create" => AskedFor(call[s].req) = Request(s).id
      /\ RouteOf(s).act = "update" => AskedFor(call[s].req) = Target(s)
      /\ Request(s).id \in Named /\ Target(s) \in Named
  BY <1>2, Zenon DEF RouteTaken, AskedFor, Request, Target
<1> QED
  BY <1>1, <1>2, <1>3, <1>4, PutStep, ErrorStep, DbRefusesKeeps

(* The first step of PutProviderSensors.                                   *)
LEMMA ReadSensorsKeeps ==
    ASSUME RestInv, NEW s \in Slots, ReadSensors(s)
    PROVE  RestInv'
<1>1. /\ call[s].pc = "route" /\ Routed(call[s].req, {"sensors"})
      /\ UNCHANGED <<store, oidc>>
  BY ServingFacts, Zenon DEF ReadSensors, Served1
<1>2. CASE Goto(s, "sensors")
  BY <1>1, <1>2, GotoStep, Zenon
<1>3. CASE Answer(s, 404)
  BY <1>1, <1>3, ErrorStep, Zenon
<1> QED
  BY <1>2, <1>3, Zenon DEF ReadSensors

(* The second step of PutProviderSensors.                                  *)
LEMMA WriteSensorsKeeps ==
    ASSUME RestInv, NEW s \in Slots, WriteSensors(s)
    PROVE  RestInv'
<1>1. call[s].pc = "sensors" /\ UNCHANGED oidc
  BY Zenon DEF WriteSensors
<1>2. Routed(call[s].req, {"sensors"}) /\ call[s].req \in DOMAIN Requests
  BY <1>1, CallFacts, Zenon DEF Sound, SoundOf
<1>3. RouteTaken(s)
  BY <1>2, RouteIsTaken, Zenon DEF Routed
<1>4. /\ Routed(call[s].req, Crud) /\ Target(s) \in Named
      /\ AskedFor(call[s].req) = Target(s)
  BY <1>2, <1>3, Zenon DEF Crud, Routed, RouteTaken, AskedFor, Request, Target
<1>5. \/ Put(s, "providers", Target(s), 200)
      \/ Answer(s, 404) /\ UNCHANGED store
      \/ DbRefuses(s)
  BY Zenon DEF WriteSensors
<1> QED
  BY <1>1, <1>4, <1>5, PutStep, ErrorStep, DbRefusesKeeps

(* What an attempt to remove a row comes to: it is gone, and the call goes *)
(* on or does not know; or it is as it was.                                *)
LEMMA DropCases ==
    ASSUME RestInv, NEW s \in Slots, NEW id, NEW pc, NEW status, Drop(s, id, pc, status)
    PROVE  \/ /\ Written(RouteOf(s).kind, id, Absent)
              /\ Move(s, pc, status, call[s].todo \ {id}, call[s].changed \cup {id})
           \/ /\ Written(RouteOf(s).kind, id, Absent)
              /\ Move(s, "done", 500, {}, call[s].changed \cup {id})
           \/ Answer(s, 404) /\ UNCHANGED store
           \/ DbRefuses(s)
<1>1. failures \in Nat /\ failures + 1 \in Nat
  BY DEF RestInv, Types
<1>2. CASE /\ rows' = Replaced(rows, RouteOf(s).kind, id, Absent)
           /\ cache' = Replaced(cache, RouteOf(s).kind, id, Absent)
           /\ Move(s, pc, status, call[s].todo \ {id}, call[s].changed \cup {id})
           /\ UNCHANGED <<changes, failures>>
  BY <1>1, <1>2, Zenon DEF Written
<1>3. CASE /\ rows' = Replaced(rows, RouteOf(s).kind, id, Absent)
           /\ DbFails(s, call[s].changed \cup {id})
           /\ UNCHANGED changes
  BY <1>1, <1>3, Zenon DEF Written, DbFails
<1> QED
  BY <1>2, <1>3, Zenon DEF Drop, Replaced

(* A row removed by a delete, which that ends.                             *)
LEMMA DeleteKeeps ==
    ASSUME RestInv, NEW s \in Slots, Delete(s)
    PROVE  RestInv'
<1>1. Serving(s, {"delete"}) /\ UNCHANGED oidc /\ Drop(s, Target(s), "done", 204)
  BY Zenon DEF Delete
<1>2. /\ call[s].pc = "route" /\ RouteTaken(s) /\ Routed(call[s].req, {"delete"})
      /\ call[s].todo = {}
  BY <1>1, ServingFacts, Zenon DEF Served1
<1>3. /\ Routed(call[s].req, Crud) /\ Target(s) \in Named
      /\ AskedFor(call[s].req) = Target(s) /\ call[s].todo \ {Target(s)} = {}
  BY <1>2, Zenon DEF Crud, Routed, RouteTaken, AskedFor, Request, Target
<1>4. ASSUME NEW code \in {204, 500}, Written(RouteOf(s).kind, Target(s), Absent),
             Move(s, "done", code, {}, call[s].changed \cup {Target(s)})
      PROVE  RestInv'
  BY <1>1, <1>2, <1>3, <1>4, ChangeStep
<1>5. CASE (Answer(s, 404) /\ UNCHANGED store) \/ DbRefuses(s)
  BY <1>1, <1>2, <1>5, ErrorStep, DbRefusesKeeps, Zenon
<1> QED
  BY <1>1, <1>3, <1>4, <1>5, DropCases, Zenon

(* The next of the rows of a bulk delete is removed, or is gone already,   *)
(* or the database fails.                                                  *)
LEMMA DeleteNextKeeps ==
    ASSUME RestInv, NEW s \in Slots, DeleteNext(s)
    PROVE  RestInv'
<1>1. call[s].pc = "deleting" /\ UNCHANGED oidc
  BY Zenon DEF DeleteNext
<1>2. call[s] \in Calls /\ call[s].req \in DOMAIN Requests /\ Sound(call[s])
  BY <1>1, CallFacts, Zenon
<1>3. Routed(call[s].req, {"deleteAll"})
  BY <1>1, <1>2, Zenon DEF Sound, SoundOf
<1>4. RouteTaken(s)
  BY <1>2, <1>3, RouteIsTaken, Zenon DEF Routed
<1>5. PICK id \in call[s].todo : Drop(s, id, "deleting", 0)
  BY Zenon DEF DeleteNext
<1> DEFINE todo == call[s].todo \ {id}
           changed == call[s].changed \cup {id}
           kind == RouteOf(s).kind
<1>6. /\ {"deleting", "done"} \subseteq Pcs \ {"idle"} /\ todo \in SUBSET Named
      /\ {} \in SUBSET Named /\ changed \in SUBSET Named /\ changed # {}
  BY <1>2, <1>5, Zenon DEF Pcs, Calls
<1>7. kind \in Kinds /\ kind = RouteFor(call[s].req).kind
  BY <1>3, <1>4, Zenon DEF RouteTaken, Routed
<1>8. \A i : i \in call[s].todo => i \in todo \/ i = id
  BY Zenon
<1>9. CASE Written(kind, id, Absent) /\ Move(s, "deleting", 0, todo, changed)
  <2> HIDE DEF todo, changed, kind
  <2>1. RowStep /\ \A k \in Kinds, i \in Ids : rows'[k][i] =
            IF k = kind /\ i = id THEN Absent ELSE rows[k][i]
    BY <1>9, RowWritten
  <2>2. SoundOf(call[s].req, "deleting", 0, todo, changed)
    BY <1>1, <1>2, <1>3, <1>6, Zenon DEF Sound, SoundOf, Routed, Crud
  <2>3. ASSUME NEW row \in call[s].listed, row[1] \in call[s].todo, row[1] \notin todo
        PROVE  rows'[kind][row[1]] # row[2]
    <3>1. row[1] \in Ids /\ row[2] # Absent
      BY <1>2, Zenon DEF Calls
    <3>2. rows'[kind][row[1]] = Absent
      BY <1>7, <1>8, <2>1, <2>3, <3>1, Zenon
    <3> QED
      BY <3>1, <3>2, Zenon
  <2>4. ListKept(s, "deleting", 0, todo)
    <3>1. Lists(call[s].req, call[s].pc, call[s].status)
      BY <1>1, Zenon DEF Lists
    <3> QED
      BY <1>7, <2>3, <3>1, Zenon DEF ListKept
  <2>5. OidcStep(s, "deleting")
    BY <1>1, OidcLeft, Zenon
  <2> QED
    BY <1>1, <1>6, <1>9, <2>1, <2>2, <2>4, <2>5, MoveStep, Zenon
<1>10. CASE Written(kind, id, Absent) /\ Move(s, "done", 500, {}, changed)
  <2> HIDE DEF todo, changed, kind
  <2>1. RowStep
    BY <1>10, RowWritten, Zenon
  <2>2. SoundOf(call[s].req, "done", 500, {}, changed)
    BY <1>1, <1>2, <1>3, <1>6 DEF Sound, SoundOf, Routed, Crud
  <2>3. ListKept(s, "done", 500, {})
    BY DEF Lists, ListKept
  <2>4. OidcStep(s, "done")
    BY <1>1, OidcLeft, Zenon
  <2> QED
    BY <1>1, <1>6, <1>10, <2>1, <2>2, <2>3, <2>4, MoveStep
<1>11. CASE (Answer(s, 404) /\ UNCHANGED store) \/ DbRefuses(s)
  BY <1>1, <1>11, ErrorStep, DbRefusesKeeps, Zenon
<1> QED
  BY <1>5, <1>9, <1>10, <1>11, DropCases, Zenon

(* The rows of a bulk delete are all gone.                                 *)
LEMMA DeletedAllKeeps ==
    ASSUME RestInv, NEW s \in Slots, DeletedAll(s)
    PROVE  RestInv'
<1>1. /\ call[s].pc = "deleting" /\ call[s].todo = {} /\ UNCHANGED <<store, oidc>>
      /\ Answer(s, 204) /\ Sound(call[s])
  BY CallFacts, Zenon DEF DeletedAll
<1>2. ~Routed(call[s].req, Crud)
  BY <1>1, Zenon DEF Sound, SoundOf, Routed, Crud
<1> QED
  BY <1>1, <1>2, AnswerStep
-----------------------------------------------------------------------------
(* The two steps that give a call more than Move does.                     *)

(* A call replaced while the rows and the verifier stay.                   *)
LEMMA CallStep ==
    ASSUME RestInv, NEW s \in Slots, NEW d \in Calls, call' = [call EXCEPT ![s] = d],
           UNCHANGED <<store, oidc>>, call[s].pc # "fetch", d.pc # "fetch",
           d.req \in DOMAIN Requests, Sound(d),
           \A row \in d.listed : row[2] <= changes,
           Lists(d.req, d.pc, d.status) => \A row \in d.listed : row[1] \in d.todo
    PROVE  RestInv'
<1>1. call'[s] = d /\ OthersKept(s) /\ call' \in [Slots -> Calls]
  BY Zenon DEF RestInv, Types, OthersKept
<1>2. UNCHANGED <<rows, cache, changes, failures, fresh, refreshing, expiries, refreshes>>
  BY Zenon DEF store, oidc
<1>3. Types'
  BY <1>1, <1>2, Zenon DEF RestInv, Types, OthersKept
<1>4. CallsInv'
  BY <1>1, Zenon DEF RestInv, CallsInv, OthersKept
<1>5. LockInv'
  BY <1>1, LockLeft, Zenon
<1>6. RowsInv'
  BY <1>1, <1>2, Zenon DEF RestInv, RowsInv, OthersKept
<1> QED
  BY <1>3, <1>4, <1>5, <1>6, Zenon DEF RestInv

(* A request arrives in an idle slot.                                      *)
LEMMA ArriveKeeps ==
    ASSUME RestInv, NEW s \in Slots, NEW r \in DOMAIN Requests, Arrive(s, r)
    PROVE  RestInv'
<1> DEFINE pc == IF AuthMode = "none" \/ Matched[r] = {} THEN "route"
                 ELSE IF Requests[r].token = NoToken THEN "unauthorized"
                 ELSE IF UsesOidc THEN "fresh" ELSE "authorize"
           d == [call[s] EXCEPT !.req = r, !.pc = pc]
<1>1. call[s] \in Calls /\ Sound(call[s]) /\ call[s].pc = "idle" /\ UNCHANGED <<store, oidc>>
  BY CallFacts, Zenon DEF Arrive
<1>2. call' = [call EXCEPT ![s] = d]
  BY Zenon DEF Arrive
<1>3. /\ pc \in Pcs \ {"idle", "fetch", "sensors", "deleting", "done"}
      /\ pc = "unauthorized" => Requests[r].token = NoToken
      /\ pc = "route" => AuthMode = "none" \/ Matched[r] = {}
  BY Zenon DEF Pcs
<1> HIDE DEF pc
<1>4. d \in Calls
  BY <1>1, <1>3, Zenon DEF Calls
<1>5. /\ d.pc = pc /\ d.req = r /\ d.todo = call[s].todo /\ d.listed = call[s].listed
      /\ d.changed = call[s].changed /\ d.status = call[s].status
  BY <1>1, Zenon DEF Calls
<1> HIDE DEF d
<1>6. call[s].changed = {} /\ call[s].todo = {} /\ call[s].status = 0
  BY <1>1, NothingYet, Zenon
<1>7. SoundOf(r, pc, 0, {}, {}) /\ ~Lists(r, pc, 0)
  BY <1>3 DEF SoundOf, Lists
<1>8. Sound(d) /\ ~Lists(d.req, d.pc, d.status)
  BY <1>5, <1>6, <1>7, Zenon DEF Sound
<1>9. \A row \in d.listed : row[2] <= changes
  BY <1>5, Zenon DEF RestInv, RowsInv
<1> QED
  BY <1>1, <1>2, <1>3, <1>4, <1>5, <1>8, <1>9, CallStep, Zenon

(* The rows a bulk delete finds.                                           *)
LEMMA ListAllKeeps ==
    ASSUME RestInv, NEW s \in Slots, ListAll(s)
    PROVE  RestInv'
<1> DEFINE kind == RouteOf(s).kind
           present == {id \in Ids : cache[kind][id] # Absent}
           listed == {<<id, cache[kind][id]>> : id \in present}
           d == [call[s] EXCEPT !.pc = "deleting", !.todo = present, !.listed = listed]
<1>1. Serving(s, {"deleteAll"}) /\ UNCHANGED <<store, oidc>> /\ call' = [call EXCEPT ![s] = d]
  BY Zenon DEF ListAll
<1>2. /\ call[s].pc = "route" /\ Routed(call[s].req, {"deleteAll"}) /\ RouteTaken(s)
      /\ call[s].changed = {} /\ call[s].status = 0 /\ RouteOf(s).act = "deleteAll"
  BY <1>1, ServingFacts DEF Served1
<1>3. call[s] \in Calls /\ Sound(call[s]) /\ call[s].req \in DOMAIN Requests
  BY <1>2, CallFacts, Zenon
<1>4. \A id \in Ids : cache[kind][id] \in Nat /\ cache[kind][id] <= changes
  BY <1>2, Zenon DEF RestInv, Types, RowsInv, RouteTaken
<1> HIDE DEF kind
<1>5. present \in SUBSET Named /\ listed \in SUBSET (Ids \X (Nat \ {Absent}))
  BY <1>4 DEF Named
<1>6. \A row \in listed : row[1] \in present /\ row[2] <= changes
  BY <1>4
<1> HIDE DEF present, listed
<1>7. d \in Calls
  BY <1>3, <1>5, Zenon DEF Calls, Pcs
<1>8. /\ d.pc = "deleting" /\ d.todo = present /\ d.listed = listed
      /\ d.req = call[s].req /\ d.changed = call[s].changed
      /\ d.status = call[s].status
  BY <1>3, Zenon DEF Calls
<1> HIDE DEF d
<1>9. SoundOf(call[s].req, "deleting", 0, present, {})
  BY <1>2, <1>3, Zenon DEF Sound, SoundOf
<1>10. Sound(d)
  BY <1>2, <1>8, <1>9, Zenon DEF Sound
<1> QED
  BY <1>1, <1>2, <1>3, <1>6, <1>7, <1>8, <1>10, CallStep, Zenon
-----------------------------------------------------------------------------
(* The theorems.                                                           *)

(* Every step keeps the invariant.                                         *)
LEMMA NextRest ==
    RestInv /\ [Next]_vars => RestInv'
<1> SUFFICES ASSUME RestInv, [Next]_vars PROVE RestInv'
  BY Zenon
<1>1. CASE UNCHANGED vars
  BY <1>1, Zenon DEF vars, RestInv, Types, CallsInv, LockInv, RowsInv
<1>2. ASSUME NEW s \in Slots, Serve(s)
      PROVE  RestInv'
  BY Zenon, <1>2, EnsureFreshKeeps, LockKeeps, FetchKeeps, AuthorizeKeeps, UnauthorizedKeeps,
     RefuseKeeps, HarmlessKeeps, WriteKeeps, DeleteKeeps, ReadSensorsKeeps,
     WriteSensorsKeeps, ListAllKeeps, DeleteNextKeeps, DeletedAllKeeps DEF Serve
<1> QED
  BY <1>1, <1>2, ExpireKeeps, ReconcileKeeps, ArriveKeeps, Zenon DEF Next

(* The inductive invariant holds of every state.                           *)
THEOREM RestCorrect ==
    Spec => []RestInv
BY InitRest, NextRest, PTL DEF Spec

(* A verifier that goes stale is fetched once, and no failure to fetch it  *)
(* turns a good token away.                                                *)
THEOREM VerifierIsShared ==
    Spec => []VerifierShared
BY InvShared, RestCorrect, PTL

(* The status of an answer says what became of the rows: a success, that   *)
(* the row asked for was changed, a refusal, that none was, and success of *)
(* a bulk delete, that no listed row is left.  A 500 says neither.         *)
THEOREM AnswersAreTruthful ==
    Spec => []AnswersTruthful
BY InvTruthful, RestCorrect, PTL

(* Nothing is changed for a request the middleware would not let through.  *)
THEOREM OnlyAllowedChange ==
    Spec => []OnlyAllowed
BY InvAllowed, RestCorrect, PTL

(* Rows are written or removed by these actions only.                      *)
LEMMA OthersLeaveRows ==
    ASSUME NEW s \in Slots, Serve(s), rows' # rows
    PROVE  \/ Create(s) \/ Update(s) \/ Delete(s)
           \/ WriteSensors(s) \/ DeleteNext(s)
BY Zenon DEF Serve, EnsureFresh, Lock, Fetch, AuthorizeRequest, Unauthorized, Refuse, Read,
   Forward, ReadSensors, ListAll, DeletedAll, store

(* What a write over a row that is there, or a removal, does not do.       *)
LEMMA NotRevived ==
    ASSUME RestInv, NEW s \in Slots, NEW kind \in Kinds, NEW id \in Ids,
           rows[kind][id] = Absent,
           \/ \E k, i : rows[k][i] # Absent /\ Put(s, k, i, 200)
           \/ \E i, pc, status : Drop(s, i, pc, status)
    PROVE  rows'[kind][id] = Absent
<1>1. ASSUME NEW k, NEW i, rows[k][i] # Absent, Put(s, k, i, 200)
      PROVE  rows'[kind][id] = Absent
  <2>1. Written(k, i, changes + 1)
    BY <1>1 DEF Put, DbFails, Written, Replaced, RestInv, Types
  <2> QED
    BY <1>1, <2>1, RowWritten
<1>2. ASSUME NEW i, NEW pc, NEW status, Drop(s, i, pc, status)
      PROVE  rows'[kind][id] = Absent
  <2>1. CASE Written(RouteOf(s).kind, i, Absent)
    BY <2>1, RowWritten
  <2>2. CASE UNCHANGED rows
    BY <2>2, Zenon
  <2> QED
    BY <1>2, <2>1, <2>2, DropCases, Zenon DEF store, DbRefuses
<1> QED
  BY <1>1, <1>2, Zenon

(* A creation that changes the rows answers the request.                   *)
LEMMA CreateAnswers ==
    ASSUME RestInv, NEW s \in Slots, Create(s), rows' # rows
    PROVE  call[s].pc # "done" /\ call'[s].pc = "done" /\ RouteOf(s).act = "create"
<1>1. Served1(s, {"create"})
  BY ServingFacts, Zenon DEF Create
<1>2. Put(s, RouteOf(s).kind, Request(s).id, 201)
  BY Zenon DEF Create, DbRefuses, store
<1>3. PICK code \in {201, 500} : Move(s, "done", code, {}, {Request(s).id})
  <2>1. call[s].changed \cup {Request(s).id} = {Request(s).id}
    BY <1>1, Zenon DEF Served1
  <2> QED
    BY <1>2, <2>1 DEF Put, DbFails
<1>4. Moved(s, "done", code, {}, {Request(s).id})
  BY <1>1, <1>3, CallMoved DEF Served1, RouteTaken, Pcs
<1> QED
  BY <1>1, <1>4, Zenon DEF Served1, Moved

(* A deleted resource is not revived by anything but a creation.           *)
THEOREM NothingRevived ==
    Spec => NoRevival
<1>1. ASSUME RestInv, Next, NEW k \in Kinds, NEW id \in Ids,
             rows[k][id] = Absent, rows'[k][id] # Absent
      PROVE  \E s \in Slots : /\ call[s].pc # "done" /\ call'[s].pc = "done"
                              /\ RouteOf(s).act = "create"
  <2>1. rows' # rows
    BY <1>1, Zenon
  <2>2. PICK s \in Slots : Serve(s)
    BY <1>1, <2>1, Zenon DEF Next, Expire, Reconcile, Arrive, store
  <2>3. CASE Create(s)
    BY <1>1, <2>1, <2>3, CreateAnswers, Zenon
  <2>4. CASE Update(s) \/ WriteSensors(s)
    <3>1. \E kind, i : rows[kind][i] # Absent /\ Put(s, kind, i, 200)
      BY <2>1, <2>4, Zenon DEF Update, WriteSensors, DbRefuses, store
    <3> QED
      BY <1>1, <3>1, NotRevived, Zenon
  <2>5. CASE Delete(s) \/ DeleteNext(s)
    <3>1. \E i, pc, status : Drop(s, i, pc, status)
      BY <2>5, Zenon DEF Delete, DeleteNext
    <3> QED
      BY <1>1, <3>1, NotRevived, Zenon
  <2> QED
    BY <2>1, <2>2, <2>3, <2>4, <2>5, OthersLeaveRows, Zenon
<1>2. RestInv /\ [Next]_vars =>
      [\A k \in Kinds, id \in Ids :
          rows[k][id] = Absent /\ rows'[k][id] # Absent =>
              \E s \in Slots : /\ call[s].pc # "done" /\ call'[s].pc = "done"
                              /\ RouteOf(s).act = "create"]_vars
  BY <1>1, Zenon
<1> QED
  BY <1>2, RestCorrect, PTL DEF Spec, NoRevival
=============================================================================
