------------------------------ MODULE RestApi ------------------------------
(***************************************************************************)
(* A request to the REST API, from the authentication middleware through   *)
(* the generated router to its handler and its answer, with several        *)
(* requests served at once (internal/auth/verifier.go, main.go's router,   *)
(* internal/httpapi/handlers).                                             *)
(*                                                                         *)
(* What one call of the hub service does is one step here: a row of the    *)
(* catalogue changes and the metadata cache follows it, or the database    *)
(* call fails, with or without its effect, and the cache does not.  (What  *)
(* happens between row and cache is the subject of MetadataCache,          *)
(* ingestion of Pipeline, the bridge of RpcBridge.)  What is left between  *)
(* the steps is what the handlers themselves leave there: a bulk delete    *)
(* lists and then deletes one by one, the sensors of a provider are read   *)
(* and then written, and the OIDC verifier is refreshed by whichever       *)
(* request finds it stale.                                                 *)
(***************************************************************************)
EXTENDS RestRoutes

CONSTANTS
    Slots,          \* requests served at once, numbered as they arrive
    Requests,       \* name -> [method, path, token, body, id, name]
    Tokens,         \* token -> [signer, live, audience, roles, owned]
    AuthMode,       \* "none", "oidc", "static" or "hybrid"
    Audiences,      \* cfg.Audience, the default one first
    Kinds, Ids,     \* kinds of resource and identifiers in play
    Uuids,          \* the identifiers that are UUIDs
    Catalogues,     \* what rows may hold at the start
    MaxExpiries,    \* bound: times the verifier's TTL runs out
    MaxChanges,     \* bound: creations and updates of a resource
    MaxFailures     \* bound: database calls that fail

NoToken == "none"
Absent  == 0

ASSUME RestAssumption ==
    /\ AuthMode \in {"none", "oidc", "static", "hybrid"}
    /\ MaxExpiries \in Nat /\ MaxChanges \in Nat \ {0} /\ MaxFailures \in Nat
    /\ Slots \subseteq Nat \ {0}
    /\ Catalogues \subseteq [Kinds -> [Ids -> {Absent, 1}]]

VARIABLES
    rows,       \* kind -> id -> Absent or the change that wrote the row
    cache,      \* the same as the metadata cache has it
    changes,    \* changes made so far; numbers the next one
    failures,   \* database calls that have failed
    fresh,      \* the verifier is younger than its TTL
    refreshing, \* the request that holds the verifier's lock, or none
    expiries, refreshes,   \* history: TTLs run out, verifiers fetched
    call        \* slot -> the request it serves

vars == <<rows, cache, changes, failures, fresh, refreshing, expiries, refreshes, call>>
oidc == <<fresh, refreshing, expiries, refreshes>>
store == <<rows, cache, changes, failures>>

Nobody == 0
NoRequest == 0

Idle == [pc |-> "idle", req |-> NoRequest, todo |-> {}, listed |-> {},
         changed |-> {}, status |-> 0]

-----------------------------------------------------------------------------
(* Authentication.                                                         *)

(* The checks of a token that both authenticators make: signature by a key *)
(* they know, algorithm, issuer and expiry.                                *)
Verifies(signer, token) == Tokens[token].signer = signer /\ Tokens[token].live

AudienceAllowed(token) == Audiences = <<>> \/ Tokens[token].audience \in Range(Audiences)

(* The OIDC authenticator takes any configured audience, the static one    *)
(* has the parser insist on the first.                                     *)
OidcAccepts(token) == Verifies("oidc", token) /\ AudienceAllowed(token)

StaticAccepts(token) ==
    /\ Verifies("static", token)
    /\ Audiences # <<>> => Tokens[token].audience = Head(Audiences)

UsesOidc == AuthMode \in {"oidc", "hybrid"}

(* hybridAuthenticator: the first authenticator that accepts.              *)
Acceptable(token) ==
    /\ token # NoToken
    /\ \/ UsesOidc /\ OidcAccepts(token)
       \/ AuthMode \in {"static", "hybrid"} /\ StaticAccepts(token)

(* principalFromClaims.                                                    *)
Principal(token) == [roles |-> Tokens[token].roles, owned |-> Tokens[token].owned]

(* A call moves on.                                                        *)
Move(s, pc, status, todo, changed) ==
    call' = [call EXCEPT ![s] = [@ EXCEPT !.pc = pc, !.status = status,
                                          !.todo = todo, !.changed = changed]]

Answer(s, status) == Move(s, "done", status, {}, call[s].changed)

Goto(s, pc) == Move(s, pc, call[s].status, call[s].todo, call[s].changed)

(* The routes of each request, and whether its roles allow it.             *)
Matched == [r \in DOMAIN Requests |-> RoutesFor(Requests[r].method, Requests[r].path)]

Allowed == [r \in DOMAIN Requests |->
    /\ Requests[r].token # NoToken
    /\ Authorize(Requests[r].method, Requests[r].path, Principal(Requests[r].token))]

(* What is asked for is about the kinds in play, or about the RPC bridge.  *)
ASSUME KindsAssumption ==
    \A r \in DOMAIN Requests : \A route \in Matched[r] :
        route.act \notin {"discover", "invoke"} => route.kind \in Kinds

Request(s) == Requests[call[s].req]

(* A request arrives.  The middleware lets it through when authentication  *)
(* is off or no route matches it, and wants a bearer token otherwise.      *)
Arrive(s, r) ==
    /\ call[s].pc = "idle"
    /\ \A t \in Slots : t < s => call[t].pc # "idle"
    /\ call' = [call EXCEPT ![s] = [@ EXCEPT !.req = r,
           !.pc = IF AuthMode = "none" \/ Matched[r] = {} THEN "route"
                  ELSE IF Requests[r].token = NoToken THEN "unauthorized"
                  ELSE IF UsesOidc THEN "fresh" ELSE "authorize"]]
    /\ UNCHANGED <<store, oidc>>

(* ensureFresh reads the verifier's age under the read lock, which a       *)
(* refresh in progress withholds.                                          *)
EnsureFresh(s) ==
    /\ call[s].pc = "fresh"
    /\ refreshing = Nobody
    /\ Goto(s, IF fresh THEN "authorize" ELSE "refresh")
    /\ UNCHANGED <<store, oidc>>

(* refreshVerifier takes the lock and looks again: another request may     *)
(* have refreshed the verifier while this one waited.                      *)
Lock(s) ==
    /\ call[s].pc = "refresh"
    /\ refreshing = Nobody
    /\ refreshing' = IF fresh THEN Nobody ELSE s
    /\ Goto(s, IF fresh THEN "authorize" ELSE "fetch")
    /\ UNCHANGED <<store, fresh, expiries, refreshes>>

(* The error handed on although there is a verifier.                       *)
FetchStrict(s) ==
    /\ call[s].pc = "fetch"
    /\ refreshing' = Nobody
    /\ \E ok \in BOOLEAN :
           /\ fresh' = ok
           /\ refreshes' = refreshes + (IF ok THEN 1 ELSE 0)
           /\ Goto(s, IF ok THEN "authorize" ELSE "unauthorized")
    /\ UNCHANGED <<store, expiries>>

(* The lock kept on the error return.                                      *)
FetchLocked(s) ==
    /\ call[s].pc = "fetch"
    /\ \E ok \in BOOLEAN :
           /\ fresh' = ok
           /\ refreshing' = IF ok THEN Nobody ELSE refreshing
           /\ refreshes' = refreshes + (IF ok THEN 1 ELSE 0)
    /\ Goto(s, "authorize")
    /\ UNCHANGED <<store, expiries>>

(* The issuer is asked, with the lock held.  When that fails the request   *)
(* goes on with the verifier there is: start-up fetched one, and a refresh *)
(* replaces it and never removes it.                                       *)
Fetch(s) ==
    /\ call[s].pc = "fetch"
    /\ refreshing' = Nobody
    /\ \E ok \in BOOLEAN :
           /\ fresh' = ok
           /\ refreshes' = refreshes + (IF ok THEN 1 ELSE 0)
    /\ Goto(s, "authorize")
    /\ UNCHANGED <<store, expiries>>

(* The token is parsed with the verifier of the moment, then the registry  *)
(* decides.                                                                *)
AuthorizeRequest(s) ==
    /\ call[s].pc = "authorize"
    /\ UsesOidc => refreshing = Nobody
    /\ IF ~Acceptable(Request(s).token) THEN Answer(s, 401)
       ELSE IF ~Allowed[call[s].req] THEN Answer(s, 403)
       ELSE Goto(s, "route")
    /\ UNCHANGED <<store, oidc>>

Unauthorized(s) ==
    /\ call[s].pc = "unauthorized"
    /\ Answer(s, 401)
    /\ UNCHANGED <<store, oidc>>

(* OIDC_JWKS_REFRESH_TTL passes.                                           *)
Expire ==
    /\ UsesOidc /\ fresh /\ refreshing = Nobody
    /\ expiries < MaxExpiries
    /\ fresh' = FALSE
    /\ expiries' = expiries + 1
    /\ UNCHANGED <<store, refreshing, refreshes, call>>

-----------------------------------------------------------------------------
(* Routing and handlers.                                                   *)

TakesBody == {"create", "update", "sensors", "ingest", "transform", "invoke"}
Validates == {"create", "update", "ingest", "transform"}

(* What the router, the wrapper's binding of the path parameter, the       *)
(* decoding of the body or the service's validation refuses a request      *)
(* with, or 0.                                                             *)
Refusal(r, routes) ==
    IF routes = {} THEN IF Matching(r.path) = {} THEN 404 ELSE 405
    ELSE LET route == CHOOSE x \in routes : TRUE
             id    == IdOf(route, r.path)
         IN  IF \/ id # "" /\ route.kind # "providers" /\ id \notin Uuids
                \/ route.act \in TakesBody /\ r.body = "malformed"
                \/ route.act \in Validates /\ r.body = "invalid"
               THEN 400 ELSE 0

Refusals == [r \in DOMAIN Requests |-> Refusal(Requests[r], Matched[r])]

RouteOf(s) == CHOOSE r \in Matched[call[s].req] : TRUE

Target(s) == IdOf(RouteOf(s), Request(s).path)

(* The row a request is about: creations name it in their body.            *)
Asked(s) == IF RouteOf(s).act = "create" THEN Request(s).id ELSE Target(s)

Refuse(s) ==
    /\ call[s].pc = "route"
    /\ Refusals[call[s].req] # 0
    /\ Answer(s, Refusals[call[s].req])
    /\ UNCHANGED <<store, oidc>>

Serving(s, acts) ==
    call[s].pc = "route" /\ Refusals[call[s].req] = 0 /\ RouteOf(s).act \in acts

(* Reading, which the cache answers: a collection is always there, a       *)
(* member may be unknown, and so may what is asked about it: a provider    *)
(* has no location yet, a zone has no shape a fence could take, a          *)
(* transform cannot be computed.  RPC discovery has a permission of its    *)
(* own.                                                                    *)
Read(s) ==
    /\ Serving(s, {"list", "viewAll", "get", "view", "transform", "discover"})
    /\ LET act   == RouteOf(s).act
           kind  == RouteOf(s).kind
           known == cache[kind][Target(s)] # Absent
       IN  \/ act \in {"list", "viewAll"} /\ Answer(s, 200)
           \/ act = "get" /\ Answer(s, IF known THEN 200 ELSE 404)
           \/ /\ act = "view"
              /\ \E status \in IF ~known THEN {404}
                               ELSE {200, IF kind = "zones" THEN 400 ELSE 404} :
                     Answer(s, status)
           \/ /\ act = "transform"
              /\ \E status \in IF known THEN {200, 500} ELSE {400} : Answer(s, status)
           \/ /\ act = "discover"
              /\ Answer(s, IF AuthMode = "none"
                              \/ AuthorizeRPCDiscover(Principal(Request(s).token))
                              THEN 200 ELSE 403)
    /\ UNCHANGED <<store, oidc>>

(* What is passed to other parts of the hub: locations and proximities     *)
(* (accepted or refused as a batch), the latest locations forgotten, and   *)
(* RPC calls, which answer 204 when they are notifications.                *)
Forward(s) ==
    /\ Serving(s, {"ingest", "forget", "forgetAll", "invoke"})
    /\ LET act == RouteOf(s).act
           r   == Request(s)
       IN  \/ act = "ingest" /\ \E status \in {202, 400} : Answer(s, status)
           \/ act = "forgetAll" /\ Answer(s, 204)
           \/ /\ act = "forget"
              /\ \E status \in {204, 404} :
                     /\ status = 204 => cache["providers"][Target(s)] # Absent
                     /\ Answer(s, status)
           \/ /\ act = "invoke"
              /\ IF AuthMode = "none" \/ AuthorizeRPCInvoke(Principal(r.token), r.name)
                   THEN \E status \in {200, 204} : Answer(s, status)
                   ELSE Answer(s, 403)
    /\ UNCHANGED <<store, oidc>>

(* A database call fails.  Its caller answers 500 and leaves the cache     *)
(* alone (translateDBError); the row may have been changed all the same:   *)
(* the answer is lost, or what it brings back cannot be decoded.           *)
DbFails(s, changed) ==
    /\ failures < MaxFailures
    /\ failures' = failures + 1
    /\ Move(s, "done", 500, {}, changed)
    /\ UNCHANGED cache

DbRefuses(s) == DbFails(s, call[s].changed) /\ UNCHANGED <<rows, changes>>

(* A change of one row by the service, and the answer to it.               *)
Put(s, kind, id, status) ==
    /\ changes < MaxChanges
    /\ changes' = changes + 1
    /\ rows' = [rows EXCEPT ![kind][id] = changes + 1]
    /\ LET changed == call[s].changed \cup {id}
       IN  \/ /\ cache' = [cache EXCEPT ![kind][id] = changes + 1]
              /\ Move(s, "done", status, {}, changed)
              /\ UNCHANGED failures
           \/ DbFails(s, changed)

Create(s) ==
    /\ Serving(s, {"create"})
    /\ LET kind == RouteOf(s).kind
           id   == Request(s).id
       IN  \/ rows[kind][id] = Absent /\ Put(s, kind, id, 201)
           \/ rows[kind][id] # Absent /\ Answer(s, 409) /\ UNCHANGED store
           \/ DbRefuses(s)
    /\ UNCHANGED oidc

Update(s) ==
    /\ Serving(s, {"update"})
    /\ LET kind == RouteOf(s).kind
           id   == Target(s)
       IN  \/ rows[kind][id] # Absent /\ Put(s, kind, id, 200)
           \/ rows[kind][id] = Absent /\ Answer(s, 404) /\ UNCHANGED store
           \/ DbRefuses(s)
    /\ UNCHANGED oidc

(* One row removed by a request, which goes on to pc, or tried to.         *)
Drop(s, id, pc, status) ==
    LET kind    == RouteOf(s).kind
        changed == call[s].changed \cup {id}
    IN  \/ /\ rows[kind][id] # Absent
           /\ rows' = [rows EXCEPT ![kind][id] = Absent]
           /\ \/ /\ cache' = [cache EXCEPT ![kind][id] = Absent]
                 /\ Move(s, pc, status, call[s].todo \ {id}, changed)
                 /\ UNCHANGED failures
              \/ DbFails(s, changed)
           /\ UNCHANGED changes
        \/ rows[kind][id] = Absent /\ Answer(s, 404) /\ UNCHANGED store
        \/ DbRefuses(s)

Delete(s) ==
    /\ Serving(s, {"delete"})
    /\ Drop(s, Target(s), "done", 204)
    /\ UNCHANGED oidc

(* Put sensors: the provider is read from the cache, then written back as  *)
(* it was read with the sensors replaced.                                  *)
ReadSensors(s) ==
    /\ Serving(s, {"sensors"})
    /\ IF cache["providers"][Target(s)] # Absent THEN Goto(s, "sensors")
                                                 ELSE Answer(s, 404)
    /\ UNCHANGED <<store, oidc>>

(* The provider written back although it has been deleted since.           *)
WriteSensorsUpsert(s) ==
    /\ call[s].pc = "sensors"
    /\ Put(s, "providers", Target(s), 200)
    /\ UNCHANGED oidc

(* The outcome of the update not looked at.                                *)
WriteSensorsUnchecked(s) ==
    /\ call[s].pc = "sensors"
    /\ LET id == Target(s)
       IN  \/ rows["providers"][id] # Absent /\ Put(s, "providers", id, 200)
           \/ rows["providers"][id] = Absent /\ Answer(s, 200) /\ UNCHANGED store
           \/ DbRefuses(s)
    /\ UNCHANGED oidc

WriteSensors(s) ==
    /\ call[s].pc = "sensors"
    /\ LET id == Target(s)
       IN  \/ rows["providers"][id] # Absent /\ Put(s, "providers", id, 200)
           \/ rows["providers"][id] = Absent /\ Answer(s, 404) /\ UNCHANGED store
           \/ DbRefuses(s)
    /\ UNCHANGED oidc

(* A bulk delete lists the collection, from the cache, ...                 *)
ListAll(s) ==
    /\ Serving(s, {"deleteAll"})
    /\ LET present == {id \in Ids : cache[RouteOf(s).kind][id] # Absent}
       IN  call' = [call EXCEPT ![s] = [@ EXCEPT !.pc = "deleting", !.todo = present,
               !.listed = {<<id, cache[RouteOf(s).kind][id]>> : id \in present}]]
    /\ UNCHANGED <<store, oidc>>

(* ... and deletes what it listed one by one; the first member that is     *)
(* gone already, or whose deletion fails, ends it with an error, and the   *)
(* rest stays.                                                             *)
DeleteNext(s) ==
    /\ call[s].pc = "deleting"
    /\ \E id \in call[s].todo : Drop(s, id, "deleting", 0)
    /\ UNCHANGED oidc

DeletedAll(s) ==
    /\ call[s].pc = "deleting"
    /\ call[s].todo = {}
    /\ Answer(s, 204)
    /\ UNCHANGED <<store, oidc>>

(* The background reconciliation reads the rows again.                     *)
Reconcile ==
    /\ cache # rows
    /\ cache' = rows
    /\ UNCHANGED <<rows, changes, failures, oidc, call>>

-----------------------------------------------------------------------------
Init ==
    /\ rows \in Catalogues
    /\ cache = rows
    /\ changes = 1
    /\ failures = 0
    /\ fresh = TRUE
    /\ refreshing = Nobody
    /\ expiries = 0 /\ refreshes = 0
    /\ call = [s \in Slots |-> Idle]

Serve(s) ==
    \/ EnsureFresh(s) \/ Lock(s) \/ Fetch(s) \/ AuthorizeRequest(s) \/ Unauthorized(s)
    \/ Refuse(s) \/ Read(s) \/ Forward(s) \/ Create(s) \/ Update(s) \/ Delete(s)
    \/ ReadSensors(s) \/ WriteSensors(s) \/ ListAll(s) \/ DeleteNext(s) \/ DeletedAll(s)

Next ==
    \/ Expire \/ Reconcile
    \/ \E s \in Slots : Serve(s) \/ \E r \in DOMAIN Requests : Arrive(s, r)

Spec == Init /\ [][Next]_vars

(* net/http serves every request in a goroutine of its own, and a call of  *)
(* the issuer or of the database returns.                                  *)
FairSpec == Spec /\ \A s \in Slots : WF_vars(Serve(s))

-----------------------------------------------------------------------------
Done(s, acts) ==
    /\ call[s].pc = "done"
    /\ Matched[call[s].req] # {}
    /\ RouteOf(s).act \in acts

(* What a permissions file promises, said without sorting or scoring a     *)
(* scan: some role of the principal has a rule for the path that no rule   *)
(* of that role is more specific than, and it grants the verb on anything, *)
(* or on what is owned when only that was changed.                         *)
Grants(r, kind, changed) ==
    \E role \in Tokens[r.token].roles \cap DOMAIN Policy :
        \E rule \in Policy[role].routes :
            /\ MatchPattern(rule.pattern, r.path)
            /\ \A other \in Policy[role].routes :
                   MatchPattern(other.pattern, r.path)
                       => ~MoreSpecific(other.pattern, rule.pattern)
            /\ \/ <<Verb(r.method), "any">> \in rule.permissions
               \/ /\ <<Verb(r.method), "own">> \in rule.permissions
                  /\ changed \subseteq Tokens[r.token].owned[kind]

(* Nothing is changed for a request whose token is not accepted or whose   *)
(* roles do not grant it: a broad rule never overrides the narrower one    *)
(* for the same path, and with an _OWN permission only owned resources     *)
(* change (Middleware, Registry.Authorize, bestMatchingRule).              *)
OnlyGranted ==
    \A s \in Slots : call[s].changed # {} /\ AuthMode # "none" =>
        /\ Acceptable(Request(s).token)
        /\ Grants(Request(s), OwnedResourceKey(CASE RouteOf(s).kind = "zones" -> "zoneId"
                                                  [] RouteOf(s).kind = "providers" -> "providerId"
                                                  [] RouteOf(s).kind = "trackables" -> "trackableId"
                                                  [] RouteOf(s).kind = "fences" -> "fenceId"),
                  call[s].changed)

(* A token that would be accepted is never refused with 401, whatever      *)
(* becomes of the refreshes of the verifier: an issuer that is down leaves *)
(* the old verifier in use (ensureFresh, refreshVerifier).                 *)
OutageTolerated ==
    \A s \in Slots : call[s].status = 401 => ~Acceptable(Request(s).token)

(* However many requests find the verifier stale at once, it is fetched    *)
(* successfully once for each time it went stale (the second look under    *)
(* the lock in refreshVerifier).                                           *)
OneRefreshPerExpiry == refreshes <= expiries

(* A verifier that goes stale is replaced once, and costs no good token    *)
(* while it cannot be: as long as the issuer does not answer, the requests *)
(* that find the verifier stale ask it one after the other and go on.      *)
VerifierShared == OutageTolerated /\ OneRefreshPerExpiry

(* A success means that what was asked for was done, to that row and no    *)
(* other, and a refusal (4xx) that nothing was changed: only a 500 leaves  *)
(* the client in doubt (translateDBError and writeJSONOrError after every  *)
(* service call, the read-modify-write of PutProviderSensors included).    *)
StatusTruthful ==
    \A s \in Slots : Done(s, {"create", "update", "delete", "sensors"}) =>
        /\ call[s].status < 400 => call[s].changed = {Asked(s)}
        /\ call[s].status \in 400..499 => call[s].changed = {}

(* When a bulk delete reports success, no row it listed is left, however   *)
(* old the list was: what is there now was written later (DeleteProviders  *)
(* and its like).                                                          *)
BulkDeleteTruthful ==
    \A s \in Slots : Done(s, {"deleteAll"}) /\ call[s].status = 204 =>
        \A row \in call[s].listed : rows[RouteOf(s).kind][row[1]] # row[2]

(* The status a client gets is what became of the rows, whatever other     *)
(* requests did to them meanwhile and whichever database call failed.      *)
AnswersTruthful == StatusTruthful /\ BulkDeleteTruthful

(* A deleted resource comes back by a creation only; a late write of a     *)
(* provider's sensors does not revive it (PutProviderSensors).             *)
NoRevival ==
    [][\A k \in Kinds, id \in Ids :
          rows[k][id] = Absent /\ rows'[k][id] # Absent =>
              \E s \in Slots : /\ call[s].pc # "done" /\ call'[s].pc = "done"
                              /\ RouteOf(s).act = "create"]_vars

(* Every request is answered, even while the issuer is down and several    *)
(* requests wait for the verifier's lock.                                  *)
Served == \A s \in Slots : call[s].pc # "idle" ~> call[s].pc = "done"
=============================================================================
