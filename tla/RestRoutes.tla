----------------------------- MODULE RestRoutes -----------------------------
(***************************************************************************)
(* The routes of the REST API, as generated from its OpenAPI description   *)
(* (internal/httpapi/gen/api.gen.go) and served by the chi router, and     *)
(* what the handler of each operation does (internal/httpapi/handlers):    *)
(*                                                                         *)
(*   list, create, get, update, delete, deleteAll  on a kind of resource   *)
(*   view        read what the hub knows about a resource                  *)
(*   viewAll     read a collection, which cannot fail                      *)
(*   transform   convert a position with a zone's transform                *)
(*   sensors     read-modify-write of a provider's sensors                 *)
(*   ingest      hand locations or proximities to the hub                  *)
(*   forget, forgetAll  drop the latest location of providers              *)
(*   discover, invoke   the RPC bridge                                     *)
(***************************************************************************)
EXTENDS Authorization, TLC

(* The handlers, by the operation they serve.                              *)
ZoneHandlers ==
    [ListZones |-> "list", DeleteZones |-> "deleteAll",
     CreateZone |-> "create", GetZone |-> "get", UpdateZone |-> "update",
     DeleteZone |-> "delete", GetZonesSummary |-> "list",
     PutZoneTransform |-> "transform", GetZoneCreateFence |-> "view"]

TrackableHandlers ==
    [ListTrackables |-> "list", DeleteTrackables |-> "deleteAll",
     CreateTrackable |-> "create", GetTrackable |-> "get",
     UpdateTrackable |-> "update", DeleteTrackable |-> "delete",
     GetTrackablesSummary |-> "list", GetTrackableMotions |-> "viewAll",
     GetTrackableFences |-> "view", GetTrackableLocation |-> "view",
     GetTrackableLocations |-> "view", GetTrackableMotion |-> "view",
     GetTrackableProviders |-> "view", GetTrackableSensors |-> "view"]

ProviderHandlers ==
    [ListProviders |-> "list", DeleteProviders |-> "deleteAll",
     CreateProvider |-> "create", GetProvider |-> "get",
     UpdateProvider |-> "update", DeleteProvider |-> "delete",
     GetProvidersSummary |-> "list"]

StreamHandlers ==
    [GetProviderLocations |-> "viewAll", PostProviderLocations |-> "ingest",
     PutProviderLocations |-> "ingest",
     DeleteProviderLocations |-> "forgetAll",
     PostProviderProximities |-> "ingest",
     PutProviderProximities |-> "ingest", GetProviderFences |-> "view",
     GetProviderLocation |-> "view", PutProviderLocation |-> "ingest",
     DeleteProviderLocation |-> "forget", PutProviderProximity |-> "ingest"]

SensorHandlers ==
    [GetProviderSensors |-> "view", PutProviderSensors |-> "sensors"]

FenceHandlers ==
    [ListFences |-> "list", DeleteFences |-> "deleteAll",
     CreateFence |-> "create", GetFence |-> "get", UpdateFence |-> "update",
     DeleteFence |-> "delete", GetFencesSummary |-> "list",
     GetFenceProviders |-> "view", GetFenceLocations |-> "view"]

RpcHandlers ==
    [GetRPCAvailable |-> "discover", PutRPC |-> "invoke"]

Handlers ==
    ZoneHandlers @@ TrackableHandlers @@ ProviderHandlers @@ StreamHandlers
        @@ SensorHandlers @@ FenceHandlers @@ RpcHandlers

KindOf(op) ==
    CASE op \in DOMAIN ZoneHandlers      -> "zones"
      [] op \in DOMAIN TrackableHandlers -> "trackables"
      [] op \in DOMAIN FenceHandlers     -> "fences"
      [] op \in DOMAIN RpcHandlers       -> "rpc"
      [] OTHER                           -> "providers"

-----------------------------------------------------------------------------
(* The method and path each operation is mounted at (HandlerWithOptions).  *)
Route(method, path, op) ==
    [method |-> method, path |-> <<Lit("v2")>> \o path,
     act |-> Handlers[op], kind |-> KindOf(op)]

Sub(kind, id, name) == <<Lit(kind), Param(id), Lit(name)>>

FenceCollection ==
    {Route("DELETE", <<Lit("fences")>>, "DeleteFences"),
     Route("GET", <<Lit("fences")>>, "ListFences"),
     Route("POST", <<Lit("fences")>>, "CreateFence"),
     Route("GET", <<Lit("fences"), Lit("summary")>>, "GetFencesSummary")}

FenceMember ==
    {Route("DELETE", <<Lit("fences"), Param("fenceId")>>, "DeleteFence"),
     Route("GET", <<Lit("fences"), Param("fenceId")>>, "GetFence"),
     Route("PUT", <<Lit("fences"), Param("fenceId")>>, "UpdateFence")}

FenceViews ==
    {Route("GET", Sub("fences", "fenceId", "providers"), "GetFenceProviders"),
     Route("GET", Sub("fences", "fenceId", "locations"), "GetFenceLocations")}

ProviderCollection ==
    {Route("DELETE", <<Lit("providers")>>, "DeleteProviders"),
     Route("GET", <<Lit("providers")>>, "ListProviders"),
     Route("POST", <<Lit("providers")>>, "CreateProvider"),
     Route("GET", <<Lit("providers"), Lit("summary")>>, "GetProvidersSummary")}

ProviderStreams ==
    {Route("DELETE", <<Lit("providers"), Lit("locations")>>, "DeleteProviderLocations"),
     Route("GET", <<Lit("providers"), Lit("locations")>>, "GetProviderLocations"),
     Route("POST", <<Lit("providers"), Lit("locations")>>, "PostProviderLocations"),
     Route("PUT", <<Lit("providers"), Lit("locations")>>, "PutProviderLocations"),
     Route("POST", <<Lit("providers"), Lit("proximities")>>, "PostProviderProximities"),
     Route("PUT", <<Lit("providers"), Lit("proximities")>>, "PutProviderProximities")}

ProviderMember ==
    {Route("DELETE", <<Lit("providers"), Param("providerId")>>, "DeleteProvider"),
     Route("GET", <<Lit("providers"), Param("providerId")>>, "GetProvider"),
     Route("PUT", <<Lit("providers"), Param("providerId")>>, "UpdateProvider")}

ProviderMemberStreams ==
    {Route("DELETE", Sub("providers", "providerId", "location"), "DeleteProviderLocation"),
     Route("GET", Sub("providers", "providerId", "location"), "GetProviderLocation"),
     Route("PUT", Sub("providers", "providerId", "location"), "PutProviderLocation"),
     Route("GET", Sub("providers", "providerId", "fences"), "GetProviderFences"),
     Route("PUT", Sub("providers", "providerId", "proximity"), "PutProviderProximity")}

ProviderSensors ==
    {Route("GET", Sub("providers", "providerId", "sensors"), "GetProviderSensors"),
     Route("PUT", Sub("providers", "providerId", "sensors"), "PutProviderSensors")}

RpcRoutes ==
    {Route("GET", <<Lit("rpc"), Lit("available")>>, "GetRPCAvailable"),
     Route("PUT", <<Lit("rpc")>>, "PutRPC")}

TrackableCollection ==
    {Route("DELETE", <<Lit("trackables")>>, "DeleteTrackables"),
     Route("GET", <<Lit("trackables")>>, "ListTrackables"),
     Route("POST", <<Lit("trackables")>>, "CreateTrackable"),
     Route("GET", <<Lit("trackables"), Lit("summary")>>, "GetTrackablesSummary"),
     Route("GET", <<Lit("trackables"), Lit("motions")>>, "GetTrackableMotions")}

TrackableMember ==
    {Route("DELETE", <<Lit("trackables"), Param("trackableId")>>, "DeleteTrackable"),
     Route("GET", <<Lit("trackables"), Param("trackableId")>>, "GetTrackable"),
     Route("PUT", <<Lit("trackables"), Param("trackableId")>>, "UpdateTrackable")}

TrackableViews ==
    {Route("GET", Sub("trackables", "trackableId", "fences"), "GetTrackableFences"),
     Route("GET", Sub("trackables", "trackableId", "location"), "GetTrackableLocation"),
     Route("GET", Sub("trackables", "trackableId", "locations"), "GetTrackableLocations"),
     Route("GET", Sub("trackables", "trackableId", "motion"), "GetTrackableMotion"),
     Route("GET", Sub("trackables", "trackableId", "providers"), "GetTrackableProviders"),
     Route("GET", Sub("trackables", "trackableId", "sensors"), "GetTrackableSensors")}

ZoneCollection ==
    {Route("DELETE", <<Lit("zones")>>, "DeleteZones"),
     Route("GET", <<Lit("zones")>>, "ListZones"),
     Route("POST", <<Lit("zones")>>, "CreateZone"),
     Route("GET", <<Lit("zones"), Lit("summary")>>, "GetZonesSummary")}

ZoneMember ==
    {Route("DELETE", <<Lit("zones"), Param("zoneId")>>, "DeleteZone"),
     Route("GET", <<Lit("zones"), Param("zoneId")>>, "GetZone"),
     Route("PUT", <<Lit("zones"), Param("zoneId")>>, "UpdateZone")}

ZoneExtras ==
    {Route("PUT", Sub("zones", "zoneId", "transform"), "PutZoneTransform"),
     Route("GET", Sub("zones", "zoneId", "createfence"), "GetZoneCreateFence")}

Routes ==
    UNION {FenceCollection, FenceMember, FenceViews,
           ProviderCollection, ProviderStreams, ProviderMember,
           ProviderMemberStreams, ProviderSensors, RpcRoutes,
           TrackableCollection, TrackableMember, TrackableViews,
           ZoneCollection, ZoneMember, ZoneExtras}

-----------------------------------------------------------------------------
(* How chi picks a route: a literal segment before a parameter, from the   *)
(* left.                                                                   *)
Before(p, q) ==
    \E i \in DOMAIN p :
        /\ p[i].kind = "lit" /\ q[i].kind = "param"
        /\ \A j \in 1..(i - 1) : p[j] = q[j]

Matching(path) == {r \in Routes : MatchPattern(r.path, path)}

RoutesFor(method, path) ==
    LET found == {r \in Matching(path) : r.method = method}
    IN  {r \in found : \A q \in found : ~Before(q.path, r.path)}

(* The identifier a route's wrapper binds from the path; a provider's is   *)
(* any string, the others are UUIDs and anything else is a bad request.    *)
IdOf(route, path) ==
    LET at == {i \in DOMAIN route.path : route.path[i].kind = "param"}
    IN  IF at = {} THEN "" ELSE path[CHOOSE i \in at : TRUE]
=============================================================================
