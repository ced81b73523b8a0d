----------------------------- MODULE MCRestApi -----------------------------
(***************************************************************************)
(* An instance of RestApi: two requests at once out of the ones that meet  *)
(* each other, with a role whose narrow rules restrict its broad one, and  *)
(* tokens of both authenticators.                                          *)
(***************************************************************************)
EXTENDS RestApi

MCRule(pattern, permissions) ==
    [pattern |-> <<Lit("v2")>> \o pattern, permissions |-> permissions]

MCEverything == {"read", "create", "update", "delete"} \X {"any"}

MCProviderId == Param("providerId")

MCInvoke(name, wild, allowed) == [rule |-> [name |-> name, wild |-> wild], allowed |-> allowed]

(* The operator's broad rule for providers is narrowed to what it owns.    *)
MCPolicy ==
    [admin |->
        [routes   |-> {MCRule(<<Wildcard>>, MCEverything)},
         discover |-> TRUE,
         invoke   |-> {MCInvoke(<<>>, TRUE, TRUE)}],
     operator |->
        [routes   |->
            {MCRule(<<Lit("providers")>>, {<<"create", "any">>, <<"delete", "any">>}),
             MCRule(<<Lit("providers"), Wildcard>>, MCEverything),
             MCRule(<<Lit("providers"), MCProviderId>>,
                    {<<"update", "own">>, <<"delete", "own">>}),
             MCRule(<<Lit("providers"), MCProviderId, Lit("sensors")>>,
                    {<<"update", "own">>}),
             MCRule(<<Lit("rpc"), Wildcard>>, MCEverything),
             MCRule(<<Lit("rpc")>>, MCEverything)},
         discover |-> FALSE,
         invoke   |-> {MCInvoke(<<"com", "lights">>, TRUE, TRUE),
                       MCInvoke(<<"com", "locks">>, FALSE, FALSE)}]]

(* The order of the patterns as strings: by their segments, "*" before ":" *)
(* before a letter, "providers" before "rpc".                              *)
MCRank(pattern) ==
    MapThenSumSet(LAMBDA i : (IF pattern[i] = Lit("rpc") THEN 10
                              ELSE IF pattern[i].kind = "lit" THEN 2
                              ELSE IF pattern[i].kind = "param" THEN 1 ELSE 0),
                  DOMAIN pattern)

MCOwn(ids) == [provider_ids |-> ids, zone_ids |-> {}]

MCTokens ==
    [root    |-> [signer |-> "oidc", live |-> TRUE, audience |-> "hub",
                  roles |-> {"admin"}, owned |-> MCOwn({})],
     staff   |-> [signer |-> "static", live |-> TRUE, audience |-> "hub",
                  roles |-> {"operator"}, owned |-> MCOwn({"1"})],
     old     |-> [signer |-> "oidc", live |-> FALSE, audience |-> "hub",
                  roles |-> {"admin"}, owned |-> MCOwn({})],
     foreign |-> [signer |-> "static", live |-> TRUE, audience |-> "site",
                  roles |-> {"admin"}, owned |-> MCOwn({})]]

MCAudiences == <<"hub", "site">>

(* Any of the providers is there, and the zone with the first of them.     *)
MCCatalogues ==
    {[providers |-> present,
      zones     |-> [id \in Ids |-> IF id = "1" THEN present["1"] ELSE Absent]] :
        present \in [Ids -> {Absent, 1}]}

MCRequest(method, path, token) ==
    [method |-> method, path |-> <<"v2">> \o path, token |-> token, body |-> "good",
     id |-> "1", name |-> <<"com", "lights", "on">>]

(* The requests whose steps meet those of others.                          *)
MCRequests ==
    <<MCRequest("DELETE", <<"providers">>, "root"),
     MCRequest("POST", <<"providers">>, "root"),
     MCRequest("PUT", <<"providers", "1">>, "staff"),
     MCRequest("DELETE", <<"providers", "1">>, "root"),
     MCRequest("DELETE", <<"providers", "2">>, "staff"),
     MCRequest("PUT", <<"providers", "1", "sensors">>, "staff"),
     \* The others, one of each kind of answer.
     MCRequest("GET", <<"providers">>, "staff"),
     MCRequest("GET", <<"providers", "1">>, "root"),
     MCRequest("GET", <<"zones", "1", "createfence">>, "root"),
     MCRequest("PUT", <<"zones", "1", "transform">>, "root"),
     MCRequest("GET", <<"zones", "no-uuid">>, "root"),
     MCRequest("GET", <<"zones">>, NoToken),
     MCRequest("GET", <<"zones">>, "old"),
     MCRequest("GET", <<"zones">>, "foreign"),
     MCRequest("GET", <<"nowhere">>, "root"),
     MCRequest("PATCH", <<"zones">>, NoToken),
     MCRequest("PUT", <<"providers", "locations">>, "root"),
     MCRequest("DELETE", <<"providers", "locations">>, "root"),
     MCRequest("DELETE", <<"providers", "1", "location">>, "root"),
     MCRequest("GET", <<"rpc", "available">>, "staff"),
     MCRequest("PUT", <<"rpc">>, "staff"),
     [MCRequest("PUT", <<"rpc">>, "staff") EXCEPT !.name = <<"com", "locks">>],
     [MCRequest("POST", <<"zones">>, "root") EXCEPT !.body = "invalid"],
     [MCRequest("PUT", <<"zones", "1">>, "root") EXCEPT !.body = "malformed"]>>
=============================================================================
