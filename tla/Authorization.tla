--------------------------- MODULE Authorization ---------------------------
(***************************************************************************)
(* The permission registry of internal/auth/permissions.go: how a role's   *)
(* rules are matched against the path of a request, which rule decides,    *)
(* and what a role may do over RPC and WebSocket.                          *)
(*                                                                         *)
(* A path is a sequence of segments.  A pattern is a sequence of segments  *)
(* [kind, name], kind being "lit", "param" (":name") or "any" ("*"); two   *)
(* patterns of the same score are ordered as strings, which Rank stands    *)
(* for.  A method or topic name is a sequence of its dotted parts, a rule  *)
(* for it [name, wild], wild when the rule ends in "*".                    *)
(***************************************************************************)
EXTENDS Naturals, Sequences, FiniteSets, Functions, FiniteSetsExt

CONSTANTS
    Policy,     \* role -> [routes, discover, invoke]: the permissions file
    Rank(_)     \* the string order of a pattern among those of its score

Lit(name)   == [kind |-> "lit", name |-> name]
Param(name) == [kind |-> "param", name |-> name]
Wildcard    == [kind |-> "any", name |-> "*"]

-----------------------------------------------------------------------------
(* The position of the first "*" of a pattern, or one past its end.        *)
Star(pattern) ==
    Min({i \in DOMAIN pattern : pattern[i].kind = "any"} \cup {Len(pattern) + 1})

(* matchPattern: literal segments agree, a parameter takes any segment and *)
(* "*" takes the rest, of which there must be some.                        *)
MatchPattern(pattern, path) ==
    /\ IF Star(pattern) <= Len(pattern) THEN Star(pattern) <= Len(path)
                                        ELSE Len(pattern) = Len(path)
    /\ \A i \in 1..(Star(pattern) - 1) :
           pattern[i].kind = "lit" => pattern[i].name = path[i]

(* The parameters matchPattern returns: <<name, segment>>.                 *)
Params(pattern, path) ==
    {<<pattern[i].name, path[i]>> :
        i \in {j \in 1..(Star(pattern) - 1) : pattern[j].kind = "param"}}

SegmentScore(segment) ==
    CASE segment.kind = "any" -> 1 [] segment.kind = "param" -> 10 [] OTHER -> 100

SpecificityScore(pattern) ==
    MapThenSumSet(LAMBDA i : SegmentScore(pattern[i]), DOMAIN pattern)

(* compareSpecificity(left, right) > 0.                                    *)
MoreSpecific(left, right) ==
    \/ SpecificityScore(left) > SpecificityScore(right)
    \/ /\ SpecificityScore(left) = SpecificityScore(right)
       /\ Rank(left) > Rank(right)

(* LoadRegistry keeps the rules of a role sorted, the most specific first, *)
(* whatever order the file or the map gave them in.                        *)
SortedRules(rules) ==
    [i \in 1..Cardinality(rules) |->
        CHOOSE r \in rules :
            Cardinality({q \in rules : MoreSpecific(q.pattern, r.pattern)}) = i - 1]

Registry == [role \in DOMAIN Policy |-> SortedRules(Policy[role].routes)]

(* bestMatchingRule: scan the rules, keeping the most specific match.      *)
Best(rules, path) ==
    LET scan[i \in 0..Len(rules)] ==
            IF i = 0 THEN 0
            ELSE IF /\ MatchPattern(rules[i].pattern, path)
                    /\ \/ scan[i - 1] = 0
                       \/ MoreSpecific(rules[i].pattern, rules[scan[i - 1]].pattern)
                   THEN i ELSE scan[i - 1]
    IN  scan[Len(rules)]

(* validateRule: an _OWN permission needs a parameter in its pattern.      *)
SupportsOwn(pattern) == \E i \in DOMAIN pattern : pattern[i].kind = "param"

ValidateRule(rule) ==
    SupportsOwn(rule.pattern) \/ \A p \in rule.permissions : p[2] = "any"

(* LoadRegistry fails on the first rule that does not validate.            *)
LoadRegistry ==
    \A role \in DOMAIN Policy : \A rule \in Policy[role].routes : ValidateRule(rule)

(* Two rules of a role have different patterns, hence different strings.   *)
ASSUME PolicyAssumption ==
    /\ LoadRegistry
    /\ \A role \in DOMAIN Policy : \A r, q \in Policy[role].routes :
           r # q => MoreSpecific(r.pattern, q.pattern) \/ MoreSpecific(q.pattern, r.pattern)

-----------------------------------------------------------------------------
(* permissionsForMethod: the verb of a method, paired with "any" or "own". *)
Verb(method) ==
    CASE method = "GET"    -> "read"
      [] method = "POST"   -> "create"
      [] method = "PUT"    -> "update"
      [] method = "DELETE" -> "delete"

(* ownedResourceKey: the claim key of a path parameter.                    *)
OwnedResourceKey(param) ==
    CASE param = "zoneId"      -> "zone_ids"
      [] param = "trackableId" -> "trackable_ids"
      [] param = "providerId"  -> "provider_ids"
      [] param = "fenceId"     -> "fence_ids"

(* ownsAll: every parameter of the matched pattern is owned; a pattern     *)
(* without parameters owns nothing.                                        *)
OwnsAll(principal, params) ==
    /\ params # {}
    /\ \A p \in params :
           /\ OwnedResourceKey(p[1]) \in DOMAIN principal.owned
           /\ p[2] \in principal.owned[OwnedResourceKey(p[1])]

(* Authorize with any matching rule instead of the best one.               *)
AuthorizeByAnyRule(method, path, principal) ==
    \E role \in principal.roles \cap DOMAIN Policy :
        \E rule \in Policy[role].routes :
            /\ MatchPattern(rule.pattern, path)
            /\ \/ <<Verb(method), "any">> \in rule.permissions
               \/ /\ <<Verb(method), "own">> \in rule.permissions
                  /\ OwnsAll(principal, Params(rule.pattern, path))

(* Authorize: some role's best rule grants the verb, on anything or on     *)
(* what the principal owns.                                                *)
Authorize(method, path, principal) ==
    \E role \in principal.roles \cap DOMAIN Policy :
        LET rules == Registry[role]
            best  == Best(rules, path)
        IN  /\ best # 0
            /\ \/ <<Verb(method), "any">> \in rules[best].permissions
               \/ /\ <<Verb(method), "own">> \in rules[best].permissions
                  /\ OwnsAll(principal, Params(rules[best].pattern, path))

-----------------------------------------------------------------------------
(* methodAllowed: an exact rule, a prefix rule or "*".                     *)
MethodAllowed(rules, name) ==
    \E r \in rules :
        IF r.wild THEN Len(r.name) <= Len(name) /\ SubSeq(name, 1, Len(r.name)) = r.name
                  ELSE r.name = name

(* parseMethodRules and parseRPCPolicy keep the entries that say true.     *)
MethodRules(entries) == {e.rule : e \in {x \in entries : x.allowed}}

AuthorizeRPCDiscover(principal) ==
    \E role \in principal.roles \cap DOMAIN Policy : Policy[role].discover

AuthorizeRPCInvoke(principal, name) ==
    \E role \in principal.roles \cap DOMAIN Policy :
        MethodAllowed(MethodRules(Policy[role].invoke), name)
=============================================================================
