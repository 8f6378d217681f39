------------------------------ MODULE AuthProxy ------------------------------
(***************************************************************************)
(* The CF auth proxy: it starts once it has token keys (cf_auth_proxy.go),   *)
(* and its middleware (cf_auth_middleware.go) lets through the requests of   *)
(* valid tokens, for sources that the token gives access to.  UAAClient and  *)
(* CAPIClient are cut at their accesses to shared state, and so is this.     *)
(*                                                                           *)
(* A PromQL query is the set of its selectors, a selector the set of its     *)
(* matchers for source_id, a matcher a type and the ids that its value joins *)
(* by "|".  An id may hold "|" itself; Parts says what splitting gives then. *)
(***************************************************************************)
EXTENDS UAAClient, CAPIClient, FiniteSets

CONSTANTS
  Requests,     \* request goroutines
  Background,   \* the goroutine of start-up, later of a background refresh (bound: one)
  Arrivals,     \* [route, token]: the requests that may come
  NoToken,      \* the token of a request without one
  HeldSources,  \* external: the sources in the gateway's answer to Meta
  Parts         \* id -> the ids that splitting it at "|" gives

\* A route is [kind : {"read"}, id], [kind : {"query"}, query] or [kind : {"meta"}],
\* a token [kid, key, admin, expired, supported].

VARIABLES
  serving,      \* Start has got past its readyChecker
  req           \* request -> its place in the middleware, and its locals

vars == <<uaaVars, capiVars, serving, req>>

-----------------------------------------------------------------------------
(* The source ids of a query (promql.go). *)

\* addSourceIDsFromLabelMatcher: the value of an equality is one id, whatever ids it
\* joins; that of a regexp is split, also within the ids that it joins.
IdsOfMatcher(m) ==
  CASE m.type = "re" -> UNION {Parts[id] : id \in m.value}
    [] m.type = "eq" -> IF Cardinality(m.value) = 1 THEN m.value ELSE {m.value}
    [] OTHER -> {}
IdsOfSelector(sel) == UNION {IdsOfMatcher(m) : m \in sel}
ExtractSourceIds(query) == UNION {IdsOfSelector(sel) : sel \in query}

Matcher(ids) == [type |-> IF Cardinality(ids) > 1 THEN "re" ELSE "eq", value |-> ids]

BugReplaceInMatcher(m, sets) ==
  IF m.type \notin {"eq", "re"} THEN m
  ELSE [m EXCEPT !.value = UNION {sets[id] : id \in IdsOfMatcher(m)}]
ReplaceInMatcher(m, sets) ==
  IF m.type \notin {"eq", "re"} THEN m
  ELSE Matcher(UNION {sets[id] : id \in IdsOfMatcher(m)})
ReplaceInSelector(sel, sets) == {ReplaceInMatcher(m, sets) : m \in sel}

ASSUME ProxyAssumption ==
  /\ Background \notin Requests
  /\ Refreshers = Requests \cup {Background} /\ Askers = Requests
  /\ \A a \in Arrivals : a.token = NoToken \/ a.token.admin \/ a.token \in Users

\* The ids without "|", such as all that the Cloud Controller knows.
Plain == {id \in Ids : Parts[id] = {id}}

ASSUME PartsAssumption ==
  /\ Parts \in [Ids -> SUBSET Plain] /\ Sources \subseteq Plain
  /\ \A id \in Ids : Parts[id] # {}

\* What a request names is an id, and a matcher's value has one at least: splitting
\* it at "|" gives the empty id if nothing else.
ASSUME RouteAssumption ==
  /\ IsFiniteSet(Ids)
  /\ \A a \in Arrivals :
       \/ a.route.kind = "meta"
       \/ /\ a.route.kind = "query"
          /\ ExtractSourceIds(a.route.query) \subseteq Ids
          /\ \A sel \in a.route.query : \A m \in sel : m.value # {} /\ m.value \subseteq Ids
       \/ a.route.kind = "read" /\ a.route.id \in Ids

-----------------------------------------------------------------------------
NoSets == [id \in Ids |-> {}]
NotServing == [pc |-> "idle"]

Init ==
  /\ UAAInit /\ CAPIInit
  /\ serving = FALSE
  /\ req = [t \in Requests |-> NotServing]

\* Start: refresh until a refresh succeeds, then listen.
CallReadyChecker ==
  /\ ~serving /\ refresh[Background].pc \in {"idle", "failed"}
  /\ refresh' = [refresh EXCEPT ![Background] = [NotRefreshing EXCEPT !.pc = "called"]]
  /\ UNCHANGED <<uaaKeys, generation, rotations, publicKeys, sinceQuery, capiVars, serving, req>>

Listen ==
  /\ ~serving /\ refresh[Background].pc = "succeeded"
  /\ serving' = TRUE
  /\ refresh' = [refresh EXCEPT ![Background] = NotRefreshing]
  /\ UNCHANGED <<uaaKeys, generation, rotations, publicKeys, sinceQuery, capiVars, req>>

\* The end of a background refresh, whose error nobody looks at.
BackgroundDone ==
  /\ serving /\ refresh[Background].pc \in {"failed", "succeeded"}
  /\ refresh' = [refresh EXCEPT ![Background] = NotRefreshing]
  /\ UNCHANGED <<uaaKeys, generation, rotations, publicKeys, sinceQuery, capiVars, serving, req>>

\* A request without a token, or a query that names no source, is refused.
Arrive(t) ==
  /\ serving /\ req[t].pc = "idle"
  /\ \E a \in Arrivals :
       LET bad == \/ a.token = NoToken
                  \/ a.route.kind = "query" /\ ExtractSourceIds(a.route.query) = {}
       IN  req' = [req EXCEPT ![t] =
             IF bad THEN [pc |-> "refused"]
             ELSE [pc |-> "key", route |-> a.route, token |-> a.token, todo |-> {}, current |-> {},
                   sets |-> NoSets, shown |-> {}]]
  /\ UNCHANGED <<uaaVars, capiVars, serving>>

Refuse(t) == req' = [req EXCEPT ![t] = [pc |-> "refused"]]

\* What a verified token leads to.
Verified(t) ==
  LET r == req[t] IN
  IF r.token.expired THEN Refuse(t)
  ELSE req' = [req EXCEPT ![t] =
         CASE r.route.kind = "query" -> [r EXCEPT !.pc = "expand"]
           [] r.route.kind = "meta"  -> [r EXCEPT !.pc = "meta"]
           [] r.route.kind = "read" /\ r.token.admin -> [r EXCEPT !.pc = "served"]
           [] OTHER -> [r EXCEPT !.pc = "authorize", !.todo = {<<r.route.id, r.route.id>>}]]

\* The refresh of a token that does not verify, unless one is under way.
RefreshInBackground(from) ==
  refresh' = IF from[Background].pc # "idle" THEN from
             ELSE [from EXCEPT ![Background] = [NotRefreshing EXCEPT !.pc = "called"]]

\* UAAClient.Read once a key is found: the token verifies or it does not.
WithKey(t, key, from) ==
  IF key = req[t].token.key THEN Verified(t) /\ refresh' = from
  ELSE Refuse(t) /\ RefreshInBackground(from)

\* loadOrFetchPublicKey, up to a refresh ...
LoadKey(t) ==
  /\ req[t].pc = "key"
  /\ LET token == req[t].token
         key == publicKeys[token.kid]
     IN  IF ~token.supported THEN Refuse(t) /\ UNCHANGED refresh
         ELSE IF key # 0 THEN WithKey(t, key, refresh)
         ELSE /\ req' = [req EXCEPT ![t].pc = "refresh"]
              /\ refresh' = [refresh EXCEPT ![t] = [NotRefreshing EXCEPT !.pc = "called"]]
  /\ UNCHANGED <<uaaKeys, generation, rotations, publicKeys, sinceQuery, capiVars, serving>>

\* ... and after it, successful or not.
ReloadKey(t) ==
  /\ req[t].pc = "refresh" /\ refresh[t].pc \in {"failed", "succeeded"}
  /\ LET key == publicKeys[req[t].token.kid]
         returned == [refresh EXCEPT ![t] = NotRefreshing]
     IN  IF key # 0 THEN WithKey(t, key, returned) ELSE Refuse(t) /\ refresh' = returned
  /\ UNCHANGED <<uaaKeys, generation, rotations, publicKeys, sinceQuery, capiVars, serving>>

\* The names in a query stand for the apps of that name, and for themselves.
Expand(t) ==
  /\ req[t].pc = "expand"
  /\ LET r == req[t]
         ids == ExtractSourceIds(r.route.query)
     IN  \E related \in GetRelatedSourceIds(IF r.token.admin THEN Apps ELSE access) :
           LET sets == [id \in Ids |-> IF id \in ids THEN related[id] \cup {id} ELSE related[id]]
           IN  req' = [req EXCEPT ![t] =
                 IF r.token.admin THEN [r EXCEPT !.pc = "served", !.sets = sets]
                 ELSE [r EXCEPT !.pc = "authorize",
                                !.todo = {p \in ids \X Ids : p[2] \in sets[p[1]]}]]
  /\ UNCHANGED <<uaaVars, capiVars, serving>>

\* authorizeSourceIds: one id of the query after the other, the name itself last.
InSet(todo, id) == {p \in todo : p[1] = id}
Authorize(t) ==
  /\ req[t].pc = "authorize"
  /\ \E p \in req[t].todo :
       /\ req[t].current \subseteq {p[1]}
       /\ p[1] = p[2] => InSet(req[t].todo, p[1]) = {p}
       /\ BeginAsk(t, req[t].token, p[2])
       /\ req' = [req EXCEPT ![t].pc = "ask", ![t].todo = @ \ {p}, ![t].current = {p[1]}]
  /\ UNCHANGED <<uaaVars, access, lapsed, tokenCache, sincePrune, pruning, doomed, serving>>

\* An id with nothing authorized refuses the request, be it the first or the last.
Authorized(t) ==
  /\ req[t].pc = "ask" /\ ask[t].pc \in {"yes", "no"}
  /\ LET r == req[t]
         id == CHOOSE i \in r.current : TRUE
         asked == InSet(r.todo, id) = {}
         sets == IF ask[t].pc = "yes" THEN [r.sets EXCEPT ![id] = @ \cup {ask[t].id}] ELSE r.sets
     IN  IF asked /\ sets[id] = {} THEN Refuse(t)
         ELSE req' = [req EXCEPT ![t] =
                [r EXCEPT !.pc = IF r.todo = {} THEN "served" ELSE "authorize",
                          !.sets = sets, !.current = IF asked THEN {} ELSE @]]
  /\ ask' = [ask EXCEPT ![t] = NotAsking]
  /\ UNCHANGED <<uaaVars, access, lapsed, tokenCache, sincePrune, pruning, doomed, serving>>

\* Meta: the gateway's answer, cut down to the apps and the services available.
\* An error from the Cloud Controller leaves nothing of it.
Meta(t) ==
  /\ req[t].pc = "meta"
  /\ \/ Refuse(t)
     \/ req' = [req EXCEPT ![t].pc = IF req[t].token.admin THEN "served" ELSE "apps",
                           ![t].shown = IF req[t].token.admin THEN HeldSources ELSE {}]
  /\ UNCHANGED <<uaaVars, capiVars, serving>>
Available(t, from, to, kind) ==
  /\ req[t].pc = from
  /\ \/ req' = [req EXCEPT ![t].pc = to,
                           ![t].shown = @ \cup (SourceIDsForResourceType(kind) \cap HeldSources)]
     \/ req' = [req EXCEPT ![t].pc = "served", ![t].shown = {}]
  /\ UNCHANGED <<uaaVars, capiVars, serving>>
AvailableSourceIDs(t) ==
  Available(t, "apps", "services", Apps) \/ Available(t, "services", "served", Services)

\* The response is on its way.
Respond(t) ==
  /\ req[t].pc \in {"served", "refused"}
  /\ req' = [req EXCEPT ![t] = NotServing]
  /\ UNCHANGED <<uaaVars, capiVars, serving>>

Tick ==
  /\ CAPITick
  /\ sinceQuery' = IF sinceQuery < RefreshInterval THEN sinceQuery + 1 ELSE sinceQuery
  /\ UNCHANGED <<uaaKeys, generation, rotations, publicKeys, refresh, serving, req>>

UAAStep == (\E k \in Kids : Rotate(k)) \/ (\E t \in Refreshers : RefreshTokenKeys(t))
CAPIStep == (\E s \in Sources : Revoke(s)) \/ (\E t \in Askers : IsAuthorized(t)) \/ PruneTokens

Next ==
  \/ CallReadyChecker \/ Listen \/ BackgroundDone
  \/ \E t \in Requests :
       \/ Arrive(t) \/ LoadKey(t) \/ ReloadKey(t) \/ Expand(t) \/ Authorize(t) \/ Authorized(t)
       \/ Meta(t) \/ AvailableSourceIDs(t) \/ Respond(t)
  \/ UAAStep /\ UNCHANGED <<capiVars, serving, req>>
  \/ CAPIStep /\ UNCHANGED <<uaaVars, serving, req>>
  \/ Tick

Spec == Init /\ [][Next]_vars

-----------------------------------------------------------------------------
(* Properties. *)

\* The keys and the grants have their types, with the ages that pruning allows, and
\* a request has the locals of the handler of its route (Middleware).
TypeOK ==
  /\ UAATypeOK /\ CAPITypeOK
  /\ serving \in BOOLEAN
  /\ \A t \in Requests :
       \/ req[t].pc \in {"idle", "refused"}
       \/ req[t] \in [pc : {"key", "refresh", "expand", "authorize", "ask", "meta", "apps", "services",
                            "served"},
                      route : {a.route : a \in Arrivals}, token : {a.token : a \in Arrivals},
                      todo : SUBSET (Ids \X Ids),
                      current : SUBSET Ids, sets : [Ids -> SUBSET Ids], shown : SUBSET HeldSources]

\* The query that is forwarded makes the PromQL engine read, for each selector,
\* what was authorized for the ids the selector names: no id is left with nothing,
\* and nothing is lost or joined into another id on the way.  Only an id that holds
\* "|" may be read as its parts, which takes an administrator: what a user's query
\* reads is exactly what the Cloud Controller granted (authorizeSourceIds,
\* ReplaceSourceIdSets).
QueriesRewritten ==
  \A t \in Requests :
    req[t].pc = "served" /\ req[t].route.kind = "query" =>
      \A sel \in req[t].route.query :
        LET sets == req[t].sets
            asked == IdsOfSelector(sel)
            meant == UNION {sets[id] : id \in asked}
            read == IdsOfSelector(ReplaceInSelector(sel, sets))
        IN  /\ \A id \in asked : sets[id] # {} /\ sets[id] \subseteq Named[id] \cup {id}
            /\ meant \cap Plain \subseteq read
            /\ read \subseteq meant \cup UNION {Parts[id] : id \in meant}
            /\ ~req[t].token.admin \/ asked \subseteq Plain => read = meant
            /\ ~req[t].token.admin => read \subseteq Sources
=============================================================================
