----------------------------- MODULE MCAuthProxy -----------------------------
(* An instance of AuthProxy for TLC. *)
EXTENDS AuthProxy

CONSTANTS k1, k2, app, svc, name, both, r1, bg, none

Token(kid, key, admin, expired, supported) ==
  [kid |-> kid, key |-> key, admin |-> admin, expired |-> expired, supported |-> supported]
User == Token(k1, 1, FALSE, FALSE, TRUE)

Admin == Token(k1, 2, TRUE, FALSE, TRUE)   \* signed with a key made later
OneUser == {User}

\* The name "svc|name", which an app has too.
AppsNamed == [id \in {app, svc, name, both} |-> IF id \in {name, both} THEN {app} ELSE {}]
IdParts == [id \in {app, svc, name, both} |-> IF id = both THEN {svc, name} ELSE {id}]

Eq(id) == [type |-> "eq", value |-> {id}]
Re(ids) == [type |-> "re", value |-> ids]
Other(ids) == [type |-> "other", value |-> ids]

\* A name and a service in two selectors; a name that holds "|"; no source id at all.
Read(id) == [kind |-> "read", id |-> id]
Query(query) == [kind |-> "query", query |-> query]
GoodQuery == Query({{Re({name, svc})}, {Eq(name), Other({svc})}})
JoinedQuery == Query({{Eq(both)}})
BadQuery == Query({{Other({app})}})

\* The user and the administrator on every route; tokens that are refused, one of
\* them with a key id of its own, so that two refreshes may overlap.
SomeArrivals ==
  [route : {Read(app), GoodQuery, JoinedQuery, [kind |-> "meta"]}, token : {User, Admin}]
    \cup [route : {Read(app)}, token : {none, Token(k1, 1, TRUE, FALSE, FALSE),
                                        Token(k2, 1, TRUE, TRUE, TRUE)}]
    \cup [route : {BadQuery}, token : {User}]
=============================================================================
