----------------------------- MODULE CAPIClient -----------------------------
(***************************************************************************)
(* Who may read which source, as the CF auth proxy learns it from the Cloud  *)
(* Controller and remembers it (auth/capi_client.go).  Answers of the Cloud  *)
(* Controller are external: it grants what access says at that moment, or    *)
(* the call fails.  Time passes in ticks; an age is a number of ticks.       *)
(***************************************************************************)
EXTENDS Integers

CONSTANTS
  Apps, Services,           \* the source ids that the Cloud Controller knows
  Ids,                      \* all that a request may name: these, and names
  Named,                    \* external: id -> the apps of that name
  Users,                    \* the tokens that grants are cached for
  Askers,                   \* goroutines that may be in IsAuthorized
  CacheExpirationInterval,
  MaxTook,                  \* bound: ticks from CAPI's answer to its use
  Revocable                 \* bound: the source ids that access to may be withdrawn

ASSUME CAPIAssumption ==
  /\ CacheExpirationInterval \in Nat \ {0} /\ MaxTook \in Nat
  /\ Apps \cap Services = {} /\ Apps \cup Services \subseteq Ids
  /\ Named \in [Ids -> SUBSET Apps]

VARIABLES
  access,       \* external: the source ids that users have access to
  lapsed,       \* history: source id -> ticks without access, up to TooLong
  tokenCache,   \* token and source id -> age of the grant, or NotCached
  sincePrune,   \* ticks since the last tick of pruneTokens
  pruning,      \* the keys that the Range of pruneTokens has yet to visit
  doomed,       \* the key it found expired and is about to delete
  ask           \* asker -> where it is in IsAuthorized, and its locals

capiVars == <<access, lapsed, tokenCache, sincePrune, pruning, doomed, ask>>

NotCached == -1
Sources == Apps \cup Services
Keys == Users \X Sources

\* A grant that is stored after a tick of pruneTokens is too young to expire at
\* the next: it goes at the one after that, less than two intervals old.
TooLong == 2 * CacheExpirationInterval + 2 * MaxTook

NotAsking == [pc |-> "idle"]

CAPIInit ==
  /\ access = Sources
  /\ lapsed = [s \in Sources |-> 0]
  /\ tokenCache = [k \in Keys |-> NotCached]
  /\ sincePrune = 0
  /\ pruning = {} /\ doomed = {}
  /\ ask = [t \in Askers |-> NotAsking]

\* Access is withdrawn.
Revoke(s) ==
  /\ s \in access \cap Revocable
  /\ access' = access \ {s}
  /\ UNCHANGED <<lapsed, tokenCache, sincePrune, pruning, doomed, ask>>

\* IsAuthorized begins with the cache.
Cached(token, id) == <<token, id>> \in Keys /\ tokenCache[<<token, id>>] # NotCached
BeginAsk(t, token, id) ==
  ask' = [ask EXCEPT ![t] = [pc |-> IF Cached(token, id) THEN "yes" ELSE "app",
                             token |-> token, id |-> id, took |-> 0]]

Goes(t, from, to) == ask[t].pc = from /\ ask' = [ask EXCEPT ![t].pc = to]

\* HasApp and HasService: a status other than OK, and any failure, is a no.
HasApp(t) ==
  /\ \/ Goes(t, "app", "service")
     \/ Goes(t, "app", "granted") /\ ask[t].id \in Apps \cap access
  /\ UNCHANGED <<access, lapsed, tokenCache, sincePrune, pruning, doomed>>
HasService(t) ==
  /\ \/ Goes(t, "service", "no")
     \/ Goes(t, "service", "granted") /\ ask[t].id \in Services \cap access
  /\ UNCHANGED <<access, lapsed, tokenCache, sincePrune, pruning, doomed>>

StoreGrant(t) ==
  /\ Goes(t, "granted", "yes")
  /\ tokenCache' = [tokenCache EXCEPT ![<<ask[t].token, ask[t].id>>] = 0]
  /\ UNCHANGED <<access, lapsed, sincePrune, pruning, doomed>>

IsAuthorized(t) == HasApp(t) \/ HasService(t) \/ StoreGrant(t)

\* pruneTokens: at each tick, every key in turn.
PruneDue == sincePrune = CacheExpirationInterval
PruneTick ==
  /\ PruneDue
  /\ sincePrune' = 0
  /\ pruning' = {k \in Keys : tokenCache[k] # NotCached}
  /\ UNCHANGED <<access, lapsed, tokenCache, doomed, ask>>

BugForTwo(age) == age > 2 * CacheExpirationInterval
Expired(age) == age >= CacheExpirationInterval

PruneVisit(k) ==
  /\ doomed = {} /\ k \in pruning
  /\ pruning' = pruning \ {k}
  /\ doomed' = {j \in {k} : Expired(tokenCache[k])}
  /\ UNCHANGED <<access, lapsed, tokenCache, sincePrune, ask>>

\* By now the grant may be another one, just stored.
PruneDelete ==
  /\ doomed # {}
  /\ doomed' = {}
  /\ tokenCache' = [k \in Keys |-> IF k \in doomed THEN NotCached ELSE tokenCache[k]]
  /\ UNCHANGED <<access, lapsed, sincePrune, pruning, ask>>

PruneTokens == PruneTick \/ (\E k \in Keys : PruneVisit(k)) \/ PruneDelete

\* The answers to a resource list once all its pages are there: the source ids of
\* a kind; and the apps of each name, of which an error leaves none.
SourceIDsForResourceType(kind) == kind \cap access
GetRelatedSourceIds(visible) == {[id \in Ids |-> Named[id] \cap visible], [id \in Ids |-> {}]}

\* A tick, of which pruneTokens and the calls in progress keep pace.
InUse(t) == ask[t].pc \in {"granted", "yes"}
CAPITick ==
  /\ ~PruneDue /\ pruning = {} /\ doomed = {}
  /\ \A t \in Askers : InUse(t) => ask[t].took < MaxTook
  /\ ask' = [t \in Askers |-> IF InUse(t) THEN [ask[t] EXCEPT !.took = @ + 1] ELSE ask[t]]
  /\ sincePrune' = sincePrune + 1
  /\ lapsed' = [s \in Sources |-> IF s \in access THEN 0
                                  ELSE IF lapsed[s] < TooLong THEN lapsed[s] + 1 ELSE TooLong]
  /\ tokenCache' = [k \in Keys |-> IF tokenCache[k] = NotCached THEN NotCached
                                   ELSE tokenCache[k] + 1]
  /\ UNCHANGED <<access, pruning, doomed>>

-----------------------------------------------------------------------------
\* Every variable has its type, and pruneTokens, which looks once an interval,
\* removes each grant before it is two intervals old.
CAPITypeOK ==
  /\ access \subseteq Sources
  /\ lapsed \in [Sources -> 0..TooLong]
  /\ tokenCache \in [Keys -> NotCached..(2 * CacheExpirationInterval - 1)]
  /\ sincePrune \in 0..CacheExpirationInterval
  /\ pruning \subseteq Keys /\ doomed \subseteq Keys
  /\ \A t \in Askers :
       \/ ask[t] = NotAsking
       \/ ask[t] \in [pc : {"app", "service", "granted", "yes", "no"}, token : Users, id : Ids,
                      took : 0..MaxTook]

\* Access that the Cloud Controller has withdrawn is used for less than two
\* expiration intervals, and the time a call may take: by a cached grant, and by
\* an answer of IsAuthorized when it is given.
GrantsExpire ==
  /\ \A k \in Keys : tokenCache[k] # NotCached =>
       lapsed[k[2]] < 2 * CacheExpirationInterval + MaxTook
  /\ \A t \in Askers : ask[t].pc = "yes" =>
       lapsed[ask[t].id] < 2 * CacheExpirationInterval + MaxTook + ask[t].took
=============================================================================
