------------------------------ MODULE UAAClient ------------------------------
(***************************************************************************)
(* The token keys that the CF auth proxy caches (auth/uaa_client.go).        *)
(* RefreshTokenKeys runs in requests that meet an unknown key, in background *)
(* goroutines and in the start-up loop, all at the same time if they like;   *)
(* it is cut at every access to shared state and at the call of UAA.         *)
(* A key is the number of its generation under a key id, 0 when there is     *)
(* none.                                                                     *)
(***************************************************************************)
EXTENDS Integers

CONSTANTS
  Kids,             \* key ids
  ListedAtFirst,    \* those that UAA lists when the proxy starts
  Refreshers,       \* goroutines that may be in RefreshTokenKeys
  RefreshInterval,  \* minimumRefreshInterval
  MaxRotations      \* bound: changes of UAA's list

ASSUME UAAAssumption == ListedAtFirst \subseteq Kids /\ RefreshInterval \in Nat /\ MaxRotations \in Nat

VARIABLES
  uaaKeys,      \* external: key id -> the key UAA lists, 0 if none
  generation,   \* external: key id -> keys made so far
  rotations,    \* history: changes of UAA's list
  publicKeys,   \* key id -> cached key, 0 if none
  sinceQuery,   \* time since lastQueryTime, as far as it matters
  refresh       \* refresher -> where it is in RefreshTokenKeys, and its locals

uaaVars == <<uaaKeys, generation, rotations, publicKeys, sinceQuery, refresh>>

NoKeys == [k \in Kids |-> 0]
NotRefreshing ==
  [pc |-> "idle", list |-> NoKeys, todo |-> {}, stale |-> {}, unswapped |-> FALSE,
   disturbed |-> FALSE]
Applying(t) == refresh[t].pc \in {"store", "delete"}

UAAInit ==
  /\ uaaKeys = [k \in Kids |-> IF k \in ListedAtFirst THEN 1 ELSE 0]
  /\ generation = [k \in Kids |-> 1]
  /\ rotations = 0
  /\ publicKeys = NoKeys
  /\ sinceQuery = RefreshInterval
  /\ refresh = [t \in Refreshers |-> NotRefreshing]

\* UAA makes a new key under an id, or lists an id no longer.
Rotate(k) ==
  /\ rotations < MaxRotations
  /\ rotations' = rotations + 1
  /\ \/ /\ generation' = [generation EXCEPT ![k] = @ + 1]
        /\ uaaKeys' = [uaaKeys EXCEPT ![k] = generation[k] + 1]
     \/ /\ uaaKeys[k] # 0
        /\ uaaKeys' = [uaaKeys EXCEPT ![k] = 0]
        /\ UNCHANGED generation
  /\ UNCHANGED <<publicKeys, sinceQuery, refresh>>

Goto(t, from, record) ==
  /\ refresh[t].pc = from
  /\ refresh' = [refresh EXCEPT ![t] = record]

\* The throttle: load lastQueryTime and compare, ...
RefreshLoad(t) ==
  /\ Goto(t, "called",
       IF sinceQuery < RefreshInterval THEN [NotRefreshing EXCEPT !.pc = "failed"]
       ELSE [NotRefreshing EXCEPT !.pc = "swap", !.unswapped = TRUE])
  /\ UNCHANGED <<uaaKeys, generation, rotations, publicKeys, sinceQuery>>

\* ... then swap it, if nobody else did; the query follows either way.
RefreshSwap(t) ==
  /\ refresh[t].pc = "swap"
  /\ sinceQuery' = IF refresh[t].unswapped THEN 0 ELSE sinceQuery
  /\ refresh' = [u \in Refreshers |->
       IF u = t THEN [refresh[t] EXCEPT !.pc = "query"]
       ELSE IF refresh[t].unswapped THEN [refresh[u] EXCEPT !.unswapped = FALSE]
       ELSE refresh[u]]
  /\ UNCHANGED <<uaaKeys, generation, rotations, publicKeys>>

\* UAA answers with its list, or not at all.
RefreshAnswer(t) ==
  /\ \/ Goto(t, "query", [NotRefreshing EXCEPT !.pc = "failed"])
     \/ Goto(t, "query", [NotRefreshing EXCEPT !.pc = "range", !.list = uaaKeys,
                                               !.todo = {k \in Kids : uaaKeys[k] # 0}])
  /\ UNCHANGED <<uaaKeys, generation, rotations, publicKeys, sinceQuery>>

\* The ids that are to go unless the list names them.
BugNothingStale == {}
CurrentKeyIds == {k \in Kids : publicKeys[k] # 0}

RefreshRange(t) ==
  /\ Goto(t, "range", [refresh[t] EXCEPT !.pc = "store", !.stale = CurrentKeyIds])
  /\ UNCHANGED <<uaaKeys, generation, rotations, publicKeys, sinceQuery>>

\* A write to the keys, as seen by the other refreshes that are applying a list.
Write(t, k, key, record) ==
  /\ publicKeys' = [publicKeys EXCEPT ![k] = key]
  /\ refresh' = [u \in Refreshers |->
       IF u = t THEN record
       ELSE IF Applying(u) THEN [refresh[u] EXCEPT !.disturbed = TRUE] ELSE refresh[u]]
  /\ UNCHANGED <<uaaKeys, generation, rotations, sinceQuery>>

RefreshStore(t) ==
  /\ refresh[t].pc = "store"
  /\ \E k \in refresh[t].todo :
       Write(t, k, refresh[t].list[k], [refresh[t] EXCEPT !.todo = @ \ {k}, !.stale = @ \ {k}])

\* The next entry is malformed: return with what came before it stored.
RefreshAbort(t) ==
  /\ Goto(t, "store", [NotRefreshing EXCEPT !.pc = "failed"])
  /\ UNCHANGED <<uaaKeys, generation, rotations, publicKeys, sinceQuery>>

Stored(t) == Applying(t) /\ refresh[t].todo = {}

RefreshDelete(t) ==
  /\ Stored(t)
  /\ \E k \in refresh[t].stale :
       Write(t, k, 0, [refresh[t] EXCEPT !.pc = "delete", !.stale = @ \ {k}])

RefreshDone(t) ==
  /\ Stored(t) /\ refresh[t].stale = {}
  /\ refresh' = [refresh EXCEPT ![t] = [NotRefreshing EXCEPT !.pc = "succeeded"]]
  /\ UNCHANGED <<uaaKeys, generation, rotations, publicKeys, sinceQuery>>

RefreshTokenKeys(t) ==
  \/ RefreshLoad(t) \/ RefreshSwap(t) \/ RefreshAnswer(t) \/ RefreshRange(t)
  \/ RefreshStore(t) \/ RefreshAbort(t) \/ RefreshDelete(t) \/ RefreshDone(t)

-----------------------------------------------------------------------------
\* Every variable has its type, and no key is one that UAA has yet to make: a
\* cached key is the current one or an older one of its id.
UAATypeOK ==
  /\ uaaKeys \in [Kids -> Nat] /\ generation \in [Kids -> Nat] /\ publicKeys \in [Kids -> Nat]
  /\ \A k \in Kids : uaaKeys[k] <= generation[k] /\ publicKeys[k] <= generation[k]
  /\ rotations \in 0..MaxRotations
  /\ sinceQuery \in 0..RefreshInterval
  /\ refresh \in [Refreshers ->
       [pc : {"idle", "called", "swap", "query", "range", "store", "delete", "failed", "succeeded"},
        list : [Kids -> Nat], todo : SUBSET Kids, stale : SUBSET Kids,
        unswapped : BOOLEAN, disturbed : BOOLEAN]]

\* A refresh leaves the cache with exactly the keys of UAA's answer
\* (RefreshTokenKeys): what UAA has regenerated under an old id is replaced, and what
\* it "no longer considers valid" is gone, whatever was cached before and however
\* often earlier refreshes gave up half-way; unless another refresh wrote to the
\* cache while this one applied its list.
RefreshReplaces ==
  \A t \in Refreshers :
    Stored(t) /\ refresh[t].stale = {} /\ ~refresh[t].disturbed => publicKeys = refresh[t].list
=============================================================================
