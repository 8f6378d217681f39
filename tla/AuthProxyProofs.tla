---------------------------- MODULE AuthProxyProofs ----------------------------
(***************************************************************************)
(* Proofs about the CF auth proxy: the token keys, the cached grants, and    *)
(* the queries that it forwards.                                             *)
(***************************************************************************)
EXTENDS AuthProxy, FiniteSetTheorems, TLAPS

-----------------------------------------------------------------------------
(* The token keys. *)

RefreshStates ==
  [pc : {"idle", "called", "swap", "query", "range", "store", "delete", "failed", "succeeded"},
   list : [Kids -> Nat], todo : SUBSET Kids, stale : SUBSET Kids,
   unswapped : BOOLEAN, disturbed : BOOLEAN]

\* Where an undisturbed refresh has got to: an id that it has dealt with is as the
\* list says, one that is only left to delete is not in the list.
Progress(t, k) ==
  k \notin refresh[t].todo =>
    IF k \in refresh[t].stale THEN refresh[t].list[k] = 0
                              ELSE publicKeys[k] = refresh[t].list[k]

\* UAATypeOK and RefreshReplaces, with what makes them inductive.
RefreshInv(t) ==
  /\ \A k \in Kids : refresh[t].list[k] <= generation[k]
  /\ refresh[t].pc = "range" => refresh[t].todo = {k \in Kids : refresh[t].list[k] # 0}
  /\ Applying(t) /\ ~refresh[t].disturbed => \A k \in Kids : Progress(t, k)

UAAInv == UAATypeOK /\ \A t \in Refreshers : RefreshInv(t)


LEMMA UAAInitially == UAAInit => UAAInv
<1> SUFFICES ASSUME UAAInit PROVE UAAInv
  OBVIOUS
<1>1. NotRefreshing \in RefreshStates
  BY DEF NotRefreshing, RefreshStates, NoKeys
<1>2. \A t \in Refreshers : refresh[t] = NotRefreshing
  BY DEF UAAInit
<1>3. UAATypeOK
  BY <1>1, UAAAssumption DEF UAAInit, UAATypeOK, NoKeys, RefreshStates
<1>4. \A t \in Refreshers : RefreshInv(t)
  BY <1>2 DEF UAAInit, RefreshInv, Applying, NotRefreshing, NoKeys
<1> QED BY <1>3, <1>4 DEF UAAInv

\* A record that a call of RefreshTokenKeys begins or ends with.
Outside(r) ==
  /\ r \in RefreshStates /\ r.pc \notin {"range", "store", "delete"}
  /\ r.list = NoKeys

LEMMA OutsideStates ==
  /\ Outside(NotRefreshing)
  /\ \A pc \in {"called", "failed", "succeeded"} : Outside([NotRefreshing EXCEPT !.pc = pc])
  /\ Outside([NotRefreshing EXCEPT !.pc = "swap", !.unswapped = TRUE])
  BY DEF Outside, NotRefreshing, RefreshStates, NoKeys

\* UAAInv for a refresh that is outside the part that applies a list, and for one
\* that a step of another refresh leaves alone.
LEMMA OutsideInv ==
  ASSUME generation' \in [Kids -> Nat], NEW t \in Refreshers, Outside(refresh'[t])
  PROVE  RefreshInv(t)'
<1>1. /\ refresh'[t].pc \notin {"range", "store", "delete"} /\ refresh'[t].list = NoKeys
  BY DEF Outside
<1> QED BY <1>1 DEF RefreshInv, Applying, NoKeys

LEMMA SameInv ==
  ASSUME UAAInv, NEW t \in Refreshers, refresh'[t] = refresh[t],
         generation' \in [Kids -> Nat], \A k \in Kids : generation[k] <= generation'[k],
         publicKeys' = publicKeys
  PROVE  RefreshInv(t)'
<1>1. RefreshInv(t) /\ refresh[t].list \in [Kids -> Nat] /\ generation \in [Kids -> Nat]
  BY DEF UAAInv, UAATypeOK
<1>2. \A k \in Kids : refresh[t].list[k] <= generation'[k]
  BY <1>1 DEF RefreshInv
<1> QED BY <1>1, <1>2 DEF RefreshInv, Applying, Progress

\* Every step of the proxy leaves the keys alone and starts or ends calls.
LEMMA UAACalls ==
  ASSUME UAAInv, UNCHANGED <<uaaKeys, generation, rotations, publicKeys>>,
         sinceQuery' \in 0..RefreshInterval,
         refresh' \in [Refreshers -> RefreshStates],
         \A t \in Refreshers : refresh'[t] = refresh[t] \/ Outside(refresh'[t])
  PROVE  UAAInv'
<1>1. UAATypeOK'
  BY DEF UAAInv, UAATypeOK, RefreshStates
<1>2. generation \in [Kids -> Nat] /\ \A k \in Kids : generation[k] <= generation[k]
  BY DEF UAAInv, UAATypeOK
<1>3. \A t \in Refreshers : RefreshInv(t)'
  BY <1>2, OutsideInv, SameInv
<1> QED BY <1>1, <1>3 DEF UAAInv

\* One refresh moves, and writes nothing.
LEMMA UAAMove ==
  ASSUME UAAInv, NEW t \in Refreshers, NEW r \in RefreshStates,
         refresh' = [refresh EXCEPT ![t] = r],
         UNCHANGED <<uaaKeys, generation, rotations, publicKeys, sinceQuery>>,
         RefreshInv(t)'
  PROVE  UAAInv'
<1>a. refresh \in [Refreshers -> RefreshStates] /\ generation \in [Kids -> Nat]
  BY DEF UAAInv, UAATypeOK, RefreshStates
<1>1. refresh' \in [Refreshers -> RefreshStates] /\ \A u \in Refreshers \ {t} : refresh'[u] = refresh[u]
  BY <1>a
<1>2. UAATypeOK'
  BY <1>1 DEF UAAInv, UAATypeOK, RefreshStates
<1>3. \A k \in Kids : generation[k] <= generation[k]
  BY <1>a
<1>4. \A u \in Refreshers : RefreshInv(u)'
  BY <1>a, <1>1, <1>3, SameInv
<1> QED BY <1>2, <1>4 DEF UAAInv

\* One refresh writes a key, and the others that apply a list see it.
LEMMA UAAWrite ==
  ASSUME UAAInv, NEW t \in Refreshers, NEW k \in Kids, NEW key \in 0..generation[k],
         NEW r \in RefreshStates, Write(t, k, key, r), RefreshInv(t)'
  PROVE  UAAInv'
<1>a. /\ refresh \in [Refreshers -> RefreshStates] /\ generation \in [Kids -> Nat]
      /\ publicKeys \in [Kids -> Nat] /\ uaaKeys \in [Kids -> Nat]
      /\ \A i \in Kids : uaaKeys[i] <= generation[i] /\ publicKeys[i] <= generation[i]
  BY DEF UAAInv, UAATypeOK, RefreshStates
<1>b. /\ publicKeys' = [publicKeys EXCEPT ![k] = key]
      /\ UNCHANGED <<uaaKeys, generation, rotations, sinceQuery>>
      /\ refresh' = [u \in Refreshers |->
           IF u = t THEN r
           ELSE IF Applying(u) THEN [refresh[u] EXCEPT !.disturbed = TRUE] ELSE refresh[u]]
  BY DEF Write
<1>1. \A u \in Refreshers : [refresh[u] EXCEPT !.disturbed = TRUE] \in RefreshStates
  BY <1>a DEF RefreshStates
<1>2. refresh' \in [Refreshers -> RefreshStates]
  BY <1>a, <1>b, <1>1
<1>3. /\ publicKeys' \in [Kids -> Nat]
      /\ \A i \in Kids : uaaKeys'[i] <= generation'[i] /\ publicKeys'[i] <= generation'[i]
  BY <1>a, <1>b
<1>4. UAATypeOK'
  BY <1>a, <1>b, <1>2, <1>3 DEF UAAInv, UAATypeOK, RefreshStates
<1>5. ASSUME NEW u \in Refreshers \ {t} PROVE RefreshInv(u)'
  <2>1. RefreshInv(u)
    BY DEF UAAInv
  <2>2. CASE Applying(u)
    <3>1. refresh'[u] = [refresh[u] EXCEPT !.disturbed = TRUE]
      BY <1>b, <2>2
    <3>2. /\ refresh'[u].list = refresh[u].list /\ refresh'[u].pc = refresh[u].pc
          /\ refresh'[u].disturbed
      BY <1>a, <3>1 DEF RefreshStates
    <3> QED BY <1>b, <2>1, <2>2, <3>2 DEF RefreshInv, Applying
  <2>3. CASE ~Applying(u)
    <3>1. refresh'[u] = refresh[u]
      BY <1>b, <2>3
    <3> QED BY <1>b, <2>1, <2>3, <3>1 DEF RefreshInv, Applying
  <2> QED BY <2>2, <2>3
<1> QED BY <1>4, <1>5 DEF UAAInv

LEMMA UAAStepInv == ASSUME UAAInv, UAAStep PROVE UAAInv'
<1>a. /\ refresh \in [Refreshers -> RefreshStates] /\ generation \in [Kids -> Nat]
      /\ publicKeys \in [Kids -> Nat] /\ uaaKeys \in [Kids -> Nat]
      /\ \A i \in Kids : uaaKeys[i] <= generation[i] /\ publicKeys[i] <= generation[i]
      /\ rotations \in 0..MaxRotations /\ sinceQuery \in 0..RefreshInterval
  BY DEF UAAInv, UAATypeOK, RefreshStates
<1>1. ASSUME NEW k \in Kids, Rotate(k) PROVE UAAInv'
  <2>1. UNCHANGED <<publicKeys, sinceQuery, refresh>> /\ rotations' \in 0..MaxRotations
    BY <1>1, <1>a, UAAAssumption DEF Rotate
  <2>2. /\ generation' \in [Kids -> Nat] /\ uaaKeys' \in [Kids -> Nat]
        /\ \A i \in Kids : generation[i] <= generation'[i] /\ uaaKeys'[i] <= generation'[i]
    <3>1. CASE /\ generation' = [generation EXCEPT ![k] = generation[k] + 1]
               /\ uaaKeys' = [uaaKeys EXCEPT ![k] = generation[k] + 1]
      BY <1>a, <3>1
    <3>2. CASE uaaKeys' = [uaaKeys EXCEPT ![k] = 0] /\ UNCHANGED generation
      BY <1>a, <3>2
    <3> QED BY <1>1, <3>1, <3>2 DEF Rotate
  <2>3. \A i \in Kids : publicKeys'[i] <= generation'[i]
    BY <1>a, <2>1, <2>2
  <2>4. UAATypeOK'
    BY <1>a, <2>1, <2>2, <2>3 DEF UAATypeOK, RefreshStates
  <2>5. \A t \in Refreshers : RefreshInv(t)'
    BY <2>1, <2>2, SameInv
  <2> QED BY <2>4, <2>5 DEF UAAInv
<1>2. ASSUME NEW t \in Refreshers, NEW r, Outside(r), refresh' = [refresh EXCEPT ![t] = r],
             UNCHANGED <<uaaKeys, generation, rotations, publicKeys, sinceQuery>>
      PROVE  UAAInv'
  <2>1. r \in RefreshStates
    BY <1>2 DEF Outside
  <2>2. /\ refresh' \in [Refreshers -> RefreshStates]
        /\ \A u \in Refreshers : refresh'[u] = refresh[u] \/ refresh'[u] = r
    BY <1>2, <1>a, <2>1
  <2> QED BY <1>2, <1>a, <2>2, UAACalls
<1>3. ASSUME NEW t \in Refreshers, RefreshLoad(t) PROVE UAAInv'
  <2>1. \/ refresh' = [refresh EXCEPT ![t] = [NotRefreshing EXCEPT !.pc = "failed"]]
        \/ refresh' = [refresh EXCEPT ![t] = [NotRefreshing EXCEPT !.pc = "swap", !.unswapped = TRUE]]
    BY <1>3 DEF RefreshLoad, Goto
  <2>2. UNCHANGED <<uaaKeys, generation, rotations, publicKeys, sinceQuery>>
    BY <1>3 DEF RefreshLoad
  <2> QED BY <1>2, <2>1, <2>2, OutsideStates
<1>4. ASSUME NEW t \in Refreshers, RefreshSwap(t) PROVE UAAInv'
  <2>1. /\ UNCHANGED <<uaaKeys, generation, rotations, publicKeys>>
        /\ refresh[t].pc = "swap"
        /\ sinceQuery' \in {0, sinceQuery}
        /\ refresh' = [u \in Refreshers |->
             IF u = t THEN [refresh[t] EXCEPT !.pc = "query"]
             ELSE IF refresh[t].unswapped THEN [refresh[u] EXCEPT !.unswapped = FALSE]
             ELSE refresh[u]]
    BY <1>4 DEF RefreshSwap
  <2>2. /\ \A u \in Refreshers : [refresh[u] EXCEPT !.unswapped = FALSE] \in RefreshStates
        /\ [refresh[t] EXCEPT !.pc = "query"] \in RefreshStates
    BY <1>a DEF RefreshStates
  <2>3. refresh' \in [Refreshers -> RefreshStates] /\ sinceQuery' \in 0..RefreshInterval
    BY <1>a, <2>1, <2>2, UAAAssumption
  <2>4. \A u \in Refreshers \ {t} :
          /\ refresh'[u].pc = refresh[u].pc /\ refresh'[u].list = refresh[u].list
          /\ refresh'[u].todo = refresh[u].todo /\ refresh'[u].stale = refresh[u].stale
          /\ refresh'[u].disturbed <=> refresh[u].disturbed
    BY <1>a, <2>1 DEF RefreshStates
  <2>5. refresh'[t].pc = "query" /\ refresh'[t].list = refresh[t].list
    BY <1>a, <2>1 DEF RefreshStates
  <2>6. ASSUME NEW u \in Refreshers \ {t} PROVE RefreshInv(u)'
    <3>1. RefreshInv(u)
      BY DEF UAAInv
    <3>2. \A k \in Kids : refresh'[u].list[k] <= generation'[k]
      BY <2>1, <2>4, <3>1 DEF RefreshInv
    <3>3. refresh'[u].pc = "range" => refresh'[u].todo = {k \in Kids : refresh'[u].list[k] # 0}
      BY <2>4, <3>1 DEF RefreshInv
    <3>4. Applying(u)' /\ ~refresh'[u].disturbed => \A k \in Kids : Progress(u, k)'
      BY <2>1, <2>4, <3>1 DEF RefreshInv, Applying, Progress
    <3> QED BY <3>2, <3>3, <3>4 DEF RefreshInv
  <2>7. RefreshInv(t)'
    <3>1. RefreshInv(t)
      BY DEF UAAInv
    <3> QED BY <2>1, <2>5, <3>1 DEF RefreshInv, Applying
  <2>8. UAATypeOK'
    BY <1>a, <2>1, <2>3 DEF UAATypeOK, RefreshStates
  <2> QED BY <2>6, <2>7, <2>8 DEF UAAInv
<1>5. ASSUME NEW t \in Refreshers, RefreshAnswer(t) PROVE UAAInv'
  <2> DEFINE r == [NotRefreshing EXCEPT !.pc = "range", !.list = uaaKeys,
                                        !.todo = {k \in Kids : uaaKeys[k] # 0}]
  <2>1. UNCHANGED <<uaaKeys, generation, rotations, publicKeys, sinceQuery>>
    BY <1>5 DEF RefreshAnswer
  <2>2. CASE refresh' = [refresh EXCEPT ![t] = [NotRefreshing EXCEPT !.pc = "failed"]]
    BY <1>2, <2>1, <2>2, OutsideStates
  <2>3. CASE refresh' = [refresh EXCEPT ![t] = r]
    <3>1. /\ r \in RefreshStates /\ r.pc = "range" /\ r.list = uaaKeys
          /\ r.todo = {k \in Kids : uaaKeys[k] # 0}
      BY <1>a DEF NotRefreshing, RefreshStates, NoKeys
    <3> HIDE DEF r
    <3>2. refresh'[t] = r
      BY <1>a, <2>3
    <3>3. RefreshInv(t)'
      BY <1>a, <2>1, <3>1, <3>2 DEF RefreshInv, Applying
    <3> QED BY <2>1, <2>3, <3>1, <3>3, UAAMove
  <2> QED BY <1>5, <2>2, <2>3 DEF RefreshAnswer, Goto
<1>6. ASSUME NEW t \in Refreshers, RefreshRange(t) PROVE UAAInv'
  <2> DEFINE r == [refresh[t] EXCEPT !.pc = "store", !.stale = CurrentKeyIds]
  <2>1. /\ UNCHANGED <<uaaKeys, generation, rotations, publicKeys, sinceQuery>>
        /\ refresh[t].pc = "range" /\ refresh' = [refresh EXCEPT ![t] = r]
    BY <1>6 DEF RefreshRange, Goto
  <2>2. CurrentKeyIds \in SUBSET Kids
    BY DEF CurrentKeyIds
  <2>3. /\ r \in RefreshStates /\ r.pc = "store" /\ r.list = refresh[t].list
        /\ r.todo = refresh[t].todo /\ r.stale = CurrentKeyIds
    BY <1>a, <2>2 DEF RefreshStates
  <2> HIDE DEF r
  <2>4. refresh'[t] = r
    BY <1>a, <2>1
  <2>5. /\ \A k \in Kids : refresh[t].list[k] <= generation[k]
        /\ refresh[t].todo = {k \in Kids : refresh[t].list[k] # 0}
    BY <2>1 DEF UAAInv, RefreshInv
  <2>6. \A k \in Kids : Progress(t, k)'
    BY <2>1, <2>3, <2>4, <2>5 DEF Progress, CurrentKeyIds
  <2>7. RefreshInv(t)'
    BY <2>1, <2>3, <2>4, <2>5, <2>6 DEF RefreshInv
  <2> QED BY <2>1, <2>3, <2>7, UAAMove
<1>7. ASSUME NEW t \in Refreshers, RefreshStore(t) PROVE UAAInv'
  <2>1. refresh[t].pc = "store" /\ refresh[t].todo \in SUBSET Kids /\ refresh[t].list \in [Kids -> Nat]
    BY <1>7, <1>a DEF RefreshStore, RefreshStates
  <2>2. PICK k \in refresh[t].todo :
          Write(t, k, refresh[t].list[k], [refresh[t] EXCEPT !.todo = @ \ {k}, !.stale = @ \ {k}])
    BY <1>7 DEF RefreshStore
  <2> DEFINE r == [refresh[t] EXCEPT !.todo = @ \ {k}, !.stale = @ \ {k}]
             key == refresh[t].list[k]
  <2>3. /\ r \in RefreshStates /\ r.pc = "store" /\ r.list = refresh[t].list
        /\ r.todo = refresh[t].todo \ {k} /\ r.stale = refresh[t].stale \ {k}
        /\ r.disturbed <=> refresh[t].disturbed
    BY <1>a, <2>1 DEF RefreshStates
  <2> HIDE DEF r
  <2>4. /\ refresh'[t] = r /\ publicKeys' = [publicKeys EXCEPT ![k] = key]
        /\ UNCHANGED generation
    BY <2>2 DEF Write, r
  <2>5. k \in Kids /\ \A i \in Kids : refresh[t].list[i] <= generation[i]
    BY <2>1, <2>2 DEF UAAInv, RefreshInv
  <2>6. ~refresh[t].disturbed => \A i \in Kids : Progress(t, i)'
    <3>1. ~refresh[t].disturbed => \A i \in Kids : Progress(t, i)
      BY <2>1 DEF UAAInv, RefreshInv, Applying
    <3> QED BY <1>a, <2>3, <2>4, <2>5, <3>1 DEF Progress
  <2>7. RefreshInv(t)'
    BY <2>3, <2>4, <2>5, <2>6 DEF RefreshInv
  <2>8. key \in 0..generation[k]
    BY <1>a, <2>1, <2>5
  <2> QED BY <2>2, <2>3, <2>5, <2>7, <2>8, UAAWrite DEF r
<1>8. ASSUME NEW t \in Refreshers, RefreshAbort(t) PROVE UAAInv'
  BY <1>2, <1>8, OutsideStates DEF RefreshAbort, Goto
<1>9. ASSUME NEW t \in Refreshers, RefreshDelete(t) PROVE UAAInv'
  <2>1. /\ refresh[t].pc \in {"store", "delete"} /\ refresh[t].todo = {}
        /\ refresh[t].stale \in SUBSET Kids
    BY <1>9, <1>a DEF RefreshDelete, Stored, Applying, RefreshStates
  <2>2. PICK k \in refresh[t].stale :
          Write(t, k, 0, [refresh[t] EXCEPT !.pc = "delete", !.stale = @ \ {k}])
    BY <1>9 DEF RefreshDelete
  <2> DEFINE r == [refresh[t] EXCEPT !.pc = "delete", !.stale = @ \ {k}]
  <2>3. /\ r \in RefreshStates /\ r.pc = "delete" /\ r.list = refresh[t].list
        /\ r.todo = refresh[t].todo /\ r.stale = refresh[t].stale \ {k}
        /\ r.disturbed <=> refresh[t].disturbed
    BY <1>a, <2>1 DEF RefreshStates
  <2> HIDE DEF r
  <2>4. /\ refresh'[t] = r /\ publicKeys' = [publicKeys EXCEPT ![k] = 0]
        /\ UNCHANGED generation
    BY <2>2 DEF Write, r
  <2>5. k \in Kids /\ \A i \in Kids : refresh[t].list[i] <= generation[i]
    BY <2>1, <2>2 DEF UAAInv, RefreshInv
  <2>6. ~refresh[t].disturbed => \A i \in Kids : Progress(t, i)'
    <3>1. ~refresh[t].disturbed => \A i \in Kids : Progress(t, i)
      BY <2>1 DEF UAAInv, RefreshInv, Applying
    <3> QED BY <1>a, <2>1, <2>2, <2>3, <2>4, <2>5, <3>1 DEF Progress
  <2>7. RefreshInv(t)'
    BY <2>3, <2>4, <2>5, <2>6 DEF RefreshInv
  <2>8. 0 \in 0..generation[k]
    BY <1>a, <2>5
  <2> QED BY <2>2, <2>3, <2>5, <2>7, <2>8, UAAWrite DEF r
<1>10. ASSUME NEW t \in Refreshers, RefreshDone(t) PROVE UAAInv'
  BY <1>2, <1>10, OutsideStates DEF RefreshDone
<1> QED
  BY <1>1, <1>3, <1>4, <1>5, <1>6, <1>7, <1>8, <1>9, <1>10 DEF UAAStep, RefreshTokenKeys

\* What the invariant says of a refresh that has stored and deleted all it had to.
LEMMA UAAReplaces == UAAInv => RefreshReplaces
<1> SUFFICES ASSUME UAAInv, NEW t \in Refreshers, Stored(t), refresh[t].stale = {},
                    ~refresh[t].disturbed
             PROVE  publicKeys = refresh[t].list
  BY DEF RefreshReplaces
<1>1. publicKeys \in [Kids -> Nat] /\ refresh[t].list \in [Kids -> Nat]
  BY DEF UAAInv, UAATypeOK
<1>2. \A k \in Kids : publicKeys[k] = refresh[t].list[k]
  BY DEF UAAInv, RefreshInv, Progress, Stored
<1> QED BY <1>1, <1>2

-----------------------------------------------------------------------------
(* The cached grants. *)

AskingStates ==
  [pc : {"app", "service", "granted", "yes", "no"}, token : Users, id : Ids, took : 0..MaxTook]
AskStates == {NotAsking} \cup AskingStates

\* How old a grant can be: those that the Range of pruneTokens has still to look at
\* are less than two intervals old, the others were young at its last tick.
AgesInv ==
  /\ pruning \cup doomed # {} => sincePrune = 0
  /\ \A k \in Keys \ (pruning \cup doomed) : tokenCache[k] < CacheExpirationInterval + sincePrune

\* How long access can have been withdrawn from what is still granted.
LapsedInv ==
  /\ \A s \in access : lapsed[s] = 0
  /\ \A k \in Keys : tokenCache[k] # NotCached => lapsed[k[2]] <= tokenCache[k] + MaxTook
  /\ \A t \in Askers : ask[t].pc = "granted" => ask[t].id \in Sources /\ lapsed[ask[t].id] <= ask[t].took
  /\ \A t \in Askers : ask[t].pc = "yes" =>
       /\ ask[t].id \in Sources
       /\ lapsed[ask[t].id] < 2 * CacheExpirationInterval + MaxTook + ask[t].took

CAPIInv == CAPITypeOK /\ ask \in [Askers -> AskStates] /\ AgesInv /\ LapsedInv

LEMMA CAPIInitially == CAPIInit => CAPIInv
<1> SUFFICES ASSUME CAPIInit PROVE CAPIInv
  OBVIOUS
<1>1. /\ ask = [t \in Askers |-> NotAsking] /\ access = Sources
      /\ lapsed = [s \in Sources |-> 0] /\ tokenCache = [k \in Keys |-> NotCached]
      /\ sincePrune = 0 /\ pruning = {} /\ doomed = {}
  BY DEF CAPIInit
<1>2. \A t \in Askers : ask[t] = NotAsking /\ ask[t].pc = "idle"
  BY <1>1 DEF NotAsking
<1>3. ask \in [Askers -> AskStates]
  BY <1>1 DEF AskStates
<1>4. TooLong \in Nat
  BY CAPIAssumption DEF TooLong
<1>5. CAPITypeOK
  BY <1>1, <1>2, <1>4, CAPIAssumption DEF CAPITypeOK, NotCached
<1>6. AgesInv
  BY <1>1, CAPIAssumption DEF AgesInv, NotCached
<1>7. LapsedInv
  BY <1>1, <1>2 DEF LapsedInv
<1> QED BY <1>3, <1>5, <1>6, <1>7 DEF CAPIInv

\* Facts of the types, in the form that the steps below use.
LEMMA AskTypes ==
  ASSUME CAPIInv
  PROVE  /\ \A t \in Askers : ask[t].pc # "idle" => ask[t] \in AskingStates
         /\ \A t \in Askers : ask[t].pc = "idle" => ask[t] = NotAsking
         /\ CacheExpirationInterval \in Nat \ {0} /\ MaxTook \in Nat /\ TooLong \in Nat
         /\ access \subseteq Sources
         /\ lapsed \in [Sources -> 0..TooLong]
         /\ tokenCache \in [Keys -> NotCached..(2 * CacheExpirationInterval - 1)]
         /\ sincePrune \in 0..CacheExpirationInterval
         /\ pruning \subseteq Keys /\ doomed \subseteq Keys
<1>1. ask \in [Askers -> AskStates]
  BY DEF CAPIInv
<1>2. \A t \in Askers : ask[t].pc # "idle" => ask[t] \in AskingStates
  BY <1>1 DEF AskStates, NotAsking
<1>3. \A t \in Askers : ask[t].pc = "idle" => ask[t] = NotAsking
  BY <1>1 DEF AskStates, AskingStates
<1>4. TooLong \in Nat
  BY CAPIAssumption DEF TooLong
<1> QED BY <1>2, <1>3, <1>4, CAPIAssumption DEF CAPIInv, CAPITypeOK

LEMMA AskTypeOK ==
  ASSUME ask' \in [Askers -> AskStates]
  PROVE  \A t \in Askers :
           \/ ask'[t] = NotAsking
           \/ ask'[t] \in [pc : {"app", "service", "granted", "yes", "no"}, token : Users, id : Ids,
                           took : 0..MaxTook]
  BY DEF AskStates, AskingStates

\* What an asker may hold: a grant that is fresh, or an answer that is not too late.
AskerInv(r) ==
  /\ r.pc = "granted" => r.id \in Sources /\ lapsed[r.id] <= r.took
  /\ r.pc = "yes" =>
       r.id \in Sources /\ lapsed[r.id] < 2 * CacheExpirationInterval + MaxTook + r.took

\* One asker moves, and the cache stays as it is.
LEMMA CAPIMove ==
  ASSUME CAPIInv, NEW t \in Askers, NEW r \in AskStates, AskerInv(r),
         ask' = [ask EXCEPT ![t] = r],
         UNCHANGED <<access, lapsed, tokenCache, sincePrune, pruning, doomed>>
  PROVE  CAPIInv'
<1>1. ask \in [Askers -> AskStates]
  BY DEF CAPIInv
<1>2. ask' \in [Askers -> AskStates] /\ ask'[t] = r /\ \A u \in Askers \ {t} : ask'[u] = ask[u]
  BY <1>1
<1>3. CAPITypeOK'
  BY <1>2, AskTypeOK DEF CAPIInv, CAPITypeOK
<1>4. AgesInv'
  BY DEF CAPIInv, AgesInv
<1>5. LapsedInv'
  BY <1>2 DEF CAPIInv, LapsedInv, AskerInv
<1> QED BY <1>2, <1>3, <1>4, <1>5 DEF CAPIInv

\* A request turns to IsAuthorized, and a cached grant is an answer.
LEMMA CAPIBegin ==
  ASSUME CAPIInv, NEW t \in Askers, NEW token \in Users, NEW id \in Ids, BeginAsk(t, token, id),
         UNCHANGED <<access, lapsed, tokenCache, sincePrune, pruning, doomed>>
  PROVE  CAPIInv' /\ ask'[t].pc # "idle" /\ ask'[t].id = id
<1> DEFINE r == [pc |-> IF Cached(token, id) THEN "yes" ELSE "app", token |-> token, id |-> id,
                 took |-> 0]
<1>1. /\ r \in AskStates /\ r.pc \in {"yes", "app"} /\ r.id = id /\ r.took = 0
      /\ r.pc = "yes" => Cached(token, id)
  BY AskTypes DEF AskStates, AskingStates
<1>2. ask' = [ask EXCEPT ![t] = r] /\ ask \in [Askers -> AskStates]
  BY DEF BeginAsk, CAPIInv
<1> HIDE DEF r
<1>3. ASSUME Cached(token, id)
      PROVE  id \in Sources /\ lapsed[id] < 2 * CacheExpirationInterval + MaxTook
  <2> DEFINE k == <<token, id>>
  <2>1. k \in Keys /\ tokenCache[k] # NotCached /\ k[2] = id /\ id \in Sources
    BY <1>3 DEF Cached, Keys
  <2> HIDE DEF k
  <2>2. lapsed[id] <= tokenCache[k] + MaxTook
    BY <2>1 DEF CAPIInv, LapsedInv
  <2> QED BY <2>1, <2>2, AskTypes DEF NotCached
<1>4. AskerInv(r)
  BY <1>1, <1>3, AskTypes DEF AskerInv
<1> QED BY <1>1, <1>2, <1>4, CAPIMove

LEMMA CAPIEnd ==
  ASSUME CAPIInv, NEW t \in Askers, ask' = [ask EXCEPT ![t] = NotAsking],
         UNCHANGED <<access, lapsed, tokenCache, sincePrune, pruning, doomed>>
  PROVE  CAPIInv'
<1>1. NotAsking \in AskStates /\ AskerInv(NotAsking)
  BY DEF AskStates, AskerInv, NotAsking
<1> QED BY <1>1, CAPIMove

LEMMA CAPIStepInv == ASSUME CAPIInv, CAPIStep PROVE CAPIInv'
<1>a. /\ \A t \in Askers : ask[t].pc # "idle" => ask[t] \in AskingStates
      /\ CacheExpirationInterval \in Nat \ {0} /\ MaxTook \in Nat /\ TooLong \in Nat
      /\ access \subseteq Sources /\ lapsed \in [Sources -> 0..TooLong]
      /\ tokenCache \in [Keys -> NotCached..(2 * CacheExpirationInterval - 1)]
      /\ sincePrune \in 0..CacheExpirationInterval
      /\ pruning \subseteq Keys /\ doomed \subseteq Keys
  BY AskTypes
<1>b. ask \in [Askers -> AskStates] /\ AgesInv /\ LapsedInv
  BY DEF CAPIInv
<1>1. ASSUME NEW s \in Sources, Revoke(s) PROVE CAPIInv'
  <2>1. access' = access \ {s} /\ UNCHANGED <<lapsed, tokenCache, sincePrune, pruning, doomed, ask>>
    BY <1>1 DEF Revoke
  <2>2. CAPITypeOK'
    BY <2>1 DEF CAPIInv, CAPITypeOK
  <2>3. AgesInv'
    BY <1>b, <2>1 DEF AgesInv
  <2>4. LapsedInv'
    BY <1>b, <2>1 DEF LapsedInv
  <2> QED BY <1>b, <2>1, <2>2, <2>3, <2>4 DEF CAPIInv
<1>2. ASSUME NEW t \in Askers, HasApp(t) \/ HasService(t) PROVE CAPIInv'
  <2>1. /\ ask[t].pc \in {"app", "service"}
        /\ UNCHANGED <<access, lapsed, tokenCache, sincePrune, pruning, doomed>>
    BY <1>2 DEF HasApp, HasService, Goes
  <2>2. PICK pc \in {"service", "granted", "no"} :
          ask' = [ask EXCEPT ![t].pc = pc] /\ (pc = "granted" => ask[t].id \in access)
    BY <1>2 DEF HasApp, HasService, Goes
  <2> DEFINE r == [ask[t] EXCEPT !.pc = pc]
  <2>3. ask[t] \in AskingStates /\ ask[t].took \in 0..MaxTook
    BY <1>a, <2>1 DEF AskingStates
  <2>4. r \in AskStates /\ r.pc = pc /\ r.id = ask[t].id /\ r.took = ask[t].took
    BY <2>3 DEF AskStates, AskingStates
  <2>5. ask' = [ask EXCEPT ![t] = r]
    BY <1>b, <2>2
  <2> HIDE DEF r
  <2>6. AskerInv(r)
    BY <1>a, <1>b, <2>2, <2>3, <2>4 DEF AskerInv, LapsedInv
  <2> QED BY <2>1, <2>4, <2>5, <2>6, CAPIMove
<1>3. ASSUME NEW t \in Askers, StoreGrant(t) PROVE CAPIInv'
  <2> DEFINE r == [ask[t] EXCEPT !.pc = "yes"]
             k == <<ask[t].token, ask[t].id>>
  <2>1. /\ ask[t].pc = "granted" /\ UNCHANGED <<access, lapsed, sincePrune, pruning, doomed>>
        /\ ask' = [ask EXCEPT ![t].pc = "yes"] /\ tokenCache' = [tokenCache EXCEPT ![k] = 0]
    BY <1>3 DEF StoreGrant, Goes
  <2>2. ask[t] \in AskingStates /\ ask[t].took \in 0..MaxTook
    BY <1>a, <2>1 DEF AskingStates
  <2>3. ask[t].id \in Sources /\ lapsed[ask[t].id] <= ask[t].took
    BY <1>b, <2>1 DEF LapsedInv
  <2>4. k \in Keys /\ k[2] = ask[t].id
    BY <2>2, <2>3 DEF AskingStates, Keys
  <2>5. r \in AskStates /\ r.pc = "yes" /\ r.id = ask[t].id /\ r.took = ask[t].took
    BY <2>2 DEF AskStates, AskingStates
  <2>6. ask' = [ask EXCEPT ![t] = r]
    BY <1>b, <2>1
  <2> HIDE DEF r, k
  <2>7. ask' \in [Askers -> AskStates] /\ ask'[t] = r /\ \A u \in Askers \ {t} : ask'[u] = ask[u]
    BY <1>b, <2>5, <2>6
  <2>8. /\ tokenCache' \in [Keys -> NotCached..(2 * CacheExpirationInterval - 1)]
        /\ tokenCache'[k] = 0 /\ \A j \in Keys \ {k} : tokenCache'[j] = tokenCache[j]
    BY <1>a, <2>1, <2>4 DEF NotCached
  <2>9. CAPITypeOK'
    BY <1>a, <2>1, <2>7, <2>8, AskTypeOK DEF CAPITypeOK
  <2>10. AgesInv'
    BY <1>a, <1>b, <2>1, <2>8 DEF AgesInv
  <2>11. lapsed[ask[t].id] <= MaxTook /\
         lapsed[ask[t].id] < 2 * CacheExpirationInterval + MaxTook + ask[t].took
    BY <1>a, <2>2, <2>3
  <2>12. \A j \in Keys : tokenCache'[j] # NotCached => lapsed[j[2]] <= tokenCache'[j] + MaxTook
    BY <1>a, <1>b, <2>4, <2>8, <2>11 DEF LapsedInv
  <2>13. LapsedInv'
    BY <1>b, <2>1, <2>3, <2>5, <2>7, <2>11, <2>12 DEF LapsedInv
  <2> QED BY <2>7, <2>9, <2>10, <2>13 DEF CAPIInv
<1>4. ASSUME PruneTick PROVE CAPIInv'
  <2>1. /\ sincePrune = CacheExpirationInterval /\ sincePrune' = 0
        /\ pruning' = {k \in Keys : tokenCache[k] # NotCached}
        /\ UNCHANGED <<access, lapsed, tokenCache, doomed, ask>>
    BY <1>4 DEF PruneTick, PruneDue
  <2>2. CAPITypeOK'
    BY <1>a, <2>1 DEF CAPIInv, CAPITypeOK
  <2>3. AgesInv'
    BY <1>a, <1>b, <2>1 DEF AgesInv, NotCached
  <2>4. LapsedInv'
    BY <1>b, <2>1 DEF LapsedInv
  <2> QED BY <1>b, <2>1, <2>2, <2>3, <2>4 DEF CAPIInv
<1>5. ASSUME NEW k \in Keys, PruneVisit(k) PROVE CAPIInv'
  <2>1. /\ doomed = {} /\ k \in pruning /\ pruning' = pruning \ {k}
        /\ doomed' = {j \in {k} : tokenCache[k] >= CacheExpirationInterval}
        /\ UNCHANGED <<access, lapsed, tokenCache, sincePrune, ask>>
    BY <1>5 DEF PruneVisit, Expired
  <2>2. CAPITypeOK'
    BY <1>a, <2>1 DEF CAPIInv, CAPITypeOK
  <2>3. sincePrune = 0 /\ \A j \in Keys \ pruning : tokenCache[j] < CacheExpirationInterval
    BY <1>a, <1>b, <2>1 DEF AgesInv
  <2>4. tokenCache[k] \in Int /\ (k \in doomed' \/ tokenCache[k] < CacheExpirationInterval)
    BY <1>a, <2>1 DEF NotCached
  <2>5. AgesInv'
    BY <1>a, <2>1, <2>3, <2>4 DEF AgesInv
  <2>6. LapsedInv'
    BY <1>b, <2>1 DEF LapsedInv
  <2> QED BY <1>b, <2>1, <2>2, <2>5, <2>6 DEF CAPIInv
<1>6. ASSUME PruneDelete PROVE CAPIInv'
  <2>1. /\ doomed' = {} /\ UNCHANGED <<access, lapsed, sincePrune, pruning, ask>>
        /\ tokenCache' = [k \in Keys |-> IF k \in doomed THEN NotCached ELSE tokenCache[k]]
    BY <1>6 DEF PruneDelete
  <2>2. /\ tokenCache' \in [Keys -> NotCached..(2 * CacheExpirationInterval - 1)]
        /\ \A k \in Keys : tokenCache'[k] = IF k \in doomed THEN NotCached ELSE tokenCache[k]
    BY <1>a, <2>1 DEF NotCached
  <2>3. CAPITypeOK'
    BY <2>1, <2>2 DEF CAPIInv, CAPITypeOK
  <2>4. AgesInv'
    BY <1>a, <1>b, <2>1, <2>2 DEF AgesInv, NotCached
  <2>5. LapsedInv'
    BY <1>b, <2>1, <2>2 DEF LapsedInv
  <2> QED BY <1>b, <2>1, <2>3, <2>4, <2>5 DEF CAPIInv
<1> QED BY <1>1, <1>2, <1>3, <1>4, <1>5, <1>6 DEF CAPIStep, IsAuthorized, PruneTokens

\* A tick makes every grant, every call and every withdrawal a tick older.
LEMMA CAPITickInv == ASSUME CAPIInv, CAPITick PROVE CAPIInv'
<1>a. /\ \A t \in Askers : ask[t].pc # "idle" => ask[t] \in AskingStates
      /\ CacheExpirationInterval \in Nat \ {0} /\ MaxTook \in Nat /\ TooLong \in Nat
      /\ access \subseteq Sources /\ lapsed \in [Sources -> 0..TooLong]
      /\ tokenCache \in [Keys -> NotCached..(2 * CacheExpirationInterval - 1)]
      /\ sincePrune \in 0..CacheExpirationInterval
  BY AskTypes
<1>b. ask \in [Askers -> AskStates] /\ AgesInv /\ LapsedInv
  BY DEF CAPIInv
<1>c. /\ sincePrune # CacheExpirationInterval /\ pruning = {} /\ doomed = {}
      /\ \A t \in Askers : InUse(t) => ask[t].took < MaxTook
      /\ ask' = [t \in Askers |-> IF InUse(t) THEN [ask[t] EXCEPT !.took = @ + 1] ELSE ask[t]]
      /\ sincePrune' = sincePrune + 1
      /\ lapsed' = [s \in Sources |-> IF s \in access THEN 0
                                      ELSE IF lapsed[s] < TooLong THEN lapsed[s] + 1 ELSE TooLong]
      /\ tokenCache' = [k \in Keys |-> IF tokenCache[k] = NotCached THEN NotCached
                                       ELSE tokenCache[k] + 1]
      /\ UNCHANGED <<access, pruning, doomed>>
  BY DEF CAPITick, PruneDue
<1>1. /\ lapsed' \in [Sources -> 0..TooLong]
      /\ \A s \in Sources : lapsed'[s] <= lapsed[s] + 1
      /\ \A s \in access : lapsed'[s] = 0
  BY <1>a, <1>c
<1>2. \A k \in Keys : /\ tokenCache[k] \in Int /\ tokenCache[k] < CacheExpirationInterval + sincePrune
                      /\ tokenCache'[k] = IF tokenCache[k] = NotCached THEN NotCached
                                          ELSE tokenCache[k] + 1
  BY <1>a, <1>b, <1>c DEF AgesInv
<1>3. sincePrune' \in 0..CacheExpirationInterval /\ sincePrune + 1 <= CacheExpirationInterval
  BY <1>a, <1>c
<1>4. /\ tokenCache' \in [Keys -> NotCached..(2 * CacheExpirationInterval - 1)]
      /\ \A k \in Keys : tokenCache'[k] < CacheExpirationInterval + sincePrune'
  BY <1>a, <1>c, <1>2, <1>3 DEF NotCached
<1>5. ASSUME NEW t \in Askers, InUse(t)
      PROVE  /\ ask[t] \in AskingStates /\ ask'[t] \in AskingStates
             /\ ask[t].took \in 0..MaxTook /\ ask'[t].took = ask[t].took + 1
             /\ ask'[t].id = ask[t].id /\ ask'[t].pc = ask[t].pc
  <2>1. ask[t] \in AskingStates /\ ask[t].took \in 0..MaxTook
    BY <1>a, <1>5 DEF InUse, AskingStates
  <2>2. ask[t].took + 1 \in 0..MaxTook
    BY <1>a, <1>c, <1>5, <2>1
  <2>3. ask'[t] = [ask[t] EXCEPT !.took = ask[t].took + 1]
    BY <1>c, <1>5
  <2> QED BY <2>1, <2>2, <2>3 DEF AskingStates
<1>6. \A t \in Askers : ~InUse(t) => ask'[t] = ask[t]
  BY <1>c
<1>7. ask' \in [Askers -> AskStates]
  BY <1>b, <1>c, <1>5, <1>6 DEF AskStates
<1>8. CAPITypeOK'
  BY <1>1, <1>3, <1>4, <1>7, <1>c, AskTypeOK DEF CAPIInv, CAPITypeOK
<1>9. AgesInv'
  BY <1>4, <1>c DEF AgesInv
<1>10. \A k \in Keys : tokenCache'[k] # NotCached => lapsed'[k[2]] <= tokenCache'[k] + MaxTook
  <2> SUFFICES ASSUME NEW k \in Keys, tokenCache'[k] # NotCached
               PROVE  lapsed'[k[2]] <= tokenCache'[k] + MaxTook
    OBVIOUS
  <2>1. k[2] \in Sources /\ tokenCache[k] # NotCached
    BY <1>2 DEF Keys
  <2>2. lapsed[k[2]] <= tokenCache[k] + MaxTook
    BY <1>b, <2>1 DEF LapsedInv
  <2> QED BY <1>1, <1>2, <1>a, <2>1, <2>2
<1>11. ASSUME NEW t \in Askers PROVE AskerInv(ask[t])'
  <2>1. CASE InUse(t)
    <3>1. ask[t].id \in Sources
      BY <1>b, <2>1 DEF LapsedInv, InUse
    <3>2. /\ lapsed'[ask[t].id] <= lapsed[ask[t].id] + 1 /\ lapsed[ask[t].id] \in Nat
          /\ lapsed'[ask[t].id] \in Nat
      BY <1>1, <1>a, <3>1
    <3>3. ask[t].pc = "granted" => lapsed[ask[t].id] <= ask[t].took
      BY <1>b DEF LapsedInv
    <3>4. ask[t].pc = "yes" =>
            lapsed[ask[t].id] < 2 * CacheExpirationInterval + MaxTook + ask[t].took
      BY <1>b DEF LapsedInv
    <3>5. ask[t].pc = "granted" => lapsed'[ask[t].id] <= ask[t].took + 1
      BY <1>5, <2>1, <3>2, <3>3
    <3>6. ask[t].pc = "yes" =>
            lapsed'[ask[t].id] < 2 * CacheExpirationInterval + MaxTook + (ask[t].took + 1)
      BY <1>5, <1>a, <2>1, <3>2, <3>4
    <3> QED BY <1>5, <2>1, <3>1, <3>5, <3>6 DEF AskerInv
  <2>2. CASE ~InUse(t)
    BY <1>6, <2>2 DEF AskerInv, InUse
  <2> QED BY <2>1, <2>2
<1>12. LapsedInv'
  BY <1>1, <1>10, <1>11, <1>c DEF LapsedInv, AskerInv
<1> QED BY <1>7, <1>8, <1>9, <1>12 DEF CAPIInv

\* What the invariant says of the grants in use.
LEMMA CAPIExpires == CAPIInv => GrantsExpire
<1> SUFFICES ASSUME CAPIInv PROVE GrantsExpire
  OBVIOUS
<1>1. ASSUME NEW k \in Keys, tokenCache[k] # NotCached
      PROVE  lapsed[k[2]] < 2 * CacheExpirationInterval + MaxTook
  <2>1. lapsed[k[2]] <= tokenCache[k] + MaxTook /\ k[2] \in Sources
    BY <1>1 DEF CAPIInv, LapsedInv, Keys
  <2> QED BY <2>1, AskTypes DEF NotCached
<1> QED BY <1>1 DEF CAPIInv, LapsedInv, GrantsExpire

-----------------------------------------------------------------------------
(* The requests. *)

ReqStates ==
  [pc : {"key", "refresh", "expand", "authorize", "ask", "meta", "apps", "services", "served"},
   route : {a.route : a \in Arrivals}, token : {a.token : a \in Arrivals},
   todo : SUBSET (Ids \X Ids),
   current : SUBSET Ids, sets : [Ids -> SUBSET Ids], shown : SUBSET HeldSources]

\* A name stands for the apps of that name, and for itself.
StandsFor(id) == Named[id] \cup {id}
IdsOf(r) == ExtractSourceIds(r.route.query)

\* The locals of a request are those of one that arrived with a token.
Received(r) ==
  /\ r \in ReqStates
  /\ \E a \in Arrivals : a.route = r.route /\ a.token = r.token /\ a.token # NoToken
  /\ r.route.kind = "query" => IdsOf(r) # {}

\* authorizeSourceIds for a user: an id of a query has candidates left, is being
\* asked about, or has something authorized.
Authorizing(r) ==
  /\ ~r.token.admin
  /\ \A id \in Ids : r.sets[id] \subseteq StandsFor(id) \cap Sources
  /\ \A q \in r.todo : q[2] \in StandsFor(q[1])
  /\ r.route.kind = "query" =>
       \A id \in IdsOf(r) :
         InSet(r.todo, id) # {} \/ (r.pc = "ask" /\ id \in r.current) \/ r.sets[id] # {}

\* All of a query's ids have something authorized once it is forwarded.
Rewritable(r) ==
  r.route.kind = "query" =>
    \A id \in IdsOf(r) :
      /\ r.sets[id] # {} /\ r.sets[id] \subseteq StandsFor(id)
      /\ ~r.token.admin => r.sets[id] \subseteq Sources

\* What holds of a request r whose call of IsAuthorized is at a.
RequestInv(r, a) ==
  /\ Received(r)
  /\ r.pc \in {"key", "refresh", "expand"} => r.sets = NoSets /\ r.todo = {} /\ r.current = {}
  /\ r.pc = "expand" => r.route.kind = "query"
  /\ r.pc \in {"meta", "apps", "services"} => r.route.kind = "meta"
  /\ r.pc \in {"authorize", "ask"} => Authorizing(r)
  /\ r.pc = "authorize" => r.todo # {} /\ \A id \in r.current : InSet(r.todo, id) # {}
  /\ r.pc = "ask" => \E id \in Ids : r.current = {id} /\ a.pc # "idle" /\ a.id \in StandsFor(id)
  /\ r.pc = "served" => Rewritable(r)

ProxyInv ==
  /\ serving \in BOOLEAN
  /\ req = [t \in Requests |-> req[t]]
  /\ \A t \in Requests : req[t].pc \in {"idle", "refused"} \/ RequestInv(req[t], ask[t])

LEMMA ProxyInitially == Init => ProxyInv
<1> SUFFICES ASSUME Init PROVE ProxyInv
  OBVIOUS
<1>1. req = [t \in Requests |-> NotServing] /\ serving = FALSE
  BY DEF Init
<1>2. serving \in BOOLEAN
  BY <1>1
<1>3. req = [t \in Requests |-> req[t]] /\ \A t \in Requests : req[t].pc = "idle"
  BY <1>1 DEF NotServing
<1> QED BY <1>2, <1>3 DEF ProxyInv

\* One request moves, and only its own call of IsAuthorized.
LEMMA RequestMove ==
  ASSUME ProxyInv, NEW t \in Requests, NEW r, req' = [req EXCEPT ![t] = r],
         UNCHANGED serving, \A u \in Requests \ {t} : ask'[u] = ask[u],
         r.pc \in {"idle", "refused"} \/ RequestInv(r, ask'[t])
  PROVE  ProxyInv'
<1>1. req = [u \in Requests |-> req[u]]
  BY DEF ProxyInv
<1>2. req'[t] = r /\ \A u \in Requests \ {t} : req'[u] = req[u]
  BY <1>1
<1>3. req' = [u \in Requests |-> req'[u]]
  BY <1>1
<1>4. \A u \in Requests : req'[u].pc \in {"idle", "refused"} \/ RequestInv(req'[u], ask'[u])
  BY <1>2 DEF ProxyInv
<1> QED BY <1>3, <1>4 DEF ProxyInv

LEMMA RequestRefused ==
  ASSUME ProxyInv, NEW t \in Requests, Refuse(t), UNCHANGED <<serving, ask>>
  PROVE  ProxyInv'
<1>1. [pc |-> "refused"].pc \in {"idle", "refused"}
  OBVIOUS
<1> QED BY <1>1, RequestMove DEF Refuse

\* The requests stay where they are, and the calls of IsAuthorized go on.
LEMMA RequestsStay ==
  ASSUME ProxyInv, UNCHANGED req, serving' \in BOOLEAN,
         \A t \in Requests : ask[t].pc # "idle" => ask'[t].pc # "idle" /\ ask'[t].id = ask[t].id
  PROVE  ProxyInv'
<1>1. ASSUME NEW t \in Requests, RequestInv(req[t], ask[t]) PROVE RequestInv(req[t], ask'[t])
  BY <1>1 DEF RequestInv
<1> QED BY <1>1 DEF ProxyInv

LEMMA AskGoesOn ==
  ASSUME CAPIInv, CAPIStep \/ CAPITick \/ UNCHANGED ask, NEW t \in Askers, ask[t].pc # "idle"
  PROVE  ask'[t].pc # "idle" /\ ask'[t].id = ask[t].id
<1>a. ask \in [Askers -> AskStates] /\ ask[t] \in AskingStates
  BY AskTypes DEF CAPIInv
<1>1. CASE UNCHANGED ask
  BY <1>1
<1>2. CASE CAPITick
  <2>1. ask'[t] = ask[t] \/ ask'[t] = [ask[t] EXCEPT !.took = @ + 1]
    BY <1>2 DEF CAPITick
  <2> QED BY <1>a, <2>1 DEF AskingStates
<1>3. ASSUME NEW u \in Askers, NEW pc \in {"service", "granted", "no", "yes"},
             ask' = [ask EXCEPT ![u].pc = pc]
      PROVE  ask'[t].pc # "idle" /\ ask'[t].id = ask[t].id
  <2>1. ask'[t] = ask[t] \/ ask'[t] = [ask[t] EXCEPT !.pc = pc]
    BY <1>3, <1>a
  <2> QED BY <1>a, <2>1 DEF AskingStates
<1>4. CASE CAPIStep
  <2>1. UNCHANGED ask \/ \E u \in Askers, pc \in {"service", "granted", "no", "yes"} :
                           ask' = [ask EXCEPT ![u].pc = pc]
    BY <1>4 DEF CAPIStep, Revoke, IsAuthorized, HasApp, HasService, StoreGrant, Goes, PruneTokens,
                PruneTick, PruneVisit, PruneDelete
  <2> QED BY <1>1, <1>3, <2>1
<1> QED BY <1>1, <1>2, <1>4

\* The fields of a request that has arrived, and what the arrivals are.
LEMMA ReceivedTypes ==
  ASSUME NEW r, Received(r)
  PROVE  /\ r.route \in {a.route : a \in Arrivals} /\ r.token \in {a.token : a \in Arrivals}
         /\ r.todo \in SUBSET (Ids \X Ids) /\ r.current \in SUBSET Ids
         /\ r.sets \in [Ids -> SUBSET Ids] /\ r.shown \in SUBSET HeldSources
         /\ ~r.token.admin => r.token \in Users
         /\ r.route.kind = "query" => IdsOf(r) \subseteq Ids /\ IdsOf(r) # {}
         /\ r.route.kind = "query" => \A sel \in r.route.query : \A m \in sel : m.value # {} /\ m.value \subseteq Ids
         /\ r.route.kind # "query" => r.route.kind = "meta" \/ (r.route.kind = "read" /\ r.route.id \in Ids)
<1>1. r \in ReqStates /\ (r.route.kind = "query" => IdsOf(r) # {})
  BY DEF Received
<1>2. PICK a \in Arrivals : a.route = r.route /\ a.token = r.token /\ a.token # NoToken
  BY DEF Received
<1>3. a.token.admin \/ a.token \in Users
  BY <1>2, ProxyAssumption
<1>4. \/ a.route.kind = "meta"
      \/ /\ a.route.kind = "query"
         /\ ExtractSourceIds(a.route.query) \subseteq Ids
         /\ \A sel \in a.route.query : \A m \in sel : m.value # {} /\ m.value \subseteq Ids
      \/ a.route.kind = "read" /\ a.route.id \in Ids
  BY RouteAssumption
<1>5. /\ ~r.token.admin => r.token \in Users
      /\ r.route.kind = "query" => IdsOf(r) \subseteq Ids /\ IdsOf(r) # {}
      /\ r.route.kind = "query" => \A sel \in r.route.query : \A m \in sel : m.value # {} /\ m.value \subseteq Ids
      /\ r.route.kind # "query" => r.route.kind = "meta" \/ (r.route.kind = "read" /\ r.route.id \in Ids)
  BY <1>1, <1>2, <1>3, <1>4 DEF IdsOf
<1>6. /\ r.route \in {b.route : b \in Arrivals} /\ r.token \in {b.token : b \in Arrivals}
      /\ r.todo \in SUBSET (Ids \X Ids) /\ r.current \in SUBSET Ids
      /\ r.sets \in [Ids -> SUBSET Ids] /\ r.shown \in SUBSET HeldSources
  BY <1>1 DEF ReqStates
<1> QED BY <1>5, <1>6

\* A request keeps what it arrived with when its other locals change.
LEMMA ReceivedSame ==
  ASSUME NEW r, Received(r), NEW n \in ReqStates, n.route = r.route, n.token = r.token
  PROVE  Received(n)
  BY DEF Received, IdsOf

LEMMA NoSetsType == NoSets \in [Ids -> SUBSET Ids]
  BY DEF NoSets

LEMMA ArriveInv ==
  ASSUME ProxyInv, NEW t \in Requests, Arrive(t) PROVE ProxyInv'
<1>1. UNCHANGED <<ask, serving>>
  BY DEF Arrive, capiVars
<1> DEFINE bad(a) == \/ a.token = NoToken
                     \/ a.route.kind = "query" /\ ExtractSourceIds(a.route.query) = {}
           new(a) == [pc |-> "key", route |-> a.route, token |-> a.token, todo |-> {}, current |-> {},
                      sets |-> NoSets, shown |-> {}]
<1>2. PICK a \in Arrivals :
        req' = [req EXCEPT ![t] = IF bad(a) THEN [pc |-> "refused"] ELSE new(a)]
  BY DEF Arrive
<1>3. CASE bad(a)
  <2>1. Refuse(t)
    BY <1>2, <1>3 DEF Refuse
  <2> QED BY <1>1, <2>1, RequestRefused
<1>4. CASE ~bad(a)
  <2>1. PICK n : n = new(a)
    OBVIOUS
  <2>2. /\ n \in ReqStates /\ n.route = a.route /\ n.token = a.token /\ n.pc = "key"
        /\ n.todo = {} /\ n.current = {} /\ n.sets = NoSets
    BY <2>1, NoSetsType DEF ReqStates
  <2>3. /\ a.token # NoToken
        /\ a.route.kind = "query" => ExtractSourceIds(a.route.query) # {}
    BY <1>4
  <2>4. Received(n)
    BY <2>2, <2>3 DEF Received, IdsOf
  <2>5. RequestInv(n, ask'[t])
    BY <2>2, <2>4 DEF RequestInv
  <2>6. req' = [req EXCEPT ![t] = n]
    BY <1>2, <1>4, <2>1
  <2> HIDE DEF bad, new
  <2> QED BY <1>1, <2>5, <2>6, RequestMove
<1> QED BY <1>3, <1>4

\* The token of a request has been verified.
LEMMA VerifiedInv ==
  ASSUME ProxyInv, NEW t \in Requests, req[t].pc \in {"key", "refresh"}, Verified(t),
         UNCHANGED <<serving, ask>>
  PROVE  ProxyInv'
<1>1. PICK r : r = req[t]
  OBVIOUS
<1>2. /\ Received(r) /\ r \in ReqStates /\ r.sets = NoSets /\ r.todo = {} /\ r.current = {}
  BY <1>1 DEF ProxyInv, RequestInv, Received
<1>3. CASE Refuse(t)
  BY <1>3, RequestRefused
<1>4. ASSUME NEW n, n = [r EXCEPT !.pc = "expand"], r.route.kind = "query",
             req' = [req EXCEPT ![t] = n]
      PROVE  ProxyInv'
  <2>1. /\ n \in ReqStates /\ n.pc = "expand" /\ n.route = r.route /\ n.token = r.token
        /\ n.sets = r.sets /\ n.todo = r.todo /\ n.current = r.current
    BY <1>2, <1>4 DEF ReqStates
  <2>2. Received(n)
    BY <1>2, <2>1, ReceivedSame
  <2>3. RequestInv(n, ask'[t])
    BY <1>2, <1>4, <2>1, <2>2 DEF RequestInv
  <2> QED BY <1>4, <2>3, RequestMove
<1>5. ASSUME NEW pc \in {"meta", "served"}, NEW n, n = [r EXCEPT !.pc = pc],
             r.route.kind # "query", pc = "meta" => r.route.kind = "meta",
             req' = [req EXCEPT ![t] = n]
      PROVE  ProxyInv'
  <2>1. n \in ReqStates /\ n.pc = pc /\ n.route = r.route /\ n.token = r.token
    BY <1>2, <1>5 DEF ReqStates
  <2>2. Received(n)
    BY <1>2, <2>1, ReceivedSame
  <2>3. RequestInv(n, ask'[t])
    BY <1>5, <2>1, <2>2 DEF RequestInv, Rewritable
  <2> QED BY <1>5, <2>3, RequestMove
<1>6. ASSUME NEW n, n = [r EXCEPT !.pc = "authorize", !.todo = {<<r.route.id, r.route.id>>}],
             r.route.kind = "read", ~r.token.admin, req' = [req EXCEPT ![t] = n]
      PROVE  ProxyInv'
  <2>1. r.route.id \in Ids
    BY <1>2, <1>6, ReceivedTypes
  <2>2. PICK todo : todo = {<<r.route.id, r.route.id>>}
    OBVIOUS
  <2>3. todo \in SUBSET (Ids \X Ids) /\ todo # {} /\ \A q \in todo : q[2] \in StandsFor(q[1])
    BY <2>1, <2>2 DEF StandsFor
  <2>4. n = [r EXCEPT !.pc = "authorize", !.todo = todo]
    BY <1>6, <2>2
  <2>5. /\ n \in ReqStates /\ n.pc = "authorize" /\ n.route = r.route /\ n.token = r.token
        /\ n.sets = NoSets /\ n.todo = todo /\ n.current = {}
    BY <1>2, <2>3, <2>4 DEF ReqStates
  <2>6. Received(n)
    BY <1>2, <2>5, ReceivedSame
  <2>7. Authorizing(n)
    BY <1>6, <2>3, <2>5 DEF Authorizing, NoSets
  <2>8. RequestInv(n, ask'[t])
    BY <2>3, <2>5, <2>6, <2>7 DEF RequestInv
  <2> QED BY <1>6, <2>8, RequestMove
<1>7. CASE r.token.expired
  BY <1>1, <1>3, <1>7 DEF Verified
<1>8. CASE ~r.token.expired
  <2> DEFINE n == CASE r.route.kind = "query" -> [r EXCEPT !.pc = "expand"]
                    [] r.route.kind = "meta"  -> [r EXCEPT !.pc = "meta"]
                    [] r.route.kind = "read" /\ r.token.admin -> [r EXCEPT !.pc = "served"]
                    [] OTHER -> [r EXCEPT !.pc = "authorize", !.todo = {<<r.route.id, r.route.id>>}]
  <2>1. req' = [req EXCEPT ![t] = n]
    BY <1>1, <1>8 DEF Verified
  <2>2. CASE r.route.kind = "query"
    <3>1. n = [r EXCEPT !.pc = "expand"]
      BY <2>2
    <3> QED BY <1>4, <2>1, <2>2, <3>1
  <2>3. CASE r.route.kind = "meta"
    <3>1. n = [r EXCEPT !.pc = "meta"]
      BY <2>3
    <3> QED BY <1>5, <2>1, <2>3, <3>1
  <2>4. CASE r.route.kind = "read" /\ r.token.admin
    <3>1. n = [r EXCEPT !.pc = "served"]
      BY <2>4
    <3> QED BY <1>5, <2>1, <2>4, <3>1
  <2>5. CASE r.route.kind = "read" /\ ~r.token.admin
    <3>1. n = [r EXCEPT !.pc = "authorize", !.todo = {<<r.route.id, r.route.id>>}]
      BY <2>5
    <3> QED BY <1>6, <2>1, <2>5, <3>1
  <2> HIDE DEF n
  <2> QED BY <1>2, <2>2, <2>3, <2>4, <2>5, ReceivedTypes
<1> QED BY <1>7, <1>8

\* Expanding the names of a query.
LEMMA ExpandInv ==
  ASSUME ProxyInv, NEW t \in Requests, Expand(t) PROVE ProxyInv'
<1>1. UNCHANGED <<ask, serving>> /\ req[t].pc = "expand"
  BY DEF Expand, capiVars
<1> DEFINE r == req[t]
           ids == ExtractSourceIds(r.route.query)
           setsOf(f) == [id \in Ids |-> IF id \in ids THEN f[id] \cup {id} ELSE f[id]]
<1>2. PICK related \in GetRelatedSourceIds(IF r.token.admin THEN Apps ELSE access) :
        req' = [req EXCEPT ![t] =
          IF r.token.admin THEN [r EXCEPT !.pc = "served", !.sets = setsOf(related)]
          ELSE [r EXCEPT !.pc = "authorize",
                         !.todo = {p \in ids \X Ids : p[2] \in setsOf(related)[p[1]]}]]
  BY DEF Expand
<1>3. /\ Received(r) /\ r \in ReqStates /\ r.sets = NoSets /\ r.todo = {} /\ r.current = {}
      /\ r.route.kind = "query"
  BY <1>1 DEF ProxyInv, RequestInv, Received
<1>4. ids = IdsOf(r)
  BY DEF IdsOf
<1> HIDE DEF r, ids
<1>5. ids \subseteq Ids /\ ids # {}
  BY <1>3, <1>4, ReceivedTypes
<1>6. PICK sets : sets = setsOf(related)
  OBVIOUS
<1>7. sets = [id \in Ids |-> IF id \in ids THEN related[id] \cup {id} ELSE related[id]]
  BY <1>6
<1> HIDE DEF setsOf
<1>8. \A id \in Ids : Named[id] \subseteq Ids /\ related[id] \subseteq Named[id]
  BY CAPIAssumption DEF GetRelatedSourceIds
<1>9. /\ sets \in [Ids -> SUBSET Ids]
      /\ \A id \in ids : id \in sets[id] /\ sets[id] \subseteq StandsFor(id)
  BY <1>5, <1>7, <1>8 DEF StandsFor
<1>10. CASE r.token.admin
  <2>1. PICK n : n = [r EXCEPT !.pc = "served", !.sets = sets]
    OBVIOUS
  <2>2. /\ n \in ReqStates /\ n.pc = "served" /\ n.route = r.route /\ n.token = r.token
        /\ n.sets = sets
    BY <1>3, <1>9, <2>1 DEF ReqStates
  <2>3. Received(n)
    BY <1>3, <2>2, ReceivedSame
  <2>4. Rewritable(n)
    BY <1>4, <1>9, <1>10, <2>2 DEF Rewritable, IdsOf
  <2>5. RequestInv(n, ask'[t])
    BY <2>2, <2>3, <2>4 DEF RequestInv
  <2>6. req' = [req EXCEPT ![t] = n]
    BY <1>2, <1>6, <1>10, <2>1
  <2> QED BY <1>1, <2>5, <2>6, RequestMove
<1>11. CASE ~r.token.admin
  <2>1. PICK todo : todo = {q \in ids \X Ids : q[2] \in sets[q[1]]}
    OBVIOUS
  <2>2. todo \in SUBSET (Ids \X Ids) /\ \A q \in todo : q[2] \in StandsFor(q[1])
    BY <1>5, <1>9, <2>1
  <2>3. \A id \in ids : <<id, id>> \in InSet(todo, id)
    BY <1>5, <1>9, <2>1 DEF InSet
  <2>4. PICK n : n = [r EXCEPT !.pc = "authorize", !.todo = todo]
    OBVIOUS
  <2>5. /\ n \in ReqStates /\ n.pc = "authorize" /\ n.route = r.route /\ n.token = r.token
        /\ n.sets = NoSets /\ n.todo = todo /\ n.current = {}
    BY <1>3, <2>2, <2>4 DEF ReqStates
  <2>6. Received(n)
    BY <1>3, <2>5, ReceivedSame
  <2>7. \A id \in Ids : n.sets[id] = {}
    BY <2>5 DEF NoSets
  <2>8. IdsOf(n) = ids
    BY <1>4, <2>5 DEF IdsOf
  <2>9. Authorizing(n)
    BY <1>11, <2>2, <2>3, <2>5, <2>7, <2>8 DEF Authorizing
  <2>10. todo # {}
    BY <1>5, <2>3 DEF InSet
  <2>11. RequestInv(n, ask'[t])
    BY <2>5, <2>6, <2>9, <2>10 DEF RequestInv
  <2>12. req' = [req EXCEPT ![t] = n]
    BY <1>2, <1>6, <1>11, <2>1, <2>4
  <2> QED BY <1>1, <2>11, <2>12, RequestMove
<1> QED BY <1>10, <1>11

\* authorizeSourceIds turns to the next id.
LEMMA AuthorizeInv ==
  ASSUME ProxyInv, CAPIInv, NEW t \in Requests, Authorize(t) PROVE ProxyInv' /\ CAPIInv'
<1> DEFINE r == req[t]
<1>1. PICK p \in r.todo :
        /\ BeginAsk(t, r.token, p[2])
        /\ req' = [req EXCEPT ![t].pc = "ask", ![t].todo = @ \ {p}, ![t].current = {p[1]}]
  BY DEF Authorize
<1>2. /\ r.pc = "authorize"
      /\ UNCHANGED <<access, lapsed, tokenCache, sincePrune, pruning, doomed, serving>>
  BY DEF Authorize
<1>3. Received(r) /\ r \in ReqStates /\ Authorizing(r)
  BY <1>2 DEF ProxyInv, RequestInv, Received
<1>4. PICK n : n = [r EXCEPT !.pc = "ask", !.todo = r.todo \ {p}, !.current = {p[1]}]
  OBVIOUS
<1>5. req' = [req EXCEPT ![t] = n]
  BY <1>1, <1>4 DEF ProxyInv
<1> HIDE DEF r
<1>6. /\ r.todo \in SUBSET (Ids \X Ids) /\ ~r.token.admin /\ r.token \in Users
      /\ p[1] \in Ids /\ p[2] \in Ids
  BY <1>1, <1>3, ReceivedTypes DEF Authorizing
<1>7. t \in Askers
  BY ProxyAssumption
<1>8. CAPIInv' /\ ask'[t].pc # "idle" /\ ask'[t].id = p[2]
  BY <1>1, <1>2, <1>6, <1>7, CAPIBegin
<1>9. \A u \in Requests \ {t} : ask'[u] = ask[u]
  BY <1>1, ProxyAssumption DEF BeginAsk, CAPIInv
<1>10. /\ n \in ReqStates /\ n.pc = "ask" /\ n.route = r.route /\ n.token = r.token
       /\ n.sets = r.sets /\ n.todo = r.todo \ {p} /\ n.current = {p[1]}
  BY <1>3, <1>4, <1>6 DEF ReqStates
<1>11. Received(n)
  BY <1>3, <1>10, ReceivedSame
<1>12. \A id : id # p[1] => InSet(r.todo \ {p}, id) = InSet(r.todo, id)
  BY DEF InSet
<1>13. r.route.kind = "query" => \A id \in IdsOf(r) : InSet(r.todo, id) # {} \/ r.sets[id] # {}
  BY <1>2, <1>3 DEF Authorizing, r
<1>14. IdsOf(n) = IdsOf(r)
  BY <1>10 DEF IdsOf
<1>15. p[2] \in StandsFor(p[1])
  BY <1>1, <1>3 DEF Authorizing
<1>16. Authorizing(n)
  BY <1>3, <1>10, <1>12, <1>13, <1>14 DEF Authorizing
<1>17. RequestInv(n, ask'[t])
  BY <1>6, <1>8, <1>10, <1>11, <1>15, <1>16 DEF RequestInv
<1>18. ProxyInv'
  BY <1>2, <1>5, <1>9, <1>17, RequestMove
<1> QED BY <1>8, <1>18

\* The answer of IsAuthorized.
LEMMA AuthorizedInv ==
  ASSUME ProxyInv, CAPIInv, NEW t \in Requests, Authorized(t) PROVE ProxyInv' /\ CAPIInv'
<1>1. t \in Askers /\ ask' = [ask EXCEPT ![t] = NotAsking]
  BY ProxyAssumption DEF Authorized
<1>2. /\ req[t].pc = "ask" /\ ask[t].pc \in {"yes", "no"}
      /\ UNCHANGED <<access, lapsed, tokenCache, sincePrune, pruning, doomed, serving>>
  BY DEF Authorized
<1>3. CAPIInv'
  BY <1>1, <1>2, CAPIEnd
<1>4. \A u \in Requests \ {t} : ask'[u] = ask[u]
  BY <1>1, ProxyAssumption DEF CAPIInv
<1> DEFINE r == req[t]
           id == CHOOSE i \in r.current : TRUE
           asked == InSet(r.todo, id) = {}
           sets == IF ask[t].pc = "yes" THEN [r.sets EXCEPT ![id] = @ \cup {ask[t].id}] ELSE r.sets
           n == [r EXCEPT !.pc = IF r.todo = {} THEN "served" ELSE "authorize",
                          !.sets = sets, !.current = IF asked THEN {} ELSE @]
<1>5. IF asked /\ sets[id] = {} THEN Refuse(t) ELSE req' = [req EXCEPT ![t] = n]
  BY DEF Authorized
<1>6. Received(r) /\ r \in ReqStates /\ Authorizing(r)
  BY <1>2 DEF ProxyInv, RequestInv, Received
<1>7. id \in Ids /\ r.current = {id} /\ ask[t].id \in StandsFor(id)
  <2>1. \E i \in Ids : r.current = {i} /\ ask[t].id \in StandsFor(i)
    BY <1>2 DEF ProxyInv, RequestInv
  <2> QED BY <2>1
<1>8. PICK who : who = ask[t].id
  OBVIOUS
<1>9. ask[t].pc = "yes" => who \in Sources
  BY <1>1, <1>8 DEF CAPIInv, LapsedInv
<1>10. Sources \subseteq Ids
  BY CAPIAssumption DEF Sources
<1> HIDE DEF r, id
<1>11. /\ r.sets \in [Ids -> SUBSET Ids] /\ r.todo \in SUBSET (Ids \X Ids)
       /\ \A i \in Ids : r.sets[i] \subseteq StandsFor(i) \cap Sources
  BY <1>6, ReceivedTypes DEF Authorizing
<1>12. /\ sets \in [Ids -> SUBSET Ids]
       /\ \A i \in Ids : sets[i] \subseteq StandsFor(i) \cap Sources
       /\ \A i \in Ids \ {id} : sets[i] = r.sets[i]
       /\ r.sets[id] \subseteq sets[id]
  <2>1. CASE ask[t].pc = "yes"
    <3>1. sets = [r.sets EXCEPT ![id] = r.sets[id] \cup {who}]
      BY <1>8, <2>1
    <3> HIDE DEF sets
    <3> QED BY <1>7, <1>8, <1>9, <1>10, <1>11, <2>1, <3>1
  <2>2. CASE ask[t].pc # "yes"
    BY <1>7, <1>11, <2>2
  <2> QED BY <2>1, <2>2
<1> HIDE DEF sets
<1>13. PICK cur \in SUBSET Ids : cur = IF asked THEN {} ELSE r.current
  BY <1>7
<1>14. PICK pc \in {"served", "authorize"} : pc = IF r.todo = {} THEN "served" ELSE "authorize"
  OBVIOUS
<1>15. n = [r EXCEPT !.pc = pc, !.sets = sets, !.current = cur]
  BY <1>13, <1>14
<1> HIDE DEF n
<1>16. /\ n \in ReqStates /\ n.pc = pc /\ n.route = r.route /\ n.token = r.token
       /\ n.sets = sets /\ n.todo = r.todo /\ n.current = cur
  BY <1>6, <1>12, <1>15 DEF ReqStates
<1>17. Received(n) /\ IdsOf(n) = IdsOf(r)
  BY <1>6, <1>16, ReceivedSame DEF IdsOf
<1>18. ASSUME ~(asked /\ sets[id] = {}), r.route.kind = "query", NEW i \in IdsOf(r)
       PROVE  InSet(r.todo, i) # {} \/ sets[i] # {}
  <2>1. InSet(r.todo, i) # {} \/ i \in r.current \/ r.sets[i] # {}
    BY <1>6, <1>18 DEF Authorizing
  <2>2. i \in Ids
    BY <1>6, <1>18, ReceivedTypes
  <2>3. CASE i = id
    BY <1>18, <2>3
  <2>4. CASE i # id
    BY <1>7, <1>12, <2>1, <2>2, <2>4
  <2> QED BY <2>3, <2>4
<1>19. CASE asked /\ sets[id] = {}
  <2>1. Refuse(t)
    BY <1>5, <1>19
  <2>2. [pc |-> "refused"].pc \in {"idle", "refused"}
    OBVIOUS
  <2>3. ProxyInv'
    BY <1>2, <1>4, <2>1, <2>2, RequestMove DEF Refuse
  <2> QED BY <1>3, <2>3
<1>20. CASE ~(asked /\ sets[id] = {})
  <2>1. req' = [req EXCEPT ![t] = n]
    BY <1>5, <1>20
  <2>2. CASE r.todo = {}
    <3>1. n.pc = "served" /\ \A i \in Ids : InSet(r.todo, i) = {}
      BY <1>14, <1>16, <2>2 DEF InSet
    <3>2. r.route.kind = "query" => IdsOf(r) \subseteq Ids
      BY <1>6, ReceivedTypes
    <3>3. Rewritable(n)
      BY <1>12, <1>16, <1>17, <1>18, <1>20, <3>1, <3>2 DEF Rewritable
    <3>4. RequestInv(n, ask'[t])
      BY <1>17, <3>1, <3>3 DEF RequestInv
    <3>5. ProxyInv'
      BY <1>2, <1>4, <2>1, <3>4, RequestMove
    <3> QED BY <1>3, <3>5
  <2>3. CASE r.todo # {}
    <3>1. n.pc = "authorize"
      BY <1>14, <1>16, <2>3
    <3>2. \A i \in cur : InSet(r.todo, i) # {}
      BY <1>7, <1>13
    <3>3. Authorizing(n)
      BY <1>6, <1>12, <1>16, <1>17, <1>18, <1>20 DEF Authorizing
    <3>4. RequestInv(n, ask'[t])
      BY <1>16, <1>17, <2>3, <3>1, <3>2, <3>3 DEF RequestInv
    <3>5. ProxyInv'
      BY <1>2, <1>4, <2>1, <3>4, RequestMove
    <3> QED BY <1>3, <3>5
  <2> QED BY <2>2, <2>3
<1> QED BY <1>19, <1>20

\* The answer to a request for Meta, and the end of any request.
LEMMA MetaInv ==
  ASSUME ProxyInv, NEW t \in Requests, Meta(t) \/ AvailableSourceIDs(t) PROVE ProxyInv'
<1>1. req[t].pc \in {"meta", "apps", "services"} /\ UNCHANGED <<ask, serving>>
  BY DEF Meta, AvailableSourceIDs, Available, capiVars
<1>2. PICK r : r = req[t]
  OBVIOUS
<1>3. Received(r) /\ r \in ReqStates /\ r.route.kind = "meta" /\ r.shown \in SUBSET HeldSources
  BY <1>1, <1>2, ReceivedTypes DEF ProxyInv, RequestInv, Received
<1>4. CASE Refuse(t)
  BY <1>1, <1>4, RequestRefused
<1>5. ASSUME NEW pc \in {"served", "apps", "services"}, NEW shown \in SUBSET HeldSources,
             req' = [req EXCEPT ![t].pc = pc, ![t].shown = shown]
      PROVE  ProxyInv'
  <2>1. PICK n : n = [r EXCEPT !.pc = pc, !.shown = shown]
    OBVIOUS
  <2>2. req' = [req EXCEPT ![t] = n]
    BY <1>2, <1>5, <2>1 DEF ProxyInv
  <2>3. n \in ReqStates /\ n.pc = pc /\ n.route = r.route /\ n.token = r.token
    BY <1>3, <2>1 DEF ReqStates
  <2>4. Received(n)
    BY <1>3, <2>3, ReceivedSame
  <2>5. RequestInv(n, ask'[t])
    BY <1>3, <2>3, <2>4 DEF RequestInv, Rewritable
  <2> QED BY <1>1, <2>2, <2>5, RequestMove
<1>6. CASE Meta(t)
  <2>1. \/ Refuse(t)
        \/ req' = [req EXCEPT ![t].pc = IF req[t].token.admin THEN "served" ELSE "apps",
                              ![t].shown = IF req[t].token.admin THEN HeldSources ELSE {}]
    BY <1>6 DEF Meta
  <2>2. CASE req[t].token.admin
    BY <1>4, <1>5, <2>1, <2>2
  <2>3. CASE ~req[t].token.admin
    BY <1>4, <1>5, <2>1, <2>3
  <2> QED BY <2>2, <2>3
<1>7. CASE AvailableSourceIDs(t)
  <2>1. PICK pc \in {"services", "served"}, kind \in {Apps, Services} :
          \/ req' = [req EXCEPT ![t].pc = pc,
                                ![t].shown = @ \cup (SourceIDsForResourceType(kind) \cap HeldSources)]
          \/ req' = [req EXCEPT ![t].pc = "served", ![t].shown = {}]
    BY <1>7 DEF AvailableSourceIDs, Available
  <2>2. PICK shown : shown = r.shown \cup (SourceIDsForResourceType(kind) \cap HeldSources)
    OBVIOUS
  <2>3. \/ req' = [req EXCEPT ![t].pc = pc, ![t].shown = shown]
        \/ req' = [req EXCEPT ![t].pc = "served", ![t].shown = {}]
    BY <1>2, <1>3, <2>1, <2>2 DEF ProxyInv, ReqStates
  <2>4. shown \in SUBSET HeldSources
    BY <1>3, <2>2
  <2> QED BY <1>5, <2>3, <2>4
<1> QED BY <1>6, <1>7

\* Each refresh is as it was, or at the beginning or the end of a call.
CallsOnly(f) ==
  /\ f \in [Refreshers -> RefreshStates]
  /\ \A u \in Refreshers : f[u] = refresh[u] \/ Outside(f[u])

LEMMA CallsExcept ==
  ASSUME NEW f, CallsOnly(f), NEW u \in Refreshers, NEW r, Outside(r)
  PROVE  CallsOnly([f EXCEPT ![u] = r])
  BY DEF CallsOnly, Outside

LEMMA CallsNone == UAAInv => CallsOnly(refresh)
  BY DEF CallsOnly, UAAInv, UAATypeOK, RefreshStates

\* A key has been found for the token of a request, in the cache or after a refresh.
LEMMA WithKeyInv ==
  ASSUME ProxyInv, NEW t \in Requests, req[t].pc \in {"key", "refresh"},
         NEW key, NEW f, CallsOnly(f), WithKey(t, key, f), UNCHANGED <<serving, ask>>
  PROVE  ProxyInv' /\ CallsOnly(refresh')
<1>1. CASE key = req[t].token.key
  BY <1>1, VerifiedInv DEF WithKey
<1>2. CASE key # req[t].token.key
  <2>1. Refuse(t) /\ RefreshInBackground(f)
    BY <1>2 DEF WithKey
  <2>2. ProxyInv'
    BY <2>1, RequestRefused
  <2>3. Background \in Refreshers /\ Outside([NotRefreshing EXCEPT !.pc = "called"])
    BY OutsideStates, ProxyAssumption
  <2>4. CallsOnly([f EXCEPT ![Background] = [NotRefreshing EXCEPT !.pc = "called"]])
    BY <2>3, CallsExcept
  <2>5. CallsOnly(refresh')
    BY <2>1, <2>4 DEF RefreshInBackground
  <2> QED BY <2>2, <2>5
<1> QED BY <1>1, <1>2

LEMMA KeyInv ==
  ASSUME ProxyInv, UAAInv, NEW t \in Requests, LoadKey(t) \/ ReloadKey(t)
  PROVE  ProxyInv' /\ CallsOnly(refresh')
<1>1. UNCHANGED <<ask, serving>> /\ req[t].pc \in {"key", "refresh"}
  BY DEF LoadKey, ReloadKey, capiVars
<1>2. t \in Refreshers /\ CallsOnly(refresh)
  BY CallsNone, ProxyAssumption
<1> DEFINE key == publicKeys[req[t].token.kid]
<1>3. CASE LoadKey(t)
  <2> DEFINE called == [NotRefreshing EXCEPT !.pc = "called"]
  <2>1. \/ Refuse(t) /\ UNCHANGED refresh
        \/ WithKey(t, key, refresh)
        \/ req' = [req EXCEPT ![t].pc = "refresh"] /\ refresh' = [refresh EXCEPT ![t] = called]
    BY <1>3 DEF LoadKey
  <2>2. CASE Refuse(t) /\ UNCHANGED refresh
    BY <1>1, <1>2, <2>2, RequestRefused
  <2>3. CASE WithKey(t, key, refresh)
    BY <1>1, <1>2, <2>3, WithKeyInv
  <2>4. CASE req' = [req EXCEPT ![t].pc = "refresh"] /\ refresh' = [refresh EXCEPT ![t] = called]
    <3>1. CallsOnly(refresh')
      BY <1>2, <2>4, CallsExcept, OutsideStates
    <3>2. PICK r : r = req[t]
      OBVIOUS
    <3>3. /\ Received(r) /\ r \in ReqStates /\ r.sets = NoSets /\ r.todo = {} /\ r.current = {}
      BY <1>1, <3>2 DEF ProxyInv, RequestInv, Received
    <3>4. PICK n : n = [r EXCEPT !.pc = "refresh"]
      OBVIOUS
    <3>5. req' = [req EXCEPT ![t] = n]
      BY <2>4, <3>2, <3>4 DEF ProxyInv
    <3>6. /\ n \in ReqStates /\ n.pc = "refresh" /\ n.route = r.route /\ n.token = r.token
          /\ n.sets = r.sets /\ n.todo = r.todo /\ n.current = r.current
      BY <3>3, <3>4 DEF ReqStates
    <3>7. Received(n)
      BY <3>3, <3>6, ReceivedSame
    <3>8. RequestInv(n, ask'[t])
      BY <3>3, <3>6, <3>7 DEF RequestInv
    <3>9. ProxyInv'
      BY <1>1, <3>5, <3>8, RequestMove
    <3> QED BY <3>1, <3>9
  <2> QED BY <2>1, <2>2, <2>3, <2>4
<1>4. CASE ReloadKey(t)
  <2>1. PICK returned : returned = [refresh EXCEPT ![t] = NotRefreshing]
    OBVIOUS
  <2>2. CallsOnly(returned)
    BY <1>2, <2>1, CallsExcept, OutsideStates
  <2>3. WithKey(t, key, returned) \/ (Refuse(t) /\ refresh' = returned)
    BY <1>4, <2>1 DEF ReloadKey
  <2>4. CASE WithKey(t, key, returned)
    BY <1>1, <2>2, <2>4, WithKeyInv
  <2>5. CASE Refuse(t) /\ refresh' = returned
    BY <1>1, <2>2, <2>5, RequestRefused
  <2> QED BY <2>3, <2>4, <2>5
<1> QED BY <1>3, <1>4

\* The inductive invariant of the auth proxy.
Inv == UAAInv /\ CAPIInv /\ ProxyInv

LEMMA UAASame == ASSUME UAAInv, UNCHANGED uaaVars PROVE UAAInv'
  BY DEF UAAInv, UAATypeOK, RefreshInv, Applying, Progress, uaaVars

LEMMA CAPISame == ASSUME CAPIInv, UNCHANGED capiVars PROVE CAPIInv'
  BY DEF CAPIInv, CAPITypeOK, AgesInv, LapsedInv, capiVars

LEMMA NextInv == ASSUME Inv, [Next]_vars PROVE Inv'
<1>a. UAAInv /\ CAPIInv /\ ProxyInv
  BY DEF Inv
<1>b. sinceQuery \in 0..RefreshInterval /\ RefreshInterval \in Nat /\ CallsOnly(refresh)
  BY <1>a, CallsNone, UAAAssumption DEF UAAInv, UAATypeOK
<1>c. Requests = Askers /\ Requests \subseteq Refreshers /\ Background \in Refreshers
  BY ProxyAssumption
<1>d. ASSUME UNCHANGED <<uaaKeys, generation, rotations, publicKeys, sinceQuery>>, CallsOnly(refresh')
      PROVE  UAAInv'
  BY <1>a, <1>b, <1>d, UAACalls DEF CallsOnly
<1>e. ASSUME UNCHANGED capiVars, UNCHANGED req, serving' \in BOOLEAN PROVE CAPIInv' /\ ProxyInv'
  <2>1. UNCHANGED ask
    BY <1>e DEF capiVars
  <2> QED BY <1>a, <1>e, <2>1, CAPISame, RequestsStay
<1>f. serving \in BOOLEAN
  BY <1>a DEF ProxyInv
<1>1. CASE CallReadyChecker
  <2>1. CallsOnly(refresh')
    BY <1>1, <1>b, <1>c, CallsExcept, OutsideStates DEF CallReadyChecker
  <2> QED BY <1>1, <1>d, <1>e, <1>f, <2>1 DEF CallReadyChecker, Inv
<1>2. CASE Listen
  <2>1. CallsOnly(refresh')
    BY <1>2, <1>b, <1>c, CallsExcept, OutsideStates DEF Listen
  <2>2. serving' \in BOOLEAN
    BY <1>2 DEF Listen
  <2> QED BY <1>2, <1>d, <1>e, <2>1, <2>2 DEF Listen, Inv
<1>3. CASE BackgroundDone
  <2>1. CallsOnly(refresh')
    BY <1>3, <1>b, <1>c, CallsExcept, OutsideStates DEF BackgroundDone
  <2> QED BY <1>3, <1>d, <1>e, <1>f, <2>1 DEF BackgroundDone, Inv
<1>4. ASSUME NEW t \in Requests, Arrive(t) \/ Expand(t) \/ Meta(t) \/ AvailableSourceIDs(t) \/ Respond(t)
      PROVE  Inv'
  <2>1. UNCHANGED uaaVars /\ UNCHANGED capiVars
    BY <1>4 DEF Arrive, Expand, Meta, AvailableSourceIDs, Available, Respond
  <2>2. ASSUME Respond(t) PROVE ProxyInv'
    <3>1. req' = [req EXCEPT ![t] = NotServing] /\ NotServing.pc = "idle" /\ UNCHANGED <<serving, ask>>
      BY <2>2 DEF Respond, NotServing, capiVars
    <3> QED BY <1>a, <3>1, RequestMove
  <2>3. ProxyInv'
    BY <1>4, <1>a, <2>2, ArriveInv, ExpandInv, MetaInv
  <2> QED BY <1>a, <2>1, <2>3, UAASame, CAPISame DEF Inv
<1>5. ASSUME NEW t \in Requests, LoadKey(t) \/ ReloadKey(t) PROVE Inv'
  <2>1. UNCHANGED <<uaaKeys, generation, rotations, publicKeys, sinceQuery>> /\ UNCHANGED capiVars
    BY <1>5 DEF LoadKey, ReloadKey
  <2>2. ProxyInv' /\ CallsOnly(refresh')
    BY <1>5, <1>a, KeyInv
  <2> QED BY <1>a, <1>d, <2>1, <2>2, CAPISame DEF Inv
<1>6. ASSUME NEW t \in Requests, Authorize(t) \/ Authorized(t) PROVE Inv'
  <2>1. UNCHANGED uaaVars
    BY <1>6 DEF Authorize, Authorized
  <2> QED BY <1>6, <1>a, <2>1, UAASame, AuthorizeInv, AuthorizedInv DEF Inv
<1>7. CASE UAAStep /\ UNCHANGED <<capiVars, serving, req>>
  BY <1>7, <1>a, <1>e, <1>f, UAAStepInv DEF Inv
<1>8. CASE CAPIStep /\ UNCHANGED <<uaaVars, serving, req>>
  <2>1. ProxyInv'
    BY <1>8, <1>a, <1>c, <1>f, AskGoesOn, RequestsStay
  <2> QED BY <1>8, <1>a, <2>1, CAPIStepInv, UAASame DEF Inv
<1>9. CASE Tick
  <2>1. CAPITick /\ UNCHANGED <<uaaKeys, generation, rotations, publicKeys, refresh, serving, req>>
    BY <1>9 DEF Tick
  <2>2. sinceQuery' \in 0..RefreshInterval
    BY <1>9, <1>b DEF Tick
  <2>3. UAAInv'
    BY <1>a, <1>b, <2>1, <2>2, UAACalls DEF CallsOnly
  <2>4. ProxyInv'
    BY <1>a, <1>c, <1>f, <2>1, AskGoesOn, RequestsStay
  <2> QED BY <1>a, <2>1, <2>3, <2>4, CAPITickInv DEF Inv
<1>10. CASE UNCHANGED vars
  <2>1. UNCHANGED uaaVars /\ UNCHANGED <<capiVars, req, serving>>
    BY <1>10 DEF vars
  <2> QED BY <1>a, <1>e, <1>f, <2>1, UAASame DEF Inv
<1> QED BY <1>1, <1>2, <1>3, <1>4, <1>5, <1>6, <1>7, <1>8, <1>9, <1>10 DEF Next

-----------------------------------------------------------------------------
(* The queries that are forwarded. *)

\* What a matcher should read once it is replaced, and what it reads if that is
\* joined and split again.
Meant(m, sets) == UNION {sets[id] : id \in IdsOfMatcher(m)}
Spread(ids) == UNION {Parts[id] : id \in ids}
MeantBySelector(sel, sets) == UNION {sets[id] : id \in IdsOfSelector(sel)}
ReadBySelector(sel, sets) == IdsOfSelector(ReplaceInSelector(sel, sets))

\* Of some ids, splitting them all keeps those without "|", and adds parts only.
LEMMA SpreadIds ==
  ASSUME NEW ids \in SUBSET Ids
  PROVE  ids \cap Plain \subseteq Spread(ids) /\ (ids \subseteq Plain => Spread(ids) = ids)
<1>1. \A id \in ids \cap Plain : Parts[id] = {id}
  BY DEF Plain
<1>2. ids \cap Plain \subseteq Spread(ids)
  BY <1>1 DEF Spread
<1>3. ASSUME ids \subseteq Plain PROVE Spread(ids) \subseteq ids
  BY <1>1, <1>3 DEF Spread
<1>4. ids \subseteq Plain => ids \subseteq Spread(ids)
  BY <1>2
<1> QED BY <1>2, <1>3, <1>4

\* A matcher that is replaced reads what it should, split again or not.
LEMMA ReplacedMatcher ==
  ASSUME NEW m, m.value # {}, m.value \subseteq Ids, NEW sets,
         \A id \in IdsOfMatcher(m) : sets[id] # {} /\ sets[id] \subseteq Ids
  PROVE  /\ Meant(m, sets) \subseteq Ids
         /\ IdsOfMatcher(ReplaceInMatcher(m, sets)) \in {Meant(m, sets), Spread(Meant(m, sets))}
<1>1. PICK new : new = Meant(m, sets)
  OBVIOUS
<1>2. new \subseteq Ids
  BY <1>1 DEF Meant
<1>3. CASE m.type \notin {"eq", "re"}
  <2>1. ReplaceInMatcher(m, sets) = m
    BY <1>3 DEF ReplaceInMatcher
  <2>2. IdsOfMatcher(m) = {}
    BY <1>3 DEF IdsOfMatcher
  <2>3. new = {}
    BY <1>1, <2>2 DEF Meant
  <2> QED BY <1>1, <2>1, <2>2, <2>3
<1>4. CASE m.type \in {"eq", "re"}
  <2>1. ReplaceInMatcher(m, sets) = Matcher(new)
    BY <1>1, <1>4 DEF ReplaceInMatcher, Meant
  <2>2. IdsOfMatcher(m) # {}
    <3>1. CASE m.type = "re"
      <4>1. IdsOfMatcher(m) = UNION {Parts[id] : id \in m.value}
        BY <3>1 DEF IdsOfMatcher
      <4>2. \A id \in m.value : Parts[id] # {}
        BY PartsAssumption
      <4> QED BY <4>1, <4>2
    <3>2. CASE m.type = "eq"
      <4>1. IdsOfMatcher(m) = IF Cardinality(m.value) = 1 THEN m.value ELSE {m.value}
        BY <3>2 DEF IdsOfMatcher
      <4> QED BY <4>1
    <3> QED BY <1>4, <3>1, <3>2
  <2>3. new # {}
    BY <1>1, <2>2 DEF Meant
  <2>4. IsFiniteSet(new)
    BY <1>2, RouteAssumption, FS_Subset
  <2>5. Cardinality(new) \in Nat /\ Cardinality(new) # 0
    BY <2>3, <2>4, FS_CardinalityType, FS_EmptySet
  <2>6. CASE Cardinality(new) > 1
    <3>1. Matcher(new).type = "re" /\ Matcher(new).value = new
      BY <2>6 DEF Matcher
    <3>2. IdsOfMatcher(Matcher(new)) = Spread(new)
      BY <3>1 DEF IdsOfMatcher, Spread
    <3> QED BY <1>1, <1>2, <2>1, <3>2
  <2>7. CASE ~(Cardinality(new) > 1)
    <3>1. Matcher(new).type = "eq" /\ Matcher(new).value = new
      BY <2>7 DEF Matcher
    <3>2. Cardinality(new) = 1
      BY <2>5, <2>7
    <3>3. IdsOfMatcher(Matcher(new)) = new
      BY <3>1, <3>2 DEF IdsOfMatcher
    <3> QED BY <1>1, <1>2, <2>1, <3>3
  <2> QED BY <2>6, <2>7
<1> QED BY <1>3, <1>4

\* So does a selector: an id without "|" is read if it should be, and only parts of
\* others are read besides.
LEMMA ReplacedSelector ==
  ASSUME NEW sel, \A m \in sel : m.value # {} /\ m.value \subseteq Ids, NEW sets,
         \A id \in IdsOfSelector(sel) : sets[id] # {} /\ sets[id] \subseteq Ids
  PROVE  LET meant == MeantBySelector(sel, sets)
             read == ReadBySelector(sel, sets)
         IN  /\ meant \cap Plain \subseteq read
             /\ read \subseteq meant \cup Spread(meant)
             /\ meant \subseteq Plain => read = meant
<1>a. PICK meant : meant = MeantBySelector(sel, sets)
  OBVIOUS
<1>b. PICK read : read = ReadBySelector(sel, sets)
  OBVIOUS
<1> DEFINE Got(m) == IdsOfMatcher(ReplaceInMatcher(m, sets))
<1>1. ASSUME NEW m \in sel
      PROVE  /\ Meant(m, sets) \subseteq Ids
             /\ Got(m) \in {Meant(m, sets), Spread(Meant(m, sets))}
  <2>1. \A id \in IdsOfMatcher(m) : id \in IdsOfSelector(sel)
    BY DEF IdsOfSelector
  <2> QED BY <2>1, ReplacedMatcher
<1>2. \A x : x \in read <=> \E m \in sel : x \in Got(m)
  BY <1>b DEF ReadBySelector, IdsOfSelector, ReplaceInSelector
<1>3. \A x : x \in meant <=> \E m \in sel : x \in Meant(m, sets)
  BY <1>a DEF MeantBySelector, IdsOfSelector, Meant
<1> HIDE DEF Got
<1>4. ASSUME NEW m \in sel
      PROVE  /\ Meant(m, sets) \cap Plain \subseteq Got(m)
             /\ Got(m) \subseteq Meant(m, sets) \cup Spread(Meant(m, sets))
             /\ Meant(m, sets) \subseteq Plain => Got(m) = Meant(m, sets)
  BY <1>1, SpreadIds
<1>5. meant \cap Plain \subseteq read
  BY <1>2, <1>3, <1>4
<1>6. ASSUME NEW m \in sel PROVE Spread(Meant(m, sets)) \subseteq Spread(meant)
  BY <1>3 DEF Spread
<1>7. read \subseteq meant \cup Spread(meant)
  BY <1>2, <1>3, <1>4, <1>6
<1>8. ASSUME meant \subseteq Plain PROVE read = meant
  <2>1. \A m \in sel : Got(m) = Meant(m, sets)
    BY <1>3, <1>4, <1>8
  <2> QED BY <1>2, <1>3, <2>1
<1> QED BY <1>a, <1>b, <1>5, <1>7, <1>8

LEMMA ProxyRewrites == ProxyInv => QueriesRewritten
<1> SUFFICES ASSUME ProxyInv, NEW t \in Requests, req[t].pc = "served",
                    req[t].route.kind = "query", NEW sel \in req[t].route.query
             PROVE  LET sets == req[t].sets
                        asked == IdsOfSelector(sel)
                        meant == UNION {sets[id] : id \in asked}
                        read == IdsOfSelector(ReplaceInSelector(sel, sets))
                    IN  /\ \A id \in asked : sets[id] # {} /\ sets[id] \subseteq Named[id] \cup {id}
                        /\ meant \cap Plain \subseteq read
                        /\ read \subseteq meant \cup UNION {Parts[id] : id \in meant}
                        /\ ~req[t].token.admin \/ asked \subseteq Plain => read = meant
                        /\ ~req[t].token.admin => read \subseteq Sources
  BY DEF QueriesRewritten
<1>1. PICK r : r = req[t]
  OBVIOUS
<1>2. Received(r) /\ Rewritable(r) /\ r.route.kind = "query"
  BY <1>1 DEF ProxyInv, RequestInv
<1>3. /\ IdsOf(r) \subseteq Ids /\ r.sets \in [Ids -> SUBSET Ids]
      /\ \A m \in sel : m.value # {} /\ m.value \subseteq Ids
  BY <1>1, <1>2, ReceivedTypes
<1>4. \A id \in IdsOfSelector(sel) : id \in IdsOf(r)
  BY <1>1 DEF IdsOf, ExtractSourceIds
<1>5. \A id \in IdsOfSelector(sel) :
        /\ r.sets[id] # {} /\ r.sets[id] \subseteq Named[id] \cup {id}
        /\ r.sets[id] \subseteq Ids
        /\ ~r.token.admin => r.sets[id] \subseteq Sources
  BY <1>2, <1>3, <1>4 DEF Rewritable, StandsFor
<1>6. PICK meant : meant = MeantBySelector(sel, r.sets)
  OBVIOUS
<1>7. PICK read : read = ReadBySelector(sel, r.sets)
  OBVIOUS
<1>8. /\ meant \cap Plain \subseteq read
      /\ read \subseteq meant \cup Spread(meant)
      /\ meant \subseteq Plain => read = meant
  <2>1. \A m \in sel : m.value # {} /\ m.value \subseteq Ids
    BY <1>3
  <2>2. \A id \in IdsOfSelector(sel) : r.sets[id] # {} /\ r.sets[id] \subseteq Ids
    BY <1>5
  <2> QED BY <1>6, <1>7, <2>1, <2>2, ReplacedSelector
<1>9. ~r.token.admin => meant \subseteq Sources
  BY <1>5, <1>6 DEF MeantBySelector
<1>10. \A id \in IdsOfSelector(sel) : Named[id] \subseteq Sources
  BY <1>3, <1>4, CAPIAssumption DEF Sources
<1>11. Sources \subseteq Plain
  BY PartsAssumption
<1>12. IdsOfSelector(sel) \subseteq Plain => meant \subseteq Plain
  BY <1>5, <1>6, <1>10, <1>11 DEF MeantBySelector
<1>13. /\ ~r.token.admin \/ IdsOfSelector(sel) \subseteq Plain => read = meant
       /\ ~r.token.admin => read \subseteq Sources
  BY <1>8, <1>9, <1>11, <1>12
<1>14. /\ \A id \in IdsOfSelector(sel) :
            req[t].sets[id] # {} /\ req[t].sets[id] \subseteq Named[id] \cup {id}
       /\ meant = UNION {req[t].sets[id] : id \in IdsOfSelector(sel)}
       /\ read = IdsOfSelector(ReplaceInSelector(sel, req[t].sets))
  BY <1>1, <1>5, <1>6, <1>7 DEF MeantBySelector, ReadBySelector
<1>15. /\ ~req[t].token.admin \/ IdsOfSelector(sel) \subseteq Plain => read = meant
       /\ ~req[t].token.admin => read \subseteq Sources
  BY <1>1, <1>13
<1>16. read \subseteq meant \cup UNION {Parts[id] : id \in meant}
  BY <1>8 DEF Spread
<1> QED BY <1>8, <1>14, <1>15, <1>16, Zenon

LEMMA ProxyTypes == Inv => TypeOK
<1> SUFFICES ASSUME Inv PROVE TypeOK
  OBVIOUS
<1>1. UAATypeOK /\ CAPITypeOK /\ serving \in BOOLEAN
  BY DEF Inv, UAAInv, CAPIInv, ProxyInv
<1>2. \A t \in Requests : req[t].pc \in {"idle", "refused"} \/ req[t] \in ReqStates
  BY DEF Inv, ProxyInv, RequestInv, Received
<1> QED BY <1>1, <1>2 DEF TypeOK, ReqStates

-----------------------------------------------------------------------------
(* The theorems. *)

LEMMA Invariant == Spec => []Inv
<1>1. Init => Inv
  BY UAAInitially, CAPIInitially, ProxyInitially DEF Init, Inv
<1>2. Inv /\ [Next]_vars => Inv'
  BY NextInv
<1> QED BY <1>1, <1>2, PTL DEF Spec

\* Every variable of the proxy has its type: no cached key is newer than UAA's, no
\* cached grant is two expiration intervals old, and every request has the locals
\* of its handler (UAAClient, CAPIClient, Middleware).
THEOREM TypeCorrect == Spec => []TypeOK
<1>1. Inv => TypeOK
  BY ProxyTypes
<1> QED BY <1>1, Invariant, PTL

\* Any number of refreshes may overlap, throttled or not, failing half-way or not:
\* one that ends undisturbed has left exactly the keys that UAA answered with
\* (RefreshTokenKeys).
THEOREM KeysAreReplaced == Spec => []RefreshReplaces
<1>1. Inv => RefreshReplaces
  BY UAAReplaces DEF Inv
<1> QED BY <1>1, Invariant, PTL

\* Whatever the expiration interval and however calls and pruning interleave, access
\* that was withdrawn is granted for less than two intervals and the time that the
\* calls take (IsAuthorized, pruneTokens).
THEOREM GrantsAreShortLived == Spec => []GrantsExpire
<1>1. Inv => GrantsExpire
  BY CAPIExpires DEF Inv
<1> QED BY <1>1, Invariant, PTL

\* Whatever the query and whatever its names stand for, the query that is forwarded
\* reads what was authorized for each of its selectors: a user's exactly that, and an
\* administrator's besides only the parts of ids that hold "|" (authorizeSourceIds,
\* ReplaceSourceIdSets).
THEOREM QueriesAreRewritten == Spec => []QueriesRewritten
<1>1. Inv => QueriesRewritten
  BY ProxyRewrites DEF Inv
<1> QED BY <1>1, Invariant, PTL
=============================================================================
