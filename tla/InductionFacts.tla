--------------------------- MODULE InductionFacts ---------------------------
(***************************************************************************)
(* Induction on the natural numbers with the property given as a set, and    *)
(* what it shows of a loop: that its rounds have values.                     *)
(***************************************************************************)
EXTENDS Integers, FiniteSetTheorems, TLAPS

\* A set of naturals that has 0 and the successor of each of its members is all
\* of them.  It serves the definitions that model a loop (LogCache.setupRouting)
\* or a chain of calls (EgressReverseProxy.localMeta) by a recursive function.
\* The least counterexample m is found as the least of the intervals 0..m.
LEMMA SetInduction ==
  ASSUME NEW S \in SUBSET Nat, 0 \in S, \A n \in S : n + 1 \in S
  PROVE  S = Nat
<1> DEFINE T == Nat \ S
           Q == {0..k : k \in T}
           R == StrictSubsetOrdering(Nat)
           F == FiniteSubsetsOf(Nat)
<1> SUFFICES ASSUME T # {} PROVE FALSE
  OBVIOUS
<1>1. Q \subseteq F /\ Q # {}
  <2>1. \A k \in T : 0..k \subseteq Nat /\ IsFiniteSet(0..k)
    BY FS_Interval
  <2> QED BY <2>1 DEF FiniteSubsetsOf
<1>2. PICK x \in Q : \A y \in Q : <<y, x>> \notin R
  <2> HIDE DEF Q, F, R
  <2>1. IsWellFoundedOn(R, F)
    BY FS_StrictSubsetOrderingWellFounded DEF R, F
  <2> QED BY <1>1, <2>1, WFMin
<1>3. PICK m \in T : x = 0..m
  BY <1>2
<1>4. \A k \in T : ~(k < m)
  <2> SUFFICES ASSUME NEW k \in T, k < m PROVE FALSE
    OBVIOUS
  <2>1. 0..k \subseteq x /\ 0..k # x
    BY <1>3
  <2>2. <<0..k, x>> \in R
    BY <2>1, <1>3 DEF StrictSubsetOrdering
  <2> QED BY <2>2, <1>2
<1>5. m - 1 \in Nat /\ m - 1 \in S
  BY <1>4
<1> QED BY <1>5

\* A loop of at most N rounds (sort.Search, the builder of a PromQL series) has a
\* value after each of them.
InRounds(f, N, base, step) == f[0] = base /\ \A k \in 1..N : f[k] = step[<<k, f[k - 1]>>]

LEMMA BoundedRecursion ==
  ASSUME NEW N \in Nat, NEW V, NEW base \in V, NEW step \in [(1..N) \X V -> V]
  PROVE  \E f \in [0..N -> V] : InRounds(f, N, base, step)
<1> DEFINE Rounds(f, n) == f \in [0..n -> V] /\ InRounds(f, n, base, step)
           S == {n \in Nat : n > N \/ \E f : Rounds(f, n)}
<1>1. 0 \in S
  <2>1. Rounds([k \in 0..0 |-> base], 0)
    BY DEF InRounds
  <2> QED BY <2>1
<1>2. ASSUME NEW n \in S PROVE n + 1 \in S
  <2>1. n \in Nat /\ n + 1 \in Nat
    OBVIOUS
  <2>2. CASE n + 1 > N
    BY <2>1, <2>2
  <2>3. CASE n + 1 <= N
    <3>1. PICK f : Rounds(f, n)
      BY <2>1, <2>3
    <3>2. f[n] \in V /\ step[<<n + 1, f[n]>>] \in V
      <4>1. n \in 0..n /\ n + 1 \in 1..N
        BY <2>1, <2>3
      <4>2. f[n] \in V
        BY <4>1, <3>1
      <4>3. <<n + 1, f[n]>> \in (1..N) \X V
        BY <4>1, <4>2
      <4> QED BY <4>2, <4>3
    <3> DEFINE g == [k \in 0..(n + 1) |-> IF k = n + 1 THEN step[<<n + 1, f[n]>>] ELSE f[k]]
    <3>3. g \in [0..(n + 1) -> V]
      <4> SUFFICES ASSUME NEW k \in 0..(n + 1) PROVE g[k] \in V
        OBVIOUS
      <4>1. CASE k = n + 1
        BY <4>1, <3>2
      <4>2. CASE k # n + 1
        BY <4>2, <2>1, <3>1
      <4> QED BY <4>1, <4>2
    <3>4. g[0] = base
      BY <2>1, <3>1 DEF InRounds
    <3>5. ASSUME NEW k \in 1..(n + 1) PROVE g[k] = step[<<k, g[k - 1]>>]
      <4>1. g[k - 1] = f[k - 1]
        BY <2>1
      <4>2. CASE k = n + 1
        <5>1. g[n + 1] = step[<<n + 1, f[n]>>] /\ k - 1 = n
          BY <2>1, <4>2
        <5> HIDE DEF g
        <5> QED BY <4>1, <4>2, <5>1
      <4>3. CASE k # n + 1
        <5>1. k \in 1..n /\ k \in 0..(n + 1)
          BY <4>3, <2>1
        <5>2. g[k] = f[k]
          BY <5>1, <4>3
        <5> QED BY <5>1, <5>2, <4>1, <3>1 DEF InRounds
      <4> QED BY <4>2, <4>3
    <3>6. Rounds(g, n + 1)
      <4> HIDE DEF g
      <4> QED BY <3>3, <3>4, <3>5 DEF InRounds
    <3> QED BY <3>6, <2>1
  <2> QED BY <2>1, <2>2, <2>3
<1>3. N \in S
  <2> HIDE DEF S
  <2>1. S \subseteq Nat
    BY DEF S
  <2> QED BY <2>1, <1>1, <1>2, SetInduction
<1>4. PICK f : Rounds(f, N)
  BY <1>3
<1> QED BY <1>4
=============================================================================
