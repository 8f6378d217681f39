------------------------- MODULE StorageTreeProofs -------------------------
(***************************************************************************)
(* Proofs about StorageTree.                                                 *)
(***************************************************************************)
EXTENDS StorageTree, InductionFacts, FunctionTheorems

-----------------------------------------------------------------------------
(* Trees. *)

NextTrees(below, h) ==
  {Nil} \cup {n \in [key : Int, env : Envelopes, left : below, right : below, height : 1..h] :
               n.height = 1 + Higher(n.left.height, n.right.height)}

\* The recursive function TreesTo is what its definition says.
LEMMA TreesToDef ==
  TreesTo = [h \in Nat |-> IF h = 0 THEN {Nil} ELSE NextTrees(TreesTo[h - 1], h)]
<1> DEFINE Upto(g, n) == g = [h \in 0..n |-> IF h = 0 THEN {Nil} ELSE NextTrees(g[h - 1], h)]
           F == [n \in Nat |-> (CHOOSE g : Upto(g, n))[n]]
           S == {n \in Nat : \E g : Upto(g, n)}
<1>0. ASSUME NEW g, NEW n \in Nat, Upto(g, n), NEW h \in 0..n
      PROVE  g[h] = IF h = 0 THEN {Nil} ELSE NextTrees(g[h - 1], h)
  <2> DEFINE e(x) == IF x = 0 THEN {Nil} ELSE NextTrees(g[x - 1], x)
  <2>1. g = [x \in 0..n |-> e(x)]
    BY <1>0
  <2> HIDE DEF e
  <2>2. g[h] = e(h)
    BY <2>1
  <2> QED BY <2>2 DEF e
<1>1. \A n \in Nat : \E g : Upto(g, n)
  <2>1. 0 \in S
    <3>1. Upto([h \in 0..0 |-> {Nil}], 0)
      BY DEF NextTrees
    <3> QED BY <3>1
  <2>2. ASSUME NEW n \in S PROVE n + 1 \in S
    <3>1. PICK g : Upto(g, n)
      OBVIOUS
    <3> DEFINE k == [h \in 0..(n + 1) |-> IF h = n + 1 THEN NextTrees(g[n], n + 1) ELSE g[h]]
    <3>2. ASSUME NEW h \in 0..(n + 1)
          PROVE  k[h] = IF h = 0 THEN {Nil} ELSE NextTrees(k[h - 1], h)
      <4>1. CASE h = n + 1
        <5>1. k[h] = NextTrees(g[n], n + 1) /\ k[n] = g[n] /\ h # 0 /\ h - 1 = n
          BY <4>1
        <5> HIDE DEF k
        <5> QED BY <5>1, <4>1
      <4>2. CASE h # n + 1 /\ h # 0
        <5>1. h \in 0..n /\ h - 1 \in 0..(n + 1) /\ h - 1 # n + 1
          BY <4>2
        <5>2. k[h] = g[h] /\ k[h - 1] = g[h - 1]
          BY <5>1, <4>2
        <5> HIDE DEF k
        <5>3. g[h] = NextTrees(g[h - 1], h)
          BY <3>1, <1>0, <5>1, <4>2
        <5> QED BY <5>2, <5>3, <4>2
      <4>3. CASE h # n + 1 /\ h = 0
        <5>1. 0 \in 0..n /\ k[h] = g[h]
          BY <4>3
        <5> HIDE DEF k
        <5>2. g[0] = {Nil}
          BY <5>1, <3>1, <1>0
        <5> QED BY <5>1, <5>2, <4>3
      <4> QED BY <4>1, <4>2, <4>3
    <3>3. k = [h \in 0..(n + 1) |-> k[h]]
      OBVIOUS
    <3>4. Upto(k, n + 1)
      <4> HIDE DEF k
      <4> QED BY <3>2, <3>3
    <3> HIDE DEF k, Upto
    <3> QED BY <3>4
  <2> HIDE DEF S
  <2>3. S \subseteq Nat
    BY DEF S
  <2>4. S = Nat
    BY <2>1, <2>2, <2>3, SetInduction
  <2> QED BY <2>4 DEF S
<1>2. ASSUME NEW n \in Nat, NEW m \in Nat, NEW g, NEW k, Upto(g, n), Upto(k, m), n <= m
      PROVE  g[n] = k[n]
  <2> DEFINE T == {h \in Nat : h <= n => g[h] = k[h]}
  <2>1. 0 \in T
    <3>1. 0 \in 0..n /\ 0 \in 0..m
      OBVIOUS
    <3>2. g[0] = {Nil} /\ k[0] = {Nil}
      BY <1>2, <1>0, <3>1
    <3> QED BY <3>2
  <2>2. ASSUME NEW h \in T PROVE h + 1 \in T
    <3> SUFFICES ASSUME h + 1 <= n PROVE g[h + 1] = k[h + 1]
      OBVIOUS
    <3>1. h + 1 \in 0..n /\ h + 1 \in 0..m /\ h + 1 # 0 /\ (h + 1) - 1 = h /\ h <= n
      BY <1>2
    <3>2. g[h] = k[h]
      BY <3>1
    <3>3. g[h + 1] = NextTrees(g[h], h + 1)
      BY <1>2, <1>0, <3>1
    <3>4. k[h + 1] = NextTrees(k[h], h + 1)
      BY <1>2, <1>0, <3>1
    <3> QED BY <3>2, <3>3, <3>4
  <2> HIDE DEF T
  <2>3. T \subseteq Nat
    BY DEF T
  <2>4. n \in T
    BY <2>1, <2>2, <2>3, SetInduction
  <2> QED BY <2>4 DEF T
<1>3. ASSUME NEW n \in Nat PROVE Upto(CHOOSE g : Upto(g, n), n)
  <2> HIDE DEF Upto
  <2> QED BY <1>1
<1>4. ASSUME NEW h \in Nat
      PROVE  F[h] = IF h = 0 THEN {Nil} ELSE NextTrees(F[h - 1], h)
  <2>1. PICK g : g = CHOOSE x : Upto(x, h)
    OBVIOUS
  <2>2. Upto(g, h)
    <3> HIDE DEF Upto
    <3> QED BY <2>1, <1>3
  <2>3. F[h] = g[h]
    BY <2>1
  <2>4. h \in 0..h
    OBVIOUS
  <2>5. CASE h = 0
    BY <2>2, <2>3, <2>4, <2>5, <1>0
  <2>6. CASE h # 0
    <3>1. h - 1 \in Nat /\ h - 1 <= h
      BY <2>6
    <3>2. PICK k : k = CHOOSE x : Upto(x, h - 1)
      OBVIOUS
    <3>3. Upto(k, h - 1)
      <4> HIDE DEF Upto
      <4> QED BY <3>1, <3>2, <1>3
    <3>4. F[h - 1] = k[h - 1]
      BY <3>1, <3>2
    <3>5. k[h - 1] = g[h - 1]
      <4> HIDE DEF Upto
      <4> QED BY <3>1, <3>3, <2>2, <1>2
    <3>6. g[h] = NextTrees(g[h - 1], h)
      BY <2>2, <2>4, <2>6, <1>0
    <3> HIDE DEF F, Upto
    <3> QED BY <3>4, <3>5, <3>6, <2>3, <2>6
  <2> QED BY <2>5, <2>6
<1>5. F = [h \in Nat |-> IF h = 0 THEN {Nil} ELSE NextTrees(F[h - 1], h)]
  <2>1. F = [h \in Nat |-> F[h]]
    OBVIOUS
  <2> HIDE DEF F
  <2> QED BY <2>1, <1>4
<1> QED
  <2> HIDE DEF F
  <2> QED BY <1>5 DEF TreesTo, NextTrees

LEMMA TreesToStep ==
  /\ TreesTo[0] = {Nil}
  /\ \A h \in Nat : TreesTo[h + 1] = NextTrees(TreesTo[h], h + 1)
<1> DEFINE e(h) == IF h = 0 THEN {Nil} ELSE NextTrees(TreesTo[h - 1], h)
<1>1. TreesTo = [h \in Nat |-> e(h)]
  BY TreesToDef
<1> HIDE DEF e
<1>2. \A h \in Nat : TreesTo[h] = e(h)
  BY <1>1
<1>3. \A h \in Nat : h + 1 \in Nat /\ h + 1 # 0 /\ (h + 1) - 1 = h
  OBVIOUS
<1> QED BY <1>2, <1>3 DEF e

\* A tree that is not empty is made of two lower ones.
LEMMA TreeShape ==
  ASSUME NEW h \in Nat, NEW n \in TreesTo[h]
  PROVE  /\ n.height \in 0..h
         /\ IsNil(n) => n = Nil
         /\ ~IsNil(n) =>
              /\ h - 1 \in Nat
              /\ n \in [key : Int, env : Envelopes, left : TreesTo[h - 1], right : TreesTo[h - 1],
                        height : 1..h]
              /\ n.height = 1 + Higher(n.left.height, n.right.height)
<1>1. CASE h = 0
  BY <1>1, TreesToStep DEF Nil, IsNil
<1>2. CASE h # 0
  <2>1. h - 1 \in Nat /\ (h - 1) + 1 = h
    BY <1>2
  <2>2. n \in NextTrees(TreesTo[h - 1], h)
    BY <2>1, TreesToStep
  <2>3. CASE n = Nil
    BY <2>3 DEF Nil, IsNil
  <2>4. CASE n # Nil
    <3>1. /\ n \in [key : Int, env : Envelopes, left : TreesTo[h - 1], right : TreesTo[h - 1],
                    height : 1..h]
          /\ n.height = 1 + Higher(n.left.height, n.right.height)
      BY <2>2, <2>4 DEF NextTrees
    <3>2. n.height \in 1..h
      BY <3>1
    <3>3. ~IsNil(n) /\ n.height \in 0..h
      BY <3>2 DEF IsNil
    <3> QED BY <3>1, <3>3, <2>1
  <2> QED BY <2>3, <2>4
<1> QED BY <1>1, <1>2

LEMMA TreeBuild ==
  ASSUME NEW h \in Nat, NEW key \in Int, NEW env \in Envelopes,
         NEW left \in TreesTo[h], NEW right \in TreesTo[h]
  PROVE  MkNode(key, env, left, right) \in TreesTo[h + 1]
<1>1. left.height \in 0..h /\ right.height \in 0..h
  BY TreeShape
<1>2. 1 + Higher(left.height, right.height) \in 1..(h + 1)
  BY <1>1 DEF Higher
<1>3. MkNode(key, env, left, right) \in NextTrees(TreesTo[h], h + 1)
  BY <1>2 DEF MkNode, NextTrees
<1> QED BY <1>3, TreesToStep

LEMMA NilInTrees == \A h \in Nat : Nil \in TreesTo[h]
<1> SUFFICES ASSUME NEW h \in Nat PROVE Nil \in TreesTo[h]
  OBVIOUS
<1>1. CASE h = 0
  BY <1>1, TreesToStep
<1>2. CASE h # 0
  <2>1. h - 1 \in Nat /\ (h - 1) + 1 = h
    BY <1>2
  <2>2. TreesTo[h] = NextTrees(TreesTo[h - 1], h)
    BY <2>1, TreesToStep
  <2> QED BY <2>2 DEF NextTrees
<1> QED BY <1>1, <1>2

\* A tree that is not empty is the node made of its parts.
LEMMA TreeIsNode ==
  ASSUME NEW h \in Nat, NEW n \in TreesTo[h], ~IsNil(n)
  PROVE  n = MkNode(n.key, n.env, n.left, n.right)
<1>1. /\ n \in [key : Int, env : Envelopes, left : TreesTo[h - 1], right : TreesTo[h - 1],
                height : 1..h]
      /\ n.height = 1 + Higher(n.left.height, n.right.height)
  BY TreeShape
<1> QED BY <1>1 DEF MkNode

\* A tree belongs to the trees of its own height and to all higher bounds.
LEMMA TreeAtHeight ==
  ASSUME NEW h \in Nat, NEW n \in TreesTo[h], NEW k \in Nat, n.height <= k
  PROVE  n \in TreesTo[k]
<1> DEFINE S == {i \in Nat : \A m \in TreesTo[i] : \A j \in Nat : m.height <= j => m \in TreesTo[j]}
<1>1. 0 \in S
  BY TreesToStep, NilInTrees
<1>2. ASSUME NEW i \in S PROVE i + 1 \in S
  <2> SUFFICES ASSUME NEW m \in TreesTo[i + 1], NEW j \in Nat, m.height <= j
               PROVE  m \in TreesTo[j]
    OBVIOUS
  <2>1. CASE IsNil(m)
    <3>1. m = Nil
      BY <2>1, TreeShape
    <3> QED BY <3>1, NilInTrees
  <2>2. CASE ~IsNil(m)
    <3>1. /\ m.key \in Int /\ m.env \in Envelopes
          /\ m.left \in TreesTo[i] /\ m.right \in TreesTo[i] /\ m.height \in 1..(i + 1)
          /\ m.height = 1 + Higher(m.left.height, m.right.height)
          /\ m = MkNode(m.key, m.env, m.left, m.right)
      <4>1. (i + 1) - 1 = i /\ i + 1 \in Nat
        OBVIOUS
      <4> QED BY <4>1, <2>2, TreeShape, TreeIsNode
    <3>2. m.left.height \in Nat /\ m.right.height \in Nat
      BY <3>1, TreeShape
    <3>3. j - 1 \in Nat /\ m.left.height <= j - 1 /\ m.right.height <= j - 1
      BY <3>1, <3>2 DEF Higher
    <3>4. m.left \in TreesTo[j - 1] /\ m.right \in TreesTo[j - 1]
      BY <3>1, <3>3
    <3>5. m \in TreesTo[(j - 1) + 1]
      BY <3>1, <3>3, <3>4, TreeBuild
    <3> QED BY <3>5, <3>3
  <2> QED BY <2>1, <2>2
<1> HIDE DEF S
<1>3. S \subseteq Nat
  BY DEF S
<1>4. h \in S
  BY <1>1, <1>2, <1>3, SetInduction
<1> QED BY <1>4 DEF S

AllTrees == UNION {TreesTo[h] : h \in Nat}

\* What the proofs use of a tree of any height.
LEMMA TreeFacts ==
  ASSUME NEW n \in AllTrees
  PROVE  /\ n.height \in Nat
         /\ IsNil(n) => n = Nil
         /\ ~IsNil(n) =>
              /\ n.key \in Int /\ n.env \in Envelopes
              /\ n.left \in AllTrees /\ n.right \in AllTrees
              /\ n.height = 1 + Higher(n.left.height, n.right.height)
              /\ n = MkNode(n.key, n.env, n.left, n.right)
<1>1. PICK h \in Nat : n \in TreesTo[h]
  BY DEF AllTrees
<1>2. n.height \in Nat /\ (IsNil(n) => n = Nil)
  BY <1>1, TreeShape
<1>3. ASSUME ~IsNil(n)
      PROVE  /\ n.key \in Int /\ n.env \in Envelopes
             /\ n.left \in AllTrees /\ n.right \in AllTrees
             /\ n.height = 1 + Higher(n.left.height, n.right.height)
             /\ n = MkNode(n.key, n.env, n.left, n.right)
  <2>1. /\ h - 1 \in Nat /\ n.key \in Int /\ n.env \in Envelopes
        /\ n.left \in TreesTo[h - 1] /\ n.right \in TreesTo[h - 1]
        /\ n.height = 1 + Higher(n.left.height, n.right.height)
    BY <1>1, <1>3, TreeShape
  <2> QED BY <2>1, <1>1, <1>3, TreeIsNode DEF AllTrees
<1> QED BY <1>2, <1>3

LEMMA NilFacts == Nil \in AllTrees /\ Nil \in Trees /\ IsNil(Nil) /\ Nil.height = 0
<1>1. 0 \in Nat /\ MaxPuts \in Nat
  BY TreeAssumption
<1>2. Nil \in TreesTo[0] /\ Nil \in TreesTo[MaxPuts]
  BY <1>1, NilInTrees
<1> QED BY <1>1, <1>2 DEF AllTrees, Trees, IsNil, Nil

LEMMA NodeFacts ==
  ASSUME NEW key \in Int, NEW env \in Envelopes, NEW left \in AllTrees, NEW right \in AllTrees
  PROVE  /\ MkNode(key, env, left, right) \in AllTrees
         /\ ~IsNil(MkNode(key, env, left, right))
         /\ MkNode(key, env, left, right).height = 1 + Higher(left.height, right.height)
         /\ MkNode(key, env, left, right).key = key
         /\ MkNode(key, env, left, right).env = env
         /\ MkNode(key, env, left, right).left = left
         /\ MkNode(key, env, left, right).right = right
<1>1. PICK h \in Nat : left \in TreesTo[h]
  BY DEF AllTrees
<1>2. PICK k \in Nat : right \in TreesTo[k]
  BY DEF AllTrees
<1>3. left.height \in Nat /\ right.height \in Nat
  BY TreeFacts
<1>4. PICK j \in Nat : left.height <= j /\ right.height <= j
  <2>1. CASE left.height <= right.height
    BY <2>1, <1>3
  <2>2. CASE right.height <= left.height
    BY <2>2, <1>3
  <2> QED BY <2>1, <2>2, <1>3
<1>5. left \in TreesTo[j] /\ right \in TreesTo[j]
  BY <1>1, <1>2, <1>4, TreeAtHeight
<1>6. MkNode(key, env, left, right) \in TreesTo[j + 1] /\ j + 1 \in Nat
  BY <1>5, TreeBuild
<1>7. MkNode(key, env, left, right) \in AllTrees
  BY <1>6 DEF AllTrees
<1> QED BY <1>7, <1>3 DEF MkNode, IsNil, Higher

\* Trees are the trees whose height the bound admits, with all that is in them.
LEMMA TreesBounded ==
  /\ Trees \subseteq AllTrees
  /\ \A n \in AllTrees : n \in Trees <=> n.height <= MaxPuts
<1>0. MaxPuts \in Nat
  BY TreeAssumption
<1>1. Trees \subseteq AllTrees
  BY <1>0 DEF Trees, AllTrees
<1>2. ASSUME NEW n \in AllTrees, n.height <= MaxPuts PROVE n \in Trees
  <2>1. PICK h \in Nat : n \in TreesTo[h]
    BY DEF AllTrees
  <2> QED BY <2>1, <1>0, <1>2, TreeAtHeight DEF Trees
<1>3. ASSUME NEW n \in Trees PROVE n.height <= MaxPuts
  BY <1>0, TreeShape DEF Trees
<1> QED BY <1>1, <1>2, <1>3

LEMMA ChildrenInTrees ==
  ASSUME NEW n \in Trees, ~IsNil(n)
  PROVE  n.left \in Trees /\ n.right \in Trees
<1>1. MaxPuts \in Nat /\ n \in AllTrees /\ n.height <= MaxPuts
  BY TreeAssumption, TreesBounded
<1>2. /\ n.left \in AllTrees /\ n.right \in AllTrees
      /\ n.height = 1 + Higher(n.left.height, n.right.height)
  BY <1>1, TreeFacts
<1>3. n.left.height \in Nat /\ n.right.height \in Nat
  BY <1>2, TreeFacts
<1>4. n.left.height <= MaxPuts /\ n.right.height <= MaxPuts
  BY <1>1, <1>2, <1>3 DEF Higher
<1> QED BY <1>2, <1>4, TreesBounded

\* Induction over the structure of trees, with the property given as a set.
LEMMA TreeInduction ==
  ASSUME NEW S, Nil \in S,
         \A n \in Trees : ~IsNil(n) /\ n.left \in S /\ n.right \in S => n \in S
  PROVE  Trees \subseteq S
<1> DEFINE H == {h \in Nat : \A n \in Trees : n.height <= h => n \in S}
<1>1. 0 \in H
  <2> SUFFICES ASSUME NEW n \in Trees, n.height <= 0 PROVE n \in S
    OBVIOUS
  <2>1. n.height \in Nat /\ (IsNil(n) => n = Nil)
    BY TreesBounded, TreeFacts
  <2> QED BY <2>1 DEF IsNil
<1>2. ASSUME NEW h \in H PROVE h + 1 \in H
  <2> SUFFICES ASSUME NEW n \in Trees, n.height <= h + 1 PROVE n \in S
    OBVIOUS
  <2>1. CASE IsNil(n)
    BY <2>1, TreesBounded, TreeFacts
  <2>2. CASE ~IsNil(n)
    <3>1. /\ n.left \in Trees /\ n.right \in Trees /\ n.height \in Nat
          /\ n.height = 1 + Higher(n.left.height, n.right.height)
      BY <2>2, ChildrenInTrees, TreesBounded, TreeFacts
    <3>2. n.left.height \in Nat /\ n.right.height \in Nat
      BY <3>1, TreesBounded, TreeFacts
    <3>3. n.left.height <= h /\ n.right.height <= h
      BY <3>1, <3>2 DEF Higher
    <3> QED BY <3>1, <3>3, <2>2
  <2> QED BY <2>1, <2>2
<1> HIDE DEF H
<1>3. H \subseteq Nat
  BY DEF H
<1>4. MaxPuts \in H
  BY <1>1, <1>2, <1>3, SetInduction, TreeAssumption
<1> QED BY <1>4, TreesBounded DEF H

\* Recursion over the structure of trees: a function that is given for the empty
\* tree, and for any other by the results for its two children.
Recurses(f, base, step) ==
  \A n \in Trees : f[n] = IF IsNil(n) THEN base ELSE step[<<n, f[n.left], f[n.right]>>]

LEMMA TreeRecursion ==
  ASSUME NEW V, NEW base \in V, NEW step,
         \A n \in Trees : ~IsNil(n) => \A a, b \in V : step[<<n, a, b>>] \in V
  PROVE  \E f \in [Trees -> V] : Recurses(f, base, step)
<1> DEFINE Low(h) == {n \in Trees : n.height <= h}
           Eq(f, n) == f[n] = IF IsNil(n) THEN base ELSE step[<<n, f[n.left], f[n.right]>>]
           S == {h \in Nat : \E f \in [Low(h) -> V] : \A n \in Low(h) : Eq(f, n)}
<1>0. ASSUME NEW h \in Nat, NEW n \in Low(h + 1), ~IsNil(n)
      PROVE  n.left \in Low(h) /\ n.right \in Low(h)
  <2>1. /\ n.left \in Trees /\ n.right \in Trees /\ n.height \in Nat
        /\ n.height = 1 + Higher(n.left.height, n.right.height)
    BY <1>0, ChildrenInTrees, TreesBounded, TreeFacts
  <2>2. n.left.height \in Nat /\ n.right.height \in Nat
    BY <2>1, TreesBounded, TreeFacts
  <2>3. n.left.height <= h /\ n.right.height <= h
    BY <2>1, <2>2 DEF Higher
  <2> QED BY <2>1, <2>3
<1>1. 0 \in S
  <2>1. ASSUME NEW n \in Low(0) PROVE IsNil(n)
    <3>1. n.height \in Nat /\ n.height <= 0
      BY TreesBounded, TreeFacts
    <3> QED BY <3>1 DEF IsNil
  <2>2. PICK f : f = [n \in Low(0) |-> base]
    OBVIOUS
  <2>3. f \in [Low(0) -> V] /\ \A n \in Low(0) : f[n] = base
    <3> HIDE DEF Low
    <3> QED BY <2>2
  <2> HIDE DEF Low
  <2>4. \A n \in Low(0) : Eq(f, n)
    BY <2>1, <2>3
  <2> QED BY <2>3, <2>4
<1>2. ASSUME NEW h \in S PROVE h + 1 \in S
  <2>1. PICK f \in [Low(h) -> V] : \A n \in Low(h) : Eq(f, n)
    OBVIOUS
  <2> DEFINE g == [n \in Low(h + 1) |->
                     IF IsNil(n) THEN base ELSE step[<<n, f[n.left], f[n.right]>>]]
  <2>2. ASSUME NEW n \in Low(h + 1)
        PROVE  g[n] = IF IsNil(n) THEN base ELSE step[<<n, f[n.left], f[n.right]>>]
    <3> HIDE DEF Low
    <3> QED OBVIOUS
  <2>3. Low(h) \subseteq Low(h + 1)
    <3> SUFFICES ASSUME NEW n \in Low(h) PROVE n \in Low(h + 1)
      OBVIOUS
    <3>1. n.height \in Nat /\ n.height <= h
      BY TreesBounded, TreeFacts
    <3> QED BY <3>1
  <2>4. ASSUME NEW n \in Low(h) PROVE g[n] = f[n]
    <3> HIDE DEF Low, g
    <3> QED BY <2>1, <2>2, <2>3
  <2>5. ASSUME NEW n \in Low(h + 1) PROVE g[n] \in V
    <3>1. CASE IsNil(n)
      BY <2>2, <3>1
    <3>2. CASE ~IsNil(n)
      <4>1. f[n.left] \in V /\ f[n.right] \in V
        <5> HIDE DEF Low
        <5> QED BY <1>0, <3>2, <2>1
      <4>2. n \in Trees
        OBVIOUS
      <4>3. step[<<n, f[n.left], f[n.right]>>] \in V
        <5> HIDE DEF g, Low
        <5> QED BY <4>1, <4>2, <3>2
      <4> HIDE DEF g, Low
      <4> QED BY <2>2, <3>2, <4>3
    <3> QED BY <3>1, <3>2
  <2>6. ASSUME NEW n \in Low(h + 1) PROVE Eq(g, n)
    <3>1. CASE IsNil(n)
      BY <2>2, <3>1
    <3>2. CASE ~IsNil(n)
      <4>1. g[n.left] = f[n.left] /\ g[n.right] = f[n.right]
        <5> HIDE DEF g, Low
        <5> QED BY <1>0, <3>2, <2>4
      <4> HIDE DEF g, Low
      <4> QED BY <2>2, <3>2, <4>1
    <3> QED BY <3>1, <3>2
  <2>7. g \in [Low(h + 1) -> V]
    <3>1. g = [n \in Low(h + 1) |-> g[n]]
      BY DEF Low
    <3> HIDE DEF g, Low
    <3> QED BY <2>5, <3>1
  <2> HIDE DEF g, Low, Eq
  <2> QED BY <2>6, <2>7
<1>3. MaxPuts \in S
  <2> HIDE DEF S
  <2>1. S \subseteq Nat
    BY DEF S
  <2> QED BY <2>1, <1>1, <1>2, SetInduction, TreeAssumption
<1>4. Low(MaxPuts) = Trees
  BY TreesBounded
<1> HIDE DEF Low
<1> QED BY <1>3, <1>4 DEF Recurses

-----------------------------------------------------------------------------
(* The subtrees of a tree. *)

LEMMA SubtreesDef ==
  /\ Subtrees \in [Trees -> SUBSET Trees]
  /\ \A n \in Trees :
       Subtrees[n] = IF IsNil(n) THEN {} ELSE {n} \cup Subtrees[n.left] \cup Subtrees[n.right]
<1> DEFINE V == SUBSET Trees
           step == [x \in Trees \X V \X V |-> {x[1]} \cup x[2] \cup x[3]]
<1>1. \A n \in Trees : ~IsNil(n) => \A a, b \in V : step[<<n, a, b>>] \in V
  OBVIOUS
<1>2. {} \in V
  OBVIOUS
<1>3. PICK f \in [Trees -> V] :
        \A n \in Trees : f[n] = IF IsNil(n) THEN {} ELSE step[<<n, f[n.left], f[n.right]>>]
  <2>1. PICK base : base = {}
    OBVIOUS
  <2> HIDE DEF step, V
  <2>2. base \in V
    BY <2>1, <1>2
  <2>3. \E f \in [Trees -> V] : Recurses(f, base, step)
    BY <1>1, <2>2, TreeRecursion
  <2> QED BY <2>1, <2>3 DEF Recurses
<1>4. ASSUME NEW n \in Trees
      PROVE  f[n] = IF IsNil(n) THEN {} ELSE {n} \cup f[n.left] \cup f[n.right]
  <2>1. CASE IsNil(n)
    BY <2>1, <1>3
  <2>2. CASE ~IsNil(n)
    <3>1. f[n.left] \in V /\ f[n.right] \in V
      BY <2>2, ChildrenInTrees
    <3>2. step[<<n, f[n.left], f[n.right]>>] = {n} \cup f[n.left] \cup f[n.right]
      BY <3>1
    <3> QED BY <2>2, <3>2, <1>3
  <2> QED BY <2>1, <2>2
<1>5. f = [n \in Trees |-> IF IsNil(n) THEN {} ELSE {n} \cup f[n.left] \cup f[n.right]]
  BY <1>4
<1>6. Subtrees = [n \in Trees |->
                    IF IsNil(n) THEN {} ELSE {n} \cup Subtrees[n.left] \cup Subtrees[n.right]]
  BY <1>5 DEF Subtrees
<1> DEFINE e(n) == IF IsNil(n) THEN {} ELSE {n} \cup Subtrees[n.left] \cup Subtrees[n.right]
<1>7. \A n \in Trees : Subtrees[n] = e(n)
  <2>1. Subtrees = [n \in Trees |-> e(n)]
    BY <1>6
  <2> HIDE DEF e
  <2> QED BY <2>1
<1> DEFINE T == {n \in Trees : Subtrees[n] \in V}
<1>8. Trees \subseteq T
  <2>1. Nil \in T
    BY <1>7, NilFacts
  <2>2. ASSUME NEW n \in Trees, ~IsNil(n), n.left \in T, n.right \in T PROVE n \in T
    <3>1. Subtrees[n] = {n} \cup Subtrees[n.left] \cup Subtrees[n.right]
      BY <1>7, <2>2
    <3> QED BY <3>1, <2>2
  <2> HIDE DEF T
  <2> QED BY <2>1, <2>2, TreeInduction
<1>9. Subtrees \in [Trees -> SUBSET Trees]
  <2>1. Subtrees = [n \in Trees |-> Subtrees[n]]
    BY <1>6
  <2> QED BY <2>1, <1>8
<1> QED BY <1>7, <1>9

\* The node that a tree has at its top.
NodeAt(n) == [key |-> n.key, env |-> n.env]

LEMMA KeysOfNodes == ASSUME NEW n PROVE TreeKeys(n) = {m.key : m \in NodesOf(n)}
<1>1. ASSUME NEW m \in Subtrees[n] PROVE \E o \in NodesOf(n) : o.key = m.key
  <2>1. [key |-> m.key, env |-> m.env] \in NodesOf(n)
    BY DEF NodesOf
  <2> QED BY <2>1
<1>2. ASSUME NEW o \in NodesOf(n) PROVE \E m \in Subtrees[n] : o.key = m.key
  BY DEF NodesOf
<1> QED BY <1>1, <1>2 DEF TreeKeys

LEMMA NilContents ==
  NodesOf(Nil) = {} /\ TreeKeys(Nil) = {} /\ Balanced(Nil) /\ Ordered(Nil)
<1>1. Subtrees[Nil] = {}
  BY NilFacts, SubtreesDef
<1> QED BY <1>1 DEF NodesOf, TreeKeys, Balanced, Ordered

\* What a tree holds, and whether it is balanced and ordered, in terms of its
\* children.
LEMMA Contents ==
  ASSUME NEW n \in Trees, ~IsNil(n)
  PROVE  /\ NodesOf(n) = NodesOf(n.left) \cup {NodeAt(n)} \cup NodesOf(n.right)
         /\ TreeKeys(n) = TreeKeys(n.left) \cup {n.key} \cup TreeKeys(n.right)
         /\ Balanced(n) <=> /\ n.left.height - n.right.height \in -1..1
                            /\ Balanced(n.left) /\ Balanced(n.right)
         /\ Ordered(n) <=> /\ \A k \in TreeKeys(n.left) : k < n.key
                           /\ \A k \in TreeKeys(n.right) : n.key < k
                           /\ Ordered(n.left) /\ Ordered(n.right)
<1>1. Subtrees[n] = {n} \cup Subtrees[n.left] \cup Subtrees[n.right]
  BY SubtreesDef
<1>2. NodesOf(n) = NodesOf(n.left) \cup {NodeAt(n)} \cup NodesOf(n.right)
  BY <1>1 DEF NodesOf, NodeAt
<1>3. TreeKeys(n) = TreeKeys(n.left) \cup {n.key} \cup TreeKeys(n.right)
  BY <1>1 DEF TreeKeys
<1>4. Balanced(n) <=> /\ n.left.height - n.right.height \in -1..1
                      /\ Balanced(n.left) /\ Balanced(n.right)
  BY <1>1 DEF Balanced
<1>5. Ordered(n) <=> /\ \A k \in TreeKeys(n.left) : k < n.key
                     /\ \A k \in TreeKeys(n.right) : n.key < k
                     /\ Ordered(n.left) /\ Ordered(n.right)
  BY <1>1 DEF Ordered
<1> QED BY <1>2, <1>3, <1>4, <1>5

LEMMA NodesStored == \A n \in Trees : NodesOf(n) \subseteq Stored /\ TreeKeys(n) \subseteq Int
<1> SUFFICES ASSUME NEW n \in Trees
             PROVE  NodesOf(n) \subseteq Stored /\ TreeKeys(n) \subseteq Int
  OBVIOUS
<1>1. \A m \in Subtrees[n] : ~IsNil(m)
  <2> DEFINE S == {t \in Trees : \A m \in Subtrees[t] : ~IsNil(m)}
  <2>1. Nil \in S
    BY NilFacts, SubtreesDef
  <2>2. ASSUME NEW t \in Trees, ~IsNil(t), t.left \in S, t.right \in S PROVE t \in S
    <3>1. Subtrees[t] = {t} \cup Subtrees[t.left] \cup Subtrees[t.right]
      BY <2>2, SubtreesDef
    <3> QED BY <3>1, <2>2
  <2> HIDE DEF S
  <2>3. n \in S
    BY <2>1, <2>2, TreeInduction
  <2> QED BY <2>3 DEF S
<1>2. \A m \in Subtrees[n] : m \in AllTrees
  BY SubtreesDef, TreesBounded
<1>3. \A m \in Subtrees[n] : m.key \in Int /\ m.env \in Envelopes
  BY <1>1, <1>2, TreeFacts
<1> QED BY <1>3 DEF NodesOf, TreeKeys, Stored

\* The same for a node made of its parts.
LEMMA NodeContents ==
  ASSUME NEW key \in Int, NEW env \in Envelopes, NEW left \in AllTrees, NEW right \in AllTrees,
         NEW n \in Trees, n = MkNode(key, env, left, right)
  PROVE  /\ left \in Trees /\ right \in Trees
         /\ NodesOf(n) = NodesOf(left) \cup {[key |-> key, env |-> env]} \cup NodesOf(right)
         /\ TreeKeys(n) = TreeKeys(left) \cup {key} \cup TreeKeys(right)
         /\ Balanced(n) <=> /\ left.height - right.height \in -1..1
                            /\ Balanced(left) /\ Balanced(right)
         /\ Ordered(n) <=> /\ \A k \in TreeKeys(left) : k < key
                           /\ \A k \in TreeKeys(right) : key < k
                           /\ Ordered(left) /\ Ordered(right)
<1>1. ~IsNil(n) /\ n.key = key /\ n.env = env /\ n.left = left /\ n.right = right
  BY NodeFacts
<1>2. left \in Trees /\ right \in Trees
  BY <1>1, ChildrenInTrees
<1> QED BY <1>1, <1>2, Contents DEF NodeAt

-----------------------------------------------------------------------------
(* Rotations. *)

\* What the four rotations of a tree that is out of balance make of it.
LEMMA FixForms ==
  ASSUME NEW key \in Int, NEW env \in Envelopes, NEW l \in AllTrees, NEW r \in AllTrees,
         NEW t, t = Fix(MkNode(key, env, l, r))
  PROVE  /\ /\ r.height > l.height + 1
            /\ r.left.height > r.right.height
            => t = MkNode(r.left.key, r.left.env, MkNode(key, env, l, r.left.left),
                          MkNode(r.key, r.env, r.left.right, r.right))
         /\ /\ r.height > l.height + 1
            /\ ~(r.left.height > r.right.height)
            => t = MkNode(r.key, r.env, MkNode(key, env, l, r.left), r.right)
         /\ /\ ~(r.height > l.height + 1)
            /\ l.height > r.height + 1
            /\ l.right.height > l.left.height
            => t = MkNode(l.right.key, l.right.env, MkNode(l.key, l.env, l.left, l.right.left),
                          MkNode(key, env, l.right.right, r))
         /\ /\ ~(r.height > l.height + 1)
            /\ l.height > r.height + 1
            /\ ~(l.right.height > l.left.height)
            => t = MkNode(l.key, l.env, l.left, MkNode(key, env, l.right, r))
         /\ /\ ~(r.height > l.height + 1)
            /\ ~(l.height > r.height + 1)
            => t = MkNode(key, env, l, r)
<1>1. PICK n : n = MkNode(key, env, l, r)
  OBVIOUS
<1>2. n.key = key /\ n.env = env /\ n.left = l /\ n.right = r
  BY <1>1, NodeFacts
<1>3. t = Fix(n)
  BY <1>1
<1>4. \A k, e, a, b : /\ MkNode(k, e, a, b).key = k /\ MkNode(k, e, a, b).env = e
                      /\ MkNode(k, e, a, b).left = a /\ MkNode(k, e, a, b).right = b
  BY DEF MkNode
<1>5. /\ RotateLeft(n) = MkNode(r.key, r.env, MkNode(key, env, l, r.left), r.right)
      /\ RotateRight(n) = MkNode(l.key, l.env, l.left, MkNode(key, env, l.right, r))
  BY <1>2 DEF RotateLeft, RotateRight
<1>6. RotateLeft(MkNode(n.key, n.env, n.left, RotateRight(n.right)))
        = MkNode(r.left.key, r.left.env, MkNode(key, env, l, r.left.left),
                 MkNode(r.key, r.env, r.left.right, r.right))
  BY <1>2, <1>4 DEF RotateLeft, RotateRight
<1>7. RotateRight(MkNode(n.key, n.env, RotateLeft(n.left), n.right))
        = MkNode(l.right.key, l.right.env, MkNode(l.key, l.env, l.left, l.right.left),
                 MkNode(key, env, l.right.right, r))
  BY <1>2, <1>4 DEF RotateLeft, RotateRight
<1> QED BY <1>1, <1>2, <1>3, <1>5, <1>6, <1>7 DEF Fix

\* What the proofs use of a node of a balanced tree.
LEMMA BalancedNode ==
  ASSUME NEW n \in Trees, ~IsNil(n), Balanced(n)
  PROVE  /\ n.key \in Int /\ n.env \in Envelopes /\ n.left \in Trees /\ n.right \in Trees
         /\ n.height \in Nat /\ n.left.height \in Nat /\ n.right.height \in Nat
         /\ Balanced(n.left) /\ Balanced(n.right)
         /\ n.height = 1 + n.left.height \/ n.height = 1 + n.right.height
         /\ n.left.height < n.height /\ n.right.height < n.height
         /\ n.height <= 2 + n.left.height /\ n.height <= 2 + n.right.height
<1>1. /\ n.key \in Int /\ n.env \in Envelopes /\ n.left \in Trees /\ n.right \in Trees
      /\ n.height \in Nat /\ n.height = 1 + Higher(n.left.height, n.right.height)
  BY TreesBounded, TreeFacts, ChildrenInTrees
<1>2. n.left.height \in Nat /\ n.right.height \in Nat
  BY <1>1, TreesBounded, TreeFacts
<1>3. n.left.height - n.right.height \in -1..1 /\ Balanced(n.left) /\ Balanced(n.right)
  BY Contents
<1> QED BY <1>1, <1>2, <1>3 DEF Higher

\* Two balanced trees whose heights differ by one at most make a balanced tree.
LEMMA Join ==
  ASSUME NEW key \in Int, NEW env \in Envelopes, NEW l \in Trees, NEW r \in Trees,
         Balanced(l), Balanced(r), l.height - r.height \in -1..1,
         1 + Higher(l.height, r.height) <= MaxPuts,
         NEW n, n = MkNode(key, env, l, r)
  PROVE  /\ n \in Trees /\ ~IsNil(n) /\ Balanced(n)
         /\ n.height = 1 + Higher(l.height, r.height)
         /\ NodesOf(n) = NodesOf(l) \cup {[key |-> key, env |-> env]} \cup NodesOf(r)
         /\ TreeKeys(n) = TreeKeys(l) \cup {key} \cup TreeKeys(r)
         /\ /\ \A k \in TreeKeys(l) : k < key
            /\ \A k \in TreeKeys(r) : key < k
            /\ Ordered(l) /\ Ordered(r)
            => Ordered(n)
<1>0. l \in AllTrees /\ r \in AllTrees
  BY TreesBounded
<1>1. n \in AllTrees /\ ~IsNil(n) /\ n.height = 1 + Higher(l.height, r.height)
  BY <1>0, NodeFacts
<1>2. n \in Trees
  BY <1>1, TreesBounded
<1> QED BY <1>0, <1>1, <1>2, NodeContents

\* A rotation keeps the nodes and the order of a tree, and balances it.
LEMMA FixFacts ==
  ASSUME NEW key \in Int, NEW env \in Envelopes, NEW l \in Trees, NEW r \in Trees,
         Balanced(l), Balanced(r), l.height - r.height \in -2..2,
         1 + Higher(l.height, r.height) <= MaxPuts,
         NEW t, t = Fix(MkNode(key, env, l, r))
  PROVE  /\ t \in Trees /\ ~IsNil(t) /\ Balanced(t)
         /\ NodesOf(t) = NodesOf(l) \cup {[key |-> key, env |-> env]} \cup NodesOf(r)
         /\ /\ \A k \in TreeKeys(l) : k < key
            /\ \A k \in TreeKeys(r) : key < k
            /\ Ordered(l) /\ Ordered(r)
            => Ordered(t)
         /\ t.height \in {Higher(l.height, r.height), 1 + Higher(l.height, r.height)}
         /\ l.height - r.height \in -1..1 => t.height = 1 + Higher(l.height, r.height)
<1>0. /\ MaxPuts \in Nat /\ l \in AllTrees /\ r \in AllTrees
      /\ l.height \in Nat /\ r.height \in Nat
      /\ TreeKeys(l) \subseteq Int /\ TreeKeys(r) \subseteq Int
  BY TreeAssumption, TreesBounded, TreeFacts, NodesStored
<1>1. CASE ~(r.height > l.height + 1) /\ ~(l.height > r.height + 1)
  <2>1. t = MkNode(key, env, l, r)
    BY <1>0, <1>1, FixForms
  <2>2. l.height - r.height \in -1..1
    BY <1>0, <1>1
  <2> QED BY <2>1, <2>2, Join
<1>2. CASE r.height > l.height + 1 /\ ~(r.left.height > r.right.height)
  <2>1. t = MkNode(r.key, r.env, MkNode(key, env, l, r.left), r.right)
    BY <1>0, <1>2, FixForms
  <2>2. r.height = l.height + 2 /\ Higher(l.height, r.height) = r.height
    BY <1>0, <1>2 DEF Higher
  <2>3. ~IsNil(r)
    BY <1>0, <2>2 DEF IsNil
  <2>4. /\ r.key \in Int /\ r.env \in Envelopes /\ r.left \in Trees /\ r.right \in Trees
        /\ r.left.height \in Nat /\ r.right.height \in Nat
        /\ Balanced(r.left) /\ Balanced(r.right)
        /\ r.right.height = l.height + 1
        /\ r.left.height \in {l.height, l.height + 1}
    BY <2>2, <2>3, <1>0, <1>2, BalancedNode
  <2>5. /\ NodesOf(r) = NodesOf(r.left) \cup {[key |-> r.key, env |-> r.env]} \cup NodesOf(r.right)
        /\ TreeKeys(r) = TreeKeys(r.left) \cup {r.key} \cup TreeKeys(r.right)
        /\ Ordered(r) => /\ \A k \in TreeKeys(r.left) : k < r.key
                         /\ \A k \in TreeKeys(r.right) : r.key < k
                         /\ Ordered(r.left) /\ Ordered(r.right)
    BY <2>3, Contents DEF NodeAt
  <2>6. PICK a : a = MkNode(key, env, l, r.left)
    OBVIOUS
  <2>7. l.height - r.left.height \in -1..1 /\ Higher(l.height, r.left.height) = r.left.height
    BY <2>4, <1>0 DEF Higher
  <2>8. 1 + r.left.height <= MaxPuts
    BY <2>2, <2>4, <1>0
  <2>9. /\ a \in Trees /\ Balanced(a) /\ a.height = 1 + r.left.height
        /\ NodesOf(a) = NodesOf(l) \cup {[key |-> key, env |-> env]} \cup NodesOf(r.left)
        /\ TreeKeys(a) = TreeKeys(l) \cup {key} \cup TreeKeys(r.left)
        /\ /\ \A k \in TreeKeys(l) : k < key
           /\ \A k \in TreeKeys(r.left) : key < k
           /\ Ordered(l) /\ Ordered(r.left)
           => Ordered(a)
    BY <2>4, <2>6, <2>7, <2>8, Join
  <2>10. /\ a.height - r.right.height \in -1..1
         /\ Higher(a.height, r.right.height) = a.height
         /\ 1 + a.height <= MaxPuts
    BY <2>2, <2>4, <2>9, <1>0 DEF Higher
  <2>11. /\ t \in Trees /\ ~IsNil(t) /\ Balanced(t) /\ t.height = 1 + a.height
         /\ NodesOf(t) = NodesOf(a) \cup {[key |-> r.key, env |-> r.env]} \cup NodesOf(r.right)
         /\ /\ \A k \in TreeKeys(a) : k < r.key
            /\ \A k \in TreeKeys(r.right) : r.key < k
            /\ Ordered(a) /\ Ordered(r.right)
            => Ordered(t)
    BY <2>1, <2>4, <2>6, <2>9, <2>10, Join
  <2>12. NodesOf(t) = NodesOf(l) \cup {[key |-> key, env |-> env]} \cup NodesOf(r)
    BY <2>5, <2>9, <2>11
  <2>13. ASSUME \A k \in TreeKeys(l) : k < key, \A k \in TreeKeys(r) : key < k,
                Ordered(l), Ordered(r)
         PROVE  Ordered(t)
    <3>1. Ordered(a)
      BY <2>5, <2>9, <2>13
    <3>2. key < r.key
      BY <2>5, <2>13
    <3>3. \A k \in TreeKeys(a) : k < r.key
      BY <2>4, <2>5, <2>9, <2>13, <3>2, <1>0
    <3> QED BY <3>1, <3>3, <2>5, <2>11, <2>13
  <2>14. /\ t.height \in {Higher(l.height, r.height), 1 + Higher(l.height, r.height)}
         /\ ~(l.height - r.height \in -1..1)
    BY <2>2, <2>4, <2>9, <2>11, <1>0
  <2> QED BY <2>11, <2>12, <2>13, <2>14
<1>3. CASE r.height > l.height + 1 /\ r.left.height > r.right.height
  <2>1. t = MkNode(r.left.key, r.left.env, MkNode(key, env, l, r.left.left),
                   MkNode(r.key, r.env, r.left.right, r.right))
    BY <1>0, <1>3, FixForms
  <2>2. r.height = l.height + 2 /\ Higher(l.height, r.height) = r.height
    BY <1>0, <1>3 DEF Higher
  <2>3. ~IsNil(r)
    BY <1>0, <2>2 DEF IsNil
  <2>4. /\ r.key \in Int /\ r.env \in Envelopes /\ r.left \in Trees /\ r.right \in Trees
        /\ r.left.height \in Nat /\ r.right.height \in Nat
        /\ Balanced(r.left) /\ Balanced(r.right)
        /\ r.left.height = l.height + 1 /\ r.right.height = l.height
    BY <2>2, <2>3, <1>0, <1>3, BalancedNode
  <2>5. PICK m : m = r.left
    OBVIOUS
  <2>6. ~IsNil(m)
    BY <2>4, <2>5, <1>0 DEF IsNil
  <2>7. /\ m.key \in Int /\ m.env \in Envelopes /\ m.left \in Trees /\ m.right \in Trees
        /\ m.left.height \in Nat /\ m.right.height \in Nat
        /\ Balanced(m.left) /\ Balanced(m.right)
        /\ m.left.height <= l.height /\ l.height - m.left.height <= 1
        /\ m.right.height <= l.height /\ l.height - m.right.height <= 1
    BY <2>4, <2>5, <2>6, <1>0, BalancedNode
  <2>8. /\ NodesOf(r) = NodesOf(m) \cup {[key |-> r.key, env |-> r.env]} \cup NodesOf(r.right)
        /\ TreeKeys(r) = TreeKeys(m) \cup {r.key} \cup TreeKeys(r.right)
        /\ Ordered(r) => /\ \A k \in TreeKeys(m) : k < r.key
                         /\ \A k \in TreeKeys(r.right) : r.key < k
                         /\ Ordered(m) /\ Ordered(r.right)
    BY <2>3, <2>5, Contents DEF NodeAt
  <2>9. /\ NodesOf(m) = NodesOf(m.left) \cup {[key |-> m.key, env |-> m.env]} \cup NodesOf(m.right)
        /\ TreeKeys(m) = TreeKeys(m.left) \cup {m.key} \cup TreeKeys(m.right)
        /\ Ordered(m) => /\ \A k \in TreeKeys(m.left) : k < m.key
                         /\ \A k \in TreeKeys(m.right) : m.key < k
                         /\ Ordered(m.left) /\ Ordered(m.right)
    BY <2>4, <2>5, <2>6, Contents DEF NodeAt
  <2>10. PICK a : a = MkNode(key, env, l, m.left)
    OBVIOUS
  <2>11. PICK b : b = MkNode(r.key, r.env, m.right, r.right)
    OBVIOUS
  <2>12. /\ l.height - m.left.height \in -1..1 /\ Higher(l.height, m.left.height) = l.height
         /\ m.right.height - r.right.height \in -1..1
         /\ Higher(m.right.height, r.right.height) = l.height
         /\ 1 + l.height <= MaxPuts /\ 2 + l.height <= MaxPuts
    BY <2>2, <2>4, <2>7, <1>0 DEF Higher
  <2>13. /\ a \in Trees /\ Balanced(a) /\ a.height = 1 + l.height
         /\ NodesOf(a) = NodesOf(l) \cup {[key |-> key, env |-> env]} \cup NodesOf(m.left)
         /\ TreeKeys(a) = TreeKeys(l) \cup {key} \cup TreeKeys(m.left)
         /\ /\ \A k \in TreeKeys(l) : k < key
            /\ \A k \in TreeKeys(m.left) : key < k
            /\ Ordered(l) /\ Ordered(m.left)
            => Ordered(a)
    BY <2>7, <2>10, <2>12, Join
  <2>14. /\ b \in Trees /\ Balanced(b) /\ b.height = 1 + l.height
         /\ NodesOf(b) = NodesOf(m.right) \cup {[key |-> r.key, env |-> r.env]} \cup NodesOf(r.right)
         /\ TreeKeys(b) = TreeKeys(m.right) \cup {r.key} \cup TreeKeys(r.right)
         /\ /\ \A k \in TreeKeys(m.right) : k < r.key
            /\ \A k \in TreeKeys(r.right) : r.key < k
            /\ Ordered(m.right) /\ Ordered(r.right)
            => Ordered(b)
    BY <2>4, <2>7, <2>11, <2>12, Join
  <2>15. /\ a.height - b.height \in -1..1 /\ Higher(a.height, b.height) = 1 + l.height
         /\ 1 + (1 + l.height) <= MaxPuts
    BY <2>12, <2>13, <2>14, <1>0 DEF Higher
  <2>16. t = MkNode(m.key, m.env, a, b)
    BY <2>1, <2>5, <2>10, <2>11
  <2>17. /\ t \in Trees /\ ~IsNil(t) /\ Balanced(t) /\ t.height = 1 + (1 + l.height)
         /\ NodesOf(t) = NodesOf(a) \cup {[key |-> m.key, env |-> m.env]} \cup NodesOf(b)
         /\ /\ \A k \in TreeKeys(a) : k < m.key
            /\ \A k \in TreeKeys(b) : m.key < k
            /\ Ordered(a) /\ Ordered(b)
            => Ordered(t)
    BY <2>7, <2>13, <2>14, <2>15, <2>16, Join
  <2>18. NodesOf(t) = NodesOf(l) \cup {[key |-> key, env |-> env]} \cup NodesOf(r)
    BY <2>8, <2>9, <2>13, <2>14, <2>17
  <2>19. ASSUME \A k \in TreeKeys(l) : k < key, \A k \in TreeKeys(r) : key < k,
                Ordered(l), Ordered(r)
         PROVE  Ordered(t)
    <3>1. Ordered(a) /\ Ordered(b)
      BY <2>8, <2>9, <2>13, <2>14, <2>19
    <3>2. key < m.key /\ m.key < r.key /\ TreeKeys(m.right) \subseteq TreeKeys(r)
          /\ TreeKeys(r.right) \subseteq TreeKeys(r)
      BY <2>8, <2>9, <2>19
    <3>3. \A k \in TreeKeys(a) : k < m.key
      BY <2>7, <2>8, <2>9, <2>13, <2>19, <3>2, <1>0
    <3>4. \A k \in TreeKeys(b) : m.key < k
      BY <2>4, <2>7, <2>8, <2>9, <2>14, <2>19, <3>2, <1>0
    <3> QED BY <3>1, <3>3, <3>4, <2>17
  <2>20. /\ t.height \in {Higher(l.height, r.height), 1 + Higher(l.height, r.height)}
         /\ ~(l.height - r.height \in -1..1)
    BY <2>2, <2>17, <1>0
  <2> QED BY <2>17, <2>18, <2>19, <2>20
<1>4. CASE ~(r.height > l.height + 1) /\ l.height > r.height + 1 /\ ~(l.right.height > l.left.height)
  <2>1. t = MkNode(l.key, l.env, l.left, MkNode(key, env, l.right, r))
    BY <1>0, <1>4, FixForms
  <2>2. l.height = r.height + 2 /\ Higher(l.height, r.height) = l.height
    BY <1>0, <1>4 DEF Higher
  <2>3. ~IsNil(l)
    BY <1>0, <2>2 DEF IsNil
  <2>4. /\ l.key \in Int /\ l.env \in Envelopes /\ l.left \in Trees /\ l.right \in Trees
        /\ l.left.height \in Nat /\ l.right.height \in Nat
        /\ Balanced(l.left) /\ Balanced(l.right)
        /\ l.left.height = r.height + 1
        /\ l.right.height \in {r.height, r.height + 1}
    BY <2>2, <2>3, <1>0, <1>4, BalancedNode
  <2>5. /\ NodesOf(l) = NodesOf(l.left) \cup {[key |-> l.key, env |-> l.env]} \cup NodesOf(l.right)
        /\ TreeKeys(l) = TreeKeys(l.left) \cup {l.key} \cup TreeKeys(l.right)
        /\ Ordered(l) => /\ \A k \in TreeKeys(l.left) : k < l.key
                         /\ \A k \in TreeKeys(l.right) : l.key < k
                         /\ Ordered(l.left) /\ Ordered(l.right)
    BY <2>3, Contents DEF NodeAt
  <2>6. PICK b : b = MkNode(key, env, l.right, r)
    OBVIOUS
  <2>7. l.right.height - r.height \in -1..1 /\ Higher(l.right.height, r.height) = l.right.height
    BY <2>4, <1>0 DEF Higher
  <2>8. 1 + l.right.height <= MaxPuts
    BY <2>2, <2>4, <1>0
  <2>9. /\ b \in Trees /\ Balanced(b) /\ b.height = 1 + l.right.height
        /\ NodesOf(b) = NodesOf(l.right) \cup {[key |-> key, env |-> env]} \cup NodesOf(r)
        /\ TreeKeys(b) = TreeKeys(l.right) \cup {key} \cup TreeKeys(r)
        /\ /\ \A k \in TreeKeys(l.right) : k < key
           /\ \A k \in TreeKeys(r) : key < k
           /\ Ordered(l.right) /\ Ordered(r)
           => Ordered(b)
    BY <2>4, <2>6, <2>7, <2>8, Join
  <2>10. /\ l.left.height - b.height \in -1..1
         /\ Higher(l.left.height, b.height) = b.height
         /\ 1 + b.height <= MaxPuts
    BY <2>2, <2>4, <2>9, <1>0 DEF Higher
  <2>11. /\ t \in Trees /\ ~IsNil(t) /\ Balanced(t) /\ t.height = 1 + b.height
         /\ NodesOf(t) = NodesOf(l.left) \cup {[key |-> l.key, env |-> l.env]} \cup NodesOf(b)
         /\ /\ \A k \in TreeKeys(l.left) : k < l.key
            /\ \A k \in TreeKeys(b) : l.key < k
            /\ Ordered(l.left) /\ Ordered(b)
            => Ordered(t)
    BY <2>1, <2>4, <2>6, <2>9, <2>10, Join
  <2>12. NodesOf(t) = NodesOf(l) \cup {[key |-> key, env |-> env]} \cup NodesOf(r)
    BY <2>5, <2>9, <2>11
  <2>13. ASSUME \A k \in TreeKeys(l) : k < key, \A k \in TreeKeys(r) : key < k,
                Ordered(l), Ordered(r)
         PROVE  Ordered(t)
    <3>1. Ordered(b)
      BY <2>5, <2>9, <2>13
    <3>2. l.key < key
      BY <2>5, <2>13
    <3>3. \A k \in TreeKeys(b) : l.key < k
      BY <2>4, <2>5, <2>9, <2>13, <3>2, <1>0
    <3> QED BY <3>1, <3>3, <2>5, <2>11, <2>13
  <2>14. /\ t.height \in {Higher(l.height, r.height), 1 + Higher(l.height, r.height)}
         /\ ~(l.height - r.height \in -1..1)
    BY <2>2, <2>4, <2>9, <2>11, <1>0
  <2> QED BY <2>11, <2>12, <2>13, <2>14
<1>5. CASE ~(r.height > l.height + 1) /\ l.height > r.height + 1 /\ l.right.height > l.left.height
  <2>1. t = MkNode(l.right.key, l.right.env, MkNode(l.key, l.env, l.left, l.right.left),
                   MkNode(key, env, l.right.right, r))
    BY <1>0, <1>5, FixForms
  <2>2. l.height = r.height + 2 /\ Higher(l.height, r.height) = l.height
    BY <1>0, <1>5 DEF Higher
  <2>3. ~IsNil(l)
    BY <1>0, <2>2 DEF IsNil
  <2>4. /\ l.key \in Int /\ l.env \in Envelopes /\ l.left \in Trees /\ l.right \in Trees
        /\ l.left.height \in Nat /\ l.right.height \in Nat
        /\ Balanced(l.left) /\ Balanced(l.right)
        /\ l.right.height = r.height + 1 /\ l.left.height = r.height
    BY <2>2, <2>3, <1>0, <1>5, BalancedNode
  <2>5. PICK m : m = l.right
    OBVIOUS
  <2>6. ~IsNil(m)
    BY <2>4, <2>5, <1>0 DEF IsNil
  <2>7. /\ m.key \in Int /\ m.env \in Envelopes /\ m.left \in Trees /\ m.right \in Trees
        /\ m.left.height \in Nat /\ m.right.height \in Nat
        /\ Balanced(m.left) /\ Balanced(m.right)
        /\ m.left.height <= r.height /\ r.height - m.left.height <= 1
        /\ m.right.height <= r.height /\ r.height - m.right.height <= 1
    BY <2>4, <2>5, <2>6, <1>0, BalancedNode
  <2>8. /\ NodesOf(l) = NodesOf(l.left) \cup {[key |-> l.key, env |-> l.env]} \cup NodesOf(m)
        /\ TreeKeys(l) = TreeKeys(l.left) \cup {l.key} \cup TreeKeys(m)
        /\ Ordered(l) => /\ \A k \in TreeKeys(l.left) : k < l.key
                         /\ \A k \in TreeKeys(m) : l.key < k
                         /\ Ordered(l.left) /\ Ordered(m)
    BY <2>3, <2>5, Contents DEF NodeAt
  <2>9. /\ NodesOf(m) = NodesOf(m.left) \cup {[key |-> m.key, env |-> m.env]} \cup NodesOf(m.right)
        /\ TreeKeys(m) = TreeKeys(m.left) \cup {m.key} \cup TreeKeys(m.right)
        /\ Ordered(m) => /\ \A k \in TreeKeys(m.left) : k < m.key
                         /\ \A k \in TreeKeys(m.right) : m.key < k
                         /\ Ordered(m.left) /\ Ordered(m.right)
    BY <2>4, <2>5, <2>6, Contents DEF NodeAt
  <2>10. PICK a : a = MkNode(l.key, l.env, l.left, m.left)
    OBVIOUS
  <2>11. PICK b : b = MkNode(key, env, m.right, r)
    OBVIOUS
  <2>12. /\ l.left.height - m.left.height \in -1..1
         /\ Higher(l.left.height, m.left.height) = r.height
         /\ m.right.height - r.height \in -1..1
         /\ Higher(m.right.height, r.height) = r.height
         /\ 1 + r.height <= MaxPuts /\ 2 + r.height <= MaxPuts
    BY <2>2, <2>4, <2>7, <1>0 DEF Higher
  <2>13. /\ a \in Trees /\ Balanced(a) /\ a.height = 1 + r.height
         /\ NodesOf(a) = NodesOf(l.left) \cup {[key |-> l.key, env |-> l.env]} \cup NodesOf(m.left)
         /\ TreeKeys(a) = TreeKeys(l.left) \cup {l.key} \cup TreeKeys(m.left)
         /\ /\ \A k \in TreeKeys(l.left) : k < l.key
            /\ \A k \in TreeKeys(m.left) : l.key < k
            /\ Ordered(l.left) /\ Ordered(m.left)
            => Ordered(a)
    BY <2>4, <2>7, <2>10, <2>12, Join
  <2>14. /\ b \in Trees /\ Balanced(b) /\ b.height = 1 + r.height
         /\ NodesOf(b) = NodesOf(m.right) \cup {[key |-> key, env |-> env]} \cup NodesOf(r)
         /\ TreeKeys(b) = TreeKeys(m.right) \cup {key} \cup TreeKeys(r)
         /\ /\ \A k \in TreeKeys(m.right) : k < key
            /\ \A k \in TreeKeys(r) : key < k
            /\ Ordered(m.right) /\ Ordered(r)
            => Ordered(b)
    BY <2>7, <2>11, <2>12, Join
  <2>15. /\ a.height - b.height \in -1..1 /\ Higher(a.height, b.height) = 1 + r.height
         /\ 1 + (1 + r.height) <= MaxPuts
    BY <2>12, <2>13, <2>14, <1>0 DEF Higher
  <2>16. t = MkNode(m.key, m.env, a, b)
    BY <2>1, <2>5, <2>10, <2>11
  <2>17. /\ t \in Trees /\ ~IsNil(t) /\ Balanced(t) /\ t.height = 1 + (1 + r.height)
         /\ NodesOf(t) = NodesOf(a) \cup {[key |-> m.key, env |-> m.env]} \cup NodesOf(b)
         /\ /\ \A k \in TreeKeys(a) : k < m.key
            /\ \A k \in TreeKeys(b) : m.key < k
            /\ Ordered(a) /\ Ordered(b)
            => Ordered(t)
    BY <2>7, <2>13, <2>14, <2>15, <2>16, Join
  <2>18. NodesOf(t) = NodesOf(l) \cup {[key |-> key, env |-> env]} \cup NodesOf(r)
    BY <2>8, <2>9, <2>13, <2>14, <2>17
  <2>19. ASSUME \A k \in TreeKeys(l) : k < key, \A k \in TreeKeys(r) : key < k,
                Ordered(l), Ordered(r)
         PROVE  Ordered(t)
    <3>1. Ordered(a) /\ Ordered(b)
      BY <2>8, <2>9, <2>13, <2>14, <2>19
    <3>2. l.key < m.key /\ m.key < key /\ TreeKeys(m.left) \subseteq TreeKeys(l)
          /\ TreeKeys(l.left) \subseteq TreeKeys(l)
      BY <2>8, <2>9, <2>19
    <3>3. \A k \in TreeKeys(a) : k < m.key
      BY <2>4, <2>7, <2>8, <2>9, <2>13, <2>19, <3>2, <1>0
    <3>4. \A k \in TreeKeys(b) : m.key < k
      BY <2>7, <2>8, <2>9, <2>14, <2>19, <3>2, <1>0
    <3> QED BY <3>1, <3>3, <3>4, <2>17
  <2>20. /\ t.height \in {Higher(l.height, r.height), 1 + Higher(l.height, r.height)}
         /\ ~(l.height - r.height \in -1..1)
    BY <2>2, <2>17, <1>0
  <2> QED BY <2>17, <2>18, <2>19, <2>20
<1> QED
  <2>1. \/ ~(r.height > l.height + 1) /\ ~(l.height > r.height + 1)
        \/ r.height > l.height + 1
        \/ ~(r.height > l.height + 1) /\ l.height > r.height + 1
    OBVIOUS
  <2> QED BY <2>1, <1>1, <1>2, <1>3, <1>4, <1>5

LEMMA FixIsTree ==
  ASSUME NEW key \in Int, NEW env \in Envelopes, NEW l \in AllTrees, NEW r \in AllTrees
  PROVE  Fix(MkNode(key, env, l, r)) \in AllTrees
<1>0. PICK t : t = Fix(MkNode(key, env, l, r))
  OBVIOUS
<1> SUFFICES t \in AllTrees
  BY <1>0
<1>1. l.height \in Nat /\ r.height \in Nat
  BY TreeFacts
<1>2. CASE r.height > l.height + 1
  <2>1. /\ r.key \in Int /\ r.env \in Envelopes /\ r.left \in AllTrees /\ r.right \in AllTrees
    <3>1. ~IsNil(r)
      BY <1>1, <1>2 DEF IsNil
    <3> QED BY <3>1, TreeFacts
  <2>2. r.left.height \in Nat /\ r.right.height \in Nat
    BY <2>1, TreeFacts
  <2>3. CASE r.left.height > r.right.height
    <3>1. ~IsNil(r.left)
      BY <2>2, <2>3 DEF IsNil
    <3>2. /\ r.left.key \in Int /\ r.left.env \in Envelopes
          /\ r.left.left \in AllTrees /\ r.left.right \in AllTrees
      BY <3>1, <2>1, TreeFacts
    <3>3. MkNode(key, env, l, r.left.left) \in AllTrees
      BY <3>2, NodeFacts
    <3>4. MkNode(r.key, r.env, r.left.right, r.right) \in AllTrees
      BY <3>2, <2>1, NodeFacts
    <3>5. t = MkNode(r.left.key, r.left.env, MkNode(key, env, l, r.left.left),
                     MkNode(r.key, r.env, r.left.right, r.right))
      BY <1>0, <1>2, <2>3, FixForms
    <3> QED BY <3>2, <3>3, <3>4, <3>5, NodeFacts
  <2>4. CASE ~(r.left.height > r.right.height)
    <3>1. MkNode(key, env, l, r.left) \in AllTrees
      BY <2>1, NodeFacts
    <3>2. t = MkNode(r.key, r.env, MkNode(key, env, l, r.left), r.right)
      BY <1>0, <1>2, <2>4, FixForms
    <3> QED BY <3>1, <3>2, <2>1, NodeFacts
  <2> QED BY <2>3, <2>4
<1>3. CASE ~(r.height > l.height + 1) /\ l.height > r.height + 1
  <2>1. /\ l.key \in Int /\ l.env \in Envelopes /\ l.left \in AllTrees /\ l.right \in AllTrees
    <3>1. ~IsNil(l)
      BY <1>1, <1>3 DEF IsNil
    <3> QED BY <3>1, TreeFacts
  <2>2. l.left.height \in Nat /\ l.right.height \in Nat
    BY <2>1, TreeFacts
  <2>3. CASE l.right.height > l.left.height
    <3>1. ~IsNil(l.right)
      BY <2>2, <2>3 DEF IsNil
    <3>2. /\ l.right.key \in Int /\ l.right.env \in Envelopes
          /\ l.right.left \in AllTrees /\ l.right.right \in AllTrees
      BY <3>1, <2>1, TreeFacts
    <3>3. MkNode(l.key, l.env, l.left, l.right.left) \in AllTrees
      BY <3>2, <2>1, NodeFacts
    <3>4. MkNode(key, env, l.right.right, r) \in AllTrees
      BY <3>2, NodeFacts
    <3>5. t = MkNode(l.right.key, l.right.env, MkNode(l.key, l.env, l.left, l.right.left),
                     MkNode(key, env, l.right.right, r))
      BY <1>0, <1>3, <2>3, FixForms
    <3> QED BY <3>2, <3>3, <3>4, <3>5, NodeFacts
  <2>4. CASE ~(l.right.height > l.left.height)
    <3>1. MkNode(key, env, l.right, r) \in AllTrees
      BY <2>1, NodeFacts
    <3>2. t = MkNode(l.key, l.env, l.left, MkNode(key, env, l.right, r))
      BY <1>0, <1>3, <2>4, FixForms
    <3> QED BY <3>1, <3>2, <2>1, NodeFacts
  <2> QED BY <2>3, <2>4
<1>4. CASE ~(r.height > l.height + 1) /\ ~(l.height > r.height + 1)
  <2>1. t = MkNode(key, env, l, r)
    BY <1>0, <1>4, FixForms
  <2> QED BY <2>1, NodeFacts
<1> QED BY <1>2, <1>3, <1>4

-----------------------------------------------------------------------------
(* Put and Remove. *)

\* The recursion of put is well defined.
LEMMA PutDef ==
  ASSUME NEW key \in Int, NEW env \in Envelopes, NEW n \in Trees
  PROVE  /\ IsNil(n) => Put(n, key, env) = MkNode(key, env, Nil, Nil)
         /\ ~IsNil(n) /\ key = n.key => Put(n, key, env) = MkNode(key, env, n.left, n.right)
         /\ ~IsNil(n) /\ key < n.key =>
              Put(n, key, env) = Fix(MkNode(n.key, n.env, Put(n.left, key, env), n.right))
         /\ ~IsNil(n) /\ n.key < key =>
              Put(n, key, env) = Fix(MkNode(n.key, n.env, n.left, Put(n.right, key, env)))
<1> DEFINE V == AllTrees
           base == MkNode(key, env, Nil, Nil)
           step == [x \in Trees \X V \X V |->
                      IF key = x[1].key THEN MkNode(key, env, x[1].left, x[1].right)
                      ELSE IF key < x[1].key THEN Fix(MkNode(x[1].key, x[1].env, x[2], x[1].right))
                      ELSE Fix(MkNode(x[1].key, x[1].env, x[1].left, x[3]))]
           body(f, m) == IF IsNil(m) THEN MkNode(key, env, Nil, Nil)
                         ELSE IF key = m.key THEN MkNode(key, env, m.left, m.right)
                         ELSE IF key < m.key THEN Fix(MkNode(m.key, m.env, f[m.left], m.right))
                         ELSE Fix(MkNode(m.key, m.env, m.left, f[m.right]))
           Into == CHOOSE f : f = [m \in Trees |-> body(f, m)]
<1>1. ASSUME NEW m \in Trees, NEW a \in V, NEW b \in V
      PROVE  step[<<m, a, b>>] =
               IF key = m.key THEN MkNode(key, env, m.left, m.right)
               ELSE IF key < m.key THEN Fix(MkNode(m.key, m.env, a, m.right))
               ELSE Fix(MkNode(m.key, m.env, m.left, b))
  <2>1. <<m, a, b>> \in Trees \X V \X V
    OBVIOUS
  <2> QED BY <2>1
<1>2. \A m \in Trees : ~IsNil(m) => \A a, b \in V : step[<<m, a, b>>] \in V
  <2> SUFFICES ASSUME NEW m \in Trees, ~IsNil(m), NEW a \in V, NEW b \in V
               PROVE  step[<<m, a, b>>] \in V
    OBVIOUS
  <2>1. m.key \in Int /\ m.env \in Envelopes /\ m.left \in V /\ m.right \in V
    BY TreesBounded, TreeFacts
  <2>2. MkNode(key, env, m.left, m.right) \in V
    BY <2>1, NodeFacts
  <2>3. /\ Fix(MkNode(m.key, m.env, a, m.right)) \in V
        /\ Fix(MkNode(m.key, m.env, m.left, b)) \in V
    BY <2>1, FixIsTree
  <2> HIDE DEF step
  <2> QED BY <1>1, <2>2, <2>3
<1>3. base \in V
  BY NilFacts, NodeFacts
<1>4. PICK f \in [Trees -> V] : Recurses(f, base, step)
  <2> HIDE DEF base, step, V
  <2> QED BY <1>2, <1>3, TreeRecursion
<1>5. ASSUME NEW m \in Trees PROVE f[m] = body(f, m)
  <2>1. CASE IsNil(m)
    BY <2>1, <1>4 DEF Recurses
  <2>2. CASE ~IsNil(m)
    <3>1. f[m.left] \in V /\ f[m.right] \in V
      BY <2>2, ChildrenInTrees
    <3>2. f[m] = step[<<m, f[m.left], f[m.right]>>]
      <4> HIDE DEF step, base
      <4> QED BY <2>2, <1>4 DEF Recurses
    <3> HIDE DEF step
    <3> QED BY <2>2, <3>1, <3>2, <1>1
  <2> QED BY <2>1, <2>2
<1>6. f = [m \in Trees |-> body(f, m)]
  <2> HIDE DEF body
  <2> QED BY <1>5
<1>7. Into = [m \in Trees |-> body(Into, m)]
  <2> HIDE DEF body
  <2> QED BY <1>6
<1>8. \A m \in Trees : Into[m] = body(Into, m)
  <2> HIDE DEF body, Into
  <2> QED BY <1>7
<1>9. \A m : Put(m, key, env) = Into[m]
  BY DEF Put
<1> HIDE DEF Into
<1>10. CASE IsNil(n)
  BY <1>10, <1>8, <1>9
<1>11. CASE ~IsNil(n)
  <2>1. n.key \in Int
    BY <1>11, TreesBounded, TreeFacts
  <2> QED BY <1>11, <2>1, <1>8, <1>9
<1> QED BY <1>10, <1>11

\* put files an envelope under a key, in place of what the key had, and keeps the
\* tree ordered and balanced.
Inserted(n, key, env, t) ==
  /\ t \in Trees /\ Balanced(t) /\ Ordered(t)
  /\ t.height \in {n.height, n.height + 1}
  /\ NodesOf(t) = {m \in NodesOf(n) : m.key # key} \cup {[key |-> key, env |-> env]}

LEMMA PutFacts ==
  ASSUME NEW key \in Int, NEW env \in Envelopes,
         NEW tree \in Trees, tree.height < MaxPuts, Balanced(tree), Ordered(tree)
  PROVE  Inserted(tree, key, env, Put(tree, key, env))
<1> DEFINE S == {n \in Trees : n.height < MaxPuts /\ Balanced(n) /\ Ordered(n)
                                 => Inserted(n, key, env, Put(n, key, env))}
<1>0. MaxPuts \in Nat
  BY TreeAssumption
<1>1. Nil \in S
  <2> SUFFICES ASSUME Nil.height < MaxPuts, NEW t, t = Put(Nil, key, env)
               PROVE  Inserted(Nil, key, env, t)
    BY NilFacts
  <2>1. t = MkNode(key, env, Nil, Nil)
    BY NilFacts, PutDef
  <2>2. Nil.height - Nil.height \in -1..1 /\ Higher(Nil.height, Nil.height) = 0 /\ 1 + 0 <= MaxPuts
    BY NilFacts, <1>0 DEF Higher
  <2>3. /\ t \in Trees /\ Balanced(t) /\ t.height = 1 + 0
        /\ NodesOf(t) = NodesOf(Nil) \cup {[key |-> key, env |-> env]} \cup NodesOf(Nil)
        /\ Ordered(t)
    BY <2>1, <2>2, NilFacts, NilContents, Join
  <2> QED BY <2>3, NilFacts, NilContents DEF Inserted
<1>2. ASSUME NEW n \in Trees, ~IsNil(n), n.left \in S, n.right \in S PROVE n \in S
  <2> SUFFICES ASSUME n.height < MaxPuts, Balanced(n), Ordered(n), NEW t, t = Put(n, key, env)
               PROVE  Inserted(n, key, env, t)
    OBVIOUS
  <2>1. /\ n.key \in Int /\ n.env \in Envelopes /\ n.left \in Trees /\ n.right \in Trees
        /\ n.height \in Nat /\ n.left.height \in Nat /\ n.right.height \in Nat
        /\ n.height = 1 + n.left.height \/ n.height = 1 + n.right.height
        /\ n.left.height < n.height /\ n.right.height < n.height
        /\ n.height <= 2 + n.left.height /\ n.height <= 2 + n.right.height
        /\ Balanced(n.left) /\ Balanced(n.right)
    BY <1>2, BalancedNode
  <2>2. /\ NodesOf(n) = NodesOf(n.left) \cup {NodeAt(n)} \cup NodesOf(n.right)
        /\ \A k \in TreeKeys(n.left) : k < n.key
        /\ \A k \in TreeKeys(n.right) : n.key < k
        /\ Ordered(n.left) /\ Ordered(n.right)
        /\ n.left.height - n.right.height \in -1..1
    BY <1>2, Contents
  <2>3. /\ \A m \in NodesOf(n.left) : m.key \in Int /\ m.key < n.key
        /\ \A m \in NodesOf(n.right) : m.key \in Int /\ n.key < m.key
    <3>1. /\ \A m \in NodesOf(n.left) : m.key \in TreeKeys(n.left)
          /\ \A m \in NodesOf(n.right) : m.key \in TreeKeys(n.right)
      BY KeysOfNodes
    <3>2. TreeKeys(n.left) \subseteq Int /\ TreeKeys(n.right) \subseteq Int
      BY <2>1, NodesStored
    <3> QED BY <3>1, <3>2, <2>2
  <2>4. CASE key = n.key
    <3>1. t = MkNode(key, env, n.left, n.right)
      BY <1>2, <2>4, PutDef
    <3>2. n.height = 1 + Higher(n.left.height, n.right.height)
      BY <1>2, TreesBounded, TreeFacts
    <3>3. 1 + Higher(n.left.height, n.right.height) <= MaxPuts
      BY <3>2, <2>1, <1>0
    <3>4. /\ t \in Trees /\ Balanced(t) /\ Ordered(t) /\ t.height = n.height
          /\ NodesOf(t) = NodesOf(n.left) \cup {[key |-> key, env |-> env]} \cup NodesOf(n.right)
      BY <3>1, <3>2, <3>3, <2>1, <2>2, <2>4, Join
    <3>5. {m \in NodesOf(n) : m.key # key} = NodesOf(n.left) \cup NodesOf(n.right)
      BY <2>2, <2>3, <2>4 DEF NodeAt
    <3> QED BY <3>4, <3>5 DEF Inserted
  <2>5. CASE key < n.key
    <3>1. PICK l : l = Put(n.left, key, env)
      OBVIOUS
    <3>2. Inserted(n.left, key, env, l)
      BY <1>2, <2>1, <2>2, <3>1, <1>0
    <3>3. /\ l \in Trees /\ Balanced(l) /\ Ordered(l)
          /\ l.height \in {n.left.height, n.left.height + 1}
          /\ NodesOf(l) = {m \in NodesOf(n.left) : m.key # key} \cup {[key |-> key, env |-> env]}
      BY <3>2 DEF Inserted
    <3>4. t = Fix(MkNode(n.key, n.env, l, n.right))
      BY <1>2, <2>5, <3>1, PutDef
    <3>5. l.height - n.right.height \in -2..2 /\ 1 + Higher(l.height, n.right.height) <= MaxPuts
      BY <3>3, <2>1, <2>2, <1>0 DEF Higher
    <3>6. \A k \in TreeKeys(l) : k < n.key
      <4>1. \A m \in NodesOf(l) : m.key < n.key
        BY <3>3, <2>3, <2>5
      <4> QED BY <4>1, KeysOfNodes
    <3>7. /\ t \in Trees /\ Balanced(t) /\ Ordered(t)
          /\ NodesOf(t) = NodesOf(l) \cup {[key |-> n.key, env |-> n.env]} \cup NodesOf(n.right)
          /\ t.height \in {Higher(l.height, n.right.height), 1 + Higher(l.height, n.right.height)}
          /\ l.height - n.right.height \in -1..1
               => t.height = 1 + Higher(l.height, n.right.height)
      BY <3>3, <3>4, <3>5, <3>6, <2>1, <2>2, FixFacts
    <3>8. t.height \in {n.height, n.height + 1}
      BY <3>3, <3>7, <2>1, <2>2 DEF Higher
    <3>9. NodesOf(t) = {m \in NodesOf(n) : m.key # key} \cup {[key |-> key, env |-> env]}
      <4>1. NodeAt(n).key # key /\ \A m \in NodesOf(n.right) : m.key # key
        BY <2>1, <2>3, <2>5 DEF NodeAt
      <4>2. NodesOf(t) = NodesOf(l) \cup {NodeAt(n)} \cup NodesOf(n.right)
        BY <3>7 DEF NodeAt
      <4> QED BY <4>1, <4>2, <3>3, <2>2
    <3> QED BY <3>7, <3>8, <3>9 DEF Inserted
  <2>6. CASE n.key < key
    <3>1. PICK r : r = Put(n.right, key, env)
      OBVIOUS
    <3>2. Inserted(n.right, key, env, r)
      BY <1>2, <2>1, <2>2, <3>1, <1>0
    <3>3. /\ r \in Trees /\ Balanced(r) /\ Ordered(r)
          /\ r.height \in {n.right.height, n.right.height + 1}
          /\ NodesOf(r) = {m \in NodesOf(n.right) : m.key # key} \cup {[key |-> key, env |-> env]}
      BY <3>2 DEF Inserted
    <3>4. t = Fix(MkNode(n.key, n.env, n.left, r))
      BY <1>2, <2>6, <3>1, PutDef
    <3>5. n.left.height - r.height \in -2..2 /\ 1 + Higher(n.left.height, r.height) <= MaxPuts
      BY <3>3, <2>1, <2>2, <1>0 DEF Higher
    <3>6. \A k \in TreeKeys(r) : n.key < k
      <4>1. \A m \in NodesOf(r) : n.key < m.key
        BY <3>3, <2>3, <2>6
      <4> QED BY <4>1, KeysOfNodes
    <3>7. /\ t \in Trees /\ Balanced(t) /\ Ordered(t)
          /\ NodesOf(t) = NodesOf(n.left) \cup {[key |-> n.key, env |-> n.env]} \cup NodesOf(r)
          /\ t.height \in {Higher(n.left.height, r.height), 1 + Higher(n.left.height, r.height)}
          /\ n.left.height - r.height \in -1..1
               => t.height = 1 + Higher(n.left.height, r.height)
      BY <3>3, <3>4, <3>5, <3>6, <2>1, <2>2, FixFacts
    <3>8. t.height \in {n.height, n.height + 1}
      BY <3>3, <3>7, <2>1, <2>2 DEF Higher
    <3>9. NodesOf(t) = {m \in NodesOf(n) : m.key # key} \cup {[key |-> key, env |-> env]}
      <4>1. NodeAt(n).key # key /\ \A m \in NodesOf(n.left) : m.key # key
        BY <2>1, <2>3, <2>6 DEF NodeAt
      <4>2. NodesOf(t) = NodesOf(n.left) \cup {NodeAt(n)} \cup NodesOf(r)
        BY <3>7 DEF NodeAt
      <4> QED BY <4>1, <4>2, <3>3, <2>2
    <3> QED BY <3>7, <3>8, <3>9 DEF Inserted
  <2> QED BY <2>1, <2>4, <2>5, <2>6
<1> HIDE DEF S
<1>3. tree \in S
  BY <1>1, <1>2, TreeInduction
<1> QED BY <1>3 DEF S

\* The recursion of the removal is well defined.
LEMMA RemoveLeftDef ==
  ASSUME NEW n \in Trees
  PROVE  /\ IsNil(n) => RemoveLeft(n) = Nil
         /\ ~IsNil(n) /\ IsNil(n.left) => RemoveLeft(n) = n.right
         /\ ~IsNil(n) /\ ~IsNil(n.left) =>
              RemoveLeft(n) = Fix(MkNode(n.key, n.env, RemoveLeft(n.left), n.right))
<1> DEFINE V == AllTrees
           step == [x \in Trees \X V \X V |->
                      IF IsNil(x[1].left) THEN x[1].right
                      ELSE Fix(MkNode(x[1].key, x[1].env, x[2], x[1].right))]
           body(f, m) == IF IsNil(m) THEN Nil
                         ELSE IF IsNil(m.left) THEN m.right
                         ELSE Fix(MkNode(m.key, m.env, f[m.left], m.right))
           From == CHOOSE f : f = [m \in Trees |-> body(f, m)]
<1>1. ASSUME NEW m \in Trees, NEW a \in V, NEW b \in V
      PROVE  step[<<m, a, b>>] = IF IsNil(m.left) THEN m.right
                                 ELSE Fix(MkNode(m.key, m.env, a, m.right))
  <2>1. <<m, a, b>> \in Trees \X V \X V
    OBVIOUS
  <2> QED BY <2>1
<1>2. \A m \in Trees : ~IsNil(m) => \A a, b \in V : step[<<m, a, b>>] \in V
  <2> SUFFICES ASSUME NEW m \in Trees, ~IsNil(m), NEW a \in V, NEW b \in V
               PROVE  step[<<m, a, b>>] \in V
    OBVIOUS
  <2>1. m.key \in Int /\ m.env \in Envelopes /\ m.left \in V /\ m.right \in V
    BY TreesBounded, TreeFacts
  <2>2. Fix(MkNode(m.key, m.env, a, m.right)) \in V
    BY <2>1, FixIsTree
  <2> HIDE DEF step
  <2> QED BY <1>1, <2>1, <2>2
<1>3. Nil \in V
  BY NilFacts
<1>4. PICK f \in [Trees -> V] : Recurses(f, Nil, step)
  <2>1. PICK base : base = Nil
    OBVIOUS
  <2> HIDE DEF step, V
  <2>2. base \in V
    BY <2>1, <1>3
  <2>3. \E f \in [Trees -> V] : Recurses(f, base, step)
    BY <1>2, <2>2, TreeRecursion
  <2> QED BY <2>1, <2>3
<1>5. ASSUME NEW m \in Trees PROVE f[m] = body(f, m)
  <2>1. CASE IsNil(m)
    BY <2>1, <1>4 DEF Recurses
  <2>2. CASE ~IsNil(m)
    <3>1. f[m.left] \in V /\ f[m.right] \in V
      BY <2>2, ChildrenInTrees
    <3>2. f[m] = step[<<m, f[m.left], f[m.right]>>]
      <4> HIDE DEF step
      <4> QED BY <2>2, <1>4 DEF Recurses
    <3> HIDE DEF step
    <3> QED BY <2>2, <3>1, <3>2, <1>1
  <2> QED BY <2>1, <2>2
<1>6. f = [m \in Trees |-> body(f, m)]
  <2> HIDE DEF body
  <2> QED BY <1>5
<1>7. From = [m \in Trees |-> body(From, m)]
  <2> HIDE DEF body
  <2> QED BY <1>6
<1>8. \A m \in Trees : From[m] = body(From, m)
  <2> HIDE DEF body, From
  <2> QED BY <1>7
<1>9. \A m : RemoveLeft(m) = From[m]
  BY DEF RemoveLeft
<1> HIDE DEF From
<1> QED BY <1>8, <1>9

\* Remove, called with the least key, takes the node that has it, and keeps the
\* tree ordered and balanced.
Removed(n, t) ==
  /\ t \in Trees /\ Balanced(t) /\ Ordered(t)
  /\ t.height \in {n.height - 1, n.height}
  /\ \E old \in NodesOf(n) :
       /\ \A m \in NodesOf(n) : m # old => old.key < m.key
       /\ NodesOf(t) = NodesOf(n) \ {old}

LEMMA RemovalHeight ==
  ASSUME NEW h \in Nat, NEW l \in Nat, NEW r \in Nat, NEW x \in Nat, NEW t,
         h = 1 + l \/ h = 1 + r, l < h, r < h, l - r \in -1..1, x \in {l - 1, l},
         t \in {Higher(x, r), 1 + Higher(x, r)},
         x - r \in -1..1 => t = 1 + Higher(x, r)
  PROVE  t \in {h - 1, h}
<1>1. t \in Nat
  BY DEF Higher
<1>2. CASE x > r
  BY <1>1, <1>2 DEF Higher
<1>3. CASE x <= r
  BY <1>1, <1>3 DEF Higher
<1> QED BY <1>2, <1>3

LEMMA RemoveLeftFacts ==
  ASSUME NEW tree \in Trees, ~IsNil(tree), Balanced(tree), Ordered(tree)
  PROVE  Removed(tree, RemoveLeft(tree))
<1> DEFINE S == {n \in Trees : ~IsNil(n) /\ Balanced(n) /\ Ordered(n) => Removed(n, RemoveLeft(n))}
<1>0. MaxPuts \in Nat
  BY TreeAssumption
<1>1. Nil \in S
  BY NilFacts
<1>2. ASSUME NEW n \in Trees, ~IsNil(n), n.left \in S, n.right \in S PROVE n \in S
  <2> SUFFICES ASSUME Balanced(n), Ordered(n), NEW t, t = RemoveLeft(n)
               PROVE  Removed(n, t)
    OBVIOUS
  <2>1. /\ n.key \in Int /\ n.env \in Envelopes /\ n.left \in Trees /\ n.right \in Trees
        /\ n.height \in Nat /\ n.left.height \in Nat /\ n.right.height \in Nat
        /\ n.height = 1 + n.left.height \/ n.height = 1 + n.right.height
        /\ n.left.height < n.height /\ n.right.height < n.height
        /\ n.height <= 2 + n.left.height /\ n.height <= 2 + n.right.height
        /\ Balanced(n.left) /\ Balanced(n.right) /\ n.height <= MaxPuts
    BY <1>2, BalancedNode, TreesBounded
  <2>2. /\ NodesOf(n) = NodesOf(n.left) \cup {NodeAt(n)} \cup NodesOf(n.right)
        /\ \A k \in TreeKeys(n.left) : k < n.key
        /\ \A k \in TreeKeys(n.right) : n.key < k
        /\ Ordered(n.left) /\ Ordered(n.right)
        /\ n.left.height - n.right.height \in -1..1
    BY <1>2, Contents
  <2>3. /\ \A m \in NodesOf(n.left) : m.key \in Int /\ m.key < n.key
        /\ \A m \in NodesOf(n.right) : m.key \in Int /\ n.key < m.key
        /\ NodeAt(n).key = n.key
    <3>1. /\ \A m \in NodesOf(n.left) : m.key \in TreeKeys(n.left)
          /\ \A m \in NodesOf(n.right) : m.key \in TreeKeys(n.right)
      BY KeysOfNodes
    <3>2. TreeKeys(n.left) \subseteq Int /\ TreeKeys(n.right) \subseteq Int
      BY <2>1, NodesStored
    <3> QED BY <3>1, <3>2, <2>2 DEF NodeAt
  <2>4. CASE IsNil(n.left)
    <3>1. t = n.right
      BY <1>2, <2>4, RemoveLeftDef
    <3>2. n.left = Nil
      BY <2>1, <2>4, TreesBounded, TreeFacts
    <3>3. NodesOf(n.left) = {} /\ n.left.height = 0
      BY <3>2, NilContents, NilFacts
    <3>4. /\ NodeAt(n) \in NodesOf(n)
          /\ \A m \in NodesOf(n) : m # NodeAt(n) => NodeAt(n).key < m.key
      BY <2>2, <2>3, <3>3
    <3>5. NodesOf(t) = NodesOf(n) \ {NodeAt(n)}
      <4>1. NodeAt(n) \notin NodesOf(n.right)
        BY <2>1, <2>3
      <4> QED BY <4>1, <3>1, <3>3, <2>2
    <3>6. t.height \in {n.height - 1, n.height}
      BY <3>1, <3>3, <2>1
    <3> QED BY <3>1, <3>4, <3>5, <3>6, <2>1, <2>2 DEF Removed
  <2>5. CASE ~IsNil(n.left)
    <3>1. PICK l : l = RemoveLeft(n.left)
      OBVIOUS
    <3>2. Removed(n.left, l)
      BY <1>2, <2>1, <2>2, <2>5, <3>1
    <3>3. /\ l \in Trees /\ Balanced(l) /\ Ordered(l)
          /\ l.height \in {n.left.height - 1, n.left.height}
      BY <3>2 DEF Removed
    <3>4. PICK old \in NodesOf(n.left) :
            /\ \A m \in NodesOf(n.left) : m # old => old.key < m.key
            /\ NodesOf(l) = NodesOf(n.left) \ {old}
      BY <3>2 DEF Removed
    <3>5. t = Fix(MkNode(n.key, n.env, l, n.right))
      BY <1>2, <2>5, <3>1, RemoveLeftDef
    <3>6. l.height \in Nat
      BY <3>3, TreesBounded, TreeFacts
    <3>7. l.height - n.right.height \in -2..2 /\ 1 + Higher(l.height, n.right.height) <= MaxPuts
      BY <3>3, <3>6, <2>1, <2>2, <1>0 DEF Higher
    <3>8. \A k \in TreeKeys(l) : k < n.key
      <4>1. \A m \in NodesOf(l) : m.key < n.key
        BY <3>4, <2>3
      <4> QED BY <4>1, KeysOfNodes
    <3>9. /\ t \in Trees /\ Balanced(t) /\ Ordered(t)
          /\ NodesOf(t) = NodesOf(l) \cup {[key |-> n.key, env |-> n.env]} \cup NodesOf(n.right)
          /\ t.height \in {Higher(l.height, n.right.height), 1 + Higher(l.height, n.right.height)}
          /\ l.height - n.right.height \in -1..1
               => t.height = 1 + Higher(l.height, n.right.height)
      BY <3>3, <3>5, <3>7, <3>8, <2>1, <2>2, FixFacts
    <3>10. t.height \in {n.height - 1, n.height}
      <4>1. PICK h \in Nat, lh \in Nat, r \in Nat, x \in Nat :
              h = n.height /\ lh = n.left.height /\ r = n.right.height /\ x = l.height
        BY <3>6, <2>1
      <4>2. /\ h = 1 + lh \/ h = 1 + r
            /\ lh < h /\ r < h /\ lh - r \in -1..1
        BY <4>1, <2>1, <2>2
      <4>3. /\ x \in {lh - 1, lh} /\ t.height \in {Higher(x, r), 1 + Higher(x, r)}
            /\ x - r \in -1..1 => t.height = 1 + Higher(x, r)
        BY <4>1, <3>3, <3>9
      <4>4. t.height \in {h - 1, h}
        BY <4>2, <4>3, RemovalHeight
      <4> QED BY <4>1, <4>4
    <3>11. old \in NodesOf(n) /\ \A m \in NodesOf(n) : m # old => old.key < m.key
      BY <3>4, <2>1, <2>2, <2>3
    <3>12. NodesOf(t) = NodesOf(n) \ {old}
      <4>1. old # NodeAt(n) /\ old \notin NodesOf(n.right)
        BY <3>4, <2>1, <2>3
      <4>2. NodesOf(t) = NodesOf(l) \cup {NodeAt(n)} \cup NodesOf(n.right)
        BY <3>9 DEF NodeAt
      <4> QED BY <4>1, <4>2, <3>4, <2>2
    <3> QED BY <3>9, <3>10, <3>11, <3>12 DEF Removed
  <2> QED BY <2>4, <2>5
<1> HIDE DEF S
<1>3. tree \in S
  BY <1>1, <1>2, TreeInduction
<1> QED BY <1>3 DEF S

-----------------------------------------------------------------------------
(* The invariant of the tree. *)

LEMMA KeysFinite == \A n \in Trees : IsFiniteSet(TreeKeys(n))
<1> DEFINE S == {n \in Trees : IsFiniteSet(TreeKeys(n))}
<1>1. Nil \in S
  BY NilFacts, NilContents, FS_EmptySet
<1>2. ASSUME NEW n \in Trees, ~IsNil(n), n.left \in S, n.right \in S PROVE n \in S
  <2>1. TreeKeys(n) = (TreeKeys(n.left) \cup {n.key}) \cup TreeKeys(n.right)
    BY <1>2, Contents
  <2>2. IsFiniteSet(TreeKeys(n.left)) /\ IsFiniteSet(TreeKeys(n.right))
    BY <1>2
  <2>3. IsFiniteSet(TreeKeys(n.left) \cup {n.key})
    BY <2>2, FS_AddElement
  <2>4. IsFiniteSet((TreeKeys(n.left) \cup {n.key}) \cup TreeKeys(n.right))
    BY <2>2, <2>3, FS_Union
  <2> QED BY <2>1, <2>4
<1> HIDE DEF S
<1>3. Trees \subseteq S
  BY <1>1, <1>2, TreeInduction
<1> QED BY <1>3 DEF S

\* No two nodes of an ordered tree have the same key.
LEMMA KeysDistinct ==
  ASSUME NEW tree \in Trees, Ordered(tree),
         NEW m \in NodesOf(tree), NEW o \in NodesOf(tree), m.key = o.key
  PROVE  m = o
<1> DEFINE S == {n \in Trees : Ordered(n) => \A x, y \in NodesOf(n) : x.key = y.key => x = y}
<1>1. Nil \in S
  BY NilFacts, NilContents
<1>2. ASSUME NEW n \in Trees, ~IsNil(n), n.left \in S, n.right \in S PROVE n \in S
  <2> SUFFICES ASSUME Ordered(n), NEW x \in NodesOf(n), NEW y \in NodesOf(n), x.key = y.key
               PROVE  x = y
    OBVIOUS
  <2>1. /\ NodesOf(n) = NodesOf(n.left) \cup {NodeAt(n)} \cup NodesOf(n.right)
        /\ \A k \in TreeKeys(n.left) : k < n.key
        /\ \A k \in TreeKeys(n.right) : n.key < k
        /\ Ordered(n.left) /\ Ordered(n.right) /\ NodeAt(n).key = n.key
    BY <1>2, Contents DEF NodeAt
  <2>2. /\ \A z \in NodesOf(n.left) : z.key \in TreeKeys(n.left)
        /\ \A z \in NodesOf(n.right) : z.key \in TreeKeys(n.right)
    BY KeysOfNodes
  <2>3. TreeKeys(n.left) \subseteq Int /\ TreeKeys(n.right) \subseteq Int /\ n.key \in Int
    BY <1>2, NodesStored, ChildrenInTrees, TreesBounded, TreeFacts
  <2> QED BY <2>1, <2>2, <2>3, <1>2
<1> HIDE DEF S
<1>3. tree \in S
  BY <1>1, <1>2, TreeInduction
<1> QED BY <1>3 DEF S

\* The timestampFudge loop ends at the first free key, or at the last it may try.
LEMMA FudgedKeyFacts ==
  ASSUME NEW n, NEW ts \in Int
  PROVE  \E f \in 0..MaxTimestampFudge :
           /\ FudgedKey(n, ts) = ts + f
           /\ \A g \in 0..(f - 1) : ts + g \in TreeKeys(n)
           /\ f = MaxTimestampFudge \/ ts + f \notin TreeKeys(n)
<1> DEFINE K == TreeKeys(n)
           Taken(f) == \A g \in 0..(f - 1) : ts + g \in K
           Good(f) == Taken(f) /\ (f = MaxTimestampFudge \/ ts + f \notin K)
           T == {f \in Nat : Taken(f) \/ \E h \in 0..(f - 1) : Taken(h) /\ ts + h \notin K}
<1>0. MaxTimestampFudge \in Nat
  BY TreeAssumption
<1> HIDE DEF K
<1>1. 0 \in T
  OBVIOUS
<1>2. ASSUME NEW f \in T PROVE f + 1 \in T
  <2>1. CASE \E h \in 0..(f - 1) : Taken(h) /\ ts + h \notin K
    <3>1. PICK h \in 0..(f - 1) : Taken(h) /\ ts + h \notin K
      BY <2>1
    <3>2. h \in 0..((f + 1) - 1)
      OBVIOUS
    <3> HIDE DEF Taken
    <3> QED BY <3>1, <3>2
  <2>2. CASE Taken(f) /\ ts + f \notin K
    <3>1. f \in 0..((f + 1) - 1)
      OBVIOUS
    <3> HIDE DEF Taken
    <3> QED BY <2>2, <3>1
  <2>3. CASE Taken(f) /\ ts + f \in K
    <3>1. Taken(f + 1)
      BY <2>3
    <3> HIDE DEF Taken
    <3> QED BY <3>1
  <2> HIDE DEF Taken
  <2> QED BY <2>1, <2>2, <2>3
<1>3. MaxTimestampFudge \in T
  <2> HIDE DEF T
  <2>1. T \subseteq Nat
    BY DEF T
  <2> QED BY <2>1, <1>0, <1>1, <1>2, SetInduction
<1>4. \E f \in 0..MaxTimestampFudge : Good(f)
  <2>1. CASE Taken(MaxTimestampFudge)
    <3> HIDE DEF Taken
    <3> QED BY <2>1, <1>0
  <2>2. CASE \E h \in 0..(MaxTimestampFudge - 1) : Taken(h) /\ ts + h \notin K
    <3>1. PICK h \in 0..(MaxTimestampFudge - 1) : Taken(h) /\ ts + h \notin K
      BY <2>2
    <3>2. h \in 0..MaxTimestampFudge
      BY <1>0
    <3> HIDE DEF Taken
    <3> QED BY <3>1, <3>2
  <2> HIDE DEF Taken
  <2> QED BY <1>3, <2>1, <2>2
<1>5. PICK c : c = CHOOSE f \in 0..MaxTimestampFudge : Good(f)
  OBVIOUS
<1>6. c \in 0..MaxTimestampFudge /\ Good(c)
  <2> HIDE DEF Good
  <2> QED BY <1>4, <1>5
<1>7. FudgedKey(n, ts) = ts + c
  BY <1>5 DEF FudgedKey, K
<1> QED BY <1>6, <1>7 DEF K

TreeInv == TypeOK /\ root.height <= puts

LEMMA TreeInit == Init => TreeInv
<1> SUFFICES ASSUME Init PROVE TreeInv
  OBVIOUS
<1>1. root = Nil /\ puts = 0
  BY DEF Init
<1>2. Size(Nil) = 0
  BY NilContents, FS_EmptySet DEF Size
<1>3. Size(root) <= MaxPerSource /\ puts \in 0..MaxPuts
  BY <1>1, <1>2, TreeAssumption
<1>4. root \in Trees /\ Balanced(root) /\ Ordered(root) /\ NodesOf(root) = {} /\ root.height = 0
  BY <1>1, NilFacts, NilContents
<1> QED BY <1>1, <1>3, <1>4 DEF TreeInv, TypeOK

\* A node is the oldest of a set of nodes.
Oldest(old, nodes) == old \in nodes /\ \A m \in nodes : m # old => old.key < m.key

\* A removal from the tree.
LEMMA RemovalFacts ==
  ASSUME TypeOK, ~IsNil(root), NEW t, t = RemoveLeft(root)
  PROVE  /\ t \in Trees /\ Balanced(t) /\ Ordered(t) /\ t.height <= root.height
         /\ Size(t) = Size(root) - 1 /\ Size(root) \in Nat
         /\ \E old : Oldest(old, NodesOf(root)) /\ NodesOf(t) = NodesOf(root) \ {old}
<1>0. root \in Trees /\ Balanced(root) /\ Ordered(root)
  BY DEF TypeOK
<1>1. Removed(root, t)
  BY <1>0, RemoveLeftFacts
<1>2. t \in Trees /\ Balanced(t) /\ Ordered(t) /\ t.height \in {root.height - 1, root.height}
  BY <1>1 DEF Removed
<1>3. PICK old \in NodesOf(root) :
        /\ \A m \in NodesOf(root) : m # old => old.key < m.key
        /\ NodesOf(t) = NodesOf(root) \ {old}
  BY <1>1 DEF Removed
<1>4. TreeKeys(t) = TreeKeys(root) \ {old.key} /\ old.key \in TreeKeys(root)
  <2>1. TreeKeys(t) = {m.key : m \in NodesOf(t)} /\ TreeKeys(root) = {m.key : m \in NodesOf(root)}
    BY KeysOfNodes
  <2>2. \A m \in NodesOf(t) : m \in NodesOf(root) /\ m.key # old.key
    BY <1>3, <1>0, KeysDistinct
  <2> QED BY <2>1, <2>2, <1>3
<1>5. IsFiniteSet(TreeKeys(root)) /\ Size(root) \in Nat
  BY <1>0, KeysFinite, FS_CardinalityType DEF Size
<1>6. Size(t) = Size(root) - 1
  BY <1>4, <1>5, FS_RemoveElement DEF Size
<1>7. root.height \in Nat /\ t.height <= root.height
  BY <1>0, <1>2, TreesBounded, TreeFacts
<1> QED BY <1>2, <1>3, <1>5, <1>6, <1>7 DEF Oldest

\* The tree that insertOrSwap puts an envelope into.
Room == IF Size(root) >= MaxPerSource THEN RemoveLeft(root) ELSE root

LEMMA RoomFacts ==
  ASSUME TypeOK, NEW room, room = Room
  PROVE  /\ room \in Trees /\ Balanced(room) /\ Ordered(room) /\ room.height <= root.height
         /\ Size(room) \in Nat /\ Size(room) < MaxPerSource
         /\ NodesOf(room) \subseteq NodesOf(root)
         /\ IF Size(root) >= MaxPerSource
              THEN \E old : Oldest(old, NodesOf(root)) /\ NodesOf(room) = NodesOf(root) \ {old}
              ELSE room = root
<1>0. /\ root \in Trees /\ Balanced(root) /\ Ordered(root) /\ Size(root) <= MaxPerSource
      /\ MaxPerSource \in Nat \ {0}
  BY TreeAssumption DEF TypeOK
<1>1. Size(root) \in Nat /\ root.height \in Nat
  BY <1>0, KeysFinite, FS_CardinalityType, TreesBounded, TreeFacts DEF Size
<1>2. CASE Size(root) >= MaxPerSource
  <2>1. ~IsNil(root)
    <3> SUFFICES ASSUME IsNil(root) PROVE FALSE
      OBVIOUS
    <3>1. root = Nil
      BY <1>0, TreesBounded, TreeFacts
    <3>2. Size(root) = 0
      BY <3>1, NilContents, FS_EmptySet DEF Size
    <3> QED BY <3>2, <1>0, <1>2
  <2>2. room = RemoveLeft(root)
    BY <1>2 DEF Room
  <2>3. /\ room \in Trees /\ Balanced(room) /\ Ordered(room) /\ room.height <= root.height
        /\ Size(room) = Size(root) - 1
        /\ \E old : Oldest(old, NodesOf(root)) /\ NodesOf(room) = NodesOf(root) \ {old}
    BY <2>1, <2>2, RemovalFacts
  <2>4. Size(room) \in Nat /\ Size(room) < MaxPerSource
    BY <1>0, <1>1, <1>2, <2>3
  <2> QED BY <1>2, <2>3, <2>4
<1>3. CASE ~(Size(root) >= MaxPerSource)
  <2>1. room = root
    BY <1>3 DEF Room
  <2>2. Size(room) < MaxPerSource /\ room.height <= root.height
    BY <1>0, <1>1, <1>3, <2>1
  <2> QED BY <1>0, <1>1, <1>3, <2>1, <2>2
<1> QED BY <1>2, <1>3

\* What an insertion makes of the tree.
LEMMA InsertionFacts ==
  ASSUME TypeOK, root.height <= puts, puts < MaxPuts, NEW env \in Envelopes,
         NEW room, room = Room, NEW key, key = FudgedKey(room, env.timestamp),
         NEW t, t = Put(room, key, env)
  PROVE  /\ Inserted(room, key, env, t) /\ t.height <= puts + 1
         /\ Size(t) <= MaxPerSource
         /\ key \in Int /\ key - env.timestamp \in 0..MaxTimestampFudge
<1>0. puts \in Nat /\ MaxPuts \in Nat /\ MaxPerSource \in Nat /\ MaxTimestampFudge \in Nat
  BY TreeAssumption DEF TypeOK
<1>1. env.timestamp \in Int
  BY TreeAssumption
<1>2. key \in Int /\ key - env.timestamp \in 0..MaxTimestampFudge
  <2>1. PICK f \in 0..MaxTimestampFudge : key = env.timestamp + f
    BY <1>1, FudgedKeyFacts
  <2> QED BY <2>1, <1>0, <1>1
<1>3. /\ room \in Trees /\ Balanced(room) /\ Ordered(room) /\ room.height <= root.height
      /\ Size(room) \in Nat /\ Size(room) < MaxPerSource
  BY RoomFacts
<1>4. root.height \in Nat /\ room.height \in Nat
  BY <1>3, TreesBounded, TreeFacts DEF TypeOK
<1>5. room.height < MaxPuts
  BY <1>0, <1>3, <1>4
<1>6. Inserted(room, key, env, t)
  BY <1>2, <1>3, <1>5, PutFacts
<1>7. t.height <= puts + 1
  <2>1. t.height \in {room.height, room.height + 1}
    BY <1>6 DEF Inserted
  <2> QED BY <2>1, <1>0, <1>3, <1>4
<1>8. TreeKeys(t) = TreeKeys(room) \cup {key}
  <2>1. NodesOf(t) = {m \in NodesOf(room) : m.key # key} \cup {[key |-> key, env |-> env]}
    BY <1>6 DEF Inserted
  <2>2. TreeKeys(t) = {m.key : m \in NodesOf(t)} /\ TreeKeys(room) = {m.key : m \in NodesOf(room)}
    BY KeysOfNodes
  <2>3. [key |-> key, env |-> env] \in NodesOf(t) /\ [key |-> key, env |-> env].key = key
    BY <2>1
  <2>4. TreeKeys(t) \subseteq TreeKeys(room) \cup {key}
    BY <2>1, <2>2
  <2>5. key \in TreeKeys(t)
    BY <2>2, <2>3
  <2>6. \A m \in NodesOf(room) : m.key # key => m \in NodesOf(t)
    BY <2>1
  <2> QED BY <2>2, <2>4, <2>5, <2>6
<1>9. Size(t) <= MaxPerSource
  <2>1. IsFiniteSet(TreeKeys(room))
    BY <1>3, KeysFinite
  <2>2. Size(t) = Size(room) \/ Size(t) = Size(room) + 1
    BY <1>8, <2>1, FS_AddElement, SMTT(30) DEF Size
  <2> QED BY <2>2, <1>0, <1>3
<1> QED BY <1>2, <1>6, <1>7, <1>9

LEMMA TreeStepInv == TreeInv /\ [Next]_vars => TreeInv'
<1> SUFFICES ASSUME TreeInv, [Next]_vars PROVE TreeInv'
  OBVIOUS
<1>0. TypeOK /\ root.height <= puts
  BY DEF TreeInv
<1>a. /\ puts \in 0..MaxPuts /\ root \in Trees /\ Size(root) <= MaxPerSource
      /\ \A m \in NodesOf(root) : m.key - m.env.timestamp \in 0..MaxTimestampFudge
      /\ MaxPuts \in Nat /\ MaxPerSource \in Nat
  BY <1>0, TreeAssumption DEF TypeOK
<1>1. ASSUME NEW env \in Envelopes, InsertOrSwap(env) PROVE TreeInv'
  <2>1. PICK room : room = Room
    OBVIOUS
  <2>2. PICK key : key = FudgedKey(room, env.timestamp)
    OBVIOUS
  <2>3. PICK t : t = Put(room, key, env)
    OBVIOUS
  <2>4. puts < MaxPuts /\ puts' = puts + 1 /\ root' = t
    BY <1>1, <2>1, <2>2, <2>3 DEF InsertOrSwap, Room
  <2>5. /\ Inserted(room, key, env, t) /\ t.height <= puts + 1 /\ Size(t) <= MaxPerSource
        /\ key \in Int /\ key - env.timestamp \in 0..MaxTimestampFudge
    BY <1>0, <2>1, <2>2, <2>3, <2>4, InsertionFacts
  <2>6. /\ t \in Trees /\ Balanced(t) /\ Ordered(t)
        /\ NodesOf(t) = {m \in NodesOf(room) : m.key # key} \cup {[key |-> key, env |-> env]}
    BY <2>5 DEF Inserted
  <2>7. NodesOf(room) \subseteq NodesOf(root)
    BY <1>0, <2>1, RoomFacts
  <2>8. \A m \in NodesOf(t) : m.key - m.env.timestamp \in 0..MaxTimestampFudge
    BY <1>a, <2>5, <2>6, <2>7
  <2>9. puts' \in 0..MaxPuts /\ root'.height <= puts'
    BY <1>a, <2>4, <2>5
  <2> QED BY <2>4, <2>5, <2>6, <2>8, <2>9 DEF TreeInv, TypeOK
<1>2. CASE RemoveOldestEnvelope
  <2>1. PICK t : t = RemoveLeft(root)
    OBVIOUS
  <2>2. ~IsNil(root) /\ root' = t /\ puts' = puts
    BY <1>2, <2>1 DEF RemoveOldestEnvelope
  <2>3. /\ t \in Trees /\ Balanced(t) /\ Ordered(t) /\ t.height <= root.height
        /\ Size(t) = Size(root) - 1 /\ Size(root) \in Nat
    BY <1>0, <2>1, <2>2, RemovalFacts
  <2>4. PICK old : Oldest(old, NodesOf(root)) /\ NodesOf(t) = NodesOf(root) \ {old}
    BY <1>0, <2>1, <2>2, RemovalFacts
  <2>5. \A m \in NodesOf(t) : m.key - m.env.timestamp \in 0..MaxTimestampFudge
    BY <1>a, <2>4
  <2>6. t.height \in Nat /\ root.height \in Nat
    BY <1>a, <2>3, TreesBounded, TreeFacts
  <2>7. t.height <= puts /\ Size(t) <= MaxPerSource
    BY <1>0, <1>a, <2>3, <2>6
  <2> QED BY <1>a, <2>2, <2>3, <2>5, <2>7 DEF TreeInv, TypeOK
<1>3. CASE UNCHANGED vars
  BY <1>0, <1>3 DEF vars, TreeInv, TypeOK
<1> QED BY <1>1, <1>2, <1>3 DEF Next

\* Whatever is put and removed, gods' tree as insertOrSwap and
\* removeOldestEnvelope use it stays a balanced search tree of at most
\* maxPerSource nodes, each within the fudge of its envelope's timestamp.
THEOREM TypeCorrect == Spec => []TypeOK
<1>1. TreeInv => TypeOK
  BY DEF TreeInv
<1> QED BY <1>1, TreeInit, TreeStepInv, PTL DEF Spec

-----------------------------------------------------------------------------
(* The tree implements the set of nodes of EnvelopeStore. *)

\* EnvelopeStore counts nodes with its own instance of FiniteSets.
LEMMA SameCardinality == \A S : Promise!Cardinality(S) = Cardinality(S)
  BY DEF Promise!Cardinality, Cardinality

\* What EnvelopeStore sees of a node, and of a tree.
Filed(m) == [key |-> m.key, timestamp |-> m.env.timestamp]
FiledIn(n) == {Filed(m) : m \in NodesOf(n)}

LEMMA FiledFacts ==
  ASSUME NEW n \in Trees, Ordered(n)
  PROVE  /\ Cardinality(FiledIn(n)) = Size(n)
         /\ TreeKeys(n) = Promise!Keys(FiledIn(n))
<1>1. \A m \in NodesOf(n) : Filed(m).key = m.key
  BY DEF Filed
<1>2. TreeKeys(n) = {m.key : m \in NodesOf(n)}
  BY KeysOfNodes
<1>3. \A x \in FiledIn(n) : \E m \in NodesOf(n) : x = Filed(m)
  BY DEF FiledIn
<1>4. \A m \in NodesOf(n) : Filed(m) \in FiledIn(n)
  BY DEF FiledIn
<1>5. \A x \in FiledIn(n) : x.key \in TreeKeys(n)
  BY <1>1, <1>2, <1>3
<1>6. \A k \in TreeKeys(n) : \E x \in FiledIn(n) : x.key = k
  <2> SUFFICES ASSUME NEW k \in TreeKeys(n) PROVE \E x \in FiledIn(n) : x.key = k
    OBVIOUS
  <2>1. PICK m \in NodesOf(n) : m.key = k
    BY <1>2
  <2>2. Filed(m) \in FiledIn(n) /\ Filed(m).key = k
    BY <2>1, <1>1, <1>4
  <2> QED BY <2>2
<1>7. \A x, y \in FiledIn(n) : x.key = y.key => x = y
  <2> SUFFICES ASSUME NEW x \in FiledIn(n), NEW y \in FiledIn(n), x.key = y.key PROVE x = y
    OBVIOUS
  <2>1. PICK m \in NodesOf(n) : x = Filed(m)
    BY <1>3
  <2>2. PICK o \in NodesOf(n) : y = Filed(o)
    BY <1>3
  <2>3. m.key = o.key
    BY <2>1, <2>2, <1>1
  <2>4. m = o
    BY <2>3, KeysDistinct
  <2> QED BY <2>1, <2>2, <2>4
<1>8. Promise!Keys(FiledIn(n)) = TreeKeys(n)
  BY <1>5, <1>6 DEF Promise!Keys
<1>9. Cardinality(FiledIn(n)) = Cardinality(TreeKeys(n))
  <2> DEFINE A == FiledIn(n)
             B == TreeKeys(n)
             F == [x \in A |-> x.key]
  <2> HIDE DEF A, B
  <2>1. F \in [A -> B]
    BY <1>5 DEF A, B
  <2>2. \A x, y \in A : F[x] = F[y] => x = y
    BY <1>7 DEF A
  <2>3. \A k \in B : \E x \in A : F[x] = k
    BY <1>6 DEF A, B
  <2> HIDE DEF F
  <2>4. ExistsBijection(A, B)
    BY <2>1, <2>2, <2>3, Fun_IsBij DEF ExistsBijection
  <2>5. IsFiniteSet(B)
    BY KeysFinite DEF B
  <2>6. ExistsBijection(B, A)
    BY <2>4, Fun_ExistsBijSymmetric
  <2>7. IsFiniteSet(A) /\ Cardinality(A) = Cardinality(B)
    BY <2>5, <2>6, FS_Bijection
  <2> QED BY <2>7 DEF A, B
<1> QED BY <1>8, <1>9 DEF Size

\* The contents that the tree stands for.
Exposed == [s \in {"source"} |-> TreeNodes]

LEMMA ExposedFacts ==
  /\ TreeNodes = FiledIn(root)
  /\ Exposed["source"] = FiledIn(root)
  /\ \A X : FiledIn(root)' = X => Exposed' = [Exposed EXCEPT !["source"] = X]
<1>1. TreeNodes = FiledIn(root)
  BY DEF TreeNodes, FiledIn, Filed
<1>2. Exposed["source"] = FiledIn(root)
  BY <1>1 DEF Exposed
<1>3. TreeNodes' = FiledIn(root)'
  BY DEF TreeNodes, FiledIn, Filed
<1>4. ASSUME NEW X, FiledIn(root)' = X PROVE Exposed' = [Exposed EXCEPT !["source"] = X]
  <2>1. Exposed' = [s \in {"source"} |-> X]
    BY <1>3, <1>4 DEF Exposed
  <2>2. [Exposed EXCEPT !["source"] = X] = [s \in {"source"} |-> X]
    BY DEF Exposed
  <2> QED BY <2>1, <2>2
<1> QED BY <1>1, <1>2, <1>4

LEMMA PromiseInit == Init => Promise!Init
<1> SUFFICES ASSUME Init PROVE Promise!Init
  OBVIOUS
<1>1. NodesOf(root) = {}
  BY NilContents DEF Init
<1>2. TreeNodes = {}
  BY <1>1 DEF TreeNodes
<1> QED BY <1>2 DEF Promise!Init

\* The oldest node of a tree is the oldest that EnvelopeStore sees.
LEMMA OldestIsPromised ==
  ASSUME NEW n \in Trees, Ordered(n), NEW t \in Trees, NEW old,
         Oldest(old, NodesOf(n)), NodesOf(t) = NodesOf(n) \ {old}
  PROVE  /\ Filed(old) \in FiledIn(n) /\ Promise!IsOldest(Filed(old), FiledIn(n))
         /\ FiledIn(t) = FiledIn(n) \ {Filed(old)}
<1>1. old \in NodesOf(n) /\ \A m \in NodesOf(n) : m # old => old.key < m.key
  BY DEF Oldest
<1>2. \A m : Filed(m).key = m.key
  BY DEF Filed
<1>3. \A m \in NodesOf(n) : m.key \in Int
  BY NodesStored DEF Stored
<1>4. /\ \A x \in FiledIn(n) : \E m \in NodesOf(n) : x = Filed(m)
      /\ \A m \in NodesOf(n) : Filed(m) \in FiledIn(n)
      /\ \A x \in FiledIn(t) : \E m \in NodesOf(t) : x = Filed(m)
      /\ \A m \in NodesOf(t) : Filed(m) \in FiledIn(t)
  BY DEF FiledIn
<1>5. \A m \in NodesOf(n) : old.key <= m.key
  BY <1>1, <1>3
<1>6. Promise!IsOldest(Filed(old), FiledIn(n))
  BY <1>1, <1>2, <1>4, <1>5 DEF Promise!IsOldest
<1>7. \A m \in NodesOf(t) : m \in NodesOf(n) /\ Filed(m) # Filed(old)
  <2> SUFFICES ASSUME NEW m \in NodesOf(t) PROVE m \in NodesOf(n) /\ Filed(m) # Filed(old)
    OBVIOUS
  <2>1. m \in NodesOf(n) /\ m # old
    OBVIOUS
  <2>2. old.key < m.key /\ old.key \in Int /\ m.key \in Int
    BY <2>1, <1>1, <1>3
  <2>3. Filed(m).key # Filed(old).key
    BY <2>2, <1>2
  <2> QED BY <2>1, <2>3
<1>8. \A m \in NodesOf(n) : Filed(m) # Filed(old) => m \in NodesOf(t)
  OBVIOUS
<1>9. FiledIn(t) \subseteq FiledIn(n) \ {Filed(old)}
  BY <1>4, <1>7
<1>10. FiledIn(n) \ {Filed(old)} \subseteq FiledIn(t)
  BY <1>4, <1>8
<1> QED BY <1>1, <1>4, <1>6, <1>9, <1>10

\* insertOrSwap on the tree is one of the abstract insertions.
LEMMA InsertionIsPromised ==
  ASSUME TypeOK, root.height <= puts, puts < MaxPuts, NEW env \in Envelopes,
         NEW room, room = Room, NEW key, key = FudgedKey(room, env.timestamp),
         root' = Put(room, key, env)
  PROVE  Promise!Next
<1> DEFINE C == FiledIn(root)
           R == FiledIn(room)
           ts == env.timestamp
           n == [key |-> key, timestamp |-> ts]
<1>0. /\ root \in Trees /\ Ordered(root) /\ ts \in Int
      /\ MaxTimestampFudge \in Nat
  BY TreeAssumption DEF TypeOK
<1>1. PICK t : t = Put(room, key, env)
  OBVIOUS
<1>2. PICK f \in 0..MaxTimestampFudge :
        /\ key = ts + f
        /\ \A g \in 0..(f - 1) : ts + g \in TreeKeys(room)
        /\ f = MaxTimestampFudge \/ ts + f \notin TreeKeys(room)
  BY <1>0, FudgedKeyFacts
<1>3. /\ room \in Trees /\ Ordered(room)
      /\ IF Size(root) >= MaxPerSource
           THEN \E old : Oldest(old, NodesOf(root)) /\ NodesOf(room) = NodesOf(root) \ {old}
           ELSE room = root
  BY RoomFacts
<1>4. n \in Promise!Nodes
  <2>1. n \in Promise!Filings(ts)
    BY <1>2 DEF Promise!Filings
  <2> QED BY <2>1 DEF Promise!Nodes
<1>5. FiledIn(t) = {x \in R : x.key # key} \cup {n}
  <2>1. NodesOf(t) = {m \in NodesOf(room) : m.key # key} \cup {[key |-> key, env |-> env]}
    <3>1. Inserted(room, key, env, t)
      BY <1>1, InsertionFacts
    <3> QED BY <3>1 DEF Inserted
  <2>2. Filed([key |-> key, env |-> env]) = n
    BY DEF Filed
  <2>3. \A m : Filed(m).key = m.key
    BY DEF Filed
  <2> HIDE DEF n
  <2>4. FiledIn(t) \subseteq {x \in R : x.key # key} \cup {n}
    BY <2>1, <2>2, <2>3 DEF FiledIn
  <2>5. {x \in R : x.key # key} \subseteq FiledIn(t)
    BY <2>1, <2>3 DEF FiledIn
  <2>6. n \in FiledIn(t)
    BY <2>1, <2>2 DEF FiledIn
  <2> QED BY <2>4, <2>5, <2>6
<1>6. Promise!Full("source") <=> Size(root) >= MaxPerSource
  <2>1. Promise!Full("source") <=> Cardinality(Exposed["source"]) >= MaxPerSource
    BY SameCardinality DEF Promise!Full, Exposed
  <2> QED BY <2>1, <1>0, ExposedFacts, FiledFacts
<1>7. TreeKeys(room) = Promise!Keys(R)
  BY <1>3, FiledFacts
<1>8. /\ R \in SUBSET C
      /\ IF Promise!Full("source")
           THEN \E old \in C : Promise!IsOldest(old, C) /\ R = C \ {old}
           ELSE R = C
  <2>1. CASE Size(root) >= MaxPerSource
    <3>1. PICK old : Oldest(old, NodesOf(root)) /\ NodesOf(room) = NodesOf(root) \ {old}
      BY <1>3, <2>1
    <3>2. Filed(old) \in C /\ Promise!IsOldest(Filed(old), C) /\ R = C \ {Filed(old)}
      BY <3>1, <1>0, <1>3, OldestIsPromised
    <3> HIDE DEF C, R
    <3> QED BY <3>2, <2>1, <1>6
  <2>2. CASE ~(Size(root) >= MaxPerSource)
    BY <1>3, <1>6, <2>2
  <2> QED BY <2>1, <2>2
<1>9. FiledIn(root)' = FiledIn(t)
  BY <1>1 DEF FiledIn, NodesOf
<1> HIDE DEF C, R
<1>10. Exposed["source"] = C
  BY ExposedFacts DEF C
<1>11. CASE key \notin TreeKeys(room)
  <2>1. {x \in R : x.key # key} = R
    BY <1>7, <1>11 DEF Promise!Keys
  <2>2. n.key \notin Promise!Keys(R)
    BY <1>7, <1>11
  <2> HIDE DEF n
  <2>3. Exposed' = [Exposed EXCEPT !["source"] = R \cup {n}]
    BY <1>5, <1>9, <2>1, ExposedFacts
  <2>4. CASE Promise!Full("source")
    <3>1. PICK old \in C : Promise!IsOldest(old, C) /\ R = C \ {old}
      BY <1>8, <2>4
    <3>2. Promise!AcceptEvicting("source")
      BY <1>4, <1>10, <2>2, <2>3, <2>4, <3>1 DEF Promise!AcceptEvicting, Exposed
    <3> QED BY <3>2 DEF Promise!Next
  <2>5. CASE ~Promise!Full("source")
    <3>1. R = C
      BY <1>8, <2>5
    <3>2. Promise!Accept("source")
      BY <1>4, <1>10, <2>2, <2>3, <2>5, <3>1 DEF Promise!Accept, Exposed
    <3> QED BY <3>2 DEF Promise!Next
  <2> QED BY <2>4, <2>5
<1>12. CASE key \in TreeKeys(room)
  <2>1. f = MaxTimestampFudge
    BY <1>2, <1>12
  <2>2. n.timestamp .. n.key \subseteq Promise!Keys(R)
    <3> SUFFICES ASSUME NEW k \in ts..key PROVE k \in TreeKeys(room)
      BY <1>7
    <3>1. CASE k = key
      BY <1>12, <3>1
    <3>2. CASE k # key
      <4>1. k - ts \in 0..(f - 1) /\ k = ts + (k - ts)
        BY <1>0, <1>2, <3>2
      <4> QED BY <1>2, <4>1
    <3> QED BY <3>1, <3>2
  <2>3. n.key = n.timestamp + MaxTimestampFudge
    BY <1>2, <2>1
  <2>4. {x \in R : x.key # key} = {x \in R : x.key # n.key}
    OBVIOUS
  <2> HIDE DEF n
  <2>5. Exposed' = [Exposed EXCEPT !["source"] = {x \in R : x.key # n.key} \cup {n}]
    BY <1>5, <1>9, <2>4, ExposedFacts
  <2>6. Promise!AcceptOverwriting("source")
    <3>1. R \in Promise!Kept("source")
      BY <1>8, <1>10 DEF Promise!Kept, Exposed
    <3> QED BY <1>4, <1>10, <2>2, <2>3, <2>5, <3>1 DEF Promise!AcceptOverwriting, Exposed
  <2> QED BY <2>6 DEF Promise!Next
<1> QED BY <1>11, <1>12

LEMMA PromiseStep == TreeInv /\ [Next]_vars => [Promise!Next]_Exposed
<1> SUFFICES ASSUME TreeInv, [Next]_vars PROVE Promise!Next \/ Exposed' = Exposed
  OBVIOUS
<1>0. TypeOK /\ root.height <= puts
  BY DEF TreeInv
<1>1. ASSUME NEW env \in Envelopes, InsertOrSwap(env) PROVE Promise!Next
  <2>1. PICK room : room = Room
    OBVIOUS
  <2>2. PICK key : key = FudgedKey(room, env.timestamp)
    OBVIOUS
  <2>3. puts < MaxPuts /\ root' = Put(room, key, env)
    BY <1>1, <2>1, <2>2 DEF InsertOrSwap, Room
  <2> QED BY <1>0, <2>1, <2>2, <2>3, InsertionIsPromised
<1>2. CASE RemoveOldestEnvelope
  <2>0. root \in Trees /\ Ordered(root)
    BY <1>0 DEF TypeOK
  <2>1. PICK t : t = RemoveLeft(root)
    OBVIOUS
  <2>2. ~IsNil(root) /\ root' = t
    BY <1>2, <2>1 DEF RemoveOldestEnvelope
  <2>3. t \in Trees
    BY <1>0, <2>1, <2>2, RemovalFacts
  <2>4. PICK old : Oldest(old, NodesOf(root)) /\ NodesOf(t) = NodesOf(root) \ {old}
    BY <1>0, <2>1, <2>2, RemovalFacts
  <2>5. /\ Filed(old) \in FiledIn(root) /\ Promise!IsOldest(Filed(old), FiledIn(root))
        /\ FiledIn(t) = FiledIn(root) \ {Filed(old)}
    BY <2>0, <2>3, <2>4, OldestIsPromised
  <2>6. FiledIn(root)' = FiledIn(t)
    BY <2>2 DEF FiledIn, NodesOf
  <2>7. Exposed["source"] = FiledIn(root)
    BY ExposedFacts
  <2>8. Exposed' = [Exposed EXCEPT !["source"] = FiledIn(root) \ {Filed(old)}]
    BY <2>5, <2>6, ExposedFacts
  <2>9. Promise!Expire("source")
    BY <2>5, <2>7, <2>8 DEF Promise!Expire, Exposed
  <2> QED BY <2>9 DEF Promise!Next
<1>3. CASE UNCHANGED vars
  BY <1>3 DEF vars, Exposed, TreeNodes
<1> QED BY <1>1, <1>2, <1>3 DEF Next

\* The AVL tree, its rotations and the fudged keys implement EnvelopeStore on one
\* source: nothing is lost, and what leaves the tree is the oldest or the last key
\* of a full run of one timestamp.
THEOREM Refinement == Spec => ImplementsPromise
  BY TreeInit, TreeStepInv, PromiseInit, PromiseStep, PTL
  DEF Spec, ImplementsPromise, Promise!Spec, Exposed

-----------------------------------------------------------------------------
(* The traversals. *)

Outcomes == [found : Seq(Stored), stop : BOOLEAN]
Traversals == [Seq(Stored) -> Outcomes]

\* A traversal at a node, given those of the subtree that comes first and of the
\* one that comes last.
Continue(n, q, found, first, last) ==
  IF IsNil(n) THEN [found |-> found, stop |-> FALSE]
  ELSE IF ~Reaches(n.env.timestamp, q) THEN last[found]
  ELSE LET before == first[found] IN
       IF before.stop THEN before
       ELSE LET here == IF Passed(n.env.timestamp, q)
                          THEN [found |-> before.found, stop |-> TRUE]
                          ELSE Visit(n, q, before.found)
            IN IF here.stop /\ ~IsFudgeSequenceMember(n, Beyond(n, q)) THEN here
               ELSE last[here.found]

LEMMA VisitFacts ==
  ASSUME NEW n \in Trees, ~IsNil(n), NEW q, NEW found \in Seq(Stored),
         NEW here, here = Visit(n, q, found)
  PROVE  /\ here \in Outcomes
         /\ NodeAt(n) \in Stored
         /\ Wanted(NodeAt(n), q) => here.found = Append(found, NodeAt(n))
         /\ here.found = found
            \/ /\ here.found = Append(found, NodeAt(n))
               /\ PassesFilter(n.env, q.filter) /\ ValidType(n.env, q.types)
         /\ here.stop => Len(here.found) >= q.limit
         /\ ~here.stop => here.found = found \/ ~(Len(here.found) >= q.limit)
<1>1. NodeAt(n) \in Stored /\ NodeAt(n).env = n.env
  <2>1. n.key \in Int /\ n.env \in Envelopes
    BY TreesBounded, TreeFacts
  <2> QED BY <2>1 DEF NodeAt, Stored
<1>2. PICK c : c = Collected(n, q, found)
  OBVIOUS
<1>3. c = IF ValidType(n.env, q.types) THEN Append(found, NodeAt(n)) ELSE found
  BY <1>2 DEF Collected, NodeAt
<1>4. c \in Seq(Stored)
  <2>1. Append(found, NodeAt(n)) \in Seq(Stored)
    BY <1>1
  <2> QED BY <1>3, <2>1
<1>5. here = IF ~PassesFilter(n.env, q.filter) THEN [found |-> found, stop |-> FALSE]
             ELSE [found |-> c, stop |-> Len(c) >= q.limit]
  BY <1>2 DEF Visit
<1>6. CASE ~PassesFilter(n.env, q.filter)
  <2>1. here.found = found /\ here.stop = FALSE /\ here \in Outcomes
    BY <1>5, <1>6 DEF Outcomes
  <2>2. ~Wanted(NodeAt(n), q)
    BY <1>1, <1>6 DEF Wanted
  <2> QED BY <1>1, <2>1, <2>2
<1>7. CASE PassesFilter(n.env, q.filter)
  <2>1. here.found = c /\ here.stop = (Len(c) >= q.limit)
    BY <1>5, <1>7
  <2>2. here \in Outcomes
    BY <1>4, <1>5, <1>7 DEF Outcomes
  <2>3. Wanted(NodeAt(n), q) => ValidType(n.env, q.types)
    BY <1>1 DEF Wanted
  <2>4. CASE ValidType(n.env, q.types)
    <3>1. c = Append(found, NodeAt(n))
      BY <1>3, <2>4
    <3> QED BY <1>1, <1>7, <2>1, <2>2, <2>4, <3>1
  <2>5. CASE ~ValidType(n.env, q.types)
    <3>1. c = found
      BY <1>3, <2>5
    <3> QED BY <1>1, <2>1, <2>2, <2>3, <2>5, <3>1
  <2> QED BY <2>4, <2>5
<1> QED BY <1>6, <1>7

LEMMA ContinueType ==
  ASSUME NEW n \in Trees, ~IsNil(n), NEW q, NEW found \in Seq(Stored),
         NEW first \in Traversals, NEW last \in Traversals
  PROVE  Continue(n, q, found, first, last) \in Outcomes
<1>1. \A f \in Seq(Stored) : first[f] \in Outcomes /\ last[f] \in Outcomes
  BY DEF Traversals
<1>2. \A o \in Outcomes : o.found \in Seq(Stored)
  BY DEF Outcomes
<1>3. PICK before : before = first[found]
  OBVIOUS
<1>4. PICK here : here = IF Passed(n.env.timestamp, q)
                           THEN [found |-> before.found, stop |-> TRUE]
                           ELSE Visit(n, q, before.found)
  OBVIOUS
<1>5. before \in Outcomes /\ before.found \in Seq(Stored)
  BY <1>1, <1>2, <1>3
<1>6. here \in Outcomes
  <2>1. Visit(n, q, before.found) \in Outcomes
    BY <1>5, VisitFacts
  <2>2. [found |-> before.found, stop |-> TRUE] \in Outcomes
    BY <1>5 DEF Outcomes
  <2> QED BY <1>4, <2>1, <2>2
<1>7. Continue(n, q, found, first, last) =
        IF ~Reaches(n.env.timestamp, q) THEN last[found]
        ELSE IF before.stop THEN before
        ELSE IF here.stop /\ ~IsFudgeSequenceMember(n, Beyond(n, q)) THEN here
        ELSE last[here.found]
  BY <1>3, <1>4 DEF Continue
<1> QED BY <1>1, <1>2, <1>5, <1>6, <1>7

\* The recursion of the traversals is well defined.
Traversed(at, q) ==
  /\ at \in [Trees -> Traversals]
  /\ \A n \in Trees : \A found \in Seq(Stored) :
       at[n][found] = Continue(n, q, found, at[Before(n, q)], at[Beyond(n, q)])
  /\ \A n : Traverse(n, q) = at[n][<<>>].found

LEMMA TraverseDef == ASSUME NEW q PROVE \E at : Traversed(at, q)
<1> DEFINE V == Traversals
           base == [found \in Seq(Stored) |-> [found |-> found, stop |-> FALSE]]
           go(n, a, b) == [found \in Seq(Stored) |->
                             Continue(n, q, found, IF q.descending THEN b ELSE a,
                                                   IF q.descending THEN a ELSE b)]
           step == [x \in Trees \X V \X V |-> go(x[1], x[2], x[3])]
           body(f, n) == [found \in Seq(Stored) |->
                            Continue(n, q, found, f[Before(n, q)], f[Beyond(n, q)])]
           At == CHOOSE f : f = [n \in Trees |-> body(f, n)]
<1>1. ASSUME NEW n \in Trees, NEW a \in V, NEW b \in V
      PROVE  step[<<n, a, b>>] = go(n, a, b)
  <2>1. <<n, a, b>> \in Trees \X V \X V
    OBVIOUS
  <2> HIDE DEF go, V
  <2> QED BY <2>1
<1>2. ASSUME NEW n \in Trees, ~IsNil(n), NEW a \in V, NEW b \in V PROVE go(n, a, b) \in V
  <2>1. ASSUME NEW found \in Seq(Stored)
        PROVE  Continue(n, q, found, IF q.descending THEN b ELSE a,
                                     IF q.descending THEN a ELSE b) \in Outcomes
    <3>1. CASE q.descending
      BY <1>2, <3>1, ContinueType
    <3>2. CASE ~q.descending
      BY <1>2, <3>2, ContinueType
    <3> QED BY <3>1, <3>2
  <2> DEFINE e(found) == Continue(n, q, found, IF q.descending THEN b ELSE a,
                                               IF q.descending THEN a ELSE b)
  <2>2. \A found \in Seq(Stored) : e(found) \in Outcomes
    BY <2>1
  <2>3. go(n, a, b) = [found \in Seq(Stored) |-> e(found)]
    OBVIOUS
  <2> HIDE DEF e, go
  <2> QED BY <2>2, <2>3 DEF Traversals
<1>3. \A n \in Trees : ~IsNil(n) => \A a, b \in V : step[<<n, a, b>>] \in V
  <2> HIDE DEF step, go, V
  <2> QED BY <1>1, <1>2
<1>4. base \in V
  <2>1. \A found \in Seq(Stored) : [found |-> found, stop |-> FALSE] \in Outcomes
    BY DEF Outcomes
  <2> QED BY <2>1 DEF Traversals
<1>5. PICK f \in [Trees -> V] : Recurses(f, base, step)
  <2> HIDE DEF base, step, V
  <2> QED BY <1>3, <1>4, TreeRecursion
<1>6. ASSUME NEW n \in Trees PROVE f[n] = body(f, n)
  <2>1. CASE IsNil(n)
    <3>1. f[n] = base
      <4> HIDE DEF base, step
      <4> QED BY <2>1, <1>5 DEF Recurses
    <3>2. \A found \in Seq(Stored) :
            Continue(n, q, found, f[Before(n, q)], f[Beyond(n, q)]) = [found |-> found, stop |-> FALSE]
      BY <2>1 DEF Continue
    <3> QED BY <3>1, <3>2
  <2>2. CASE ~IsNil(n)
    <3>1. f[n.left] \in V /\ f[n.right] \in V
      BY <2>2, ChildrenInTrees
    <3>2. f[n] = go(n, f[n.left], f[n.right])
      <4> HIDE DEF step, base, go, V
      <4> QED BY <2>2, <3>1, <1>1, <1>5 DEF Recurses
    <3>3. /\ f[Before(n, q)] = IF q.descending THEN f[n.right] ELSE f[n.left]
          /\ f[Beyond(n, q)] = IF q.descending THEN f[n.left] ELSE f[n.right]
      BY DEF Before, Beyond
    <3> QED BY <3>2, <3>3
  <2> QED BY <2>1, <2>2
<1>7. f = [n \in Trees |-> body(f, n)]
  <2> HIDE DEF body
  <2> QED BY <1>6
<1>8. At = [n \in Trees |-> body(At, n)]
  <2> HIDE DEF body
  <2> QED BY <1>7
<1>9. \A n \in Trees : At[n] = body(At, n)
  <2> HIDE DEF body, At
  <2> QED BY <1>8
<1>10. \A n : Traverse(n, q) = At[n][<<>>].found
  BY DEF Traverse, Continue
<1> HIDE DEF At
<1> DEFINE S == {n \in Trees : At[n] \in V}
<1>11. Trees \subseteq S
  <2>1. Nil \in S
    <3>1. At[Nil] = body(At, Nil)
      BY <1>9, NilFacts
    <3>2. \A found \in Seq(Stored) :
            Continue(Nil, q, found, At[Before(Nil, q)], At[Beyond(Nil, q)])
              = [found |-> found, stop |-> FALSE]
      BY NilFacts DEF Continue
    <3>3. body(At, Nil) = base
      BY <3>2
    <3> HIDE DEF base, body
    <3> QED BY <3>1, <3>3, <1>4, NilFacts
  <2>2. ASSUME NEW n \in Trees, ~IsNil(n), n.left \in S, n.right \in S PROVE n \in S
    <3>1. At[n] = body(At, n)
      <4> HIDE DEF body
      <4> QED BY <1>9
    <3>2. /\ At[Before(n, q)] = IF q.descending THEN At[n.right] ELSE At[n.left]
          /\ At[Beyond(n, q)] = IF q.descending THEN At[n.left] ELSE At[n.right]
      BY DEF Before, Beyond
    <3>3. body(At, n) = go(n, At[n.left], At[n.right])
      BY <3>2
    <3>4. At[n.left] \in V /\ At[n.right] \in V
      BY <2>2
    <3> HIDE DEF body, go, V
    <3>5. At[n] \in V
      BY <3>1, <3>3, <3>4, <1>2, <2>2
    <3> QED BY <3>5
  <2> HIDE DEF S
  <2> QED BY <2>1, <2>2, TreeInduction
<1>12. At \in [Trees -> Traversals]
  <2> HIDE DEF body
  <2> QED BY <1>8, <1>11
<1>13. \A n \in Trees : \A found \in Seq(Stored) :
         At[n][found] = Continue(n, q, found, At[Before(n, q)], At[Beyond(n, q)])
  <2> SUFFICES ASSUME NEW n \in Trees, NEW found \in Seq(Stored)
               PROVE  At[n][found] = Continue(n, q, found, At[Before(n, q)], At[Beyond(n, q)])
    OBVIOUS
  <2>1. At[n] = body(At, n)
    <3> HIDE DEF body
    <3> QED BY <1>9
  <2> QED BY <2>1
<1> QED BY <1>10, <1>12, <1>13 DEF Traversed

\* What a traversal adds to the nodes found so far: wanted nodes of a set, in order.
Grown(nodes, q, found, more) ==
  /\ found \in Seq(Stored) /\ more \in Seq(Stored) /\ Len(found) <= Len(more)
  /\ \A i \in 1..Len(found) : more[i] = found[i]
  /\ \A i \in (Len(found) + 1)..Len(more) : more[i] \in nodes /\ Wanted(more[i], q)
  /\ \A i, j \in (Len(found) + 1)..Len(more) : i < j => Precedes(more[i], more[j], q)

LEMMA GrownNot ==
  ASSUME NEW nodes, NEW q, NEW found \in Seq(Stored)
  PROVE  Grown(nodes, q, found, found)
  BY DEF Grown

LEMMA GrownByOne ==
  ASSUME NEW q, NEW found \in Seq(Stored), NEW m \in Stored, Wanted(m, q)
  PROVE  Grown({m}, q, found, Append(found, m))
<1>1. PICK more : more = Append(found, m)
  OBVIOUS
<1>2. /\ more \in Seq(Stored) /\ Len(more) = Len(found) + 1 /\ more[Len(found) + 1] = m
      /\ \A i \in 1..Len(found) : more[i] = found[i]
  BY <1>1
<1>3. \A i \in (Len(found) + 1)..Len(more) : i = Len(found) + 1
  BY <1>2
<1>4. Grown({m}, q, found, more)
  BY <1>2, <1>3 DEF Grown
<1> QED BY <1>1, <1>4

LEMMA GrownTwice ==
  ASSUME NEW A, NEW B, NEW q, NEW f, NEW g, NEW h, Grown(A, q, f, g), Grown(B, q, g, h),
         \A a \in A, b \in B : Precedes(a, b, q)
  PROVE  Grown(A \cup B, q, f, h)
<1>1. /\ f \in Seq(Stored) /\ g \in Seq(Stored) /\ Len(f) <= Len(g)
      /\ \A i \in 1..Len(f) : g[i] = f[i]
      /\ \A i \in (Len(f) + 1)..Len(g) : g[i] \in A /\ Wanted(g[i], q)
      /\ \A i, j \in (Len(f) + 1)..Len(g) : i < j => Precedes(g[i], g[j], q)
  BY DEF Grown
<1>2. /\ h \in Seq(Stored) /\ Len(g) <= Len(h)
      /\ \A i \in 1..Len(g) : h[i] = g[i]
      /\ \A i \in (Len(g) + 1)..Len(h) : h[i] \in B /\ Wanted(h[i], q)
      /\ \A i, j \in (Len(g) + 1)..Len(h) : i < j => Precedes(h[i], h[j], q)
  BY DEF Grown
<1>3. Len(f) \in Nat /\ Len(g) \in Nat /\ Len(h) \in Nat
  BY <1>1, <1>2
<1>4. ASSUME NEW i \in (Len(f) + 1)..Len(h)
      PROVE  \/ i \in (Len(f) + 1)..Len(g) /\ i \in 1..Len(g)
             \/ i \in (Len(g) + 1)..Len(h)
  BY <1>1, <1>3
<1>5. ASSUME NEW i \in (Len(f) + 1)..Len(h) PROVE h[i] \in A \cup B /\ Wanted(h[i], q)
  BY <1>1, <1>2, <1>4
<1>6. ASSUME NEW i \in (Len(f) + 1)..Len(h), NEW j \in (Len(f) + 1)..Len(h), i < j
      PROVE  Precedes(h[i], h[j], q)
  <2>1. CASE i \in (Len(g) + 1)..Len(h)
    <3>1. j \in (Len(g) + 1)..Len(h)
      BY <1>3, <1>6, <2>1
    <3> QED BY <1>2, <1>6, <2>1, <3>1
  <2>2. CASE i \in (Len(f) + 1)..Len(g) /\ i \in 1..Len(g)
    <3>1. CASE j \in (Len(f) + 1)..Len(g) /\ j \in 1..Len(g)
      BY <1>1, <1>2, <1>6, <2>2, <3>1
    <3>2. CASE j \in (Len(g) + 1)..Len(h)
      <4>1. h[i] \in A /\ h[j] \in B
        BY <1>1, <1>2, <2>2, <3>2
      <4> QED BY <4>1
    <3> QED BY <3>1, <3>2, <1>4
  <2> QED BY <2>1, <2>2, <1>4
<1>7. Len(f) <= Len(h) /\ \A i \in 1..Len(f) : h[i] = f[i]
  BY <1>1, <1>2, <1>3
<1> QED BY <1>1, <1>2, <1>5, <1>6, <1>7 DEF Grown

\* The nodes of a tree in the order of a traversal.
LEMMA NodeOrder ==
  ASSUME NEW n \in Trees, ~IsNil(n), Ordered(n), NEW q, NEW first, NEW last,
         first = Before(n, q), last = Beyond(n, q)
  PROVE  /\ first \in Trees /\ Ordered(first) /\ last \in Trees /\ Ordered(last)
         /\ NodesOf(n) = NodesOf(first) \cup {NodeAt(n)} \cup NodesOf(last)
         /\ \A m \in NodesOf(first) : Precedes(m, NodeAt(n), q)
         /\ \A m \in NodesOf(last) : Precedes(NodeAt(n), m, q)
         /\ \A m \in NodesOf(first), o \in NodesOf(last) : Precedes(m, o, q)
         /\ \A m \in NodesOf(n) : m \in Stored
<1>1. /\ n.left \in Trees /\ n.right \in Trees /\ Ordered(n.left) /\ Ordered(n.right)
      /\ NodesOf(n) = NodesOf(n.left) \cup {NodeAt(n)} \cup NodesOf(n.right)
      /\ \A k \in TreeKeys(n.left) : k < n.key
      /\ \A k \in TreeKeys(n.right) : n.key < k
      /\ NodeAt(n).key = n.key /\ n.key \in Int
  BY ChildrenInTrees, Contents, TreesBounded, TreeFacts DEF NodeAt
<1>2. /\ \A m \in NodesOf(n.left) : m.key \in Int /\ m.key < n.key
      /\ \A m \in NodesOf(n.right) : m.key \in Int /\ n.key < m.key
  <2>1. /\ \A m \in NodesOf(n.left) : m.key \in TreeKeys(n.left)
        /\ \A m \in NodesOf(n.right) : m.key \in TreeKeys(n.right)
    BY KeysOfNodes
  <2>2. TreeKeys(n.left) \subseteq Int /\ TreeKeys(n.right) \subseteq Int
    BY <1>1, NodesStored
  <2> QED BY <2>1, <2>2, <1>1
<1>3. \A m \in NodesOf(n.left), o \in NodesOf(n.right) : m.key < o.key
  BY <1>1, <1>2
<1>4. \A m \in NodesOf(n) : m \in Stored
  BY NodesStored
<1>5. CASE q.descending
  <2>1. first = n.right /\ last = n.left /\ \A m, o : Precedes(m, o, q) <=> o.key < m.key
    BY <1>5 DEF Before, Beyond, Precedes
  <2> QED BY <1>1, <1>2, <1>3, <1>4, <2>1
<1>6. CASE ~q.descending
  <2>1. first = n.left /\ last = n.right /\ \A m, o : Precedes(m, o, q) <=> m.key < o.key
    BY <1>6 DEF Before, Beyond, Precedes
  <2> QED BY <1>1, <1>2, <1>3, <1>4, <2>1
<1> QED BY <1>5, <1>6

\* The ways a traversal may go at a node.
LEMMA TraverseStep ==
  ASSUME NEW q, NEW at, Traversed(at, q), NEW n \in Trees, ~IsNil(n), NEW found \in Seq(Stored),
         NEW first, first = Before(n, q), NEW last, last = Beyond(n, q),
         NEW res, res = at[n][found], NEW before, before = at[first][found],
         NEW here, here = Visit(n, q, before.found)
  PROVE  /\ first \in Trees /\ last \in Trees
         /\ res \in Outcomes /\ before \in Outcomes /\ here \in Outcomes
         /\ \/ ~Reaches(n.env.timestamp, q) /\ res = at[last][found]
            \/ /\ Reaches(n.env.timestamp, q)
               /\ \/ before.stop /\ res = before
                  \/ /\ ~before.stop /\ Passed(n.env.timestamp, q)
                     /\ \/ res.found = before.found /\ res.stop
                        \/ IsFudgeSequenceMember(n, last) /\ res = at[last][before.found]
                  \/ /\ ~before.stop /\ ~Passed(n.env.timestamp, q)
                     /\ \/ here.stop /\ res = here
                        \/ /\ here.stop => IsFudgeSequenceMember(n, last)
                           /\ res = at[last][here.found]
<1>1. first \in Trees /\ last \in Trees
  BY ChildrenInTrees DEF Before, Beyond
<1>2. \A m \in Trees : \A f \in Seq(Stored) : at[m][f] \in Outcomes
  BY DEF Traversed, Traversals
<1>3. res \in Outcomes /\ before \in Outcomes
  BY <1>1, <1>2
<1>4. here \in Outcomes
  <2>1. before.found \in Seq(Stored)
    BY <1>3 DEF Outcomes
  <2> QED BY <2>1, VisitFacts
<1>5. PICK mine : mine = IF Passed(n.env.timestamp, q)
                           THEN [found |-> before.found, stop |-> TRUE] ELSE here
  OBVIOUS
<1>6. res = Continue(n, q, found, at[first], at[last])
  BY DEF Traversed
<1>7. res = IF ~Reaches(n.env.timestamp, q) THEN at[last][found]
            ELSE IF before.stop THEN before
            ELSE IF mine.stop /\ ~IsFudgeSequenceMember(n, last) THEN mine
            ELSE at[last][mine.found]
  BY <1>5, <1>6 DEF Continue
<1>8. CASE Passed(n.env.timestamp, q)
  <2>1. mine.stop = TRUE /\ mine.found = before.found
    BY <1>5, <1>8
  <2> QED BY <1>1, <1>3, <1>4, <1>7, <1>8, <2>1
<1>9. CASE ~Passed(n.env.timestamp, q)
  <2>1. mine = here
    BY <1>5, <1>9
  <2> QED BY <1>1, <1>3, <1>4, <1>7, <1>9, <2>1
<1> QED BY <1>8, <1>9

IsRange(q) == q.start \in Int /\ q.end \in Int

\* A node that is neither before nor after the range and that Get collects is
\* wanted.
LEMMA VisitGrows ==
  ASSUME NEW q, IsRange(q), NEW n \in Trees, ~IsNil(n), NEW found \in Seq(Stored),
         NEW here, here = Visit(n, q, found),
         Reaches(n.env.timestamp, q), ~Passed(n.env.timestamp, q)
  PROVE  Grown({NodeAt(n)}, q, found, here.found)
<1>1. /\ NodeAt(n) \in Stored
      /\ here.found = found
         \/ /\ here.found = Append(found, NodeAt(n))
            /\ PassesFilter(n.env, q.filter) /\ ValidType(n.env, q.types)
  BY VisitFacts
<1>2. q.start <= n.env.timestamp /\ n.env.timestamp < q.end
  <2>1. n.env.timestamp \in Int /\ q.start \in Int /\ q.end \in Int
    BY TreesBounded, TreeFacts, TreeAssumption DEF IsRange
  <2> QED BY <2>1 DEF Reaches, Passed
<1>3. NodeAt(n).env = n.env
  BY DEF NodeAt
<1>4. CASE here.found = found
  BY <1>4, GrownNot
<1>5. CASE /\ here.found = Append(found, NodeAt(n))
           /\ PassesFilter(n.env, q.filter) /\ ValidType(n.env, q.types)
  <2>1. Wanted(NodeAt(n), q)
    BY <1>2, <1>3, <1>5 DEF Wanted
  <2> QED BY <1>1, <1>5, <2>1, GrownByOne
<1> QED BY <1>1, <1>4, <1>5

\* A traversal of an ordered tree adds wanted nodes of the tree, in order.
LEMMA TraverseGrows ==
  ASSUME NEW q, IsRange(q), NEW at, Traversed(at, q), NEW tree \in Trees, Ordered(tree),
         NEW start \in Seq(Stored)
  PROVE  Grown(NodesOf(tree), q, start, at[tree][start].found)
<1> DEFINE S == {n \in Trees : Ordered(n) => \A found \in Seq(Stored) :
                                 Grown(NodesOf(n), q, found, at[n][found].found)}
<1>1. Nil \in S
  <2> SUFFICES ASSUME NEW found \in Seq(Stored)
               PROVE  Grown(NodesOf(Nil), q, found, at[Nil][found].found)
    BY NilFacts
  <2>1. at[Nil][found] = [found |-> found, stop |-> FALSE]
    BY NilFacts DEF Traversed, Continue
  <2> QED BY <2>1, GrownNot
<1>2. ASSUME NEW n \in Trees, ~IsNil(n), n.left \in S, n.right \in S PROVE n \in S
  <2> SUFFICES ASSUME Ordered(n), NEW found \in Seq(Stored), NEW res, res = at[n][found]
               PROVE  Grown(NodesOf(n), q, found, res.found)
    OBVIOUS
  <2>1. PICK first : first = Before(n, q)
    OBVIOUS
  <2>2. PICK last : last = Beyond(n, q)
    OBVIOUS
  <2>3. PICK before : before = at[first][found]
    OBVIOUS
  <2>4. PICK here : here = Visit(n, q, before.found)
    OBVIOUS
  <2>5. /\ first \in Trees /\ last \in Trees /\ Ordered(first) /\ Ordered(last)
        /\ NodesOf(n) = NodesOf(first) \cup {NodeAt(n)} \cup NodesOf(last)
        /\ \A m \in NodesOf(first) : Precedes(m, NodeAt(n), q)
        /\ \A m \in NodesOf(last) : Precedes(NodeAt(n), m, q)
        /\ \A m \in NodesOf(first), o \in NodesOf(last) : Precedes(m, o, q)
    BY <1>2, <2>1, <2>2, NodeOrder
  <2>6. first \in S /\ last \in S
    BY <1>2, <2>1, <2>2 DEF Before, Beyond
  <2>7. \A f \in Seq(Stored) : /\ Grown(NodesOf(first), q, f, at[first][f].found)
                               /\ Grown(NodesOf(last), q, f, at[last][f].found)
    BY <2>5, <2>6
  <2>8. /\ Grown(NodesOf(first), q, found, before.found)
        /\ before.found \in Seq(Stored)
    BY <2>3, <2>7 DEF Grown
  <2> DEFINE A == NodesOf(first)
             B == {NodeAt(n)}
             C == NodesOf(last)
  <2> HIDE DEF A, B, C, S
  <2>9. ASSUME NEW f, Grown(A, q, found, f) PROVE Grown(NodesOf(n), q, found, f)
    <3>1. A \subseteq NodesOf(n)
      BY <2>5 DEF A
    <3> QED BY <3>1, <2>9 DEF Grown
  <2>10. ASSUME NEW f, Grown(C, q, found, f) PROVE Grown(NodesOf(n), q, found, f)
    <3>1. C \subseteq NodesOf(n)
      BY <2>5 DEF C
    <3> QED BY <3>1, <2>10 DEF Grown
  <2>11. CASE ~Reaches(n.env.timestamp, q) /\ res = at[last][found]
    BY <2>7, <2>10, <2>11 DEF C
  <2>12. CASE res.found = before.found
    BY <2>8, <2>9, <2>12 DEF A
  <2>13. CASE res = at[last][before.found]
    <3>1. Grown(C, q, before.found, res.found)
      BY <2>7, <2>8, <2>13 DEF C
    <3>2. Grown(A \cup C, q, found, res.found)
      <4>1. \A a \in A, b \in C : Precedes(a, b, q)
        BY <2>5 DEF A, C
      <4> QED BY <4>1, <3>1, <2>8, GrownTwice DEF A
    <3>3. A \cup C \subseteq NodesOf(n)
      BY <2>5 DEF A, C
    <3> QED BY <3>2, <3>3 DEF Grown
  <2>14. CASE /\ Reaches(n.env.timestamp, q) /\ ~Passed(n.env.timestamp, q)
              /\ res = here \/ res = at[last][here.found]
    <3>1. Grown(B, q, before.found, here.found)
      BY <1>2, <2>4, <2>8, <2>14, VisitGrows DEF B
    <3>2. Grown(A \cup B, q, found, here.found)
      <4>1. \A a \in A, b \in B : Precedes(a, b, q)
        BY <2>5 DEF A, B
      <4> QED BY <4>1, <3>1, <2>8, GrownTwice DEF A
    <3>3. CASE res = here
      <4>1. A \cup B \subseteq NodesOf(n)
        BY <2>5 DEF A, B
      <4> QED BY <4>1, <3>2, <3>3 DEF Grown
    <3>4. CASE res = at[last][here.found]
      <4>1. here.found \in Seq(Stored)
        BY <3>1 DEF Grown
      <4>2. Grown(C, q, here.found, res.found)
        BY <4>1, <2>7, <3>4 DEF C
      <4>3. \A a \in A \cup B, b \in C : Precedes(a, b, q)
        BY <2>5 DEF A, B, C
      <4>4. Grown((A \cup B) \cup C, q, found, res.found)
        BY <4>2, <4>3, <3>2, GrownTwice
      <4>5. (A \cup B) \cup C = NodesOf(n)
        BY <2>5 DEF A, B, C
      <4> QED BY <4>4, <4>5
    <3> QED BY <2>14, <3>3, <3>4
  <2>15. \/ ~Reaches(n.env.timestamp, q) /\ res = at[last][found]
         \/ res.found = before.found
         \/ res = at[last][before.found]
         \/ /\ Reaches(n.env.timestamp, q) /\ ~Passed(n.env.timestamp, q)
            /\ res = here \/ res = at[last][here.found]
    BY <1>2, <2>1, <2>2, <2>3, <2>4, TraverseStep
  <2> QED BY <2>11, <2>12, <2>13, <2>14, <2>15
<1> HIDE DEF S
<1>3. tree \in S
  BY <1>1, <1>2, TreeInduction
<1> QED BY <1>3 DEF S

-----------------------------------------------------------------------------
(* What reads return. *)

LEMMA QueryFacts ==
  ASSUME NEW req \in Answered, NEW q, q = Query(req)
  PROVE  IsRange(q) /\ q.limit \in Nat \ {0}
<1>1. /\ req \in Requests /\ req.startTime \in Int /\ req.endTime \in Int /\ req.limit \in Int
      /\ Now \in Int /\ DefaultLimit \in Nat \ {0} /\ ~Refused(req)
  BY RequestAssumption DEF Answered
<1>2. /\ q.start = req.startTime
      /\ q.end = IF req.endTime = 0 THEN Now ELSE req.endTime
      /\ q.limit = IF req.limit = 0 THEN DefaultLimit ELSE req.limit
  BY DEF Query
<1>3. ~(req.limit < 0)
  BY <1>1 DEF Refused
<1>4. IsRange(q)
  BY <1>1, <1>2 DEF IsRange
<1>5. q.limit \in Nat \ {0}
  BY <1>1, <1>2, <1>3
<1> QED BY <1>4, <1>5

LEMMA NoneFound == \E none \in Seq(Stored) : none = <<>> /\ Len(none) = 0
<1>1. <<>> \in Seq(Stored) /\ Len(<<>>) = 0
  OBVIOUS
<1> QED BY <1>1

LEMMA FoundFacts ==
  ASSUME NEW tree \in Trees, Ordered(tree), NEW q, IsRange(q), NEW found, found = Traverse(tree, q)
  PROVE  /\ found \in Seq(Stored)
         /\ \A i \in 1..Len(found) : found[i] \in NodesOf(tree) /\ Wanted(found[i], q)
         /\ InOrder(found, q)
<1>1. PICK at : Traversed(at, q)
  BY TraverseDef
<1>2. found = at[tree][<<>>].found
  BY <1>1 DEF Traversed
<1>3. PICK none \in Seq(Stored) : none = <<>> /\ Len(none) = 0
  BY NoneFound
<1>4. Grown(NodesOf(tree), q, none, found)
  BY <1>1, <1>2, <1>3, TraverseGrows
<1>5. (Len(none) + 1)..Len(found) = 1..Len(found)
  BY <1>3
<1> QED BY <1>4, <1>5 DEF Grown, InOrder

\* Whatever the fudges in the tree, LocalStoreReader.Read and Store.Get return
\* envelopes of the range that pass both filters, each once and in order.
THEOREM ReadsAreWanted == Spec => []ReadsOnlyWanted
<1>1. TypeOK => ReadsOnlyWanted
  <2> SUFFICES ASSUME TypeOK, NEW req \in Answered, NEW q, q = Query(req),
                      NEW found, found = Traverse(root, q)
               PROVE  /\ \A i \in 1..Len(found) : found[i] \in NodesOf(root) /\ Wanted(found[i], q)
                      /\ InOrder(found, q)
    BY DEF ReadsOnlyWanted
  <2>1. root \in Trees /\ Ordered(root)
    BY DEF TypeOK
  <2>2. IsRange(q)
    BY QueryFacts
  <2> QED BY <2>1, <2>2, FoundFacts
<1> QED BY <1>1, TypeCorrect, PTL

\* A read of all time: nothing is before or after its range.
Everything(q) == \A env \in Envelopes : q.start <= env.timestamp /\ env.timestamp < q.end

Has(found, m) == \E i \in 1..Len(found) : found[i] = m

LEMMA HasMore ==
  ASSUME NEW nodes, NEW q, NEW found, NEW more, Grown(nodes, q, found, more),
         NEW m, Has(found, m)
  PROVE  Has(more, m)
<1>1. PICK i \in 1..Len(found) : found[i] = m
  BY DEF Has
<1>2. Len(found) \in Nat /\ Len(more) \in Nat /\ Len(found) <= Len(more) /\ more[i] = m
  BY <1>1 DEF Grown
<1>3. i \in 1..Len(more)
  BY <1>2
<1> QED BY <1>2, <1>3 DEF Has

LEMMA HasLast == ASSUME NEW found \in Seq(Stored), NEW m PROVE Has(Append(found, m), m)
<1>1. Len(Append(found, m)) = Len(found) + 1 /\ Append(found, m)[Len(found) + 1] = m
  OBVIOUS
<1>2. Len(found) + 1 \in 1..(Len(found) + 1)
  OBVIOUS
<1> QED BY <1>1, <1>2 DEF Has

\* A traversal of everything that ends below the limit has not been stopped, and
\* has found all that is wanted.
LEMMA TraverseAll ==
  ASSUME NEW q, IsRange(q), Everything(q), q.limit \in Nat, NEW at, Traversed(at, q),
         NEW tree \in Trees, Ordered(tree), NEW start \in Seq(Stored),
         Len(at[tree][start].found) < q.limit
  PROVE  \A m \in NodesOf(tree) : Wanted(m, q) => Has(at[tree][start].found, m)
<1> DEFINE All(n, res) == ~res.stop /\ \A m \in NodesOf(n) : Wanted(m, q) => Has(res.found, m)
           S == {n \in Trees : Ordered(n) => \A found \in Seq(Stored) :
                   Len(at[n][found].found) < q.limit => All(n, at[n][found])}
<1>1. Nil \in S
  <2> SUFFICES ASSUME NEW found \in Seq(Stored), NEW res, res = at[Nil][found]
               PROVE  All(Nil, res)
    BY NilFacts
  <2>1. at[Nil][found] = [found |-> found, stop |-> FALSE]
    BY NilFacts DEF Traversed, Continue
  <2> QED BY <2>1, NilContents
<1>2. ASSUME NEW n \in Trees, ~IsNil(n), n.left \in S, n.right \in S PROVE n \in S
  <2> SUFFICES ASSUME Ordered(n), NEW found \in Seq(Stored), NEW res, res = at[n][found],
                      Len(res.found) < q.limit
               PROVE  All(n, res)
    OBVIOUS
  <2>1. PICK first : first = Before(n, q)
    OBVIOUS
  <2>2. PICK last : last = Beyond(n, q)
    OBVIOUS
  <2>3. PICK before : before = at[first][found]
    OBVIOUS
  <2>4. PICK here : here = Visit(n, q, before.found)
    OBVIOUS
  <2>5. /\ first \in Trees /\ last \in Trees /\ Ordered(first) /\ Ordered(last)
        /\ NodesOf(n) = NodesOf(first) \cup {NodeAt(n)} \cup NodesOf(last)
    BY <1>2, <2>1, <2>2, NodeOrder
  <2>6. first \in S /\ last \in S
    BY <1>2, <2>1, <2>2 DEF Before, Beyond
  <2>7. \A f \in Seq(Stored) :
          /\ Len(at[first][f].found) < q.limit => All(first, at[first][f])
          /\ Len(at[last][f].found) < q.limit => All(last, at[last][f])
    BY <2>5, <2>6
  <2>8. \A f \in Seq(Stored) : /\ Grown(NodesOf(first), q, f, at[first][f].found)
                               /\ Grown(NodesOf(last), q, f, at[last][f].found)
    BY <2>5, TraverseGrows
  <2>9. Reaches(n.env.timestamp, q) /\ ~Passed(n.env.timestamp, q)
    <3>1. n.env \in Envelopes /\ n.env.timestamp \in Int /\ q.start \in Int /\ q.end \in Int
      BY <1>2, TreesBounded, TreeFacts, TreeAssumption DEF IsRange
    <3>2. q.start <= n.env.timestamp /\ n.env.timestamp < q.end
      BY <3>1 DEF Everything
    <3> QED BY <3>1, <3>2 DEF Reaches, Passed
  <2>10. Grown(NodesOf(first), q, found, before.found) /\ before.found \in Seq(Stored)
    BY <2>3, <2>8 DEF Grown
  <2>11. /\ Grown({NodeAt(n)}, q, before.found, here.found) /\ here.found \in Seq(Stored)
         /\ here.stop => Len(here.found) >= q.limit
         /\ Wanted(NodeAt(n), q) => here.found = Append(before.found, NodeAt(n))
    <3>1. Grown({NodeAt(n)}, q, before.found, here.found)
      BY <1>2, <2>4, <2>9, <2>10, VisitGrows
    <3>2. /\ here.stop => Len(here.found) >= q.limit
          /\ Wanted(NodeAt(n), q) => here.found = Append(before.found, NodeAt(n))
      BY <1>2, <2>4, <2>10, VisitFacts
    <3> QED BY <3>1, <3>2 DEF Grown
  <2>12. \/ before.stop /\ res = before
         \/ here.stop /\ res = here
         \/ res = at[last][here.found]
    BY <1>2, <2>1, <2>2, <2>3, <2>4, <2>9, TraverseStep
  <2> HIDE DEF S, All
  <2>13. CASE before.stop /\ res = before
    BY <2>3, <2>7, <2>13 DEF All
  <2>14. CASE here.stop /\ res = here
    BY <2>11, <2>14
  <2>15. CASE res = at[last][here.found]
    <3>1. Grown(NodesOf(last), q, here.found, res.found)
      BY <2>8, <2>11, <2>15
    <3>2. All(last, res)
      BY <2>7, <2>11, <2>15
    <3>3. Len(before.found) < q.limit
      <4>1. /\ Len(before.found) \in Nat /\ Len(here.found) \in Nat /\ Len(res.found) \in Nat
            /\ Len(before.found) <= Len(here.found) /\ Len(here.found) <= Len(res.found)
        BY <2>11, <3>1 DEF Grown
      <4> QED BY <4>1, SMTT(30)
    <3>4. All(first, before)
      BY <2>3, <2>7, <3>3
    <3>5. ASSUME NEW m \in NodesOf(n), Wanted(m, q) PROVE Has(res.found, m)
      <4>1. CASE m \in NodesOf(first)
        <5>1. Has(before.found, m)
          BY <3>4, <3>5, <4>1 DEF All
        <5>2. Has(here.found, m)
          BY <5>1, <2>11, HasMore
        <5> QED BY <5>2, <3>1, HasMore
      <4>2. CASE m = NodeAt(n)
        <5>1. Has(here.found, m)
          BY <2>10, <2>11, <3>5, <4>2, HasLast
        <5> QED BY <5>1, <3>1, HasMore
      <4>3. CASE m \in NodesOf(last)
        BY <3>2, <3>5, <4>3 DEF All
      <4> QED BY <2>5, <4>1, <4>2, <4>3
    <3> QED BY <3>2, <3>5 DEF All
  <2> QED BY <2>12, <2>13, <2>14, <2>15
<1> HIDE DEF S
<1>3. tree \in S
  BY <1>1, <1>2, TreeInduction
<1> QED BY <1>3 DEF S

\* Whatever the fudges, a read of all time that ends below its limit has returned
\* every envelope that passes the filters.
THEOREM FullReadsAreComplete == Spec => []FullReadsComplete
<1>1. TypeOK => FullReadsComplete
  <2> SUFFICES ASSUME TypeOK, NEW req \in Answered, NEW q, q = Query(req), Everything(q)
               PROVE  Complete(Traverse(root, q), q)
    BY DEF FullReadsComplete, Everything
  <2>1. root \in Trees /\ Ordered(root)
    BY DEF TypeOK
  <2>2. IsRange(q) /\ q.limit \in Nat
    BY QueryFacts
  <2>3. PICK at : Traversed(at, q)
    BY TraverseDef
  <2>4. Traverse(root, q) = at[root][<<>>].found
    BY <2>3 DEF Traversed
  <2>5. PICK none \in Seq(Stored) : none = <<>>
    BY NoneFound
  <2>6. Len(Traverse(root, q)) < q.limit
          => \A m \in NodesOf(root) : Wanted(m, q) => Has(Traverse(root, q), m)
    BY <2>1, <2>2, <2>3, <2>4, <2>5, TraverseAll
  <2> QED BY <2>6 DEF Complete, Has
<1> QED BY <1>1, TypeCorrect, PTL

\* Where keys are timestamps, what comes after a node past the range is past it
\* too, and what comes before a node that does not reach it does not either.
Unfudged(m) == m.key = m.env.timestamp

LEMMA Outside ==
  ASSUME NEW q, IsRange(q), NEW p \in Stored, NEW m \in Stored, Unfudged(p), Unfudged(m)
  PROVE  /\ Passed(p.env.timestamp, q) => ~Wanted(p, q)
         /\ ~Reaches(p.env.timestamp, q) => ~Wanted(p, q)
         /\ Passed(p.env.timestamp, q) /\ Precedes(p, m, q)
              => Passed(m.env.timestamp, q) /\ ~Wanted(m, q)
         /\ ~Reaches(p.env.timestamp, q) /\ Precedes(m, p, q) => ~Wanted(m, q)
<1>1. /\ p.env.timestamp \in Int /\ m.env.timestamp \in Int
      /\ p.key = p.env.timestamp /\ m.key = m.env.timestamp
      /\ q.start \in Int /\ q.end \in Int
  BY TreeAssumption DEF Stored, Unfudged, IsRange
<1>2. \A o : Wanted(o, q) => q.start <= o.env.timestamp /\ o.env.timestamp < q.end
  BY DEF Wanted
<1>3. CASE q.descending
  BY <1>1, <1>2, <1>3 DEF Passed, Reaches, Precedes
<1>4. CASE ~q.descending
  BY <1>1, <1>2, <1>4 DEF Passed, Reaches, Precedes
<1> QED BY <1>3, <1>4

\* What a traversal that starts below the limit finds in a tree without fudges.
Exact(n, q, found, res) ==
  /\ Len(res.found) <= q.limit
  /\ ~res.stop => Len(res.found) < q.limit
  /\ \A m \in NodesOf(n) : Wanted(m, q) =>
       \/ Has(res.found, m)
       \/ /\ Len(res.found) = q.limit
          /\ \A i \in (Len(found) + 1)..Len(res.found) : Precedes(res.found[i], m, q)
  /\ res.stop => Len(res.found) = q.limit \/ \E p \in NodesOf(n) : Passed(p.env.timestamp, q)

LEMMA TraverseExact ==
  ASSUME NEW q, IsRange(q), q.limit \in Nat, NEW at, Traversed(at, q),
         NEW tree \in Trees, Ordered(tree), \A m \in NodesOf(tree) : Unfudged(m),
         NEW start \in Seq(Stored), Len(start) < q.limit
  PROVE  Exact(tree, q, start, at[tree][start])
<1> DEFINE S == {n \in Trees : Ordered(n) /\ (\A m \in NodesOf(n) : Unfudged(m))
                   => \A found \in Seq(Stored) :
                        Len(found) < q.limit => Exact(n, q, found, at[n][found])}
<1>1. Nil \in S
  <2> SUFFICES ASSUME NEW found \in Seq(Stored), Len(found) < q.limit, NEW res, res = at[Nil][found]
               PROVE  Exact(Nil, q, found, res)
    BY NilFacts
  <2>1. at[Nil][found] = [found |-> found, stop |-> FALSE]
    BY NilFacts DEF Traversed, Continue
  <2>2. res.found = found /\ res.stop = FALSE /\ Len(found) \in Nat
    BY <2>1
  <2> QED BY <2>2, NilContents DEF Exact
<1>2. ASSUME NEW n \in Trees, ~IsNil(n), n.left \in S, n.right \in S PROVE n \in S
  <2> SUFFICES ASSUME Ordered(n), \A m \in NodesOf(n) : Unfudged(m), NEW found \in Seq(Stored),
                      Len(found) < q.limit, NEW res, res = at[n][found]
               PROVE  Exact(n, q, found, res)
    OBVIOUS
  <2>1. PICK first : first = Before(n, q)
    OBVIOUS
  <2>2. PICK last : last = Beyond(n, q)
    OBVIOUS
  <2>3. PICK before : before = at[first][found]
    OBVIOUS
  <2>4. PICK here : here = Visit(n, q, before.found)
    OBVIOUS
  <2>5. PICK top : top = NodeAt(n)
    OBVIOUS
  <2>6. /\ first \in Trees /\ last \in Trees /\ Ordered(first) /\ Ordered(last)
        /\ NodesOf(n) = NodesOf(first) \cup {top} \cup NodesOf(last)
        /\ \A m \in NodesOf(first) : Precedes(m, top, q)
        /\ \A m \in NodesOf(last) : Precedes(top, m, q)
        /\ \A m \in NodesOf(first), o \in NodesOf(last) : Precedes(m, o, q)
        /\ \A m \in NodesOf(n) : m \in Stored
    BY <1>2, <2>1, <2>2, <2>5, NodeOrder
  <2>7. first \in S /\ last \in S
    BY <1>2, <2>1, <2>2 DEF Before, Beyond
  <2>8. /\ \A m \in NodesOf(first) : Unfudged(m)
        /\ \A m \in NodesOf(last) : Unfudged(m)
        /\ Unfudged(top) /\ top \in Stored /\ top.env = n.env
    BY <2>5, <2>6 DEF NodeAt
  <2>9. \A f \in Seq(Stored) : Len(f) < q.limit =>
          Exact(first, q, f, at[first][f]) /\ Exact(last, q, f, at[last][f])
    BY <2>6, <2>7, <2>8
  <2>10. \A f \in Seq(Stored) : /\ Grown(NodesOf(first), q, f, at[first][f].found)
                                /\ Grown(NodesOf(last), q, f, at[last][f].found)
    BY <2>6, TraverseGrows
  <2>11. ~IsFudgeSequenceMember(n, last)
    <3>1. ~IsFudged(n)
      BY <2>5, <2>8 DEF IsFudged, Unfudged, NodeAt
    <3>2. ~IsFudged(last)
      <4>1. CASE IsNil(last)
        BY <4>1 DEF IsFudged
      <4>2. CASE ~IsNil(last)
        <5>1. NodeAt(last) \in NodesOf(last)
          BY <2>6, <4>2, Contents
        <5>2. Unfudged(NodeAt(last))
          BY <5>1, <2>8
        <5> QED BY <5>2 DEF IsFudged, Unfudged, NodeAt
      <4> QED BY <4>1, <4>2
    <3> QED BY <3>1, <3>2 DEF IsFudgeSequenceMember
  <2>12. Grown(NodesOf(first), q, found, before.found) /\ before.found \in Seq(Stored)
    BY <2>3, <2>10 DEF Grown
  <2>13. Exact(first, q, found, before)
    BY <2>3, <2>9
  <2>14. \/ ~Reaches(n.env.timestamp, q) /\ res = at[last][found]
         \/ before.stop /\ res = before
         \/ ~before.stop /\ Passed(n.env.timestamp, q) /\ res.found = before.found /\ res.stop
         \/ /\ ~before.stop /\ Reaches(n.env.timestamp, q) /\ ~Passed(n.env.timestamp, q)
            /\ \/ here.stop /\ res = here
               \/ ~here.stop /\ res = at[last][here.found]
    BY <1>2, <2>1, <2>2, <2>3, <2>4, <2>11, TraverseStep
  <2>15. Len(found) \in Nat /\ Len(before.found) \in Nat /\ Len(found) <= Len(before.found)
    BY <2>12 DEF Grown
  <2> HIDE DEF S
  <2>16. CASE ~Reaches(n.env.timestamp, q) /\ res = at[last][found]
    <3>1. Exact(last, q, found, res)
      BY <2>9, <2>16
    <3>2. \A m \in NodesOf(first) \cup {top} : ~Wanted(m, q)
      BY <2>6, <2>8, <2>16, Outside
    <3> QED BY <2>6, <3>1, <3>2 DEF Exact
  <2>17. CASE before.stop /\ res = before
    <3>1. Len(before.found) = q.limit \/ \E p \in NodesOf(first) : Passed(p.env.timestamp, q)
      BY <2>13, <2>17 DEF Exact
    <3>2. ASSUME NEW m \in {top} \cup NodesOf(last), Wanted(m, q)
          PROVE  /\ Len(before.found) = q.limit
                 /\ \A i \in (Len(found) + 1)..Len(before.found) : Precedes(before.found[i], m, q)
      <4>1. \A p \in NodesOf(first) : Precedes(p, m, q)
        BY <2>6
      <4>2. ~\E p \in NodesOf(first) : Passed(p.env.timestamp, q)
        BY <2>6, <2>8, <3>2, <4>1, Outside
      <4>3. \A i \in (Len(found) + 1)..Len(before.found) : before.found[i] \in NodesOf(first)
        BY <2>12 DEF Grown
      <4> QED BY <3>1, <4>1, <4>2, <4>3
    <3>3. \A m \in NodesOf(n) : m \in NodesOf(first) \/ m \in {top} \cup NodesOf(last)
      BY <2>6
    <3>4. NodesOf(first) \subseteq NodesOf(n)
      BY <2>6
    <3> QED BY <2>13, <2>17, <3>1, <3>2, <3>3, <3>4 DEF Exact
  <2>18. CASE ~before.stop /\ Passed(n.env.timestamp, q) /\ res.found = before.found /\ res.stop
    <3>1. \A m \in {top} \cup NodesOf(last) : ~Wanted(m, q)
      BY <2>6, <2>8, <2>18, Outside
    <3>2. top \in NodesOf(n) /\ Passed(top.env.timestamp, q)
      BY <2>6, <2>8, <2>18
    <3> QED BY <2>6, <2>13, <2>18, <3>1, <3>2 DEF Exact
  <2>19. CASE /\ ~before.stop /\ Reaches(n.env.timestamp, q) /\ ~Passed(n.env.timestamp, q)
              /\ \/ here.stop /\ res = here
                 \/ ~here.stop /\ res = at[last][here.found]
    <3>1. /\ Wanted(top, q) => here.found = Append(before.found, top)
          /\ here.found = before.found \/ here.found = Append(before.found, top)
          /\ here.stop => Len(here.found) >= q.limit
          /\ ~here.stop => here.found = before.found \/ ~(Len(here.found) >= q.limit)
      BY <1>2, <2>4, <2>5, <2>12, VisitFacts
    <3>2. Grown({top}, q, before.found, here.found) /\ here.found \in Seq(Stored)
      BY <1>2, <2>4, <2>5, <2>12, <2>19, VisitGrows, SMTT(30) DEF Grown
    <3>3. Len(before.found) < q.limit /\ \A m \in NodesOf(first) : Wanted(m, q) => Has(before.found, m)
      BY <2>13, <2>15, <2>19 DEF Exact
    <3>4. \A m \in NodesOf(first) \cup {top} : Wanted(m, q) => Has(here.found, m)
      <4>1. \A m \in NodesOf(first) : Wanted(m, q) => Has(here.found, m)
        BY <3>2, <3>3, HasMore
      <4>2. Wanted(top, q) => Has(here.found, top)
        BY <2>12, <3>1, HasLast
      <4> QED BY <4>1, <4>2
    <3>5. /\ Len(here.found) \in Nat
          /\ Len(here.found) \in {Len(before.found), Len(before.found) + 1}
      BY <2>12, <3>1
    <3>6. \A i \in (Len(found) + 1)..Len(here.found) : here.found[i] \in NodesOf(first) \cup {top}
      <4>1. \A a \in NodesOf(first), b \in {top} : Precedes(a, b, q)
        BY <2>6
      <4>2. Grown(NodesOf(first) \cup {top}, q, found, here.found)
        BY <4>1, <2>12, <3>2, GrownTwice
      <4> QED BY <4>2 DEF Grown
    <3>7. \A o \in NodesOf(last) : \A a \in NodesOf(first) \cup {top} : Precedes(a, o, q)
      BY <2>6
    <3>8. CASE here.stop /\ res = here
      <4>1. Len(here.found) = q.limit
        BY <2>15, <3>1, <3>3, <3>5, <3>8
      <4>2. \A m \in NodesOf(last), i \in (Len(found) + 1)..Len(here.found) :
              Precedes(here.found[i], m, q)
        BY <3>6, <3>7
      <4>3. \A m \in NodesOf(n) : m \in NodesOf(first) \cup {top} \/ m \in NodesOf(last)
        BY <2>6
      <4> QED BY <3>4, <3>8, <4>1, <4>2, <4>3 DEF Exact
    <3>9. CASE ~here.stop /\ res = at[last][here.found]
      <4>1. Len(here.found) < q.limit
        BY <2>15, <3>1, <3>3, <3>5, <3>9
      <4>2. Exact(last, q, here.found, res) /\ Grown(NodesOf(last), q, here.found, res.found)
        BY <2>9, <2>10, <3>2, <3>9, <4>1
      <4>3. \A m \in NodesOf(first) \cup {top} : Wanted(m, q) => Has(res.found, m)
        BY <3>4, <4>2, HasMore
      <4>4. ASSUME NEW m \in NodesOf(last),
                   \A i \in (Len(here.found) + 1)..Len(res.found) : Precedes(res.found[i], m, q),
                   NEW i \in (Len(found) + 1)..Len(res.found)
            PROVE  Precedes(res.found[i], m, q)
        <5>1. /\ Len(here.found) \in Nat /\ Len(res.found) \in Nat /\ Len(here.found) <= Len(res.found)
              /\ \A j \in 1..Len(here.found) : res.found[j] = here.found[j]
          BY <4>2, SMTT(30) DEF Grown
        <5>2. CASE i \in (Len(here.found) + 1)..Len(res.found)
          BY <4>4, <5>2
        <5>3. CASE i \in (Len(found) + 1)..Len(here.found)
          <6>1. i \in 1..Len(here.found)
            BY <2>15, <5>3
          <6>2. here.found[i] \in NodesOf(first) \cup {top}
            BY <3>6, <5>3
          <6> QED BY <3>7, <5>1, <6>1, <6>2
        <5>4. i \in (Len(here.found) + 1)..Len(res.found) \/ i \in (Len(found) + 1)..Len(here.found)
          BY <2>15, <5>1
        <5> QED BY <5>2, <5>3, <5>4
      <4>5. /\ Len(res.found) <= q.limit
            /\ ~res.stop => Len(res.found) < q.limit
            /\ \A m \in NodesOf(last) : Wanted(m, q) =>
                 \/ Has(res.found, m)
                 \/ /\ Len(res.found) = q.limit
                    /\ \A i \in (Len(here.found) + 1)..Len(res.found) : Precedes(res.found[i], m, q)
            /\ res.stop => Len(res.found) = q.limit
                           \/ \E p \in NodesOf(last) : Passed(p.env.timestamp, q)
        BY <4>2 DEF Exact
      <4>6. \A m \in NodesOf(n) : m \in NodesOf(first) \cup {top} \/ m \in NodesOf(last)
        BY <2>6
      <4>7. NodesOf(last) \subseteq NodesOf(n)
        BY <2>6
      <4> QED BY <4>3, <4>4, <4>5, <4>6, <4>7 DEF Exact
    <3> QED BY <2>19, <3>8, <3>9
  <2> QED BY <2>14, <2>16, <2>17, <2>18, <2>19
<1> HIDE DEF S
<1>3. tree \in S
  BY <1>1, <1>2, TreeInduction
<1> QED BY <1>3 DEF S

\* A read of a source without fudges is exact, for any range and limit.
LEMMA ExactRead ==
  ASSUME TypeOK, ~Fudged(root), NEW q, IsRange(q), q.limit \in Nat \ {0}
  PROVE  FirstWanted(Traverse(root, q), q)
<1>1. root \in Trees /\ Ordered(root) /\ \A m \in NodesOf(root) : Unfudged(m)
  BY DEF TypeOK, Fudged, Unfudged
<1>2. PICK at : Traversed(at, q)
  BY TraverseDef
<1>3. PICK none \in Seq(Stored) : none = <<>> /\ Len(none) = 0
  BY NoneFound
<1>4. PICK res : res = at[root][none]
  OBVIOUS
<1>5. PICK found : found = res.found
  OBVIOUS
<1>6. Traverse(root, q) = found
  BY <1>2, <1>3, <1>4, <1>5 DEF Traversed
<1>7. /\ found \in Seq(Stored)
      /\ \A i \in 1..Len(found) : found[i] \in NodesOf(root) /\ Wanted(found[i], q)
      /\ InOrder(found, q)
  BY <1>1, <1>6, FoundFacts
<1>8. Exact(root, q, none, res)
  <2>1. q.limit \in Nat /\ Len(none) < q.limit
    BY <1>3
  <2> QED BY <1>1, <1>2, <1>4, <2>1, TraverseExact
<1>9. (Len(none) + 1)..Len(found) = 1..Len(found)
  BY <1>3
<1>10. /\ Len(found) <= q.limit
       /\ \A m \in NodesOf(root) : Wanted(m, q) =>
            \/ Has(found, m)
            \/ Len(found) = q.limit /\ \A i \in 1..Len(found) : Precedes(found[i], m, q)
  BY <1>5, <1>8, <1>9 DEF Exact
<1> QED BY <1>6, <1>7, <1>10 DEF FirstWanted, Has

\* While no envelope of the source is fudged, a read returns exactly the first
\* envelopes wanted, up to the limit, whatever was put and removed before.
THEOREM ReadsAreExact == Spec => []ReadsExactWithoutFudge
<1>1. TypeOK => ReadsExactWithoutFudge
  BY QueryFacts, ExactRead DEF ReadsExactWithoutFudge
<1> QED BY <1>1, TypeCorrect, PTL
=============================================================================
