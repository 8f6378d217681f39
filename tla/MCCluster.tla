------------------------------ MODULE MCCluster ------------------------------
(***************************************************************************)
(* Cluster with three nodes, an envelope for each of the last two, and two   *)
(* Meta calls at the first; both calls are in flight while at most one of    *)
(* the envelopes has been sent.                                              *)
(***************************************************************************)
EXTENDS Cluster, TLC

CONSTANTS s1, s2, e1, e2, c1, c2, k1, k2
MCSourceIds == {s1, s2}
MCHome == s1 :> 1 @@ s2 :> 2
MCSourceOf == e1 :> s1 @@ e2 :> s2
MCCallsAt == [c \in {c1, c2} |-> 0]
Symmetry == Permutations({c1, c2}) \cup Permutations({k1, k2})
=============================================================================
