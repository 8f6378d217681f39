------------------------------- MODULE MCStore -------------------------------
(* Instances of Store for TLC. *)
EXTENDS Store, TLC

\* Memory below the threshold, a little and far above it, and a failed reading
\* of the total.
LowMemory    == [heap |-> 1, total |-> 10]
MidMemory    == [heap |-> 3, total |-> 10]
HighMemory   == [heap |-> 10, total |-> 10]
FailedMemory == [heap |-> 10, total |-> 0]

AllMemories  == {LowMemory, MidMemory, HighMemory, FailedMemory}
Pressure     == {HighMemory}
MildPressure == {MidMemory}

Symmetry == Permutations(Writers) \cup Permutations(Sources)
=============================================================================
