--------------------------- MODULE MCQuotaControl ---------------------------
(* Instances of QuotaControl: directories a and b of the base directory and,  *)
(* where a run says so, a directory inside a.                                 *)
EXTENDS QuotaControl, TLC

CONSTANTS a, b, a_sub, base

FlatPaths == {a, b}
FlatParent == [p \in FlatPaths |-> base]

NestedPaths == {a, b, a_sub}
NestedParent == [p \in NestedPaths |-> IF p = a_sub THEN a ELSE base]

\* Goroutines run the same code.
ThreadSymmetry == Permutations(Threads)
=============================================================================
