--------------------------- MODULE MCLogConnection ---------------------------
(* Instances of LogConnection.                                                *)
EXTENDS LogConnection, TLC

\* The callbacks of the flush timer run the same code.
FlusherSymmetry == Permutations(Flushers)
=============================================================================
