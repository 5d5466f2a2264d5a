--------------------------- MODULE MCFilebeatPilot ---------------------------
(* Instances of FilebeatPilot: two containers, with a log of their own each or *)
(* with one host directory that both mount.                                   *)
EXTENDS FilebeatPilot, TLC

CONSTANTS c1, c2, log1, log2, shared

OneContainer == {c1}
OnePath == c1 :> log1

TwoContainers == {c1, c2}
OwnPath == (c1 :> log1) @@ (c2 :> log2)
SharedPath == (c1 :> shared) @@ (c2 :> shared)

\* Containers that mount the same directory are alike.
ContainerSymmetry == Permutations(TwoContainers)
=============================================================================
