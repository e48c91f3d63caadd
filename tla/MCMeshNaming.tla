---------------------------- MODULE MCMeshNaming ----------------------------
(* Small instances of MeshNaming.                                           *)
EXTENDS MeshNaming, TLC

\* No definition tells boots apart.
BootSymmetry == Permutations(Node)
=============================================================================
