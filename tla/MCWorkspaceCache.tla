-------------------------- MODULE MCWorkspaceCache --------------------------
(* Instances of WorkspaceCache for TLC.                                     *)
EXTENDS WorkspaceCache, TLC

Symmetry == Permutations(CacheKeys) \cup Permutations(Callers)
=============================================================================
