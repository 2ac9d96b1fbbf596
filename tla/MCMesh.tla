------------------------------- MODULE MCMesh -------------------------------
(***************************************************************************)
(* Mesh for TLC.  Dry-run nodes are interchangeable, and so are collecting *)
(* ones, jobs and groups: only sets of them appear in Mesh.  Symmetry is   *)
(* used in a safety run alone, never in a run with liveness.               *)
(***************************************************************************)
EXTENDS Mesh, TLC

Symmetry ==
  Permutations(DryRun) \cup Permutations(Nodes \ DryRun)
    \cup Permutations(Jobs) \cup Permutations(Groups)

=============================================================================
