------------------------- MODULE MCMeshOrchestrator -------------------------
(***************************************************************************)
(* Small instances of MeshOrchestrator: two runs, two projects, one kept.  *)
(***************************************************************************)
EXTENDS MeshOrchestrator

OneOrTwo == {1, 2}

=============================================================================
