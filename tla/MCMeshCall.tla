----------------------------- MODULE MCMeshCall -----------------------------
(* The instance of MeshCall that TLC checks is given by its configuration. *)
EXTENDS MeshCall
=============================================================================
