--------------------------- MODULE MCRunArtifacts ---------------------------
(* Reviews of one run, the first of which may die while its directory is     *)
(* being written.                                                            *)
EXTENDS RunArtifacts
=============================================================================
