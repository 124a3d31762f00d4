------------------------- MODULE MCMigratePipeline -------------------------
(***************************************************************************)
(* Model-checking instance of MigratePipeline: the values of the constants *)
(* are given in the .cfg files.                                            *)
(***************************************************************************)
EXTENDS MigratePipeline
=============================================================================
