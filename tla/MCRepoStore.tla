---------------------------- MODULE MCRepoStore ----------------------------
(* An instance of RepoStore for TLC.  The slots for migrations are alike.  *)
EXTENDS RepoStore, TLC

MCMigs == Permutations(Migs)
=============================================================================
