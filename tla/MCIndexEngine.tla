---------------------------- MODULE MCIndexEngine ---------------------------
(* IndexEngine on small sets of repositories, run tasks and requests.      *)
EXTENDS IndexEngine, TLC

(* Repositories and tasks are interchangeable in every safety property.    *)
Symmetry == Permutations(Repos) \cup Permutations(Tasks)

=============================================================================
