----------------------------- MODULE SerialRuns -----------------------------
(***************************************************************************)
(* What the index engine promises about one repository's datastore,        *)
(* whatever the triggers, cancellations and deletions around it:           *)
(*                                                                         *)
(*   - the runs of one repository are serial, while those of different     *)
(*     repositories may overlap;                                           *)
(*   - a run works on the handle cached in repo_dbs and the handle stays   *)
(*     cached until the run is over, so that readers of the map see the    *)
(*     run's writes and nobody closes a datastore under a running pipeline.*)
(*                                                                         *)
(* IndexEngine implements this specification.                              *)
(***************************************************************************)
CONSTANT Repos

VARIABLES
  running,   (* running[r]: a pipeline run works on the datastore of r.    *)
  cached     (* The repositories whose handle is in repo_dbs.              *)

vars == <<running, cached>>

TypeOK ==
  /\ running \in [Repos -> BOOLEAN]
  /\ cached \in SUBSET Repos

Init ==
  /\ running = [r \in Repos |-> FALSE]
  /\ cached = {}

(* A run starts alone, on the cached handle (opened now if it was not).    *)
Start(r) ==
  /\ ~running[r]
  /\ running' = [running EXCEPT ![r] = TRUE]
  /\ cached' = cached \cup {r}

End(r) ==
  /\ running[r]
  /\ running' = [running EXCEPT ![r] = FALSE]
  /\ UNCHANGED cached

(* Anybody may open the datastore.                                         *)
Open(r) ==
  /\ cached' = cached \cup {r}
  /\ UNCHANGED running

(* Only the handle of a repository at rest is dropped.                     *)
Close(r) ==
  /\ ~running[r]
  /\ cached' = cached \ {r}
  /\ UNCHANGED running

Next == \E r \in Repos : Start(r) \/ End(r) \/ Open(r) \/ Close(r)

Spec == Init /\ [][Next]_vars

=============================================================================
