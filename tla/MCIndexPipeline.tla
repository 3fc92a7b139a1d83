--------------------------- MODULE MCIndexPipeline ---------------------------
(* IndexPipeline on two files, so that batches straddle them.              *)
EXTENDS IndexPipeline, TLC

CONSTANTS f1, f2

(* f2 fills a batch of two on its own; with f1 before it, mid-file.        *)
MCChunksOf == f1 :> 1 @@ f2 :> 2

(* Everywhere but between the deletion of the chunks and of the file_meta. *)
AbortSafely == Phases \ {"del_meta"}
AbortAnywhere == Phases

=============================================================================
