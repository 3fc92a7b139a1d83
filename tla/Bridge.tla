-------------------------------- MODULE Bridge --------------------------------
(***************************************************************************)
(* One workspace of the Augment bridge (src/augmentcode-interface): the    *)
(* blobs a client uploads, the files they are written to, and the debounced*)
(* task that tells the engine to index them (app.py, state.py,             *)
(* ce_client.py).                                                          *)
(*                                                                         *)
(* The handlers are tasks of one event loop: a step is what runs between   *)
(* two awaits.  The name of a blob is a hash of its path and its content,  *)
(* so PathOf is a function and a file is told by the blob written to it.   *)
(***************************************************************************)
EXTENDS Naturals, Sequences, FiniteSets, SequencesExt

CONSTANTS
  Blobs,           (* Blob names.                                          *)
  PathOf,          (* PathOf[b]: the path of blob b.                       *)
  Handlers,        (* Requests handled at the same time.                   *)
  NoBlob,          (* No blob, no file.                                    *)
  NoCheckpoint,    (* A request without a checkpoint id.                   *)
  MaxCheckpoints,  (* Checkpoints kept (5 in the code).                    *)
  MaxRequests      (* Bound on the requests in a behaviour.                *)

(* What the checked instances assume of the constants.                     *)
BridgeAssumption == {"free", "worker"} \cap Handlers = {}

Paths == {PathOf[b] : b \in Blobs}
Idle == [step |-> "idle"]

VARIABLES
  blobs,        (* blobs[b]: is b "unknown", "known" or "deleted"?         *)
  paths,        (* paths[p]: the blob that owns path p.                    *)
  checkpoints,  (* The checkpoints kept, oldest first.                     *)
  registered,   (* ce_registered                                           *)
  disk,         (* disk[p]: the blob whose content the file p has.         *)
  lock,         (* Who holds the lock of the workspace.                    *)
  handler,      (* handler[h]: the request of h and where it is.           *)
  dirty,        (* Is the workspace in _trigger_dirty?                     *)
  worker,       (* Where its task in _pending_triggers is.                 *)
  requests,     (* Requests so far; the next checkpoint has this number.   *)
  untold,       (* History: paths changed since the engine was last told.  *)
  lost,         (* History: something failed since then.                   *)
  orphans       (* History: paths whose owner a retrieval dropped without  *)
                (* removing the file.                                      *)

state == <<blobs, paths, checkpoints>>
trigger == <<dirty, worker>>
vars == <<state, registered, disk, lock, handler, trigger, requests, untold, lost,
          orphans>>

TypeOK ==
  /\ blobs \in [Blobs -> {"unknown", "known", "deleted"}]
  /\ paths \in [Paths -> Blobs \cup {NoBlob}]
  /\ disk \in [Paths -> Blobs \cup {NoBlob}]
  /\ Len(checkpoints) <= MaxCheckpoints
  /\ \A i \in DOMAIN checkpoints : checkpoints[i].set \subseteq Blobs
  /\ lock \in Handlers \cup {"free", "worker"}
  /\ \A h \in Handlers :
       handler[h].step \in {"idle", "write", "unlink", "save", "register", "schedule"}
  /\ worker \in {"none", "sleep", "register", "send", "mark", "save"}
  /\ requests \in 0 .. MaxRequests
  /\ untold \subseteq Paths /\ orphans \subseteq Paths

Init ==
  /\ blobs = [b \in Blobs |-> "unknown"]
  /\ paths = [p \in Paths |-> NoBlob]
  /\ checkpoints = <<>>
  /\ registered = FALSE
  /\ disk = [p \in Paths |-> NoBlob]
  /\ lock = "free"
  /\ handler = [h \in Handlers |-> Idle]
  /\ dirty = FALSE /\ worker = "none"
  /\ requests = 0
  /\ untold = {} /\ lost = FALSE /\ orphans = {}

-----------------------------------------------------------------------------
(* state.py                                                                *)

(* Blob by blob, each to its path: the last one of a path stays.           *)
Placed(files, uploaded) ==
  LET of(p) == {i \in DOMAIN uploaded : PathOf[uploaded[i]] = p}
  IN  [p \in Paths |-> IF of(p) = {} THEN files[p] ELSE uploaded[Max(of(p))]]

(* record_upload                                                           *)
RecordUploads(uploaded) ==
  /\ blobs' = [b \in Blobs |-> IF b \in Range(uploaded) THEN "known" ELSE blobs[b]]
  /\ paths' = Placed(paths, uploaded)

Known(names) == {b \in names : blobs[b] = "known"}

(* apply_deletions: the paths to unlink are those whose owner goes.        *)
Owned(names) == {PathOf[b] : b \in {c \in Known(names) : paths[PathOf[c]] = c}}

Deleted(names) == [b \in Blobs |-> IF b \in Known(names) THEN "deleted" ELSE blobs[b]]
Disowned(set) == [p \in Paths |-> IF p \in set THEN NoBlob ELSE paths[p]]

Resolves(base) == base = NoCheckpoint \/ \E i \in DOMAIN checkpoints : checkpoints[i].id = base

(* resolve_blob_set                                                        *)
BlobSet(base, added, deleted) ==
  (UNION {checkpoints[i].set : i \in {j \in DOMAIN checkpoints : checkpoints[j].id = base}}
     \cup added) \ deleted

(* create_checkpoint: the oldest ones go.                                  *)
WithCheckpoint(set) ==
  LET all == Append(checkpoints, [id |-> requests, set |-> set])
  IN  IF Len(all) > MaxCheckpoints THEN Tail(all) ELSE all

-----------------------------------------------------------------------------
(* The requests, each under the lock of the workspace up to its save.      *)

(* h takes the lock.  A bound on the requests.                             *)
Enter(h) ==
  /\ handler[h] = Idle /\ lock = "free" /\ requests < MaxRequests
  /\ requests' = requests + 1

At(h, step) == handler[h].step = step
Goto(h, next) == handler' = [handler EXCEPT ![h] = next]

(* batch_upload: the files are written in a thread.                        *)
BatchUpload(h) ==
  \E uploaded \in SeqOf(Blobs, 2) \ {<<>>} :
    /\ Enter(h)
    /\ lock' = h
    /\ Goto(h, [step |-> "write", uploaded |-> uploaded])
    /\ UNCHANGED <<state, registered, disk, trigger, untold, lost, orphans>>

WriteAll(h) ==
  /\ At(h, "write")
  /\ LET uploaded == handler[h].uploaded
         written == {PathOf[b] : b \in Range(uploaded)}
     IN  /\ disk' = Placed(disk, uploaded)
         /\ RecordUploads(uploaded)
         /\ untold' = untold \cup written
         /\ orphans' = orphans \ written
  /\ Goto(h, [step |-> "save", then |-> "register"])
  /\ UNCHANGED <<checkpoints, registered, lock, trigger, requests, lost>>

(* An error between a change of the files and the trigger.                 *)
Fail(h) ==
  /\ Goto(h, Idle)
  /\ lost' = (lost \/ untold # {})

(* checkpoint_blobs: the deletions, then the checkpoint.  An id that is    *)
(* not kept is noticed after the files are gone.                           *)
CheckpointBlobs(h) ==
  \E base \in {NoCheckpoint} \cup 0 .. requests, added, deleted \in SUBSET Blobs :
    /\ Cardinality(added) <= 1 /\ Cardinality(deleted) <= 1
    /\ Enter(h)
    /\ blobs' = Deleted(deleted)
    /\ paths' = Disowned(Owned(deleted))
    /\ lock' = h
    /\ Goto(h, [step |-> "unlink", paths |-> Owned(deleted), known |-> Resolves(base),
                set |-> BlobSet(base, added, deleted), checkpoint |-> TRUE])
    /\ UNCHANGED <<checkpoints, registered, disk, trigger, untold, lost, orphans>>

(* codebase_retrieval: the same deletions, whose files nobody unlinks; an  *)
(* unknown id ends the request; then whatever is owned by a blob outside   *)
(* the client's set goes, with its file.                                   *)
Reconcile(h, base, added, deleted) ==
  LET left == Disowned(Owned(deleted))
      active == BlobSet(base, added, deleted)
      gone == {p \in Paths : left[p] \notin active \cup {NoBlob}}
  IN  IF ~Resolves(base)
      THEN /\ blobs' = Deleted(deleted) /\ paths' = left
           /\ UNCHANGED <<lock, handler>>
      ELSE /\ blobs' = [b \in Blobs |-> IF \E p \in gone : left[p] = b
                                        THEN "deleted" ELSE Deleted(deleted)[b]]
           /\ paths' = [p \in Paths |-> IF p \in gone THEN NoBlob ELSE left[p]]
           /\ lock' = h
           /\ Goto(h, [step |-> "unlink", paths |-> gone, known |-> TRUE,
                       set |-> {}, checkpoint |-> FALSE])

CodebaseRetrieval(h) ==
  \E base \in {NoCheckpoint} \cup 0 .. requests, added, deleted \in SUBSET Blobs :
    /\ Cardinality(added) <= 2 /\ Cardinality(deleted) <= 1
    /\ Enter(h)
    /\ Reconcile(h, base, added, deleted)
    /\ orphans' = orphans \cup Owned(deleted)
    /\ UNCHANGED <<checkpoints, registered, disk, trigger, untold, lost>>

(* _unlink_files, in a thread, and what follows up to the save.            *)
Unlink(h) ==
  /\ At(h, "unlink")
  /\ LET r == handler[h]
     IN  /\ disk' = [p \in Paths |-> IF p \in r.paths THEN NoBlob ELSE disk[p]]
         /\ untold' = untold \cup r.paths
         /\ IF ~r.known
            THEN /\ Goto(h, Idle) /\ lock' = "free"
                 /\ lost' = (lost \/ r.paths # {})
                 /\ UNCHANGED checkpoints
            ELSE /\ checkpoints' = IF r.checkpoint THEN WithCheckpoint(r.set) ELSE checkpoints
                 /\ Goto(h, [step |-> "save",
                             then |-> IF r.paths = {} THEN "idle" ELSE "schedule"])
                 /\ UNCHANGED <<lock, lost>>
  /\ UNCHANGED <<blobs, paths, registered, trigger, requests, orphans>>

(* The save, and the lock is released.                                     *)
Save(h) ==
  /\ At(h, "save")
  /\ lock' = "free"
  /\ Goto(h, [step |-> handler[h].then])
  /\ UNCHANGED <<state, registered, disk, trigger, requests, untold, lost, orphans>>

(* _ensure_registered: the engine's settings are read, and written if the  *)
(* workspace is not among its repositories.                                *)
EnsureRegistered(h) ==
  /\ At(h, "register")
  /\ \/ registered' = TRUE /\ Goto(h, [step |-> "schedule"]) /\ UNCHANGED lost
     \/ ~registered /\ Fail(h) /\ UNCHANGED registered
  /\ UNCHANGED <<state, disk, lock, trigger, requests, untold, orphans>>

(* schedule_index_trigger: a task that is not done yet will see the mark.  *)
ScheduleIndexTrigger(h) ==
  /\ At(h, "schedule")
  /\ dirty' = TRUE
  /\ worker' = IF worker = "none" THEN "sleep" ELSE worker
  /\ Goto(h, Idle)
  /\ UNCHANGED <<state, registered, disk, lock, requests, untold, lost, orphans>>

-----------------------------------------------------------------------------
(* _fire_trigger                                                           *)

(* The mark is cleared after the sleep and before the trigger.             *)
Wake ==
  /\ worker = "sleep"
  /\ dirty' = FALSE
  /\ worker' = IF registered THEN "send" ELSE "register"
  /\ UNCHANGED <<state, registered, disk, lock, handler, requests, untold, lost, orphans>>

(* Any failure clears the mark and ends the task.                          *)
FireFails ==
  /\ worker \in {"register", "send"}
  /\ dirty' = FALSE /\ worker' = "none"
  /\ lost' = (lost \/ untold # {})
  /\ UNCHANGED <<state, registered, disk, lock, handler, requests, untold, orphans>>

FireRegisters ==
  /\ worker = "register"
  /\ registered' = TRUE
  /\ worker' = "send"
  /\ UNCHANGED <<state, disk, lock, handler, dirty, requests, untold, lost, orphans>>

(* trigger_index: the engine takes the trigger and will look at every      *)
(* file; or it refuses, which is only logged.                              *)
Send ==
  /\ worker = "send"
  /\ \/ untold' = {} /\ lost' = FALSE
     \/ UNCHANGED untold /\ lost' = (lost \/ untold # {})
  /\ worker' = "mark"
  /\ UNCHANGED <<state, registered, disk, lock, handler, dirty, requests, orphans>>

(* mark_index_triggered and the save, under the lock.                      *)
MarkTriggered ==
  /\ worker = "mark" /\ lock = "free"
  /\ lock' = "worker" /\ worker' = "save"
  /\ UNCHANGED <<state, registered, disk, handler, dirty, requests, untold, lost, orphans>>

EndRound_Discards ==
  /\ worker = "save"
  /\ lock' = "free"
  /\ dirty' = FALSE /\ worker' = "none"
  /\ UNCHANGED <<state, registered, disk, handler, requests, untold, lost, orphans>>

(* Marked again meanwhile: another round.                                  *)
EndRound ==
  /\ worker = "save"
  /\ lock' = "free"
  /\ worker' = IF dirty THEN "sleep" ELSE "none"
  /\ UNCHANGED <<state, registered, disk, handler, dirty, requests, untold, lost, orphans>>

Next ==
  \/ \E h \in Handlers :
       \/ BatchUpload(h) \/ WriteAll(h) \/ CheckpointBlobs(h) \/ CodebaseRetrieval(h)
       \/ Unlink(h) \/ Save(h) \/ EnsureRegistered(h) \/ ScheduleIndexTrigger(h)
  \/ Wake \/ FireFails \/ FireRegisters \/ Send \/ MarkTriggered \/ EndRound

Spec == Init /\ [][Next]_vars

-----------------------------------------------------------------------------
Changing(p) == \E h \in Handlers : At(h, "unlink") /\ p \in handler[h].paths

TriggerComing ==
  \/ dirty /\ worker # "none"
  \/ worker \in {"register", "send"}
  \/ \E h \in Handlers : \/ At(h, "register") \/ At(h, "schedule")
                         \/ (At(h, "save") /\ handler[h].then # "idle")

(* State, files and engine stay in step while uploads, deletions and       *)
(* triggers overlap: the file of an owned path has the content of its      *)
(* owner, and no other file is left but those a retrieval forgot; and as   *)
(* long as nothing fails, whatever has changed since the engine was told   *)
(* is told again (app.py: "Writes landing during the trigger await         *)
(* re-mark dirty and loop once more").                                     *)
EngineIsTold ==
  /\ \A p \in Paths : ~Changing(p) =>
       disk[p] = paths[p] \/ (paths[p] = NoBlob /\ p \in orphans)
  /\ untold # {} => TriggerComing \/ lost
=============================================================================
