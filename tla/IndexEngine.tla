---------------------------- MODULE IndexEngine -----------------------------
(***************************************************************************)
(* The index engine (src/indexing/mod.rs): the bounded trigger channel,    *)
(* the consumer that turns triggers into run tasks under a semaphore, the  *)
(* run task itself (run_one), the per-repository locks, statuses and       *)
(* cancellation tokens, and the requests of src/server.rs that contend     *)
(* with runs: cancel, delete index, ignore/unignore a file, and the reads  *)
(* that open a repository's datastore.                                     *)
(*                                                                         *)
(* One action is what happens between two await points that another task   *)
(* can observe.  The pipeline is one step here (PipelineEnds): module      *)
(* IndexPipeline opens it up.  A trigger is its repository: the list of    *)
(* changed files and the rebuild flag matter only inside the pipeline.     *)
(***************************************************************************)
EXTENDS Naturals, Sequences, FiniteSets

CONSTANTS
  Repos,            (* Repository paths (already normalised).              *)
  Tasks,            (* Slots for spawned run_one tasks.                    *)
  Clients,          (* Slots for concurrent HTTP requests.                 *)
  None,             (* No owner.                                           *)
  QueueCap,         (* Capacity of the trigger channel (256 in the code).  *)
  IndexConcurrency  (* settings.index_concurrency at boot; may be 0.       *)

(* index_concurrency.max(1).                                               *)
Permits == IF IndexConcurrency = 0 THEN 1 ELSE IndexConcurrency

ASSUME EngineAssumption ==
  /\ QueueCap \in Nat \ {0}
  /\ IndexConcurrency \in Nat
  /\ IsFiniteSet(Tasks)
  /\ Permits <= Cardinality(Tasks)
  /\ Tasks \cap Clients = {}
  /\ None \notin Tasks \cup Clients \cup Repos

VARIABLES
  queue,      (* The trigger channel, oldest first.                        *)
  inHand,     (* The trigger the consumer received and not yet dispatched. *)
  permits,    (* Free permits of the index semaphore.                      *)
  pc,         (* pc[t]: where run task t is.                               *)
  job,        (* job[t]: the repository of run task t.                     *)
  lock,       (* lock[r]: holder of the per-repository lock.               *)
  tokens,     (* tokens[r]: the run whose token is in cancel_tokens.       *)
  cancelled,  (* The runs whose token has been cancelled.                  *)
  status,     (* status[r]: the state field of r's RepoStatus.             *)
  dbs,        (* Keys of repo_dbs: the cached datastore handles.           *)
  dir,        (* Repositories with an index directory on disk.             *)
  gate,       (* gate[r]: the delete request that holds r's open gate.     *)
  req,        (* req[c]: where request c is.                               *)
  target      (* target[c]: the repository of request c.                   *)

sched == <<queue, inHand, permits>>
runs == <<pc, job>>
cancel == <<tokens, cancelled>>
store == <<dbs, dir, gate>>
reqs == <<req, target>>
vars == <<sched, runs, lock, cancel, status, store, reqs>>

(***************************************************************************)
(* Run task: free, waiting for the repository lock, then under the lock up *)
(* to exit.  ok, failed and aborted are the three results of the pipeline. *)
(***************************************************************************)
Result == {"ok", "failed", "aborted"}
WithToken == {"mark", "open", "work", "clear"} \cup Result
Marked == {"open", "work"} \cup Result
WithDb == {"work", "clear"} \cup Result
Locked == WithToken \cup {"token", "exit"}
RunPc == Locked \cup {"free", "lock"}

(* Requests: cancel_index, the delete request, ignore/unignore a file.     *)
ReqLocked == {"close_drop", "edit"}
ReqPc == ReqLocked \cup
  {"idle", "cancel", "close_cancel", "close_lock", "clear", "gate", "remove",
   "edit_lock"}

Busy == {t \in Tasks : pc[t] # "free"}

TypeOK ==
  /\ queue \in Seq(Repos) /\ Len(queue) <= QueueCap
  /\ inHand \in Repos \cup {None}
  /\ permits \in 0 .. Permits
  /\ pc \in [Tasks -> RunPc]
  /\ job \in [Tasks -> Repos \cup {None}]
  /\ \A t \in Tasks : pc[t] # "free" => job[t] \in Repos
  /\ lock \in [Repos -> Tasks \cup Clients \cup {None}]
  /\ tokens \in [Repos -> Tasks \cup {None}]
  /\ cancelled \in SUBSET Tasks
  /\ status \in [Repos -> {"absent", "idle", "indexing", "error"}]
  /\ dbs \in SUBSET Repos
  /\ dir \in SUBSET Repos
  /\ gate \in [Repos -> Clients \cup {None}]
  /\ req \in [Clients -> ReqPc]
  /\ target \in [Clients -> Repos \cup {None}]
  /\ \A c \in Clients : req[c] # "idle" => target[c] \in Repos

(* At boot the configured repositories have a status entry; earlier        *)
(* sessions left an index directory for some repositories.                 *)
Init ==
  /\ queue = <<>>
  /\ inHand = None
  /\ permits = Permits
  /\ pc = [t \in Tasks |-> "free"]
  /\ job = [t \in Tasks |-> None]
  /\ lock = [r \in Repos |-> None]
  /\ tokens = [r \in Repos |-> None]
  /\ cancelled = {}
  /\ status \in [Repos -> {"absent", "idle"}]
  /\ dbs = {}
  /\ dir \in SUBSET Repos
  /\ gate = [r \in Repos |-> None]
  /\ req = [c \in Clients |-> "idle"]
  /\ target = [c \in Clients |-> None]

-----------------------------------------------------------------------------
(* Triggers and the consumer.                                              *)

(* register_repo: the status entry is checked and inserted under one write *)
(* lock.                                                                   *)
Register(r) ==
  /\ status[r] = "absent"
  /\ status' = [status EXCEPT ![r] = "idle"]
  /\ UNCHANGED <<sched, runs, lock, cancel, store, reqs>>

(* Fault: the channel is unbounded.                                        *)
Trigger_Unbounded(r) ==
  /\ Len(queue) <= QueueCap
  /\ queue' = Append(queue, r)
  /\ UNCHANGED <<inHand, permits, runs, lock, cancel, status, store, reqs>>

(* trigger_index, trigger_rebuild, one step of trigger_index_all, a poll   *)
(* or a debounced watcher event: one message into the channel.  The await  *)
(* blocks on a full channel; the watcher's try_send gives up instead.      *)
Trigger(r) ==
  /\ Len(queue) < QueueCap
  /\ queue' = Append(queue, r)
  /\ UNCHANGED <<inHand, permits, runs, lock, cancel, status, store, reqs>>

(* Fault: a trigger is dropped as redundant while its repository is being  *)
(* indexed.                                                                *)
Receive_Coalesced ==
  /\ inHand = None
  /\ queue # <<>>
  /\ inHand' = IF \E t \in Busy : job[t] = Head(queue) THEN None ELSE Head(queue)
  /\ queue' = Tail(queue)
  /\ UNCHANGED <<permits, runs, lock, cancel, status, store, reqs>>

(* run_consumer: rx.recv(), then the settings snapshot.                    *)
Receive ==
  /\ inHand = None
  /\ queue # <<>>
  /\ inHand' = Head(queue)
  /\ queue' = Tail(queue)
  /\ UNCHANGED <<permits, runs, lock, cancel, status, store, reqs>>

(* Fault: the permit is dropped when the task is spawned.                  *)
Dispatch_PermitDropped(t) ==
  /\ inHand # None
  /\ permits > 0
  /\ pc[t] = "free"
  /\ pc' = [pc EXCEPT ![t] = "lock"]
  /\ job' = [job EXCEPT ![t] = inHand]
  /\ inHand' = None
  /\ UNCHANGED <<queue, permits, lock, cancel, status, store, reqs>>

(* acquire_owned() and spawn: the permit travels with the task.            *)
Dispatch(t) ==
  /\ inHand # None
  /\ permits > 0
  /\ pc[t] = "free"
  /\ permits' = permits - 1
  /\ pc' = [pc EXCEPT ![t] = "lock"]
  /\ job' = [job EXCEPT ![t] = inHand]
  /\ inHand' = None
  /\ UNCHANGED <<queue, lock, cancel, status, store, reqs>>

-----------------------------------------------------------------------------
(* The run task.                                                           *)

Goto(t, from, to) ==
  /\ pc[t] = from
  /\ pc' = [pc EXCEPT ![t] = to]

AcquireRepoLock(t) ==
  /\ Goto(t, "lock", "token")
  /\ lock[job[t]] = None
  /\ lock' = [lock EXCEPT ![job[t]] = t]
  /\ UNCHANGED <<sched, job, cancel, status, store, reqs>>

NewCancelToken(t) ==
  /\ Goto(t, "token", "mark")
  /\ tokens' = [tokens EXCEPT ![job[t]] = t]
  /\ cancelled' = cancelled \ {t}
  /\ UNCHANGED <<sched, job, lock, status, store, reqs>>

MarkIndexing(t) ==
  /\ Goto(t, "mark", "open")
  /\ status' = [status EXCEPT ![job[t]] = "indexing"]
  /\ UNCHANGED <<sched, job, lock, cancel, store, reqs>>

(* Faults: an early return that keeps the token; one that leaves the       *)
(* status as it was.                                                       *)
FailEarly_KeepsToken(t) ==
  /\ Goto(t, "open", "exit")
  /\ status' = [status EXCEPT ![job[t]] = "error"]
  /\ UNCHANGED <<sched, job, lock, cancel, reqs>>

FailEarly_KeepsStatus(t) ==
  /\ Goto(t, "open", "exit")
  /\ tokens' = [tokens EXCEPT ![job[t]] = None]
  /\ UNCHANGED <<sched, job, lock, cancelled, status, reqs>>

(* The early returns of run_one: the guard on statuses is held until the   *)
(* token is cleared too.                                                   *)
FailEarly(t) ==
  /\ Goto(t, "open", "exit")
  /\ status' = [status EXCEPT ![job[t]] = "error"]
  /\ tokens' = [tokens EXCEPT ![job[t]] = None]
  /\ UNCHANGED <<sched, job, lock, cancelled, reqs>>

(* VoyageClient::from_config refuses the settings snapshot.                *)
ClientConfigFails(t) ==
  /\ FailEarly(t)
  /\ UNCHANGED store

(* get_or_open: the cached handle, or a datastore opened behind the gate.  *)
GetOrOpen(r) ==
  /\ r \in dbs \/ gate[r] = None
  /\ dbs' = dbs \cup {r}
  /\ dir' = IF r \in dbs THEN dir ELSE dir \cup {r}
  /\ UNCHANGED gate

(* get_or_open fails; open_db may have created the directory by then.      *)
OpenError(r) ==
  /\ r \notin dbs
  /\ gate[r] = None
  /\ dir' \in {dir, dir \cup {r}}
  /\ UNCHANGED <<dbs, gate>>

OpenFails(t) ==
  /\ FailEarly(t)
  /\ OpenError(job[t])

OpenDb(t) ==
  /\ Goto(t, "open", "work")
  /\ GetOrOpen(job[t])
  /\ UNCHANGED <<sched, job, lock, cancel, status, reqs>>

(* pipeline.run returns.  A cancelled run may still end ok or failed: the  *)
(* token is polled, and the poll may come too late.                        *)
PipelineEnds(t) ==
  /\ \E res \in Result :
       /\ res = "aborted" => t \in cancelled
       /\ Goto(t, "work", res)
  /\ UNCHANGED <<sched, job, lock, cancel, status, store, reqs>>

(* The final status write; ok and aborted both leave the repository idle.  *)
FinishRun(t) ==
  /\ pc[t] \in Result
  /\ pc' = [pc EXCEPT ![t] = "clear"]
  /\ status' = [status EXCEPT ![job[t]] =
                  IF pc[t] = "failed" THEN "error" ELSE "idle"]
  /\ UNCHANGED <<sched, job, lock, cancel, store, reqs>>

(* clear_cancel_token removes whatever token the repository has.           *)
ClearCancelToken(t) ==
  /\ Goto(t, "clear", "exit")
  /\ tokens' = [tokens EXCEPT ![job[t]] = None]
  /\ UNCHANGED <<sched, job, lock, cancelled, status, store, reqs>>

(* Fault: the lock guard outlives the task.                                *)
ExitRun_KeepsLock(t) ==
  /\ Goto(t, "exit", "free")
  /\ permits' = permits + 1
  /\ job' = [job EXCEPT ![t] = None]
  /\ cancelled' = cancelled \ {t}
  /\ UNCHANGED <<queue, inHand, lock, tokens, status, store, reqs>>

(* End of run_one: the lock guard drops, then the task's permit.           *)
ExitRun(t) ==
  /\ Goto(t, "exit", "free")
  /\ lock' = [lock EXCEPT ![job[t]] = None]
  /\ permits' = permits + 1
  /\ job' = [job EXCEPT ![t] = None]
  /\ cancelled' = cancelled \ {t}
  /\ UNCHANGED <<queue, inHand, tokens, status, store, reqs>>

-----------------------------------------------------------------------------
(* Requests.                                                               *)

GotoReq(c, from, to) ==
  /\ req[c] = from
  /\ req' = [req EXCEPT ![c] = to]

(* cancel_index, first half: the status is read and released.              *)
BeginCancel(c, r) ==
  /\ GotoReq(c, "idle", "cancel")
  /\ status[r] = "indexing"
  /\ target' = [target EXCEPT ![c] = r]
  /\ UNCHANGED <<sched, runs, lock, cancel, status, store>>

(* close_repo_db, first half of its cancel_index call.                     *)
BeginClose(c, r) ==
  /\ GotoReq(c, "idle",
             IF status[r] = "indexing" THEN "close_cancel" ELSE "close_lock")
  /\ target' = [target EXCEPT ![c] = r]
  /\ UNCHANGED <<sched, runs, lock, cancel, status, store>>

(* cancel_index, second half: the token that is there now is cancelled.    *)
TakeToken(c) ==
  /\ \/ GotoReq(c, "cancel", "idle")
     \/ GotoReq(c, "close_cancel", "close_lock")
  /\ cancelled' = cancelled \cup ({tokens[target[c]]} \ {None})
  /\ tokens' = [tokens EXCEPT ![target[c]] = None]
  /\ UNCHANGED <<sched, runs, lock, status, store, target>>

(* Fault: the handle is dropped without waiting for the run.               *)
LockForClose_NoWait(c) ==
  /\ GotoReq(c, "close_lock", "close_drop")
  /\ UNCHANGED <<sched, runs, lock, cancel, status, store, target>>

LockForClose(c) ==
  /\ GotoReq(c, "close_lock", "close_drop")
  /\ lock[target[c]] = None
  /\ lock' = [lock EXCEPT ![target[c]] = c]
  /\ UNCHANGED <<sched, runs, cancel, status, store, target>>

(* The handle leaves the map and the lock guard drops.                     *)
DropHandle(c) ==
  /\ GotoReq(c, "close_drop", "clear")
  /\ dbs' = dbs \ {target[c]}
  /\ lock' = [lock EXCEPT ![target[c]] = None]
  /\ UNCHANGED <<sched, runs, cancel, status, dir, gate, target>>

(* clear_repo_index: an existing status entry is reset in place.           *)
ClearRepoIndex(c) ==
  /\ GotoReq(c, "clear", "gate")
  /\ status' = [status EXCEPT ![target[c]] =
                  IF @ = "absent" THEN "absent" ELSE "idle"]
  /\ UNCHANGED <<sched, runs, lock, cancel, store, target>>

(* remove_index_dir takes the open gate for all its attempts...            *)
TakeGate(c) ==
  /\ GotoReq(c, "gate", "remove")
  /\ gate[target[c]] = None
  /\ gate' = [gate EXCEPT ![target[c]] = c]
  /\ UNCHANGED <<sched, runs, lock, cancel, status, dbs, dir, target>>

(* Fault: the gate is kept after the removal.                              *)
RemoveDir_KeepsGate(c) ==
  /\ GotoReq(c, "remove", "idle")
  /\ dir' \in {dir, dir \ {target[c]}}
  /\ UNCHANGED <<sched, runs, lock, cancel, status, dbs, gate, target>>

(* ...and either removes the directory or reports it as still pending.     *)
RemoveDir(c) ==
  /\ GotoReq(c, "remove", "idle")
  /\ dir' \in {dir, dir \ {target[c]}}
  /\ gate' = [gate EXCEPT ![target[c]] = None]
  /\ UNCHANGED <<sched, runs, lock, cancel, status, dbs, target>>

(* ignore-file and unignore-file edit the datastore under the run lock.    *)
BeginEdit(c, r) ==
  /\ GotoReq(c, "idle", "edit_lock")
  /\ target' = [target EXCEPT ![c] = r]
  /\ UNCHANGED <<sched, runs, lock, cancel, status, store>>

(* Fault: the edit takes the lock over instead of waiting for it.          *)
LockForEdit_NoWait(c) ==
  /\ GotoReq(c, "edit_lock", "edit")
  /\ lock' = [lock EXCEPT ![target[c]] = c]
  /\ UNCHANGED <<sched, runs, cancel, status, store, target>>

LockForEdit(c) ==
  /\ GotoReq(c, "edit_lock", "edit")
  /\ lock[target[c]] = None
  /\ lock' = [lock EXCEPT ![target[c]] = c]
  /\ UNCHANGED <<sched, runs, cancel, status, store, target>>

(* Both return early, guard and all, when the datastore does not open.     *)
Edit(c) ==
  /\ GotoReq(c, "edit", "idle")
  /\ GetOrOpen(target[c]) \/ OpenError(target[c])
  /\ lock' = [lock EXCEPT ![target[c]] = None]
  /\ UNCHANGED <<sched, runs, cancel, status, target>>

(* get_or_open without the repository lock: warming a shard, seeding the   *)
(* statuses at boot, an MCP query, listing the ignored files.              *)
ReadDb(r) ==
  /\ r \notin dbs
  /\ GetOrOpen(r) \/ OpenError(r)
  /\ UNCHANGED <<sched, runs, lock, cancel, status, reqs>>

-----------------------------------------------------------------------------

(* What a run task waits for (a mutex), what it simply does, what may fail. *)
RunWaits(t) == AcquireRepoLock(t) \/ OpenDb(t)
RunAdvances(t) ==
  \/ NewCancelToken(t) \/ MarkIndexing(t) \/ PipelineEnds(t)
  \/ FinishRun(t) \/ ClearCancelToken(t) \/ ExitRun(t)
RunStep(t) ==
  RunWaits(t) \/ RunAdvances(t) \/ ClientConfigFails(t) \/ OpenFails(t)

ReqWaits(c) == LockForClose(c) \/ TakeGate(c) \/ LockForEdit(c) \/ Edit(c)
ReqAdvances(c) ==
  TakeToken(c) \/ DropHandle(c) \/ ClearRepoIndex(c) \/ RemoveDir(c)
ReqStep(c) == ReqWaits(c) \/ ReqAdvances(c)

NewRequest(c) ==
  \E r \in Repos : BeginCancel(c, r) \/ BeginClose(c, r) \/ BeginEdit(c, r)

Next ==
  \/ \E r \in Repos : Register(r) \/ Trigger(r) \/ ReadDb(r)
  \/ Receive
  \/ \E t \in Tasks : Dispatch(t)
  \/ \E t \in Tasks : RunStep(t)
  \/ \E c \in Clients : NewRequest(c)
  \/ \E c \in Clients : ReqStep(c)

Spec == Init /\ [][Next]_vars

(***************************************************************************)
(* Fairness.  Spawned tasks and accepted requests are polled by tokio      *)
(* until they finish.  tokio's Mutex hands itself over in FIFO order, so   *)
(* nobody who waits for a lock or a gate is overtaken for ever (SF).  The  *)
(* pipeline is assumed to return.  No progress rests on a failure, and     *)
(* nothing obliges a client to send a request.                             *)
(***************************************************************************)
Fairness ==
  /\ WF_vars(Receive)
  /\ WF_vars(\E t \in Tasks : Dispatch(t))
  /\ \A t \in Tasks : SF_vars(RunWaits(t)) /\ WF_vars(RunAdvances(t))
  /\ \A c \in Clients : SF_vars(ReqWaits(c)) /\ WF_vars(ReqAdvances(c))

FairSpec == Spec /\ Fairness

-----------------------------------------------------------------------------
(* Properties.                                                             *)

(* The semaphore bounds the runs: every permit is free or travels with one *)
(* live task, so index_concurrency is never exceeded and never leaks away  *)
(* through the early returns of run_one.                                   *)
PermitsConserved == permits + Cardinality(Busy) = Permits

(* The per-repository lock is held exactly by the run or the request that  *)
(* is in its critical section, and every exit path gives it back.          *)
LockDiscipline ==
  /\ \A t \in Tasks : pc[t] \in Locked => lock[job[t]] = t
  /\ \A c \in Clients : req[c] \in ReqLocked => lock[target[c]] = c
  /\ \A r \in Repos :
       \/ lock[r] = None
       \/ lock[r] \in Tasks /\ pc[lock[r]] \in Locked /\ job[lock[r]] = r
       \/ /\ lock[r] \in Clients
          /\ req[lock[r]] \in ReqLocked /\ target[lock[r]] = r

(* A registered token belongs to the live run of that repository, and a    *)
(* run that nobody cancelled keeps its token registered until it is over:  *)
(* one run never consumes or clears the token of the next one.             *)
CancelReachesTheRun ==
  /\ \A t \in Tasks :
       pc[t] \in WithToken /\ t \notin cancelled => tokens[job[t]] = t
  /\ \A r \in Repos : tokens[r] # None =>
       /\ pc[tokens[r]] \in WithToken
       /\ job[tokens[r]] = r
       /\ tokens[r] \notin cancelled

(* A repository never shows "indexing" without a run that will finish and  *)
(* reset it, whatever early return or deletion happened in between.        *)
IndexingMeansRunning ==
  \A r \in Repos : status[r] = "indexing" =>
    \E t \in Tasks : pc[t] \in Marked /\ job[t] = r

(* The runs of a repository are serial, and the handle a run works on is   *)
(* never dropped under it (the promise of close_repo_db and run_one).      *)
Running == [r \in Repos |-> \E t \in Tasks : pc[t] \in WithDb /\ job[t] = r]

Serial == INSTANCE SerialRuns WITH running <- Running, cached <- dbs

SerialSpec == Serial!Spec

(* What the delete handler says of the open gate (src/server.rs:441-448)   *)
(* and demands of its caller (src/store/mod.rs:688): the directory is only *)
(* removed while no datastore is open on it.                               *)
DirRemovedOnlyWhenClosed ==
  [][\A r \in Repos : r \in dir /\ r \notin dir' => r \notin dbs]_vars

(* A trigger the channel accepted is eventually handed to a run task.      *)
AcceptedTriggerRuns ==
  \A r \in Repos :
    (inHand = r \/ \E i \in 1 .. Len(queue) : queue[i] = r)
      ~> (\E t \in Tasks : pc[t] = "lock" /\ job[t] = r)

(* Every spawned run ends: it gets its lock, whatever other runs and       *)
(* requests want it, and gives back lock, token and permit.                *)
RunsEnd == \A t \in Tasks : (pc[t] # "free") ~> (pc[t] = "free")

(* Every request is answered: a delete or an edit gets through behind the  *)
(* runs it waits for.                                                      *)
RequestsEnd == \A c \in Clients : (req[c] # "idle") ~> (req[c] = "idle")

=============================================================================
