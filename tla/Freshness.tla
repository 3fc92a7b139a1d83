------------------------------ MODULE Freshness -----------------------------
(***************************************************************************)
(* How an edit of one repository reaches its index and how a retrieval     *)
(* request decides what to answer: the watcher and its polling fallback    *)
(* (src/indexing/watcher.rs), the engine's trigger channel and status seen *)
(* from outside (src/indexing/mod.rs), and run_codebase_retrieval in       *)
(* src/mcp.rs, which registers, triggers, waits and answers.               *)
(*                                                                         *)
(* The runs of one repository are serial (module IndexEngine), so there is *)
(* one run here, and tasks that wait for the repository lock are counted   *)
(* with the channel.  What a run does to the datastore is module           *)
(* IndexPipeline; here it brings the files it looks at up to date.         *)
(***************************************************************************)
EXTENDS Naturals, Sequences, FiniteSets

CONSTANTS
  Files,       (* Files of the working tree.                               *)
  Clients,     (* Slots for concurrent requests.                           *)
  QueueCap,    (* Capacity of the trigger channel (256 in the code).       *)
  WaitPolls,   (* Polls until mcp_index_wait_secs has passed.              *)
  GatePermits, (* mcp_retrieval_concurrency; 0: no limit.                  *)
  MaxEdits,    (* Bound on edits in a behaviour.                           *)
  MaxFaults,   (* Bound on failed or cancelled runs and watcher errors.    *)
  MaxAsks      (* Bound on requests in a behaviour.                        *)

ASSUME FreshnessAssumption ==
  /\ IsFiniteSet(Files)
  /\ QueueCap \in Nat \ {0} /\ WaitPolls \in Nat /\ GatePermits \in Nat
  /\ MaxEdits \in Nat /\ MaxFaults \in Nat /\ MaxAsks \in Nat

VARIABLES
  listed,   (* Is the repository in settings.repos?                        *)
  status,   (* The state field of its RepoStatus.                          *)
  watch,    (* Its watcher task.                                           *)
  seen,     (* The debouncer's buffer.                                     *)
  queue,    (* Triggers not yet running.                                   *)
  run,      (* The run: its step and its trigger.                          *)
  stale,    (* Files whose rows do not match the disk.                     *)
  chunks,   (* Does the datastore hold any chunks?                         *)
  stamp,    (* last_indexed_at: none (or unparseable), recent or old.      *)
  pc,       (* pc[c]: where request c is.                                  *)
  usable,   (* usable[c]: what check_usable told request c.                *)
  others,   (* Queries of other repositories in RETRIEVAL_GATE.            *)
  polls,    (* polls[c]: polls left until the deadline of c.               *)
  missed,   (* History: changes nobody is going to be told of.             *)
  bound     (* Edits, faults and requests so far.                          *)

disk == <<stale, chunks, stamp>>
engine == <<status, queue, run>>
watcher == <<watch, seen>>
clients == <<pc, usable, polls, others>>
vars == <<listed, engine, watcher, disk, clients, missed, bound>>

(* A trigger names the changed files or asks for a scan of the tree.       *)
Scan == [scan |-> TRUE, files |-> {}]
Changed(files) == [scan |-> FALSE, files |-> files]
Trigger == [scan : BOOLEAN, files : SUBSET Files]
NoRun == [step |-> "none", job |-> Scan]

TypeOK ==
  /\ listed \in BOOLEAN
  /\ status \in {"absent", "idle", "indexing", "error"}
  /\ watch \in {"none", "starting", "watching", "polling"}
  /\ seen \in SUBSET Files
  /\ queue \in Seq(Trigger) /\ Len(queue) <= QueueCap
  /\ run \in [step : {"none", "lock", "work", "end"}, job : Trigger]
  /\ stale \in SUBSET Files
  /\ chunks \in BOOLEAN
  /\ stamp \in {"none", "recent", "old"}
  /\ pc \in [Clients -> {"idle", "register", "open", "status", "trigger_wait",
                         "trigger", "poll", "gate", "query"}]
  /\ usable \in [Clients -> {"no", "legacy", "yes"}]
  /\ polls \in [Clients -> 0 .. WaitPolls]
  /\ others \in 0 .. GatePermits
  /\ GatePermits > 0 =>
       others + Cardinality({c \in Clients : pc[c] = "query"}) <= GatePermits
  /\ missed \in SUBSET Files
  /\ bound \in [edits : 0 .. MaxEdits, faults : 0 .. MaxFaults, asks : 0 .. MaxAsks]
  /\ watch # "none" => status # "absent"

(* A boot: nobody tells the engine what changed while it was down.  A      *)
(* repository that is listed has a status entry and a watcher task.        *)
Init ==
  /\ listed \in BOOLEAN
  /\ status = IF listed THEN "idle" ELSE "absent"
  /\ watch = IF listed THEN "starting" ELSE "none"
  /\ seen = {} /\ queue = <<>> /\ run = NoRun
  /\ stale \in SUBSET Files
  /\ chunks \in BOOLEAN
  /\ ~chunks => stale = Files
  /\ stamp \in (IF chunks THEN {"none", "recent", "old"} ELSE {"none"})
  /\ pc = [c \in Clients |-> "idle"]
  /\ usable = [c \in Clients |-> "no"]
  /\ polls = [c \in Clients |-> 0] /\ others = 0
  /\ missed = stale
  /\ bound = [edits |-> 0, faults |-> 0, asks |-> 0]

Count(what, max) == bound[what] < max /\ bound' = [bound EXCEPT ![what] = @ + 1]

-----------------------------------------------------------------------------
(* The working tree and its watcher.                                       *)

(* Only a running watcher notices.                                         *)
Edit(f) ==
  /\ Count("edits", MaxEdits)
  /\ stale' = stale \cup {f}
  /\ IF watch = "watching"
     THEN seen' = seen \cup {f} /\ missed' = missed \ {f}
     ELSE missed' = missed \cup {f} /\ UNCHANGED seen
  /\ UNCHANGED <<listed, engine, watch, chunks, stamp, clients>>

(* new_debouncer and watch(), or the polling fallback.                     *)
StartWatcher ==
  /\ watch = "starting"
  /\ watch' \in {"watching", "polling"}
  /\ UNCHANGED <<listed, engine, seen, disk, clients, missed, bound>>

Flush_SkipsWhileIndexing ==
  /\ seen # {}
  /\ IF Len(queue) < QueueCap /\ status # "indexing"
     THEN queue' = Append(queue, Changed(seen)) /\ UNCHANGED missed
     ELSE IF status = "indexing" THEN UNCHANGED <<queue, missed>>
     ELSE missed' = missed \cup seen /\ UNCHANGED queue
  /\ seen' = {}
  /\ UNCHANGED <<listed, status, run, watch, disk, clients, bound>>

(* The debounce window closes: try_send drops the changes if the channel   *)
(* is full.                                                                *)
Flush ==
  /\ seen # {}
  /\ IF Len(queue) < QueueCap
     THEN queue' = Append(queue, Changed(seen)) /\ UNCHANGED missed
     ELSE missed' = missed \cup seen /\ UNCHANGED queue
  /\ seen' = {}
  /\ UNCHANGED <<listed, status, run, watch, disk, clients, bound>>

(* The debouncer delivers errors in place of the events.                   *)
WatcherError ==
  /\ seen # {}
  /\ Count("faults", MaxFaults)
  /\ missed' = missed \cup seen /\ seen' = {}
  /\ UNCHANGED <<listed, engine, watch, disk, clients>>

Send(trigger) == Len(queue) < QueueCap /\ queue' = Append(queue, trigger)

Poll_OnlyWhenIdle ==
  /\ watch = "polling" /\ status = "idle"
  /\ Send(Scan)
  /\ UNCHANGED <<listed, status, run, watcher, disk, clients, missed, bound>>

(* Every 30 seconds; the send waits for room.                              *)
Poll ==
  /\ watch = "polling"
  /\ Send(Scan)
  /\ UNCHANGED <<listed, status, run, watcher, disk, clients, missed, bound>>

-----------------------------------------------------------------------------
(* The engine, as far as the others see it.                                *)

Dispatch ==
  /\ run.step = "none" /\ queue # <<>>
  /\ run' = [step |-> "lock", job |-> Head(queue)]
  /\ queue' = Tail(queue)
  /\ UNCHANGED <<listed, status, watcher, disk, clients, missed, bound>>

(* Under the repository lock: entry().or_default() makes an entry for a    *)
(* repository nobody registered.                                           *)
MarkIndexing ==
  /\ run.step = "lock"
  /\ run' = [run EXCEPT !.step = "work"]
  /\ status' = "indexing"
  /\ UNCHANGED <<listed, queue, watcher, disk, clients, missed, bound>>

(* An explicit change set on an empty datastore is a full rebuild.         *)
Todo == IF run.job.scan \/ ~chunks THEN Files ELSE run.job.files

Work ==
  /\ run.step = "work"
  /\ stale' = stale \ Todo
  /\ missed' = missed \ Todo
  /\ chunks' \in (IF chunks THEN {TRUE} ELSE BOOLEAN)
  /\ run' = [run EXCEPT !.step = "end"]
  /\ UNCHANGED <<listed, status, queue, watcher, stamp, clients, bound>>

(* Status and stamp change under one write lock on the statuses.           *)
Finish ==
  /\ run.step = "end"
  /\ status' = "idle" /\ stamp' = "recent"
  /\ run' = NoRun
  /\ UNCHANGED <<listed, queue, watcher, stale, chunks, clients, missed, bound>>

(* An error or a cancellation: some files may be done, and the change set  *)
(* is not kept.                                                            *)
Fail ==
  /\ run.step = "work"
  /\ Count("faults", MaxFaults)
  /\ \E done \in SUBSET Todo :
       /\ stale' = stale \ done
       /\ missed' = (missed \ done) \cup ((Todo \ done) \cap stale)
       /\ chunks' \in (IF chunks \/ done = {} THEN {chunks} ELSE BOOLEAN)
  /\ status' \in {"idle", "error"}
  /\ run' = NoRun
  /\ UNCHANGED <<listed, queue, watcher, stamp, clients>>

(* mcp_stale_after_days pass.                                              *)
Age ==
  /\ stamp = "recent" /\ run.step = "none"
  /\ Count("faults", MaxFaults)
  /\ stamp' = "old"
  /\ UNCHANGED <<listed, engine, watcher, stale, chunks, clients, missed>>

(* POST /index, of a repository that may not be listed.                    *)
PostIndex ==
  /\ Count("asks", MaxAsks)
  /\ Send(Scan)
  /\ UNCHANGED <<listed, status, run, watcher, disk, clients, missed>>

-----------------------------------------------------------------------------
(* run_codebase_retrieval.                                                 *)

Goto(c, step) == pc' = [pc EXCEPT ![c] = step] /\ UNCHANGED <<usable, polls>>

(* From here on nothing is left of what c found out.                       *)
Drop(c, step) ==
  /\ pc' = [pc EXCEPT ![c] = step]
  /\ usable' = [usable EXCEPT ![c] = "no"]
  /\ polls' = [polls EXCEPT ![c] = 0]

(* A text at once, or do_query, which begins at RETRIEVAL_GATE.  The note  *)
(* before the results (refresh failed, incomplete) is left out.            *)
Answer(c) == Drop(c, "idle")
Retrieve(c) == Drop(c, "gate")

(* A repository that is not listed is registered, if it is a directory.    *)
Ask(c) ==
  /\ pc[c] = "idle" /\ Count("asks", MaxAsks)
  /\ Goto(c, IF listed THEN "open" ELSE "register") \/ Answer(c)
  /\ UNCHANGED <<listed, engine, watcher, disk, missed, others>>

(* register_repo: the settings do not change, so the next request comes    *)
(* here again.                                                             *)
Register(c) ==
  /\ pc[c] = "register"
  /\ IF status = "absent"
     THEN status' = "idle" /\ watch' = "starting"
     ELSE UNCHANGED <<status, watch>>
  /\ Goto(c, "open")
  /\ UNCHANGED <<listed, queue, run, seen, disk, missed, bound, others>>

(* check_usable: chunks, and no stamp that is valid and old.  An index     *)
(* without a valid stamp is usable, but is to be refreshed.                *)
CheckUsable ==
  IF ~chunks \/ stamp = "old" THEN "no" ELSE IF stamp = "none" THEN "legacy" ELSE "yes"

(* No embedding backend or no datastore: an error.                         *)
OpenIndex(c) ==
  /\ pc[c] = "open"
  /\ \/ /\ usable' = [usable EXCEPT ![c] = CheckUsable]
        /\ pc' = [pc EXCEPT ![c] = "status"]
        /\ UNCHANGED polls
     \/ Answer(c)
  /\ UNCHANGED <<listed, engine, watcher, disk, missed, bound, others>>

(* Join a run, trigger one and wait, or answer at once.                    *)
CheckStatus(c) ==
  /\ pc[c] = "status"
  /\ \/ /\ status = "indexing" \/ usable[c] = "no"
        /\ pc' = [pc EXCEPT ![c] = IF status = "indexing" THEN "poll"
                                   ELSE "trigger_wait"]
        /\ polls' = [polls EXCEPT ![c] = WaitPolls]
        /\ UNCHANGED usable
     \/ status # "indexing" /\ usable[c] = "legacy" /\ Goto(c, "trigger")
     \/ status # "indexing" /\ usable[c] = "yes" /\ Retrieve(c)
  /\ UNCHANGED <<listed, engine, watcher, disk, missed, bound, others>>

TriggerIndex(c) ==
  /\ pc[c] \in {"trigger_wait", "trigger"}
  /\ Send(Scan)
  /\ IF pc[c] = "trigger" THEN Retrieve(c) ELSE Goto(c, "poll")
  /\ UNCHANGED <<listed, status, run, watcher, disk, missed, bound, others>>

PollStatus_NoDeadline(c) ==
  /\ pc[c] = "poll"
  /\ \/ status = "idle" /\ Retrieve(c)
     \/ status = "error" /\ usable[c] # "no" /\ Retrieve(c)
     \/ status = "error" /\ usable[c] = "no" /\ Answer(c)
     \/ /\ status \in {"indexing", "absent"} /\ polls[c] = 0 /\ usable[c] # "no"
        /\ Retrieve(c)
     \/ /\ status \in {"indexing", "absent"} /\ polls[c] > 0
        /\ polls' = [polls EXCEPT ![c] = @ - 1]
        /\ UNCHANGED <<pc, usable>>
  /\ UNCHANGED <<listed, engine, watcher, disk, missed, bound, others>>

(* One turn of the wait loop.  Idle is taken for a finished run, also the  *)
(* idle of a run that has not begun.                                       *)
PollStatus(c) ==
  /\ pc[c] = "poll"
  /\ \/ status = "idle" /\ Retrieve(c)
     \/ /\ \/ status = "error"
           \/ status \in {"indexing", "absent"} /\ polls[c] = 0
        /\ IF usable[c] # "no" THEN Retrieve(c) ELSE Answer(c)
     \/ /\ status \in {"indexing", "absent"} /\ polls[c] > 0
        /\ polls' = [polls EXCEPT ![c] = @ - 1]
        /\ UNCHANGED <<pc, usable>>
  /\ UNCHANGED <<listed, engine, watcher, disk, missed, bound, others>>

(* A permit is held for the query itself, not for the wait before it.      *)
GateOpen ==
  \/ GatePermits = 0
  \/ others + Cardinality({c \in Clients : pc[c] = "query"}) < GatePermits

EnterGate(c) ==
  /\ pc[c] = "gate" /\ GateOpen
  /\ Goto(c, "query")
  /\ UNCHANGED <<listed, engine, watcher, disk, missed, bound, others>>

(* The query itself is module Retrieval.                                   *)
Query(c) ==
  /\ pc[c] = "query"
  /\ Answer(c)
  /\ UNCHANGED <<listed, engine, watcher, disk, missed, bound, others>>

(* Requests for other repositories come to the same gate and leave it.     *)
OtherEnters ==
  /\ GatePermits > 0 /\ GateOpen
  /\ others' = others + 1
  /\ UNCHANGED <<listed, engine, watcher, disk, pc, usable, polls, missed, bound>>

OtherLeaves ==
  /\ others > 0
  /\ others' = others - 1
  /\ UNCHANGED <<listed, engine, watcher, disk, pc, usable, polls, missed, bound>>

-----------------------------------------------------------------------------
Serve(c) ==
  \/ Register(c) \/ OpenIndex(c) \/ CheckStatus(c)
  \/ TriggerIndex(c) \/ PollStatus(c) \/ EnterGate(c) \/ Query(c)

Engine == Dispatch \/ MarkIndexing \/ Work \/ Finish

Next ==
  \/ \E f \in Files : Edit(f)
  \/ StartWatcher \/ Flush \/ WatcherError \/ Poll
  \/ Engine \/ Fail \/ Age \/ PostIndex
  \/ \E c \in Clients : Ask(c) \/ Serve(c)
  \/ OtherEnters \/ OtherLeaves

Spec == Init /\ [][Next]_vars

(* The consumer and the runs are tasks that go on; the polling task ticks; *)
(* a request goes on, and a channel or a gate that has room again and      *)
(* again lets everyone in (tokio queues those who wait), and queries end.  *)
(* Nothing is assumed of users, of failures, or of the watcher's start.    *)
LiveSpec ==
  /\ Spec
  /\ WF_vars(Engine) /\ WF_vars(Poll) /\ WF_vars(OtherLeaves)
  /\ \A c \in Clients :
       WF_vars(Serve(c)) /\ SF_vars(TriggerIndex(c)) /\ SF_vars(EnterGate(c))

-----------------------------------------------------------------------------
(* No edit is forgotten unless the code drops its notification: a file     *)
(* that differs from its rows is in the debouncer's buffer, in a trigger   *)
(* that waits or in the run, or it is one of the changes the code gives    *)
(* up: made without a watcher, dropped with a full channel or a watcher    *)
(* error, or of a run that failed.                                         *)
EditsOnTheWay ==
  \A f \in stale :
    \/ f \in missed \cup seen
    \/ \E i \in DOMAIN queue : queue[i].scan \/ f \in queue[i].files
    \/ run.step \in {"lock", "work"} /\ (run.job.scan \/ f \in run.job.files)

(* A repository without a file system watcher is scanned until nothing is  *)
(* out of date: the polling fallback makes up for every lost change.       *)
PollingCatchesUp == (watch = "polling") ~> (stale = {})

(* Every retrieval request is answered, also while runs go on for ever:    *)
(* the wait has a deadline, and the channel it sends into is drained.      *)
RequestsAnswered == \A c \in Clients : (pc[c] # "idle") ~> (pc[c] = "idle")
=============================================================================
