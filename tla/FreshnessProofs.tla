--------------------------- MODULE FreshnessProofs --------------------------
(***************************************************************************)
(* Proofs about Freshness, for any number of files and requests, any       *)
(* capacity of the trigger channel and any bounds.                         *)
(***************************************************************************)
EXTENDS Freshness, SequenceTheorems, FiniteSetTheorems, TLAPS

-----------------------------------------------------------------------------
(* An edit is on the way.                                                  *)

Steps == {"none", "lock", "work", "end"}

Types ==
  /\ stale \in SUBSET Files
  /\ seen \in SUBSET Files
  /\ queue \in Seq(Trigger)
  /\ run \in [step : Steps, job : Trigger]

Queued(f) == \E i \in DOMAIN queue : queue[i].scan \/ f \in queue[i].files
Running(f) == run.step \in {"lock", "work"} /\ (run.job.scan \/ f \in run.job.files)

LEMMA OnTheWayIs ==
  EditsOnTheWay <=> \A f \in stale : f \in missed \cup seen \/ Queued(f) \/ Running(f)
BY DEF EditsOnTheWay, Queued, Running

LEMMA Triggers ==
  /\ Scan \in Trigger
  /\ \A S \in SUBSET Files : Changed(S) \in Trigger
  /\ NoRun \in [step : Steps, job : Trigger]
BY DEF Scan, Changed, Trigger, NoRun, Steps

(* A trigger that is sent waits behind the others.                         *)
LEMMA SendKeeps ==
  ASSUME Types, NEW trigger \in Trigger, queue' = Append(queue, trigger)
  PROVE  /\ queue' \in Seq(Trigger)
         /\ \A f : Queued(f) => Queued(f)'
         /\ \A f : trigger.scan \/ f \in trigger.files => Queued(f)'
<1>1. /\ queue' \in Seq(Trigger) /\ Len(queue') = Len(queue) + 1
      /\ \A i \in 1 .. Len(queue) : queue'[i] = queue[i]
      /\ queue'[Len(queue) + 1] = trigger
  BY AppendProperties DEF Types
<1>2. /\ Len(queue) \in Nat /\ DOMAIN queue = 1 .. Len(queue)
      /\ DOMAIN queue' = 1 .. Len(queue) + 1
  BY <1>1 DEF Types
<1>3. Len(queue) + 1 \in DOMAIN queue' /\ \A i \in DOMAIN queue : i \in DOMAIN queue'
  BY <1>2
<1>4. ASSUME NEW f, Queued(f) PROVE Queued(f)'
  BY <1>1, <1>2, <1>3, <1>4 DEF Queued
<1>5. ASSUME NEW f, trigger.scan \/ f \in trigger.files PROVE Queued(f)'
  BY <1>1, <1>3, <1>5 DEF Queued
<1> QED
  BY <1>1, <1>4, <1>5

(* The first trigger becomes the run.                                      *)
LEMMA DispatchKeeps ==
  ASSUME Types, Dispatch
  PROVE  /\ queue' \in Seq(Trigger)
         /\ run' \in [step : Steps, job : Trigger]
         /\ \A f : Queued(f) => Queued(f)' \/ Running(f)'
         /\ \A f : ~Running(f)
<1>1. /\ queue \in Seq(Trigger) /\ queue # <<>> /\ run.step = "none"
      /\ run' = [step |-> "lock", job |-> Head(queue)] /\ queue' = Tail(queue)
  BY DEF Dispatch, Types
<1>2. /\ Head(queue) \in Trigger /\ Head(queue) = queue[1]
      /\ queue' \in Seq(Trigger) /\ Len(queue') = Len(queue) - 1
      /\ \A i \in 1 .. Len(queue') : queue'[i] = queue[i + 1]
  BY <1>1, HeadTailProperties
<1>3. /\ Len(queue) \in Nat /\ DOMAIN queue = 1 .. Len(queue)
      /\ DOMAIN queue' = 1 .. Len(queue) - 1
  BY <1>1, <1>2
<1>4. ASSUME NEW f, NEW i \in DOMAIN queue, queue[i].scan \/ f \in queue[i].files
      PROVE  Queued(f)' \/ Running(f)'
  <2>1. CASE i = 1
    BY <1>1, <1>2, <1>4, <2>1 DEF Running
  <2>2. CASE i # 1
    <3>1. i - 1 \in DOMAIN queue' /\ queue'[i - 1] = queue[i]
      BY <1>2, <1>3, <2>2
    <3> QED
      BY <1>4, <3>1 DEF Queued
  <2> QED
    BY <2>1, <2>2
<1>5. run' \in [step : Steps, job : Trigger]
  BY <1>1, <1>2 DEF Steps
<1> QED
  BY <1>1, <1>2, <1>4, <1>5 DEF Queued, Running

LEMMA TodoIs ==
  ASSUME Types
  PROVE  /\ Todo \subseteq Files
         /\ run.step = "work" => \A f \in stale : Running(f) => f \in Todo
BY DEF Todo, Types, Trigger, Running

LEMMA NextOnTheWay ==
  ASSUME Types, EditsOnTheWay, [Next]_vars
  PROVE  Types' /\ EditsOnTheWay'
<1>1. ASSUME UNCHANGED <<stale, seen, queue, run, missed>>
      PROVE  Types' /\ EditsOnTheWay'
  BY <1>1 DEF Types, EditsOnTheWay
<1>2. ASSUME NEW trigger \in Trigger, queue' = Append(queue, trigger), run' = run, stale' = stale,
             missed' \cup seen' = missed \cup seen, seen' = seen
      PROVE  Types' /\ EditsOnTheWay'
  <2>1. queue' \in Seq(Trigger) /\ \A f : Queued(f) => Queued(f)'
    BY <1>2, SendKeeps
  <2>2. \A f : Running(f)' = Running(f)
    BY <1>2 DEF Running
  <2>3. Types'
    BY <1>2, <2>1 DEF Types
  <2>4. \A f \in stale' : f \in missed' \cup seen' \/ Queued(f)' \/ Running(f)'
    BY <1>2, <2>1, <2>2, OnTheWayIs
  <2> QED
    BY <2>3, <2>4 DEF EditsOnTheWay, Queued, Running
<1>3. ASSUME NEW f \in Files, Edit(f) PROVE Types' /\ EditsOnTheWay'
  <2>1. /\ stale' = stale \cup {f} /\ missed \cup seen \cup {f} \subseteq missed' \cup seen'
        /\ seen' \in {seen, seen \cup {f}} /\ UNCHANGED <<queue, run>>
    BY <1>3 DEF Edit, engine
  <2> QED
    BY <2>1 DEF Types, EditsOnTheWay
<1>4. CASE Flush
  <2>1. stale' = stale /\ run' = run /\ seen' = {}
    BY <1>4 DEF Flush, disk
  <2>2. CASE queue' = Append(queue, Changed(seen)) /\ missed' = missed
    <3>1. Changed(seen) \in Trigger /\ Changed(seen).files = seen
      BY Triggers DEF Types, Changed
    <3>2. queue' \in Seq(Trigger) /\ (\A f : Queued(f) => Queued(f)') /\ \A f \in seen : Queued(f)'
      BY <2>2, <3>1, SendKeeps
    <3>3. \A f : Running(f)' = Running(f)
      BY <2>1 DEF Running
    <3>4. Types'
      BY <2>1, <3>2 DEF Types
    <3>5. \A f \in stale' : f \in missed' \cup seen' \/ Queued(f)' \/ Running(f)'
      BY <2>1, <2>2, <3>2, <3>3, OnTheWayIs
    <3> QED
      BY <3>4, <3>5 DEF EditsOnTheWay, Queued, Running
  <2>3. CASE queue' = queue /\ missed' = missed \cup seen
    BY <2>1, <2>3 DEF Types, EditsOnTheWay
  <2> QED
    BY <1>4, <2>2, <2>3 DEF Flush
<1>5. CASE WatcherError
  BY <1>5 DEF WatcherError, engine, disk, Types, EditsOnTheWay
<1>6. CASE Poll \/ PostIndex
  <2>1. queue' = Append(queue, Scan) /\ UNCHANGED <<run, stale, missed, seen>>
    BY <1>6 DEF Poll, PostIndex, Send, watcher, disk
  <2> QED
    BY <1>2, <2>1, Triggers
<1>7. CASE Dispatch
  <2>1. UNCHANGED <<stale, seen, missed>>
    BY <1>7 DEF Dispatch, watcher, disk
  <2>2. /\ queue' \in Seq(Trigger) /\ run' \in [step : Steps, job : Trigger]
        /\ \A f : Queued(f) => Queued(f)' \/ Running(f)'
        /\ \A f : ~Running(f)
    BY <1>7, DispatchKeeps
  <2>3. Types'
    BY <2>1, <2>2 DEF Types
  <2>4. \A f \in stale' : f \in missed' \cup seen' \/ Queued(f)' \/ Running(f)'
    BY <2>1, <2>2, OnTheWayIs
  <2> QED
    BY <2>3, <2>4 DEF EditsOnTheWay, Queued, Running
<1>8. CASE MarkIndexing
  <2>1. /\ run.step = "lock" /\ run' = [run EXCEPT !.step = "work"]
        /\ UNCHANGED <<stale, seen, queue, missed>>
    BY <1>8 DEF MarkIndexing, watcher, disk
  <2>2. run'.step = "work" /\ run'.job = run.job /\ run' \in [step : Steps, job : Trigger]
    BY <2>1 DEF Types, Steps
  <2> QED
    BY <2>1, <2>2 DEF Types, EditsOnTheWay
<1>9. CASE Work \/ Fail
  <2>1. PICK done \in SUBSET Todo :
          /\ stale' = stale \ done
          /\ (missed \ done) \cup ((Todo \ done) \cap stale) \subseteq missed'
    <3>1. CASE Work
      <4>1. stale' = stale \ Todo /\ missed' = missed \ Todo
        BY <3>1 DEF Work
      <4> QED
        BY <4>1
    <3>2. CASE Fail
      BY <3>2 DEF Fail
    <3> QED
      BY <1>9, <3>1, <3>2
  <2>2. run.step = "work" /\ UNCHANGED <<queue, seen>>
        /\ (run' = [run EXCEPT !.step = "end"] \/ run' = NoRun)
    BY <1>9 DEF Work, Fail, watcher
  <2>3. Types'
    BY <2>1, <2>2, Triggers DEF Types, Steps
  <2>4. \A f \in stale' : f \in missed' \cup seen' \/ Queued(f)'
    <3>1. ASSUME NEW f \in stale' PROVE f \in missed' \cup seen' \/ Queued(f)'
      <4>1. f \in stale /\ f \notin done
        BY <2>1
      <4>2. f \in missed \cup seen \/ Queued(f) \/ f \in Todo
        BY <2>2, <4>1, OnTheWayIs, TodoIs
      <4>3. Queued(f)' = Queued(f)
        BY <2>2 DEF Queued
      <4> QED
        BY <2>1, <2>2, <4>1, <4>2, <4>3
    <3> QED
      BY <3>1
  <2> QED
    BY <2>3, <2>4 DEF EditsOnTheWay, Queued
<1>10. CASE Finish
  <2>1. run.step = "end" /\ run' = NoRun /\ UNCHANGED <<stale, seen, queue, missed>>
    BY <1>10 DEF Finish, watcher
  <2> QED
    BY <2>1, Triggers DEF Types, EditsOnTheWay
<1>11. CASE StartWatcher \/ Age
  BY <1>1, <1>11 DEF StartWatcher, Age, engine, watcher, disk
<1>12. ASSUME NEW c \in Clients, Ask(c) \/ Serve(c) PROVE Types' /\ EditsOnTheWay'
  <2>1. CASE TriggerIndex(c)
    <3>1. queue' = Append(queue, Scan) /\ UNCHANGED <<run, stale, missed, seen>>
      BY <2>1 DEF TriggerIndex, Send, watcher, disk
    <3> QED
      BY <1>2, <3>1, Triggers
  <2>2. CASE Register(c)
    BY <1>1, <2>2 DEF Register, disk
  <2>3. CASE Ask(c) \/ OpenIndex(c) \/ CheckStatus(c) \/ PollStatus(c) \/ EnterGate(c) \/ Query(c)
    <3>1. UNCHANGED <<engine, watcher, disk, missed>>
      BY <2>3 DEF Ask, OpenIndex, CheckStatus, PollStatus, EnterGate, Query
    <3> QED
      BY <1>1, <3>1 DEF engine, watcher, disk
  <2> QED
    BY <1>12, <2>1, <2>2, <2>3 DEF Serve
<1>13. CASE OtherEnters \/ OtherLeaves
  BY <1>1, <1>13 DEF OtherEnters, OtherLeaves, engine, watcher, disk
<1>14. CASE UNCHANGED vars
  BY <1>1, <1>14 DEF vars, engine, watcher, disk
<1> QED
  BY <1>3, <1>4, <1>5, <1>6, <1>7, <1>8, <1>9, <1>10, <1>11, <1>12, <1>13, <1>14
     DEF Next, Engine

LEMMA InitOnTheWay ==
  ASSUME Init
  PROVE  Types /\ EditsOnTheWay
BY Triggers DEF Init, Types, EditsOnTheWay

(* No edit is lost between the watcher, the trigger channel and the runs,  *)
(* but for the changes the code itself gives up (watcher.rs, run_one).     *)
THEOREM NoEditForgotten == Spec => []EditsOnTheWay
<1>1. Types /\ EditsOnTheWay /\ [Next]_vars => Types' /\ EditsOnTheWay'
  BY NextOnTheWay
<1> QED
  BY InitOnTheWay, <1>1, PTL DEF Spec
=============================================================================
