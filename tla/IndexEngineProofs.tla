-------------------------- MODULE IndexEngineProofs --------------------------
(***************************************************************************)
(* Proofs about IndexEngine for every set of repositories, tasks and       *)
(* requests, every channel capacity and every index_concurrency: the type  *)
(* invariant, the safety invariants, and that the engine implements        *)
(* SerialRuns.                                                             *)
(***************************************************************************)
EXTENDS IndexEngine, FiniteSetTheorems, TLAPS

(* The handle a run works on stays in repo_dbs.                            *)
HandleCached == \A t \in Tasks : pc[t] \in WithDb => job[t] \in dbs

(***************************************************************************)
(* The inductive invariant.  LockDiscipline carries the others: it makes   *)
(* the runs of a repository serial, hence the token in the map is the      *)
(* run's own, its status is overwritten by nobody but ClearRepoIndex, and  *)
(* its handle is dropped only between runs.                                *)
(***************************************************************************)
IInv ==
  /\ TypeOK
  /\ PermitsConserved
  /\ LockDiscipline
  /\ CancelReachesTheRun
  /\ IndexingMeansRunning
  /\ HandleCached

-----------------------------------------------------------------------------
(* Preservation, one lemma for each conjunct.                              *)

(* A permit leaves the semaphore exactly when a task starts, and returns   *)
(* exactly when it exits.                                                  *)
LEMMA PermitsStep ==
  ASSUME TypeOK, PermitsConserved, [Next]_vars
  PROVE  PermitsConserved' /\ permits' \in 0 .. Permits
<1> USE EngineAssumption DEF TypeOK, PermitsConserved
<1>1. Permits \in Nat /\ IsFiniteSet(Busy) /\ Cardinality(Busy) \in Nat
  BY FS_Subset, FS_CardinalityType DEF Permits, Busy
<1>2. ASSUME NEW t \in Tasks, Dispatch(t)
      PROVE  PermitsConserved' /\ permits' \in 0 .. Permits
  <2>1. t \notin Busy /\ Busy' = Busy \cup {t}
    BY <1>2 DEF Dispatch, Busy
  <2>2. Cardinality(Busy') = Cardinality(Busy) + 1
    BY <1>1, <2>1, FS_AddElement
  <2> QED
    BY <1>1, <1>2, <2>2 DEF Dispatch
<1>3. ASSUME NEW t \in Tasks, ExitRun(t)
      PROVE  PermitsConserved' /\ permits' \in 0 .. Permits
  <2>1. t \in Busy /\ Busy' = Busy \ {t}
    BY <1>3 DEF ExitRun, Goto, Busy
  <2>2. /\ Cardinality(Busy') = Cardinality(Busy) - 1
        /\ Cardinality(Busy') \in Nat
    BY <1>1, <2>1, FS_RemoveElement, FS_CardinalityType
  <2> QED
    BY <1>1, <1>3, <2>2 DEF ExitRun
<1>4. CASE UNCHANGED permits /\ Busy' = Busy
  BY <1>1, <1>4
<1>5. ASSUME NEW t \in Tasks, RunStep(t), ~ExitRun(t)
      PROVE  UNCHANGED permits /\ Busy' = Busy
  BY <1>5 DEF Busy, RunStep, RunWaits, RunAdvances, Result, sched, Goto,
     GetOrOpen, OpenError, FailEarly, AcquireRepoLock, NewCancelToken,
     MarkIndexing,
     ClientConfigFails, OpenFails, OpenDb, PipelineEnds, FinishRun,
     ClearCancelToken
<1>6. CASE UNCHANGED <<permits, pc>>
  BY <1>1, <1>6 DEF Busy
<1> QED
  BY <1>2, <1>3, <1>4, <1>5, <1>6 DEF Next, vars, NewRequest, ReqStep,
     ReqWaits, ReqAdvances, Register, Trigger, ReadDb, Receive, BeginCancel,
     BeginClose, BeginEdit, TakeToken, LockForClose, DropHandle,
     ClearRepoIndex, TakeGate, RemoveDir, LockForEdit, Edit, GetOrOpen, OpenError,
     GotoReq, sched, runs, cancel, store, reqs

(* Only the bound on the permits needs more than the guards.               *)
LEMMA TypeStep ==
  ASSUME TypeOK, permits' \in 0 .. Permits, [Next]_vars
  PROVE  TypeOK'
<1> USE EngineAssumption DEF TypeOK, RunPc, Locked, WithToken, Result, ReqPc,
       ReqLocked
<1>1. ASSUME NEW r \in Repos, Register(r) PROVE TypeOK'
  BY <1>1 DEF Register, sched, runs, cancel, store, reqs
<1>2. ASSUME NEW r \in Repos, Trigger(r) PROVE TypeOK'
  BY <1>2 DEF Trigger, runs, cancel, store, reqs
<1>3. ASSUME NEW r \in Repos, ReadDb(r) PROVE TypeOK'
  BY <1>3 DEF ReadDb, GetOrOpen, OpenError, sched, runs, cancel, reqs
<1>4. ASSUME Receive PROVE TypeOK'
  BY <1>4 DEF Receive, runs, cancel, store, reqs
<1>5. ASSUME NEW t \in Tasks, Dispatch(t) PROVE TypeOK'
  BY <1>5 DEF Dispatch, cancel, store, reqs
<1>6. ASSUME NEW t \in Tasks, AcquireRepoLock(t) PROVE TypeOK'
  BY <1>6 DEF AcquireRepoLock, Goto, sched, cancel, store, reqs
<1>7. ASSUME NEW t \in Tasks, NewCancelToken(t) PROVE TypeOK'
  BY <1>7 DEF NewCancelToken, Goto, sched, store, reqs
<1>8. ASSUME NEW t \in Tasks, MarkIndexing(t) PROVE TypeOK'
  BY <1>8 DEF MarkIndexing, Goto, sched, cancel, store, reqs
<1>9. ASSUME NEW t \in Tasks, ClientConfigFails(t) PROVE TypeOK'
  BY <1>9 DEF ClientConfigFails, FailEarly, Goto, sched, store, reqs
<1>10. ASSUME NEW t \in Tasks, OpenFails(t) PROVE TypeOK'
  BY <1>10 DEF OpenFails, OpenError, FailEarly, Goto, sched, reqs
<1>11. ASSUME NEW t \in Tasks, OpenDb(t) PROVE TypeOK'
  BY <1>11 DEF OpenDb, Goto, GetOrOpen, sched, cancel, reqs
<1>12. ASSUME NEW t \in Tasks, PipelineEnds(t) PROVE TypeOK'
  BY <1>12 DEF PipelineEnds, Goto, sched, cancel, store, reqs
<1>13. ASSUME NEW t \in Tasks, FinishRun(t) PROVE TypeOK'
  BY <1>13 DEF FinishRun, sched, cancel, store, reqs
<1>14. ASSUME NEW t \in Tasks, ClearCancelToken(t) PROVE TypeOK'
  BY <1>14 DEF ClearCancelToken, Goto, sched, store, reqs
<1>15. ASSUME NEW t \in Tasks, ExitRun(t) PROVE TypeOK'
  BY <1>15 DEF ExitRun, Goto, store, reqs
<1>16. ASSUME NEW c \in Clients, NEW r \in Repos, BeginCancel(c, r) PROVE TypeOK'
  BY <1>16 DEF BeginCancel, GotoReq, sched, runs, cancel, store
<1>17. ASSUME NEW c \in Clients, NEW r \in Repos, BeginClose(c, r) PROVE TypeOK'
  BY <1>17 DEF BeginClose, GotoReq, sched, runs, cancel, store
<1>18. ASSUME NEW c \in Clients, NEW r \in Repos, BeginEdit(c, r) PROVE TypeOK'
  BY <1>18 DEF BeginEdit, GotoReq, sched, runs, cancel, store
<1>19. ASSUME NEW c \in Clients, TakeToken(c) PROVE TypeOK'
  BY <1>19 DEF TakeToken, GotoReq, sched, runs, cancel, store
<1>20. ASSUME NEW c \in Clients, LockForClose(c) PROVE TypeOK'
  BY <1>20 DEF LockForClose, GotoReq, sched, runs, cancel, store
<1>21. ASSUME NEW c \in Clients, DropHandle(c) PROVE TypeOK'
  BY <1>21 DEF DropHandle, GotoReq, sched, runs, cancel
<1>22. ASSUME NEW c \in Clients, ClearRepoIndex(c) PROVE TypeOK'
  BY <1>22 DEF ClearRepoIndex, GotoReq, sched, runs, cancel, store
<1>23. ASSUME NEW c \in Clients, TakeGate(c) PROVE TypeOK'
  BY <1>23 DEF TakeGate, GotoReq, sched, runs, cancel
<1>24. ASSUME NEW c \in Clients, RemoveDir(c) PROVE TypeOK'
  BY <1>24 DEF RemoveDir, GotoReq, sched, runs, cancel
<1>25. ASSUME NEW c \in Clients, LockForEdit(c) PROVE TypeOK'
  BY <1>25 DEF LockForEdit, GotoReq, sched, runs, cancel, store
<1>26. ASSUME NEW c \in Clients, Edit(c) PROVE TypeOK'
  BY <1>26 DEF Edit, GotoReq, GetOrOpen, OpenError, sched, runs, cancel
<1>27. CASE UNCHANGED vars
  BY <1>27 DEF vars, sched, runs, cancel, store, reqs
<1> QED
  BY <1>1, <1>2, <1>3, <1>4, <1>5, <1>6, <1>7, <1>8, <1>9, <1>10, <1>11,
     <1>12, <1>13, <1>14, <1>15, <1>16, <1>17, <1>18, <1>19, <1>20, <1>21,
     <1>22, <1>23, <1>24, <1>25, <1>26, <1>27 DEF Next, RunStep, RunWaits,
     RunAdvances, NewRequest, ReqStep, ReqWaits, ReqAdvances

(* Whoever enters a critical section took the lock from nobody, and        *)
(* whoever leaves it gives it back.                                        *)
LEMMA LockStep ==
  ASSUME TypeOK, LockDiscipline, [Next]_vars
  PROVE  LockDiscipline'
<1> USE EngineAssumption DEF TypeOK, LockDiscipline, Locked, WithToken, Result,
       ReqLocked
<1>1. ASSUME NEW t \in Tasks, Dispatch(t) PROVE LockDiscipline'
  BY <1>1 DEF Dispatch, cancel, store, reqs
<1>2. ASSUME NEW t \in Tasks, AcquireRepoLock(t) PROVE LockDiscipline'
  BY <1>2 DEF AcquireRepoLock, Goto, sched, cancel, store, reqs
<1>3. ASSUME NEW t \in Tasks, NewCancelToken(t) PROVE LockDiscipline'
  BY <1>3 DEF NewCancelToken, Goto, sched, store, reqs
<1>4. ASSUME NEW t \in Tasks, MarkIndexing(t) PROVE LockDiscipline'
  BY <1>4 DEF MarkIndexing, Goto, sched, cancel, store, reqs
<1>5. ASSUME NEW t \in Tasks, ClientConfigFails(t) PROVE LockDiscipline'
  BY <1>5 DEF ClientConfigFails, FailEarly, Goto, sched, store, reqs
<1>6. ASSUME NEW t \in Tasks, OpenFails(t) PROVE LockDiscipline'
  BY <1>6 DEF OpenFails, OpenError, FailEarly, Goto, sched, reqs
<1>7. ASSUME NEW t \in Tasks, OpenDb(t) PROVE LockDiscipline'
  BY <1>7 DEF OpenDb, Goto, GetOrOpen, sched, cancel, reqs
<1>8. ASSUME NEW t \in Tasks, PipelineEnds(t) PROVE LockDiscipline'
  BY <1>8 DEF PipelineEnds, Goto, sched, cancel, store, reqs
<1>9. ASSUME NEW t \in Tasks, FinishRun(t) PROVE LockDiscipline'
  BY <1>9 DEF FinishRun, sched, cancel, store, reqs
<1>10. ASSUME NEW t \in Tasks, ClearCancelToken(t) PROVE LockDiscipline'
  BY <1>10 DEF ClearCancelToken, Goto, sched, store, reqs
<1>11. ASSUME NEW t \in Tasks, ExitRun(t) PROVE LockDiscipline'
  BY <1>11 DEF ExitRun, Goto, store, reqs
<1>12. ASSUME NEW c \in Clients, NEW r \in Repos, BeginCancel(c, r) PROVE LockDiscipline'
  BY <1>12 DEF BeginCancel, GotoReq, sched, runs, cancel, store
<1>13. ASSUME NEW c \in Clients, NEW r \in Repos, BeginClose(c, r) PROVE LockDiscipline'
  BY <1>13 DEF BeginClose, GotoReq, sched, runs, cancel, store
<1>14. ASSUME NEW c \in Clients, NEW r \in Repos, BeginEdit(c, r) PROVE LockDiscipline'
  BY <1>14 DEF BeginEdit, GotoReq, sched, runs, cancel, store
<1>15. ASSUME NEW c \in Clients, TakeToken(c) PROVE LockDiscipline'
  BY <1>15 DEF TakeToken, GotoReq, sched, runs, cancel, store
<1>16. ASSUME NEW c \in Clients, LockForClose(c) PROVE LockDiscipline'
  BY <1>16 DEF LockForClose, GotoReq, sched, runs, cancel, store
<1>17. ASSUME NEW c \in Clients, DropHandle(c) PROVE LockDiscipline'
  BY <1>17 DEF DropHandle, GotoReq, sched, runs, cancel
<1>18. ASSUME NEW c \in Clients, ClearRepoIndex(c) PROVE LockDiscipline'
  BY <1>18 DEF ClearRepoIndex, GotoReq, sched, runs, cancel, store
<1>19. ASSUME NEW c \in Clients, TakeGate(c) PROVE LockDiscipline'
  BY <1>19 DEF TakeGate, GotoReq, sched, runs, cancel
<1>20. ASSUME NEW c \in Clients, RemoveDir(c) PROVE LockDiscipline'
  BY <1>20 DEF RemoveDir, GotoReq, sched, runs, cancel
<1>21. ASSUME NEW c \in Clients, LockForEdit(c) PROVE LockDiscipline'
  BY <1>21 DEF LockForEdit, GotoReq, sched, runs, cancel, store
<1>22. ASSUME NEW c \in Clients, Edit(c) PROVE LockDiscipline'
  BY <1>22 DEF Edit, GotoReq, GetOrOpen, OpenError, sched, runs, cancel
<1>23. CASE UNCHANGED <<pc, job, lock, req, target>>
  BY <1>23
<1> QED
  BY <1>1, <1>2, <1>3, <1>4, <1>5, <1>6, <1>7, <1>8, <1>9, <1>10, <1>11,
     <1>12, <1>13, <1>14, <1>15, <1>16, <1>17, <1>18, <1>19, <1>20, <1>21,
     <1>22, <1>23 DEF Next, vars, RunStep, RunWaits, RunAdvances,
     NewRequest, ReqStep, ReqWaits, ReqAdvances, Register, Trigger, ReadDb,
     Receive, GetOrOpen, OpenError, sched, runs, cancel, store, reqs

(* A second run of the repository would hold the same lock.                *)
LEMMA TokenStep ==
  ASSUME TypeOK, LockDiscipline, CancelReachesTheRun, [Next]_vars
  PROVE  CancelReachesTheRun'
<1> USE EngineAssumption DEF TypeOK, LockDiscipline, CancelReachesTheRun, Locked,
       WithToken, Result
<1>1. ASSUME NEW t \in Tasks, Dispatch(t) PROVE CancelReachesTheRun'
  BY <1>1 DEF Dispatch, cancel, store, reqs
<1>2. ASSUME NEW t \in Tasks, AcquireRepoLock(t) PROVE CancelReachesTheRun'
  BY <1>2 DEF AcquireRepoLock, Goto, sched, cancel, store, reqs
<1>3. ASSUME NEW t \in Tasks, NewCancelToken(t) PROVE CancelReachesTheRun'
  BY <1>3 DEF NewCancelToken, Goto, sched, store, reqs
<1>4. ASSUME NEW t \in Tasks, MarkIndexing(t) PROVE CancelReachesTheRun'
  BY <1>4 DEF MarkIndexing, Goto, sched, cancel, store, reqs
<1>5. ASSUME NEW t \in Tasks, ClientConfigFails(t) PROVE CancelReachesTheRun'
  BY <1>5 DEF ClientConfigFails, FailEarly, Goto, sched, store, reqs
<1>6. ASSUME NEW t \in Tasks, OpenFails(t) PROVE CancelReachesTheRun'
  BY <1>6 DEF OpenFails, OpenError, FailEarly, Goto, sched, reqs
<1>7. ASSUME NEW t \in Tasks, OpenDb(t) PROVE CancelReachesTheRun'
  BY <1>7 DEF OpenDb, Goto, GetOrOpen, sched, cancel, reqs
<1>8. ASSUME NEW t \in Tasks, PipelineEnds(t) PROVE CancelReachesTheRun'
  BY <1>8 DEF PipelineEnds, Goto, sched, cancel, store, reqs
<1>9. ASSUME NEW t \in Tasks, FinishRun(t) PROVE CancelReachesTheRun'
  BY <1>9 DEF FinishRun, sched, cancel, store, reqs
<1>10. ASSUME NEW t \in Tasks, ClearCancelToken(t) PROVE CancelReachesTheRun'
  BY <1>10 DEF ClearCancelToken, Goto, sched, store, reqs
<1>11. ASSUME NEW t \in Tasks, ExitRun(t) PROVE CancelReachesTheRun'
  BY <1>11 DEF ExitRun, Goto, store, reqs
<1>12. ASSUME NEW c \in Clients, TakeToken(c) PROVE CancelReachesTheRun'
  BY <1>12 DEF TakeToken, GotoReq, sched, runs, cancel, store
<1>13. CASE UNCHANGED <<pc, job, tokens, cancelled>>
  BY <1>13
<1> QED
  BY <1>1, <1>2, <1>3, <1>4, <1>5, <1>6, <1>7, <1>8, <1>9, <1>10, <1>11,
     <1>12, <1>13 DEF Next, vars, RunStep, RunWaits, RunAdvances,
     NewRequest, ReqStep, ReqWaits, ReqAdvances, Register, Trigger, ReadDb,
     Receive, BeginCancel, BeginClose, BeginEdit, LockForClose, DropHandle,
     ClearRepoIndex, TakeGate, RemoveDir, LockForEdit, Edit, GetOrOpen, OpenError,
     GotoReq, sched, runs, cancel, store, reqs

(* The run that shows "indexing" ends it itself.                           *)
LEMMA StatusStep ==
  ASSUME TypeOK, LockDiscipline, IndexingMeansRunning, [Next]_vars
  PROVE  IndexingMeansRunning'
<1> USE EngineAssumption DEF TypeOK, LockDiscipline, IndexingMeansRunning, Locked,
       WithToken, Marked, Result
<1>1. ASSUME NEW r \in Repos, Register(r) PROVE IndexingMeansRunning'
  BY <1>1 DEF Register, sched, runs, cancel, store, reqs
<1>2. ASSUME NEW t \in Tasks, Dispatch(t) PROVE IndexingMeansRunning'
  BY <1>2 DEF Dispatch, cancel, store, reqs
<1>3. ASSUME NEW t \in Tasks, AcquireRepoLock(t) PROVE IndexingMeansRunning'
  BY <1>3 DEF AcquireRepoLock, Goto, sched, cancel, store, reqs
<1>4. ASSUME NEW t \in Tasks, NewCancelToken(t) PROVE IndexingMeansRunning'
  BY <1>4 DEF NewCancelToken, Goto, sched, store, reqs
<1>5. ASSUME NEW t \in Tasks, MarkIndexing(t) PROVE IndexingMeansRunning'
  BY <1>5 DEF MarkIndexing, Goto, sched, cancel, store, reqs
<1>6. ASSUME NEW t \in Tasks, ClientConfigFails(t) PROVE IndexingMeansRunning'
  BY <1>6 DEF ClientConfigFails, FailEarly, Goto, sched, store, reqs
<1>7. ASSUME NEW t \in Tasks, OpenFails(t) PROVE IndexingMeansRunning'
  BY <1>7 DEF OpenFails, OpenError, FailEarly, Goto, sched, reqs
<1>8. ASSUME NEW t \in Tasks, OpenDb(t) PROVE IndexingMeansRunning'
  BY <1>8 DEF OpenDb, Goto, GetOrOpen, sched, cancel, reqs
<1>9. ASSUME NEW t \in Tasks, PipelineEnds(t) PROVE IndexingMeansRunning'
  BY <1>9 DEF PipelineEnds, Goto, sched, cancel, store, reqs
<1>10. ASSUME NEW t \in Tasks, FinishRun(t) PROVE IndexingMeansRunning'
  BY <1>10 DEF FinishRun, sched, cancel, store, reqs
<1>11. ASSUME NEW t \in Tasks, ClearCancelToken(t) PROVE IndexingMeansRunning'
  BY <1>11 DEF ClearCancelToken, Goto, sched, store, reqs
<1>12. ASSUME NEW t \in Tasks, ExitRun(t) PROVE IndexingMeansRunning'
  BY <1>12 DEF ExitRun, Goto, store, reqs
<1>13. ASSUME NEW c \in Clients, ClearRepoIndex(c) PROVE IndexingMeansRunning'
  BY <1>13 DEF ClearRepoIndex, GotoReq, sched, runs, cancel, store
<1>14. CASE UNCHANGED <<pc, job, status>>
  BY <1>14
<1> QED
  BY <1>1, <1>2, <1>3, <1>4, <1>5, <1>6, <1>7, <1>8, <1>9, <1>10, <1>11,
     <1>12, <1>13, <1>14 DEF Next, vars, RunStep, RunWaits, RunAdvances,
     NewRequest, ReqStep, ReqWaits, ReqAdvances, Trigger, ReadDb, Receive,
     BeginCancel, BeginClose, BeginEdit, TakeToken, LockForClose,
     DropHandle, TakeGate, RemoveDir, LockForEdit, Edit, GetOrOpen,
     OpenError, GotoReq,
     sched, runs, cancel, store, reqs

(* DropHandle holds the lock, so no run of the repository has its handle.  *)
LEMMA HandleStep ==
  ASSUME TypeOK, LockDiscipline, HandleCached, [Next]_vars
  PROVE  HandleCached'
<1> USE EngineAssumption DEF TypeOK, LockDiscipline, HandleCached, Locked, WithToken,
       WithDb, Result, ReqLocked
<1>1. ASSUME NEW t \in Tasks, Dispatch(t) PROVE HandleCached'
  BY <1>1 DEF Dispatch, cancel, store, reqs
<1>2. ASSUME NEW t \in Tasks, AcquireRepoLock(t) PROVE HandleCached'
  BY <1>2 DEF AcquireRepoLock, Goto, sched, cancel, store, reqs
<1>3. ASSUME NEW t \in Tasks, NewCancelToken(t) PROVE HandleCached'
  BY <1>3 DEF NewCancelToken, Goto, sched, store, reqs
<1>4. ASSUME NEW t \in Tasks, MarkIndexing(t) PROVE HandleCached'
  BY <1>4 DEF MarkIndexing, Goto, sched, cancel, store, reqs
<1>5. ASSUME NEW t \in Tasks, ClientConfigFails(t) PROVE HandleCached'
  BY <1>5 DEF ClientConfigFails, FailEarly, Goto, sched, store, reqs
<1>6. ASSUME NEW t \in Tasks, OpenFails(t) PROVE HandleCached'
  BY <1>6 DEF OpenFails, OpenError, FailEarly, Goto, sched, reqs
<1>7. ASSUME NEW t \in Tasks, OpenDb(t) PROVE HandleCached'
  BY <1>7 DEF OpenDb, Goto, GetOrOpen, sched, cancel, reqs
<1>8. ASSUME NEW t \in Tasks, PipelineEnds(t) PROVE HandleCached'
  BY <1>8 DEF PipelineEnds, Goto, sched, cancel, store, reqs
<1>9. ASSUME NEW t \in Tasks, FinishRun(t) PROVE HandleCached'
  BY <1>9 DEF FinishRun, sched, cancel, store, reqs
<1>10. ASSUME NEW t \in Tasks, ClearCancelToken(t) PROVE HandleCached'
  BY <1>10 DEF ClearCancelToken, Goto, sched, store, reqs
<1>11. ASSUME NEW t \in Tasks, ExitRun(t) PROVE HandleCached'
  BY <1>11 DEF ExitRun, Goto, store, reqs
<1>12. ASSUME NEW r \in Repos, ReadDb(r) PROVE HandleCached'
  BY <1>12 DEF ReadDb, GetOrOpen, OpenError, sched, runs, cancel, reqs
<1>13. ASSUME NEW c \in Clients, DropHandle(c) PROVE HandleCached'
  BY <1>13 DEF DropHandle, GotoReq, sched, runs, cancel
<1>14. ASSUME NEW c \in Clients, Edit(c) PROVE HandleCached'
  BY <1>14 DEF Edit, GotoReq, GetOrOpen, OpenError, sched, runs, cancel
<1>15. CASE UNCHANGED <<pc, job, dbs>>
  BY <1>15
<1> QED
  BY <1>1, <1>2, <1>3, <1>4, <1>5, <1>6, <1>7, <1>8, <1>9, <1>10, <1>11,
     <1>12, <1>13, <1>14, <1>15 DEF Next, vars, RunStep, RunWaits,
     RunAdvances, NewRequest, ReqStep, ReqWaits, ReqAdvances, Register,
     Trigger, Receive, BeginCancel, BeginClose, BeginEdit, TakeToken,
     LockForClose, ClearRepoIndex, TakeGate, RemoveDir, LockForEdit,
     GotoReq, sched, runs, cancel, store, reqs

-----------------------------------------------------------------------------
LEMMA InvInit == Init => IInv
<1> SUFFICES ASSUME Init PROVE IInv
  OBVIOUS
<1> USE EngineAssumption DEF Init
<1>1. Permits \in Nat
  BY DEF Permits
<1>2. TypeOK
  BY <1>1 DEF TypeOK, RunPc, ReqPc
<1>3. PermitsConserved
  <2>1. Busy = {}
    BY DEF Busy
  <2> QED
    BY <1>1, <2>1, FS_EmptySet DEF PermitsConserved
<1>4. LockDiscipline /\ CancelReachesTheRun /\ IndexingMeansRunning /\ HandleCached
  BY DEF LockDiscipline, CancelReachesTheRun, IndexingMeansRunning,
     HandleCached, Locked, WithToken, Result, ReqLocked, WithDb
<1> QED
  BY <1>2, <1>3, <1>4 DEF IInv

LEMMA InvStep == IInv /\ [Next]_vars => IInv'
BY PermitsStep, TypeStep, LockStep, TokenStep, StatusStep, HandleStep DEF IInv

THEOREM EngineInvariant == Spec => []IInv
BY InvInit, InvStep, PTL DEF Spec

(* Every state is well typed; in particular the channel never exceeds its  *)
(* capacity and the semaphore never has more than its permits.             *)
THEOREM EngineTypes == Spec => []TypeOK
<1>1. IInv => TypeOK
  BY DEF IInv
<1> QED
  BY EngineInvariant, <1>1, PTL

(* run_consumer never exceeds index_concurrency and no exit of run_one     *)
(* loses a permit, whatever its value (0 included).                        *)
THEOREM EnginePermits == Spec => []PermitsConserved
<1>1. IInv => PermitsConserved
  BY DEF IInv
<1> QED
  BY EngineInvariant, <1>1, PTL

(* The per-repository lock excludes runs, closes and edits from each       *)
(* other, for any number of them.                                          *)
THEOREM EngineLocks == Spec => []LockDiscipline
<1>1. IInv => LockDiscipline
  BY DEF IInv
<1> QED
  BY EngineInvariant, <1>1, PTL

(* cancel_index always finds the token of the run in progress, and no run  *)
(* clears the token of another.                                            *)
THEOREM EngineTokens == Spec => []CancelReachesTheRun
<1>1. IInv => CancelReachesTheRun
  BY DEF IInv
<1> QED
  BY EngineInvariant, <1>1, PTL

(* No early return, deletion or cancellation leaves a repository showing   *)
(* "indexing" for ever.                                                    *)
THEOREM EngineStatuses == Spec => []IndexingMeansRunning
<1>1. IInv => IndexingMeansRunning
  BY DEF IInv
<1> QED
  BY EngineInvariant, <1>1, PTL

-----------------------------------------------------------------------------
(* The refinement.                                                         *)

LEMMA SerialInit == Init => Serial!Init
BY DEF Init, Serial!Init, Running, WithDb, Result

(* A run starts with OpenDb and ends with ClearCancelToken.                *)
LEMMA SerialStep ==
  ASSUME IInv, [Next]_vars
  PROVE  [Serial!Next]_Serial!vars
<1> USE EngineAssumption DEF IInv, TypeOK, Serial!vars
<1>1. ASSUME NEW t \in Tasks, OpenDb(t) PROVE Serial!Next
  <2>1. \A u \in Tasks : pc[u] \in WithDb => job[u] # job[t]
    BY <1>1 DEF OpenDb, Goto, LockDiscipline, WithDb, Locked, WithToken, Result
  <2>2. Running' = [Running EXCEPT ![job[t]] = TRUE]
    BY <1>1 DEF OpenDb, Goto, Running, WithDb
  <2>3. job[t] \in Repos /\ ~Running[job[t]]
    BY <1>1, <2>1 DEF OpenDb, Goto, Running
  <2> QED
    BY <1>1, <2>2, <2>3 DEF OpenDb, GetOrOpen, Serial!Next,
       Serial!Start
<1>2. ASSUME NEW t \in Tasks, ClearCancelToken(t) PROVE Serial!Next
  <2>1. \A u \in Tasks \ {t} : pc[u] \in WithDb => job[u] # job[t]
    BY <1>2 DEF ClearCancelToken, Goto, LockDiscipline, WithDb, Locked,
       WithToken, Result
  <2>2. Running' = [Running EXCEPT ![job[t]] = FALSE]
    BY <1>2, <2>1 DEF ClearCancelToken, Goto, Running, WithDb, Result
  <2>3. job[t] \in Repos /\ Running[job[t]]
    BY <1>2 DEF ClearCancelToken, Goto, Running, WithDb
  <2> QED
    BY <1>2, <2>2, <2>3 DEF ClearCancelToken, store, Serial!Next, Serial!End
<1>3. ASSUME NEW c \in Clients, DropHandle(c) PROVE Serial!Next
  <2>1. \A t \in Tasks : pc[t] \in WithDb => job[t] # target[c]
    BY <1>3 DEF DropHandle, GotoReq, LockDiscipline, WithDb, Locked,
       WithToken, Result, ReqLocked
  <2>2. target[c] \in Repos /\ ~Running[target[c]]
    BY <1>3, <2>1 DEF DropHandle, GotoReq, Running
  <2> QED
    BY <1>3, <2>2 DEF DropHandle, runs, Running, Serial!Next, Serial!Close
<1>4. ASSUME NEW c \in Clients, Edit(c) PROVE [Serial!Next]_Serial!vars
  <2>1. target[c] \in Repos
    BY <1>4 DEF Edit, GotoReq
  <2> QED
    BY <1>4, <2>1 DEF Edit, GetOrOpen, OpenError, runs, Running, Serial!Next,
       Serial!Open
<1>5. ASSUME NEW r \in Repos, ReadDb(r) PROVE [Serial!Next]_Serial!vars
  BY <1>5 DEF ReadDb, GetOrOpen, OpenError, runs, Running, Serial!Next,
     Serial!Open
<1>6. ASSUME NEW t \in Tasks, Dispatch(t) \/ RunStep(t),
             ~OpenDb(t), ~ClearCancelToken(t)
      PROVE  UNCHANGED <<Running, dbs>>
  BY <1>6 DEF RunStep, RunWaits, RunAdvances, FailEarly, Goto, store,
     Running, WithDb, Result, Dispatch, AcquireRepoLock, NewCancelToken,
     MarkIndexing, ClientConfigFails, OpenFails, OpenError, PipelineEnds,
     FinishRun, ExitRun
<1>7. CASE UNCHANGED <<pc, job, dbs>>
  BY <1>7 DEF Running
<1> QED
  BY <1>1, <1>2, <1>3, <1>4, <1>5, <1>6, <1>7 DEF Next, vars, NewRequest,
     ReqStep, ReqWaits, ReqAdvances, RunStep, RunWaits, RunAdvances, runs,
     store, GotoReq, Register, Trigger, Receive, TakeToken, LockForClose,
     ClearRepoIndex, TakeGate, RemoveDir, LockForEdit, BeginCancel,
     BeginClose, BeginEdit

(* The runs of a repository never overlap and the handle they work on is   *)
(* never dropped under them, whatever is deleted, edited or cancelled.     *)
THEOREM EngineSerial == Spec => SerialSpec
<1>1. IInv /\ [Next]_vars => [Serial!Next]_Serial!vars
  BY SerialStep
<1> QED
  BY SerialInit, <1>1, EngineInvariant, PTL DEF Spec, SerialSpec, Serial!Spec
=============================================================================
