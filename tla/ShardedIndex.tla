---------------------------- MODULE ShardedIndex ----------------------------
(***************************************************************************)
(* The resident vector shards (src/vector/sharded.rs) and everything that  *)
(* changes them: pipeline runs (src/indexing/pipeline.rs), ignored files   *)
(* and deleted indexes (src/server.rs), and the warm-ups of the queries    *)
(* (vector_search, warm_repo_blocking, warm_repo_shard of                  *)
(* src/indexing/mod.rs), which scan table chunk without the repository     *)
(* lock.                                                                   *)
(*                                                                         *)
(* The index lives behind one RwLock whose write sections contain no       *)
(* await: each is one step.  The recency stamps matter only by their       *)
(* order, kept as the sequence `lru`.  Runs of a repository are serial     *)
(* (module IndexEngine), so a repository has at most one.  A chunk is its  *)
(* file, its number in the file, and the run that wrote it.                *)
(***************************************************************************)
EXTENDS Integers, Sequences, SequencesExt, FiniteSets, FiniteSetsExt

CONSTANTS
  Repos,
  FilesOf,         (* FilesOf[r]: the files below the directory r.         *)
  ChunksOf,        (* ChunksOf[f]: the number of chunks of file f.         *)
  Tasks,           (* Tasks that query or warm.                            *)
  NoRepo,          (* What a task without work queries.                    *)
  Dim,             (* Components of a vector.                              *)
  Unembedded,      (* Chunks whose embedding failed, by file and number.   *)
  Rank(_),         (* The score of a chunk.                                *)
  Cap,             (* cap_bytes, counted in components; 0: no cap.         *)
  TopK,
  MaxRuns,         (* Bound on the runs.                                   *)
  MaxQueries       (* Bound on the queries.                                *)

AllFiles == UNION {FilesOf[r] : r \in Repos}
Chunks == {c \in AllFiles \X (1 .. 9) \X (1 .. MaxRuns) : c[2] <= ChunksOf[c[1]]}

(* The components of a vector are tagged with their chunk, so that a row   *)
(* that lost its place is told from the right one.                         *)
VecOf(c) ==
  IF <<c[1], c[2]>> \in Unembedded THEN <<>> ELSE [k \in 1 .. Dim |-> <<c, k>>]

V == INSTANCE VectorShard WITH
       ChunkIds <- Chunks, Vec <- VecOf, Score <- LAMBDA row : Rank(row[1][1])

Nobody == "nobody"  (* No task. *)

ASSUME ShardAssumption ==
  /\ Dim \in Nat \ {0}
  /\ \A f \in AllFiles : ChunksOf[f] \in 1 .. 9
  /\ IsFiniteSet(Repos) /\ \A r \in Repos : IsFiniteSet(FilesOf[r])
  /\ NoRepo \notin Repos /\ Nobody \notin Tasks
  /\ Cap \in Nat /\ TopK \in Nat
  /\ \A c \in Chunks : Rank(c) \in Int
  /\ MaxRuns \in Nat \ {0} /\ MaxQueries \in Nat

VARIABLES
  chunk,     (* chunk[r]: table chunk of repository r.                     *)
  lru,       (* The resident repositories, the least recently used first.  *)
  shard,     (* shard[r]: its resident shard, empty if it has none.        *)
  run,       (* run[r]: the run of r, its phase and what it replaces.      *)
  pc,        (* pc[t]: where a task is.                                    *)
  repo,      (* repo[t]: the repository it queries or warms.               *)
  awaited,   (* awaited[t]: somebody waits for the answer (a query, not a  *)
             (* background warm-up).                                       *)
  loaded,    (* loaded[t]: the shard it has built.                         *)
  warmLock,  (* warmLock[r]: the holder of the warm lock.                  *)
  cold,      (* Repositories whose background warm-up is spawned.          *)
  runs, queries,
  outdated,  (* History: tasks that hold a scan made before a change of    *)
             (* the shard by a run or a deletion.                          *)
  exact      (* History: exact[r]: nothing happened to r's shard after     *)
             (* which it is known to differ from the table.                *)

index == <<lru, shard>>
warm == <<loaded, warmLock, cold>>
vars == <<chunk, index, run, pc, repo, awaited, warm, runs, queries, outdated,
          exact>>

Resident == ToSet(lru)
NoRun == [phase |-> "idle", kind |-> "none", files |-> {}, new |-> <<>>]

TypeOK ==
  /\ \A r \in Repos :
       /\ chunk[r] \subseteq Chunks
       /\ V!IsShard(shard[r])
       /\ r \notin Resident => shard[r] = V!EmptyShard
       /\ run[r].phase \in {"idle", "delete", "write", "patch"}
       /\ run[r].kind \in {"none", "rebuild", "incremental", "ignore", "deletion"}
       /\ run[r].files \subseteq FilesOf[r]
       /\ warmLock[r] \in Tasks \cup {Nobody}
  /\ lru \in Seq(Repos) /\ Cardinality(Resident) = Len(lru)
  /\ \A t \in Tasks :
       /\ pc[t] \in {"idle", "lock", "check", "scan", "install", "search"}
       /\ repo[t] \in Repos \cup {NoRepo}
       /\ V!IsShard(loaded[t])
  /\ awaited \in [Tasks -> BOOLEAN]
  /\ cold \subseteq Repos /\ outdated \subseteq Tasks
  /\ runs \in 0 .. MaxRuns /\ queries \in 0 .. MaxQueries

Init ==
  /\ chunk = [r \in Repos |-> {c \in Chunks : c[1] \in FilesOf[r] /\ c[3] = 1}]
  /\ lru = <<>>
  /\ shard = [r \in Repos |-> V!EmptyShard]
  /\ run = [r \in Repos |-> NoRun]
  /\ pc = [t \in Tasks |-> "idle"]
  /\ repo = [t \in Tasks |-> NoRepo]
  /\ awaited = [t \in Tasks |-> FALSE]
  /\ loaded = [t \in Tasks |-> V!EmptyShard]
  /\ warmLock = [r \in Repos |-> Nobody]
  /\ cold = {}
  /\ runs = 1 /\ queries = 0
  /\ outdated = {}
  /\ exact = [r \in Repos |-> TRUE]

-----------------------------------------------------------------------------
(* ShardedVectorIndex.                                                     *)

(* The elements of an order that are in S, as they were.                   *)
Kept(order, S) ==
  LET kept[n \in 0 .. Len(order)] ==
        IF n = 0 THEN <<>>
        ELSE IF order[n] \in S THEN Append(kept[n - 1], order[n]) ELSE kept[n - 1]
  IN  kept[Len(order)]

Without(r) == Kept(lru, Repos \ {r})

(* resident_bytes: the components of the shards in an order.               *)
Bytes(order, size) ==
  LET sum[n \in 0 .. Len(order)] ==
        IF n = 0 THEN 0 ELSE sum[n - 1] + size[order[n]]
  IN  sum[Len(order)]

(* Fault: the most recently used shard goes first.                         *)
EvictOne_MostRecent(order, size, protected) ==
  LET victims == {i \in DOMAIN order : order[i] # protected}
  IN  IF Bytes(order, size) <= Cap \/ victims = {} THEN order
      ELSE RemoveAt(order, Max(victims))

(* While the shards are beyond the cap, the least recently used one but    *)
(* the protected one goes.  No caller names active shards.                 *)
EvictOne(order, size, protected) ==
  LET victims == {i \in DOMAIN order : order[i] # protected}
  IN  IF Bytes(order, size) <= Cap \/ victims = {} THEN order
      ELSE RemoveAt(order, Min(victims))

EvictToCap(order, size, protected) ==
  LET left[n \in 0 .. Len(order)] ==
        IF n = 0 THEN order ELSE EvictOne(left[n - 1], size, protected)
  IN  IF Cap = 0 THEN order ELSE left[Len(order)]

EvictRepo(r) ==
  /\ lru' = Without(r)
  /\ shard' = [shard EXCEPT ![r] = V!EmptyShard]

(* The end of install_shard and apply_incremental: s becomes the shard of  *)
(* r and the most recently used one; an empty one is dropped.              *)
Settle(r, s) ==
  IF s.ids = <<>> THEN EvictRepo(r)
  ELSE LET size == [x \in Repos |-> V!ByteSize(IF x = r THEN s ELSE shard[x])]
           left == EvictToCap(Append(Without(r), r), size, r)
       IN  /\ lru' = left
           /\ shard' = [x \in Repos |-> IF x = r THEN s
                                        ELSE IF x \in ToSet(left) THEN shard[x]
                                        ELSE V!EmptyShard]

InstallShard(r, s) == Settle(r, s)

ReplaceRepo(r, new) == InstallShard(r, V!Insert(V!EmptyShard, new))

(* Files are removed and vectors inserted; a shard that was not resident   *)
(* starts from nothing.                                                    *)
ApplyIncremental(r, removed, new) ==
  LET files == SetToSeq(removed)
      without[n \in 0 .. Len(files)] ==
        IF n = 0 THEN shard[r]
        ELSE V!RemoveMatching(without[n - 1], {c \in Chunks : c[1] = files[n]})
  IN  Settle(r, V!Insert(without[Len(files)], new))

(* Also drops the vectors of files inside r from every other shard, which  *)
(* stays resident, perhaps empty.                                          *)
RemoveRepo(r) ==
  /\ lru' = Without(r)
  /\ shard' = [x \in Repos |->
                 IF x = r THEN V!EmptyShard
                 ELSE V!RemoveMatching(shard[x], {c \in Chunks : c[1] \in FilesOf[r]})]

(* Fault: one result too few per shard.                                    *)
Hits_OneShort(r) == V!SearchShard(shard[r], TopK - 1)

(* The best TopK of one shard.                                             *)
Hits(r) == V!SearchShard(shard[r], TopK)

(* Fan-out and merge: the best TopK of the shards searched.  A query names *)
(* one repository; the handlers reject those that would search them all.   *)
Search(searched) ==
  LET order == SetToSeq(searched)
      merged[n \in 0 .. Len(order)] ==
        IF n = 0 THEN <<>> ELSE merged[n - 1] \o Hits(order[n])
  IN  V!Best(merged[Len(order)], TopK)

-----------------------------------------------------------------------------
(* Runs, ignored files, deleted indexes.                                   *)

(* A change of r's shard: scans of r made before are outdated.             *)
Outdate(r) ==
  outdated' = outdated \cup {t \in Tasks : pc[t] = "install" /\ repo[t] = r}

BeginRun(r, kind, files) ==
  /\ run[r].phase = "idle"
  /\ runs < MaxRuns
  /\ runs' = runs + 1
  /\ run' = [run EXCEPT ![r] = [phase |-> "delete", kind |-> kind,
                                files |-> files, new |-> <<>>]]
  /\ UNCHANGED <<chunk, index, pc, repo, awaited, warm, queries,
                 outdated, exact>>

(* A run rebuilds or updates; a request ignores a file.                    *)
StartRebuild(r) == BeginRun(r, "rebuild", FilesOf[r])
StartIncremental(r, f) == BeginRun(r, "incremental", {f})
StartIgnore(r, f) == BeginRun(r, "ignore", {f})

DeleteRows(r) ==
  /\ run[r].phase = "delete" /\ run[r].kind # "deletion"
  /\ chunk' = [chunk EXCEPT ![r] = {c \in @ : c[1] \notin run[r].files}]
  /\ run' = [run EXCEPT ![r].phase = IF run[r].kind = "ignore" THEN "patch"
                                                               ELSE "write"]
  /\ UNCHANGED <<index, pc, repo, awaited, warm, runs, queries,
                 outdated, exact>>

(* A batch of new rows: some file of the run, still on disk, is stored;    *)
(* the vectors are kept for the shard.                                     *)
WriteRows(r, f) ==
  LET new == [n \in 1 .. ChunksOf[f] |-> <<f, n, runs>>] IN
  /\ run[r].phase = "write"
  /\ f \in run[r].files
  /\ \A i \in DOMAIN run[r].new : run[r].new[i][1] # f
  /\ chunk' = [chunk EXCEPT ![r] = @ \cup ToSet(new)]
  /\ run' = [run EXCEPT ![r].new = @ \o new]
  /\ UNCHANGED <<index, pc, repo, awaited, warm, runs, queries,
                 outdated, exact>>

(* The files that are left were deleted from the working tree.             *)
EndStream(r) ==
  /\ run[r].phase = "write"
  /\ run' = [run EXCEPT ![r].phase = "patch"]
  /\ UNCHANGED <<chunk, index, pc, repo, awaited, warm, runs, queries,
                 outdated, exact>>

(* The tables are done, the shard follows: rebuilt or patched.             *)
PatchShard(r) ==
  /\ run[r].phase = "patch"
  /\ IF run[r].kind = "rebuild"
     THEN ReplaceRepo(r, run[r].new)
     ELSE ApplyIncremental(r, run[r].files, run[r].new)
  /\ run' = [run EXCEPT ![r] = NoRun]
  /\ exact' = [exact EXCEPT ![r] = run[r].kind = "rebuild"
                                     \/ (exact[r] /\ r \in Resident)]
  /\ Outdate(r)
  /\ UNCHANGED <<chunk, pc, repo, awaited, warm, runs, queries>>

(* Cancelled or failed: the shard stays as it was.                         *)
AbortRun(r) ==
  /\ run[r].phase \in {"write", "patch"}
  /\ run' = [run EXCEPT ![r] = NoRun]
  /\ exact' = [exact EXCEPT ![r] = FALSE]
  /\ Outdate(r)
  /\ UNCHANGED <<chunk, index, pc, repo, awaited, warm, runs, queries>>

(* clear_repo_index of the deletion of an index; its tables go with the    *)
(* directory later.                                                        *)
ClearRepoIndex(r) ==
  /\ run[r].phase = "idle"
  /\ runs < MaxRuns
  /\ runs' = runs + 1
  /\ RemoveRepo(r)
  /\ run' = [run EXCEPT ![r].phase = "delete", ![r].kind = "deletion"]
  /\ exact' = [x \in Repos |-> IF x = r THEN TRUE
                               ELSE exact[x] /\ shard'[x] = shard[x]]
  /\ Outdate(r)
  /\ UNCHANGED <<chunk, pc, repo, awaited, warm, queries>>

RemoveIndexDir(r) ==
  /\ run[r].kind = "deletion"
  /\ chunk' = [chunk EXCEPT ![r] = {}]
  /\ run' = [run EXCEPT ![r] = NoRun]
  /\ exact' = [exact EXCEPT ![r] = FALSE]
  /\ Outdate(r)
  /\ UNCHANGED <<index, pc, repo, awaited, warm, runs, queries>>

-----------------------------------------------------------------------------
(* Queries and warm-ups.                                                   *)

Goto(t, l) == pc' = [pc EXCEPT ![t] = l]

Locking == {"check", "scan", "install"}
Release(t) ==
  warmLock' = IF repo[t] \in Repos /\ warmLock[repo[t]] = t
              THEN [warmLock EXCEPT ![repo[t]] = Nobody] ELSE warmLock

(* After the warm-up: a query searches, a background warm-up is over.      *)
AfterWarm(t) ==
  /\ Release(t)
  /\ Goto(t, IF awaited[t] THEN "search" ELSE "idle")
  /\ repo' = [repo EXCEPT ![t] = IF awaited[t] THEN @ ELSE NoRepo]
  /\ loaded' = [loaded EXCEPT ![t] = V!EmptyShard]
  /\ outdated' = outdated \ {t}

(* vector_search: a repository that is not resident is warmed first.       *)
Query(t, r) ==
  /\ pc[t] = "idle"
  /\ queries < MaxQueries
  /\ queries' = queries + 1
  /\ repo' = [repo EXCEPT ![t] = r]
  /\ awaited' = [awaited EXCEPT ![t] = TRUE]
  /\ Goto(t, IF r \in Resident THEN "search" ELSE "lock")
  /\ UNCHANGED <<chunk, index, run, warm, runs, outdated, exact>>

(* A spawned warm-up starts.                                               *)
WarmInBackground(t, r) ==
  /\ pc[t] = "idle"
  /\ r \in cold
  /\ cold' = cold \ {r}
  /\ repo' = [repo EXCEPT ![t] = r]
  /\ awaited' = [awaited EXCEPT ![t] = FALSE]
  /\ Goto(t, "lock")
  /\ UNCHANGED <<chunk, index, run, loaded, warmLock, runs, queries,
                 outdated, exact>>

TakeWarmLock(t) ==
  /\ pc[t] = "lock"
  /\ warmLock[repo[t]] = Nobody
  /\ warmLock' = [warmLock EXCEPT ![repo[t]] = t]
  /\ Goto(t, "check")
  /\ UNCHANGED <<chunk, index, run, repo, awaited, loaded, cold, runs,
                 queries, outdated, exact>>

(* Somebody else may have warmed the repository while this task waited.    *)
CheckResident(t) ==
  /\ pc[t] = "check"
  /\ IF repo[t] \in Resident
     THEN AfterWarm(t)
     ELSE Goto(t, "scan") /\ UNCHANGED <<repo, loaded, warmLock, outdated>>
  /\ UNCHANGED <<chunk, index, run, awaited, cold, runs, queries,
                 exact>>

(* load_from_db: one SELECT.                                               *)
ScanTable(t) ==
  /\ pc[t] = "scan"
  /\ loaded' = [loaded EXCEPT ![t] =
                  V!Insert(V!EmptyShard, SetToSeq(chunk[repo[t]]))]
  /\ Goto(t, "install")
  /\ UNCHANGED <<chunk, index, run, repo, awaited, warmLock, cold, runs,
                 queries, outdated, exact>>

(* The datastore does not open, or the scan fails.                         *)
ScanFails(t) ==
  /\ pc[t] = "scan"
  /\ AfterWarm(t)
  /\ UNCHANGED <<chunk, index, run, awaited, cold, runs, queries,
                 exact>>

(* The shard is installed, if it holds anything.                           *)
Install(t) ==
  /\ pc[t] = "install"
  /\ IF loaded[t].ids = <<>>
     THEN UNCHANGED <<index, exact>>
     ELSE /\ InstallShard(repo[t], loaded[t])
          /\ exact' = [exact EXCEPT ![repo[t]] = t \notin outdated]
  /\ AfterWarm(t)
  /\ UNCHANGED <<chunk, run, awaited, cold, runs, queries>>

(* Fault: a warm-up that timed out leaves its lock behind.                 *)
Timeout_KeepsLock(t) ==
  /\ awaited[t]
  /\ pc[t] \in {"lock"} \cup Locking
  /\ Goto(t, "search")
  /\ loaded' = [loaded EXCEPT ![t] = V!EmptyShard]
  /\ outdated' = outdated \ {t}
  /\ UNCHANGED <<chunk, index, run, repo, awaited, warmLock, cold, runs,
                 queries, exact>>

(* warm_wait is over: the warm-up is dropped and the query goes on.        *)
Timeout(t) ==
  /\ awaited[t]
  /\ pc[t] \in {"lock"} \cup Locking
  /\ AfterWarm(t)
  /\ UNCHANGED <<chunk, index, run, awaited, cold, runs, queries,
                 exact>>

(* The search proper, under the read lock: its results are Search({r}) for *)
(* a resident r, which becomes the most recently used one.  Otherwise,     *)
(* after a timeout or an eviction, r is warmed in the background.          *)
Answer(t) ==
  /\ pc[t] = "search"
  /\ IF repo[t] \in Resident
     THEN lru' = Append(Without(repo[t]), repo[t]) /\ UNCHANGED cold
     ELSE cold' = cold \cup {repo[t]} /\ UNCHANGED lru
  /\ Goto(t, "idle")
  /\ repo' = [repo EXCEPT ![t] = NoRepo]
  /\ awaited' = [awaited EXCEPT ![t] = FALSE]
  /\ UNCHANGED <<chunk, shard, run, loaded, warmLock, runs, queries, outdated,
                 exact>>

Warm(t) ==
  \/ TakeWarmLock(t) \/ CheckResident(t) \/ ScanTable(t) \/ ScanFails(t)
  \/ Install(t)

Next ==
  \/ \E r \in Repos :
       \/ StartRebuild(r)
       \/ \E f \in FilesOf[r] : StartIncremental(r, f) \/ StartIgnore(r, f)
                                  \/ WriteRows(r, f)
       \/ DeleteRows(r) \/ EndStream(r) \/ PatchShard(r) \/ AbortRun(r)
       \/ ClearRepoIndex(r) \/ RemoveIndexDir(r)
  \/ \E t \in Tasks :
       \/ \E r \in Repos : Query(t, r) \/ WarmInBackground(t, r)
       \/ Warm(t) \/ Timeout(t) \/ Answer(t)

Spec == Init /\ [][Next]_vars

-----------------------------------------------------------------------------
(* Properties.                                                             *)

(* Warm-ups are single-flight: of the tasks that scan or install a         *)
(* repository there is one, the holder of its warm lock, whatever timed    *)
(* out before.                                                             *)
SingleFlight ==
  \A t \in Tasks, r \in Repos :
    (pc[t] \in Locking /\ repo[t] = r) <=> (warmLock[r] = t)

ResidentBytes == Bytes(lru, [r \in Repos |-> V!ByteSize(shard[r])])

(* Evictions keep the vectors within the cap, or leave nothing but the     *)
(* shard that was just installed or patched, and remove no shard that was  *)
(* used after one that stays.                                              *)
EvictionIsLru ==
  [][/\ (Cap > 0 /\ ResidentBytes' > Cap) => Cardinality(Resident') = 1
     /\ \A i, j \in DOMAIN lru :
          (/\ lru[i] \in Resident' /\ lru[i] # Last(lru')
           /\ lru[j] \notin Resident' /\ i < j)
          => (\/ run[lru[j]].phase = "patch" /\ run'[lru[j]] = NoRun
              \/ run'[lru[j]].kind = "deletion")]_vars

Embedded(r) == {c \in chunk[r] : VecOf(c) # <<>>}

(* A resident shard holds the vectors of the table, each with its own      *)
(* chunk, while no run is under way, however warm-ups, runs and evictions  *)
(* interleave, unless one of four things came last: an update of a shard   *)
(* that was not resident, an aborted run, an install after a change that   *)
(* its scan had not seen, or the deletion of an index inside this one.     *)
ResidentExact ==
  \A r \in Resident :
    run[r].phase = "idle" /\ exact[r] =>
      V!Contents(shard[r]) = {<<c, VecOf(c)>> : c \in Embedded(r)}

(* A search of any such shards gives the best TopK chunks of their tables, *)
(* although every shard is cut to its own best TopK first: of each score   *)
(* and better there are as many as there should be.                        *)
SearchExact ==
  \A S \in SUBSET {r \in Resident : run[r].phase = "idle" /\ exact[r]} :
    LET hits == Search(S)
        found(k) == Cardinality({i \in DOMAIN hits : hits[i].score >= k})
        there == UNION {{<<r, c>> : c \in Embedded(r)} : r \in S}
        better(k) == Cardinality({x \in there : Rank(x[2]) >= k})
    IN  \A k \in {Rank(x[2]) : x \in there} : found(k) = Min({TopK, better(k)})
=============================================================================
