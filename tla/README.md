# Verification of the context engine

TLA+ models, TLC runs and TLAPS proofs for the Rust indexing server in `src/src/`
and its Python bridge in `src/augmentcode-interface/`. The server keeps, per
repository, a SurrealDB/RocksDB datastore of chunks, symbols and call edges and
an in-memory vector shard; it indexes on triggers (HTTP, MCP, filesystem
watcher) and answers queries from both.

## 1. Inventory

| Component | State | Operations | Hard behaviour | Correct means |
|---|---|---|---|---|
| Index engine (`indexing/mod.rs`, request side in `server.rs`) | trigger channel, index semaphore, per-repo locks, statuses, cancellation tokens, handle cache `repo_dbs` | register, trigger, receive, dispatch, run, cancel, delete, ignore/unignore | tasks and requests interleave at every await; early returns; cancel is read-then-take; delete races runs and reads | permits, locks and tokens are never lost or mixed up; runs of a repository are serial and keep their handle; every trigger runs and every request ends |
| Index pipeline (`indexing/pipeline.rs`, `tracker.rs`, deletes and upserts of `store/ops.rs`) | tables `chunk`, `file_meta`; in memory the parse and embed channels, `pending_chunk_batch`, `pending_file_metas` | full rebuild, incremental run, batched flush, commit | files change under a run; batches straddle files; cancellation and crashes at any await; outdated, duplicate triggers | `file_meta` is a commit marker; an undisturbed run brings the datastore up to date after any history |
| Edge resolution (`pipeline.rs`) | tables `raw_edge`, `calls`, marker `edges_resolved` | resolve from RAM, from the table, incrementally; replay | three resolvers, a crash between stage 3 and Phase 2 | calls equal what a rebuild would give; an interrupted Phase 2 is redone |
| Vector shards (`vector/`, warm-up in `indexing/mod.rs`) | resident shards with LRU stamps | install, evict, patch, replace, search, warm | warm-up scans without a lock while runs replace the shard; the cap evicts | a resident shard is complete; the cap holds; single-flight warm-up |
| Store (`store/mod.rs`) | directories, open gates, cached handles, schema version and cursors | `get_or_open`, `remove_index_dir`, migrations | RocksDB's exclusive lock; background migrations beside runs | one open per directory; migrations resume and lose no row |
| Watcher (`watcher.rs`) and MCP (`mcp.rs`) | debounced events; poll deadline | try_send, poll, wait for a run | dropped events; polling a status that belongs to an older run | no change is lost for ever; a fresh answer is fresh |
| Settings (`config.rs`, `put_config`) | settings file, live snapshot | boot, PUT, repositories added by a retrieval, edits by hand | two PUTs order file and memory differently; failing writes; crashes; migrations | what is live was saved; a new repository is claimed once |
| Embedding client and cache (`embedding/`) | key cursor, cache files | embed, rotate, back off, get, put, purge | partial and garbled hits, answers of another dimension, workers and a purge beside each other | a file never gets fresh vectors next to stale ones of another dimension |
| Parsing and chunking (`parsing/`) | none between files | extract symbols and edges, cut chunks | fourteen extractors that hand names down through nested declarations; windows that overlap | edges and parents carry names of symbols; no line is lost |
| Queries (`query/`) | one query: pool, selection, budgets | search, filter, expand, merge, rerank, agentic loop | a model that may call any tool at any time; caps, budgets and failures at any turn | budgets hold; fetched chunks are offered before they are given up; a selection stands |
| LLM clients (`llm/`) | key cursor, conversation | rotate, retry, translate to the wire | keys that are rate-limited; several calls in a response | every request is a conversation the provider accepts |
| Bridge (`augmentcode-interface/`) | blobs, path owners, checkpoints, files, dirty marks | upload, checkpoint, retrieve, trigger | a debounced task beside requests at every await | files, records and what the engine was told stay in step |
| Walker, UI, packaging | none that matters | pure functions, I/O | - | not modelled, see section 8 |

The components meet as follows. HTTP and MCP handlers, watchers and polls send
triggers into the engine's channel. The consumer turns each into a run task,
which takes the repository lock, opens the datastore through the store and
calls the pipeline. The pipeline writes the datastore and patches or replaces
the vector shard. Queries warm the shard from the datastore without the
repository lock. Delete cancels the run, waits for its lock, drops the handle
and removes the directory behind the store's open gate. A query embeds its text,
searches the shards, expands along `calls`, and lets a model select; the answer
is cut from the files. The bridge writes uploads to files of its own and uses
the server through HTTP.

## 2. Modules

| Module | What it is |
|---|---|
| `SerialRuns` | Abstract: what the engine promises about one repository's datastore |
| `IndexEngine` | The engine, one action per stretch between two observable awaits |
| `MCIndexEngine`, `EngineSafety.cfg`, `EngineLiveness.cfg`, `EngineDelete.cfg` | Instances for TLC |
| `IndexEngineProofs` | Inductive invariant, refinement of `SerialRuns` |
| `IndexPipeline` | The runs of one repository and its tables `chunk` and `file_meta` |
| `MCIndexPipeline`, `PipelineSafety.cfg`, `PipelineCrash.cfg` | Instances for TLC |
| `IndexPipelineProofs` | Type invariant, commit marker, what an undisturbed run leaves |
| `EdgeResolution` | The call graph: symbols, raw edges, the three resolvers, the replay |
| `MCEdgeResolution`, `EdgesSafety.cfg`, `EdgesCallers.cfg` | Instances for TLC |
| `EdgeResolutionProofs` | No dangling call; rebuild, replay and incremental run against the reference |
| `VectorShard` | The arrays of one shard, as operators |
| `ShardedIndex` | The resident shards, and the runs, warm-ups and queries that use them; has `VectorShard` as an instance |
| `MCShardedIndex`, `ShardsSafety.cfg` | Instance for TLC |
| `ShardedIndexProofs` | Single-flight warm-ups; what shards hold; order and cap of evictions; what searches find |
| `RepoStore` | One datastore: opens, removal, migrations |
| `MCRepoStore`, `StoreSafety.cfg`, `StoreNames.cfg` | Instances for TLC |
| `RepoStoreProofs` | Exclusive opens, truth of the version stamps |
| `Freshness` | From an edit to the index, and from a retrieval to its answer |
| `MCFreshness`, `Freshness.cfg` | Instance for TLC |
| `FreshnessProofs` | No edit is forgotten |
| `SettingsFile` | `settings.json` and the live settings |
| `Embedding` | Embedding the texts of a file, with keys and cache |
| `Parsing` | The tree walk of every extractor |
| `Retrieval` | One query with its rerankers and the agentic loop |
| `LlmClient` | The conversation of that loop, its keys and its form on the wire |
| `GraphExpansion` | The bonus chunks along the call graph |
| `Snippets` | Lines: chunks, merges, selections, the answer |
| `Bridge` | One workspace of the Augment bridge |
| `MCComponents`, `Components.cfg` | `SettingsFile` to `Bridge` in one run |
| `QueryProofs` | Of `Retrieval`: harvest turn, character budget, selection; of `LlmClient`: the passes over the keys, calls and results; of `GraphExpansion`: where bonus chunks come from; of `Embedding`: one dimension |
| `ComponentsProofs` | The properties of `SettingsFile`, `Parsing`, `Bridge` and `Snippets` |

An operator named `Action_Fault` is `Action` with a plausible bug. It is used by
no specification; substituting it for `Action` makes one of the properties fail,
which shows what the property depends on.

### IndexEngine

| Variable | Code |
|---|---|
| `queue`, `inHand` | the mpsc channel of `IndexTrigger`; the trigger `run_consumer` has received and not dispatched |
| `permits` | `sem`, sized `index_concurrency.max(1)` |
| `pc`, `job` | the spawned `run_one` tasks |
| `lock` | `repo_locks` |
| `tokens`, `cancelled` | `cancel_tokens`; the runs whose token has fired |
| `status` | the `state` field of `statuses`, with "absent" for no entry |
| `dbs`, `dir`, `gate` | keys of `repo_dbs`, index directories on disk, `OPEN_GATES` |
| `req`, `target` | the HTTP requests under way |

A run is `Dispatch`, `AcquireRepoLock`, `NewCancelToken`, `MarkIndexing`, then
`OpenDb` or one of the early returns (`ClientConfigFails`, `OpenFails`), then
`PipelineEnds`, `FinishRun`, `ClearCancelToken`, `ExitRun`. In the early returns
the code holds the write guard on `statuses` until the token is cleared, so both
are one step. A delete is `BeginClose`, `TakeToken` (when the status said
"indexing"), `LockForClose`, `DropHandle`, `ClearRepoIndex`, `TakeGate`,
`RemoveDir`. `ReadDb` stands for everything that calls `get_or_open` without the
repository lock. Wherever the store is opened the open may fail (`OpenError`),
possibly after the directory was created. A trigger is its repository; its change list and rebuild flag
matter only inside the pipeline. The pipeline is one step that returns ok,
failed or, if its token has fired, aborted; a fired token does not force that
result, because the pipeline polls it.

### IndexPipeline

A file's content is the number of the edit that wrote it, and 0 is no file.
`mtime` and `size` are taken to identify that edit. `disk` is the working tree,
`meta` the stamps in `file_meta`, `rows` the table `chunk`. An item is one
occurrence of a path in the list of files to process: a watcher batch may name a
path twice. Stages 1 and 2 are the progress of each item (`stage`, `content`,
`stamp`): read, stat, waiting for the writer. The writer is `cur`, `pushed`,
`batch`, `metas`. `phase` orders the deletes, the stream, the flush of a batch,
the commit of the deferred stamps, and the end.

`StartRebuild`, `StartScan` and `StartExplicit` are the three ways `run` begins.
A scan that finds nothing changed starts no run: all it does in the code is the
Phase 2 replay, which belongs to edge resolution. The walk and the comparison
with `file_meta` are one step; an edit during them is an edit just before or
just after. `Abort` is a crash and restart, or a failed query: in both cases
the run's memory is gone and the tables stay. `Bail` is the writer's reaction to
a cancellation. Because stage 2 also stops on its own (`DropFile`), a cancelled
run may instead drain its channel and complete with files missing.

### EdgeResolution

The working tree changes between runs; within a run, files are processed in
order and a batch of symbols, edges or stamps is flushed at a time. `raw` is the
table `raw_edge`, `calls` the table of resolved edges, `meta` the stamps,
`marker` the key `edges_resolved`. `BufferEdges` and `StoreEdges` are the two
places raw edges go during a rebuild; `ResolveFromRam`, `ResolveFromTable` and
`ResolveIncremental` the three resolvers; `StartReplay` the run that found
nothing changed. `Best` is `select_best_candidate` with its levels. The
reference, `Reference(meta)`, resolves every call site of the indexed files at
once. `Interrupt` stops a run at any step. Line numbers are left out and a symbol
is its file and leaf name.

### VectorShard and ShardedIndex

A shard is its two parallel arrays, with `swap_remove` as the code does it. The
index sits behind one RwLock whose write sections hold no await, so each is a
step. `lru` is the order of the recency stamps. A warm-up is `TakeWarmLock`,
`CheckResident`, `ScanTable`, `Install`, with a timeout that drops it at any of
its awaits. The history variable `exact` tells when one of four things, two of
them findings, came last: an update of a shard that was not resident, an aborted
run, an install after a change its scan had not seen, a deletion of an index
inside this one.

### RepoStore

An opener passes the gate, tries `open_db` against the RocksDB lock, reads the
schema version and publishes the handle. The lock drains some time after the
last clone of a handle is gone. A migration is started with the open that finds
an old version, clones the handle from the map, and pages through the rows with
a durable cursor; rows are inserted and deleted on both sides of it. `Stop` is a
restart at any point.

### Freshness

The queue is the trigger channel with the tasks that wait for the lock, `run`
the one run, `stale` the files whose rows are out of date, `missed` the edits
the code gives up (no watcher yet, full channel, watcher error, failed run).
A request registers, opens, looks at the status and its age, triggers, polls
until a deadline and answers behind the gate `mcp_retrieval_concurrency`.

### SettingsFile, Embedding, Parsing, Retrieval, LlmClient, GraphExpansion, Snippets, Bridge

These eight share no state while they work. `MCComponents` takes them as
instances; its initial state chooses one and parks the variables of the others,
so that one run checks all of them without multiplying their states.

- `SettingsFile`: `file` is what is on disk, `mem` the live list, `saved` the history
  of lists that were on disk. `Boot` is the start with its three recoveries and
  the migrations, `Put`, `Persist`, `Swap`, `RegisterAdded` the steps of a PUT,
  `AutoAdd` the repository a retrieval adds. A path may be spelled in two ways.
  `Canonical` is the list `ensure_dir_and_load` makes: each name once, in the order of
  first places. What a PUT has claimed and not registered yet is `owed`, a set of
  claims that know their place in the list; the lowest place goes first.
- `Embedding`: a worker embeds a file: look-up, batches of the misses, keys in
  rotation, placing the answer among the hits. An embedding is its dimension.
- `Parsing`: a tree is built while it is walked: each step visits one more node of a
  kind the extractor of the language tells apart. `symbols` and `edges` are what
  the extractor pushes, with the names it was handed.
- `Retrieval`: `stage` is the stage of `run_query_with_filters`. In the loop the model
  is not trusted: it may call `add_chunks` and `query` in any number and order.
- `LlmClient`: `talk` is `messages`; `GeminiContent` and `OpenAIMessages` are what is
  sent. A failure may or may not be a rate limit.
- `GraphExpansion`: the stack and the set of seen symbols of `graph_expand`. `Pop` takes
  one entry and meets its callers, then its callees. A query for them may be cut off
  by its LIMIT or fail (`Rows`), and returns them in any order (`Orders`).
- `Snippets`: a file of up to four lines is cut, found, merged, selected from, padded,
  joined and shown under a budget. A text is the sequence of its line numbers. At most
  `MaxRanges` symbols, or ranges asked for at a time, and `MaxFound` chunks found are tried.
- `Bridge`: a handler is at one await at a time; the debounced task is `worker`. A file
  is told by the blob written to it. `Placed` is a batch of blobs after its loop: the
  last blob of a path stays. `Reconcile` is the part of a retrieval under the lock.

## 3. What the runs show

| Run | Result | Bounds | Question |
|---|---|---|---|
| `engine_safety` | passes, 0.8 million states | 2 repositories, 2 run tasks, 1 request, channel of 1, 2 permits, symmetric | `PermitsConserved`, `LockDiscipline`, `CancelReachesTheRun`, `IndexingMeansRunning`, and `IndexEngine` implements `SerialRuns` |
| `engine_live` | passes, 9.7 thousand states | 1 repository, 2 run tasks, 1 request | `AcceptedTriggerRuns`, `RunsEnd`, `RequestsEnd` |
| `engine_delete` | violated | 1 repository, 1 task, 1 request | `DirRemovedOnlyWhenClosed`, what the delete path says of itself |
| `pipeline_safety` | passes, 1.9 million states | 2 files of 1 and 2 chunks, batches of 2, 3 edits, a path at most twice in a trigger | `CommitMarker`, `RunCatchesUp`, `RebuildIsExact` |
| `pipeline_crash` | violated | the same with 2 edits, and an interruption between the two deletes | `CommitMarker`, what README.md:46 and pipeline.rs:583 say |
| `edges` | passes, 1.6 million states | 3 files, 2 names, 1 import, at most 2 raw edges in RAM, 1 edit, 2 runs, a stop anywhere | `CallsPointToSymbols`, `RebuildResolves`, `IncrementalScoped`, `ReplayRecovers` |
| `edges_callers` | violated | the same with fewer contents and no stop | `CallersKept`, what pipeline.rs:668 says |
| `shards` | passes, 0.4 million states | 3 repositories, one inside another, 2 tasks, 3 queries, a cap of 8, vectors of 2 components | `SingleFlight`, `EvictionIsLru`, `ResidentExact`, `SearchExact` |
| `store` | passes, 1.9 million states | 2 openers and a deletion, 2 migrations, 3 calls and 2 chunks in pages of 2, 1 stop | `OpensAreExclusive`, `StampMeansConverted` |
| `store_names` | violated | the same | `IndexedNamesMatch`, what graph_expand.rs:213 says |
| `freshness` | passes, 0.15 million states | 2 files, 1 request, a channel of 1, 2 edits, 1 fault | `EditsOnTheWay`, and under fairness `PollingCatchesUp` and `RequestsAnswered` |
| `components` | passes, 1.9 million states | see below | the properties of the eight small components |

Why the bounds are enough. Repositories interact only through the channel and
the semaphore, so two of them with two tasks show both a contended lock and a
parallel run; the channel of one is full as soon as a trigger waits. One request
meets two runs of the same repository, which is what the cancel and delete paths
are about. The liveness run has one repository, because two runs and a request
then want the same lock and the same gate. For all sizes, safety rests on the
proofs. With chunks 1 and 2 and batches of 2, a batch is filled by a whole file, by
the first half of a file, or by its last chunk, depending on the order in which
the files arrive; the third edit is the one that makes a file stale again after
it has been indexed, changed and indexed.

Three files are a caller, a callee and a third one that calls the caller, which
is the pattern the incremental resolver has trouble with; a cap of two edges
makes a rebuild overflow or not, depending on the contents. Three repositories
are what an eviction in order of recency needs, and the cap lets two small ones
or one large one stay. Pages of two over three rows give a full page, a short
one and a cursor in between; the second migration exists because a reopen may
start one while the first still runs. One request is enough for `Freshness`, for
requests meet only in the channel, which is full with one trigger, and in the
gate, whose other users are `OtherEnters`.

Bounds of `components`. Settings: 2 requests, 3 writes, 2 repositories of which
one has two spellings. Embedding: 1 worker beside purges and another instance, 2
texts, batches of 1, 2 keys, 2 dimensions. Parsing: trees of 4 nodes, which gives
a symbol in a symbol in a symbol with a call. Retrieval: up to 2 hits and 1 more
per sub-query, at most 2 for `agentic_rag_max_turns`, the floor of turns lowered
from 12 to 3, budgets of none and of 2 characters. Conversation: 2 keys, 2
turns, up to 2 calls per response. Bridge: 2 versions of one file, 2 handlers, 3
requests, 1 checkpoint kept. Expansion: every call graph of at most 3 calls on 4
symbols, 2 base chunks with at most one symbol each, depth 2, a cap of 3; two of the
symbols are interchangeable, as nothing orders symbols but the order of rows. Snippets: 4 lines, windows of 3 in
steps of 2, a cap of 3 lines per merge, 2 symbols, 2 ranges per chunk selected, 3 chunks found. Each bound is the least with which a
limit is reached, passed, and used up by two actors.

The properties, by hazard:

- `PermitsConserved`: free permits and live tasks add up; no early return leaks one.
- `LockDiscipline`: who is in a critical section is who holds the lock, and conversely.
- `CancelReachesTheRun`: the registered token is that of the live run, and a run nobody
  cancelled keeps its own: the gap in `cancel_index` and the unconditional removal in
  `clear_cancel_token` never mix up two runs' bookkeeping.
- `IndexingMeansRunning`: no repository is left at "indexing". (The converse does not hold:
  `ClearRepoIndex` comes after the lock was released and can reset a new run's status.)
- `SerialSpec`: the abstract specification, under the mapping `running` = some task of the
  repository is between `OpenDb` and `ExitRun`, `cached` = `dbs`.
- `CommitMarker`: a file with a `file_meta` has all chunks of that content in the table.
- `RunCatchesUp`: a completed rebuild or scan with no edit and no cancellation meanwhile
  leaves stamps and chunks of the working tree, whatever the history.
- `RebuildIsExact`: such a rebuild leaves nothing else in the table.
- `CallsPointToSymbols`: no stored call lacks its symbol, between any two queries.
- `RebuildResolves`, `ReplayRecovers`: a rebuild, whether its edges were in RAM or in the
  table, and the replay of an interrupted one, give the reference call graph.
- `IncrementalScoped`: an incremental run leaves no stale call and is complete for the
  files it re-resolves, as long as the table holds the raw edges and no run was
  interrupted. (It is not complete for third files: see finding 5 and the hazards.)
- `SingleFlight`, `EvictionIsLru`: who scans holds the warm lock; an eviction stays within
  the cap, or leaves only the protected shard, and follows recency.
- `ResidentExact`, `SearchExact`: a resident shard has the vectors of the table, each with
  its own chunk, and a search of several shards gives the best of all of them.
- `OpensAreExclusive`: one open at a time, never beside a cached handle.
- `StampMeansConverted`: a schema version is true of every row.
- `EditsOnTheWay`: an edit that is not indexed is in the debouncer, in a trigger or in the
  run, unless the code gave it up in one of the ways `missed` names.
- `PollingCatchesUp`, `RequestsAnswered`: liveness, see section 4.
- `MemoryWasSaved`, `AddedOnce`: the live list has been on disk; two PUTs never both claim a
  repository.
- `ApiDecidesDimension`: fresh vectors are never put next to hits of another dimension.
- `NamesJoinUp`: callers and parents are names of symbols, in each language and nesting.
- `QueriesHarvested`: no cap or budget ends the loop between a query and the turn that
  could select from it. `BudgetStops`: only one call goes beyond the character
  budget. `SelectionStands`: what was selected is answered however the loop ended.
- `CallsAnswered`: the calls of a turn are followed by their results, one each and with
  their ids, and Gemini's signatures are replayed. `LimitedKeysRest`: a rate-limited
  key is not used twice for a request, and every other key is.
- `BonusIsNear`: bonus chunks are few, new, and as near as their depth says.
- `LinesKept`: no line is lost or shown twice between the file and the answer.
- `EngineIsTold`: the file of an owned path has its owner's content, and while nothing
  fails whatever changed since the engine was told will be told again.

`TypeOK` is listed where a fault in the code could break it: for the engine, the
pipeline, the shards and the eight components.

### Findings

1. `engine_delete`. `close_repo_db` drops the handle under the repository lock and
   claims that nobody else can reopen it. Warm-up, status seeding, MCP queries
   and the list of ignored files call `get_or_open` without that lock, and the
   lock is released before `remove_index_dir` takes the gate. TLC shows the
   directory removed while a handle on it is cached.
2. `pipeline_crash`. The chunks are deleted before the `file_meta`. A stop in
   between leaves committed files without chunks. After a forced rebuild of
   unchanged files nothing detects that: the stamps match and `edges_resolved`
   is still set.
3. `SwallowedErrors = TRUE` violates `CommitMarker`: `flush_chunk_batch` does not
   call `.check()`, so a failing INSERT statement goes unnoticed and the batch's
   stamps are committed.
4. `AtomicParse = FALSE` violates `RunCatchesUp`: the text is read before the stat,
   and an edit in between stamps old content with the new mtime.

5. `edges_callers`. An incremental run deletes the calls of the unchanged callers of a
   changed file and re-resolves them from `raw_edge`, which is empty after a rebuild
   that resolved from RAM: the callers lose their calls.
6. `store_names`. The migration to version 2 fills in bare names where every reader
   expects qualified ones.

Findings 3 and 4 are switches of the model. The passing run has them at the value
under which the code works, and the theorems name them as assumptions.

The others have no run of their own; PROJECT.json quotes the lines. Each is
something a module has and a property leaves out by name:

- A dropped change set is not recovered by polling, which runs only without a watcher
  (`missed` of `Freshness`), and the retrieval's first poll may take an old Idle for success.
- An incremental run that stops between its stamps and its resolution is never made
  up for (`owed` of `EdgeResolution`).
- An update of a shard that is not resident, and a warm-up beside a run, leave a shard
  that counts as warm and is not complete (`exact` of `ShardedIndex`).
- A migration keeps its clone of the handle through all pages, so that a close does not
  abort it (`RepoStore`).
- `run_one` makes a status for any repository, and `register_repo` then starts no watcher.
- The calls of a C++ method defined out of line name a caller that does not exist
  (`outOfLine` of `Parsing`).
- A query and an `add_chunks` in one response count the query's results as harvested before
  the model has seen them (`pending` of `Retrieval` follows the code).
- `rerank_by_embedding` drops chunks if the answer has fewer vectors; `graph_expand` is a
  depth-first walk; the default of the embeddings directory differs from its comment.
- The bridge: a retrieval forgets the files of deleted blobs (`orphans`), an unknown checkpoint
  id is noticed after the files are gone (`lost`), and find-missing compares times that do
  not tell which run saw a file.

## 4. Fairness

`FairSpec` assumes weak fairness of the consumer, of dispatching, and of every
step of a spawned task or accepted request that waits for nothing: tokio polls
them until they finish. Steps that wait for a repository lock or an open gate
get strong fairness, because `tokio::sync::Mutex` hands itself over in FIFO
order and so nobody is overtaken for ever. `PipelineEnds` is among the fair
steps: the pipeline is assumed to return. The code does not guarantee this under
unbounded rate limiting (`embedding/voyage.rs:296`), which is listed as a hazard.
Nothing is assumed of clients, watchers and failures. The pipeline model has no
fairness and no liveness property.

`LiveSpec` of `Freshness` assumes weak fairness of the consumer and the run (`Engine`), of
the polling loop, of the other users of the retrieval gate, who leave it, and of
the steps of a request that wait for nothing; strong fairness of `TriggerIndex`,
which waits for room in the channel, and of `EnterGate`, which waits for a permit: tokio's
channel and semaphore serve their waiters in FIFO order. Nothing is assumed of
edits, of the watcher and of faults. `PollingCatchesUp` says that without a watcher every
edit is indexed in the end. `RequestsAnswered` holds also while runs follow each other
for ever, because the wait has a deadline.

## 5. What is proved

`IndexEngineProofs`, for any repositories, tasks, requests, channel capacity and
concurrency, from `EngineAssumption`:

- `EngineInvariant`: `Spec => []IInv`. `IInv` joins the type invariant, the four safety
  invariants and `HandleCached` (a run past `OpenDb` has its repository in `dbs`).
  `LockDiscipline` carries most of the argument: two steps that could disturb each
  other's token, status or handle hold the same lock. `HandleCached` is what the
  refinement adds, and it needs the lock held by `DropHandle`.
- `EngineTypes`, `EnginePermits`, `EngineLocks`, `EngineTokens`, `EngineStatuses`: its parts.
- `EngineSerial`: `Spec => SerialSpec`; each action maps to a step of `SerialRuns` or a stutter.

`IndexPipelineProofs`, for any files, chunk counts, batch size, number of edits
and of copies, from `PipelineAssumption`:

- `PipelineTypes`: `Spec => []TypeOK`, with no further assumption.
- `PipelineCommitMarker`: `Spec => []CommitMarker`, if `"del_meta" \notin AbortPhases` and
  `~SwallowedErrors`. `CommitMarker` is not inductive. The strengthening says what
  the stages hold (`FeedInv`: a text is never newer than its stat), what the
  writer holds (`WriterInv`: the chunks pushed so far, and all those of every
  deferred stamp, are in the table or in the batch, and the batch is empty
  while stamps are committed) and what survives between the two deletes
  (`KeptInv`). `AtomicParse` is not assumed: without it the stamp is of that
  content or a later one.

- `PipelineCatchesUp`: `Spec => RunCatchesUp`, and `PipelineRebuildsExactly`:
  `Spec => RebuildIsExact`, if `AtomicParse` holds as well (finding 4 is what happens
  without). Both are action properties of the last step of a run, and what they need
  has to be known since the first. `Undone` adds to `IInv`, for a run nobody
  disturbed so far: that its plan is still true of the working tree (`PlanInv`),
  that a deferred stamp is that of the tree (`DeferredInv`), that every affected file
  is stamped, has a deferred stamp, or is still under way in the stages (`DebtInv`),
  that nothing is under way at the end (`EndInv`), and that the table and the batch hold
  fresh rows only (`ExactInv`). History enters through the guard alone: however the
  stamps and rows came about, the run's own scan sees them.

`EdgeResolutionProofs`, for any files, contents, imports, batch sizes and caps on raw
edges, from `EdgeAssumption`; all four rest on one invariant, `IInv`:

- `NoCallDangles`: `Spec => []CallsPointToSymbols`. During the deletes the calls into a file
  go before its symbols (`Points`), and edges about to be written have their
  symbols.
- `RebuildIsExact`, `ReplayIsExact`, `IncrementalIsExact`: `RebuildResolves`,
  `ReplayRecovers` and `IncrementalScoped`, for every behaviour. The
  tables are described by sets of files: what is stored of the old files, of the
  new ones so far, and of the rest (`StoreInv`); raw edges are in RAM or in the table
  and never half in each (`RamInv`); a replay that is owed finds them in the table
  (`OwedInv`); and while runs complete, every stored call is right (`CleanInv`). The
  argument for the incremental run is that the callee chosen for a site depends
  only on the symbols of that name, of which those in unchanged files stay.

`RepoStoreProofs`, for any openers, runs, migrations, rows, page size and numbers of
attempts, from `StoreAssumption`:

- `StoreOpens`: `Spec => []OpensAreExclusive`. Not inductive: `GateHeld` adds that a
  removal holds the gate throughout and that the handle whose version is being
  read is the live one.
- `StoreStamps`: `Spec => []StampMeansConverted`, however many migrations overlap, and
  whatever is inserted or deleted beside them. `RowsInv` says that a cursor on disk stands
  for converted rows; `MigInv` says the same of a cursor in memory but for the rows of
  the page in hand, that a short page was the last one, and that a migration
  past a backfill has it behind it. Only the order of cursor and page makes it hold.

`FreshnessProofs`, from `FreshnessAssumption`:

- `NoEditForgotten`: `Spec => []EditsOnTheWay`. It is inductive with the types of the queue
  and the run alone; what is to be shown is that every step that takes a trigger
  away hands its files on or enters them in `missed`.

`ShardedIndexProofs`, from `ShardAssumption`:

- `WarmUpsAreSingleFlight`: `Spec => []SingleFlight`. A task that is not idle must still
  know its repository (`FlightInv`), or a warm-up that is dropped would not give back the
  lock it holds.
- `ShardTypes`: `Spec => []TypeOK`, and `ResidentShardsAreExact`: `Spec => []ResidentExact`, from one
  invariant, `ExactInv`. A shard in which ids and flat rows are in step is `Loose`, and
  `Tight` if moreover an empty one has given up its dimension, as every one has between two calls. `TablesOk`
  describes a run and its table: what the run has replaced so far, and which rows it
  keeps for the shard. `ShardsOk` says that the resident shards are tight and the order
  has each of them once. `ShardsAgree` is what makes `ResidentExact` inductive: while a run is
  under way, an exact shard agrees with the table outside the files the run replaces, so that
  the patch, which removes those files and inserts the rows the run kept, ends at
  the table. `ScansAgree` says the same of a scan that no change has outdated. Under these
  lie `SwapRemove`, of which `SwapRemoveIs` shows that the moved row arrives under the moved
  id, and the loops below.
- `EvictionsAreLru`: `Spec => EvictionIsLru`. Of the conclusion, the cap is a
  statement about the state after a step and needs `CapInv`, which says it of
  the state before: a step that takes no shard in and lets none grow may change the
  order of the sum and nothing else (`BytesLess`: fewer shards, each of no more bytes, in any order,
  are no more bytes). `SettleOrder` shows that what `EvictToCap` drops is the front of the order,
  and `OldestGo` that every other step that takes shards out is a run or a deletion.
- `SearchesFindTheBest`: `Spec => []SearchExact`, which is the claim of the comment at
  `src/vector/sharded.rs:283` that sorting and truncating the merge is exact. It needs
  `ResidentShardsAreExact` and that a shard has no chunk twice, or a cut would lose
  one chunk to another's second copy. `OnceInv` adds that to `ExactInv`, for shards, scans and
  the rows a run keeps: a run stores a file once (`WriteOnce`), and a patch removes the
  files it inserts again (`PatchOnce`). Of the order of the hits nothing is needed but that it is
  total: no two hits have equally many ahead, so every place is taken (`NthIs`), and the hits
  of a score and better take the first places (`BestCounts`). The shards are then merged one
  by one (`MergeStep`): a cut to `TopK` before the last cut to `TopK` changes no count.

The loops of `VectorShard`, `ShardedIndex` and the flattened messages of `LlmClient` are
recursive functions or folds of the community modules. The library's induction theorems
cannot be instantiated here, but their basis can: `Least` takes a least element of a set of naturals from
`WFMin`, `UpTo` makes it an induction over a set of numbers, and `Loop` gives every loop the
sequence of its values; a lemma about a loop is then one about a step, and the CHOOSE that a
recursive function stands for is shown to pick that sequence.

`ShardAssumption` asks that the repositories, and the files of each, are finitely many (a sequence of
the chunks is taken), that a file has at most nine chunks, which is how a chunk is numbered, and that
a score is a number: `partial_cmp` answers `Equal` to what is none, which orders nothing. Of equal
scores `Best` takes the first; the code leaves them in any order, and `SearchExact` does not tell them apart.

`QueryProofs` and `ComponentsProofs` prove properties of `MCComponents`, the module the run
checks. Each has an inductive invariant of one component's own specification; its
assumption on the constants, if it needs one, is one of those `MCComponents` names (`SettingsOk` to
`BridgeOk`, `ExpansionOk`, `SnippetsOk`), and the theorem lifts it to the composed specification, in which the other
components are parked.

- `RetrievalHarvest`: `Spec => []QueriesHarvested`. `HarvestInv` says that
  a query whose chunks were not offered yet keeps the code's flag `unharvested` up, that the
  exit stays what it was initialised to until the loop ends, and that a cap reaches
  `finish` with the flag up, so that the final turn is granted.
- `RetrievalBudget`: `Spec => BudgetStops`. `BudgetInv` is that the budget is unspent
  wherever the model may still select, the final turn included.
- `RetrievalStands`: `Spec => []SelectionStands`. `StandsInv` adds that the selection holds
  indices of the pool only, so that the engine's bounds check drops none of them,
  and that a loop is entered with candidates.
- `LlmKeysRest`: `Spec => []LimitedKeysRest`, for any number of keys. The code walks offsets
  from a rotating cursor and marks keys by index. `PassIsComplete` proves that a pass meets
  every index once; `KeyInv` then counts the uses of the key at each offset, before
  and after the one the pass is at, and says that the marked keys are the refused ones.
- `LlmCallsAnswered`: `Spec => []CallsAnswered`. `TalkInv` says that until the loop is done only
  the calls being worked off are unanswered, that those answered and those not are together
  what the model asked (`results \o todo`), and that the n-th turn of the model in the
  conversation is the n-th response (`Replayed`). It leaves out the loop that is done, as
  `StopMidTurn` answers some of the calls only and no request follows. `FlattenIs` gives the place
  of each wire message among the flattened ones, so that a result lies as far behind its
  calls as its number.
- `ExpansionIsNear`: `Spec => []BonusIsNear`, for every call graph and however the
  queries are ordered, cut off or failed. `WalkInv` says of every entry, on the stack and
  among the bonus chunks, that there is a path of calls as long as its depth
  (`OneCallFurther` lengthens the path of the entry popped); and that a bonus chunk has been
  seen, which is why no later pop, from whichever base chunk, takes it a second time.
- `ParsingNamesJoin`: `Spec => []NamesJoinUp`. `JoinInv` says of every node still open that
  the scope and the parent it will hand down are those of the symbol around it.
- `BridgeTells`: `Spec => []EngineIsTold`. `LockInv` gives the lock to whoever is between
  a change of the records and one of the files, and says that files about to be
  unlinked have no owner. With it, `ToldInv` is `EngineIsTold` itself: the debounced task
  clears its mark before it sends and looks at it once more before it ends, so a change
  that comes in between leaves a mark it will see.
- `EmbeddingDimension`: `Spec => []ApiDecidesDimension`. `DimensionInv` describes the file of
  each worker: what the backend sent has its dimension; an answered file has left the
  lookup for good and holds nothing else; and while the misses are asked for, nothing
  but empty vectors is placed. Nothing is said of the cache: other workers, other
  instances and a purge may do to it what they like.
- `SettingsAddOnce`: `Spec => []AddedOnce`. `ClaimInv` bounds the age of a claim by that of
  its repository; a new claim is of a repository that is not live and so has a new age.
  `TaskInv` keeps a boot apart from the requests.
- `SettingsSaved`: `Spec => []MemoryWasSaved`. `SavedInv` says of a document in hand that it was on
  disk up to cleaning, and of one about to go live that it was on disk as it is. What carries
  it is that cleaning a clean list changes nothing (`CanonicalAgain`), so that the list
  a crash or a failed rename leaves on disk and the one in memory agree; the lemmas
  before it prove that the clean list exists and is unique.
- `SnippetsKeepLines`: `Spec => []LinesKept`, for files of any length and every window, stride, cap,
  pad and budget; `SnippetsOk` asks that the stride is positive and no longer than the window, without
  which windows would leave lines out (the code's are 50 and 25). `KeptInv` states the
  property with the element types. The work is in the merge of `merge_chunks`, which a chunk enters whole
  but, when it follows a piece it overlaps, cut at the end of that piece: nothing is lost only if
  the piece has the lines that are cut off, and it need not have all the lines of its range, since
  chunks one line apart are joined too. `Joining`, the loop invariant, says why it has them: pieces and chunks begin
  in order (`Rising`, `Ahead`), a piece too long to be joined to is whole (`WideAreWhole`),
  neighbours are apart or too long as one (`Neighbours`), the earlier of two pieces has the
  lines both could have (`SharedAreThere`), and the last one all from the start of the last chunk on
  (`Newest`). A piece that lies in another may be dropped for the same reason. `Coalescing` and
  `Showing` are the invariants of the two loops behind it.

Some definitions have the form they have because of the proofs, at equal meaning: a
claim of a PUT is an element of a set with its place and not of a sequence; `Canonical`
states the order of its result instead of folding; `Best` of `VectorShard` takes the hit
with so many ahead of it instead of sorting; `Placed`, `Over`, `Migrated` and
`MeetAround` say what their loops leave; the loops of `Snippets` are recursive functions of the
number of steps, each with its step as an operator.

## 6. Only model-checked

- The liveness properties `AcceptedTriggerRuns`, `RunsEnd`, `RequestsEnd`,
  `PollingCatchesUp` and `RequestsAnswered`: fairness and ENABLED are out of the prover's
  reach.
- `TypeOK` of the eight components, which includes theirs.
- The four properties the code violates (section 3, findings) have counterexamples and
  no theorem; the theorems that exclude their causes name them as assumptions.

## 7. Plan

All modules of the first plan are written, and its proofs but those of section 6. What is
left, in this order:

1. `IndexEngine`'s gate and handles as an abstraction of `RepoStore`.
2. `EngineIsTold` with find-missing's time stamps, which need a model of when the engine's
   runs begin and end: `Bridge` composed with `Freshness`.

## 8. Not modelled, and why

The walker, import resolution and the framework passes are pure functions of
files and settings; the models take their results as constants or choices. Two
line scanners among the extractors have no tree to walk. Prompts and the wording
of answers are text. Floating point is left out: scores are given, vectors are
tags, and normalisation is not modelled. Progress counters, statistics and the
event bus feed the UI only, as do the counts `seed_statuses_from_db` writes and the backfill of
`file_meta.chunk_count`. find-missing and disk errors of the bridge are left out. The web
UI, the npm launcher, the Windows Defender helper and the vendored grammar are
not part of the core.
