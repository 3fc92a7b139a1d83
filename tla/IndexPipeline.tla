---------------------------- MODULE IndexPipeline ----------------------------
(***************************************************************************)
(* One repository's pipeline runs (src/indexing/pipeline.rs) and what they *)
(* leave in the datastore: a run picks a full rebuild or an incremental    *)
(* update, deletes the rows of the affected files, streams the files       *)
(* through parse and embed into a single writer, and lets the writer       *)
(* insert chunks in cross-file batches and commit each file's file_meta    *)
(* once its chunks are durable.  Files are edited meanwhile, the run may   *)
(* be cancelled, and it may stop half-way: the process dies or a statement *)
(* fails.                                                                  *)
(*                                                                         *)
(* A file's content is the number of the edit that wrote it, 0 when there  *)
(* is no file; its mtime and size are taken to identify that edit.  Runs   *)
(* of one repository are serial (SerialRuns).  Symbols and call edges are  *)
(* written beside the chunks and are left out here.                        *)
(***************************************************************************)
EXTENDS Naturals, Sequences, FiniteSets

CONSTANTS
  Files,            (* The indexable paths of the repository.              *)
  ChunksOf,         (* ChunksOf[f]: number of chunks a parse of f yields.  *)
  BatchSize,        (* WRITE_BATCH_SIZE (512 in the code).                 *)
  MaxEdits,         (* Bound: edits of the working tree.                   *)
  MaxCopies,        (* Bound: how often one path occurs in a trigger.      *)
  NoItem,           (* The writer has no file in hand.                     *)
  AbortPhases,      (* The phases in which a run may be interrupted.       *)
  SwallowedErrors,  (* A statement may fail without failing the run.       *)
  AtomicParse       (* No edit falls between a file's read and its stat.   *)

Phases == {"idle", "del_chunks", "del_meta", "stream", "flush", "metas", "finish"}
Streaming == {"stream", "flush", "metas"}

(* The n-th occurrence of a path in to_process.                            *)
Items == Files \X (1 .. MaxCopies)

ASSUME PipelineAssumption ==
  /\ ChunksOf \in [Files -> Nat]
  /\ BatchSize \in Nat \ {0}
  /\ MaxEdits \in Nat \ {0}
  /\ MaxCopies \in Nat \ {0}
  /\ AbortPhases \in SUBSET Phases
  /\ SwallowedErrors \in BOOLEAN
  /\ AtomicParse \in BOOLEAN
  /\ NoItem \notin Items

Versions == 0 .. MaxEdits
Absent == 0

(* A row of table chunk: chunk j of the content c of file f, written for   *)
(* the n-th occurrence of f.                                               *)
Row(item, c, j) == <<item[1], c, j, item[2]>>
RowsOf(item, c) == {Row(item, c, j) : j \in 1 .. ChunksOf[item[1]]}
ChunkRows == UNION {RowsOf(item, c) : item \in Items, c \in Versions}

VARIABLES
  disk,       (* disk[f]: the content of f in the working tree.            *)
  edits,      (* Number of edits so far.                                   *)
  meta,       (* meta[f]: the mtime/size stored in file_meta, as a version.*)
  rows,       (* Table chunk.                                              *)
  phase,      (* Where the run is; "idle" between runs.                    *)
  kind,       (* "rebuild", "scan" (changes unknown) or "explicit".        *)
  gone,       (* The affected files the run deletes for good.              *)
  affected,   (* The files whose data the run deletes first.               *)
  stage,      (* stage[i]: progress of item i through stages 1 and 2.      *)
  content,    (* content[i]: the content read for item i.                  *)
  stamp,      (* stamp[i]: the stat taken for item i.                      *)
  cur,        (* The item the writer works on, or NoItem.                  *)
  pushed,     (* Number of cur's chunks in the batch or written.           *)
  batch,      (* pending_chunk_batch.                                      *)
  metas,      (* pending_file_metas, oldest first: <<file, stamp>>.        *)
  cancelled,  (* The run's token is cancelled.                             *)
  quiet       (* History: no edit since the run read the working tree.     *)

db == <<meta, rows>>
tree == <<disk, edits>>
plan == <<kind, gone, affected>>
feed == <<stage, content, stamp>>
writer == <<cur, pushed, batch, metas>>
vars == <<tree, db, phase, plan, feed, writer, cancelled, quiet>>

TypeOK ==
  /\ disk \in [Files -> Versions]
  /\ edits \in Versions
  /\ \A f \in Files : disk[f] <= edits
  /\ meta \in [Files -> Versions]
  /\ rows \in SUBSET ChunkRows
  /\ phase \in Phases
  /\ kind \in {"rebuild", "scan", "explicit"}
  /\ gone \in SUBSET Files
  /\ affected \in SUBSET Files
  /\ stage \in [Items -> {"done", "todo", "read", "parsed"}]
  /\ content \in [Items -> Versions]
  /\ stamp \in [Items -> Versions]
  /\ cur \in Items \cup {NoItem}
  /\ pushed \in Nat
  /\ batch \in SUBSET ChunkRows
  /\ metas \in Seq(Files \X Versions)
  /\ cancelled \in BOOLEAN
  /\ quiet \in BOOLEAN

(* Between runs the pipeline has no state of its own.                      *)
AtRest ==
  /\ phase = "idle"
  /\ kind = "scan" /\ gone = {} /\ affected = {}
  /\ stage = [i \in Items |-> "done"]
  /\ content = [i \in Items |-> Absent]
  /\ stamp = [i \in Items |-> Absent]
  /\ cur = NoItem /\ pushed = 0 /\ batch = {} /\ metas = <<>>
  /\ cancelled = FALSE /\ quiet = TRUE

Init ==
  /\ disk \in [Files -> {0, 1}]
  /\ edits = 1
  /\ meta = [f \in Files |-> Absent]
  /\ rows = {}
  /\ AtRest

-----------------------------------------------------------------------------
(* The working tree.                                                       *)

BeingParsed(f) == \E i \in Items : i[1] = f /\ stage[i] = "read"

Edit(f) ==
  /\ edits < MaxEdits
  /\ AtomicParse => ~BeingParsed(f)
  /\ edits' = edits + 1
  /\ disk' \in {[disk EXCEPT ![f] = edits + 1], [disk EXCEPT ![f] = Absent]}
  /\ disk' # disk
  /\ quiet' = (phase = "idle")
  /\ UNCHANGED <<db, phase, plan, feed, writer, cancelled>>

-----------------------------------------------------------------------------
(* The start of a run.                                                     *)

OnDisk == {f \in Files : disk[f] # Absent}
Known == {f \in Files : meta[f] # Absent}

(* to_process holds copies[f] occurrences of f.                            *)
Start(k, copies, deleted, cleared) ==
  /\ phase = "idle"
  /\ phase' = "del_chunks"
  /\ kind' = k
  /\ gone' = deleted
  /\ affected' = cleared
  /\ stage' = [i \in Items |-> IF i[2] <= copies[i[1]] THEN "todo" ELSE "done"]
  /\ UNCHANGED <<tree, db, content, stamp, writer, cancelled, quiet>>

Once(S) == [f \in Files |-> IF f \in S THEN 1 ELSE 0]

(* First run or forced rebuild: everything is deleted, the walk processed. *)
StartRebuild == Start("rebuild", Once(OnDisk), {}, Files)

(* Fault: only files without a file_meta are looked at again.              *)
StartScan_AddedOnly ==
  LET stale == {f \in OnDisk : meta[f] = Absent}
      missing == Known \ OnDisk
  IN  /\ Known # {}
      /\ stale \cup missing # {}
      /\ Start("scan", Once(stale), missing, stale \cup missing)

(* No change set: detect_changes compares the walk with file_meta.         *)
StartScan ==
  LET stale == {f \in OnDisk : meta[f] # disk[f]}
      missing == Known \ OnDisk
  IN  /\ Known # {}
      /\ stale \cup missing # {}
      /\ Start("scan", Once(stale), missing, stale \cup missing)

(* The watcher's change set: whatever it saw, perhaps a path twice or as   *)
(* both removed and created, perhaps outdated by now.                      *)
StartExplicit ==
  \E copies \in [Files -> 0 .. MaxCopies], deleted \in SUBSET Files :
    LET changed == deleted \cup {f \in Files : copies[f] > 0}
    IN  /\ Known # {}
        /\ changed # {}
        /\ Start("explicit", copies, deleted, changed)

(* `db.query(..).await?` fails the run when the query cannot be sent; the  *)
(* error of a statement inside the response is only seen by .check().      *)
Outcome(before, after) == IF SwallowedErrors THEN {before, after} ELSE {after}

(* Fault: only the chunks of files that still exist are deleted.           *)
DeleteChunks_OnDisk ==
  /\ phase = "del_chunks"
  /\ phase' = "del_meta"
  /\ rows' \in Outcome(rows, {w \in rows : w[1] \notin affected \cap OnDisk})
  /\ UNCHANGED <<tree, meta, plan, feed, writer, cancelled, quiet>>

(* delete_all_data, delete_files_data_bulk: one statement per table, the   *)
(* chunks before the file_meta.                                            *)
DeleteChunks ==
  /\ phase = "del_chunks"
  /\ phase' = "del_meta"
  /\ rows' \in Outcome(rows, {w \in rows : w[1] \notin affected})
  /\ UNCHANGED <<tree, meta, plan, feed, writer, cancelled, quiet>>

DeleteMeta ==
  /\ phase = "del_meta"
  /\ phase' = "stream"
  /\ meta' \in Outcome(meta,
       [f \in Files |-> IF f \in affected THEN Absent ELSE meta[f]])
  /\ UNCHANGED <<tree, rows, plan, feed, writer, cancelled, quiet>>

-----------------------------------------------------------------------------
(* Stages 1 and 2.  Files are parsed in parallel and embedded out of       *)
(* order; parse_one_file reads the text first and stats the file after.    *)

(* Nothing of item i is held in memory any more.                           *)
Forget(i) ==
  /\ stage' = [stage EXCEPT ![i] = "done"]
  /\ content' = [content EXCEPT ![i] = Absent]
  /\ stamp' = [stamp EXCEPT ![i] = Absent]

ReadFile(i) ==
  /\ phase \in Streaming
  /\ stage[i] = "todo"
  /\ IF disk[i[1]] = Absent
     THEN /\ stage' = [stage EXCEPT ![i] = "done"]
          /\ UNCHANGED content
     ELSE /\ stage' = [stage EXCEPT ![i] = "read"]
          /\ content' = [content EXCEPT ![i] = disk[i[1]]]
  /\ UNCHANGED <<tree, db, phase, plan, stamp, writer, cancelled, quiet>>

StatFile(i) ==
  /\ stage[i] = "read"
  /\ IF disk[i[1]] = Absent
     THEN Forget(i)
     ELSE /\ stage' = [stage EXCEPT ![i] = "parsed"]
          /\ stamp' = [stamp EXCEPT ![i] = disk[i[1]]]
          /\ UNCHANGED content
  /\ UNCHANGED <<tree, db, phase, plan, writer, cancelled, quiet>>

(* Once the token is cancelled stage 2 receives and embeds no more.        *)
DropFile(i) ==
  /\ cancelled
  /\ phase \in Streaming
  /\ stage[i] # "done" /\ cur # i
  /\ Forget(i)
  /\ UNCHANGED <<tree, db, phase, plan, writer, cancelled, quiet>>

-----------------------------------------------------------------------------
(* Stage 3: the writer.                                                    *)

TakeFile(i) ==
  /\ phase = "stream" /\ cur = NoItem
  /\ stage[i] = "parsed"
  /\ ~cancelled
  /\ cur' = i
  /\ pushed' = 0
  /\ UNCHANGED <<tree, db, phase, plan, feed, batch, metas, cancelled, quiet>>

(* Fault: one chunk too many.                                              *)
PushChunk_OffByOne ==
  /\ phase = "stream" /\ cur # NoItem
  /\ pushed <= ChunksOf[cur[1]]
  /\ pushed' = pushed + 1
  /\ batch' = batch \cup {Row(cur, content[cur], pushed + 1)}
  /\ phase' = IF Cardinality(batch') >= BatchSize THEN "flush" ELSE "stream"
  /\ UNCHANGED <<tree, db, plan, feed, cur, metas, cancelled, quiet>>

(* A chunk joins the cross-file batch; a full batch is flushed.            *)
PushChunk ==
  /\ phase = "stream" /\ cur # NoItem
  /\ pushed < ChunksOf[cur[1]]
  /\ pushed' = pushed + 1
  /\ batch' = batch \cup {Row(cur, content[cur], pushed + 1)}
  /\ phase' = IF Cardinality(batch') >= BatchSize THEN "flush" ELSE "stream"
  /\ UNCHANGED <<tree, db, plan, feed, cur, metas, cancelled, quiet>>

(* Fault: the file_meta is committed before the batch is flushed.          *)
DeferMeta_Early ==
  /\ phase = "stream" /\ cur # NoItem
  /\ pushed = ChunksOf[cur[1]]
  /\ meta' = [meta EXCEPT ![cur[1]] = stamp[cur]]
  /\ Forget(cur)
  /\ cur' = NoItem
  /\ pushed' = 0
  /\ UNCHANGED <<tree, rows, phase, plan, batch, metas, cancelled, quiet>>

(* The file is done, its file_meta deferred to the next flush.             *)
DeferMeta ==
  /\ phase = "stream" /\ cur # NoItem
  /\ pushed = ChunksOf[cur[1]]
  /\ metas' = Append(metas, <<cur[1], stamp[cur]>>)
  /\ Forget(cur)
  /\ cur' = NoItem
  /\ pushed' = 0
  /\ UNCHANGED <<tree, db, phase, plan, batch, cancelled, quiet>>

(* The channel is closed and drained: the tail is flushed.                 *)
CloseStream ==
  /\ phase = "stream" /\ cur = NoItem
  /\ \A i \in Items : stage[i] = "done"
  /\ phase' = "flush"
  /\ UNCHANGED <<tree, db, plan, feed, writer, cancelled, quiet>>

FlushBatch ==
  /\ phase = "flush"
  /\ phase' = "metas"
  /\ rows' \in Outcome(rows, rows \cup batch)
  /\ batch' = {}
  /\ UNCHANGED <<tree, meta, plan, feed, cur, pushed, metas, cancelled, quiet>>

CommitMeta ==
  /\ phase = "metas" /\ metas # <<>>
  /\ meta' \in Outcome(meta, [meta EXCEPT ![Head(metas)[1]] = Head(metas)[2]])
  /\ metas' = Tail(metas)
  /\ UNCHANGED <<tree, rows, phase, plan, feed, cur, pushed, batch, cancelled, quiet>>

(* Back to the file whose chunk filled the batch, or past the tail.        *)
EndFlush ==
  /\ phase = "metas" /\ metas = <<>>
  /\ phase' = IF cur = NoItem THEN "finish" ELSE "stream"
  /\ UNCHANGED <<tree, db, plan, feed, writer, cancelled, quiet>>

-----------------------------------------------------------------------------
(* The end of a run.                                                       *)

EndRun ==
  /\ phase' = "idle"
  /\ kind' = "scan" /\ gone' = {} /\ affected' = {}
  /\ stage' = [i \in Items |-> "done"]
  /\ content' = [i \in Items |-> Absent]
  /\ stamp' = [i \in Items |-> Absent]
  /\ cur' = NoItem /\ pushed' = 0 /\ batch' = {} /\ metas' = <<>>
  /\ cancelled' = FALSE /\ quiet' = TRUE
  /\ UNCHANGED <<tree, rows>>

(* The file_meta of deleted files is deleted once more, the edges resolved *)
(* and the run reported as completed.                                      *)
Finish ==
  /\ phase = "finish"
  /\ meta' \in Outcome(meta, [f \in Files |-> IF f \in gone THEN Absent ELSE meta[f]])
  /\ EndRun

Cancel ==
  /\ phase # "idle"
  /\ ~cancelled
  /\ cancelled' = TRUE
  /\ UNCHANGED <<tree, db, phase, plan, feed, writer, quiet>>

(* The writer polls the token when it receives a file, and bails out: the  *)
(* batch and the deferred file_metas are dropped.                          *)
Bail ==
  /\ phase = "stream" /\ cur = NoItem
  /\ cancelled
  /\ \E i \in Items : stage[i] = "parsed"
  /\ UNCHANGED meta
  /\ EndRun

(* The process dies and is restarted, or a query fails and ends the run.   *)
Abort ==
  /\ phase # "idle"
  /\ phase \in AbortPhases
  /\ UNCHANGED meta
  /\ EndRun

-----------------------------------------------------------------------------

Begin == StartRebuild \/ StartScan \/ StartExplicit
Work ==
  \/ DeleteChunks \/ DeleteMeta
  \/ \E i \in Items : ReadFile(i) \/ StatFile(i) \/ DropFile(i) \/ TakeFile(i)
  \/ PushChunk \/ DeferMeta \/ CloseStream
  \/ FlushBatch \/ CommitMeta \/ EndFlush
  \/ Finish \/ Bail

Next == (\E f \in Files : Edit(f)) \/ Begin \/ Work \/ Cancel \/ Abort

Spec == Init /\ [][Next]_vars

-----------------------------------------------------------------------------
(* Properties.                                                             *)

(* All chunks of a content of f at most as new as v are in the table; it   *)
(* is v itself when no edit slips in between a read and its stat.          *)
Durable(f, v, table) ==
  \E i \in Items, c \in 1 .. v :
    /\ i[1] = f
    /\ RowsOf(i, c) \subseteq table
    /\ AtomicParse => c = v

(* file_meta is the commit marker: whatever batch boundaries,              *)
(* cancellations and crashes came before, a file that has one has all its  *)
(* chunks in the datastore (but for the moment between the two deletes).   *)
CommitMarker ==
  phase # "del_meta" =>
    \A f \in Files : meta[f] # Absent => Durable(f, meta[f], rows)

(* A completed rebuild or scan, with no edit meanwhile and never           *)
(* cancelled, leaves file_meta and the chunks of the working tree, after   *)
(* any history of crashed, cancelled and outdated runs.                    *)
InSync(f) ==
  IF disk[f] = Absent THEN meta[f] = Absent
  ELSE /\ meta[f] = disk[f]
       /\ \E n \in 1 .. MaxCopies : RowsOf(<<f, n>>, disk[f]) \subseteq rows

RunCatchesUp ==
  [][phase = "finish" /\ phase' = "idle" /\ kind # "explicit"
     /\ quiet /\ ~cancelled
     => \A f \in Files : InSync(f)']_vars

(* A completed rebuild leaves nothing else in the table either: no chunk   *)
(* of another content, of a deleted file or of a second copy.              *)
RebuildIsExact ==
  [][phase = "finish" /\ phase' = "idle" /\ kind = "rebuild"
     /\ quiet /\ ~cancelled
     => rows' = UNION {RowsOf(<<f, 1>>, disk[f]) : f \in OnDisk}]_vars

=============================================================================
