--------------------------- MODULE EdgeResolution ---------------------------
(***************************************************************************)
(* The call graph of one repository (src/indexing/pipeline.rs, deletes of  *)
(* src/store/ops.rs): tables symbol, raw_edge and calls, the commit stamps *)
(* of file_meta, and the marker edges_resolved.  A rebuild keeps the raw   *)
(* edges in RAM while they fit and resolves them from there, or spills     *)
(* them to the table and scans it; an incremental run re-resolves only     *)
(* what it believes to be touched; a run that finds nothing changed        *)
(* redoes an interrupted resolution.                                       *)
(*                                                                         *)
(* Chunks and embeddings are module IndexPipeline's, as are edits during a *)
(* run: here the working tree changes between runs.  A symbol is its file  *)
(* and leaf name, a call its two files and the name; files are numbered in *)
(* the order of their paths, which breaks ties.                            *)
(***************************************************************************)
EXTENDS Naturals, Sequences, FiniteSets

CONSTANTS
  Files,        (* Paths, as numbers in lexicographic order.               *)
  Names,        (* Leaf names of symbols.                                  *)
  Imports,      (* Import paths a call site may carry.                     *)
  NoImport,     (* A call site without one.                                *)
  NoFile,       (* A path without a file, or without a file_meta row.      *)
  Contents,     (* Contents: the names defined, the call sites.            *)
  Generated,    (* Files that is_generated_file recognises.                *)
  Probe(_, _),  (* The files an import may resolve to, by importing file.  *)
  Near(_, _),   (* The files an import matches by path suffix (with a /)   *)
                (* or by directory (without).                              *)
  SymBatch,     (* SYM_BATCH_SIZE.                                         *)
  MaxRamEdges,  (* MAX_RAM_EDGES.                                          *)
  MaxEdits,     (* Bound on edits of the working tree.                     *)
  MaxRuns,      (* Bound on runs.                                          *)
  Crashes       (* Whether a run may be interrupted.                       *)

Sites == Names \X (Imports \cup {NoImport})

ASSUME EdgeAssumption ==
  /\ Files \subseteq Nat
  /\ Contents \subseteq [defs : SUBSET Names, sites : SUBSET Sites]
  /\ NoFile \notin Contents
  /\ NoImport \notin Imports
  /\ \A i \in Imports, f \in Files :
       Probe(i, f) \in Seq(Files) /\ Near(i, f) \subseteq Files
  /\ MaxRamEdges \in Nat
  /\ Crashes \in BOOLEAN

VARIABLES
  disk,        (* disk[f]: the content of f in the working tree.           *)
  meta,        (* meta[f]: the content file_meta has committed.            *)
  symbol,      (* Table symbol: <<file, name>>.                            *)
  raw,         (* Table raw_edge: <<from file, name, import>>.             *)
  calls,       (* Table calls: <<from file, to file, name>>.               *)
  resolved,    (* The marker edges_resolved.                               *)
  run,         (* The run in progress: its kind, the files it replaces,    *)
               (* the callers of these before the delete.                  *)
  phase,       (* Where the run is.                                        *)
  todo,        (* Tables still to be deleted from.                         *)
  toStore,     (* Files still to be stored.                                *)
  inHand,      (* The file whose edges and chunks the writer stores next.  *)
  pendSym,     (* pending_symbol_batch.                                    *)
  pendMeta,    (* Files whose file_meta is deferred.                       *)
  ram,         (* ram_raw_edges.                                           *)
  overflowed,  (* ram_edges_overflowed.                                    *)
  edges,       (* Resolved edges not yet written.                          *)
  edits, runs, (* Counters for the bounds.                                 *)
  clean,       (* History: no run was interrupted since the last complete  *)
               (* rebuild.                                                 *)
  owed         (* History: the last rebuild was interrupted in phase 2 and *)
               (* nothing but interrupted replays happened since.          *)

tables == <<meta, symbol, raw, calls, resolved>>
memory == <<inHand, pendSym, pendMeta, ram, overflowed>>
history == <<clean, owed>>
vars == <<disk, tables, run, phase, todo, toStore, memory, edges, edits, runs,
          history>>

Raw(f, c) == {<<f, s[1], s[2]>> : s \in c.sites}
Defs(f, c) == {<<f, n>> : n \in c.defs}
Indexed == {f \in Files : meta[f] # NoFile}
NoRun == [kind |-> "none", affected |-> {}, callers |-> {}, scope |-> {}]

-----------------------------------------------------------------------------
(* Selection of the callee.                                                *)

MinFile(S) == CHOOSE f \in S : \A g \in S : f <= g

(* The first candidate in path order, a hand-written one if there is one.  *)
PreferHandWritten(S) ==
  MinFile(IF S \ Generated # {} THEN S \ Generated ELSE S)

(* Level 0: the first file, in probing order, that is among the candidates.*)
(* It always has the symbol, so chase_reexports is never reached.          *)
ByImport(S, from, imp) ==
  LET p == Probe(imp, from)
      hits == {i \in DOMAIN p : p[i] \in S}
  IN  IF hits = {} THEN {} ELSE {p[MinFile(hits)]}

(* The levels in the order they are tried; the last one never fails.       *)
Levels(S, from, imp) ==
  IF imp = NoImport THEN <<S \cap {from}, S>>
  ELSE <<ByImport(S, from, imp), S \cap Near(imp, from), S \cap {from}, S>>

(* select_best_candidate, for a nonempty set of candidates.                *)
Best(S, from, imp) ==
  LET lv == Levels(S, from, imp)
  IN  PreferHandWritten(lv[MinFile({i \in DOMAIN lv : lv[i] # {}})])

Candidates(table, n) == {f \in Files : <<f, n>> \in table}

(* Resolving raw edges against a symbol table; an edge without a candidate *)
(* is dropped.                                                             *)
Resolve(rows, table) ==
  {<<e[1], Best(Candidates(table, e[2]), e[1], e[3]), e[2]>> :
     e \in {e \in rows : Candidates(table, e[2]) # {}}}

(* The call graph of the indexed files, as a full resolution would give it.*)
Reference(content) ==
  LET on == {f \in Files : content[f] # NoFile}
  IN  Resolve(UNION {Raw(f, content[f]) : f \in on},
              UNION {Defs(f, content[f]) : f \in on})

-----------------------------------------------------------------------------
TypeOK ==
  /\ disk \in [Files -> Contents \cup {NoFile}]
  /\ meta \in [Files -> Contents \cup {NoFile}]
  /\ symbol \subseteq Files \X Names
  /\ raw \subseteq Files \X Names \X (Imports \cup {NoImport})
  /\ calls \subseteq Files \X Files \X Names
  /\ resolved \in BOOLEAN
  /\ run \in [kind : {"none", "rebuild", "incremental", "replay"},
              affected : SUBSET Files, callers : SUBSET Files,
              scope : SUBSET Files]
  /\ phase \in {"idle", "delete", "symbols", "edges", "commit",
                "resolve", "write"}
  /\ todo \in Seq({"calls", "symbol", "raw_edge", "file_meta", "marker"})
  /\ toStore \subseteq Files
  /\ inHand \in Files \cup {NoFile}
  /\ pendSym \subseteq Files \X Names
  /\ pendMeta \subseteq Files
  /\ ram \subseteq Files \X Names \X (Imports \cup {NoImport})
  /\ Cardinality(ram) <= MaxRamEdges
  /\ overflowed \in BOOLEAN
  /\ edges \subseteq Files \X Files \X Names
  /\ edits \in 0 .. MaxEdits
  /\ runs \in 0 .. MaxRuns
  /\ clean \in BOOLEAN
  /\ owed \in BOOLEAN

Init ==
  /\ disk \in [Files -> Contents \cup {NoFile}]
  /\ meta = [f \in Files |-> NoFile]
  /\ symbol = {} /\ raw = {} /\ calls = {}
  /\ resolved = FALSE
  /\ run = NoRun
  /\ phase = "idle"
  /\ todo = <<>>
  /\ toStore = {} /\ pendSym = {} /\ pendMeta = {} /\ ram = {}
  /\ inHand = NoFile
  /\ overflowed = FALSE
  /\ edges = {}
  /\ edits = 0 /\ runs = 0
  /\ clean = FALSE /\ owed = FALSE

(* The user edits, creates or deletes a file between two runs.             *)
Edit(f) ==
  /\ phase = "idle"
  /\ edits < MaxEdits
  /\ \E c \in (Contents \cup {NoFile}) \ {disk[f]} : disk' = [disk EXCEPT ![f] = c]
  /\ edits' = edits + 1
  /\ UNCHANGED <<tables, run, phase, todo, toStore, memory, edges, runs, history>>

-----------------------------------------------------------------------------
(* The start of a run.                                                     *)

Begin(kind, affected, order, files) ==
  /\ phase = "idle"
  /\ runs < MaxRuns
  /\ runs' = runs + 1
  /\ run' = [kind |-> kind, affected |-> affected, scope |-> {},
             callers |-> {c[1] : c \in {c \in calls : c[2] \in affected}}
                           \ affected]
  /\ phase' = IF kind = "replay" THEN "resolve" ELSE "delete"
  /\ todo' = order
  /\ toStore' = files
  /\ UNCHANGED <<disk, tables, memory, edges, edits, history>>

(* Fault: the symbols go first, while edges still point to them.           *)
BulkOrder_SymbolsFirst == <<"symbol", "calls", "raw_edge", "file_meta">>

(* The tables in the order delete_all_data and delete_files_data_bulk      *)
(* empty them; full_rebuild then clears the marker.                        *)
AllOrder == <<"calls", "raw_edge", "symbol", "file_meta", "marker">>
BulkOrder == <<"calls", "symbol", "raw_edge", "file_meta">>

Present == {f \in Files : disk[f] # NoFile}

Rebuild == Begin("rebuild", Files, AllOrder, Present)

(* First run, or a forced rebuild.                                         *)
StartRebuild == Rebuild

(* A change set of a watcher, or the result of a walk.                     *)
StartIncremental(F) ==
  /\ Indexed # {}
  /\ F # {}
  /\ Begin("incremental", F, BulkOrder, F \cap Present)

(* Fault: the replay trusts the raw_edge table without looking at it.      *)
StartReplay_Blindly ==
  /\ Indexed # {}
  /\ ~resolved
  /\ Begin("replay", {}, <<>>, {})

(* No change is left, whether nothing changed or all of it was filtered,   *)
(* and the marker is absent: the raw edges of the table are resolved       *)
(* again, or, if they were in RAM, the index is rebuilt.                   *)
StartReplay ==
  /\ Indexed # {}
  /\ ~resolved
  /\ IF raw = {} THEN Rebuild ELSE Begin("replay", {}, <<>>, {})

-----------------------------------------------------------------------------
(* Deletes and stage 3.                                                    *)

Untouched(rows) == {r \in rows : r[1] \notin run.affected}

(* One DELETE query.                                                       *)
DeleteTable ==
  /\ phase = "delete"
  /\ todo # <<>>
  /\ todo' = Tail(todo)
  /\ phase' = IF Len(todo) = 1 THEN "symbols" ELSE "delete"
  /\ LET t == Head(todo) IN
     /\ calls' = IF t # "calls" THEN calls
                 ELSE {c \in Untouched(calls) : c[2] \notin run.affected}
     /\ symbol' = IF t # "symbol" THEN symbol ELSE Untouched(symbol)
     /\ raw' = IF t # "raw_edge" THEN raw ELSE Untouched(raw)
     /\ meta' = IF t # "file_meta" THEN meta
                ELSE [f \in Files |-> IF f \in run.affected THEN NoFile
                                                            ELSE meta[f]]
     /\ resolved' = (resolved /\ t # "marker")
  /\ UNCHANGED <<disk, run, toStore, memory, edges, edits, runs, history>>

(* The writer takes a file: its symbols join the batch, which is written   *)
(* when it is full.                                                        *)
StoreSymbols(f) ==
  /\ phase = "symbols"
  /\ f \in toStore
  /\ LET batch == pendSym \cup Defs(f, disk[f])
         full == Cardinality(batch) >= SymBatch
     IN  /\ pendSym' = IF full THEN {} ELSE batch
         /\ symbol' = IF full THEN symbol \cup batch ELSE symbol
  /\ phase' = "edges"
  /\ todo' = <<>>
  /\ toStore' = toStore \ {f}
  /\ inHand' = f
  /\ UNCHANGED <<disk, run, meta, raw, calls, resolved, pendMeta, ram, overflowed,
                 edges, edits, runs, history>>

(* Fault: the buffer is dropped when it overflows.                         *)
BufferEdges_DropsBuffer(new) ==
  IF run.kind = "rebuild" /\ ~overflowed
  THEN LET fits == Cardinality(ram) + Cardinality(new) <= MaxRamEdges
       IN  /\ ram' = IF fits THEN ram \cup new ELSE {}
           /\ raw' = IF fits THEN raw ELSE raw \cup new
           /\ overflowed' = ~fits
  ELSE /\ raw' = raw \cup new
       /\ UNCHANGED <<ram, overflowed>>

(* A rebuild buffers raw edges up to the cap, then moves all of them to    *)
(* the table; an incremental run always writes to the table.               *)
BufferEdges(new) ==
  IF run.kind = "rebuild" /\ ~overflowed
  THEN LET fits == Cardinality(ram) + Cardinality(new) <= MaxRamEdges
       IN  /\ ram' = IF fits THEN ram \cup new ELSE {}
           /\ raw' = IF fits THEN raw ELSE raw \cup ram \cup new
           /\ overflowed' = ~fits
  ELSE /\ raw' = raw \cup new
       /\ UNCHANGED <<ram, overflowed>>

(* The stamps deferred so far, written when a chunk batch is.              *)
Commit(S) == meta' = [f \in Files |-> IF f \in S THEN disk[f] ELSE meta[f]]

(* Its raw edges, and its chunks: if they fill a batch, the stamps of the  *)
(* files before it are committed.                                         *)
StoreEdges ==
  /\ phase = "edges"
  /\ BufferEdges(Raw(inHand, disk[inHand]))
  /\ \E flushed \in {{}, pendMeta} :
       /\ Commit(flushed)
       /\ pendMeta' = (pendMeta \ flushed) \cup {inHand}
  /\ phase' = "symbols"
  /\ inHand' = NoFile
  /\ UNCHANGED <<disk, run, symbol, calls, resolved, todo, toStore, pendSym, edges,
                 edits, runs, history>>

(* End of the stream: the rest of the symbols...                           *)
FlushTail ==
  /\ phase = "symbols"
  /\ toStore = {}
  /\ symbol' = symbol \cup pendSym
  /\ pendSym' = {}
  /\ phase' = "commit"
  /\ UNCHANGED <<disk, meta, raw, calls, resolved, run, todo, toStore,
                 inHand, pendMeta, ram, overflowed, edges, edits, runs, history>>

(* ...and, after the last chunks, the rest of the stamps.                  *)
CommitTail ==
  /\ phase = "commit"
  /\ Commit(pendMeta)
  /\ pendMeta' = {}
  /\ phase' = "resolve"
  /\ UNCHANGED <<disk, symbol, raw, calls, resolved, run, todo, toStore,
                 inHand, pendSym, ram, overflowed, edges, edits, runs, history>>

-----------------------------------------------------------------------------
(* Phase 2.                                                                *)

FromRam == run.kind = "rebuild" /\ ~overflowed /\ ram # {}

(* resolve_edges_from_ram.                                                 *)
ResolveFromRam ==
  /\ phase = "resolve"
  /\ FromRam
  /\ edges' = Resolve(ram, symbol)
  /\ phase' = "write"
  /\ UNCHANGED <<disk, tables, run, todo, toStore, memory, edits, runs, history>>

(* resolve_edges_phase2: all calls are rewritten from the raw_edge table.  *)
ResolveFromTable ==
  /\ phase = "resolve"
  /\ run.kind # "incremental"
  /\ ~FromRam
  /\ calls' = {}
  /\ edges' = Resolve(raw, symbol)
  /\ phase' = "write"
  /\ UNCHANGED <<disk, meta, symbol, raw, resolved, run, todo, toStore, memory,
                 edits, runs, history>>

(* Fault: a changed file's new symbols attract nobody.                     *)
ResolveSet_NoNewNames == run.affected \cup run.callers

(* The changed files, their former callers, and whoever calls a name they  *)
(* now define, according to the raw_edge table.                            *)
ResolveSet ==
  LET names == {s[2] : s \in {s \in symbol : s[1] \in run.affected}}
  IN  run.affected \cup run.callers
        \cup {e[1] : e \in {e \in raw : e[2] \in names}}

(* resolve_edges_incremental.                                              *)
ResolveIncremental ==
  /\ phase = "resolve"
  /\ run.kind = "incremental"
  /\ LET S == ResolveSet IN
     /\ run' = [run EXCEPT !.scope = S]
     /\ calls' = {c \in calls : c[1] \notin S /\ c[2] \notin S}
     /\ edges' = Resolve({e \in raw : e[1] \in S}, symbol)
  /\ phase' = "write"
  /\ UNCHANGED <<disk, meta, symbol, raw, resolved, todo, toStore, memory,
                 edits, runs, history>>

(* flush_edge_batch: the scan order and the batch size decide which edges  *)
(* go first.                                                               *)
FlushEdges ==
  /\ phase = "write"
  /\ \E batch \in SUBSET edges \ {{}} :
       /\ calls' = calls \cup batch
       /\ edges' = edges \ batch
  /\ UNCHANGED <<disk, meta, symbol, raw, resolved, run, phase, todo, toStore,
                 memory, edits, runs, history>>

Forget ==
  /\ run' = NoRun
  /\ phase' = "idle"
  /\ todo' = <<>>
  /\ inHand' = NoFile
  /\ toStore' = {} /\ pendSym' = {} /\ pendMeta' = {} /\ ram' = {}
  /\ overflowed' = FALSE
  /\ edges' = {}

(* A full resolution sets the marker last; an incremental one does not     *)
(* touch it.                                                               *)
EndRun ==
  /\ phase = "write"
  /\ edges = {}
  /\ resolved' = (resolved \/ run.kind # "incremental")
  /\ Forget
  /\ clean' = (clean \/ run.kind = "rebuild")
  /\ owed' = FALSE
  /\ UNCHANGED <<disk, meta, symbol, raw, calls, edits, runs>>

(* Crash and restart, a failed query or a cancellation: the memory of the  *)
(* run is gone, the tables stay.                                           *)
Interrupt ==
  /\ Crashes
  /\ phase # "idle"
  /\ Forget
  /\ clean' = FALSE
  /\ owed' = /\ phase \in {"resolve", "write"}
             /\ run.kind = "rebuild" \/ (run.kind = "replay" /\ owed)
  /\ UNCHANGED <<disk, tables, edits, runs>>

Next ==
  \/ \E f \in Files : Edit(f) \/ StoreSymbols(f)
  \/ StartRebuild
  \/ \E F \in SUBSET Files : StartIncremental(F)
  \/ StartReplay
  \/ DeleteTable
  \/ StoreEdges
  \/ FlushTail
  \/ CommitTail
  \/ ResolveFromRam \/ ResolveFromTable \/ ResolveIncremental
  \/ FlushEdges
  \/ EndRun
  \/ Interrupt

Spec == Init /\ [][Next]_vars

-----------------------------------------------------------------------------
(* Properties.                                                             *)

(* No call ever points to or comes with a symbol that is not in the table: *)
(* search-time expansion and the call graph follow these ids blindly.  It  *)
(* holds between any two queries, so also after a crash.                   *)
CallsPointToSymbols == \A c \in calls : <<c[2], c[3]>> \in symbol

(* A completed rebuild has exactly the calls of the files, wherever its    *)
(* raw edges were kept.                                                    *)
RebuildResolves ==
  [][EndRun /\ run.kind = "rebuild" => calls' = Reference(disk)]_vars

RawComplete == \A f \in Indexed : Raw(f, meta[f]) \subseteq raw

(* While the raw edges of all indexed files are in the table and no run    *)
(* was interrupted, an incremental run leaves no stale call anywhere, and  *)
(* the calls out of every file it re-resolves are complete.                *)
IncrementalScoped ==
  [][EndRun /\ run.kind = "incremental" /\ clean /\ RawComplete =>
       /\ calls' \subseteq Reference(meta)
       /\ {c \in Reference(meta) : c[1] \in run.scope} \subseteq calls']_vars

(* A resolution that was interrupted after all files were committed is     *)
(* made up for by the next run that finds no change.                       *)
ReplayRecovers ==
  [][EndRun /\ run.kind = "replay" /\ owed => calls' = Reference(meta)]_vars

(* What the comment at src/indexing/pipeline.rs:646-652 promises: callers  *)
(* of the files an incremental run replaces are not lost, their calls are  *)
(* resolved again.                                                         *)
CallersKept ==
  [][EndRun /\ run.kind = "incremental" =>
       {c \in Reference(meta) : c[1] \in run.callers} \subseteq calls']_vars

=============================================================================
