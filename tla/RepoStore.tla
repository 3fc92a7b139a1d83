------------------------------ MODULE RepoStore ------------------------------
(***************************************************************************)
(* The datastore of one repository (src/store/mod.rs): get_or_open and     *)
(* open_if_indexed behind the open gate, close_repo_db and                 *)
(* remove_index_dir, the RocksDB lock that is released some time after the *)
(* last clone of a handle is gone, and the background migration from       *)
(* schema version 1 to 5 with its paged backfills, whose cursors survive a *)
(* crash, beside the runs that insert and delete rows.                     *)
(*                                                                         *)
(* A record id is a number; the datastore draws fresh ids at random, so a  *)
(* new row may land before or behind a cursor, and a deleted id does not   *)
(* come back.  The backfill of file_meta.chunk_count is left out.          *)
(***************************************************************************)
EXTENDS Naturals, FiniteSets, FiniteSetsExt

CONSTANTS
  Openers,      (* Tasks that call get_or_open.                            *)
  Runs,         (* Those of them that are runs: they hold the run lock.    *)
  Remover,      (* The request that deletes the index.                     *)
  Migs,         (* Slots for migration tasks.                              *)
  Nobody,
  Ids,          (* Record ids: 1 .. n.                                     *)
  OldCalls,     (* The calls rows of the version 1 datastore.              *)
  OldChunks,    (* Its chunk rows.                                         *)
  Page,         (* Rows per page (512 in the code).                        *)
  OpenTries,    (* Attempts of open_db (20 in the code).                   *)
  RemoveTries,  (* Attempts of remove_index_dir (18 in the code).          *)
  MaxOpens,     (* Bound on the datastores opened.                         *)
  MaxWrites,    (* Bound on what runs write.                               *)
  MaxStops      (* Bound on the stops of the process.                      *)

ASSUME StoreAssumption ==
  /\ Runs \subseteq Openers /\ Remover \notin Openers
  /\ Nobody \notin Openers \cup {Remover}
  /\ Ids \subseteq Nat \ {0} /\ IsFiniteSet(Ids)
  /\ OldCalls \subseteq Ids /\ OldChunks \subseteq Ids
  /\ {Page, OpenTries, RemoveTries} \subseteq Nat \ {0}
  /\ MaxOpens \in Nat /\ MaxWrites \in Nat /\ MaxStops \in Nat

VARIABLES
  dir,       (* The directory exists.                                      *)
  disk,      (* What the datastore holds.                                  *)
  cached,    (* The handle in repo_dbs: the number of an open, 0 if none.  *)
  live,      (* The open that holds the RocksDB lock, 0 if none.           *)
  unlinked,  (* The files of the live datastore have been removed.         *)
  opens,     (* How often a datastore has been opened.                     *)
  gate,      (* The holder of the open gate.                               *)
  lock,      (* The holder of the repository's run lock.                   *)
  pc,        (* pc[p]: where an opener or the remover is.                  *)
  tries,     (* tries[p]: its attempts so far.                             *)
  clone,     (* clone[o]: the handle an opener holds.                      *)
  mig,       (* mig[m]: a migration task.                                  *)
  writes,    (* How often runs have written.                               *)
  stops

handles == <<cached, live, unlinked, opens>>
procs == <<pc, tries, clone>>
bounds == <<writes, stops>>
vars == <<dir, disk, handles, gate, lock, procs, mig, bounds>>

Current == 5   (* DB_SCHEMA_VERSION *)

(* A fresh datastore has no version stamp, and is taken for version 1.     *)
Fresh ==
  [version |-> 1, callsCursor |-> 0, chunkCursor |-> 0,
   calls |-> [i \in Ids |-> "unused"], chunks |-> [i \in Ids |-> "unused"]]

Old ==
  [Fresh EXCEPT
     !.calls = [i \in Ids |-> IF i \in OldCalls THEN "link" ELSE "unused"],
     !.chunks = [i \in Ids |-> IF i \in OldChunks THEN "array" ELSE "unused"]]

Present(table) == {i \in Ids : table[i] \notin {"unused", "deleted"}}

NoMig == [pc |-> "free", from |-> 0, clone |-> 0, cursor |-> 0, page |-> {},
          size |-> 0]

MigPc == {"free", "spawned", "calls", "callsRow", "callsEnd",
          "stamp2", "flip", "symbols", "chunks", "chunksRow",
          "chunksEnd", "stamp5"}

(* Where a backfill is within a page, and behind the last one.             *)
RowOf == [calls |-> "callsRow", chunks |-> "chunksRow"]
EndOf == [calls |-> "callsEnd", chunks |-> "chunksEnd"]

CallRow == {"unused", "deleted", "link", "name", "fqn"}
ChunkRow == {"unused", "deleted", "array", "bytes"}

Datastore ==
  [version : 1 .. Current, callsCursor : Ids \cup {0}, chunkCursor : Ids \cup {0},
   calls : [Ids -> CallRow], chunks : [Ids -> ChunkRow]]

Migration ==
  [pc : MigPc, from : 0 .. Current - 1, clone : 0 .. MaxOpens,
   cursor : Ids \cup {0}, page : SUBSET Ids, size : 0 .. Page]

TypeOK ==
  /\ dir \in BOOLEAN /\ unlinked \in BOOLEAN
  /\ disk \in Datastore
  /\ opens \in 0 .. MaxOpens /\ cached \in 0 .. opens /\ live \in 0 .. opens
  /\ cached # 0 => cached = live
  /\ gate \in Openers \cup {Remover, Nobody}
  /\ lock \in Runs \cup {Nobody}
  /\ pc \in [Openers \cup {Remover} ->
               {"idle", "gate", "opening", "version", "using", "removing"}]
  /\ tries \in [Openers \cup {Remover} -> Nat]
  /\ \A o \in Openers : tries[o] < OpenTries
  /\ tries[Remover] < RemoveTries
  /\ clone \in [Openers -> 0 .. opens]
  /\ mig \in [Migs -> Migration]
  /\ \A m \in Migs : mig[m].clone \in {0, live}
  /\ writes \in 0 .. MaxWrites /\ stops \in 0 .. MaxStops

AtRest ==
  /\ cached = 0 /\ live = 0 /\ unlinked = FALSE
  /\ gate = Nobody /\ lock = Nobody
  /\ pc = [p \in Openers \cup {Remover} |-> "idle"]
  /\ tries = [p \in Openers \cup {Remover} |-> 0]
  /\ clone = [o \in Openers |-> 0]
  /\ mig = [m \in Migs |-> NoMig]

(* Nothing on disk, or a datastore of version 1.                           *)
Init ==
  /\ \/ dir = FALSE /\ disk = Fresh
     \/ dir = TRUE /\ disk = Old
  /\ AtRest /\ opens = 0 /\ writes = 0 /\ stops = 0

-----------------------------------------------------------------------------
(* get_or_open and open_if_indexed.                                        *)

(* The fast path is a hit in the map.  open_if_indexed (not a run) answers *)
(* "not indexed" where there is no directory.                              *)
Lookup(o) ==
  /\ pc[o] = "idle"
  /\ o \in Runs => lock = Nobody
  /\ o \notin Runs => cached # 0 \/ dir
  /\ lock' = IF o \in Runs THEN o ELSE lock
  /\ pc' = [pc EXCEPT ![o] = IF cached # 0 THEN "using" ELSE "gate"]
  /\ clone' = [clone EXCEPT ![o] = cached]
  /\ UNCHANGED <<dir, disk, handles, gate, tries, mig, bounds>>

(* Fault: the map is not looked at again once the gate is held.            *)
EnterGate_NoRecheck(o) ==
  /\ pc[o] = "gate" /\ gate = Nobody
  /\ gate' = o
  /\ dir' = TRUE
  /\ pc' = [pc EXCEPT ![o] = "opening"]
  /\ UNCHANGED <<disk, handles, lock, tries, clone, mig, bounds>>

(* The gate, the second look at the map, and create_dir_all.               *)
EnterGate(o) ==
  /\ pc[o] = "gate" /\ gate = Nobody
  /\ IF cached # 0
     THEN /\ pc' = [pc EXCEPT ![o] = "using"]
          /\ clone' = [clone EXCEPT ![o] = cached]
          /\ UNCHANGED <<gate, dir>>
     ELSE /\ gate' = o
          /\ dir' = TRUE
          /\ pc' = [pc EXCEPT ![o] = "opening"]
          /\ UNCHANGED clone
  /\ UNCHANGED <<disk, handles, lock, tries, mig, bounds>>

(* An early return drops the guard of the gate, and a run its lock.        *)
GiveUp(o) ==
  /\ pc' = [pc EXCEPT ![o] = "idle"]
  /\ tries' = [tries EXCEPT ![o] = 0]
  /\ clone' = [clone EXCEPT ![o] = 0]
  /\ gate' = IF gate = o THEN Nobody ELSE gate
  /\ lock' = IF lock = o THEN Nobody ELSE lock

(* One attempt of open_db while another datastore holds the RocksDB lock.  *)
OpenLocked(o) ==
  /\ pc[o] = "opening" /\ live # 0
  /\ IF tries[o] + 1 < OpenTries
     THEN /\ tries' = [tries EXCEPT ![o] = @ + 1]
          /\ UNCHANGED <<pc, clone, gate, lock>>
     ELSE GiveUp(o)
  /\ UNCHANGED <<dir, disk, handles, mig, bounds>>

OpenDb(o) ==
  /\ pc[o] = "opening" /\ live = 0 /\ opens < MaxOpens
  /\ opens' = opens + 1
  /\ live' = opens'
  /\ clone' = [clone EXCEPT ![o] = opens']
  /\ tries' = [tries EXCEPT ![o] = 0]
  /\ pc' = [pc EXCEPT ![o] = "version"]
  /\ UNCHANGED <<dir, disk, cached, unlinked, gate, lock, mig, bounds>>

(* The namespace, the DDL: the new datastore is dropped again.             *)
OpenFails(o) ==
  /\ pc[o] = "version"
  /\ GiveUp(o)
  /\ UNCHANGED <<dir, disk, handles, mig, bounds>>

(* read_db_schema_version, which takes an unreadable version for 1; the    *)
(* handle enters the map, and the migration is spawned behind it.          *)
Publish(o) ==
  /\ pc[o] = "version"
  /\ cached' = clone[o]
  /\ \E version \in {1, disk.version} :
       IF version < Current
       THEN \E m \in Migs :
              /\ mig[m].pc = "free"
              /\ mig' = [mig EXCEPT ![m] = [NoMig EXCEPT !.pc = "spawned",
                                                         !.from = version]]
       ELSE mig' = mig
  /\ gate' = Nobody
  /\ pc' = [pc EXCEPT ![o] = "using"]
  /\ UNCHANGED <<dir, disk, live, unlinked, opens, lock, tries, clone, bounds>>

Finish(o) ==
  /\ pc[o] = "using"
  /\ GiveUp(o)
  /\ UNCHANGED <<dir, disk, handles, mig, bounds>>

(* The background router of a datastore shuts down once nobody has it.     *)
Drain ==
  /\ live # 0 /\ cached # live
  /\ \A o \in Openers : clone[o] # live
  /\ \A m \in Migs : mig[m].clone # live
  /\ live' = 0 /\ unlinked' = FALSE
  /\ UNCHANGED <<dir, disk, cached, opens, gate, lock, procs, mig, bounds>>

-----------------------------------------------------------------------------
(* What a run does to the rows.  Its calls carry qualified names and its   *)
(* embeddings are packed.                                                  *)

Writes(o) ==
  /\ o \in Runs /\ pc[o] = "using" /\ ~unlinked
  /\ writes < MaxWrites /\ writes' = writes + 1

InsertCall(o, i) ==
  /\ Writes(o) /\ disk.calls[i] = "unused"
  /\ disk' = [disk EXCEPT !.calls[i] = "fqn"]
  /\ UNCHANGED <<dir, handles, gate, lock, procs, mig, stops>>

DeleteCall(o, i) ==
  /\ Writes(o) /\ i \in Present(disk.calls)
  /\ disk' = [disk EXCEPT !.calls[i] = "deleted"]
  /\ UNCHANGED <<dir, handles, gate, lock, procs, mig, stops>>

InsertChunk(o, i) ==
  /\ Writes(o) /\ disk.chunks[i] = "unused"
  /\ disk' = [disk EXCEPT !.chunks[i] = "bytes"]
  /\ UNCHANGED <<dir, handles, gate, lock, procs, mig, stops>>

DeleteChunk(o, i) ==
  /\ Writes(o) /\ i \in Present(disk.chunks)
  /\ disk' = [disk EXCEPT !.chunks[i] = "deleted"]
  /\ UNCHANGED <<dir, handles, gate, lock, procs, mig, stops>>

-----------------------------------------------------------------------------
(* The migration.                                                          *)

(* The first step of the chain for a stored version, and the cursor with   *)
(* which a backfill begins.                                                *)
StepFor(version) ==
  CASE version < 2 -> "calls" [] version = 2 -> "flip"
    [] version = 3 -> "symbols" [] OTHER -> "chunks"

Cursor(step) ==
  CASE step = "calls" -> disk.callsCursor
    [] step = "chunks" -> disk.chunkCursor
    [] OTHER -> 0

(* The handle is taken from the map as it is now; the task ends if the     *)
(* index was closed before.                                                *)
StartMigration(m) ==
  /\ mig[m].pc = "spawned"
  /\ LET first == StepFor(mig[m].from) IN
     mig' = [mig EXCEPT ![m] =
               IF cached = 0 THEN NoMig
               ELSE [@ EXCEPT !.clone = cached, !.pc = first,
                              !.cursor = Cursor(first)]]
  /\ UNCHANGED <<dir, disk, handles, gate, lock, procs, bounds>>

(* What a datastore without files still does is lost.                      *)
Migrates(m, step) == mig[m].pc = step /\ ~unlinked

Goto(m, step) ==
  mig' = [mig EXCEPT ![m] = [@ EXCEPT !.pc = step, !.cursor = Cursor(step)]]

(* The next rows behind a cursor.                                          *)
NextPage(table, cursor) ==
  LET rest == {i \in Present(table) : i > cursor}
  IN  {i \in rest : Cardinality({j \in rest : j <= i}) <= Page}

TakePage(m, step, page) ==
  mig' = [mig EXCEPT ![m] = [@ EXCEPT !.page = page, !.cursor = Max(page),
                                      !.size = Cardinality(page),
                                      !.pc = RowOf[step]]]

(* Fault: the cursor is persisted before the rows it stands for are        *)
(* updated.                                                                *)
ReadPage_PersistsCursor(m, step) ==
  LET page == NextPage(disk[step], mig[m].cursor) IN
  /\ Migrates(m, step)
  /\ IF page = {} THEN Goto(m, EndOf[step]) /\ disk' = disk
     ELSE /\ TakePage(m, step, page)
          /\ disk' = IF step = "calls"
                     THEN [disk EXCEPT !.callsCursor = Max(page)]
                     ELSE [disk EXCEPT !.chunkCursor = Max(page)]
  /\ UNCHANGED <<dir, handles, gate, lock, procs, bounds>>

(* A page is read and the cursor in memory advances; an empty page ends    *)
(* the backfill.                                                           *)
ReadPage(m, step) ==
  LET page == NextPage(disk[step], mig[m].cursor) IN
  /\ Migrates(m, step)
  /\ IF page = {} THEN Goto(m, EndOf[step])
     ELSE TakePage(m, step, page)
  /\ UNCHANGED <<dir, disk, handles, gate, lock, procs, bounds>>

(* Every row is updated by its own id: the calls get the names their links *)
(* point to, the embeddings are packed.  A row that is gone stays gone.    *)
UpdateRow(m, step) ==
  /\ Migrates(m, RowOf[step]) /\ mig[m].page # {}
  /\ LET i == Min(mig[m].page) IN
     /\ mig' = [mig EXCEPT ![m].page = @ \ {i}]
     /\ disk' = IF i \notin Present(disk[step]) THEN disk
                ELSE IF step = "calls" THEN [disk EXCEPT !.calls[i] = "name"]
                ELSE [disk EXCEPT !.chunks[i] = "bytes"]
  /\ UNCHANGED <<dir, handles, gate, lock, procs, bounds>>

(* The cursor is persisted behind the updates; a short page is the last.   *)
PersistCursor(m, step) ==
  /\ Migrates(m, RowOf[step]) /\ mig[m].page = {}
  /\ mig' = [mig EXCEPT ![m] = [@ EXCEPT
                !.pc = IF mig[m].size < Page THEN EndOf[step] ELSE step, !.size = 0]]
  /\ disk' = IF step = "calls" THEN [disk EXCEPT !.callsCursor = mig[m].cursor]
             ELSE [disk EXCEPT !.chunkCursor = mig[m].cursor]
  /\ UNCHANGED <<dir, handles, gate, lock, procs, bounds>>

(* The cursor's key is deleted, and a failure to do so ignored.            *)
DropCursor(m, step) ==
  /\ Migrates(m, EndOf[step])
  /\ disk' \in {disk, IF step = "calls" THEN [disk EXCEPT !.callsCursor = 0]
                      ELSE [disk EXCEPT !.chunkCursor = 0]}
  /\ Goto(m, IF step = "calls" THEN "stamp2" ELSE "stamp5")
  /\ UNCHANGED <<dir, handles, gate, lock, procs, bounds>>

(* The version stamps.  The steps to 3 and 4 change table definitions,     *)
(* which are the same before and after for every row here.                 *)
Stamp(m, version) ==
  /\ Migrates(m, CASE version = 2 -> "stamp2" [] version = 3 -> "flip"
                   [] version = 4 -> "symbols" [] OTHER -> "stamp5")
  /\ disk' = [disk EXCEPT !.version = version]
  /\ IF version = Current THEN mig' = [mig EXCEPT ![m] = NoMig]
     ELSE Goto(m, StepFor(version))
  /\ UNCHANGED <<dir, handles, gate, lock, procs, bounds>>

(* A query fails and the chain is abandoned with a warning.                *)
MigrationFails(m) ==
  /\ mig[m].clone # 0
  /\ mig' = [mig EXCEPT ![m] = NoMig]
  /\ UNCHANGED <<dir, disk, handles, gate, lock, procs, bounds>>

-----------------------------------------------------------------------------
(* Deleting the index.                                                     *)

(* close_repo_db waits for the run lock and drops the cached handle.       *)
CloseRepoDb ==
  /\ pc[Remover] = "idle" /\ lock = Nobody /\ dir
  /\ cached' = 0
  /\ pc' = [pc EXCEPT ![Remover] = "gate"]
  /\ UNCHANGED <<dir, disk, live, unlinked, opens, gate, lock, tries, clone, mig,
                 bounds>>

Removed(p) ==
  /\ pc' = [pc EXCEPT ![p] = "idle"]
  /\ tries' = [tries EXCEPT ![p] = 0]
  /\ gate' = Nobody

EnterRemoval ==
  /\ pc[Remover] = "gate" /\ gate = Nobody
  /\ IF dir THEN /\ pc' = [pc EXCEPT ![Remover] = "removing"]
                 /\ gate' = Remover /\ UNCHANGED tries
     ELSE Removed(Remover)
  /\ UNCHANGED <<dir, disk, handles, lock, clone, mig, bounds>>

(* One attempt.  The files of an open datastore can be removed or not,     *)
(* depending on the system; after the last attempt the index stays.        *)
RemoveAttempt ==
  /\ pc[Remover] = "removing"
  /\ \/ /\ dir' = FALSE /\ disk' = Fresh /\ unlinked' = (live # 0)
        /\ Removed(Remover)
     \/ /\ live # 0
        /\ IF tries[Remover] + 1 < RemoveTries
           THEN /\ tries' = [tries EXCEPT ![Remover] = @ + 1]
                /\ UNCHANGED <<pc, gate>>
           ELSE Removed(Remover)
        /\ UNCHANGED <<dir, disk, unlinked>>
  /\ UNCHANGED <<cached, live, opens, lock, clone, mig, bounds>>

(* The process stops: only the disk remains.                               *)
Stop ==
  /\ stops < MaxStops /\ stops' = stops + 1
  /\ cached' = 0 /\ live' = 0 /\ unlinked' = FALSE
  /\ gate' = Nobody /\ lock' = Nobody
  /\ pc' = [p \in Openers \cup {Remover} |-> "idle"]
  /\ tries' = [p \in Openers \cup {Remover} |-> 0]
  /\ clone' = [o \in Openers |-> 0]
  /\ mig' = [m \in Migs |-> NoMig]
  /\ UNCHANGED <<dir, disk, opens, writes>>

-----------------------------------------------------------------------------

OpenerStep(o) ==
  \/ EnterGate(o) \/ OpenLocked(o) \/ OpenDb(o) \/ OpenFails(o) \/ Publish(o)
  \/ Finish(o)

RunWrites(o) ==
  \E i \in Ids :
    InsertCall(o, i) \/ DeleteCall(o, i) \/ InsertChunk(o, i) \/ DeleteChunk(o, i)

Backfill(m, step) ==
  \/ ReadPage(m, step) \/ UpdateRow(m, step) \/ PersistCursor(m, step)
  \/ DropCursor(m, step)

MigrationStep(m) ==
  \/ StartMigration(m)
  \/ \E step \in {"calls", "chunks"} : Backfill(m, step)
  \/ \E version \in 2 .. Current : Stamp(m, version)
  \/ MigrationFails(m)

RemoverStep == CloseRepoDb \/ EnterRemoval \/ RemoveAttempt

Next ==
  \/ \E o \in Openers : Lookup(o) \/ OpenerStep(o) \/ RunWrites(o)
  \/ Drain
  \/ \E m \in Migs : MigrationStep(m)
  \/ RemoverStep
  \/ Stop

Spec == Init /\ [][Next]_vars

-----------------------------------------------------------------------------
(* Properties.                                                             *)

(* What the gate is for (src/src/store/mod.rs:651): one task at a time     *)
(* opens the datastore, never beside an open one that is in the map, so an *)
(* attempt only ever meets the lock of a handle that is on its way out.    *)
OpensAreExclusive ==
  \A o \in Openers : pc[o] \in {"opening", "version"} =>
    /\ gate = o /\ cached = 0
    /\ pc[Remover] # "removing"
    /\ \A p \in Openers \ {o} : pc[p] \notin {"opening", "version"}

(* A version stamp is a promise about every row: from version 2 on every   *)
(* call has its names, from version 5 on every embedding is packed.  It    *)
(* holds whatever runs insert and delete before and behind the cursors,    *)
(* across a stop at any point, with a cursor left behind, and with two     *)
(* migrations of one datastore under way.                                  *)
StampMeansConverted ==
  /\ disk.version >= 2 => \A i \in Ids : disk.calls[i] # "link"
  /\ disk.version >= 5 => \A i \in Ids : disk.chunks[i] # "array"

(* What the readers of a datastore from version 2 on rely on               *)
(* (src/src/query/graph_expand.rs:213): the names of a call are qualified  *)
(* names, by which they look calls up.                                     *)
IndexedNamesMatch == disk.version >= 2 => \A i \in Ids : disk.calls[i] # "name"

=============================================================================
