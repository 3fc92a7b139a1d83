------------------------- MODULE IndexPipelineProofs -------------------------
(***************************************************************************)
(* Proofs about IndexPipeline for every set of files, every number of      *)
(* chunks per file, every batch size, any number of edits and any number   *)
(* of copies of a path in a trigger: the type invariant, the commit marker,*)
(* and what a run that nobody disturbs leaves in the tables.               *)
(***************************************************************************)
EXTENDS IndexPipeline, TLAPS

USE PipelineAssumption

(* What stages 1 and 2 hold: a text read is never newer than the file, and *)
(* a stat never older than the text.                                       *)
FeedInv ==
  \A i \in Items :
    /\ stage[i] = "read" =>
         /\ content[i] \in 1 .. edits
         /\ disk[i[1]] # Absent => content[i] <= disk[i[1]]
         /\ AtomicParse => disk[i[1]] = content[i]
    /\ stage[i] = "parsed" =>
         /\ content[i] \in 1 .. stamp[i]
         /\ AtomicParse => content[i] = stamp[i]

(* What the writer holds: the chunks of the file in hand pushed so far are *)
(* written or in the batch, and those of a deferred file_meta entirely; a  *)
(* flush empties the batch before the first file_meta is committed.        *)
WriterInv ==
  /\ cur # NoItem =>
       /\ phase \in Streaming
       /\ stage[cur] = "parsed"
       /\ pushed <= ChunksOf[cur[1]]
       /\ \A j \in 1 .. pushed : Row(cur, content[cur], j) \in rows \cup batch
  /\ \A n \in 1 .. Len(metas) : Durable(metas[n][1], metas[n][2], rows \cup batch)
  /\ phase \notin Streaming => metas = <<>>
  /\ phase \notin {"stream", "flush"} => batch = {}

(* Between the two deletes only the unaffected files keep their promise.   *)
KeptInv ==
  phase = "del_meta" =>
    \A f \in Files \ affected : meta[f] # Absent => Durable(f, meta[f], rows)

IInv == TypeOK /\ FeedInv /\ WriterInv /\ KeptInv /\ CommitMarker

-----------------------------------------------------------------------------
LEMMA RowTyped ==
  ASSUME NEW i \in Items, NEW c \in Versions, NEW j \in 1 .. ChunksOf[i[1]]
  PROVE  Row(i, c, j) \in ChunkRows
<1>1. Row(i, c, j) \in RowsOf(i, c)
  BY DEF RowsOf
<1> QED
  BY <1>1 DEF ChunkRows

LEMMA ItemFile == \A i \in Items : i[1] \in Files /\ i[2] \in 1 .. MaxCopies
BY DEF Items

(* More rows never hurt.                                                   *)
LEMMA DurableGrows ==
  ASSUME NEW f, NEW v, NEW S, NEW T, S \subseteq T, Durable(f, v, S)
  PROVE  Durable(f, v, T)
BY DEF Durable

(* Deleting the rows of other files does not hurt either.                  *)
LEMMA DurableKept ==
  ASSUME NEW f \in Files, NEW v, NEW S, NEW A, f \notin A, Durable(f, v, S)
  PROVE  Durable(f, v, {w \in S : w[1] \notin A})
<1>1. PICK i \in Items, c \in 1 .. v :
        i[1] = f /\ RowsOf(i, c) \subseteq S /\ (AtomicParse => c = v)
  BY DEF Durable
<1>2. \A w \in RowsOf(i, c) : w[1] = f
  BY <1>1 DEF RowsOf, Row
<1> QED
  BY <1>1, <1>2 DEF Durable

-----------------------------------------------------------------------------
(* The end of a run resets its state.                                      *)
LEMMA EndRunTypes ==
  ASSUME TypeOK, EndRun, meta' \in [Files -> Versions]
  PROVE  TypeOK'
<1> USE DEF TypeOK, EndRun, tree
<1>1. cancelled' \in BOOLEAN /\ quiet' \in BOOLEAN
  BY Zenon
<1>2. stage' \in [Items -> {"done", "todo", "read", "parsed"}]
  OBVIOUS
<1>3. content' \in [Items -> Versions] /\ stamp' \in [Items -> Versions]
  BY DEF Versions, Absent
<1> QED
  BY <1>1, <1>2, <1>3 DEF Phases

LEMMA TypeStep == ASSUME TypeOK, [Next]_vars PROVE TypeOK'
<1> USE DEF TypeOK, Versions, Absent, Phases
<1> USE ItemFile
<1>1. ASSUME NEW f \in Files, Edit(f) PROVE TypeOK'
  <2>1. quiet' \in BOOLEAN
    BY <1>1, Zenon DEF Edit
  <2>2. edits' = edits + 1 /\ edits' \in 0 .. MaxEdits /\ edits \in Nat
    BY <1>1 DEF Edit
  <2>3. disk' \in [Files -> 0 .. MaxEdits] /\ \A g \in Files : disk'[g] <= edits'
    <3>1. CASE disk' = [disk EXCEPT ![f] = edits + 1]
      BY <2>2, <3>1
    <3>2. CASE disk' = [disk EXCEPT ![f] = 0]
      BY <2>2, <3>2
    <3> QED
      BY <1>1, <3>1, <3>2 DEF Edit
  <2> QED
    BY <1>1, <2>1, <2>2, <2>3 DEF Edit, db, plan, feed, writer
<1>2. CASE StartRebuild
  BY <1>2 DEF StartRebuild, Start, Once, tree, db, writer
<1>3. CASE StartScan
  BY <1>3 DEF StartScan, Start, Once, OnDisk, Known, tree, db, writer
<1>4. CASE StartExplicit
  <2>1. PICK copies \in [Files -> 0 .. MaxCopies], deleted \in SUBSET Files :
          Start("explicit", copies, deleted, deleted \cup {f \in Files : copies[f] > 0})
    BY <1>4 DEF StartExplicit
  <2> QED
    BY <2>1, SMTT(30) DEF Start, tree, db, writer
<1>5. CASE DeleteChunks
  BY <1>5 DEF DeleteChunks, Outcome, tree, plan, feed, writer
<1>6. CASE DeleteMeta
  <2>1. meta' \in [Files -> 0 .. MaxEdits]
    <3>1. [f \in Files |-> IF f \in affected THEN 0 ELSE meta[f]]
            \in [Files -> 0 .. MaxEdits]
      OBVIOUS
    <3> QED
      BY <1>6, <3>1 DEF DeleteMeta, Outcome
  <2> QED
    BY <1>6, <2>1 DEF DeleteMeta, tree, plan, feed, writer
<1>7. ASSUME NEW i \in Items, ReadFile(i) PROVE TypeOK'
  <2>1. stage' \in [Items -> {"done", "todo", "read", "parsed"}]
    BY <1>7 DEF ReadFile
  <2>2. content' \in [Items -> 0 .. MaxEdits]
    BY <1>7 DEF ReadFile
  <2> QED
    BY <1>7, <2>1, <2>2 DEF ReadFile, tree, db, plan, writer
<1>8. ASSUME NEW i \in Items, StatFile(i) PROVE TypeOK'
  <2>1. disk[i[1]] \in 0 .. MaxEdits
    OBVIOUS
  <2>2. UNCHANGED <<tree, db, phase, plan, writer, cancelled, quiet>>
    BY <1>8 DEF StatFile
  <2>3. /\ stage' \in [Items -> {"done", "todo", "read", "parsed"}]
        /\ content' \in [Items -> 0 .. MaxEdits]
        /\ stamp' \in [Items -> 0 .. MaxEdits]
    <3>1. CASE disk[i[1]] = 0
      <4>1. Forget(i)
        BY <1>8, <3>1, Zenon DEF StatFile
      <4> QED
        BY <4>1 DEF Forget
    <3>2. CASE disk[i[1]] # 0
      <4>1. /\ stage' = [stage EXCEPT ![i] = "parsed"]
            /\ stamp' = [stamp EXCEPT ![i] = disk[i[1]]]
            /\ UNCHANGED content
        BY <1>8, <3>2, Zenon DEF StatFile
      <4> QED
        BY <2>1, <4>1
    <3> QED
      BY <3>1, <3>2
  <2> QED
    BY <2>2, <2>3 DEF tree, db, plan, writer
<1>9. ASSUME NEW i \in Items, DropFile(i) PROVE TypeOK'
  BY <1>9 DEF DropFile, Forget, tree, db, plan, writer
<1>10. ASSUME NEW i \in Items, TakeFile(i) PROVE TypeOK'
  BY <1>10 DEF TakeFile, tree, db, plan, feed
<1>11. CASE PushChunk
  <2>1. cur \in Items /\ ChunksOf[cur[1]] \in Nat /\ content[cur] \in Versions
    BY <1>11 DEF PushChunk, Items
  <2>2. Row(cur, content[cur], pushed + 1) \in ChunkRows
    BY <1>11, <2>1, RowTyped DEF PushChunk
  <2> QED
    BY <1>11, <2>2, SMTT(30) DEF PushChunk, tree, db, plan, feed
<1>12. CASE DeferMeta
  <2>1. cur \in Items /\ <<cur[1], stamp[cur]>> \in Files \X (0 .. MaxEdits)
    BY <1>12 DEF DeferMeta
  <2>2. metas' \in Seq(Files \X (0 .. MaxEdits))
    BY <1>12, <2>1 DEF DeferMeta
  <2> QED
    BY <1>12, <2>2, SMTT(30) DEF DeferMeta, Forget, tree, db, plan
<1>13. CASE CloseStream
  BY <1>13 DEF CloseStream, tree, db, plan, feed, writer
<1>14. CASE FlushBatch
  BY <1>14 DEF FlushBatch, Outcome, tree, plan, feed
<1>15. CASE CommitMeta
  <2>1. Head(metas) \in Files \X (0 .. MaxEdits) /\ metas' \in Seq(Files \X (0 .. MaxEdits))
    BY <1>15, SMTT(30) DEF CommitMeta
  <2>2. [meta EXCEPT ![Head(metas)[1]] = Head(metas)[2]] \in [Files -> 0 .. MaxEdits]
    BY <2>1
  <2>3. meta' \in [Files -> 0 .. MaxEdits]
    BY <1>15, <2>2 DEF CommitMeta, Outcome
  <2> QED
    BY <1>15, <2>1, <2>3 DEF CommitMeta, tree, plan, feed
<1>16. CASE EndFlush
  BY <1>16 DEF EndFlush, tree, db, plan, feed, writer
<1>17. CASE Finish
  <2>1. [f \in Files |-> IF f \in gone THEN 0 ELSE meta[f]]
          \in [Files -> 0 .. MaxEdits]
    OBVIOUS
  <2> QED
    BY <1>17, <2>1, EndRunTypes DEF Finish, Outcome
<1>18. CASE Bail
  BY <1>18, EndRunTypes DEF Bail
<1>19. CASE Cancel
  BY <1>19 DEF Cancel, tree, db, plan, feed, writer
<1>20. CASE Abort
  BY <1>20, EndRunTypes DEF Abort
<1>21. CASE UNCHANGED vars
  BY <1>21 DEF vars, tree, db, plan, feed, writer
<1> QED
  BY <1>1, <1>2, <1>3, <1>4, <1>5, <1>6, <1>7, <1>8, <1>9, <1>10, <1>11,
     <1>12, <1>13, <1>14, <1>15, <1>16, <1>17, <1>18, <1>19, <1>20, <1>21
     DEF Next, Begin, Work

LEMMA FeedStep == ASSUME TypeOK, FeedInv, [Next]_vars PROVE FeedInv'
<1> USE ItemFile DEF TypeOK, FeedInv, Versions, Absent
<1>1. ASSUME NEW f \in Files, Edit(f) PROVE FeedInv'
  <2>1. edits' = edits + 1 /\ edits \in Nat /\ UNCHANGED <<stage, content, stamp>>
    BY <1>1 DEF Edit, feed
  <2>2. disk \in [Files -> Nat] /\ content \in [Items -> Nat] /\ stamp \in [Items -> Nat]
    OBVIOUS
  <2>3. \A g \in Files \ {f} : disk'[g] = disk[g]
    BY <1>1 DEF Edit
  <2>4. disk'[f] \in {edits + 1, 0}
    BY <1>1 DEF Edit
  <2>5. AtomicParse => \A i \in Items : stage[i] = "read" => i[1] # f
    BY <1>1 DEF Edit, BeingParsed
  <2> SUFFICES ASSUME NEW i \in Items, stage[i] = "read"
               PROVE  /\ content[i] \in 1 .. edits'
                      /\ disk'[i[1]] # 0 => content[i] <= disk'[i[1]]
                      /\ AtomicParse => disk'[i[1]] = content[i]
    BY <2>1
  <2>6. content[i] \in 1 .. edits /\ content[i] \in Nat
    BY <2>2
  <2>7. CASE i[1] = f
    <3>1. ~AtomicParse
      BY <2>5, <2>7
    <3>2. disk'[i[1]] \in {edits + 1, 0}
      BY <2>4, <2>7
    <3>3. content[i] \in 1 .. edits + 1 /\ content[i] <= edits + 1
      BY <2>1, <2>6
    <3> QED
      BY <2>1, <3>1, <3>2, <3>3
  <2>8. CASE i[1] # f
    <3>1. disk'[i[1]] = disk[i[1]]
      BY <2>3, <2>8, ItemFile
    <3>2. /\ disk[i[1]] # Absent => content[i] <= disk[i[1]]
          /\ AtomicParse => disk[i[1]] = content[i]
      OBVIOUS
    <3>3. content[i] \in 1 .. edits + 1
      BY <2>1, <2>6
    <3> QED
      BY <2>1, <3>1, <3>2, <3>3
  <2> QED
    BY <2>7, <2>8
<1>2. ASSUME NEW k, NEW copies, NEW deleted, NEW cleared,
             Start(k, copies, deleted, cleared)
      PROVE  FeedInv'
  BY <1>2 DEF Start, tree
<1>3. ASSUME NEW i \in Items, ReadFile(i) PROVE FeedInv'
  <2>1. UNCHANGED <<disk, edits, stamp>>
    BY <1>3 DEF ReadFile, tree
  <2>2. disk[i[1]] \in Nat /\ disk[i[1]] <= edits
    OBVIOUS
  <2>3. CASE disk[i[1]] = 0
    BY <1>3, <2>1, <2>3 DEF ReadFile
  <2>4. CASE disk[i[1]] # 0
    <3>1. /\ stage' = [stage EXCEPT ![i] = "read"]
          /\ content' = [content EXCEPT ![i] = disk[i[1]]]
      BY <1>3, <2>4, Zenon DEF ReadFile
    <3>2. disk[i[1]] \in 1 .. edits
      BY <2>2, <2>4
    <3> QED
      BY <2>1, <3>1, <3>2
  <2> QED
    BY <2>3, <2>4
<1>4. ASSUME NEW i \in Items, StatFile(i) PROVE FeedInv'
  <2>1. UNCHANGED <<disk, edits>>
    BY <1>4 DEF StatFile, tree
  <2>2. disk[i[1]] \in Nat /\ content[i] \in Nat
    OBVIOUS
  <2>3. CASE disk[i[1]] = 0
    BY <1>4, <2>1, <2>3, SMTT(30) DEF StatFile, Forget
  <2>4. CASE disk[i[1]] # 0
    BY <1>4, <2>1, <2>2, <2>4 DEF StatFile
  <2> QED
    BY <2>3, <2>4
<1>5. ASSUME NEW i \in Items, DropFile(i) PROVE FeedInv'
  BY <1>5 DEF DropFile, Forget, tree
<1>6. CASE DeferMeta
  BY <1>6 DEF DeferMeta, Forget, tree
<1>7. CASE EndRun
  BY <1>7 DEF EndRun, tree
<1>8. CASE UNCHANGED <<tree, feed>>
  BY <1>8 DEF tree, feed
<1> QED
  BY <1>1, <1>2, <1>3, <1>4, <1>5, <1>6, <1>7, <1>8
     DEF Next, vars, Begin, Work, StartRebuild, StartScan, StartExplicit,
         DeleteChunks, DeleteMeta, TakeFile, PushChunk, CloseStream,
         FlushBatch, CommitMeta, EndFlush, Finish, Bail, Cancel, Abort

-----------------------------------------------------------------------------
(* All chunks of a content written make it durable.                        *)
LEMMA WrittenDurable ==
  ASSUME NEW i \in Items, NEW v, NEW c \in 1 .. v, NEW S,
         AtomicParse => c = v,
         \A j \in 1 .. ChunksOf[i[1]] : Row(i, c, j) \in S
  PROVE  Durable(i[1], v, S)
BY DEF Durable, RowsOf

(* Steps that leave the writer and the table alone.                        *)
LEMMA WriterKept ==
  ASSUME WriterInv, UNCHANGED <<cur, pushed, batch, metas, rows>>,
         cur # NoItem => /\ stage'[cur] = "parsed"
                         /\ content'[cur] = content[cur]
                         /\ phase' \in Streaming,
         metas = <<>> \/ phase' \in Streaming,
         batch = {} \/ phase' \in {"stream", "flush"}
  PROVE  WriterInv'
BY DEF WriterInv, Durable

LEMMA WriterStep ==
  ASSUME TypeOK, FeedInv, WriterInv, ~SwallowedErrors, [Next]_vars
  PROVE  WriterInv'
<1> USE DEF Streaming
<1>1. ASSUME NEW f \in Files, Edit(f) PROVE WriterInv'
  BY <1>1, WriterKept DEF Edit, WriterInv, db, feed, writer
<1>2. ASSUME NEW k, NEW copies, NEW deleted, NEW cleared,
             Start(k, copies, deleted, cleared)
      PROVE  WriterInv'
  BY <1>2, WriterKept DEF Start, WriterInv, db, writer
<1>3. CASE DeleteChunks
  BY <1>3 DEF DeleteChunks, WriterInv, writer
<1>4. CASE DeleteMeta
  BY <1>4, WriterKept DEF DeleteMeta, WriterInv, feed, writer
<1>5. ASSUME NEW i \in Items, ReadFile(i) PROVE WriterInv'
  <2>1. i # cur
    BY <1>5 DEF ReadFile, WriterInv
  <2>2. cur # NoItem => stage'[cur] = stage[cur] /\ content'[cur] = content[cur]
    BY <1>5, <2>1 DEF ReadFile, TypeOK
  <2> QED
    BY <1>5, <2>2, WriterKept DEF ReadFile, WriterInv, db, writer
<1>6. ASSUME NEW i \in Items, StatFile(i) PROVE WriterInv'
  <2>1. i # cur
    BY <1>6 DEF StatFile, WriterInv
  <2>2. cur # NoItem => stage'[cur] = stage[cur] /\ content'[cur] = content[cur]
    <3>1. CASE Forget(i)
      BY <2>1, <3>1 DEF Forget, TypeOK
    <3>2. CASE stage' = [stage EXCEPT ![i] = "parsed"] /\ UNCHANGED content
      BY <2>1, <3>2 DEF TypeOK
    <3> QED
      BY <1>6, <3>1, <3>2, Zenon DEF StatFile
  <2> QED
    BY <1>6, <2>2, WriterKept DEF StatFile, WriterInv, db, writer
<1>7. ASSUME NEW i \in Items, DropFile(i) PROVE WriterInv'
  <2>1. cur # NoItem => stage'[cur] = stage[cur] /\ content'[cur] = content[cur]
    BY <1>7 DEF DropFile, Forget, TypeOK
  <2> QED
    BY <1>7, <2>1, WriterKept DEF DropFile, WriterInv, db, writer
<1>8. ASSUME NEW i \in Items, TakeFile(i) PROVE WriterInv'
  <2>1. 0 <= ChunksOf[i[1]]
    BY ItemFile
  <2> QED
    BY <1>8, <2>1 DEF TakeFile, WriterInv, Durable, db, feed
<1>9. CASE PushChunk
  <2>1. ChunksOf[cur[1]] \in Nat /\ pushed \in Nat /\ cur \in Items
    BY <1>9, ItemFile DEF PushChunk, TypeOK
  <2>2. /\ phase' \in {"stream", "flush"}
        /\ pushed' = pushed + 1 /\ pushed < ChunksOf[cur[1]]
        /\ batch' = batch \cup {Row(cur, content[cur], pushed + 1)}
        /\ UNCHANGED <<rows, stage, content, cur, metas>>
    BY <1>9 DEF PushChunk, db, feed
  <2>3. \A n \in 1 .. Len(metas) :
          Durable(metas[n][1], metas[n][2], rows \cup batch')
    BY <2>2, DurableGrows DEF WriterInv
  <2>4. \A j \in 1 .. pushed + 1 : Row(cur, content[cur], j) \in rows \cup batch'
    BY <1>9, <2>1, <2>2 DEF PushChunk, WriterInv
  <2>5. phase \in Streaming /\ phase' \in Streaming /\ stage[cur] = "parsed"
    BY <1>9, <2>2 DEF PushChunk, WriterInv
  <2>6. pushed + 1 <= ChunksOf[cur[1]]
    BY <2>1, <2>2
  <2>7. /\ phase' \in {"stream", "flush"} /\ stage'[cur'] = "parsed"
        /\ pushed' <= ChunksOf[cur'[1]]
        /\ \A j \in 1 .. pushed' : Row(cur', content'[cur'], j) \in rows' \cup batch'
    BY <2>2, <2>4, <2>5, <2>6
  <2>8. \A n \in 1 .. Len(metas') :
          Durable(metas'[n][1], metas'[n][2], rows' \cup batch')
    BY <2>2, <2>3
  <2> QED
    BY <2>5, <2>7, <2>8 DEF WriterInv
<1>10. CASE DeferMeta
  <2>1. cur \in Items /\ cur[1] \in Files /\ stamp[cur] \in Versions
    BY <1>10, ItemFile DEF DeferMeta, TypeOK
  <2>2. Durable(cur[1], stamp[cur], rows \cup batch)
    BY <1>10, <2>1, WrittenDurable DEF DeferMeta, WriterInv, FeedInv
  <2>3. /\ metas' = Append(metas, <<cur[1], stamp[cur]>>)
        /\ metas \in Seq(Files \X Versions)
        /\ cur' = NoItem /\ phase' = "stream" /\ UNCHANGED <<rows, batch>>
    BY <1>10 DEF DeferMeta, TypeOK, db
  <2>4. ASSUME NEW n \in 1 .. Len(metas')
        PROVE  Durable(metas'[n][1], metas'[n][2], rows \cup batch)
    <3>1. CASE n = Len(metas) + 1
      BY <2>1, <2>2, <2>3, <3>1
    <3>2. CASE n \in 1 .. Len(metas)
      <4>1. metas'[n] = metas[n]
        BY <2>1, <2>3, <3>2
      <4> QED
        BY <3>2, <4>1 DEF WriterInv
    <3> QED
      BY <2>1, <2>3, <3>1, <3>2
  <2> QED
    BY <2>3, <2>4 DEF WriterInv
<1>11. CASE CloseStream
  BY <1>11, WriterKept DEF CloseStream, WriterInv, db, feed, writer
<1>12. CASE FlushBatch
  <2>1. rows' \cup batch' = rows \cup batch
    BY <1>12 DEF FlushBatch, Outcome
  <2> QED
    BY <1>12, <2>1 DEF FlushBatch, WriterInv, feed
<1>13. CASE CommitMeta
  <2>1. metas \in Seq(Files \X Versions) /\ metas # <<>> /\ metas' = Tail(metas)
    BY <1>13 DEF CommitMeta, TypeOK
  <2>2. \A n \in 1 .. Len(metas') : metas'[n] = metas[n + 1] /\ n + 1 \in 1 .. Len(metas)
    BY <2>1
  <2> QED
    BY <1>13, <2>2 DEF CommitMeta, WriterInv, feed
<1>14. CASE EndFlush
  BY <1>14, WriterKept DEF EndFlush, WriterInv, db, feed, writer
<1>15. CASE EndRun
  BY <1>15 DEF EndRun, WriterInv
<1>16. CASE UNCHANGED <<db, phase, feed, writer>>
  BY <1>16, WriterKept DEF WriterInv, db, feed, writer
<1> QED
  BY <1>1, <1>2, <1>3, <1>4, <1>5, <1>6, <1>7, <1>8, <1>9, <1>10, <1>11,
     <1>12, <1>13, <1>14, <1>15, <1>16
     DEF Next, vars, Begin, Work, StartRebuild, StartScan, StartExplicit,
         Finish, Bail, Cancel, Abort

-----------------------------------------------------------------------------
(* Steps that leave the datastore alone and touch neither delete.          *)
LEMMA MarkerKept ==
  ASSUME CommitMarker, UNCHANGED db, phase # "del_meta", phase' # "del_meta"
  PROVE  CommitMarker' /\ KeptInv'
BY DEF CommitMarker, KeptInv, Durable, db

LEMMA MarkerStep ==
  ASSUME IInv, "del_meta" \notin AbortPhases, ~SwallowedErrors, [Next]_vars
  PROVE  CommitMarker' /\ KeptInv'
<1> USE DEF IInv
<1>1. CASE UNCHANGED <<db, phase, affected>>
  BY <1>1 DEF CommitMarker, KeptInv, Durable, db
<1>2. CASE DeleteChunks
  <2>1. ASSUME NEW f \in Files \ affected, meta[f] # Absent
        PROVE  Durable(f, meta[f], rows')
    <3>1. Durable(f, meta[f], rows)
      BY <1>2, <2>1 DEF DeleteChunks, CommitMarker
    <3>2. rows' = {w \in rows : w[1] \notin affected}
      BY <1>2 DEF DeleteChunks, Outcome
    <3> QED
      BY <3>1, <3>2, DurableKept
  <2> QED
    BY <1>2, <2>1 DEF DeleteChunks, CommitMarker, KeptInv, plan
<1>3. CASE DeleteMeta
  <2>1. /\ phase = "del_meta" /\ phase' = "stream" /\ rows' = rows
        /\ meta' = [f \in Files |-> IF f \in affected THEN Absent ELSE meta[f]]
    BY <1>3 DEF DeleteMeta, Outcome
  <2>2. ASSUME NEW f \in Files, meta'[f] # Absent
        PROVE  Durable(f, meta'[f], rows)
    BY <2>1, <2>2 DEF KeptInv
  <2> QED
    BY <2>1, <2>2 DEF CommitMarker, KeptInv
<1>4. CASE FlushBatch
  <2>1. phase = "flush" /\ phase' = "metas" /\ rows' = rows \cup batch /\ meta' = meta
    BY <1>4 DEF FlushBatch, Outcome
  <2> QED
    BY <2>1, DurableGrows DEF CommitMarker, KeptInv
<1>5. CASE CommitMeta
  <2>1. /\ metas \in Seq(Files \X Versions) /\ metas # <<>> /\ phase = "metas"
        /\ meta' = [meta EXCEPT ![Head(metas)[1]] = Head(metas)[2]]
        /\ UNCHANGED <<rows, phase>>
    BY <1>5 DEF CommitMeta, Outcome, TypeOK
  <2>2. Durable(Head(metas)[1], Head(metas)[2], rows)
    <3>1. batch = {}
      BY <2>1 DEF WriterInv
    <3>2. 1 \in 1 .. Len(metas) /\ Head(metas) = metas[1]
      BY <2>1
    <3>3. Durable(metas[1][1], metas[1][2], rows \cup batch)
      BY <3>2 DEF WriterInv
    <3> QED
      BY <3>1, <3>2, <3>3, DurableGrows
  <2>3. ASSUME NEW f \in Files, meta'[f] # Absent
        PROVE  Durable(f, meta'[f], rows)
    BY <2>1, <2>2, <2>3 DEF CommitMarker, TypeOK
  <2> QED
    BY <2>1, <2>3 DEF CommitMarker, KeptInv
<1>6. CASE Finish
  <2>1. /\ phase = "finish" /\ phase' = "idle" /\ rows' = rows
        /\ meta' = [f \in Files |-> IF f \in gone THEN Absent ELSE meta[f]]
    BY <1>6 DEF Finish, Outcome, EndRun
  <2> QED
    BY <2>1 DEF CommitMarker, KeptInv
<1>7. CASE Bail \/ Abort
  BY <1>7, MarkerKept DEF Bail, Abort, EndRun, db
<1>8. ASSUME UNCHANGED db, phase # "del_meta", phase' # "del_meta"
      PROVE  CommitMarker' /\ KeptInv'
  BY <1>8, MarkerKept
<1>9. CASE Begin
  BY <1>9, MarkerKept
     DEF Begin, StartRebuild, StartScan, StartExplicit, Start
<1>10. CASE PushChunk \/ CloseStream \/ EndFlush
  BY <1>10, MarkerKept DEF PushChunk, CloseStream, EndFlush
<1> QED
  BY <1>1, <1>2, <1>3, <1>4, <1>5, <1>6, <1>7, <1>9, <1>10
     DEF Next, Work, vars, Edit, ReadFile, StatFile, DropFile, TakeFile,
         DeferMeta, Cancel, plan

-----------------------------------------------------------------------------
LEMMA InitTypes == ASSUME Init PROVE TypeOK
<1>1. disk \in [Files -> {0, 1}] /\ edits = 1 /\ AtRest /\ rows = {}
  BY DEF Init
<1>2. meta = [f \in Files |-> 0]
  BY DEF Init, Absent
<1>3. edits \in Versions /\ disk \in [Files -> Versions] /\ \A f \in Files : disk[f] <= edits
  BY <1>1 DEF Versions
<1>4. cancelled \in BOOLEAN /\ quiet \in BOOLEAN
  BY <1>1, Zenon DEF AtRest
<1> QED
  BY <1>1, <1>2, <1>3, <1>4 DEF TypeOK, AtRest, Versions, Absent, Phases

(* Every state of every run is well typed, whatever fails or is            *)
(* interrupted, and whether or not an edit falls between a read and its    *)
(* stat.                                                                   *)
THEOREM PipelineTypes == Spec => []TypeOK
<1>1. Init => TypeOK
  BY InitTypes
<1>2. TypeOK /\ [Next]_vars => TypeOK'
  BY TypeStep
<1> QED
  BY <1>1, <1>2, PTL DEF Spec

LEMMA InitInv == ASSUME Init PROVE IInv
<1>1. TypeOK
  BY InitTypes
<1>2. FeedInv
  BY DEF Init, AtRest, FeedInv
<1>3. WriterInv
  BY DEF Init, AtRest, WriterInv, Streaming
<1>4. CommitMarker /\ KeptInv
  BY DEF Init, AtRest, CommitMarker, KeptInv
<1> QED
  BY <1>1, <1>2, <1>3, <1>4 DEF IInv

(* file_meta is the commit marker (README.md, full_rebuild): for any files,*)
(* chunk counts, batch size, edits, cancellations and crashes, a file with *)
(* a file_meta has all its chunks in the datastore.  Two assumptions:      *)
(* nothing stops a run between the deletion of the chunks and that of the  *)
(* file_meta, and no statement of the writer fails unseen.                 *)
THEOREM PipelineCommitMarker ==
  ASSUME "del_meta" \notin AbortPhases, ~SwallowedErrors
  PROVE  Spec => []CommitMarker
<1>1. Init => IInv
  BY InitInv
<1>2. IInv /\ [Next]_vars => IInv'
  BY TypeStep, FeedStep, WriterStep, MarkerStep DEF IInv
<1>3. IInv => CommitMarker
  BY DEF IInv
<1> QED
  BY <1>1, <1>2, <1>3, PTL DEF Spec

-----------------------------------------------------------------------------
(* Runs that nothing disturbs.                                             *)

Undisturbed == phase # "idle" /\ kind # "explicit" /\ quiet /\ ~cancelled
Ending == phase = "finish" \/ (phase \in {"flush", "metas"} /\ cur = NoItem)

(* What the run knows is true of the working tree: files it leaves alone   *)
(* have their stamp, deleted ones are gone, and an item under way is the   *)
(* only one of an affected file, read and stated as the file is.           *)
PlanInv ==
  Undisturbed =>
    /\ gone \cap OnDisk = {}
    /\ \A f \in Files \ affected : meta[f] = disk[f]
    /\ kind = "rebuild" => affected = Files
    /\ \A i \in Items : stage[i] # "done" => i[1] \in affected \cap OnDisk /\ i[2] = 1
    /\ \A i \in Items : stage[i] \in {"read", "parsed"} => content[i] = disk[i[1]]
    /\ \A i \in Items : stage[i] = "parsed" => stamp[i] = disk[i[1]]

(* A deferred stamp is that of the working tree.                           *)
Deferred(f) == \E n \in 1 .. Len(metas) : metas[n][1] = f
DeferredInv ==
  Undisturbed =>
    \A n \in 1 .. Len(metas) :
      metas[n][1] \in affected \cap OnDisk /\ metas[n][2] = disk[metas[n][1]]

(* An affected file is under way until its stamp is deferred, and its      *)
(* stamp is deferred until it is committed.                                *)
DebtInv ==
  Undisturbed =>
    /\ phase \in {"del_chunks", "del_meta"} =>
         \A f \in affected \cap OnDisk : stage[<<f, 1>>] = "todo"
    /\ phase \in Streaming \cup {"finish"} =>
         \A f \in affected :
           \/ meta[f] = disk[f]
           \/ f \in OnDisk /\ stage[<<f, 1>>] # "done"
           \/ Deferred(f)

(* Past the tail nothing is under way.                                     *)
EndInv == Ending => \A i \in Items : stage[i] = "done"

(* The chunks a rebuild is to leave.                                       *)
Fresh == UNION {RowsOf(<<f, 1>>, disk[f]) : f \in OnDisk}

ExactInv ==
  Undisturbed /\ kind = "rebuild" /\ phase # "del_chunks" => rows \cup batch \subseteq Fresh

-----------------------------------------------------------------------------
LEMMA FirstItem == \A f \in Files : <<f, 1>> \in Items
BY DEF Items

(* An edit disturbs the run, a cancellation too, and there is none after   *)
(* the end.                                                                *)
LEMMA Disturbs ==
  ASSUME \/ \E f \in Files : Edit(f)
         \/ Cancel \/ EndRun
  PROVE  ~Undisturbed'
BY DEF Undisturbed, Edit, Cancel, EndRun

LEMMA StaysUndisturbed ==
  ASSUME Undisturbed', UNCHANGED <<kind, quiet, cancelled>>, phase # "idle"
  PROVE  Undisturbed
BY DEF Undisturbed

(* A start, undisturbed: what it plans is true of the working tree.        *)
LEMMA ScanPlan ==
  ASSUME TypeOK, StartScan
  PROVE  PlanInv' /\ (Undisturbed' => \A f \in (affected \cap OnDisk)' : stage'[<<f, 1>>] = "todo")
<1> DEFINE stale == {f \in OnDisk : meta[f] # disk[f]}
           missing == Known \ OnDisk
<1>1. Start("scan", Once(stale), missing, stale \cup missing)
  BY DEF StartScan
<1>2. /\ gone' = missing /\ affected' = stale \cup missing /\ UNCHANGED <<disk, meta>>
      /\ stage' = [i \in Items |-> IF i[2] <= Once(stale)[i[1]] THEN "todo" ELSE "done"]
      /\ OnDisk' = OnDisk /\ kind' = "scan"
  BY <1>1 DEF Start, tree, db, OnDisk
<1>3. ASSUME NEW f \in Files, f \notin affected' PROVE meta[f] = disk[f]
  BY <1>2, <1>3 DEF OnDisk, Known, Absent
<1>4. ASSUME NEW i \in Items PROVE stage'[i] = IF i[1] \in stale /\ i[2] = 1 THEN "todo" ELSE "done"
  BY <1>2, ItemFile, <1>4 DEF Once
<1>5. ASSUME NEW f \in affected' \cap OnDisk PROVE stage'[<<f, 1>>] = "todo"
  BY <1>2, <1>4, FirstItem DEF OnDisk
<1> HIDE DEF stale, missing
<1>6. stale \subseteq OnDisk /\ missing \cap OnDisk = {}
  BY DEF stale, missing
<1> QED
  BY <1>2, <1>3, <1>4, <1>5, <1>6 DEF PlanInv

LEMMA RebuildPlan ==
  ASSUME TypeOK, StartRebuild
  PROVE  PlanInv' /\ (Undisturbed' => \A f \in (affected \cap OnDisk)' : stage'[<<f, 1>>] = "todo")
<1>2. /\ gone' = {} /\ affected' = Files /\ UNCHANGED <<disk, meta>>
      /\ stage' = [i \in Items |-> IF i[2] <= Once(OnDisk)[i[1]] THEN "todo" ELSE "done"]
      /\ OnDisk' = OnDisk /\ kind' = "rebuild"
  BY DEF StartRebuild, Start, tree, db, OnDisk
<1>4. ASSUME NEW i \in Items PROVE stage'[i] = IF i[1] \in OnDisk /\ i[2] = 1 THEN "todo" ELSE "done"
  BY <1>2, ItemFile, <1>4 DEF Once
<1>5. ASSUME NEW f \in OnDisk PROVE stage'[<<f, 1>>] = "todo"
  BY <1>2, <1>4, FirstItem DEF OnDisk
<1>6. \A i \in Items : i[1] \in Files
  BY ItemFile
<1> QED
  BY <1>2, <1>4, <1>5, <1>6 DEF PlanInv

(* Steps that leave the plan, the tree and the stages alone.               *)
LEMMA PlanKept ==
  ASSUME PlanInv, Undisturbed' => Undisturbed,
         UNCHANGED <<disk, plan, feed>>,
         Undisturbed => \A f \in Files \ affected : meta'[f] = meta[f]
  PROVE  PlanInv'
BY DEF PlanInv, plan, feed, OnDisk

LEMMA PlanStep ==
  ASSUME TypeOK, PlanInv, DeferredInv, ~SwallowedErrors, [Next]_vars
  PROVE  PlanInv'
<1>1. CASE (\E f \in Files : Edit(f)) \/ Cancel \/ EndRun
  BY <1>1, Disturbs DEF PlanInv
<1>2. CASE StartRebuild \/ StartScan
  BY <1>2, ScanPlan, RebuildPlan
<1>3. CASE StartExplicit
  BY <1>3 DEF StartExplicit, Start, PlanInv, Undisturbed
<1>4. CASE DeleteChunks
  BY <1>4, PlanKept DEF DeleteChunks, tree, plan, Undisturbed
<1>5. CASE DeleteMeta
  <2>1. UNCHANGED <<disk, plan, feed, kind, quiet, cancelled>> /\ phase # "idle"
    BY <1>5 DEF DeleteMeta, tree, plan
  <2>2. \A f \in Files \ affected : meta'[f] = meta[f]
    BY <1>5 DEF DeleteMeta, Outcome
  <2> QED
    BY <2>1, <2>2, PlanKept, StaysUndisturbed
<1>6. ASSUME NEW i \in Items, ReadFile(i) PROVE PlanInv'
  <2> SUFFICES ASSUME Undisturbed' PROVE PlanInv'
    BY DEF PlanInv
  <2>1. Undisturbed /\ UNCHANGED <<disk, plan, meta, stamp, OnDisk>> /\ stage[i] = "todo"
    BY <1>6 DEF ReadFile, tree, plan, db, Undisturbed, OnDisk
  <2>2. /\ \A j \in Items \ {i} : stage'[j] = stage[j] /\ content'[j] = content[j]
        /\ stage'[i] = "done" \/ (stage'[i] = "read" /\ content'[i] = disk[i[1]])
    BY <1>6 DEF ReadFile, TypeOK
  <2>3. i[1] \in affected \cap OnDisk /\ i[2] = 1
    BY <2>1 DEF PlanInv
  <2> QED
    BY <2>1, <2>2, <2>3 DEF PlanInv, plan
<1>7. ASSUME NEW i \in Items, StatFile(i) PROVE PlanInv'
  <2> SUFFICES ASSUME Undisturbed', Undisturbed PROVE PlanInv'
    BY <1>7 DEF PlanInv, StatFile, plan, Undisturbed
  <2>1. UNCHANGED <<disk, plan, meta, OnDisk>> /\ stage[i] = "read"
    BY <1>7 DEF StatFile, tree, plan, db, OnDisk
  <2>2. /\ \A j \in Items \ {i} : /\ stage'[j] = stage[j] /\ content'[j] = content[j]
                                  /\ stamp'[j] = stamp[j]
        /\ \/ stage'[i] = "done"
           \/ stage'[i] = "parsed" /\ content'[i] = content[i] /\ stamp'[i] = disk[i[1]]
    <3>1. CASE disk[i[1]] = Absent
      BY <1>7, <3>1 DEF StatFile, Forget, TypeOK
    <3>2. CASE disk[i[1]] # Absent
      BY <1>7, <3>2 DEF StatFile, TypeOK
    <3> QED
      BY <3>1, <3>2
  <2>3. i[1] \in affected \cap OnDisk /\ i[2] = 1 /\ content[i] = disk[i[1]]
    BY <2>1 DEF PlanInv
  <2> QED
    BY <2>1, <2>2, <2>3 DEF PlanInv, plan
<1>8. ASSUME NEW i \in Items, DropFile(i) PROVE PlanInv'
  BY <1>8 DEF DropFile, PlanInv, Undisturbed
<1>9. ASSUME NEW i \in Items, TakeFile(i) PROVE PlanInv'
  BY <1>9, PlanKept DEF TakeFile, tree, plan, db, Undisturbed
<1>10. CASE PushChunk \/ CloseStream \/ FlushBatch \/ EndFlush
  <2>1. UNCHANGED <<disk, plan, feed, meta, kind, quiet, cancelled>> /\ phase # "idle"
    BY <1>10 DEF PushChunk, CloseStream, FlushBatch, EndFlush, tree, plan, db
  <2> QED
    BY <2>1, PlanKept, StaysUndisturbed
<1>11. CASE DeferMeta
  <2> SUFFICES ASSUME Undisturbed', Undisturbed PROVE PlanInv'
    BY <1>11 DEF PlanInv, DeferMeta, plan, Undisturbed
  <2>1. UNCHANGED <<disk, plan, meta, OnDisk>> /\ cur \in Items
    BY <1>11 DEF DeferMeta, tree, plan, db, OnDisk, TypeOK
  <2>2. /\ \A j \in Items \ {cur} : /\ stage'[j] = stage[j] /\ content'[j] = content[j]
                                    /\ stamp'[j] = stamp[j]
        /\ stage'[cur] = "done"
    BY <1>11, <2>1 DEF DeferMeta, Forget, TypeOK
  <2> QED
    BY <2>1, <2>2 DEF PlanInv, plan
<1>12. CASE CommitMeta
  <2>1. UNCHANGED <<disk, plan, feed, kind, quiet, cancelled>> /\ phase # "idle"
    BY <1>12 DEF CommitMeta, tree, plan
  <2>2. metas \in Seq(Files \X Versions) /\ metas # <<>> /\ Head(metas) = metas[1] /\ 1 \in 1 .. Len(metas)
    BY <1>12 DEF CommitMeta, TypeOK
  <2>3. \A f \in Files \ {metas[1][1]} : meta'[f] = meta[f]
    BY <1>12, <2>2 DEF CommitMeta, Outcome, TypeOK
  <2>4. Undisturbed => metas[1][1] \in affected
    BY <2>2 DEF DeferredInv
  <2> QED
    BY <2>1, <2>3, <2>4, PlanKept, StaysUndisturbed
<1>13. CASE UNCHANGED vars
  BY <1>13, PlanKept DEF vars, tree, db, plan, Undisturbed
<1> QED
  BY <1>1, <1>2, <1>3, <1>4, <1>5, <1>6, <1>7, <1>8, <1>9, <1>10, <1>11, <1>12, <1>13
     DEF Next, Begin, Work, Finish, Bail, Abort

(* Steps that leave the deferred stamps alone.                             *)
LEMMA DeferredKept ==
  ASSUME DeferredInv, Undisturbed' => Undisturbed, UNCHANGED <<disk, affected, metas>>
  PROVE  DeferredInv'
BY DEF DeferredInv, OnDisk

LEMMA DeferredStep ==
  ASSUME TypeOK, WriterInv, PlanInv, DeferredInv, [Next]_vars
  PROVE  DeferredInv'
<1>1. CASE (\E f \in Files : Edit(f)) \/ Cancel \/ EndRun
  BY <1>1, Disturbs DEF DeferredInv
<1>2. CASE Begin
  <2>1. metas' = <<>>
    BY <1>2 DEF Begin, StartRebuild, StartScan, StartExplicit, Start, writer, WriterInv,
                Streaming
  <2> QED
    BY <2>1 DEF DeferredInv
<1>3. CASE \/ DeleteChunks \/ DeleteMeta \/ PushChunk \/ CloseStream \/ FlushBatch \/ EndFlush
           \/ \E i \in Items : ReadFile(i) \/ StatFile(i) \/ DropFile(i) \/ TakeFile(i)
  <2>1. UNCHANGED <<disk, affected, metas, kind, quiet, cancelled>>
    BY <1>3 DEF DeleteChunks, DeleteMeta, PushChunk, CloseStream, FlushBatch, EndFlush,
                ReadFile, StatFile, DropFile, TakeFile, tree, plan, writer
  <2>2. Undisturbed' => Undisturbed
    BY <1>3, <2>1
       DEF Undisturbed, DeleteChunks, DeleteMeta, PushChunk, CloseStream, FlushBatch,
           EndFlush, ReadFile, StatFile, DropFile, TakeFile, Streaming
  <2> QED
    BY <2>1, <2>2, DeferredKept
<1>4. CASE DeferMeta
  <2> SUFFICES ASSUME Undisturbed', Undisturbed PROVE DeferredInv'
    BY <1>4 DEF DeferredInv, DeferMeta, plan, Undisturbed
  <2>1. UNCHANGED <<disk, affected, OnDisk>> /\ cur \in Items /\ stage[cur] = "parsed"
    BY <1>4 DEF DeferMeta, tree, plan, OnDisk, TypeOK, WriterInv
  <2>2. cur[1] \in affected \cap OnDisk /\ stamp[cur] = disk[cur[1]]
    BY <2>1 DEF PlanInv
  <2>3. metas \in Seq(Files \X Versions) /\ metas' = Append(metas, <<cur[1], stamp[cur]>>)
    BY <1>4 DEF DeferMeta, TypeOK
  <2>4. Len(metas') = Len(metas) + 1 /\ Len(metas) \in Nat
    BY <2>3
  <2>5. ASSUME NEW n \in 1 .. Len(metas')
        PROVE  metas'[n][1] \in affected \cap OnDisk /\ metas'[n][2] = disk[metas'[n][1]]
    <3>1. CASE n = Len(metas) + 1
      <4>1. metas'[n] = <<cur[1], stamp[cur]>>
        BY <2>3, <3>1
      <4> QED
        BY <2>2, <4>1
    <3>2. CASE n \in 1 .. Len(metas)
      <4>1. metas'[n] = metas[n]
        BY <2>3, <3>2
      <4> QED
        BY <3>2, <4>1 DEF DeferredInv
    <3> QED
      BY <2>4, <3>1, <3>2
  <2> QED
    BY <2>1, <2>5 DEF DeferredInv
<1>5. CASE CommitMeta
  <2>1. UNCHANGED <<disk, affected, OnDisk, kind, quiet, cancelled>> /\ phase # "idle"
    BY <1>5 DEF CommitMeta, tree, plan, OnDisk
  <2>2. metas \in Seq(Files \X Versions) /\ metas # <<>> /\ metas' = Tail(metas)
    BY <1>5 DEF CommitMeta, TypeOK
  <2>3. \A n \in 1 .. Len(metas') : metas'[n] = metas[n + 1] /\ n + 1 \in 1 .. Len(metas)
    BY <2>2
  <2> QED
    BY <2>1, <2>3, StaysUndisturbed DEF DeferredInv
<1>6. CASE UNCHANGED vars
  BY <1>6, DeferredKept DEF vars, tree, plan, writer, Undisturbed
<1> QED
  BY <1>1, <1>2, <1>3, <1>4, <1>5, <1>6 DEF Next, Work, Finish, Bail, Abort

(* Steps of stage 3 that leave stamps and stages alone.                    *)
LEMMA DebtKept ==
  ASSUME DebtInv, Undisturbed' => Undisturbed,
         UNCHANGED <<disk, meta, affected, stage, metas>>,
         phase \in Streaming, phase' \in Streaming \cup {"finish"}
  PROVE  DebtInv'
BY DEF DebtInv, OnDisk, Deferred, Streaming

LEMMA DebtStep ==
  ASSUME TypeOK, WriterInv, PlanInv, DeferredInv, DebtInv, ~SwallowedErrors, [Next]_vars
  PROVE  DebtInv'
<1>1. CASE (\E f \in Files : Edit(f)) \/ Cancel \/ EndRun
  BY <1>1, Disturbs DEF DebtInv
<1>2. CASE StartRebuild \/ StartScan
  <2>1. phase' = "del_chunks"
    BY <1>2 DEF StartRebuild, StartScan, Start
  <2>2. Undisturbed' => \A f \in (affected \cap OnDisk)' : stage'[<<f, 1>>] = "todo"
    BY <1>2, ScanPlan, RebuildPlan
  <2> QED
    BY <2>1, <2>2 DEF DebtInv, Streaming
<1>3. CASE StartExplicit
  BY <1>3 DEF StartExplicit, Start, DebtInv, Undisturbed
<1>4. CASE DeleteChunks
  BY <1>4 DEF DeleteChunks, DebtInv, tree, plan, feed, OnDisk, Undisturbed, Streaming
<1>5. CASE DeleteMeta
  <2> SUFFICES ASSUME Undisturbed' PROVE DebtInv'
    BY DEF DebtInv
  <2>1. UNCHANGED <<disk, affected, stage, OnDisk, kind, quiet, cancelled>>
    BY <1>5 DEF DeleteMeta, tree, plan, feed, OnDisk
  <2>2. phase = "del_meta" /\ phase' = "stream"
    BY <1>5 DEF DeleteMeta
  <2>3. meta' = [f \in Files |-> IF f \in affected THEN Absent ELSE meta[f]]
    BY <1>5 DEF DeleteMeta, Outcome
  <2>4. \A f \in affected \cap OnDisk : stage[<<f, 1>>] = "todo"
    BY <2>1, <2>2 DEF DebtInv, Undisturbed
  <2>5. \A f \in affected : meta'[f] = disk'[f] \/ (f \in OnDisk' /\ stage'[<<f, 1>>] # "done")
    BY <2>1, <2>3, <2>4 DEF TypeOK, OnDisk
  <2> QED
    BY <2>1, <2>2, <2>5 DEF DebtInv
<1>6. ASSUME NEW i \in Items, ReadFile(i) PROVE DebtInv'
  <2> SUFFICES ASSUME Undisturbed' PROVE DebtInv'
    BY DEF DebtInv
  <2>1. /\ Undisturbed /\ UNCHANGED <<disk, affected, meta, metas, OnDisk, phase>>
        /\ stage[i] = "todo" /\ phase \in Streaming
    BY <1>6 DEF ReadFile, tree, plan, db, writer, Undisturbed, OnDisk
  <2>2. i[1] \in OnDisk
    BY <2>1 DEF PlanInv
  <2>3. stage' = [stage EXCEPT ![i] = "read"]
    BY <1>6, <2>2 DEF ReadFile, OnDisk
  <2>4. \A j \in Items : stage[j] # "done" => stage'[j] # "done"
    BY <2>3 DEF TypeOK
  <2>5. \A f \in affected : <<f, 1>> \in Items
    BY FirstItem DEF TypeOK
  <2> QED
    BY <2>1, <2>4, <2>5 DEF DebtInv, Deferred, Streaming
<1>7. ASSUME NEW i \in Items, StatFile(i) PROVE DebtInv'
  <2> SUFFICES ASSUME Undisturbed', Undisturbed PROVE DebtInv'
    BY <1>7 DEF DebtInv, StatFile, plan, Undisturbed
  <2>1. /\ UNCHANGED <<disk, affected, meta, metas, OnDisk, phase>>
        /\ stage[i] = "read"
    BY <1>7 DEF StatFile, tree, plan, db, writer, OnDisk
  <2>2. i[1] \in OnDisk /\ i[1] \in affected /\ i[2] = 1
    BY <2>1 DEF PlanInv
  <2>3. stage' = [stage EXCEPT ![i] = "parsed"]
    BY <1>7, <2>2 DEF StatFile, OnDisk
  <2>4. \A j \in Items : stage[j] # "done" => stage'[j] # "done"
    BY <2>3 DEF TypeOK
  <2>5. \A f \in affected : <<f, 1>> \in Items
    BY FirstItem DEF TypeOK
  <2>6. i = <<i[1], 1>>
    BY <2>2 DEF Items
  <2>7. phase \notin {"del_chunks", "del_meta"}
    BY <2>1, <2>2, <2>6 DEF DebtInv
  <2> QED
    BY <2>1, <2>4, <2>5, <2>7 DEF DebtInv, Deferred
<1>8. ASSUME NEW i \in Items, DropFile(i) PROVE DebtInv'
  BY <1>8 DEF DropFile, DebtInv, Undisturbed
<1>9. CASE (\E i \in Items : TakeFile(i)) \/ PushChunk \/ CloseStream \/ FlushBatch \/ EndFlush
  <2>1. /\ UNCHANGED <<disk, affected, meta, stage, metas, kind, quiet, cancelled>>
        /\ phase \in Streaming /\ phase' \in Streaming \cup {"finish"}
    BY <1>9 DEF TakeFile, PushChunk, CloseStream, FlushBatch, EndFlush, tree, plan, db,
                feed, writer, Streaming
  <2> QED
    BY <2>1, DebtKept, StaysUndisturbed DEF Streaming
<1>10. CASE DeferMeta
  <2> SUFFICES ASSUME Undisturbed', Undisturbed PROVE DebtInv'
    BY <1>10 DEF DebtInv, DeferMeta, plan, Undisturbed
  <2>1. /\ UNCHANGED <<disk, affected, meta, OnDisk>> /\ cur \in Items
        /\ phase = "stream" /\ phase' = "stream"
    BY <1>10 DEF DeferMeta, tree, plan, db, OnDisk, TypeOK
  <2>2. \A j \in Items \ {cur} : stage'[j] = stage[j]
    BY <1>10 DEF DeferMeta, Forget, TypeOK
  <2>3. metas \in Seq(Files \X Versions) /\ metas' = Append(metas, <<cur[1], stamp[cur]>>)
    BY <1>10 DEF DeferMeta, TypeOK
  <2>4. ASSUME NEW f, f = cur[1] PROVE Deferred(f)'
    <3>1. Len(metas) + 1 \in 1 .. Len(metas') /\ metas'[Len(metas) + 1] = <<cur[1], stamp[cur]>>
      BY <2>3
    <3> QED
      BY <2>4, <3>1 DEF Deferred
  <2>5. \A f \in Files : Deferred(f) => Deferred(f)'
    <3>1. \A n \in 1 .. Len(metas) : n \in 1 .. Len(metas') /\ metas'[n] = metas[n]
      BY <2>3
    <3> QED
      BY <3>1 DEF Deferred
  <2>6. ASSUME NEW f \in affected
        PROVE  meta'[f] = disk'[f] \/ (f \in OnDisk' /\ stage'[<<f, 1>>] # "done") \/ Deferred(f)'
    <3>1. f \in Files /\ <<f, 1>> \in Items
      BY FirstItem DEF TypeOK
    <3>2. meta[f] = disk[f] \/ (f \in OnDisk /\ stage[<<f, 1>>] # "done") \/ Deferred(f)
      BY <2>1 DEF DebtInv, Streaming
    <3>3. CASE <<f, 1>> = cur
      BY <2>4, <3>3
    <3>4. CASE <<f, 1>> # cur
      BY <2>1, <2>2, <2>5, <3>1, <3>2, <3>4
    <3> QED
      BY <3>3, <3>4
  <2> QED
    BY <2>1, <2>6 DEF DebtInv
<1>11. CASE CommitMeta
  <2> SUFFICES ASSUME Undisturbed' PROVE DebtInv'
    BY DEF DebtInv
  <2>1. /\ UNCHANGED <<disk, affected, stage, OnDisk>> /\ Undisturbed
        /\ phase = "metas" /\ phase' = "metas"
    BY <1>11 DEF CommitMeta, tree, plan, feed, OnDisk, Undisturbed
  <2>2. /\ metas \in Seq(Files \X Versions) /\ metas # <<>> /\ metas' = Tail(metas)
        /\ Head(metas) = metas[1] /\ 1 \in 1 .. Len(metas)
    BY <1>11 DEF CommitMeta, TypeOK
  <2>3. metas[1][2] = disk[metas[1][1]] /\ metas[1][1] \in Files
    BY <2>1, <2>2 DEF DeferredInv, OnDisk
  <2>4. meta' = [meta EXCEPT ![metas[1][1]] = metas[1][2]]
    BY <1>11, <2>2 DEF CommitMeta, Outcome
  <2>5. ASSUME NEW f \in affected
        PROVE  meta'[f] = disk'[f] \/ (f \in OnDisk' /\ stage'[<<f, 1>>] # "done") \/ Deferred(f)'
    <3>1. f \in Files
      BY DEF TypeOK
    <3>2. CASE f = metas[1][1]
      BY <2>1, <2>3, <2>4, <3>2 DEF TypeOK
    <3>3. CASE f # metas[1][1]
      <4>1. meta'[f] = meta[f]
        BY <2>4, <3>1, <3>3 DEF TypeOK
      <4>2. Deferred(f) => Deferred(f)'
        <5>1. ASSUME NEW n \in 1 .. Len(metas), metas[n][1] = f
              PROVE  n - 1 \in 1 .. Len(metas') /\ metas'[n - 1] = metas[n]
          BY <2>2, <3>3, <5>1
        <5> QED
          BY <5>1 DEF Deferred
      <4> QED
        BY <2>1, <4>1, <4>2 DEF DebtInv, Streaming
    <3> QED
      BY <3>2, <3>3
  <2> QED
    BY <2>1, <2>5 DEF DebtInv
<1>12. CASE UNCHANGED vars
  BY <1>12 DEF vars, tree, db, plan, feed, writer, DebtInv, Deferred, OnDisk, Undisturbed
<1> QED
  BY <1>1, <1>2, <1>3, <1>4, <1>5, <1>6, <1>7, <1>8, <1>9, <1>10, <1>11, <1>12
     DEF Next, Begin, Work, Finish, Bail, Abort

LEMMA EndStep ==
  ASSUME TypeOK, WriterInv, EndInv, [Next]_vars
  PROVE  EndInv'
<1> USE DEF EndInv, Ending
<1>1. CASE \E f \in Files : Edit(f)
  BY <1>1 DEF Edit, feed, writer
<1>2. CASE Begin \/ DeleteChunks \/ DeleteMeta
  BY <1>2 DEF Begin, StartRebuild, StartScan, StartExplicit, Start, DeleteChunks, DeleteMeta
<1>3. ASSUME NEW i \in Items, ReadFile(i) \/ StatFile(i) \/ DropFile(i)
      PROVE  EndInv'
  <2>1. UNCHANGED <<phase, cur>> /\ stage[i] # "done"
    BY <1>3 DEF ReadFile, StatFile, DropFile, writer
  <2> QED
    BY <2>1
<1>4. CASE (\E i \in Items : TakeFile(i)) \/ DeferMeta \/ EndRun
  BY <1>4 DEF TakeFile, DeferMeta, EndRun
<1>5. CASE PushChunk \/ CloseStream \/ FlushBatch \/ CommitMeta \/ EndFlush
  BY <1>5 DEF PushChunk, CloseStream, FlushBatch, CommitMeta, EndFlush, feed, writer
<1>6. CASE Cancel \/ UNCHANGED vars
  BY <1>6 DEF Cancel, vars, feed, writer
<1> QED
  BY <1>1, <1>2, <1>3, <1>4, <1>5, <1>6 DEF Next, Work, Finish, Bail, Abort

LEMMA ExactStep ==
  ASSUME TypeOK, WriterInv, PlanInv, ExactInv, ~SwallowedErrors, [Next]_vars
  PROVE  ExactInv'
<1>1. CASE (\E f \in Files : Edit(f)) \/ Cancel \/ EndRun
  BY <1>1, Disturbs DEF ExactInv
<1>2. CASE Begin
  BY <1>2 DEF Begin, StartRebuild, StartScan, StartExplicit, Start, ExactInv
<1>3. CASE DeleteChunks
  <2> SUFFICES ASSUME Undisturbed', kind' = "rebuild" PROVE rows' \cup batch' = {}
    BY DEF ExactInv
  <2>1. Undisturbed /\ kind = "rebuild" /\ batch' = {}
    BY <1>3 DEF DeleteChunks, Undisturbed, plan, writer, WriterInv
  <2>2. rows' = {w \in rows : w[1] \notin Files}
    BY <1>3, <2>1 DEF DeleteChunks, Outcome, PlanInv
  <2>3. \A w \in ChunkRows : w[1] \in Files
    BY ItemFile DEF ChunkRows, RowsOf, Row
  <2> QED
    BY <2>1, <2>2, <2>3 DEF TypeOK
<1>4. CASE PushChunk
  <2> SUFFICES ASSUME Undisturbed', kind' = "rebuild" PROVE rows' \cup batch' \subseteq Fresh'
    BY DEF ExactInv
  <2>1. /\ Undisturbed /\ kind = "rebuild" /\ phase = "stream" /\ UNCHANGED <<disk, rows>>
        /\ cur \in Items /\ stage[cur] = "parsed" /\ pushed < ChunksOf[cur[1]] /\ pushed \in Nat
        /\ batch' = batch \cup {Row(cur, content[cur], pushed + 1)}
    BY <1>4 DEF PushChunk, Undisturbed, plan, tree, db, TypeOK, WriterInv
  <2>2. cur[1] \in OnDisk /\ cur[2] = 1 /\ content[cur] = disk[cur[1]]
    BY <2>1 DEF PlanInv
  <2>3. ChunksOf[cur[1]] \in Nat
    BY <2>1, ItemFile
  <2>4. pushed + 1 \in 1 .. ChunksOf[cur[1]]
    BY <2>1, <2>3
  <2>5. Row(cur, content[cur], pushed + 1) = Row(<<cur[1], 1>>, disk[cur[1]], pushed + 1)
    BY <2>2 DEF Row
  <2>6. Row(cur, content[cur], pushed + 1) \in RowsOf(<<cur[1], 1>>, disk[cur[1]])
    BY <2>4, <2>5 DEF RowsOf
  <2>7. Row(cur, content[cur], pushed + 1) \in Fresh
    BY <2>2, <2>6 DEF Fresh
  <2>8. rows \cup batch \subseteq Fresh
    BY <2>1 DEF ExactInv
  <2>9. Fresh' = Fresh
    BY <2>1 DEF Fresh, OnDisk
  <2> QED
    BY <2>1, <2>7, <2>8, <2>9
<1>5. CASE FlushBatch
  BY <1>5 DEF FlushBatch, Outcome, ExactInv, Undisturbed, Fresh, OnDisk, plan, tree
<1>6. CASE \/ DeleteMeta \/ CloseStream \/ DeferMeta \/ CommitMeta \/ EndFlush \/ UNCHANGED vars
           \/ \E i \in Items : ReadFile(i) \/ StatFile(i) \/ DropFile(i) \/ TakeFile(i)
  <2>1. UNCHANGED <<disk, rows, batch, kind, quiet, cancelled>>
    BY <1>6 DEF DeleteMeta, CloseStream, DeferMeta, CommitMeta, EndFlush, ReadFile, StatFile,
                DropFile, TakeFile, tree, db, plan, writer, vars
  <2>2. phase' # "idle" /\ phase' # "del_chunks" => phase \notin {"idle", "del_chunks"}
    BY <1>6 DEF DeleteMeta, CloseStream, DeferMeta, CommitMeta, EndFlush, ReadFile, StatFile,
                DropFile, TakeFile, vars
  <2> QED
    BY <2>1, <2>2 DEF ExactInv, Undisturbed, Fresh, OnDisk
<1> QED
  BY <1>1, <1>2, <1>3, <1>4, <1>5, <1>6 DEF Next, Work, Finish, Bail, Abort

-----------------------------------------------------------------------------
Undone == PlanInv /\ DeferredInv /\ DebtInv /\ EndInv /\ ExactInv
CInv == IInv /\ Undone

LEMMA CInit == ASSUME Init PROVE CInv
<1>1. IInv
  BY InitInv
<1>2. ~Undisturbed /\ ~Ending
  BY DEF Init, AtRest, Undisturbed, Ending
<1> QED
  BY <1>1, <1>2 DEF CInv, Undone, PlanInv, DeferredInv, DebtInv, EndInv, ExactInv

LEMMA CStep ==
  ASSUME "del_meta" \notin AbortPhases, ~SwallowedErrors, CInv, [Next]_vars
  PROVE  CInv'
<1>1. IInv'
  BY TypeStep, FeedStep, WriterStep, MarkerStep DEF CInv, IInv
<1>2. PlanInv' /\ DeferredInv' /\ DebtInv' /\ EndInv' /\ ExactInv'
  BY PlanStep, DeferredStep, DebtStep, EndStep, ExactStep DEF CInv, IInv, Undone
<1> QED
  BY <1>1, <1>2 DEF CInv, Undone

(* A run that is over, completed or stopped after its last flush, leaves   *)
(* every file the stamp of the working tree.                               *)
LEMMA LastStep ==
  ASSUME phase = "finish", phase' = "idle", [Next]_vars
  PROVE  Finish \/ Abort
BY DEF Next, Begin, Work, vars, Edit, StartRebuild, StartScan, StartExplicit, Start,
       DeleteChunks, DeleteMeta, ReadFile, StatFile, DropFile, TakeFile, PushChunk,
       DeferMeta, CloseStream, FlushBatch, CommitMeta, EndFlush, Bail, Cancel, Streaming

Ends == phase = "finish" /\ phase' = "idle" /\ quiet /\ ~cancelled

LEMMA StampsAtEnd ==
  ASSUME ~SwallowedErrors, CInv, [Next]_vars, Ends, kind # "explicit"
  PROVE  UNCHANGED <<disk, rows>> /\ \A f \in Files : meta'[f] = disk[f]
<1>1. Undisturbed /\ UNCHANGED <<disk, rows>>
  BY LastStep DEF Ends, Finish, Abort, EndRun, Undisturbed, tree
<1>2. metas = <<>> /\ \A i \in Items : stage[i] = "done"
  BY DEF Ends, CInv, IInv, Undone, WriterInv, Streaming, EndInv, Ending
<1>3. \A f \in affected : ~Deferred(f)
  BY <1>2 DEF Deferred
<1>4. ASSUME NEW f \in Files PROVE meta[f] = disk[f]
  <2>1. CASE f \in affected
    <3>1. stage[<<f, 1>>] = "done"
      BY <1>2, FirstItem
    <3> QED
      BY <1>1, <1>3, <2>1, <3>1 DEF Ends, CInv, Undone, DebtInv
  <2>2. CASE f \notin affected
    BY <1>1, <2>2 DEF CInv, Undone, PlanInv
  <2> QED
    BY <2>1, <2>2
<1>5. ASSUME NEW f \in Files PROVE meta'[f] = disk[f]
  <2>1. CASE Finish
    <3>1. meta'[f] = IF f \in gone THEN Absent ELSE meta[f]
      BY <2>1 DEF Finish, Outcome
    <3>2. f \in gone => disk[f] = Absent
      BY <1>1 DEF CInv, Undone, PlanInv, OnDisk
    <3> QED
      BY <1>4, <3>1, <3>2
  <2>2. CASE Abort
    BY <1>4, <2>2 DEF Abort
  <2> QED
    BY <2>1, <2>2, LastStep DEF Ends
<1> QED
  BY <1>1, <1>5

(* A stamp of the commit marker names one copy with all its chunks.        *)
LEMMA DurableCopy ==
  ASSUME AtomicParse, NEW f \in Files, NEW v, NEW S, Durable(f, v, S)
  PROVE  \E n \in 1 .. MaxCopies : RowsOf(<<f, n>>, v) \subseteq S
<1>1. PICK i \in Items, c \in 1 .. v : i[1] = f /\ RowsOf(i, c) \subseteq S /\ c = v
  BY DEF Durable
<1>2. i = <<f, i[2]>> /\ i[2] \in 1 .. MaxCopies
  BY <1>1 DEF Items
<1> QED
  BY <1>1, <1>2

LEMMA SyncedAtEnd ==
  ASSUME AtomicParse, "del_meta" \notin AbortPhases, ~SwallowedErrors, CInv, CInv',
         [Next]_vars, Ends, kind # "explicit"
  PROVE  \A f \in Files : InSync(f)'
<1> SUFFICES ASSUME NEW f \in Files PROVE InSync(f)'
  OBVIOUS
<1>1. UNCHANGED <<disk, rows>> /\ meta'[f] = disk[f]
  BY StampsAtEnd
<1>2. CASE disk[f] = Absent
  BY <1>1, <1>2 DEF InSync
<1>3. CASE disk[f] # Absent
  <2>1. phase' = "idle"
    BY DEF Ends
  <2>2. Durable(f, meta'[f], rows')
    BY <1>1, <1>3, <2>1 DEF CInv, IInv, CommitMarker
  <2>3. Durable(f, disk[f], rows)
    BY <1>1, <2>2
  <2>4. \E n \in 1 .. MaxCopies : RowsOf(<<f, n>>, disk[f]) \subseteq rows
    BY <2>3, DurableCopy
  <2> QED
    BY <1>1, <1>3, <2>4 DEF InSync
<1> QED
  BY <1>2, <1>3

LEMMA ExactAtEnd ==
  ASSUME AtomicParse, "del_meta" \notin AbortPhases, ~SwallowedErrors, CInv, CInv',
         [Next]_vars, Ends, kind = "rebuild"
  PROVE  rows' = UNION {RowsOf(<<f, 1>>, disk[f]) : f \in OnDisk}
<1>1. UNCHANGED <<disk, rows>> /\ \A f \in Files : InSync(f)'
  BY StampsAtEnd, SyncedAtEnd
<1>2. rows \subseteq Fresh
  BY DEF CInv, Undone, ExactInv, Undisturbed, Ends
<1>3. ASSUME NEW f \in OnDisk PROVE RowsOf(<<f, 1>>, disk[f]) \subseteq rows
  <2>1. f \in Files /\ disk[f] # Absent
    BY DEF OnDisk
  <2>2. PICK n \in 1 .. MaxCopies : RowsOf(<<f, n>>, disk[f]) \subseteq rows
    BY <1>1, <2>1 DEF InSync
  <2>3. SUFFICES ASSUME NEW j \in 1 .. ChunksOf[f]
                 PROVE  <<f, disk[f], j, 1>> \in rows
    BY DEF RowsOf, Row
  <2>4. <<f, disk[f], j, n>> \in rows
    BY <2>2, <2>3 DEF RowsOf, Row
  <2>5. <<f, disk[f], j, n>> \in Fresh
    BY <1>2, <2>4
  <2>6. n = 1
    BY <2>5 DEF Fresh, RowsOf, Row
  <2> QED
    BY <2>4, <2>6
<1> QED
  BY <1>1, <1>2, <1>3 DEF Fresh

(* detect_changes and full_rebuild: for any history of edits, triggers,    *)
(* cancellations and interruptions, a rebuild or a scan with no edit       *)
(* meanwhile and never cancelled leaves the stamps and the chunks of the   *)
(* working tree.  Three assumptions: nothing stops a run between the two   *)
(* deletes, no statement of the writer fails unseen, and no edit falls     *)
(* between a file's read and its stat.                                     *)
THEOREM PipelineCatchesUp ==
  ASSUME "del_meta" \notin AbortPhases, ~SwallowedErrors, AtomicParse
  PROVE  Spec => RunCatchesUp
<1>1. Init => CInv
  BY CInit
<1>2. CInv /\ [Next]_vars => CInv'
  BY CStep
<1>3. CInv /\ CInv' /\ [Next]_vars =>
        [phase = "finish" /\ phase' = "idle" /\ kind # "explicit" /\ quiet /\ ~cancelled
         => \A f \in Files : InSync(f)']_vars
  BY SyncedAtEnd DEF Ends
<1> QED
  BY <1>1, <1>2, <1>3, PTL DEF Spec, RunCatchesUp

(* full_rebuild: such a rebuild leaves nothing else in the table either.   *)
THEOREM PipelineRebuildsExactly ==
  ASSUME "del_meta" \notin AbortPhases, ~SwallowedErrors, AtomicParse
  PROVE  Spec => RebuildIsExact
<1>1. Init => CInv
  BY CInit
<1>2. CInv /\ [Next]_vars => CInv'
  BY CStep
<1>3. CInv /\ CInv' /\ [Next]_vars =>
        [phase = "finish" /\ phase' = "idle" /\ kind = "rebuild" /\ quiet /\ ~cancelled
         => rows' = UNION {RowsOf(<<f, 1>>, disk[f]) : f \in OnDisk}]_vars
  BY ExactAtEnd DEF Ends
<1> QED
  BY <1>1, <1>2, <1>3, PTL DEF Spec, RebuildIsExact

=============================================================================
